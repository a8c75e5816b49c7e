------------------------------- MODULE MCChan -------------------------------
(* Instances of Chan and its refinement for TLC.                           *)
EXTENDS ChanRefinement, ChanInv, TLC

Chans2 == {1, 2}

\* The first channel is unbuffered, the second has room for one or two elements.
Mixed  == [c \in Channel |-> c - 1]
Mixed2 == [c \in Channel |-> 2 * (c - 1)]

One(k, b, c, d) == [kind |-> k, block |-> b, cases |-> <<[c |-> c, dir |-> d]>>]
Select(b, cs)   == [kind |-> "select", block |-> b, cases |-> cs]
S(c) == [c |-> c, dir |-> "send"]
R(c) == [c |-> c, dir |-> "recv"]

\* Selects over two channels against plain operations on each.
SelectOps ==
  {Select(TRUE, <<R(2), S(1)>>), Select(TRUE, <<S(2), R(1)>>),
   Select(TRUE, <<R(1), S(1)>>),
   One("chan", TRUE, 1, "recv"), One("close", TRUE, 2, "send")}

\* Operations of every kind, called several times: what one leaves behind meets
\* the next, and the buffer of channel 2 fills, wraps and drains.
ReuseOps ==
  {Select(TRUE, <<R(2), S(1)>>), Select(FALSE, <<R(1), S(Nil)>>), One("chan", TRUE, 1, "recv")}
    \cup {One("chan", b, 2, d) : b \in BOOLEAN, d \in Dir}
    \cup {One("close", TRUE, c, "send") : c \in {2, Nil}}

Symmetric == Permutations(G)

=============================================================================
