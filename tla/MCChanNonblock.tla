--------------------------- MODULE MCChanNonblock ---------------------------
(* Instances of ChanNonblock for TLC.                                      *)
EXTENDS ChanNonblock, ChanRefinement, TLC

Chans1 == {1}
Chans2 == {1, 2}

Unbuffered == [c \in Channel |-> 0]
Mixed      == [c \in Channel |-> c - 1]

One(k, b, c, d) == [kind |-> k, block |-> b, cases |-> <<[c |-> c, dir |-> d]>>]

ChanOps == {One("chan", b, c, d) : b \in BOOLEAN, c \in Channel, d \in Dir}
             \cup {One("close", TRUE, c, "send") : c \in Channel}

Select(b, c, d) == [kind |-> "select", block |-> b,
                    cases |-> <<[c |-> c, dir |-> "recv"], [c |-> d, dir |-> "send"]>>]

\* With selects that have a default or that may leave stale sudogs behind, and
\* with operations on the nil channel.
MixedOps ==
  ChanOps
    \cup {Select(b, 1, 2) : b \in BOOLEAN}
    \cup {Select(FALSE, Nil, 1), Select(TRUE, Nil, Nil), One("close", TRUE, Nil, "send")}
    \cup {One("chan", b, Nil, "send") : b \in BOOLEAN}

Symmetric == Permutations(G)

=============================================================================
