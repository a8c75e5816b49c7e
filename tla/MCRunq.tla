------------------------------- MODULE MCRunq -------------------------------
(* An instance of Runq for TLC.                                            *)
EXTENDS Runq, TLC

Full == [k \in 1 .. Len256 + 1 |-> k]

\* The owner of a full ring and a thief; two thieves; and few goroutines, with
\* somebody who asks whether there are any.
MCStarts == {[busy |-> 2, queued |-> Full, ready |-> 2, checks |-> 0],
             [busy |-> 3, queued |-> Full, ready |-> 0, checks |-> 0],
             [busy |-> 3, queued |-> <<1, 2, 3>>, ready |-> 1, checks |-> 0],
             [busy |-> 2, queued |-> <<1>>, ready |-> 3, checks |-> 1]}

Symmetric == Permutations(P)

=============================================================================
