-------------------------------- MODULE MCFD --------------------------------
(***************************************************************************)
(* FD with a goroutine that reads or writes, one that sets deadlines or    *)
(* reads, and one that closes.                                             *)
(***************************************************************************)
EXTENDS FD

CONSTANTS g1, g2, g3, f1, f2

Read(f)         == [kind |-> "io", f |-> f, modes |-> {"r"}, d |-> 0]
Write(f)        == [kind |-> "io", f |-> f, modes |-> {"w"}, d |-> 0]
SetDl(f, ms, d) == [kind |-> "deadline", f |-> f, modes |-> ms, d |-> d]
CloseFd(f)      == [kind |-> "close", f |-> f, modes |-> {}, d |-> 0]

MCG   == {g1, g2, g3}
MCF   == {f1, f2}
MCOps == [g \in MCG |->
  CASE g = g1 -> {Read(f1), Write(f1), Read(f2)}
    [] g = g2 -> {SetDl(f1, Mode, 1), SetDl(f1, {"r"}, 2), SetDl(f2, Mode, 2), Read(f1)}
    [] g = g3 -> {SetDl(f1, {"r"}, -1), CloseFd(f1)}]

=============================================================================
