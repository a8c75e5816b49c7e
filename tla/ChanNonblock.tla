---------------------------- MODULE ChanNonblock ----------------------------
(***************************************************************************)
(* When may a non-blocking operation give up?  chansend and chanrecv decide *)
(* it on a fast path from loads without the lock, and their comments argue  *)
(* that the loads imply a moment, during the call, when the channel was     *)
(* open and not ready.  This module adds to Chan the history variable that  *)
(* records whether there was such a moment.                                 *)
(***************************************************************************)
EXTENDS Chan

\* busy[g]: at some moment of g's current or last call no case was ready.
VARIABLE busy

\* Case i of g cannot proceed: its channel is open, and nobody is there to take
\* or to give an element, and neither is the buffer.
NotReadyCase(g, i) ==
  LET c == CaseChan(g, i)
  IN  c # Nil =>
        /\ ~closed[c]
        /\ CaseDir(g, i) = "send" => qcount[c] = dataqsiz[c] /\ Live(recvq[c]) = {}
        /\ CaseDir(g, i) = "recv" => qcount[c] = 0 /\ Live(sendq[c]) = {}

NotReady(g) == \A i \in DOMAIN op[g].cases : NotReadyCase(g, i)

Record(g) ==
  IF calls'[g] # calls[g] THEN NotReady(g)'
  ELSE busy[g] \/ (pc[g] # "idle" /\ NotReady(g)')

nvars == <<vars, busy>>
NInit == Init /\ busy = [g \in G |-> FALSE]
NNext == Next /\ busy' = [g \in G |-> Record(g)]
NSpec == NInit /\ [][NNext]_nvars

\* g has just returned "would block".
GaveUp(g) == pc[g] = "idle" /\ ret[g] = NotDone

\* A non-blocking send on a buffered channel, a non-blocking receive, and a
\* select with a default give up only if, at one moment of the call, none of
\* their cases could proceed: the moment the comments in chansend and chanrecv
\* argue for, and the one selectgo has by holding every lock.
DefaultJustified ==
  \A g \in G : GaveUp(g) =>
    \/ busy[g]
    \/ /\ op[g].kind = "chan" /\ CaseDir(g, 1) = "send"
       /\ Ch(g) # Nil /\ dataqsiz[Ch(g)] = 0

\* The comment on chansend's fast path, without the exception: after loading
\* c.closed == 0 and then finding the channel full, there was "a moment between
\* the two when the channel was both not yet closed and not ready for sending".
SendDefaultJustified ==
  \A g \in G : GaveUp(g) /\ op[g].kind = "chan" /\ CaseDir(g, 1) = "send" => busy[g]

=============================================================================
