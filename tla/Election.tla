------------------------------ MODULE Election ------------------------------
(***************************************************************************)
(* What a leader election promises, as a user of the library sees it: the  *)
(* participants stand in line, whoever is first may be made the leader,    *)
(* and who leaves the line does not lead any more.  A ticket is a place in *)
(* the line; in etcd it is the creation revision of a participant's node.  *)
(* Being first does not make one a leader: somebody has to find it out.    *)
(***************************************************************************)
EXTENDS Naturals

CONSTANTS Participants, Tickets

VARIABLES
  ticket,    \* ticket[p]: the place of p, 0 if p is not in line
  leaders    \* the participants that lead

vars == <<ticket, leaders>>

InLine(p) == ticket[p] # 0

First(p) == InLine(p) /\ \A q \in Participants : InLine(q) => ticket[p] <= ticket[q]

Init ==
  /\ ticket = [p \in Participants |-> 0]
  /\ leaders = {}

\* p goes to the end of the line.
Enter(p) ==
  /\ ~InLine(p)
  /\ \E t \in Tickets :
       /\ \A q \in Participants : ticket[q] < t
       /\ ticket' = [ticket EXCEPT ![p] = t]
  /\ UNCHANGED leaders

\* p gives up its place, wherever in the line it is, or loses it.
Leave(p) ==
  /\ InLine(p)
  /\ ticket' = [ticket EXCEPT ![p] = 0]
  /\ leaders' = leaders \ {p}

Win(p) ==
  /\ First(p)
  /\ leaders' = leaders \cup {p}
  /\ UNCHANGED ticket

\* p stops to lead and keeps its place.
StepDown(p) ==
  /\ leaders' = leaders \ {p}
  /\ UNCHANGED ticket

Next == \E p \in Participants : Enter(p) \/ Leave(p) \/ Win(p) \/ StepDown(p)

Spec == Init /\ [][Next]_vars

-----------------------------------------------------------------------------
(* Properties.                                                             *)

\* Nobody overtakes a leader: a leader is first in line, so there is only one.
LeaderIsFirst == \A p \in leaders : First(p)

OneLeader == \A p, q \in leaders : p = q
=============================================================================
