------------------------ MODULE LeaderElectionProofs ------------------------
(***************************************************************************)
(* For any number of processes: the programs implement the election that   *)
(* Election describes.                                                     *)
(***************************************************************************)
EXTENDS LeaderElection, FiniteSetTheorems, WellFoundedInduction, TLAPS

-----------------------------------------------------------------------------
(* The inductive invariant.                                                *)

\* The types, but for the bound on revision, which takes a count of the processes.
Types ==
  /\ pc \in [Processes -> {"start", "no_session", "constructed", "campaigning", "waiting",
                           "won", "resigning", "revoking", "done", "unwinding"} \cup Ended]
  /\ interrupt \in [Processes -> BOOLEAN]
  /\ lease \in [Processes -> {"none", "live", "gone"}]
  /\ revision \in Nat /\ faults \in 0..MaxFaults
  /\ node \in [Processes -> 0..revision] /\ place \in [Processes -> 0..revision]
  /\ elected \in [Processes -> BOOLEAN]
  /\ fut \in [Processes -> {"pending", "true", "false"}]
  /\ broken \in [Processes -> {"no", "stream", "leak"}]

\* The types of the observing program.
WatcherTypes ==
  /\ watcher \in {"start", "running", "exit_ok", "crashed"}
  /\ observing \in BOOLEAN /\ calling \in BOOLEAN
  /\ view \in Processes \cup {NoLeader} /\ shown \in Processes \cup {NoLeader}

\* Main() has not reached campaign().
Outside(p) == pc[p] \in {"start", "no_session", "constructed"}

\* Each place in line is taken once, by one process, which knows no other: what p
\* remembers of its node may be outdated but is never the place of somebody else.
OwnPlace ==
  /\ \A p \in Processes : Outside(p) => node[p] = 0 /\ place[p] = 0
  /\ \A p \in Processes : node[p] # 0 /\ place[p] # 0 => node[p] = place[p]
  /\ \A p, q \in Processes : node[p] # 0 /\ node[p] = node[q] => p = q

\* Nobody older is in line when a candidate thinks it is elected: new nodes are younger.
ElectedIsOldest == \A p \in Processes : elected[p] => place[p] # 0 /\ NoneOlder(p)

\* Every process creates at most one node.
Entered == {p \in Processes : ~Outside(p)}
RevisionIsBounded == revision <= Cardinality(Entered)

ElectionInv == Types /\ WatcherTypes /\ OwnPlace /\ ElectedIsOldest /\ RevisionIsBounded

-----------------------------------------------------------------------------
(* Lemmas about the operators.                                             *)

\* Every set of numbers has a least one.
LEMMA LeastNumber ==
  ASSUME NEW S, S \subseteq Nat, S # {}
  PROVE  \E m \in S : \A n \in S : m <= n
<1>1. IsWellFoundedOn(OpToRel(<, Nat), Nat)
  BY NatLessThanWellFounded
<1>2. PICK m \in S : \A n \in S : ~(<<n, m>> \in OpToRel(<, Nat))
  BY <1>1, WFMin
<1>3. \A n \in S : ~(n < m)
  BY <1>2 DEF OpToRel
<1> QED
  BY <1>3

\* The observer shows a process in line that no other process in line precedes, or
\* nobody if the line is empty.
LEMMA CurrentLeaderLeads ==
  ASSUME Types, InLine # {}
  PROVE  CurrentLeader \in InLine /\ \A q \in InLine : node[CurrentLeader] <= node[q]
<1> DEFINE S == {node[p] : p \in InLine}
<1>1. S \subseteq Nat /\ S # {}
  BY DEF Types, InLine
<1>2. PICK m \in S : \A n \in S : m <= n
  BY <1>1, LeastNumber
<1>3. PICK p \in InLine : node[p] = m
  BY <1>2
<1>4. \A q \in InLine : node[p] <= node[q]
  BY <1>2, <1>3
<1> HIDE DEF S
<1> QED
  BY <1>4 DEF CurrentLeader

\* What the observer shows is a process or nobody.
LEMMA CurrentLeaderType ==
  ASSUME Types
  PROVE  CurrentLeader \in Processes \cup {NoLeader}
<1>1. CASE InLine = {}
  BY <1>1 DEF CurrentLeader
<1>2. CASE InLine # {}
  BY <1>2, CurrentLeaderLeads DEF InLine
<1> QED
  BY <1>1, <1>2

\* A process that leads is the one that the observer shows.
LEMMA LeaderIsCurrent ==
  ASSUME Types, OwnPlace, ElectedIsOldest, NEW p \in Leaders
  PROVE  p = CurrentLeader
<1>1. p \in InLine /\ p \in Processes /\ elected[p] /\ node[p] # 0
  BY DEF Leaders, InLine
<1> DEFINE c == CurrentLeader
<1>2. c \in Processes /\ node[c] # 0 /\ node[c] <= node[p]
  BY <1>1, CurrentLeaderLeads DEF InLine
<1> HIDE DEF c
<1>3. node[p] <= node[c]
  BY <1>1, <1>2 DEF ElectedIsOldest, NoneOlder, OwnPlace
<1>4. node[p] = node[c]
  BY <1>1, <1>2, <1>3 DEF Types
<1> QED
  BY <1>1, <1>2, <1>4 DEF OwnPlace, c

\* The bound on revision survives a step that creates no node and brings nobody back to
\* before campaign(), and one in which a process passes campaign() and creates one.
LEMMA EnteredGrows ==
  ASSUME RevisionIsBounded, revision \in Nat, Entered \subseteq Entered',
         \/ revision' = revision
         \/ revision' = revision + 1 /\ Entered' \ Entered # {}
  PROVE  RevisionIsBounded'
<1>1. /\ IsFiniteSet(Processes) /\ Entered \subseteq Processes /\ Entered' \subseteq Processes
  BY ElectionAssumption DEF Entered
<1>2. IsFiniteSet(Entered) /\ IsFiniteSet(Entered')
  BY <1>1, FS_Subset
<1>3. /\ Cardinality(Entered) \in Nat /\ Cardinality(Entered') \in Nat
      /\ Cardinality(Entered) <= Cardinality(Entered')
      /\ Cardinality(Entered) = Cardinality(Entered') => Entered = Entered'
  BY <1>2, FS_Subset, FS_CardinalityType
<1> QED
  BY <1>3 DEF RevisionIsBounded

-----------------------------------------------------------------------------
(* The invariant is inductive.                                             *)

\* Nobody is in line when the programs start.
LEMMA InitElectionInv == Init => ElectionInv
<1> SUFFICES ASSUME Init PROVE ElectionInv
  OBVIOUS
<1>1. Types
  BY ElectionAssumption DEF Init, Types
<1>2. WatcherTypes
  BY DEF Init, WatcherTypes
<1>3. OwnPlace /\ ElectedIsOldest
  BY DEF Init, OwnPlace, ElectedIsOldest
<1>4. RevisionIsBounded
  <2>1. Entered = {}
    BY DEF Init, Entered, Outside
  <2> QED
    BY <2>1, FS_EmptySet DEF Init, RevisionIsBounded
<1> QED
  BY <1>1, <1>2, <1>3, <1>4 DEF ElectionInv

\* What a process, its session or its candidate does keeps the types.
LEMMA ProcessTypes ==
  ASSUME Types, NEW p \in Processes,
         Main(p) \/ signal_handler(p) \/ LeaseExpires(p) \/ Win(p) \/ Abort(p)
  PROVE  Types'
<1> USE ElectionAssumption DEF Types, Fault, EndLease, Ended
<1>1. CASE NewLeaderElection(p)
  BY <1>1 DEF NewLeaderElection
<1>2. CASE campaign(p)
  BY <1>2 DEF campaign
<1>3. CASE InstallHandlers(p)
  BY <1>3 DEF InstallHandlers
<1>4. CASE WaitForResult(p)
  BY <1>4 DEF WaitForResult
<1>5. CASE WaitForInterrupt(p)
  BY <1>5 DEF WaitForInterrupt
<1>6. CASE resign(p)
  <2>1. elected' = elected \/ elected' = [elected EXCEPT ![p] = FALSE]
    BY <1>6 DEF resign
  <2>2. elected' \in [Processes -> BOOLEAN]
    BY <2>1
  <2>3. fut' \in [Processes -> {"pending", "true", "false"}]
    BY <1>6 DEF resign
  <2> QED
    BY <1>6, <2>2, <2>3 DEF resign
<1>7. CASE revoke(p)
  BY <1>7 DEF revoke
<1>8. CASE Exit(p)
  BY <1>8 DEF Exit
<1>9. CASE signal_handler(p)
  BY <1>9 DEF signal_handler
<1>10. CASE LeaseExpires(p)
  BY <1>10 DEF LeaseExpires
<1>11. CASE Win(p)
  BY <1>11 DEF Win
<1>12. CASE Abort(p)
  <2>1. elected' = elected \/ elected' = [elected EXCEPT ![p] = FALSE]
    BY <1>12 DEF Abort
  <2>2. elected' \in [Processes -> BOOLEAN]
    BY <2>1
  <2>3. fut' \in [Processes -> {"pending", "true", "false"}]
    BY <1>12 DEF Abort
  <2> QED
    BY <1>12, <2>2, <2>3 DEF Abort
<1> QED
  BY <1>1, <1>2, <1>3, <1>4, <1>5, <1>6, <1>7, <1>8, <1>9, <1>10, <1>11, <1>12 DEF Main

\* Only campaign() gives a process a place, and that place is a new one.
LEMMA ProcessPlaces ==
  ASSUME Types, OwnPlace, NEW p \in Processes,
         Main(p) \/ signal_handler(p) \/ LeaseExpires(p) \/ Win(p) \/ Abort(p)
  PROVE  OwnPlace'
<1> USE DEF Types, OwnPlace, Outside, Ended, EndLease
<1>1. CASE NewLeaderElection(p)
  BY <1>1 DEF NewLeaderElection
<1>2. CASE campaign(p)
  BY <1>2 DEF campaign
<1>3. CASE InstallHandlers(p)
  BY <1>3 DEF InstallHandlers
<1>4. CASE WaitForResult(p)
  BY <1>4 DEF WaitForResult
<1>5. CASE WaitForInterrupt(p)
  BY <1>5 DEF WaitForInterrupt
<1>6. CASE resign(p)
  BY <1>6 DEF resign
<1>7. CASE revoke(p)
  BY <1>7 DEF revoke
<1>8. CASE Exit(p)
  BY <1>8 DEF Exit
<1>9. CASE signal_handler(p)
  BY <1>9 DEF signal_handler
<1>10. CASE LeaseExpires(p)
  BY <1>10 DEF LeaseExpires
<1>11. CASE Win(p)
  BY <1>11 DEF Win
<1>12. CASE Abort(p)
  BY <1>12 DEF Abort
<1> QED
  BY <1>1, <1>2, <1>3, <1>4, <1>5, <1>6, <1>7, <1>8, <1>9, <1>10, <1>11, <1>12 DEF Main

\* A candidate is elected only when nobody older is in line, and who comes later is
\* younger.
LEMMA ProcessElections ==
  ASSUME Types, OwnPlace, ElectedIsOldest, NEW p \in Processes,
         Main(p) \/ signal_handler(p) \/ LeaseExpires(p) \/ Win(p) \/ Abort(p)
  PROVE  ElectedIsOldest'
<1> USE DEF Types, OwnPlace, ElectedIsOldest, NoneOlder, Outside, Ended, EndLease
<1>1. CASE NewLeaderElection(p)
  BY <1>1 DEF NewLeaderElection
<1>2. CASE campaign(p)
  BY <1>2 DEF campaign
<1>3. CASE InstallHandlers(p)
  BY <1>3 DEF InstallHandlers
<1>4. CASE WaitForResult(p)
  BY <1>4 DEF WaitForResult
<1>5. CASE WaitForInterrupt(p)
  BY <1>5 DEF WaitForInterrupt
<1>6. CASE resign(p)
  BY <1>6 DEF resign
<1>7. CASE revoke(p)
  BY <1>7 DEF revoke
<1>8. CASE Exit(p)
  BY <1>8 DEF Exit
<1>9. CASE signal_handler(p)
  BY <1>9 DEF signal_handler
<1>10. CASE LeaseExpires(p)
  BY <1>10 DEF LeaseExpires
<1>11. CASE Win(p)
  BY <1>11 DEF Win
<1>12. CASE Abort(p)
  BY <1>12 DEF Abort
<1> QED
  BY <1>1, <1>2, <1>3, <1>4, <1>5, <1>6, <1>7, <1>8, <1>9, <1>10, <1>11, <1>12 DEF Main

\* A process that has passed campaign() does not come back to it.
LEMMA ProcessRevisions ==
  ASSUME Types, RevisionIsBounded, NEW p \in Processes,
         Main(p) \/ signal_handler(p) \/ LeaseExpires(p) \/ Win(p) \/ Abort(p)
  PROVE  RevisionIsBounded'
<1> USE DEF Types, Entered, Outside, Ended, EndLease
<1>a. ASSUME pc' = pc, revision' = revision PROVE RevisionIsBounded'
  BY <1>a DEF RevisionIsBounded
<1>b. ASSUME NEW s, s # "start", s # "constructed", s # "no_session",
             pc' = [pc EXCEPT ![p] = s], revision' = revision
      PROVE  RevisionIsBounded'
  <2>1. Entered \subseteq Entered'
    BY <1>b
  <2> QED
    BY <1>b, <2>1, EnteredGrows
<1>1. CASE NewLeaderElection(p)
  <2>1. Entered \subseteq Entered' /\ revision' = revision
    BY <1>1 DEF NewLeaderElection
  <2> QED
    BY <2>1, EnteredGrows
<1>2. CASE campaign(p)
  <2>1. Entered \subseteq Entered'
    BY <1>2 DEF campaign
  <2>2. revision' = revision \/ revision' = revision + 1
    BY <1>2 DEF campaign
  <2>3. p \in Entered' \ Entered
    BY <1>2 DEF campaign
  <2> QED
    BY <2>1, <2>2, <2>3, EnteredGrows
<1>3. CASE InstallHandlers(p)
  BY <1>3, <1>a, <1>b DEF InstallHandlers
<1>4. CASE WaitForResult(p)
  BY <1>4, <1>a, <1>b DEF WaitForResult
<1>5. CASE WaitForInterrupt(p)
  BY <1>5, <1>a, <1>b DEF WaitForInterrupt
<1>6. CASE resign(p)
  BY <1>6, <1>a, <1>b DEF resign
<1>7. CASE revoke(p)
  BY <1>7, <1>a, <1>b DEF revoke
<1>8. CASE Exit(p)
  BY <1>8, <1>a, <1>b DEF Exit
<1>9. CASE signal_handler(p)
  BY <1>9, <1>a, <1>b DEF signal_handler
<1>10. CASE LeaseExpires(p)
  BY <1>10, <1>a, <1>b DEF LeaseExpires
<1>11. CASE Win(p)
  BY <1>11, <1>a, <1>b DEF Win
<1>12. CASE Abort(p)
  BY <1>12, <1>a, <1>b DEF Abort
<1> QED
  BY <1>1, <1>2, <1>3, <1>4, <1>5, <1>6, <1>7, <1>8, <1>9, <1>10, <1>11, <1>12 DEF Main

\* The observing program leaves the processes alone, but for the faults it meets.
LEMMA ObserverLeavesAlone ==
  ASSUME ElectionInv, Observe
  PROVE  Types' /\ OwnPlace' /\ ElectedIsOldest' /\ RevisionIsBounded'
<1>1. /\ UNCHANGED <<pc, interrupt, lease, node, place, elected, fut, broken, revision>>
      /\ faults' = faults \/ Fault
  BY DEF Observe, Startup, Follow, Notify, Disconnect, ShutdownWatcher, processVars
<1>2. faults' \in 0..MaxFaults
  BY <1>1, ElectionAssumption DEF ElectionInv, Types, Fault
<1>3. Types' /\ OwnPlace' /\ ElectedIsOldest'
  BY <1>1, <1>2 DEF ElectionInv, Types, OwnPlace, ElectedIsOldest, NoneOlder, Outside
<1>4. RevisionIsBounded'
  BY <1>1 DEF ElectionInv, RevisionIsBounded, Entered, Outside
<1> QED
  BY <1>3, <1>4

\* What the observing program does keeps its types.
LEMMA ObserverTypes ==
  ASSUME ElectionInv, Observe
  PROVE  WatcherTypes'
<1> USE DEF ElectionInv, WatcherTypes
<1>0. CurrentLeader \in Processes \cup {NoLeader}
  BY CurrentLeaderType
<1>1. CASE Startup \/ Disconnect
  BY <1>1 DEF Startup, Disconnect
<1>2. CASE Follow \/ Notify
  BY <1>0, <1>2 DEF Follow, Notify
<1>3. CASE ShutdownWatcher
  BY <1>3 DEF ShutdownWatcher
<1> QED
  BY <1>1, <1>2, <1>3 DEF Observe

\* Every step keeps the invariant.
LEMMA NextElectionInv == ElectionInv /\ [Next]_vars => ElectionInv'
<1> SUFFICES ASSUME ElectionInv, [Next]_vars PROVE ElectionInv'
  OBVIOUS
<1>1. ASSUME NEW p \in Processes,
             Main(p) \/ signal_handler(p) \/ LeaseExpires(p) \/ Win(p) \/ Abort(p)
      PROVE  ElectionInv'
  <2>1. UNCHANGED watcherVars
    BY <1>1 DEF Main, NewLeaderElection, campaign, InstallHandlers, WaitForResult,
       WaitForInterrupt, resign, revoke, Exit, signal_handler, LeaseExpires, Win, Abort
  <2>2. WatcherTypes'
    BY <2>1 DEF watcherVars, ElectionInv, WatcherTypes
  <2> QED
    BY <1>1, <2>2, ProcessTypes, ProcessPlaces, ProcessElections, ProcessRevisions
       DEF ElectionInv
<1>2. CASE Observe
  BY <1>2, ObserverLeavesAlone, ObserverTypes DEF ElectionInv
<1>3. CASE UNCHANGED vars
  BY <1>3 DEF vars, processVars, watcherVars, ElectionInv, Types, WatcherTypes, OwnPlace,
     ElectedIsOldest, NoneOlder, Outside, RevisionIsBounded, Entered
<1> QED
  BY <1>1, <1>2, <1>3 DEF Next

\* ElectionInv holds in every reachable state of the programs.
LEMMA ElectionInvariance == Spec => []ElectionInv
  BY InitElectionInv, NextElectionInv, PTL DEF Spec

\* There are never more places than processes.
LEMMA RevisionBound ==
  ASSUME ElectionInv
  PROVE  revision \in 0..Cardinality(Processes)
<1>1. IsFiniteSet(Processes) /\ Entered \subseteq Processes
  BY ElectionAssumption DEF Entered
<1>2. Cardinality(Entered) <= Cardinality(Processes) /\ Cardinality(Entered) \in Nat
  BY <1>1, FS_Subset, FS_CardinalityType
<1>3. Cardinality(Processes) \in Nat
  BY <1>1, FS_CardinalityType
<1> QED
  BY <1>2, <1>3 DEF ElectionInv, Types, RevisionIsBounded

-----------------------------------------------------------------------------
(* The theorems.                                                           *)

\* The programs and etcd stay in the states that they are meant to be in; no process
\* creates a second node, however the attempts of its main() end.
THEOREM TypeCorrect == Spec => []TypeOK
<1>1. ElectionInv => TypeOK
  BY RevisionBound DEF ElectionInv, Types, WatcherTypes, TypeOK
<1> QED
  BY <1>1, ElectionInvariance, PTL

\* Who leads is first in line.
LEMMA LeadersAreFirst == ElectionInv => Promise!LeaderIsFirst
  BY DEF ElectionInv, Promise!LeaderIsFirst, Promise!First, Promise!InLine, Leaders, Types,
     OwnPlace, ElectedIsOldest, NoneOlder

-----------------------------------------------------------------------------
(* Refinement: each step of the programs is a step of Election or none.    *)

\* A step that changes neither the line nor who thinks it is elected is no step.
LEMMA StutterStep ==
  ASSUME UNCHANGED <<node, elected>>
  PROVE  UNCHANGED Promise!vars
BY DEF Promise!vars, Leaders

\* Whoever loses its lease leaves the line, if it was in it.
LEMMA LeaseEnds ==
  ASSUME Types, NEW p \in Processes, EndLease(p), elected' = elected
  PROVE  [Promise!Next]_Promise!vars
<1>1. CASE node[p] = 0
  <2>1. node' = node
    BY <1>1 DEF EndLease, Types
  <2> QED
    BY <2>1, StutterStep
<1>2. CASE node[p] # 0
  <2>1. Leaders' = Leaders \ {p}
    BY <1>2 DEF EndLease, Types, Leaders
  <2>2. Promise!Leave(p)
    BY <1>2, <2>1 DEF EndLease, Promise!Leave, Promise!InLine
  <2> QED
    BY <2>2 DEF Promise!Next
<1> QED
  BY <1>1, <1>2

\* A candidate that stops being elected keeps its place.
LEMMA ElectionEnds ==
  ASSUME Types, NEW p \in Processes, elected' = [elected EXCEPT ![p] = FALSE], node' = node
  PROVE  [Promise!Next]_Promise!vars
<1>1. Leaders' = Leaders \ {p}
  BY DEF Types, Leaders
<1>2. Promise!StepDown(p)
  BY <1>1 DEF Promise!StepDown
<1> QED
  BY <1>2 DEF Promise!Next

\* campaign() puts a process at the end of the line, which has room for all.
LEMMA CampaignEnters ==
  ASSUME ElectionInv, TypeOK', NEW p \in Processes, campaign(p)
  PROVE  [Promise!Next]_Promise!vars
<1>1. CASE UNCHANGED <<node, elected>>
  BY <1>1, StutterStep
<1>2. CASE /\ revision' = revision + 1 /\ elected' = elected
           /\ node' = [node EXCEPT ![p] = revision + 1]
  <2>1. /\ revision' = revision + 1 /\ elected' = elected
        /\ node' = [node EXCEPT ![p] = revision + 1]
    BY <1>2
  <2>2. revision + 1 \in 1..Cardinality(Processes)
    BY <2>1 DEF TypeOK, ElectionInv, Types
  <2>3. \A q \in Processes : node[q] < revision + 1
    BY DEF ElectionInv, Types
  <2>4. node[p] = 0 /\ place[p] = 0 /\ ~elected[p]
    BY DEF campaign, ElectionInv, OwnPlace, Outside, ElectedIsOldest
  <2>5. Leaders' = Leaders
    BY <2>1, <2>4 DEF Leaders, ElectionInv, Types
  <2>6. Promise!Enter(p)
    BY <2>1, <2>2, <2>3, <2>4, <2>5 DEF Promise!Enter, Promise!InLine
  <2> QED
    BY <2>6 DEF Promise!Next
<1> QED
  BY <1>1, <1>2 DEF campaign

\* A candidate that finds nobody older wins, if its node is still there.
LEMMA WinWins ==
  ASSUME ElectionInv, NEW p \in Processes, Win(p)
  PROVE  [Promise!Next]_Promise!vars
<1>1. elected' = [elected EXCEPT ![p] = TRUE] /\ node' = node
  BY DEF Win
<1>2. CASE node[p] = 0
  <2>1. Leaders' = Leaders
    BY <1>1, <1>2 DEF Leaders, ElectionInv, Types
  <2> QED
    BY <1>1, <2>1 DEF Promise!vars
<1>3. CASE node[p] # 0
  <2>1. Leaders' = Leaders \cup {p}
    BY <1>1, <1>3 DEF Leaders, ElectionInv, Types
  <2>2. Promise!First(p)
    BY <1>3 DEF Win, NoneOlder, ElectionInv, OwnPlace, Promise!First, Promise!InLine
  <2>3. Promise!Win(p)
    BY <1>1, <2>1, <2>2 DEF Promise!Win
  <2> QED
    BY <2>3 DEF Promise!Next
<1> QED
  BY <1>2, <1>3

\* Every step of a program is a step of the election, or none that it could see.
LEMMA ElectionStep ==
  ASSUME ElectionInv, TypeOK', [Next]_vars
  PROVE  [Promise!Next]_Promise!vars
<1>0. Types
  BY DEF ElectionInv
<1>1. ASSUME NEW p \in Processes, Main(p) PROVE [Promise!Next]_Promise!vars
  <2>1. CASE campaign(p)
    BY <2>1, CampaignEnters
  <2>2. CASE resign(p)
    BY <1>0, <2>2, StutterStep, ElectionEnds DEF resign
  <2>3. CASE revoke(p)
    BY <1>0, <2>3, StutterStep, LeaseEnds DEF revoke
  <2>4. CASE \/ NewLeaderElection(p) \/ InstallHandlers(p) \/ WaitForResult(p)
             \/ WaitForInterrupt(p) \/ Exit(p)
    BY <2>4, StutterStep DEF NewLeaderElection, InstallHandlers, WaitForResult,
       WaitForInterrupt, Exit
  <2> QED
    BY <1>1, <2>1, <2>2, <2>3, <2>4 DEF Main
<1>2. ASSUME NEW p \in Processes, LeaseExpires(p) PROVE [Promise!Next]_Promise!vars
  BY <1>0, <1>2, LeaseEnds DEF LeaseExpires
<1>3. ASSUME NEW p \in Processes, Win(p) PROVE [Promise!Next]_Promise!vars
  BY <1>3, WinWins
<1>4. ASSUME NEW p \in Processes, Abort(p) PROVE [Promise!Next]_Promise!vars
  BY <1>0, <1>4, StutterStep, ElectionEnds DEF Abort
<1>5. ASSUME NEW p \in Processes, signal_handler(p) PROVE [Promise!Next]_Promise!vars
  BY <1>5, StutterStep DEF signal_handler
<1>6. CASE Observe
  BY <1>6, StutterStep DEF Observe, Startup, Follow, Notify, Disconnect, ShutdownWatcher,
     processVars
<1>7. CASE UNCHANGED vars
  BY <1>7, StutterStep DEF vars, processVars
<1> QED
  BY <1>1, <1>2, <1>3, <1>4, <1>5, <1>6, <1>7 DEF Next

\* For any number of processes and faults, the programs hold an election as Election
\* describes it: who was killed, failed half way through resign() or lost its lease
\* without noticing never leads ahead of somebody who came before it.
THEOREM ProgramsImplementElection == Spec => ImplementsElection
<1>1. Init => Promise!Init
  BY DEF Init, Promise!Init, Leaders
<1>2. ElectionInv /\ TypeOK' /\ [Next]_vars => [Promise!Next]_Promise!vars
  BY ElectionStep
<1> QED
  BY <1>1, <1>2, ElectionInvariance, TypeCorrect, PTL DEF Spec, ImplementsElection, Promise!Spec

\* At no time do two processes that etcd still has in line both think that they lead,
\* and the one that does is the first in line.
THEOREM OneProcessLeads == Spec => [](Promise!LeaderIsFirst /\ Promise!OneLeader)
<1>1. ElectionInv => Promise!OneLeader
  BY LeaderIsCurrent DEF ElectionInv, Promise!OneLeader
<1> QED
  BY <1>1, LeadersAreFirst, ElectionInvariance, PTL
=============================================================================
