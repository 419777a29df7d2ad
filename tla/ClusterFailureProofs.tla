------------------------ MODULE ClusterFailureProofs ------------------------
(***************************************************************************)
(* Proofs about the experiment with the failing cluster, for any number of *)
(* servers and of RPCs that are too late.                                  *)
(***************************************************************************)
EXTENDS ClusterFailure, FiniteSetTheorems, WellFoundedInduction, TLAPS

-----------------------------------------------------------------------------
(* The inductive invariant.                                                *)

\* The server that the driver kills first.
Victim == Min(Servers)

\* main() before the loop that expects failures.
Before ==
  {"none", "connect", "wait_create", "create0", "create1", "wait_update", "update0",
   "update0_again", "wait_fail"}

\* Where main() is in a call, in the loop, and towards the driver.
Flow ==
  /\ stage # "idle" => program \in CallNames
  /\ stage \in {"pick_lease", "grant"} => program \in {"create0", "create1"}
  /\ stage = "kv" => program # "connect"
  /\ program \in Before => tries = 0
  /\ program = "update1" => tries < ExpectedFailures
  /\ driver \in {"start", "connecting"} => program = "none"
  /\ driver = "send" => program \in DOMAIN Sent
  /\ driver = "expect" => program \notin {"none", "delete1", "delete0", "exit_ok", "killed"}
  /\ driver \in {"finally", "ended"} =>
       program \in {"none", "delete1", "delete0", "exit_ok", "exit_error", "killed"}

\* The servers whose process the driver holds at each point, which are the ones that run
\* until it cleans up.
Killing ==
  /\ driver \in {"connecting", "expect", "send"} => up = nodes
  /\ driver = "connecting" => nodes = Servers
  /\ driver = "expect" =>
       /\ program \in {"connect", "wait_create", "create0", "create1", "wait_update"} =>
            nodes = Servers
       /\ program \in {"update0", "update0_again", "wait_fail"} => nodes = Servers \ {Victim}
       /\ program \in {"update1", "wait_delete"} => nodes = {}
       /\ program = "exit_error" => nodes = Servers \/ Victim \notin nodes
  /\ driver = "send" =>
       /\ program \in {"wait_create", "wait_delete"} => nodes = Servers
       /\ program = "wait_update" => nodes = Servers \ {Victim}
       /\ program = "wait_fail" => nodes = {}
  /\ program \in {"wait_fail", "update1", "wait_delete"} => Servers \ {Victim} # {}

\* What the finally block finds, and leaves.
CleaningUp ==
  /\ driver = "finally" => up \subseteq todo
  /\ driver \in {"finally", "ended"} =>
       nodes = Servers \/ (program = "exit_error" /\ Victim \notin nodes)
  /\ ServersStopped

\* As long as the cluster answers in time and has a leader: pick_channel() has not passed
\* it yet, and the second update does not use the channel to the server that died.
Untroubled ==
  /\ driver = "expect" /\ ~troubled =>
       /\ Picking => targets = Servers \/ leader \in targets
       /\ stage = "kv" /\ program \in {"update0", "update0_again"} => stub = current_channel_
       /\ program = "update0_again" =>
            (ready => current_channel_ \in up) /\ (stage = "kv" => stub \in up)
  /\ RetryIsEnough

\* Node k is gone, and nothing but an update that main() gave up can bring it back.
Gone(k) == node[k] = "none" \/ Request("update", k) \in timedOut

\* main() gives up when a node cannot be created in time, so that no such request is
\* left when the nodes are deleted.
Deleting ==
  /\ program = "delete0" => Gone("node1")
  /\ \A r \in timedOut : r.op = "create" => program \in {"exit_error", "killed"}
  /\ NodesDeleted

FailureInv == FailureTypeOK /\ Flow /\ Killing /\ CleaningUp /\ Untroubled /\ Deleting

-----------------------------------------------------------------------------
(* Lemmas about the operators.                                             *)

\* Every set of numbers has a least one.
LEMMA LeastNumber ==
  ASSUME NEW S, S \subseteq Nat, S # {}
  PROVE  \E m \in S : \A n \in S : m <= n
<1>1. IsWellFoundedOn(OpToRel(<, Nat), Nat)
  BY NatLessThanWellFounded
<1>2. PICK m \in S : \A n \in S : ~(<<n, m>> \in OpToRel(<, Nat))
  BY <1>1, WFMin
<1>3. \A n \in S : ~(n < m)
  BY <1>2 DEF OpToRel
<1> QED
  BY <1>3

\* The first of some servers is one of them.
LEMMA MinIsServer ==
  ASSUME NEW S \in SUBSET Servers, S # {}
  PROVE  Min(S) \in S
<1>1. \E m \in S : \A n \in S : m <= n
  BY LeastNumber, FailureAssumption
<1> QED
  BY <1>1 DEF Min

\* What main() asks for.
LEMMA Operations ==
  /\ DOMAIN Operation = {"create0", "create1", "update0", "update0_again", "update1",
                         "delete1", "delete0"}
  /\ Operation["create0"] = Request("create", "node0")
  /\ Operation["create1"] = Request("create", "node1")
  /\ Operation["update0"] = Request("update", "node0")
  /\ Operation["update0_again"] = Request("update", "node0")
  /\ Operation["update1"] = Request("update", "node1")
  /\ Operation["delete1"] = Request("delete", "node1")
  /\ Operation["delete0"] = Request("delete", "node0")
BY DEF Operation

\* Where main() goes on.
LEMMA Continuations ==
  /\ Then["connect"] = "wait_create" /\ Then["create0"] = "create1"
  /\ Then["create1"] = "wait_update" /\ Then["update0"] = "wait_fail"
  /\ Then["update0_again"] = "wait_fail" /\ Then["delete1"] = "delete0"
  /\ Then["delete0"] = "exit_ok"
  /\ DOMAIN Sent = {"wait_create", "wait_update", "wait_fail", "wait_delete"}
  /\ Sent["wait_create"] = "create0" /\ Sent["wait_update"] = "update0"
  /\ Sent["wait_fail"] = "update1" /\ Sent["wait_delete"] = "delete1"
BY DEF Then, Sent

\* One round of the loop that expects failures: it goes on, or ends well or badly.
LEMMA AttemptGoes ==
  ASSUME FailureTypeOK, Flow, program = "update1", NEW f \in {0, 1}, Attempt(f)
  PROVE  /\ tries' \in 0..ExpectedFailures /\ count' \in 0..tries'
         /\ program' \in {"update1", "wait_delete", "exit_error"}
         /\ program' = "update1" => tries' < ExpectedFailures
BY DEF FailureTypeOK, Flow, Attempt, ExpectedFailures

\* Where an exception takes main().
LEMMA ThrowsGoes ==
  ASSUME FailureTypeOK, Flow, program \in CallNames, Throws
  PROVE  /\ stage' = "idle"
         /\ tries' \in 0..ExpectedFailures /\ count' \in 0..tries'
         /\ program # "update1" => tries' = tries
         /\ \/ program = "update0" /\ program' = "update0_again"
            \/ program = "update1" /\ program' = "update1" /\ tries' < ExpectedFailures
            \/ program = "update1" /\ program' \in {"wait_delete", "exit_error"}
            \/ program \notin {"update0", "update1"} /\ program' = "exit_error"
<1>1. CASE program = "update1"
  BY <1>1, AttemptGoes DEF Throws
<1>2. CASE program # "update1"
  BY <1>2 DEF Throws, FailureTypeOK
<1> QED
  BY <1>1, <1>2

\* Where a call that succeeds takes main().
LEMMA ReturnsGoes ==
  ASSUME FailureTypeOK, Flow, program \in CallNames, Returns
  PROVE  /\ stage' = "idle"
         /\ tries' \in 0..ExpectedFailures /\ count' \in 0..tries'
         /\ program # "update1" => tries' = tries
         /\ \/ program = "connect" /\ program' = "wait_create"
            \/ program = "create0" /\ program' = "create1"
            \/ program = "create1" /\ program' = "wait_update"
            \/ program \in {"update0", "update0_again"} /\ program' = "wait_fail"
            \/ program = "update1" /\ program' = "update1" /\ tries' < ExpectedFailures
            \/ program = "update1" /\ program' \in {"wait_delete", "exit_error"}
            \/ program = "delete1" /\ program' = "delete0"
            \/ program = "delete0" /\ program' = "exit_ok"
<1>1. CASE program = "update1"
  BY <1>1, AttemptGoes DEF Returns
<1>2. CASE program # "update1"
  <2>1. program' = Then[program] /\ UNCHANGED <<tries, count>> /\ stage' = "idle"
    BY <1>2 DEF Returns
  <2>2. program \in {"connect", "create0", "create1", "update0", "update0_again", "delete1",
                     "delete0"}
    BY <1>2, Operations DEF CallNames
  <2> QED
    BY <2>1, <2>2, Continuations DEF FailureTypeOK
<1> QED
  BY <1>1, <1>2

\* The names of the calls.
LEMMA Names ==
  /\ CallNames = {"connect", "create0", "create1", "update0", "update0_again", "update1",
                  "delete1", "delete0"}
  /\ DOMAIN Sent = {"wait_create", "wait_update", "wait_fail", "wait_delete"}
BY Operations, Continuations DEF CallNames

\* What etcd makes of the nodes.
LEMMA ExecuteGoes ==
  ASSUME FailureTypeOK, NEW r \in [op : {"create", "update", "delete"}, key : Nodes], Execute(r)
  PROVE  /\ node' \in [Nodes -> {"none", "leased", "unleased"}]
         /\ \A k \in Nodes \ {r.key} : node'[k] = node[k]
         /\ r.op = "delete" => node'[r.key] = "none"
BY DEF FailureTypeOK, Execute

\* A call is for a known node.
LEMMA OperationType ==
  ASSUME program \in CallNames, program # "connect"
  PROVE  Operation[program] \in [op : {"create", "update", "delete"}, key : Nodes]
BY Operations, Names DEF Nodes, Request

\* The experiment starts with nothing.
LEMMA InitFailureInv == FailureInit => FailureInv
<1> SUFFICES ASSUME FailureInit PROVE FailureInv
  OBVIOUS
<1> USE FailureAssumption DEF FailureInit
<1>1. ready \in BOOLEAN /\ troubled \in BOOLEAN
  BY Zenon
<1>2. FailureTypeOK
  BY <1>1 DEF FailureTypeOK, ExpectedFailures
<1>3. Flow /\ Killing /\ CleaningUp
  BY Names DEF Flow, Killing, CleaningUp, ServersStopped
<1>4. Untroubled /\ Deleting
  BY DEF Untroubled, RetryIsEnough, Deleting, NodesDeleted
<1> QED
  BY <1>2, <1>3, <1>4 DEF FailureInv

\* An RPC leaves the client untroubled only when it was in time and there was a leader.
LEMMA MeetsGoes ==
  ASSUME FailureTypeOK, NEW b \in BOOLEAN, Meets(b)
  PROVE  /\ timeouts' \in 0..MaxTimeouts /\ troubled' \in BOOLEAN
         /\ ~troubled' => ~troubled /\ ~b /\ leader # NoServer
<1>1. timeouts' \in 0..MaxTimeouts
  BY FailureAssumption DEF FailureTypeOK, Meets
<1>2. troubled' = (troubled \/ b \/ leader = NoServer)
  BY DEF Meets
<1> QED
  BY <1>1, <1>2


-----------------------------------------------------------------------------
(* The invariant is inductive.                                             *)

\* The victim is a server.
LEMMA VictimIsServer == Victim \in Servers
  BY MinIsServer, FailureAssumption DEF Victim

\* A call begins with all targets to ask.
LEMMA EnterCallStep ==
  ASSUME FailureInv, EnterCall
  PROVE  FailureInv'
<1> USE FailureAssumption, Names DEF FailureInv, FailureTypeOK, Flow, EnterCall,
        clientState, driverState
<1>1. FailureTypeOK'
  BY DEF FailureTypeOK
<1>2. Flow'
  BY DEF Flow, Before
<1>3. Killing'
  BY VictimIsServer DEF Killing
<1>4. CleaningUp'
  BY VictimIsServer DEF CleaningUp, ServersStopped, Killing, Victim
<1>5. Untroubled'
  BY VictimIsServer DEF Untroubled, RetryIsEnough, Picking, Killing, Victim
<1>6. Deleting'
  BY DEF Deleting, NodesDeleted, Gone, Request, Nodes
<1> QED
  BY <1>1, <1>2, <1>3, <1>4, <1>5, <1>6

\* A cached channel is used without asking anyone.
LEMMA ReuseChannelStep ==
  ASSUME FailureInv, ReuseChannel
  PROVE  FailureInv'
<1> USE FailureAssumption, Names
   DEF FailureInv, FailureTypeOK, Flow, ReuseChannel, Picked, Picking, Cached,
        clientState, driverState
<1>1. FailureTypeOK'
  BY ReturnsGoes DEF FailureTypeOK
<1>2. Flow'
  BY ReturnsGoes DEF Flow, Before
<1>3. Killing'
  BY ReturnsGoes, VictimIsServer DEF Killing
<1>4. CleaningUp'
  BY ReturnsGoes, VictimIsServer DEF CleaningUp, ServersStopped, Killing, Victim
<1>5. Untroubled'
  BY ReturnsGoes, VictimIsServer DEF Untroubled, RetryIsEnough, Picking, Killing, Victim
<1>6. Deleting'
  BY ReturnsGoes DEF Deleting, NodesDeleted, Gone, Request, Nodes
<1> QED
  BY <1>1, <1>2, <1>3, <1>4, <1>5, <1>6

\* pick_channel() stops at the leader, or goes on to the next target.
LEMMA AskStatusStep ==
  ASSUME FailureInv, AskStatus
  PROVE  FailureInv'
<1> USE FailureAssumption, Names
   DEF FailureInv, FailureTypeOK, Flow, AskStatus, Picking, Cached,
        clientState, driverState
<1> DEFINE m == Min(targets)
<1>a. m \in targets /\ m \in Servers
  BY MinIsServer
<1>b. \/ /\ m \in up /\ leader = m /\ Meets(FALSE)
         /\ current_channel_' = m /\ ready' = TRUE /\ Picked(m)
      \/ /\ Meets(m \in up /\ leader = m) /\ targets' = targets \ {m}
         /\ UNCHANGED <<program, stage, tries, count, current_channel_, ready, stub>>
  OBVIOUS
<1>c. UNCHANGED <<driverState, up, leader, node, late, timedOut>>
  OBVIOUS
<1>d. /\ timeouts' \in 0..MaxTimeouts /\ troubled' \in BOOLEAN
      /\ ~troubled' => ~troubled /\ leader # NoServer
  BY <1>b, MeetsGoes
<1>e. ready' \in BOOLEAN
  BY <1>b
<1>f. Picked(m) => /\ tries' \in 0..ExpectedFailures /\ count' \in 0..tries'
                   /\ program' \in {program, "wait_create"}
                   /\ stage' \in {"idle", "pick_lease", "kv", "grant"}
                   /\ targets' \subseteq Servers /\ stub' \in {stub, m}
  BY ReturnsGoes DEF Picked
<1>1. FailureTypeOK'
  BY <1>a, <1>b, <1>c, <1>d, <1>e, <1>f
<1>2. Flow'
  BY <1>a, <1>b, <1>c, <1>d, ReturnsGoes DEF Flow, Before, Picked
<1>3. Killing'
  BY <1>a, <1>b, <1>c, <1>d, ReturnsGoes, VictimIsServer DEF Killing, Picked
<1>4. CleaningUp'
  BY <1>a, <1>b, <1>c, <1>d, ReturnsGoes, VictimIsServer
     DEF CleaningUp, ServersStopped, Killing, Victim, Picked
<1>5. Untroubled'
  <2> USE VictimIsServer DEF Untroubled, RetryIsEnough, Killing, Victim
  <2>1. CASE /\ m \in up /\ leader = m /\ Meets(FALSE)
             /\ current_channel_' = m /\ ready' = TRUE /\ Picked(m)
    BY <1>a, <1>c, <1>d, <2>1, ReturnsGoes DEF Picked
  <2>2. CASE /\ Meets(m \in up /\ leader = m) /\ targets' = targets \ {m}
             /\ UNCHANGED <<program, stage, tries, count, current_channel_, ready, stub>>
    <3>1. ~troubled' => ~(m \in up /\ leader = m) /\ ~troubled /\ leader # NoServer
      BY <2>2, MeetsGoes
    <3>2. ~troubled' => leader \in Servers /\ leader \in up
      BY <3>1
    <3> QED
      BY <1>a, <1>c, <1>d, <2>2, <3>1, <3>2
  <2> QED
    BY <1>b, <2>1, <2>2
<1>6. Deleting'
  BY <1>a, <1>b, <1>c, <1>d, ReturnsGoes
     DEF Deleting, NodesDeleted, Gone, Request, Nodes, Picked
<1> QED
  BY <1>1, <1>2, <1>3, <1>4, <1>5, <1>6

\* No target leads: the call fails, which it does only if there was no leader.
LEMMA NoChannelStep ==
  ASSUME FailureInv, NoChannel
  PROVE  FailureInv'
<1> USE FailureAssumption, Names
   DEF FailureInv, FailureTypeOK, Flow, NoChannel, Picking, Cached,
        clientState, driverState
<1>1. FailureTypeOK'
  BY ThrowsGoes DEF FailureTypeOK
<1>2. Flow'
  BY ThrowsGoes DEF Flow, Before
<1>3. Killing'
  BY ThrowsGoes, VictimIsServer DEF Killing
<1>4. CleaningUp'
  BY ThrowsGoes, VictimIsServer DEF CleaningUp, ServersStopped, Killing, Victim
<1>5. Untroubled'
  BY ThrowsGoes, VictimIsServer DEF Untroubled, RetryIsEnough, Picking, Killing, Victim
<1>6. Deleting'
  BY ThrowsGoes DEF Deleting, NodesDeleted, Gone, Request, Nodes
<1> QED
  BY <1>1, <1>2, <1>3, <1>4, <1>5, <1>6

\* A node is created with a lease, or not at all.
LEMMA GrantLeaseStep ==
  ASSUME FailureInv, GrantLease
  PROVE  FailureInv'
<1> USE FailureAssumption, Names DEF FailureInv, FailureTypeOK, Flow, GrantLease,
        clientState, driverState
<1>a. /\ timeouts' \in 0..MaxTimeouts /\ troubled' \in BOOLEAN
      /\ ~troubled' => ~troubled /\ leader # NoServer
  BY MeetsGoes
<1>b. ready' \in BOOLEAN
  <2>1. ready' = ready \/ ready' = (ready /\ current_channel_ \in up)
    OBVIOUS
  <2> QED
    BY <2>1
<1>1. FailureTypeOK'
  BY <1>a, <1>b, ThrowsGoes DEF FailureTypeOK
<1>2. Flow'
  BY <1>a, <1>b, ThrowsGoes DEF Flow, Before
<1>3. Killing'
  BY <1>a, <1>b, ThrowsGoes, VictimIsServer DEF Killing
<1>4. CleaningUp'
  BY <1>a, <1>b, ThrowsGoes, VictimIsServer DEF CleaningUp, ServersStopped, Killing, Victim
<1>5. Untroubled'
  BY <1>a, <1>b, ThrowsGoes, VictimIsServer
     DEF Untroubled, RetryIsEnough, Picking, Killing, Victim
<1>6. Deleting'
  BY <1>a, <1>b, ThrowsGoes DEF Deleting, NodesDeleted, Gone, Request, Nodes
<1> QED
  BY <1>1, <1>2, <1>3, <1>4, <1>5, <1>6

\* etcd executes the request of a call that returns, or of a create that throws.
LEMMA AnsweredStep ==
  ASSUME FailureInv, Answered
  PROVE  FailureInv'
<1> USE FailureAssumption, Names DEF FailureInv, FailureTypeOK, Flow, Answered,
        clientState, driverState
<1>a. program \in CallNames /\ program # "connect" /\ (Throws \/ Returns)
  OBVIOUS
<1>b. \/ Returns
      \/ program \in {"create0", "create1"} /\ Throws
  <2>1. Operation[program].op = "create" => program \in {"create0", "create1"}
    BY <1>a, Operations DEF Request
  <2> QED
    BY <2>1
<1>c. UNCHANGED <<clientState, driverState, up, leader, late, timeouts, troubled, timedOut>>
  OBVIOUS
<1>d. up # {}
  OBVIOUS
<1>1. FailureTypeOK'
  BY ThrowsGoes, ReturnsGoes, ExecuteGoes, OperationType, Operations DEF FailureTypeOK
<1>2. Flow'
  BY <1>a, <1>b, <1>c, <1>d, ThrowsGoes, ReturnsGoes DEF Flow, Before
<1>3. Killing'
  BY <1>a, <1>b, <1>c, <1>d, ThrowsGoes, ReturnsGoes, VictimIsServer DEF Killing
<1>4. CleaningUp'
  BY <1>a, <1>b, <1>c, <1>d, ThrowsGoes, ReturnsGoes, VictimIsServer
     DEF CleaningUp, ServersStopped, Killing, Victim
<1>5. Untroubled'
  BY <1>a, <1>b, <1>c, <1>d, ThrowsGoes, ReturnsGoes, VictimIsServer
     DEF Untroubled, RetryIsEnough, Picking, Killing, Victim
<1>6. Deleting'
  BY ThrowsGoes, ReturnsGoes, ExecuteGoes, OperationType, Operations
     DEF Deleting, NodesDeleted, Gone, Request, Nodes
<1> QED
  BY <1>1, <1>2, <1>3, <1>4, <1>5, <1>6

\* The server is down; the channel is not used again.
LEMMA RefusedStep ==
  ASSUME FailureInv, Refused
  PROVE  FailureInv'
<1> USE FailureAssumption, Names DEF FailureInv, FailureTypeOK, Flow, Refused, Meets,
        clientState, driverState
<1>1. FailureTypeOK'
  BY ThrowsGoes DEF FailureTypeOK
<1>2. Flow'
  BY ThrowsGoes DEF Flow, Before
<1>3. Killing'
  BY ThrowsGoes, VictimIsServer DEF Killing
<1>4. CleaningUp'
  BY ThrowsGoes, VictimIsServer DEF CleaningUp, ServersStopped, Killing, Victim
<1>5. Untroubled'
  BY ThrowsGoes, VictimIsServer DEF Untroubled, RetryIsEnough, Picking, Killing, Victim
<1>6. Deleting'
  BY ThrowsGoes DEF Deleting, NodesDeleted, Gone, Request, Nodes
<1> QED
  BY <1>1, <1>2, <1>3, <1>4, <1>5, <1>6

\* A request that is too late may come to be executed, and is remembered.
LEMMA TooLateStep ==
  ASSUME FailureInv, TooLate
  PROVE  FailureInv'
<1> USE FailureAssumption, Names DEF FailureInv, FailureTypeOK, Flow, TooLate, Meets,
        clientState, driverState
<1>1. FailureTypeOK'
  BY ThrowsGoes, ExecuteGoes, OperationType, Operations DEF FailureTypeOK
<1>2. Flow'
  BY ThrowsGoes, ExecuteGoes, OperationType, Operations DEF Flow, Before
<1>3. Killing'
  BY ThrowsGoes, ExecuteGoes, OperationType, Operations, VictimIsServer DEF Killing
<1>4. CleaningUp'
  BY ThrowsGoes, ExecuteGoes, OperationType, Operations, VictimIsServer
     DEF CleaningUp, ServersStopped, Killing, Victim
<1>5. Untroubled'
  BY ThrowsGoes, ExecuteGoes, OperationType, Operations, VictimIsServer
     DEF Untroubled, RetryIsEnough, Picking, Killing, Victim
<1>6. Deleting'
  BY ThrowsGoes, ExecuteGoes, OperationType, Operations
     DEF Deleting, NodesDeleted, Gone, Request, Nodes
<1> QED
  BY <1>1, <1>2, <1>3, <1>4, <1>5, <1>6

\* The driver starts all servers.
LEMMA StartTestStep ==
  ASSUME FailureInv, StartTest
  PROVE  FailureInv'
<1> USE FailureAssumption, Names DEF FailureInv, FailureTypeOK, Flow, StartTest, start_cluster,
        clientState, driverState
<1>1. FailureTypeOK'
  BY DEF FailureTypeOK
<1>2. Flow'
  BY DEF Flow, Before
<1>3. Killing'
  BY VictimIsServer DEF Killing
<1>4. CleaningUp'
  BY VictimIsServer DEF CleaningUp, ServersStopped, Killing, Victim
<1>5. Untroubled'
  BY VictimIsServer DEF Untroubled, RetryIsEnough, Picking, Killing, Victim
<1>6. Deleting'
  BY DEF Deleting, NodesDeleted, Gone, Request, Nodes
<1> QED
  BY <1>1, <1>2, <1>3, <1>4, <1>5, <1>6

\* The program starts when all servers accept connections.
LEMMA TryConnectStep ==
  ASSUME FailureInv, TryConnect
  PROVE  FailureInv'
<1> USE FailureAssumption, Names DEF FailureInv, FailureTypeOK, Flow, TryConnect, Finally,
        clientState, driverState
<1>a. timeouts' \in 0..MaxTimeouts /\ troubled' \in BOOLEAN /\ (~troubled' => ~troubled)
  BY MeetsGoes
<1>1. FailureTypeOK'
  BY <1>a DEF FailureTypeOK
<1>2. Flow'
  BY <1>a DEF Flow, Before
<1>3. Killing'
  BY <1>a, VictimIsServer DEF Killing
<1>4. CleaningUp'
  BY <1>a, VictimIsServer DEF CleaningUp, ServersStopped, Killing, Victim
<1>5. Untroubled'
  BY <1>a, VictimIsServer DEF Untroubled, RetryIsEnough, Picking, Killing, Victim
<1>6. Deleting'
  BY <1>a DEF Deleting, NodesDeleted, Gone, Request, Nodes
<1> QED
  BY <1>1, <1>2, <1>3, <1>4, <1>5, <1>6

\* The driver kills the first server, the others, or starts all of them again.
LEMMA HarmStep ==
  ASSUME FailureInv, Harm
  PROVE  FailureInv'
<1> USE FailureAssumption, Names DEF FailureInv, FailureTypeOK, Flow, Harm, Kill, start_cluster,
        clientState, driverState
<1>1. FailureTypeOK'
  BY MinIsServer DEF FailureTypeOK
<1>2. Flow'
  BY MinIsServer DEF Flow, Before
<1>3. Killing'
  <2> USE VictimIsServer DEF Killing, Victim
  <2>1. CASE program = "wait_create"
    BY <2>1
  <2>2. CASE program = "wait_update"
    BY <2>2
  <2>3. CASE program = "wait_fail"
    BY <2>3
  <2>4. CASE program = "wait_delete"
    BY <2>4
  <2> QED
    BY <2>1, <2>2, <2>3, <2>4
<1>4. CleaningUp'
  BY MinIsServer, VictimIsServer DEF CleaningUp, ServersStopped, Killing, Victim
<1>5. Untroubled'
  BY MinIsServer, VictimIsServer DEF Untroubled, RetryIsEnough, Picking, Killing, Victim
<1>6. Deleting'
  BY MinIsServer DEF Deleting, NodesDeleted, Gone, Request, Nodes
<1> QED
  BY <1>1, <1>2, <1>3, <1>4, <1>5, <1>6

\* The program goes on when the driver sends a line.
LEMMA SendLineStep ==
  ASSUME FailureInv, SendLine
  PROVE  FailureInv'
<1> USE FailureAssumption, Names DEF FailureInv, FailureTypeOK, Flow, SendLine, Finally,
        clientState, driverState
<1>1. FailureTypeOK'
  BY Continuations DEF FailureTypeOK
<1>2. Flow'
  <2>1. program \in DOMAIN Sent /\ program' = Sent[program] /\ stage = "idle" /\ stage' = stage
    OBVIOUS
  <2>2. \/ program = "wait_create" /\ program' = "create0" /\ driver' = "expect"
        \/ program = "wait_update" /\ program' = "update0" /\ driver' = "expect"
        \/ program = "wait_fail" /\ program' = "update1" /\ driver' = "expect"
        \/ program = "wait_delete" /\ program' = "delete1" /\ driver' = "finally"
    BY <2>1, Continuations
  <2>3. program \in Before => tries' = 0
    OBVIOUS
  <2> QED
    BY <2>1, <2>2, <2>3 DEF Before, ExpectedFailures
<1>3. Killing'
  BY Continuations, VictimIsServer DEF Killing
<1>4. CleaningUp'
  BY Continuations, VictimIsServer DEF CleaningUp, ServersStopped, Killing, Victim
<1>5. Untroubled'
  BY Continuations, VictimIsServer DEF Untroubled, RetryIsEnough, Picking, Killing, Victim
<1>6. Deleting'
  BY Continuations DEF Deleting, NodesDeleted, Gone, Request, Nodes
<1> QED
  BY <1>1, <1>2, <1>3, <1>4, <1>5, <1>6

\* The driver cleans up after a program that has failed.
LEMMA ExpectFailsStep ==
  ASSUME FailureInv, ExpectFails
  PROVE  FailureInv'
<1> USE FailureAssumption, Names DEF FailureInv, FailureTypeOK, Flow, ExpectFails, Finally,
        clientState, driverState
<1>1. FailureTypeOK'
  BY DEF FailureTypeOK
<1>2. Flow'
  BY DEF Flow, Before
<1>3. Killing'
  BY VictimIsServer DEF Killing
<1>4. CleaningUp'
  BY VictimIsServer DEF CleaningUp, ServersStopped, Killing, Victim
<1>5. Untroubled'
  BY VictimIsServer DEF Untroubled, RetryIsEnough, Picking, Killing, Victim
<1>6. Deleting'
  BY DEF Deleting, NodesDeleted, Gone, Request, Nodes
<1> QED
  BY <1>1, <1>2, <1>3, <1>4, <1>5, <1>6

\* The finally block kills a server, or fails at one that is gone.
LEMMA KillNextStep ==
  ASSUME FailureInv, KillNext
  PROVE  FailureInv'
<1> USE FailureAssumption, Names DEF FailureInv, FailureTypeOK, Flow, KillNext, Kill,
        clientState, driverState
<1>1. FailureTypeOK'
  BY MinIsServer DEF FailureTypeOK
<1>2. Flow'
  BY MinIsServer DEF Flow, Before
<1>3. Killing'
  BY MinIsServer, VictimIsServer DEF Killing
<1>4. CleaningUp'
  BY MinIsServer, VictimIsServer DEF CleaningUp, ServersStopped, Killing, Victim
<1>5. Untroubled'
  BY MinIsServer, VictimIsServer DEF Untroubled, RetryIsEnough, Picking, Killing, Victim
<1>6. Deleting'
  BY MinIsServer DEF Deleting, NodesDeleted, Gone, Request, Nodes
<1> QED
  BY <1>1, <1>2, <1>3, <1>4, <1>5, <1>6

\* The finally block has killed them all.
LEMMA EndTestStep ==
  ASSUME FailureInv, EndTest
  PROVE  FailureInv'
<1> USE FailureAssumption, Names DEF FailureInv, FailureTypeOK, Flow, EndTest,
        clientState, driverState
<1>1. FailureTypeOK'
  BY DEF FailureTypeOK
<1>2. Flow'
  BY DEF Flow, Before
<1>3. Killing'
  BY VictimIsServer DEF Killing
<1>4. CleaningUp'
  BY VictimIsServer DEF CleaningUp, ServersStopped, Killing, Victim
<1>5. Untroubled'
  BY VictimIsServer DEF Untroubled, RetryIsEnough, Picking, Killing, Victim
<1>6. Deleting'
  BY DEF Deleting, NodesDeleted, Gone, Request, Nodes
<1> QED
  BY <1>1, <1>2, <1>3, <1>4, <1>5, <1>6

\* The end of the driver ends the program.
LEMMA HangupStep ==
  ASSUME FailureInv, Hangup
  PROVE  FailureInv'
<1> USE FailureAssumption, Names DEF FailureInv, FailureTypeOK, Flow, Hangup,
        clientState, driverState
<1>1. FailureTypeOK'
  BY DEF FailureTypeOK
<1>2. Flow'
  BY DEF Flow, Before
<1>3. Killing'
  BY VictimIsServer DEF Killing
<1>4. CleaningUp'
  BY VictimIsServer DEF CleaningUp, ServersStopped, Killing, Victim
<1>5. Untroubled'
  BY VictimIsServer DEF Untroubled, RetryIsEnough, Picking, Killing, Victim
<1>6. Deleting'
  BY DEF Deleting, NodesDeleted, Gone, Request, Nodes
<1> QED
  BY <1>1, <1>2, <1>3, <1>4, <1>5, <1>6

\* A new leader is elected among the servers that run.
LEMMA ElectLeaderStep ==
  ASSUME FailureInv, ElectLeader
  PROVE  FailureInv'
<1> USE FailureAssumption, Names DEF FailureInv, FailureTypeOK, Flow, ElectLeader,
        clientState, driverState
<1>1. FailureTypeOK'
  BY DEF FailureTypeOK
<1>2. Flow'
  BY DEF Flow, Before
<1>3. Killing'
  BY VictimIsServer DEF Killing
<1>4. CleaningUp'
  BY VictimIsServer DEF CleaningUp, ServersStopped, Killing, Victim
<1>5. Untroubled'
  BY VictimIsServer DEF Untroubled, RetryIsEnough, Picking, Killing, Victim
<1>6. Deleting'
  BY DEF Deleting, NodesDeleted, Gone, Request, Nodes
<1> QED
  BY <1>1, <1>2, <1>3, <1>4, <1>5, <1>6

\* gRPC notices that a server is gone.
LEMMA ChannelBreaksStep ==
  ASSUME FailureInv, ChannelBreaks
  PROVE  FailureInv'
<1> USE FailureAssumption, Names DEF FailureInv, FailureTypeOK, Flow, ChannelBreaks,
        clientState, driverState
<1>1. FailureTypeOK'
  BY DEF FailureTypeOK
<1>2. Flow'
  BY DEF Flow, Before
<1>3. Killing'
  BY VictimIsServer DEF Killing
<1>4. CleaningUp'
  BY VictimIsServer DEF CleaningUp, ServersStopped, Killing, Victim
<1>5. Untroubled'
  BY VictimIsServer DEF Untroubled, RetryIsEnough, Picking, Killing, Victim
<1>6. Deleting'
  BY DEF Deleting, NodesDeleted, Gone, Request, Nodes
<1> QED
  BY <1>1, <1>2, <1>3, <1>4, <1>5, <1>6

\* gRPC connects the channel again.
LEMMA ChannelReconnectsStep ==
  ASSUME FailureInv, ChannelReconnects
  PROVE  FailureInv'
<1> USE FailureAssumption, Names DEF FailureInv, FailureTypeOK, Flow, ChannelReconnects,
        clientState, driverState
<1>1. FailureTypeOK'
  BY DEF FailureTypeOK
<1>2. Flow'
  BY DEF Flow, Before
<1>3. Killing'
  BY VictimIsServer DEF Killing
<1>4. CleaningUp'
  BY VictimIsServer DEF CleaningUp, ServersStopped, Killing, Victim
<1>5. Untroubled'
  BY VictimIsServer DEF Untroubled, RetryIsEnough, Picking, Killing, Victim
<1>6. Deleting'
  BY DEF Deleting, NodesDeleted, Gone, Request, Nodes
<1> QED
  BY <1>1, <1>2, <1>3, <1>4, <1>5, <1>6

\* A request that main() has given up is executed after all.
LEMMA ServeLateStep ==
  ASSUME FailureInv, ServeLate
  PROVE  FailureInv'
<1> USE FailureAssumption, Names DEF FailureInv, FailureTypeOK, Flow, ServeLate,
        clientState, driverState
<1>1. FailureTypeOK'
  BY ExecuteGoes DEF FailureTypeOK
<1>2. Flow'
  BY ExecuteGoes DEF Flow, Before
<1>3. Killing'
  BY ExecuteGoes, VictimIsServer DEF Killing
<1>4. CleaningUp'
  BY ExecuteGoes, VictimIsServer DEF CleaningUp, ServersStopped, Killing, Victim
<1>5. Untroubled'
  BY ExecuteGoes, VictimIsServer DEF Untroubled, RetryIsEnough, Picking, Killing, Victim
<1>6. Deleting'
  BY ExecuteGoes DEF Deleting, NodesDeleted, Gone, Request, Nodes
<1> QED
  BY <1>1, <1>2, <1>3, <1>4, <1>5, <1>6

\* A lease ends, and the node with it.
LEMMA LeaseEndsStep ==
  ASSUME FailureInv, LeaseEnds
  PROVE  FailureInv'
<1> USE FailureAssumption, Names DEF FailureInv, FailureTypeOK, Flow, LeaseEnds,
        clientState, driverState
<1>1. FailureTypeOK'
  BY DEF FailureTypeOK
<1>2. Flow'
  BY DEF Flow, Before
<1>3. Killing'
  BY VictimIsServer DEF Killing
<1>4. CleaningUp'
  BY VictimIsServer DEF CleaningUp, ServersStopped, Killing, Victim
<1>5. Untroubled'
  BY VictimIsServer DEF Untroubled, RetryIsEnough, Picking, Killing, Victim
<1>6. Deleting'
  BY DEF Deleting, NodesDeleted, Gone, Request, Nodes
<1> QED
  BY <1>1, <1>2, <1>3, <1>4, <1>5, <1>6

-----------------------------------------------------------------------------
(* The theorems.                                                           *)

\* Every step of the program, of the driver and of etcd keeps the invariant.
LEMMA NextFailureInv == FailureInv /\ [FailureNext]_failureVars => FailureInv'
<1> SUFFICES ASSUME FailureInv, [FailureNext]_failureVars PROVE FailureInv'
  OBVIOUS
<1>1. CASE FailureNext
  BY <1>1, EnterCallStep, ReuseChannelStep, AskStatusStep, NoChannelStep, GrantLeaseStep,
     AnsweredStep, RefusedStep, TooLateStep, StartTestStep, TryConnectStep, HarmStep,
     SendLineStep, ExpectFailsStep, KillNextStep, EndTestStep, HangupStep, ElectLeaderStep,
     ChannelBreaksStep, ChannelReconnectsStep, ServeLateStep, LeaseEndsStep
     DEF FailureNext, Program, Driver
<1>2. CASE UNCHANGED failureVars
  <2> USE <1>2 DEF failureVars, clientState, driverState
  <2>1. FailureTypeOK' /\ Flow'
    BY DEF FailureInv, FailureTypeOK, Flow
  <2>2. Killing' /\ CleaningUp'
    BY DEF FailureInv, Killing, CleaningUp, ServersStopped
  <2>3. Untroubled' /\ Deleting'
    BY DEF FailureInv, Untroubled, RetryIsEnough, Picking, Deleting, NodesDeleted, Gone
  <2> QED
    BY <2>1, <2>2, <2>3 DEF FailureInv
<1> QED
  BY <1>1, <1>2

\* FailureInv holds in every reachable state of the experiment.
LEMMA FailureInvariance == FailureSpec => []FailureInv
  BY InitFailureInv, NextFailureInv, PTL DEF FailureSpec

\* The program, the driver and the cluster stay in the states that they are meant to be
\* in; the loop that expects failures makes at most as many attempts as it should.
THEOREM FailureTypeCorrect == FailureSpec => []FailureTypeOK
  BY FailureInvariance, PTL DEF FailureInv

\* What the invariant is for.
LEMMA FailureInvSuffices == FailureInv => SurvivesFailures
BY DEF FailureInv, CleaningUp, Untroubled, Deleting, SurvivesFailures

\* For any number of servers: the second attempt is enough when the first server dies, as
\* long as there is a leader that answers in time; a program that ends well has deleted
\* its nodes, but for late updates; and the driver leaves servers behind only after a
\* program that failed between the first kill and the restart.
THEOREM ClientSurvives == FailureSpec => []SurvivesFailures
BY FailureInvSuffices, FailureInvariance, PTL
=============================================================================
