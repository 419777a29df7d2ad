-------------------------- MODULE ClusterFailure --------------------------
(***************************************************************************)
(* experiments/cluster_failure_behavior: a program that creates, updates   *)
(* and deletes two nodes through a client which looks for the leader of an *)
(* etcd cluster, and the driver that kills and restarts the servers under  *)
(* it.  The two take turns: the program prints a line and waits for one,   *)
(* the driver expects the line, does its harm and sends the next.          *)
(*                                                                         *)
(* Every RPC has a deadline of 50 ms.  A request that misses it may have   *)
(* been executed, may be lost, or may be executed later.  A Put() without  *)
(* a lease detaches the node from the lease that it had.                   *)
(***************************************************************************)
EXTENDS Integers, FiniteSets, FiniteSetsExt

CONSTANTS
  Servers,      \* the client ports, in the order in which they are asked
  NoServer,     \* no channel, no leader
  MaxTimeouts   \* bound: RPCs that miss their deadline although etcd works

ASSUME FailureAssumption ==
  /\ Servers \subseteq Nat /\ IsFiniteSet(Servers) /\ Servers # {}
  /\ NoServer \notin Servers /\ MaxTimeouts \in Nat

VARIABLES
  program,          \* where main() is
  stage,            \* where the call that main() makes is
  targets,          \* the targets_ that pick_channel() has not asked yet
  current_channel_, \* the server that the channel of the client leads to
  ready,            \* is its state GRPC_CHANNEL_READY?
  stub,             \* the server that kv_stub of the current call uses
  tries, count,     \* the loop over updates that should fail
  driver,           \* where the driver is
  nodes,            \* the servers whose process the driver holds
  todo,             \* the servers it has not killed yet in the end
  up, leader,       \* external: the cluster
  node,             \* external: node[k], with a lease, without, or absent
  late,             \* external: requests that may still be executed
  timeouts,         \* external: how many RPCs have missed their deadline
  troubled,         \* history: was an RPC too late, or made when there was no leader?
  timedOut          \* history: the requests that were too late

clientState == <<targets, current_channel_, ready, stub>>
driverState == <<driver, nodes, todo>>
failureVars == <<program, stage, clientState, tries, count, driverState, up, leader, node, late,
                 timeouts, troubled, timedOut>>

Nodes == {"node0", "node1"}

\* What main() asks for in its statements.
Request(op, key) == [op |-> op, key |-> key]

Operation ==
  [create0 |-> Request("create", "node0"), create1 |-> Request("create", "node1"),
   update0 |-> Request("update", "node0"), update0_again |-> Request("update", "node0"),
   update1 |-> Request("update", "node1"),
   delete1 |-> Request("delete", "node1"), delete0 |-> Request("delete", "node0")]

CallNames == DOMAIN Operation \cup {"connect"}

\* Where main() goes on after a call.
Then ==
  [connect |-> "wait_create", create0 |-> "create1", create1 |-> "wait_update",
   update0 |-> "wait_fail", update0_again |-> "wait_fail",
   delete1 |-> "delete0", delete0 |-> "exit_ok"]

\* Where the driver's line sends it.
Sent ==
  [wait_create |-> "create0", wait_update |-> "update0", wait_fail |-> "update1",
   wait_delete |-> "delete1"]

ExpectedFailures == 5

FailureInit ==
  /\ program = "none" /\ stage = "idle"
  /\ targets = {} /\ current_channel_ = NoServer /\ ready = FALSE /\ stub = NoServer
  /\ tries = 0 /\ count = 0
  /\ driver = "start" /\ nodes = {} /\ todo = {}
  /\ up = {} /\ leader = NoServer
  /\ node = [k \in Nodes |-> "none"]
  /\ late = {} /\ timeouts = 0 /\ troubled = FALSE /\ timedOut = {}

-----------------------------------------------------------------------------
(* The program: how main() goes on.                                        *)

\* Mutant: failures do not count as attempts.
AttemptUntilSuccess(failed) ==
  /\ tries' = tries + (1 - failed) /\ count' = count
  /\ program' = IF failed = 0 /\ tries + 1 = ExpectedFailures THEN "exit_error" ELSE "update1"

\* One round of the loop that expects failures.
Attempt(failed) ==
  /\ tries' = tries + 1 /\ count' = count + failed
  /\ program' = CASE tries' < ExpectedFailures -> "update1"
                  [] tries' = ExpectedFailures /\ count' = ExpectedFailures -> "wait_delete"
                  [] OTHER -> "exit_error"

Returns ==
  /\ stage' = "idle"
  /\ \/ program = "update1" /\ Attempt(0)
     \/ program # "update1" /\ program' = Then[program] /\ UNCHANGED <<tries, count>>

\* main() tries the first update again and counts the failures in the loop; any other
\* exception ends it.
Throws ==
  /\ stage' = "idle"
  /\ \/ program = "update1" /\ Attempt(1)
     \/ /\ program # "update1"
        /\ program' = IF program = "update0" THEN "update0_again" ELSE "exit_error"
        /\ UNCHANGED <<tries, count>>

\* Every call begins with pick_channel().
EnterCall ==
  /\ program \in CallNames /\ stage = "idle"
  /\ stage' = "pick" /\ targets' = Servers
  /\ UNCHANGED <<program, current_channel_, ready, stub, tries, count, driverState, up, leader,
                 node, late, timeouts, troubled, timedOut>>

\* An RPC meets a cluster that works, or does not.
Meets(timeout) ==
  /\ timeout => timeouts < MaxTimeouts
  /\ timeouts' = timeouts + (IF timeout THEN 1 ELSE 0)
  /\ troubled' = (troubled \/ timeout \/ leader = NoServer)

\* pick_channel() returns m.  create_node() makes its stub and calls create_lease(), which
\* picks a channel again; the others make their stubs.
Picked(m) ==
  \/ /\ stage = "pick" /\ program = "connect"
     /\ Returns /\ UNCHANGED <<targets, stub>>
  \/ /\ stage = "pick" /\ program \in {"create0", "create1"}
     /\ stub' = m /\ stage' = "pick_lease" /\ targets' = Servers
     /\ UNCHANGED <<program, tries, count>>
  \/ /\ stage = "pick" /\ program \notin {"connect", "create0", "create1"}
     /\ stub' = m /\ stage' = "kv"
     /\ UNCHANGED <<targets, program, tries, count>>
  \/ /\ stage = "pick_lease"
     /\ stage' = "grant"
     /\ UNCHANGED <<targets, stub, program, tries, count>>

Picking == stage \in {"pick", "pick_lease"}

\* Mutant: the state of the channel is not asked.
CachedEver == current_channel_ # NoServer

\* The channel that was picked last is used as long as it is connected.
Cached == current_channel_ # NoServer /\ ready

ReuseChannel ==
  /\ Picking /\ Cached
  /\ Picked(current_channel_)
  /\ UNCHANGED <<current_channel_, ready, driverState, up, leader, node, late, timeouts, troubled,
                 timedOut>>

\* pick_channel() asks the next target for its status, and takes the one that says it leads.
AskStatus ==
  /\ Picking /\ ~Cached /\ targets # {}
  /\ LET m == Min(targets) IN
     \/ /\ m \in up /\ leader = m
        /\ Meets(FALSE)
        /\ current_channel_' = m /\ ready' = TRUE
        /\ Picked(m)
     \/ /\ Meets(m \in up /\ leader = m)
        /\ targets' = targets \ {m}
        /\ UNCHANGED <<program, stage, tries, count, current_channel_, ready, stub>>
  /\ UNCHANGED <<driverState, up, leader, node, late, timedOut>>

NoChannel ==
  /\ Picking /\ ~Cached /\ targets = {}
  /\ Throws
  /\ UNCHANGED <<clientState, driverState, up, leader, node, late, timeouts, troubled, timedOut>>

\* create_lease(): LeaseGrant() through the channel that was picked last.
GrantLease ==
  /\ stage = "grant"
  /\ \/ /\ current_channel_ \in up /\ leader # NoServer /\ Meets(FALSE)
        /\ stage' = "kv" /\ UNCHANGED <<program, tries, count, ready>>
     \/ /\ Meets(current_channel_ \in up /\ leader # NoServer) /\ Throws
        /\ ready' = (ready /\ current_channel_ \in up)
  /\ UNCHANGED <<targets, current_channel_, stub, driverState, up, leader, node, late, timedOut>>

\* etcd executes a request.
Execute(r) ==
  node' = [node EXCEPT ![r.key] =
             CASE r.op = "create" -> IF @ = "none" THEN "leased" ELSE @
               [] r.op = "update" -> "unleased"
               [] OTHER -> "none"]

\* The Txn(), Put() or DeleteRange() of the call is answered; create_node() throws when the
\* node exists.
Answered ==
  /\ stage = "kv" /\ stub \in up /\ leader # NoServer
  /\ LET r == Operation[program] IN
     /\ Execute(r)
     /\ IF r.op = "create" /\ node[r.key] # "none" THEN Throws ELSE Returns
  /\ UNCHANGED <<clientState, driverState, up, leader, late, timeouts, troubled, timedOut>>

\* The server of the stub is down.
Refused ==
  /\ stage = "kv" /\ stub \notin up
  /\ Meets(FALSE) /\ Throws
  /\ ready' = (ready /\ current_channel_ # stub)
  /\ UNCHANGED <<targets, current_channel_, stub, driverState, up, leader, node, late, timedOut>>

\* The request misses its deadline.
TooLate ==
  /\ stage = "kv" /\ stub \in up
  /\ Meets(leader # NoServer) /\ Throws
  /\ LET r == Operation[program] IN
     /\ timedOut' = timedOut \cup {r}
     /\ \/ UNCHANGED <<node, late>>
        \/ leader # NoServer /\ Execute(r) /\ UNCHANGED late
        \/ late' = late \cup {r} /\ UNCHANGED node
  /\ UNCHANGED <<clientState, driverState, up, leader>>

-----------------------------------------------------------------------------
(* The driver.                                                             *)

\* Servers that lose the majority have no leader.
Kill(s) ==
  /\ up' = up \ s
  /\ leader' = IF leader \in s \/ 2 * Cardinality(up \ s) <= Cardinality(Servers)
               THEN NoServer ELSE leader

start_cluster ==
  /\ up' = Servers /\ leader' = NoServer /\ ready' = FALSE
  /\ nodes' = Servers

\* The exception that ends the try block.
Finally == driver' = "finally" /\ todo' = Servers

\* The cluster is started, and the program when all ports accept connections.
StartTest ==
  /\ driver = "start" /\ start_cluster
  /\ driver' = "connecting"
  /\ UNCHANGED <<program, stage, targets, current_channel_, stub, tries, count, todo, node, late,
                 timeouts, troubled, timedOut>>

TryConnect ==
  /\ driver = "connecting"
  /\ \/ /\ driver' = "expect" /\ program' = "connect"
        /\ UNCHANGED <<todo, timeouts, troubled>>
     \/ Meets(TRUE) /\ Finally /\ UNCHANGED program
  /\ UNCHANGED <<stage, clientState, tries, count, nodes, up, leader, node, late, timedOut>>

\* What the driver does when it sees that the program waits, before it sends a line: it
\* kills the first server, then the others, and then starts them all again.
Harm ==
  /\ driver = "expect"
  /\ driver' = "send"
  /\ \/ program = "wait_create" /\ UNCHANGED <<nodes, up, leader, ready>>
     \/ /\ program = "wait_update"
        /\ Kill({Min(Servers)}) /\ nodes' = nodes \ {Min(Servers)} /\ UNCHANGED ready
     \/ program = "wait_fail" /\ Kill(nodes) /\ nodes' = {} /\ UNCHANGED ready
     \/ program = "wait_delete" /\ start_cluster
  /\ UNCHANGED <<program, stage, targets, current_channel_, stub, tries, count, todo, node, late,
                 timeouts, troubled, timedOut>>

\* program.sendline(); after the last one the driver does not wait for anything.
SendLine ==
  /\ driver = "send"
  /\ program' = Sent[program]
  /\ IF program = "wait_delete" THEN Finally ELSE driver' = "expect" /\ UNCHANGED todo
  /\ UNCHANGED <<stage, clientState, tries, count, nodes, up, leader, node, late, timeouts,
                 troubled, timedOut>>

\* program.expect() throws: the program has ended.
ExpectFails ==
  /\ driver = "expect" /\ program = "exit_error"
  /\ Finally
  /\ UNCHANGED <<program, stage, clientState, tries, count, nodes, up, leader, node, late, timeouts,
                 troubled, timedOut>>

\* The finally block kills the servers in order, and fails at the first that is None.
KillNext ==
  /\ driver = "finally" /\ todo # {}
  /\ LET m == Min(todo) IN
     \/ m \in nodes /\ Kill({m}) /\ todo' = todo \ {m} /\ UNCHANGED driver
     \/ m \notin nodes /\ driver' = "ended" /\ UNCHANGED <<up, leader, todo>>
  /\ UNCHANGED <<program, stage, clientState, tries, count, nodes, node, late, timeouts, troubled,
                 timedOut>>

EndTest ==
  /\ driver = "finally" /\ todo = {}
  /\ driver' = "ended"
  /\ UNCHANGED <<program, stage, clientState, tries, count, nodes, todo, up, leader, node, late,
                 timeouts, troubled, timedOut>>

\* The terminal of the program goes away with the driver.
Hangup ==
  /\ driver = "ended" /\ program \notin {"none", "exit_ok", "exit_error", "killed"}
  /\ program' = "killed" /\ stage' = "idle"
  /\ UNCHANGED <<clientState, tries, count, driverState, up, leader, node, late, timeouts, troubled,
                 timedOut>>

-----------------------------------------------------------------------------
(* etcd and gRPC.                                                          *)

ElectLeader ==
  /\ leader = NoServer /\ 2 * Cardinality(up) > Cardinality(Servers)
  /\ leader' \in up
  /\ UNCHANGED <<program, stage, clientState, tries, count, driverState, up, node, late, timeouts,
                 troubled, timedOut>>

\* gRPC notices that the server of the channel is gone.
ChannelBreaks ==
  /\ ready /\ current_channel_ \notin up
  /\ ready' = FALSE
  /\ UNCHANGED <<program, stage, targets, current_channel_, stub, tries, count, driverState, up,
                 leader, node, late, timeouts, troubled, timedOut>>

\* A channel connects again by itself when its server is back.
ChannelReconnects ==
  /\ ~ready /\ current_channel_ \in up
  /\ ready' = TRUE
  /\ UNCHANGED <<program, stage, targets, current_channel_, stub, tries, count, driverState, up,
                 leader, node, late, timeouts, troubled, timedOut>>

\* A request whose client has given up is executed after all, or lost.
ServeLate ==
  /\ \E r \in late :
       /\ late' = late \ {r}
       /\ (leader # NoServer /\ Execute(r)) \/ UNCHANGED node
  /\ UNCHANGED <<program, stage, clientState, tries, count, driverState, up, leader, timeouts,
                 troubled, timedOut>>

\* Nobody keeps the leases of the nodes alive.
LeaseEnds ==
  /\ leader # NoServer
  /\ \E k \in Nodes : node[k] = "leased" /\ node' = [node EXCEPT ![k] = "none"]
  /\ UNCHANGED <<program, stage, clientState, tries, count, driverState, up, leader, late, timeouts,
                 troubled, timedOut>>

Program ==
  \/ EnterCall \/ ReuseChannel \/ AskStatus \/ NoChannel \/ GrantLease
  \/ Answered \/ Refused \/ TooLate

Driver ==
  StartTest \/ TryConnect \/ Harm \/ SendLine \/ ExpectFails \/ KillNext \/ EndTest

FailureNext ==
  \/ Program \/ Driver \/ Hangup
  \/ ElectLeader \/ ChannelBreaks \/ ChannelReconnects \/ ServeLate \/ LeaseEnds

\* The program and the driver run; each RPC ends, at the latest with its deadline.
FailureFairness == WF_failureVars(Program) /\ WF_failureVars(Driver)

FailureSpec == FailureInit /\ [][FailureNext]_failureVars /\ FailureFairness

-----------------------------------------------------------------------------
(* Properties.                                                             *)

FailureTypeOK ==
  /\ program \in CallNames \cup DOMAIN Sent \cup {"none", "exit_ok", "exit_error", "killed"}
  /\ stage \in {"idle", "pick", "pick_lease", "grant", "kv"}
  /\ targets \subseteq Servers
  /\ current_channel_ \in Servers \cup {NoServer} /\ stub \in Servers \cup {NoServer}
  /\ ready \in BOOLEAN /\ troubled \in BOOLEAN
  /\ tries \in 0..ExpectedFailures /\ count \in 0..tries
  /\ driver \in {"start", "connecting", "expect", "send", "finally", "ended"}
  /\ nodes \subseteq Servers /\ todo \subseteq Servers /\ up \subseteq Servers
  /\ leader \in up \cup {NoServer}
  /\ node \in [Nodes -> {"none", "leased", "unleased"}]
  /\ late \subseteq timedOut /\ timedOut \subseteq [op : {"create", "update", "delete"}, key : Nodes]
  /\ timeouts \in 0..MaxTimeouts

\* The second attempt of main() is enough: the death of the first server, whatever the
\* client's channel still says about it, does not make both updates fail, provided that
\* the cluster has its new leader and answers in time.
RetryIsEnough ==
  program = "exit_error" /\ driver = "expect" /\ nodes = Servers \ {Min(Servers)}
    => troubled

\* A program that ends well has deleted its nodes, unless an update that it gave up, and
\* repeated, is executed after the deletion; the node is then there for ever.
NodesDeleted ==
  program = "exit_ok" =>
    \A k \in Nodes : node[k] = "none" \/ Request("update", k) \in timedOut

\* The driver leaves servers running only when the program failed between the first kill
\* and the restart: the finally block cannot kill what is None.
ServersStopped ==
  driver = "ended" /\ up # {} => program = "exit_error" /\ Min(Servers) \notin nodes

\* What the experiment shows of a client that survives its cluster, and of the driver.
SurvivesFailures == RetryIsEnough /\ NodesDeleted /\ ServersStopped

\* The driver and the program never wait for each other: the test ends.
TestEnds == driver = "connecting" ~> driver = "ended"
=============================================================================
