----------------------- MODULE ActiveCompletionQueue -----------------------
(***************************************************************************)
(* gh::active_completion_queue: an object that owns a completion queue and *)
(* the thread that runs its loop, and passes both on when it is moved.     *)
(* Its last member shuts the queue down and the one before joins the       *)
(* thread, so that destruction does the two in this order.                 *)
(*                                                                         *)
(* One thread of the application creates, moves and destroys the objects,  *)
(* while the loops run in theirs.  A thread is named by its queue.  What   *)
(* the loop does until it ends is modelled in CompletionQueue.             *)
(***************************************************************************)
EXTENDS Integers, FiniteSets

CONSTANTS
  Actives,   \* the objects, each created at most once
  Temp,      \* tmp, the local variable of operator=
  Queues,    \* completion queues
  NoQueue    \* nullptr, or no thread

ASSUME ActiveAssumption == Temp \notin Actives /\ NoQueue \notin Queues

VARIABLES
  active,         \* active[a]: how far object a is
  queue_,         \* queue_[a]: its queue
  thread_,        \* thread_[a]: its thread, NoQueue unless it is joinable
  shutdown_queue, \* shutdown_queue[a]: what shutdown_ of a will shut down
  running,        \* running[q]: how far the thread of q is
  assignedFrom    \* history: the objects that operator= took q from

activeVars == <<active, queue_, thread_, shutdown_queue, running, assignedFrom>>

Holders == Actives \cup {Temp}

ActiveInit ==
  /\ active = [a \in Holders |-> "none"]
  /\ queue_ = [a \in Holders |-> NoQueue]
  /\ thread_ = [a \in Holders |-> NoQueue]
  /\ shutdown_queue = [a \in Holders |-> NoQueue]
  /\ running = [q \in Queues |-> "none"]
  /\ assignedFrom = [q \in Queues |-> {}]

\* The types of the variables; at most one destructor is under way.
ActiveTypeOK ==
  /\ active \in [Holders -> {"none", "alive", "joining", "gone"}]
  /\ queue_ \in [Holders -> Queues \cup {NoQueue}]
  /\ thread_ \in [Holders -> Queues \cup {NoQueue}]
  /\ shutdown_queue \in [Holders -> Queues \cup {NoQueue}]
  /\ running \in [Queues -> {"none", "loose", "loop", "stopping", "ended", "joined"}]
  /\ assignedFrom \in [Queues -> SUBSET Actives]
  /\ Cardinality({a \in Holders : active[a] = "joining"}) <= 1

\* The application's thread is not inside a destructor.
Free == \A a \in Holders : active[a] # "joining"

\* A member is moved from b to a.
Moved(f, a, b) == [f EXCEPT ![a] = f[b], ![b] = NoQueue]

Own(a, q) ==
  /\ Free /\ active[a] = "none"
  /\ active' = [active EXCEPT ![a] = "alive"]
  /\ queue_' = [queue_ EXCEPT ![a] = q]
  /\ thread_' = [thread_ EXCEPT ![a] = q]
  /\ shutdown_queue' = [shutdown_queue EXCEPT ![a] = q]
  /\ running' = [running EXCEPT ![q] = "loop"]
  /\ UNCHANGED assignedFrom

\* The default constructor: a new queue, and a thread in its loop.
Construct(a, q) == running[q] = "none" /\ Own(a, q)

\* The application creates a queue and a thread that runs it ...
StartLoose(q) ==
  /\ Free /\ running[q] = "none"
  /\ running' = [running EXCEPT ![q] = "loose"]
  /\ UNCHANGED <<active, queue_, thread_, shutdown_queue, assignedFrom>>

\* ... and gives both to a new object.
ConstructFrom(a, q) == running[q] = "loose" /\ Own(a, q)

\* Mutant of MoveConstruct: b keeps what it will shut down.
MoveConstructWithoutRelease(a, b) ==
  /\ Free /\ active[a] = "none" /\ active[b] = "alive"
  /\ active' = [active EXCEPT ![a] = "alive"]
  /\ queue_' = Moved(queue_, a, b)
  /\ thread_' = Moved(thread_, a, b)
  /\ shutdown_queue' = [shutdown_queue EXCEPT ![a] = queue_[b]]
  /\ UNCHANGED <<running, assignedFrom>>

\* The move constructor: a is created from b, which will shut down nothing.
MoveConstruct(a, b) ==
  /\ Free /\ active[a] = "none" /\ active[b] = "alive"
  /\ active' = [active EXCEPT ![a] = "alive"]
  /\ queue_' = Moved(queue_, a, b)
  /\ thread_' = Moved(thread_, a, b)
  /\ shutdown_queue' = [shutdown_queue EXCEPT ![a] = queue_[b], ![b] = NoQueue]
  /\ UNCHANGED <<running, assignedFrom>>

\* ~active_completion_queue(), up to the end of ~defer_shutdown(), of an object whose
\* member shutdown_ has the queue s.
Destruct(s) ==
  running' = [q \in Queues |-> IF q = s /\ running[q] = "loop" THEN "stopping" ELSE running[q]]

Destructor(a) ==
  /\ Free /\ active[a] = "alive"
  /\ active' = [active EXCEPT ![a] = "joining"]
  /\ Destruct(shutdown_queue[a])
  /\ shutdown_queue' = [shutdown_queue EXCEPT ![a] = NoQueue]
  /\ UNCHANGED <<queue_, thread_, assignedFrom>>

\* operator=, for a and b that may be the same: tmp takes over what a has, a what b has,
\* and the destructor of tmp begins.  shutdown_ of b keeps the queue.
MoveAssign(a, b) ==
  /\ Free /\ active[a] = "alive" /\ active[b] = "alive"
  /\ active' = [active EXCEPT ![Temp] = "joining"]
  /\ queue_' = Moved(Moved(queue_, Temp, a), a, b)
  /\ thread_' = Moved(Moved(thread_, Temp, a), a, b)
  /\ shutdown_queue' = [shutdown_queue EXCEPT ![a] = queue_'[a]]
  /\ assignedFrom' = [q \in Queues |->
                        IF q = queue_'[a] THEN assignedFrom[q] \cup {b} ELSE assignedFrom[q]]
  /\ Destruct(queue_[a])

\* ~defer_join() joins the thread, if there is one, and the other members go.
JoinThread(a) ==
  /\ active[a] = "joining"
  /\ thread_[a] # NoQueue => running[thread_[a]] = "ended"
  /\ active' = [active EXCEPT ![a] = IF a = Temp THEN "none" ELSE "gone"]
  /\ running' = [q \in Queues |-> IF q = thread_[a] THEN "joined" ELSE running[q]]
  /\ queue_' = [queue_ EXCEPT ![a] = NoQueue]
  /\ thread_' = [thread_ EXCEPT ![a] = NoQueue]
  /\ UNCHANGED <<shutdown_queue, assignedFrom>>

\* The thread ends after shutdown(): ShutdownReturns of CompletionQueue.
LoopEnds(q) ==
  /\ running[q] = "stopping"
  /\ running' = [running EXCEPT ![q] = "ended"]
  /\ UNCHANGED <<active, queue_, thread_, shutdown_queue, assignedFrom>>

ActiveNext ==
  \/ \E a \in Actives :
       \/ Destructor(a)
       \/ \E q \in Queues : Construct(a, q) \/ ConstructFrom(a, q)
       \/ \E b \in Actives : MoveConstruct(a, b) \/ MoveAssign(a, b)
  \/ \E a \in Holders : JoinThread(a)
  \/ \E q \in Queues : StartLoose(q) \/ LoopEnds(q)

ActiveSpec == ActiveInit /\ [][ActiveNext]_activeVars

-----------------------------------------------------------------------------
(* Properties.                                                             *)

\* Every thread has exactly one owner until it is joined, whatever moves there were: no
\* std::thread is destroyed, or assigned to, while joinable, which would end the program.
NoThreadLost ==
  \A q \in Queues :
    Cardinality({a \in Holders : thread_[a] = q}) =
      (IF running[q] \in {"loop", "stopping", "ended"} THEN 1 ELSE 0)

\* An object that holds a queue finds its loop running, unless the queue came by operator=
\* from an object that is destroyed by now: operator= does not release shutdown_ of rhs.
HeldQueueRuns ==
  \A a \in Actives :
    active[a] = "alive" /\ queue_[a] # NoQueue =>
      \/ running[queue_[a]] = "loop"
      \/ \E b \in assignedFrom[queue_[a]] : active[b] \in {"joining", "gone"}

\* The owners of queues and threads: no thread without an owner that will join it, and no
\* owner of a queue that nobody runs, but for what operator= leaves in rhs.
QueuesAreOwned == NoThreadLost /\ HeldQueueRuns
=============================================================================
