--------------------------- MODULE AsyncOpCounter ---------------------------
(***************************************************************************)
(* gh::detail::async_op_counter: the counter that candidates, sessions and *)
(* observers use to block until the asynchronous operations they started   *)
(* are finished.  Operations start on any thread and finish on the thread  *)
(* of the completion queue; the thread that owns the counter waits in      *)
(* block_until_all_done() and may destroy the counter once it returns.     *)
(*                                                                         *)
(* Every critical section of mu_ is one step.  del_op() releases the mutex *)
(* before it notifies the condition variable, so the notification is a     *)
(* step of its own, and so is the rest of the callback that called         *)
(* async_op_done(), which goes on using the object that holds the counter. *)
(***************************************************************************)
EXTENDS Integers, FiniteSets

CONSTANTS
  Ops,      \* the asynchronous operations, each started at most once
  Tracers,  \* those that are counted by an async_op_tracer, the RAII helper
  Waiters   \* the threads that call block_until_all_done()

ASSUME OpsAssumption == IsFiniteSet(Ops) /\ Tracers \subseteq Ops

VARIABLES
  pending_,   \* the counter
  shutdown_,  \* no further operation may start
  op,         \* op[o]: how far operation o got
  status_,    \* status_[o]: what async_op_start() returned to o
  waiter,     \* waiter[w]: where thread w is in block_until_all_done()
  destroyed   \* the owner released the counter, and itself

counterVars == <<pending_, shutdown_, op, status_, waiter, destroyed>>

OpStates == {"idle", "running", "notifying", "finishing", "done"}
WaiterStates == {"outside", "waiting", "woken", "returned"}

\* The operations the counter counts.
Counted == {o \in Ops : op[o] = "running" /\ status_[o]}

\* Tracers that were refused a start and decremented the counter all the same.
Uncounted ==
  {o \in Tracers : op[o] \in {"notifying", "finishing", "done"} /\ ~status_[o]}

Sleeping == {w \in Waiters : waiter[w] = "waiting"}

CounterInit ==
  /\ pending_ = 0
  /\ shutdown_ = FALSE
  /\ op = [o \in Ops |-> "idle"]
  /\ status_ = [o \in Ops |-> FALSE]
  /\ waiter = [w \in Waiters |-> "outside"]
  /\ destroyed = FALSE

(***************************************************************************)
(* add_op(): refuse when shutting down, otherwise count.  A plain caller   *)
(* that is refused gives up.  A tracer keeps the status and goes on: its   *)
(* destructor calls async_op_done() whatever the status is.                *)
(***************************************************************************)
AddOp(o) ==
  /\ op[o] = "idle" /\ ~destroyed
  /\ pending_' = IF shutdown_ THEN pending_ ELSE pending_ + 1
  /\ status_' = [status_ EXCEPT ![o] = ~shutdown_]
  /\ op' = [op EXCEPT ![o] = IF shutdown_ /\ o \notin Tracers THEN "done" ELSE "running"]
  /\ UNCHANGED <<shutdown_, waiter, destroyed>>

\* Mutant of DelOp: the test of the count is off by one.
DelOpNotifyingBeforeZero(o) ==
  /\ op[o] = "running"
  /\ pending_' = pending_ - 1
  /\ op' = [op EXCEPT ![o] = IF pending_ - 1 = 1 THEN "notifying" ELSE "finishing"]
  /\ UNCHANGED <<shutdown_, status_, waiter, destroyed>>

(***************************************************************************)
(* del_op(): decrement, and when the count reaches zero unlock the mutex   *)
(* and then notify.                                                        *)
(***************************************************************************)
DelOp(o) ==
  /\ op[o] = "running"
  /\ pending_' = pending_ - 1
  /\ op' = [op EXCEPT ![o] = IF pending_ - 1 = 0 THEN "notifying" ELSE "finishing"]
  /\ UNCHANGED <<shutdown_, status_, waiter, destroyed>>

\* cv_.notify_one(): one of the threads asleep, if there is any, is woken up.
NotifyOne(o) ==
  /\ op[o] = "notifying"
  /\ op' = [op EXCEPT ![o] = "finishing"]
  /\ \/ /\ Sleeping = {}
        /\ UNCHANGED waiter
     \/ \E w \in Sleeping : waiter' = [waiter EXCEPT ![w] = "woken"]
  /\ UNCHANGED <<pending_, shutdown_, status_, destroyed>>

\* The callback (or the scope of the tracer) that called async_op_done() ends.
Return(o) ==
  /\ op[o] = "finishing"
  /\ op' = [op EXCEPT ![o] = "done"]
  /\ UNCHANGED <<pending_, shutdown_, status_, waiter, destroyed>>

\* shutdown()
Shutdown ==
  /\ ~shutdown_ /\ ~destroyed
  /\ shutdown_' = TRUE
  /\ UNCHANGED <<pending_, op, status_, waiter, destroyed>>

\* Mutant of Block: the wait does not refuse new operations first.
BlockWithoutShutdown(w) ==
  /\ waiter[w] = "outside" /\ ~destroyed
  /\ waiter' = [waiter EXCEPT ![w] = IF pending_ = 0 THEN "returned" ELSE "waiting"]
  /\ UNCHANGED <<pending_, shutdown_, op, status_, destroyed>>

(***************************************************************************)
(* block_until_all_done(): stop further operations, then wait for the      *)
(* predicate pending_ == 0, which is tested before the first wait and      *)
(* after every wake up.                                                    *)
(***************************************************************************)
Block(w) ==
  /\ waiter[w] = "outside" /\ ~destroyed
  /\ shutdown_' = TRUE
  /\ waiter' = [waiter EXCEPT ![w] = IF pending_ = 0 THEN "returned" ELSE "waiting"]
  /\ UNCHANGED <<pending_, op, status_, destroyed>>

\* The condition variable may wake a thread that nobody notified.
SpuriousWakeup(w) ==
  /\ waiter[w] = "waiting"
  /\ waiter' = [waiter EXCEPT ![w] = "woken"]
  /\ UNCHANGED <<pending_, shutdown_, op, status_, destroyed>>

Recheck(w) ==
  /\ waiter[w] = "woken"
  /\ waiter' = [waiter EXCEPT ![w] = IF pending_ = 0 THEN "returned" ELSE "waiting"]
  /\ UNCHANGED <<pending_, shutdown_, op, status_, destroyed>>

\* The threads that waited are through, and the owner is destroyed.
Destroy ==
  /\ ~destroyed
  /\ Waiters # {} /\ \A w \in Waiters : waiter[w] = "returned"
  /\ destroyed' = TRUE
  /\ UNCHANGED <<pending_, shutdown_, op, status_, waiter>>

CounterNext ==
  \/ \E o \in Ops : AddOp(o) \/ DelOp(o) \/ NotifyOne(o) \/ Return(o)
  \/ \E w \in Waiters : Block(w) \/ SpuriousWakeup(w) \/ Recheck(w)
  \/ Shutdown
  \/ Destroy

(***************************************************************************)
(* Every operation that was started completes (gRPC delivers each tag once)*)
(* and a thread that is ready to run, the completion queue's or the        *)
(* waiter's, runs.  Nobody has to start an operation or to block.          *)
(***************************************************************************)
CounterFairness ==
  /\ \A o \in Ops : WF_counterVars(DelOp(o)) /\ WF_counterVars(NotifyOne(o)) /\ WF_counterVars(Return(o))
  /\ \A w \in Waiters : WF_counterVars(Recheck(w))

CounterSpec == CounterInit /\ [][CounterNext]_counterVars /\ CounterFairness

-----------------------------------------------------------------------------
\* Types.  The counter never exceeds the number of operations, and falls below
\* zero by no more than the tracers that were refused (add_op, del_op).
CounterTypeOK ==
  /\ pending_ \in (0 - Cardinality(Tracers))..Cardinality(Ops)
  /\ shutdown_ \in BOOLEAN
  /\ op \in [Ops -> OpStates]
  /\ status_ \in [Ops -> BOOLEAN]
  /\ waiter \in [Waiters -> WaiterStates]
  /\ destroyed \in BOOLEAN

\* The counter is the number of operations in flight that it admitted, less the
\* refused tracers that decremented it without having incremented it.
PendingIsCounted == pending_ = Cardinality(Counted) - Cardinality(Uncounted)

\* A thread sleeps only while a wake up is still due: with the counter at zero
\* either the notification is on its way or another thread received it.
NoLostWakeup ==
  \A w \in Waiters :
    waiter[w] = "waiting" /\ pending_ = 0
      => \/ \E o \in Ops : op[o] = "notifying"
         \/ \E v \in Waiters \ {w} : waiter[v] \in {"woken", "returned"}

\* block_until_all_done() returns only when no admitted operation is in flight,
\* and none starts later, as long as no refused tracer upset the count.
BlockReturnsWhenAllDone ==
  (\E w \in Waiters : waiter[w] = "returned") /\ Uncounted = {} => Counted = {}

\* The contract in terms of the counter: a refused tracer that is done voids it.
CounterContract == INSTANCE PendingOperations WITH
  Operations <- Ops, Threads <- Waiters, inFlight <- Counted, closed <- shutdown_,
  through <- {w \in Waiters : waiter[w] = "returned"}, void <- Uncounted # {}

\* The mutex and the condition variable implement the contract: add_op(), del_op() and
\* block_until_all_done() are its steps, and notifications and wake ups are none.
ImplementsCounter == CounterContract!Spec

\* A thread that blocks returns, if no other thread blocks as well (notify_one() wakes
\* one of them) and no refused tracer drives the count past zero.
BlockReturns ==
  \A w \in Waiters :
    waiter[w] = "waiting" ~> waiter[w] = "returned" \/ Uncounted # {}
=============================================================================
