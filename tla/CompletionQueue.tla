-------------------------- MODULE CompletionQueue --------------------------
(***************************************************************************)
(* gh::completion_queue and gh::detail::base_completion_queue: starting an *)
(* asynchronous operation, the loop that runs the callbacks, shutdown()    *)
(* and the destruction by an active_completion_queue, which owns the       *)
(* thread of the loop.                                                     *)
(*                                                                         *)
(* The tag that gRPC gets for an operation is the address of its object,   *)
(* and pending_ops_ is what keeps the object alive while gRPC writes to    *)
(* it.  Any thread may start operations, the loop's callbacks included.    *)
(***************************************************************************)
EXTENDS Integers

CONSTANTS
  Ops,         \* addresses that objects of operations can have
  NoOp,        \* nullptr
  MaxStarted   \* bound: how many operations are started

ASSUME QueueAssumption == NoOp \notin Ops /\ MaxStarted \in Nat

VARIABLES
  pending_ops_,  \* the registered operations
  shutdown_,     \* the flag that ends the loop
  closed,        \* was Shutdown() called on the grpc::CompletionQueue?
  op,            \* op[o]: how far the operation at address o is
  kind,          \* kind[o]: what it does
  outcome,       \* outcome[o]: how it ended, as gRPC reports it
  future,        \* future[o]: the future that the caller of o may wait for
  loop,          \* where run() is
  tag,           \* what AsyncNext() returned to it
  app,           \* how far the destruction of the active_completion_queue is
  started        \* how many operations were started

ops == <<op, kind, outcome, future, started>>
vars == <<pending_ops_, shutdown_, closed, ops, loop, tag, app>>

Kinds == {"timer", "rpc", "create", "write", "read", "writes_done", "finish"}

\* Those with a grpc::Status.
StatusKinds == {"rpc", "finish"}

\* Those that end when their timer, or the stream they are for, is canceled.
CancelKinds == Kinds \ {"rpc"}

Outstanding == {"registered", "posted", "complete", "taken"}

Init ==
  /\ pending_ops_ = {} /\ shutdown_ = FALSE /\ closed = FALSE
  /\ op = [o \in Ops |-> "free"]
  /\ kind = [o \in Ops |-> "rpc"]
  /\ outcome = [o \in Ops |-> "none"]
  /\ future = [o \in Ops |-> "none"]
  /\ loop = "test" /\ tag = NoOp
  /\ app = "open" /\ started = 0

-----------------------------------------------------------------------------
(* Starting an operation.                                                  *)

\* create_op(): an object at o, of kind k, whose callback resolves a future if f.
create_op(o, k, f) ==
  /\ op[o] = "free" /\ started < MaxStarted /\ started' = started + 1
  /\ op' = [op EXCEPT ![o] = "registered"]
  /\ kind' = [kind EXCEPT ![o] = k]
  /\ future' = [future EXCEPT ![o] = IF f THEN "waiting" ELSE "none"]
  /\ UNCHANGED outcome

\* Mutant of register_op: the operation is not saved.
register_nothing(o) == UNCHANGED pending_ops_

\* register_op()
register_op(o) == pending_ops_' = pending_ops_ \cup {o}

\* Operations may be started while shutdown() is under way, which no function of the queue
\* looks at.  That nobody starts one once Shutdown() was called on gRPC's queue is what gRPC
\* asks of the callers.
Start(o, k, f) ==
  /\ ~closed
  /\ create_op(o, k, f) /\ register_op(o)
  /\ UNCHANGED <<shutdown_, closed, loop, tag, app>>

\* The functions that start operations, those with gh::use_future included, up to the
\* call of the interceptor.
make_deadline_timer(o) == Start(o, "timer", FALSE)

async_rpc(o) == \E f \in BOOLEAN : Start(o, "rpc", f)

async_create_rdwr_stream(o) == \E f \in BOOLEAN : Start(o, "create", f)

async_write(o) == Start(o, "write", FALSE)

async_read(o) == Start(o, "read", FALSE)

async_writes_done(o) == \E f \in BOOLEAN : Start(o, "writes_done", f)

async_finish(o) == \E f \in BOOLEAN : Start(o, "finish", f)

Register(o) ==
  \/ make_deadline_timer(o) \/ async_rpc(o)
  \/ async_create_rdwr_stream(o) \/ async_write(o) \/ async_read(o)
  \/ async_writes_done(o) \/ async_finish(o)

\* The interceptor hands the tag to gRPC, which takes none after Shutdown().
Post(o) ==
  /\ op[o] = "registered" /\ ~closed
  /\ op' = [op EXCEPT ![o] = "posted"]
  /\ UNCHANGED <<pending_ops_, shutdown_, closed, kind, outcome, future, started, loop,
                 tag, app>>

\* gRPC ends an operation, with a bad status or not ok if it failed.
Complete(o) ==
  /\ op[o] = "posted"
  /\ op' = [op EXCEPT ![o] = "complete"]
  /\ \E r \in {"ok", "cancelled"} \cup (IF kind[o] \in StatusKinds THEN {"error"} ELSE {}) :
       outcome' = [outcome EXCEPT ![o] = r]
  /\ UNCHANGED <<pending_ops_, shutdown_, closed, kind, future, started, loop, tag, app>>

\* deadline_timer::cancel() or try_cancel_on().
Cancel(o) ==
  /\ op[o] = "posted" /\ kind[o] \in CancelKinds
  /\ op' = [op EXCEPT ![o] = "complete"]
  /\ outcome' = [outcome EXCEPT ![o] = "cancelled"]
  /\ UNCHANGED <<pending_ops_, shutdown_, closed, kind, future, started, loop, tag, app>>

-----------------------------------------------------------------------------
(* The loop.                                                               *)

Goto(here, there) == loop = here /\ loop' = there

\* The condition of the loop.
RunTest ==
  /\ Goto("test", IF shutdown_ THEN "exited" ELSE "next")
  /\ UNCHANGED <<pending_ops_, shutdown_, closed, ops, tag, app>>

Idle == \A o \in Ops : op[o] # "complete"

\* Mutant of NextTimeout: the loop ends.
NextTimeoutBreaks ==
  /\ Idle /\ Goto("next", "exited")
  /\ UNCHANGED <<pending_ops_, shutdown_, closed, ops, tag, app>>

\* AsyncNext() returns TIMEOUT after loop_timeout.
NextTimeout ==
  /\ Idle /\ Goto("next", "test")
  /\ UNCHANGED <<pending_ops_, shutdown_, closed, ops, tag, app>>

\* AsyncNext() returns SHUTDOWN, once everything that was posted is complete and taken.
NextShutdown ==
  /\ closed /\ \A o \in Ops : op[o] \notin {"posted", "complete"}
  /\ Goto("next", "exited")
  /\ UNCHANGED <<pending_ops_, shutdown_, closed, ops, tag, app>>

\* AsyncNext() returns the tag of a complete operation.
NextEvent(o) ==
  /\ op[o] = "complete" /\ op' = [op EXCEPT ![o] = "taken"]
  /\ tag' = o /\ Goto("next", "event")
  /\ UNCHANGED <<pending_ops_, shutdown_, closed, kind, outcome, future, started, app>>

\* Mutant of UnregisterOp: the operation is found and not erased.
UnregisterOpKeeping ==
  LET found == tag \in pending_ops_
  IN  /\ Goto("event", IF found THEN "call" ELSE "test")
      /\ op' = [op EXCEPT ![tag] = IF found THEN "called" ELSE @]
      /\ UNCHANGED <<pending_ops_, shutdown_, closed, kind, outcome, future, started, tag, app>>

\* unregister_op() finds and erases the operation, and run() holds it from here; or the
\* tag is unknown, and the loop goes on.
UnregisterOp ==
  LET found == tag \in pending_ops_
  IN  /\ Goto("event", IF found THEN "call" ELSE "test")
      /\ op' = [op EXCEPT ![tag] = IF found THEN "called" ELSE @]
      /\ pending_ops_' = pending_ops_ \ {tag}
      /\ UNCHANGED <<shutdown_, closed, kind, outcome, future, started, tag, app>>

\* Mutant of FutureResult: nothing is set if the operation was canceled.
FutureResultOfCompletedOnly(o) ==
  IF outcome[o] = "cancelled" THEN "waiting"
  ELSE IF kind[o] = "rpc" /\ outcome[o] = "error" THEN "exception" ELSE "value"

\* What the callbacks for gh::use_future do to their promise.  The status of Finish() is
\* its value, that of an RPC an exception unless it is good.
FutureResult(o) ==
  IF outcome[o] = "cancelled" \/ (kind[o] = "rpc" /\ outcome[o] = "error")
  THEN "exception" ELSE "value"

\* The callback runs, and then run() drops the operation: its address is free.  (The
\* caller that keeps a timer only delays that.)
CallCallback ==
  /\ Goto("call", "test")
  /\ future' = [future EXCEPT ![tag] = IF @ = "waiting" THEN FutureResult(tag) ELSE @]
  /\ op' = [op EXCEPT ![tag] = "free"] /\ outcome' = [outcome EXCEPT ![tag] = "none"]
  /\ tag' = NoOp
  /\ UNCHANGED <<pending_ops_, shutdown_, closed, kind, started, app>>

-----------------------------------------------------------------------------
(* The end.                                                                *)

\* Mutant of Shutdown: the flag is not set, the loop has to notice the closed queue.
ShutdownUnflagged ==
  /\ app = "open" /\ app' = "closing"
  /\ UNCHANGED <<pending_ops_, shutdown_, closed, ops, loop, tag>>

\* The destructor of defer_shutdown calls shutdown(), which sets the flag ...
Shutdown ==
  /\ app = "open" /\ app' = "closing"
  /\ shutdown_' = TRUE
  /\ UNCHANGED <<pending_ops_, closed, ops, loop, tag>>

\* ... and closes the queue of gRPC.
CloseQueue ==
  /\ app = "closing" /\ app' = "joining"
  /\ closed' = TRUE
  /\ UNCHANGED <<pending_ops_, shutdown_, ops, loop, tag>>

\* The thread is joined ...
Join ==
  /\ app = "joining" /\ loop = "exited" /\ app' = "joined"
  /\ UNCHANGED <<pending_ops_, shutdown_, closed, ops, loop, tag>>

\* ... and the completion_queue destroyed, with the operations that are still registered:
\* their promises are broken.
Destroy ==
  /\ app = "joined" /\ app' = "destroyed"
  /\ pending_ops_' = {}
  /\ op' = [o \in Ops |-> IF o \in pending_ops_ THEN "abandoned" ELSE op[o]]
  /\ future' = [o \in Ops |->
                  IF o \in pending_ops_ /\ future[o] = "waiting" THEN "broken" ELSE future[o]]
  /\ UNCHANGED <<shutdown_, closed, kind, outcome, started, loop, tag>>

-----------------------------------------------------------------------------

Run ==
  \/ RunTest \/ NextTimeout \/ NextShutdown
  \/ \E o \in Ops : NextEvent(o)
  \/ UnregisterOp \/ CallCallback

Next ==
  \/ \E o \in Ops : Register(o) \/ Post(o) \/ Complete(o) \/ Cancel(o)
  \/ Run
  \/ Shutdown \/ CloseQueue \/ Join \/ Destroy

\* A thread that started an operation, the loop and the destructor go on.  gRPC ends
\* everything but Read(), which may wait for the server forever.  Operations that are
\* complete are taken in turn.
Fairness ==
  /\ \A o \in Ops : /\ WF_vars(Post(o)) /\ WF_vars(kind[o] # "read" /\ Complete(o))
                    /\ SF_vars(NextEvent(o))
  /\ WF_vars(Run) /\ WF_vars(CloseQueue) /\ WF_vars(Join) /\ WF_vars(Destroy)

Spec == Init /\ [][Next]_vars /\ Fairness

-----------------------------------------------------------------------------
(* Properties.                                                             *)

\* The types of the variables; run() never looks up or calls nothing.
TypeOK ==
  /\ pending_ops_ \subseteq Ops /\ shutdown_ \in BOOLEAN /\ closed \in BOOLEAN
  /\ op \in [Ops -> Outstanding \cup {"free", "called", "abandoned"}]
  /\ kind \in [Ops -> Kinds]
  /\ outcome \in [Ops -> {"none", "ok", "error", "cancelled"}]
  /\ future \in [Ops -> {"none", "waiting", "value", "exception", "broken"}]
  /\ loop \in {"test", "next", "event", "call", "exited"}
  /\ tag \in Ops \cup {NoOp} /\ (loop \in {"event", "call"} => tag \in Ops)
  /\ app \in {"open", "closing", "joining", "joined", "destroyed"}
  /\ started \in 0..MaxStarted

\* Up to the moment in which the loop takes it over, an operation that gRPC may write to
\* or report is registered, and nothing else is: no tag is unknown, no callback is lost
\* to the "Unknown tag" branch, no object is freed under gRPC, and register_op() never
\* finds its address in use.
OutstandingIsRegistered == pending_ops_ = {o \in Ops : op[o] \in Outstanding}

\* The contract in terms of the queue.
CallsOf ==
  [o \in Ops |-> CASE op[o] = "free" -> "idle"
                   [] op[o] \in {"registered", "posted"} -> "started"
                   [] op[o] \in {"complete", "taken", "called"} -> "ended"
                   [] op[o] = "abandoned" -> "dropped"]

QueueContract == INSTANCE AsyncCalls WITH
  Calls <- Ops, call <- CallsOf, result <- outcome,
  queue <- IF ~closed THEN "open" ELSE IF app = "destroyed" THEN "gone" ELSE "closed"

\* Tags, registrations and the loop implement the contract: one callback for each operation,
\* with its result, or a broken future when the queue is destroyed.
ImplementsCalls == QueueContract!Spec

\* Before the shutdown every operation that gRPC completes gets its callback.
CallbackRuns ==
  \A o \in Ops : op[o] = "complete" ~> (op[o] = "free" \/ shutdown_)

\* Who waits for a future gets a value or an exception, in the worst case because the
\* queue is destroyed with the promise.
FutureReady ==
  \A o \in Ops : future[o] = "waiting" ~> future[o] # "waiting"

\* shutdown() ends the loop, whatever is still pending, and the destructor returns.
ShutdownReturns == app = "closing" ~> app = "destroyed"
=============================================================================
