----------------------- MODULE CompletionQueueProofs -----------------------
(***************************************************************************)
(* For any number of operations: gRPC reports no tag that the queue does   *)
(* not know, and no object is freed while gRPC may write to it.            *)
(***************************************************************************)
EXTENDS CompletionQueue, TLAPS

\* What run() holds in its local variables: a tag that is still registered, or an
\* operation that is not any more; nothing after the thread was joined.
LoopInv ==
  /\ loop = "event" => op[tag] = "taken"
  /\ loop = "call" => op[tag] = "called"
  /\ app \in {"joined", "destroyed"} => loop = "exited"

\* The inductive invariant.  The account of pending_ops_ depends on where the tag that
\* run() removes stands.
QueueInv == TypeOK /\ OutstandingIsRegistered /\ LoopInv

\* A new queue has nothing registered and nothing outstanding.
LEMMA InitQueueInv == Init => QueueInv
<1> SUFFICES ASSUME Init PROVE QueueInv
  OBVIOUS
<1> USE QueueAssumption DEF Init, Outstanding
<1>1. shutdown_ \in BOOLEAN /\ closed \in BOOLEAN
  BY Zenon
<1>2. TypeOK
  BY <1>1 DEF TypeOK, Kinds
<1>3. OutstandingIsRegistered
  BY DEF OutstandingIsRegistered
<1> QED
  BY <1>2, <1>3 DEF QueueInv, LoopInv

\* Every step of an application thread, of gRPC, of run() and of the destructor keeps the
\* account.
LEMMA NextQueueInv == QueueInv /\ [Next]_vars => QueueInv'
<1> SUFFICES ASSUME QueueInv, [Next]_vars PROVE QueueInv'
  OBVIOUS
<1> USE QueueAssumption DEF QueueInv, TypeOK, OutstandingIsRegistered, LoopInv,
        Outstanding, ops
<1>1. ASSUME NEW o \in Ops, Register(o) PROVE QueueInv'
  <2>1. PICK k \in Kinds, f \in BOOLEAN : Start(o, k, f)
    BY <1>1 DEF Register, make_deadline_timer, async_rpc, async_create_rdwr_stream,
       async_write, async_read, async_writes_done, async_finish, Kinds
  <2> QED
    BY <2>1 DEF Start, create_op, register_op
<1>2. ASSUME NEW o \in Ops, Post(o) PROVE QueueInv'
  BY <1>2 DEF Post
<1>3. ASSUME NEW o \in Ops, Complete(o) PROVE QueueInv'
  BY <1>3 DEF Complete
<1>4. ASSUME NEW o \in Ops, Cancel(o) PROVE QueueInv'
  BY <1>4 DEF Cancel
<1>5. CASE RunTest
  BY <1>5 DEF RunTest, Goto
<1>6. CASE NextTimeout
  BY <1>6 DEF NextTimeout, Goto
<1>7. CASE NextShutdown
  BY <1>7 DEF NextShutdown, Goto
<1>8. ASSUME NEW o \in Ops, NextEvent(o) PROVE QueueInv'
  BY <1>8 DEF NextEvent, Goto
<1>9. CASE UnregisterOp
  BY <1>9 DEF UnregisterOp, Goto
<1>10. CASE CallCallback
  BY <1>10 DEF CallCallback, Goto, FutureResult
<1>11. CASE Shutdown
  BY <1>11 DEF Shutdown
<1>12. CASE CloseQueue
  BY <1>12 DEF CloseQueue
<1>13. CASE Join
  BY <1>13 DEF Join
<1>14. CASE Destroy
  BY <1>14 DEF Destroy
<1>15. CASE UNCHANGED vars
  BY <1>15 DEF vars
<1> QED
  BY <1>1, <1>2, <1>3, <1>4, <1>5, <1>6, <1>7, <1>8, <1>9, <1>10, <1>11, <1>12, <1>13,
     <1>14, <1>15 DEF Next, Run

\* QueueInv holds in every reachable state of the queue.
LEMMA QueueInvariance == Spec => []QueueInv
  BY InitQueueInv, NextQueueInv, PTL DEF Spec

\* The state of the queue is well typed, and run() never looks up or calls nothing.
THEOREM TypeCorrect == Spec => []TypeOK
  BY QueueInvariance, PTL DEF QueueInv

\* register_op() and unregister_op() keep pending_ops_ equal to the operations that gRPC
\* may still write to or report, for any number of operations and any reuse of their
\* addresses.
THEOREM Registration == Spec => []OutstandingIsRegistered
  BY QueueInvariance, PTL DEF QueueInv

-----------------------------------------------------------------------------
(* The queue implements its contract.                                      *)

\* What an operation that ended has, and where in run() it is; a future waits only for an
\* operation whose callback is still to come.
Progress(o) ==
  /\ op[o] = "taken" => loop = "event" /\ tag = o
  /\ op[o] = "called" => loop = "call" /\ tag = o
  /\ op[o] \in {"complete", "taken", "called"} => outcome[o] \in {"ok", "error", "cancelled"}
  /\ future[o] = "waiting" => op[o] \in Outstanding \cup {"called"}

Progresses == (closed <=> app \in {"joining", "joined", "destroyed"}) /\ \A o \in Ops : Progress(o)

\* The inductive invariant of the contract.
CallsInv == QueueInv /\ Progresses

\* There is no operation at first.
LEMMA InitProgresses == Init => Progresses
  BY DEF Init, Progresses, Progress

\* Every step keeps the operations in line with run().
LEMMA NextProgresses == CallsInv /\ [Next]_vars => Progresses'
<1> SUFFICES ASSUME CallsInv, [Next]_vars PROVE Progresses'
  OBVIOUS
<1> USE QueueAssumption DEF CallsInv, Progresses, Progress, QueueInv, TypeOK, LoopInv, Outstanding, ops
<1>1. ASSUME NEW o \in Ops, Register(o) PROVE Progresses'
  <2>1. PICK k \in Kinds, f \in BOOLEAN : Start(o, k, f)
    BY <1>1 DEF Register, make_deadline_timer, async_rpc, async_create_rdwr_stream,
       async_write, async_read, async_writes_done, async_finish, Kinds
  <2> QED
    BY <2>1 DEF Start, create_op, register_op
<1>2. ASSUME NEW o \in Ops, Post(o) PROVE Progresses'
  BY <1>2 DEF Post
<1>3. ASSUME NEW o \in Ops, Complete(o) PROVE Progresses'
  BY <1>3 DEF Complete
<1>4. ASSUME NEW o \in Ops, Cancel(o) PROVE Progresses'
  BY <1>4 DEF Cancel
<1>5. CASE RunTest
  BY <1>5 DEF RunTest, Goto
<1>6. CASE NextTimeout
  BY <1>6 DEF NextTimeout, Goto
<1>7. CASE NextShutdown
  BY <1>7 DEF NextShutdown, Goto
<1>8. ASSUME NEW o \in Ops, NextEvent(o) PROVE Progresses'
  BY <1>8 DEF NextEvent, Goto
<1>9. CASE UnregisterOp
  BY <1>9 DEF UnregisterOp, Goto, OutstandingIsRegistered
<1>10. CASE CallCallback
  BY <1>10 DEF CallCallback, Goto, FutureResult
<1>11. CASE Shutdown
  BY <1>11 DEF Shutdown
<1>12. CASE CloseQueue
  BY <1>12 DEF CloseQueue
<1>13. CASE Join
  BY <1>13 DEF Join
<1>14. CASE Destroy
  BY <1>14 DEF Destroy, OutstandingIsRegistered
<1>15. CASE UNCHANGED vars
  BY <1>15 DEF vars
<1> QED
  BY <1>1, <1>2, <1>3, <1>4, <1>5, <1>6, <1>7, <1>8, <1>9, <1>10, <1>11, <1>12, <1>13,
     <1>14, <1>15 DEF Next, Run

\* CallsInv holds in every reachable state of the queue.
LEMMA CallsInvariance == Spec => []CallsInv
  BY InitQueueInv, NextQueueInv, InitProgresses, NextProgresses, PTL DEF Spec, CallsInv

\* A step of one operation, as the contract sees it.
LEMMA OperationImplements ==
  ASSUME CallsInv, NEW o \in Ops, Register(o) \/ Post(o) \/ Complete(o) \/ Cancel(o)
  PROVE  \/ QueueContract!Start(o) \/ QueueContract!End(o)
         \/ UNCHANGED QueueContract!vars
<1> USE DEF CallsInv, Progresses, QueueInv, TypeOK, Outstanding, ops
<1>1. CASE Register(o)
  <2>1. PICK k \in Kinds, f \in BOOLEAN : Start(o, k, f)
    BY <1>1 DEF Register, make_deadline_timer, async_rpc, async_create_rdwr_stream,
       async_write, async_read, async_writes_done, async_finish, Kinds
  <2>2. /\ CallsOf[o] = "idle" /\ CallsOf' = [CallsOf EXCEPT ![o] = "started"]
    BY <2>1 DEF Start, create_op, CallsOf
  <2>3. \E g \in {"none", "waiting"} : future' = [future EXCEPT ![o] = g]
    BY <2>1 DEF Start, create_op
  <2>4. ~closed /\ UNCHANGED <<outcome, app, closed>>
    BY <2>1 DEF Start, create_op
  <2> QED
    BY <2>2, <2>3, <2>4 DEF QueueContract!Start
<1>2. CASE Post(o)
  <2>1. CallsOf' = CallsOf /\ UNCHANGED <<outcome, future, app, closed>>
    BY <1>2 DEF Post, CallsOf
  <2> QED
    BY <2>1 DEF QueueContract!vars
<1>3. CASE Complete(o) \/ Cancel(o)
  <2>1. /\ CallsOf[o] = "started" /\ CallsOf' = [CallsOf EXCEPT ![o] = "ended"]
        /\ UNCHANGED <<future, app, closed>>
    <3>1. /\ op[o] = "posted" /\ op' = [op EXCEPT ![o] = "complete"]
          /\ UNCHANGED <<future, app, closed>>
      BY <1>3 DEF Complete, Cancel
    <3> QED
      BY <3>1 DEF CallsOf
  <2>2. \E r \in {"ok", "error", "cancelled"} : outcome' = [outcome EXCEPT ![o] = r]
    BY <1>3 DEF Complete, Cancel
  <2> QED
    BY <2>1, <2>2 DEF QueueContract!End, QueueContract!Results
<1> QED
  BY <1>1, <1>2, <1>3

\* The callback is called with the result of the operation that run() holds.
LEMMA CallbackImplements ==
  ASSUME CallsInv, CallCallback
  PROVE  QueueContract!CallBack(tag)
<1> USE DEF CallsInv, Progresses, Progress, QueueInv, TypeOK, LoopInv, Outstanding, Goto, CallCallback
<1>1. tag \in Ops /\ op[tag] = "called" /\ app # "destroyed"
  OBVIOUS
<1>2. /\ CallsOf[tag] = "ended" /\ CallsOf' = [CallsOf EXCEPT ![tag] = "idle"]
      /\ outcome' = [outcome EXCEPT ![tag] = "none"] /\ UNCHANGED <<app, closed>>
  BY <1>1 DEF CallsOf
<1>3. FutureResult(tag) \in QueueContract!Settles(outcome[tag])
  BY <1>1 DEF FutureResult, QueueContract!Settles
<1>4. \E v \in QueueContract!Settles(outcome[tag]) :
        future' = [future EXCEPT ![tag] = IF @ = "waiting" THEN v ELSE @]
  BY <1>3
<1> DEFINE queue == IF ~closed THEN "open" ELSE IF app = "destroyed" THEN "gone" ELSE "closed"
<1>5. queue # "gone" /\ queue' = queue
  BY <1>1, <1>2
<1> HIDE DEF queue
<1> QED
  BY <1>1, <1>2, <1>4, <1>5 DEF QueueContract!CallBack, queue

\* The other steps of run() are not visible to those who started the operations.
LEMMA RunImplements ==
  ASSUME CallsInv,
         \/ RunTest \/ NextTimeout \/ NextShutdown \/ UnregisterOp
         \/ \E o \in Ops : NextEvent(o)
  PROVE  UNCHANGED QueueContract!vars
<1> USE DEF CallsInv, Progresses, QueueInv, TypeOK, LoopInv, Outstanding, ops, Goto
<1>1. UNCHANGED <<outcome, future, app, closed>>
  BY DEF RunTest, NextTimeout, NextShutdown, UnregisterOp, NextEvent
<1>2. CallsOf' = CallsOf
  BY DEF RunTest, NextTimeout, NextShutdown, UnregisterOp, NextEvent, CallsOf
<1> QED
  BY <1>1, <1>2 DEF QueueContract!vars

\* The end of the queue, which leaves no operation behind.
LEMMA EndImplements ==
  ASSUME CallsInv, Shutdown \/ CloseQueue \/ Join \/ Destroy
  PROVE  QueueContract!Close \/ QueueContract!Go \/ UNCHANGED QueueContract!vars
<1> USE DEF CallsInv, Progresses, Progress, QueueInv, TypeOK, LoopInv, Outstanding, ops
<1>1. CASE Shutdown \/ Join
  <2>1. /\ app' # "destroyed" /\ app # "destroyed"
        /\ CallsOf' = CallsOf /\ UNCHANGED <<outcome, future, closed>>
    BY <1>1 DEF Shutdown, Join, CallsOf
  <2> QED
    BY <2>1 DEF QueueContract!vars
<1>2. CASE CloseQueue
  <2>1. /\ ~closed /\ closed' /\ app' = "joining"
        /\ CallsOf' = CallsOf /\ UNCHANGED <<outcome, future>>
    BY <1>2 DEF CloseQueue, CallsOf
  <2> QED
    BY <2>1 DEF QueueContract!Close
<1>3. CASE Destroy
  <2>1. closed /\ closed' /\ app = "joined" /\ app' = "destroyed" /\ UNCHANGED outcome
    BY <1>3 DEF Destroy
  <2>2. \A o \in Ops : o \in pending_ops_ <=> op[o] \notin {"free", "abandoned"}
    BY <2>1 DEF OutstandingIsRegistered
  <2>3. CallsOf' = [o \in Ops |-> IF CallsOf[o] = "idle" THEN "idle" ELSE "dropped"]
    BY <1>3, <2>2 DEF Destroy, CallsOf
  <2>4. future' = [o \in Ops |-> IF future[o] = "waiting" THEN "broken" ELSE future[o]]
    BY <1>3, <2>2 DEF Destroy
  <2> QED
    BY <2>1, <2>3, <2>4 DEF QueueContract!Go
<1> QED
  BY <1>1, <1>2, <1>3

\* pending_ops_, the tags and the loop implement the contract that the other components
\* rely on: one callback for each operation, with its result, or a broken future.
THEOREM QueueKeepsContract == Spec => ImplementsCalls
<1>1. Init => QueueContract!Init
  BY DEF Init, QueueContract!Init, CallsOf
<1>2. CallsInv /\ [Next]_vars => [QueueContract!Next]_(QueueContract!vars)
  <2> SUFFICES ASSUME CallsInv, [Next]_vars
               PROVE  [QueueContract!Next]_(QueueContract!vars)
    OBVIOUS
  <2> USE DEF QueueContract!Next
  <2>1. CASE \E o \in Ops : Register(o) \/ Post(o) \/ Complete(o) \/ Cancel(o)
    BY <2>1, OperationImplements
  <2>2. CASE Run
    <3>1. CASE CallCallback
      <4>1. tag \in Ops
        BY <3>1 DEF CallCallback, Goto, CallsInv, QueueInv, TypeOK
      <4> QED
        BY <3>1, <4>1, CallbackImplements
    <3> QED
      BY <2>2, <3>1, RunImplements DEF Run
  <2>3. CASE Shutdown \/ CloseQueue \/ Join \/ Destroy
    BY <2>3, EndImplements
  <2>4. CASE UNCHANGED vars
    BY <2>4 DEF vars, ops, QueueContract!vars, CallsOf
  <2> QED
    BY <2>1, <2>2, <2>3, <2>4 DEF Next
<1> QED
  BY <1>1, <1>2, CallsInvariance, PTL DEF Spec, ImplementsCalls, QueueContract!Spec

\* The contract is enough for its users: from its steps alone it follows that a future is
\* kept waiting only while a callback is still to come.
THEOREM ContractSafety == QueueContract!Spec => []QueueContract!WaitsForCallback
<1> DEFINE CInv ==
      /\ future \in [Ops -> {"none", "waiting", "value", "exception", "broken"}]
      /\ CallsOf \in [Ops -> {"idle", "started", "ended", "dropped"}]
      /\ QueueContract!WaitsForCallback
<1>1. QueueContract!Init => CInv
  BY DEF QueueContract!Init, QueueContract!WaitsForCallback
<1>2. CInv /\ [QueueContract!Next]_(QueueContract!vars) => CInv'
  BY DEF QueueContract!Next, QueueContract!vars, QueueContract!Start, QueueContract!End,
         QueueContract!CallBack, QueueContract!Close, QueueContract!Go,
         QueueContract!WaitsForCallback, QueueContract!Settles
<1>3. CInv => QueueContract!WaitsForCallback
  OBVIOUS
<1> QED
  BY <1>1, <1>2, <1>3, PTL DEF QueueContract!Spec
=============================================================================
