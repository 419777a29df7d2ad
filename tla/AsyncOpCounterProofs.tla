------------------------ MODULE AsyncOpCounterProofs ------------------------
(***************************************************************************)
(* Proofs about AsyncOpCounter, for any finite set of operations, any      *)
(* number of tracers among them and any number of waiting threads.         *)
(***************************************************************************)
EXTENDS AsyncOpCounter, FiniteSetTheorems, TLAPS

\* The types without the range of the counter, which needs the accounting.
Types ==
  /\ pending_ \in Int
  /\ shutdown_ \in BOOLEAN
  /\ op \in [Ops -> OpStates]
  /\ status_ \in [Ops -> BOOLEAN]
  /\ waiter \in [Waiters -> WaiterStates]
  /\ destroyed \in BOOLEAN

\* A thread that entered block_until_all_done() has set shutdown_.
ShutdownOnceBlocked == \A w \in Waiters : waiter[w] # "outside" => shutdown_

\* Only a tracer goes on after async_op_start() returned false.
RefusedRunAsTracers ==
  \A o \in Ops : op[o] = "running" /\ ~status_[o] => o \in Tracers

IInv ==
  /\ Types
  /\ RefusedRunAsTracers
  /\ PendingIsCounted
  /\ ShutdownOnceBlocked
  /\ BlockReturnsWhenAllDone
  /\ NoLostWakeup

-----------------------------------------------------------------------------
\* The operations counted by the counter and the refused tracers are finite
\* sets, no larger than the sets they are drawn from.
LEMMA CountsAreFinite ==
  /\ IsFiniteSet(Counted) /\ Cardinality(Counted) \in 0..Cardinality(Ops)
  /\ IsFiniteSet(Uncounted) /\ Cardinality(Uncounted) \in 0..Cardinality(Tracers)
  /\ Cardinality(Ops) \in Nat /\ Cardinality(Tracers) \in Nat
<1>1. Counted \in SUBSET Ops /\ Uncounted \in SUBSET Tracers
  BY DEF Counted, Uncounted
<1>2. IsFiniteSet(Ops) /\ IsFiniteSet(Tracers)
  BY OpsAssumption, FS_Subset
<1>3. /\ IsFiniteSet(Counted) /\ Cardinality(Counted) <= Cardinality(Ops)
      /\ IsFiniteSet(Uncounted) /\ Cardinality(Uncounted) <= Cardinality(Tracers)
  BY <1>1, <1>2, FS_Subset
<1>4. /\ Cardinality(Counted) \in Nat /\ Cardinality(Uncounted) \in Nat
      /\ Cardinality(Ops) \in Nat /\ Cardinality(Tracers) \in Nat
  BY <1>2, <1>3, FS_CardinalityType
<1>5. QED
  BY <1>3, <1>4

\* A counter at zero that no refused tracer touched has nothing to count.
LEMMA ZeroMeansNoneCounted ==
  PendingIsCounted /\ pending_ = 0 /\ Uncounted = {} => Counted = {}
<1>1. Cardinality({}) = 0 /\ (Cardinality(Counted) = 0 => Counted = {})
  BY CountsAreFinite, FS_EmptySet
<1>2. QED
  BY <1>1, CountsAreFinite DEF PendingIsCounted

\* The initial state satisfies the invariant.
LEMMA InitIInv == CounterInit => IInv
<1> SUFFICES ASSUME CounterInit PROVE IInv
  OBVIOUS
<1>1. Types
  <2>1. pending_ \in Int /\ op \in [Ops -> OpStates] /\ waiter \in [Waiters -> WaiterStates]
    BY DEF CounterInit, OpStates, WaiterStates
  <2>2. shutdown_ \in BOOLEAN /\ status_ \in [Ops -> BOOLEAN] /\ destroyed \in BOOLEAN
    BY Zenon DEF CounterInit
  <2>3. QED
    BY <2>1, <2>2 DEF Types
<1>2. Counted = {} /\ Uncounted = {}
  BY OpsAssumption DEF CounterInit, Counted, Uncounted
<1>3. PendingIsCounted
  BY <1>2, FS_EmptySet DEF CounterInit, PendingIsCounted
<1>4. /\ RefusedRunAsTracers
      /\ ShutdownOnceBlocked /\ BlockReturnsWhenAllDone /\ NoLostWakeup
  BY DEF CounterInit, RefusedRunAsTracers, ShutdownOnceBlocked, BlockReturnsWhenAllDone, NoLostWakeup
<1>5. QED
  BY <1>1, <1>3, <1>4 DEF IInv

\* add_op() preserves the invariant.
LEMMA AddOpIInv ==
  ASSUME IInv, NEW o \in Ops, AddOp(o)
  PROVE  IInv'
<1> USE DEF IInv
<1>1. Types' /\ RefusedRunAsTracers'
  <2>1. (~shutdown_) \in BOOLEAN
    OBVIOUS
  <2>2. status_' \in [Ops -> BOOLEAN]
    BY <2>1 DEF Types, AddOp
  <2>3. Types'
    BY <2>2 DEF Types, AddOp, OpStates
  <2>4. RefusedRunAsTracers'
    BY DEF Types, RefusedRunAsTracers, AddOp
  <2>5. QED
    BY <2>3, <2>4
<1>2. CASE shutdown_
  <2>1. Counted' = Counted /\ Uncounted' = Uncounted
    BY <1>2, OpsAssumption DEF AddOp, Types, Counted, Uncounted
  <2>2. PendingIsCounted' /\ ShutdownOnceBlocked' /\ BlockReturnsWhenAllDone'
    BY <1>2, <2>1 DEF AddOp, PendingIsCounted, ShutdownOnceBlocked, BlockReturnsWhenAllDone
  <2>3. NoLostWakeup'
    BY <1>2 DEF AddOp, Types, NoLostWakeup
  <2>4. QED
    BY <1>1, <2>2, <2>3
<1>3. CASE ~shutdown_
  <2>1. Counted' = Counted \cup {o} /\ o \notin Counted /\ Uncounted' = Uncounted
    BY <1>3, OpsAssumption DEF AddOp, Types, Counted, Uncounted
  <2>2. PendingIsCounted'
    <3>1. Cardinality(Counted') = Cardinality(Counted) + 1
      BY <2>1, CountsAreFinite, FS_AddElement
    <3>2. QED
      BY <1>3, <2>1, <3>1, CountsAreFinite DEF AddOp, Types, PendingIsCounted
  <2>3. \A w \in Waiters : waiter[w] = "outside" /\ waiter'[w] = "outside"
    BY <1>3 DEF ShutdownOnceBlocked, AddOp
  <2>4. ShutdownOnceBlocked' /\ BlockReturnsWhenAllDone' /\ NoLostWakeup'
    BY <2>3 DEF ShutdownOnceBlocked, BlockReturnsWhenAllDone, NoLostWakeup
  <2>5. QED
    BY <1>1, <2>2, <2>4
<1>4. QED
  BY <1>2, <1>3

\* del_op() preserves the invariant: an admitted operation leaves Counted, a
\* refused tracer enters Uncounted, and the last one is left with a wake up due.
LEMMA DelOpIInv ==
  ASSUME IInv, NEW o \in Ops, DelOp(o)
  PROVE  IInv'
<1> USE DEF IInv
<1>1. Types' /\ RefusedRunAsTracers'
  BY DEF Types, RefusedRunAsTracers, DelOp, OpStates
<1>2. ShutdownOnceBlocked' /\ NoLostWakeup'
  BY DEF DelOp, Types, ShutdownOnceBlocked, NoLostWakeup
<1>3. CASE status_[o]
  <2>1. Counted' = Counted \ {o} /\ o \in Counted /\ Uncounted' = Uncounted
    BY <1>3, OpsAssumption DEF DelOp, Types, OpStates, Counted, Uncounted
  <2>2. PendingIsCounted'
    <3>1. Cardinality(Counted') = Cardinality(Counted) - 1
      BY <2>1, CountsAreFinite, FS_RemoveElement
    <3>2. QED
      BY <2>1, <3>1, CountsAreFinite DEF DelOp, Types, PendingIsCounted
  <2>3. BlockReturnsWhenAllDone'
    BY <2>1 DEF DelOp, BlockReturnsWhenAllDone
  <2>4. QED
    BY <1>1, <1>2, <2>2, <2>3
<1>4. CASE ~status_[o] /\ o \in Tracers
  <2>1. Counted' = Counted /\ Uncounted' = Uncounted \cup {o} /\ o \notin Uncounted
    BY <1>4, OpsAssumption DEF DelOp, Types, OpStates, Counted, Uncounted
  <2>2. PendingIsCounted'
    <3>1. Cardinality(Uncounted') = Cardinality(Uncounted) + 1
      BY <2>1, CountsAreFinite, FS_AddElement
    <3>2. QED
      BY <2>1, <3>1, CountsAreFinite DEF DelOp, Types, PendingIsCounted
  <2>3. BlockReturnsWhenAllDone'
    BY <2>1 DEF BlockReturnsWhenAllDone
  <2>4. QED
    BY <1>1, <1>2, <2>2, <2>3
<1>5. QED
  BY <1>3, <1>4 DEF DelOp, RefusedRunAsTracers

\* The steps after del_op() leave the count alone; notify_one() hands the due
\* wake up to a thread that is asleep.
LEMMA CallbackIInv ==
  ASSUME IInv, NEW o \in Ops, NotifyOne(o) \/ Return(o)
  PROVE  IInv'
<1> USE DEF IInv
<1>1. Types' /\ RefusedRunAsTracers' /\ ShutdownOnceBlocked'
  BY DEF Types, RefusedRunAsTracers, ShutdownOnceBlocked, NotifyOne, Return, Sleeping,
         OpStates, WaiterStates
<1>2. Counted' = Counted /\ Uncounted' = Uncounted
  BY OpsAssumption DEF Types, NotifyOne, Return, Counted, Uncounted
<1>3. PendingIsCounted'
  BY <1>2 DEF PendingIsCounted, NotifyOne, Return
<1>4. BlockReturnsWhenAllDone'
  BY <1>2 DEF BlockReturnsWhenAllDone, Types, NotifyOne, Return, Sleeping
<1>5. NoLostWakeup'
  BY DEF NoLostWakeup, Types, NotifyOne, Return, Sleeping
<1>6. QED
  BY <1>1, <1>3, <1>4, <1>5

\* A step of a waiting thread preserves the invariant: it returns only with the
\* counter at zero.
LEMMA WaiterIInv ==
  ASSUME IInv, NEW w \in Waiters, Block(w) \/ SpuriousWakeup(w) \/ Recheck(w)
  PROVE  IInv'
<1> USE DEF IInv, Block, SpuriousWakeup, Recheck
<1>1. Types' /\ RefusedRunAsTracers' /\ ShutdownOnceBlocked'
  BY DEF Types, RefusedRunAsTracers, ShutdownOnceBlocked, WaiterStates
<1>2. Counted' = Counted /\ Uncounted' = Uncounted
  BY DEF Counted, Uncounted
<1>3. PendingIsCounted'
  BY <1>2 DEF PendingIsCounted
<1>4. BlockReturnsWhenAllDone'
  BY <1>2, ZeroMeansNoneCounted DEF BlockReturnsWhenAllDone, Types
<1>5. NoLostWakeup'
  BY DEF NoLostWakeup, Types
<1>6. QED
  BY <1>1, <1>3, <1>4, <1>5

\* shutdown(), the destruction of the owner and stuttering preserve the invariant.
LEMMA OwnerIInv ==
  ASSUME IInv, Shutdown \/ Destroy \/ UNCHANGED counterVars
  PROVE  IInv'
<1>1. Counted' = Counted /\ Uncounted' = Uncounted
  BY DEF Counted, Uncounted, Shutdown, Destroy, counterVars
<1>2. QED
  BY <1>1 DEF IInv, Types, RefusedRunAsTracers, PendingIsCounted, ShutdownOnceBlocked,
       BlockReturnsWhenAllDone, NoLostWakeup, Shutdown, Destroy, counterVars

\* The invariant is inductive.
LEMMA NextIInv == IInv /\ [CounterNext]_counterVars => IInv'
BY AddOpIInv, DelOpIInv, CallbackIInv, WaiterIInv, OwnerIInv DEF CounterNext

\* It holds in all states of the counter by itself.
THEOREM Invariance == CounterSpec => []IInv
BY NextIInv, InitIInv, PTL DEF CounterSpec

\* The count is within the bounds of the operations there are.
LEMMA IInvTypes == IInv => CounterTypeOK
BY CountsAreFinite DEF IInv, Types, CounterTypeOK, PendingIsCounted

\* The counter stays within the bounds its users give it, and the state of
\* every operation and thread is one the class knows.
THEOREM TypeCorrect == CounterSpec => []CounterTypeOK
BY IInvTypes, Invariance, PTL

\* The counter is the number of admitted operations in flight, less the refused
\* tracers that are gone.
THEOREM Accounting == CounterSpec => []PendingIsCounted
<1>1. IInv => PendingIsCounted
  BY DEF IInv
<1>2. QED
  BY <1>1, Invariance, PTL

\* block_until_all_done() returns only when no admitted operation is in flight,
\* and none is admitted later, unless a refused tracer upset the count.
THEOREM BlockSafety == CounterSpec => []BlockReturnsWhenAllDone
<1>1. IInv => BlockReturnsWhenAllDone
  BY DEF IInv
<1>2. QED
  BY <1>1, Invariance, PTL

\* No wake up is lost: a thread asleep with the counter at zero is about to be
\* notified, or the notification went to another thread.
THEOREM WakeupSafety == CounterSpec => []NoLostWakeup
<1>1. IInv => NoLostWakeup
  BY DEF IInv
<1>2. QED
  BY <1>1, Invariance, PTL

-----------------------------------------------------------------------------
(* The counter implements its contract.                                    *)

\* The threads that block_until_all_done() returned to.
Through == {w \in Waiters : waiter[w] = "returned"}

\* add_op() admits the operation, or refuses it, which is no step of the contract.
LEMMA AddOpImplements ==
  ASSUME IInv, NEW o \in Ops, AddOp(o)
  PROVE  CounterContract!Admit(o) \/ UNCHANGED CounterContract!vars
<1>1. Uncounted' = Uncounted /\ Through' = Through
  BY OpsAssumption DEF AddOp, IInv, Types, Uncounted, Through
<1>2. CASE shutdown_
  <2>1. Counted' = Counted
    BY <1>2 DEF AddOp, IInv, Types, Counted
  <2> QED
    BY <1>1, <2>1 DEF AddOp, CounterContract!vars, Through
<1>3. CASE ~shutdown_
  <2>1. Counted' = Counted \cup {o} /\ o \notin Counted
    BY <1>3 DEF AddOp, IInv, Types, Counted
  <2> QED
    BY <1>1, <1>3, <2>1 DEF AddOp, CounterContract!Admit, Through
<1> QED
  BY <1>2, <1>3

\* del_op() ends an operation that was admitted, or voids the contract.
LEMMA DelOpImplements ==
  ASSUME IInv, NEW o \in Ops, DelOp(o)
  PROVE  CounterContract!Done(o) \/ (Uncounted # {})'
<1>1. CASE status_[o]
  <2>1. o \in Counted /\ Counted' = Counted \ {o} /\ Uncounted' = Uncounted /\ Through' = Through
    BY <1>1, OpsAssumption DEF DelOp, IInv, Types, OpStates, Counted, Uncounted, Through
  <2> QED
    BY <2>1 DEF DelOp, CounterContract!Done, Through
<1>2. CASE ~status_[o]
  <2>1. o \in Uncounted'
    BY <1>2, OpsAssumption DEF DelOp, IInv, Types, RefusedRunAsTracers, Uncounted
  <2> QED
    BY <2>1
<1> QED
  BY <1>1, <1>2

\* A thread is let through by block_until_all_done() with the counter at zero, which means
\* that nothing is in flight unless the contract is void; else it only closes the counter.
LEMMA WaiterImplements ==
  ASSUME IInv, NEW w \in Waiters, Block(w) \/ Recheck(w) \/ SpuriousWakeup(w)
  PROVE  \/ CounterContract!LetThrough(w) \/ CounterContract!Close
         \/ UNCHANGED CounterContract!vars
         \/ (Uncounted # {})'
<1>1. Counted' = Counted /\ Uncounted' = Uncounted
  BY DEF Block, Recheck, SpuriousWakeup, Counted, Uncounted
<1>2. CASE waiter'[w] = "returned" /\ (Block(w) \/ Recheck(w))
  <2>1. shutdown_' = TRUE
    BY <1>2 DEF Block, Recheck, IInv, ShutdownOnceBlocked, Types
  <2>2. pending_ = 0 /\ Through' = Through \cup {w}
    BY <1>2 DEF Block, Recheck, IInv, Types, Through
  <2>3. Uncounted = {} => Counted = {}
    BY <2>2, ZeroMeansNoneCounted DEF IInv
  <2> QED
    BY <1>1, <2>1, <2>2, <2>3 DEF CounterContract!LetThrough, Through
<1>3. CASE waiter'[w] # "returned" /\ Block(w)
  <2>1. shutdown_' = TRUE /\ Through' = Through
    BY <1>3 DEF Block, IInv, Types, Through
  <2> QED
    BY <1>1, <2>1 DEF CounterContract!Close, Through
<1>4. CASE waiter'[w] # "returned" /\ Recheck(w)
  <2>1. shutdown_' = shutdown_ /\ Through' = Through
    BY <1>4 DEF Recheck, IInv, Types, Through
  <2> QED
    BY <1>1, <2>1 DEF CounterContract!vars, Through
<1>5. CASE SpuriousWakeup(w)
  <2>1. shutdown_' = shutdown_ /\ Through' = Through
    BY <1>5 DEF SpuriousWakeup, IInv, Types, Through
  <2> QED
    BY <1>1, <2>1 DEF CounterContract!vars, Through
<1> QED
  BY <1>2, <1>3, <1>4, <1>5

\* Every step of the counter is a step of the contract or none.
LEMMA StepImplements ==
  ASSUME IInv, [CounterNext]_counterVars
  PROVE  [CounterContract!Next]_(CounterContract!vars)
<1> USE DEF CounterContract!Next
<1>1. CASE \E o \in Ops : AddOp(o) \/ DelOp(o)
  BY <1>1, AddOpImplements, DelOpImplements
<1>2. CASE \E o \in Ops : NotifyOne(o) \/ Return(o)
  <2>1. Counted' = Counted /\ Uncounted' = Uncounted /\ shutdown_' = shutdown_
    BY <1>2, OpsAssumption DEF IInv, Types, NotifyOne, Return, Counted, Uncounted
  <2>2. Through' = Through
    BY <1>2 DEF IInv, Types, NotifyOne, Return, Sleeping, Through
  <2> QED
    BY <2>1, <2>2 DEF CounterContract!vars, Through
<1>3. CASE \E w \in Waiters : Block(w) \/ SpuriousWakeup(w) \/ Recheck(w)
  BY <1>3, WaiterImplements
<1>4. CASE Shutdown
  <2>1. Counted' = Counted /\ Uncounted' = Uncounted /\ shutdown_' = TRUE /\ Through' = Through
    BY <1>4 DEF Shutdown, Counted, Uncounted, Through
  <2> QED
    BY <2>1 DEF CounterContract!Close, Through
<1>5. CASE Destroy \/ UNCHANGED counterVars
  BY <1>5 DEF Destroy, counterVars, CounterContract!vars, Counted, Uncounted
<1> QED
  BY <1>1, <1>2, <1>3, <1>4, <1>5 DEF CounterNext

\* The mutex, the condition variable and the notification after the unlock implement the
\* contract that the candidate, the session and the observer rely on.
THEOREM CounterKeepsContract == CounterSpec => ImplementsCounter
<1>1. CounterInit => CounterContract!Init
  <2> SUFFICES ASSUME CounterInit PROVE CounterContract!Init
    OBVIOUS
  <2>1. Counted = {} /\ Uncounted = {} /\ Through = {}
    BY OpsAssumption DEF CounterInit, Counted, Uncounted, Through
  <2> QED
    BY <2>1 DEF CounterInit, CounterContract!Init, Through
<1>2. IInv /\ [CounterNext]_counterVars => [CounterContract!Next]_(CounterContract!vars)
  BY StepImplements
<1> QED
  BY <1>1, <1>2, Invariance, PTL DEF CounterSpec, ImplementsCounter, CounterContract!Spec

\* The contract is enough for its users: from its steps alone it follows that whoever was
\* let through meets no operation any more.
THEOREM ContractSafety == CounterContract!Spec => []CounterContract!NoneAfterwards
<1> DEFINE Closed == ~(Uncounted # {}) /\ Through # {} => shutdown_ /\ Counted = {}
<1>1. CounterContract!Init => Closed
  BY DEF CounterContract!Init, Through
<1>2. Closed /\ [CounterContract!Next]_(CounterContract!vars) => Closed'
  BY DEF CounterContract!Next, CounterContract!vars, CounterContract!Admit,
         CounterContract!Done, CounterContract!Close, CounterContract!LetThrough, Through
<1>3. Closed => CounterContract!NoneAfterwards
  BY DEF CounterContract!NoneAfterwards, Through
<1> QED
  BY <1>1, <1>2, <1>3, PTL DEF CounterContract!Spec
=============================================================================
