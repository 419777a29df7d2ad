---------------------------- MODULE SessionProofs ----------------------------
(***************************************************************************)
(* Proofs about Session, for any TTLs, any bound on the delays, and with   *)
(* or without failures.                                                    *)
(***************************************************************************)
EXTENDS Session, TLAPS

\* The types, without the ranges of the counters, which follow from Counted.
Types ==
  /\ leaseLeft \in Nat /\ request \in {"none", "sent", "answered"} /\ answer \in Nat
  /\ age \in 0..MaxDelay
  /\ stream \in {"none", "open", "half_closed", "cancelled", "finished"}
  /\ actual_TTL_ \in Nat
  /\ current_timer_ \in BOOLEAN /\ timerLeft \in Nat /\ timerCancelled \in BOOLEAN
  /\ chain \in {"none"} \cup Outstanding \cup Running
  /\ ops_ \in Int /\ reads_ \in Int
  /\ opsShutdown \in BOOLEAN /\ readsShutdown \in BOOLEAN
  /\ app \in AppStates

\* The counters count the one operation of the chain.
Counted ==
  /\ ops_ = IF chain \in {"timer", "write"} THEN 1 ELSE 0
  /\ reads_ = IF chain = "read" THEN 1 ELSE 0

\* What the application thread has closed at each point of revoke() and of the
\* destructor; no Read() survives the first wait, and nothing survives the last.
Closed ==
  /\ app \in {"new", "grant", "grant_reply"} => chain = "none"
  /\ opsShutdown <=> app \in {"revoke_ops", "revoked", "shutdown_ops", "destroyed"}
  /\ app \in {"revoke_reads", "writes_done", "finish", "revoke_ops", "revoked",
              "shutdown_reads", "shutdown_ops", "destroyed"} => readsShutdown
  /\ app \in {"writes_done", "finish", "revoke_ops", "revoked", "shutdown_ops",
              "destroyed"} => chain # "read"
  /\ NothingOutstanding

SafetyInv == Types /\ Counted /\ Closed

\* The chain holds a request that etcd still has to see, or its answer.
Asking == {"write", "write_done", "read"}

\* How much of the lease is left at each point of the chain.  A timer leaves the
\* delay of the next request; a request on its way has used up part of that delay;
\* an answer on its way is as old as the lease is shorter than its TTL.
Slack ==
  /\ chain # "none"
  /\ chain \in {"timer", "timer_done"} => request # "sent"
  /\ chain \in Asking => request # "none"
  /\ chain = "read_done" => request = "answered"
  /\ chain = "timer" => /\ timerLeft > 0 => age = 0
                        /\ leaseLeft >= timerLeft + MaxDelay + 1 - age
  /\ chain = "timer_done" => leaseLeft >= MaxDelay + 1 - age
  /\ chain \in Asking /\ request = "sent" => leaseLeft >= MaxDelay + 1 - age
  /\ chain \in Asking \cup {"read_done"} /\ request = "answered"
       => answer \in TTLs /\ leaseLeft = answer - age

\* A session that is set up, or in use on an unbroken stream, works and has enough
\* of its lease left.
Timing ==
  /\ app \in {"new", "grant", "grant_reply", "ready"} => ~readsShutdown /\ ~timerCancelled
  /\ app \in {"new", "grant", "grant_reply"} => request = "none"
  /\ app = "grant_reply" => answer \in TTLs /\ leaseLeft = answer - age
  /\ app = "ready" /\ stream = "open" => Slack

-----------------------------------------------------------------------------
(* Safety: types, accounting, and what is left after revoke() and the      *)
(* destructor.                                                             *)

\* The period of the requests is a number of ticks.
LEMMA PeriodIsNat == \A t \in Nat : t \div keep_alives_per_ttl \in Nat
BY DEF keep_alives_per_ttl

\* Before the constructor runs nothing is outstanding.
LEMMA InitSafety == Init => SafetyInv
<1> SUFFICES ASSUME Init PROVE SafetyInv
  OBVIOUS
<1>1. actual_TTL_ \in Nat /\ age \in 0..MaxDelay
  BY SessionAssumption DEF Init
<1>2. current_timer_ \in BOOLEAN /\ timerCancelled \in BOOLEAN
  BY DEF Init
<1>3. opsShutdown \in BOOLEAN /\ readsShutdown \in BOOLEAN
  BY DEF Init
<1>4. Types
  BY <1>1, <1>2, <1>3 DEF Init, Types, AppStates
<1>5. Counted
  BY DEF Init, Counted
<1>6. Closed
  BY DEF Init, Closed, NothingOutstanding, Outstanding
<1>7. QED
  BY <1>4, <1>5, <1>6 DEF SafetyInv

\* Every callback and every call preserves the accounting.
LEMMA SafetyStep == SafetyInv /\ [Next]_vars => SafetyInv'
<1> SUFFICES ASSUME SafetyInv, [Next]_vars PROVE SafetyInv'
  OBVIOUS
<1> USE SessionAssumption DEF SafetyInv, lease, timer, counters
<1>1. CASE Tick
  <2>1. Types'
    BY <1>1 DEF Tick, TimerRuns, Waiting, Types, Counted, Outstanding, Running, AppStates
  <2>2. Counted'
    BY <1>1 DEF Tick, TimerRuns, Waiting, Types, Counted, Closed
  <2>3. Closed'
    BY <1>1 DEF Tick, TimerRuns, Waiting, Types, Counted, Closed, NothingOutstanding, Outstanding
  <2>4. QED
    BY <2>1, <2>2, <2>3
<1>2. CASE ServeKeepAlive
  <2>1. Types'
    BY <1>2 DEF ServeKeepAlive, Types, Counted, Outstanding, Running, AppStates
  <2>2. Counted'
    BY <1>2 DEF ServeKeepAlive, Types, Counted, Closed
  <2>3. Closed'
    BY <1>2 DEF ServeKeepAlive, Types, Counted, Closed, NothingOutstanding, Outstanding
  <2>4. QED
    BY <2>1, <2>2, <2>3
<1>3. CASE StreamBreaks
  <2>1. Types'
    BY <1>3 DEF StreamBreaks, Types, Counted, Outstanding, Running, AppStates
  <2>2. Counted'
    BY <1>3 DEF StreamBreaks, Types, Counted, Closed
  <2>3. Closed'
    BY <1>3 DEF StreamBreaks, Types, Counted, Closed, NothingOutstanding, Outstanding
  <2>4. QED
    BY <2>1, <2>2, <2>3
<1>4. CASE OnTimeout
  <2>1. Types'
    BY <1>4 DEF OnTimeout, Types, Counted, Outstanding, Running, AppStates
  <2>2. Counted'
    BY <1>4 DEF OnTimeout, Types, Counted, Closed
  <2>3. Closed'
    BY <1>4 DEF OnTimeout, Types, Counted, Closed, NothingOutstanding, Outstanding
  <2>4. QED
    BY <2>1, <2>2, <2>3
<1>5. CASE OnTimeoutWrite
  <2>1. Types'
    BY <1>5 DEF OnTimeoutWrite, Types, Counted, Outstanding, Running, AppStates
  <2>2. Counted'
    BY <1>5 DEF OnTimeoutWrite, Types, Counted, Closed
  <2>3. Closed'
    BY <1>5 DEF OnTimeoutWrite, Types, Counted, Closed, NothingOutstanding, Outstanding
  <2>4. QED
    BY <2>1, <2>2, <2>3
<1>6. CASE OnWrite
  <2>1. Types'
    BY <1>6 DEF OnWrite, Types, Counted, Outstanding, Running, AppStates
  <2>2. Counted'
    BY <1>6 DEF OnWrite, Types, Counted, Closed
  <2>3. Closed'
    BY <1>6 DEF OnWrite, Types, Counted, Closed, NothingOutstanding, Outstanding
  <2>4. QED
    BY <2>1, <2>2, <2>3
<1>7. CASE OnWriteRead
  <2>1. Types'
    BY <1>7 DEF OnWriteRead, Types, Counted, Outstanding, Running, AppStates
  <2>2. Counted'
    BY <1>7 DEF OnWriteRead, Types, Counted, Closed
  <2>3. Closed'
    BY <1>7 DEF OnWriteRead, Types, Counted, Closed, NothingOutstanding, Outstanding
  <2>4. QED
    BY <2>1, <2>2, <2>3
<1>8. CASE OnRead
  <2>1. Types'
    BY <1>8 DEF OnRead, Types, Counted, Outstanding, Running, AppStates
  <2>2. Counted'
    BY <1>8 DEF OnRead, Types, Counted, Closed
  <2>3. Closed'
    BY <1>8 DEF OnRead, Types, Counted, Closed, NothingOutstanding, Outstanding
  <2>4. QED
    BY <2>1, <2>2, <2>3
<1>9. CASE OnReadSetTimer
  <2>1. Types'
    <3>1. chain' \in {"none", "timer"} /\ ops_' \in Int /\ age' \in 0..MaxDelay
      BY <1>9 DEF OnReadSetTimer, SetTimer, Types
    <3>2. current_timer_' \in BOOLEAN /\ timerCancelled' \in BOOLEAN
      BY <1>9 DEF OnReadSetTimer, SetTimer, Types
    <3>3. timerLeft' \in Nat
      BY <1>9, PeriodIsNat DEF OnReadSetTimer, SetTimer, Types
    <3>4. QED
      BY <1>9, <3>1, <3>2, <3>3 DEF OnReadSetTimer, Types, Outstanding, AppStates
  <2>2. Counted'
    BY <1>9 DEF OnReadSetTimer, SetTimer, Types, Counted, Closed
  <2>3. Closed'
    BY <1>9 DEF OnReadSetTimer, SetTimer, Types, Counted, Closed, NothingOutstanding, Outstanding
  <2>4. QED
    BY <2>1, <2>2, <2>3
<1>10. CASE CreateStream
  <2>1. Types'
    BY <1>10, ZenonT(60) DEF CreateStream, EnterShutdown, CancelTimer, Types, Counted, Outstanding, Running, AppStates
  <2>2. Counted'
    BY <1>10 DEF CreateStream, EnterShutdown, CancelTimer, Types, Counted, Closed
  <2>3. Closed'
    BY <1>10 DEF CreateStream, EnterShutdown, CancelTimer, Types, Counted, Closed, NothingOutstanding, Outstanding
  <2>4. QED
    BY <2>1, <2>2, <2>3
<1>11. CASE ServeGrant
  <2>1. Types'
    BY <1>11 DEF ServeGrant, Types, Counted, Outstanding, Running, AppStates
  <2>2. Counted'
    BY <1>11 DEF ServeGrant, Types, Counted, Closed
  <2>3. Closed'
    BY <1>11 DEF ServeGrant, Types, Counted, Closed, NothingOutstanding, Outstanding
  <2>4. QED
    BY <2>1, <2>2, <2>3
<1>12. CASE GrantThrows
  <2>1. Types'
    BY <1>12 DEF GrantThrows, EnterShutdown, CancelTimer, Types, Counted, Outstanding, Running, AppStates
  <2>2. Counted'
    BY <1>12 DEF GrantThrows, EnterShutdown, CancelTimer, Types, Counted, Closed
  <2>3. Closed'
    BY <1>12 DEF GrantThrows, EnterShutdown, CancelTimer, Types, Counted, Closed, NothingOutstanding, Outstanding
  <2>4. QED
    BY <2>1, <2>2, <2>3
<1>13. CASE GrantReply
  <2>1. Types'
    <3>1. chain' \in {"none", "timer"} /\ ops_' \in Int /\ age' \in 0..MaxDelay
      BY <1>13 DEF GrantReply, SetTimer, Types
    <3>2. current_timer_' \in BOOLEAN /\ timerCancelled' \in BOOLEAN
      BY <1>13 DEF GrantReply, SetTimer, Types
    <3>3. timerLeft' \in Nat
      BY <1>13, PeriodIsNat DEF GrantReply, SetTimer, Types
    <3>4. QED
      BY <1>13, <3>1, <3>2, <3>3 DEF GrantReply, Types, Outstanding, AppStates
  <2>2. Counted'
    BY <1>13 DEF GrantReply, SetTimer, Types, Counted, Closed
  <2>3. Closed'
    BY <1>13 DEF GrantReply, SetTimer, Types, Counted, Closed, NothingOutstanding, Outstanding
  <2>4. QED
    BY <2>1, <2>2, <2>3
<1>14. CASE Revoke
  <2>1. Types'
    BY <1>14 DEF Revoke, CancelTimer, Types, Counted, Outstanding, Running, AppStates
  <2>2. Counted'
    BY <1>14 DEF Revoke, CancelTimer, Types, Counted, Closed
  <2>3. Closed'
    BY <1>14 DEF Revoke, CancelTimer, Types, Counted, Closed, NothingOutstanding, Outstanding
  <2>4. QED
    BY <2>1, <2>2, <2>3
<1>15. CASE ServeRevoke
  <2>1. Types'
    BY <1>15 DEF ServeRevoke, Types, Counted, Outstanding, Running, AppStates
  <2>2. Counted'
    BY <1>15 DEF ServeRevoke, Types, Counted, Closed
  <2>3. Closed'
    BY <1>15 DEF ServeRevoke, Types, Counted, Closed, NothingOutstanding, Outstanding
  <2>4. QED
    BY <2>1, <2>2, <2>3
<1>16. CASE RevokeThrows
  <2>1. Types'
    BY <1>16 DEF RevokeThrows, Types, Counted, Outstanding, Running, AppStates
  <2>2. Counted'
    BY <1>16 DEF RevokeThrows, Types, Counted, Closed
  <2>3. Closed'
    BY <1>16 DEF RevokeThrows, Types, Counted, Closed, NothingOutstanding, Outstanding
  <2>4. QED
    BY <2>1, <2>2, <2>3
<1>17. CASE RevokeReply
  <2>1. Types'
    BY <1>17 DEF RevokeReply, Types, Counted, Outstanding, Running, AppStates
  <2>2. Counted'
    BY <1>17 DEF RevokeReply, Types, Counted, Closed
  <2>3. Closed'
    BY <1>17 DEF RevokeReply, Types, Counted, Closed, NothingOutstanding, Outstanding
  <2>4. QED
    BY <2>1, <2>2, <2>3
<1>18. CASE RevokeReads
  <2>1. Types'
    BY <1>18 DEF RevokeReads, Types, Counted, Outstanding, Running, AppStates
  <2>2. Counted'
    BY <1>18 DEF RevokeReads, Types, Counted, Closed
  <2>3. Closed'
    BY <1>18 DEF RevokeReads, Types, Counted, Closed, NothingOutstanding, Outstanding
  <2>4. QED
    BY <2>1, <2>2, <2>3
<1>19. CASE WritesDone
  <2>1. Types'
    BY <1>19 DEF WritesDone, Types, Counted, Outstanding, Running, AppStates
  <2>2. Counted'
    BY <1>19 DEF WritesDone, Types, Counted, Closed
  <2>3. Closed'
    BY <1>19 DEF WritesDone, Types, Counted, Closed, NothingOutstanding, Outstanding
  <2>4. QED
    BY <2>1, <2>2, <2>3
<1>20. CASE Finish
  <2>1. Types'
    BY <1>20 DEF Finish, Types, Counted, Outstanding, Running, AppStates
  <2>2. Counted'
    BY <1>20 DEF Finish, Types, Counted, Closed
  <2>3. Closed'
    BY <1>20 DEF Finish, Types, Counted, Closed, NothingOutstanding, Outstanding
  <2>4. QED
    BY <2>1, <2>2, <2>3
<1>21. CASE RevokeOps
  <2>1. Types'
    BY <1>21 DEF RevokeOps, Types, Counted, Outstanding, Running, AppStates
  <2>2. Counted'
    BY <1>21 DEF RevokeOps, Types, Counted, Closed
  <2>3. Closed'
    BY <1>21 DEF RevokeOps, Types, Counted, Closed, NothingOutstanding, Outstanding
  <2>4. QED
    BY <2>1, <2>2, <2>3
<1>22. CASE Destructor
  <2>1. Types'
    <3>1. UNCHANGED <<leaseLeft, request, answer, age, actual_TTL_, chain, ops_, opsShutdown, reads_>>
      BY <1>22 DEF Destructor
    <3>2. CASE app' = "destroyed" /\ UNCHANGED <<timer, stream, readsShutdown>>
      BY <3>1, <3>2 DEF Types, AppStates
    <3>3. CASE EnterShutdown
      <4>1. /\ current_timer_' = FALSE /\ readsShutdown' = TRUE
            /\ timerCancelled' = TRUE \/ UNCHANGED timerCancelled
        BY <3>3 DEF EnterShutdown, CancelTimer
      <4>2. /\ current_timer_' \in BOOLEAN /\ readsShutdown' \in BOOLEAN
            /\ timerCancelled' \in BOOLEAN
        BY <4>1, Zenon DEF Types
      <4> QED
        BY <3>1, <3>3, <4>2 DEF EnterShutdown, CancelTimer, Types, AppStates
    <3> QED
      BY <1>22, <3>2, <3>3 DEF Destructor
  <2>2. Counted'
    BY <1>22 DEF Destructor, EnterShutdown, CancelTimer, Types, Counted, Closed
  <2>3. Closed'
    BY <1>22 DEF Destructor, EnterShutdown, CancelTimer, Types, Counted, Closed, NothingOutstanding, Outstanding
  <2>4. QED
    BY <2>1, <2>2, <2>3
<1>23. CASE ShutdownReads
  <2>1. Types'
    BY <1>23 DEF ShutdownReads, Types, Counted, Outstanding, Running, AppStates
  <2>2. Counted'
    BY <1>23 DEF ShutdownReads, Types, Counted, Closed
  <2>3. Closed'
    BY <1>23 DEF ShutdownReads, Types, Counted, Closed, NothingOutstanding, Outstanding
  <2>4. QED
    BY <2>1, <2>2, <2>3
<1>24. CASE ShutdownOps
  <2>1. Types'
    BY <1>24 DEF ShutdownOps, Types, Counted, Outstanding, Running, AppStates
  <2>2. Counted'
    BY <1>24 DEF ShutdownOps, Types, Counted, Closed
  <2>3. Closed'
    BY <1>24 DEF ShutdownOps, Types, Counted, Closed, NothingOutstanding, Outstanding
  <2>4. QED
    BY <2>1, <2>2, <2>3
<1>25. CASE UNCHANGED vars
  BY <1>25 DEF vars, Types, Counted, Closed, NothingOutstanding
<1>26. QED
  BY <1>1, <1>2, <1>3, <1>4, <1>5, <1>6, <1>7, <1>8, <1>9, <1>10, <1>11, <1>12,
     <1>13, <1>14, <1>15, <1>16, <1>17, <1>18, <1>19, <1>20, <1>21, <1>22, <1>23, <1>24, <1>25 DEF Next, KeepAlive, Continue

\* The inductive invariant of the session.
THEOREM SafetyInvariance == Spec => []SafetyInv
<1>1. QED
  BY InitSafety, SafetyStep, PTL DEF Spec

\* Every variable has its type; in particular the counters are never negative and
\* never count two operations.
THEOREM TypeCorrect == Spec => []TypeOK
<1>1. SafetyInv => TypeOK
  BY DEF SafetyInv, Types, Counted, TypeOK
<1>2. QED
  BY <1>1, SafetyInvariance, PTL

\* No operation is outstanding when revoke() has returned or the object is gone.
THEOREM QuietAtTheEnd == Spec => []NothingOutstanding
<1>1. SafetyInv => NothingOutstanding
  BY DEF SafetyInv, Closed
<1>2. QED
  BY <1>1, SafetyInvariance, PTL

-----------------------------------------------------------------------------
(* The session keeps to the contract of its counter.                       *)

\* What ops_ counts, and which calls have been let through.
Counting == {"timer", "write"}
Returned == {"revoked", "destroyed"}

\* A step that changes neither what ops_ counts, nor whether it is shut down, nor
\* whether a call has returned, is none of the counter's business.
LEMMA OpsUntouched ==
  ASSUME chain' = chain \/ {chain, chain'} \cap Counting = {}, opsShutdown' = opsShutdown,
         app' \in Returned <=> app \in Returned
  PROVE  UNCHANGED OpsContract!vars
BY DEF OpsContract!vars, Counting, Returned

\* The chain starts a timer or a Write().
LEMMA OpsAdmit ==
  ASSUME ~opsShutdown, chain \notin Counting, chain' \in Counting,
         opsShutdown' = opsShutdown, app' \in Returned <=> app \in Returned
  PROVE  OpsContract!Next
<1>1. OpsContract!Admit(chain')
  BY DEF OpsContract!Admit, Counting, Returned
<1>2. QED
  BY <1>1 DEF OpsContract!Next, Counting

\* The chain's timer or Write() is done.
LEMMA OpsDone ==
  ASSUME chain \in Counting, chain' \notin Counting,
         opsShutdown' = opsShutdown, app' \in Returned <=> app \in Returned
  PROVE  OpsContract!Next
<1>1. OpsContract!Done(chain)
  BY DEF OpsContract!Done, Counting, Returned
<1>2. QED
  BY <1>1 DEF OpsContract!Next, Counting

\* ops_ is shut down.
LEMMA OpsClose ==
  ASSUME chain' = chain, opsShutdown' = TRUE, app' \in Returned <=> app \in Returned
  PROVE  OpsContract!Next
BY DEF OpsContract!Next, OpsContract!Close, Returned

\* A call returns from its wait for ops_.
LEMMA OpsReturn ==
  ASSUME chain' = chain, chain \notin Counting, opsShutdown' = TRUE, app' \in Returned
  PROVE  OpsContract!Next
<1>1. OpsContract!LetThrough("application")
  BY DEF OpsContract!LetThrough, Counting, Returned
<1>2. QED
  BY <1>1 DEF OpsContract!Next

\* SetTimer() is refused, or it starts a timer.
LEMMA SetTimerKeepsContract ==
  ASSUME SetTimer(answer), chain \notin Counting, opsShutdown' = opsShutdown,
         app' \in Returned <=> app \in Returned
  PROVE  [OpsContract!Next]_OpsContract!vars
<1>1. CASE opsShutdown
  BY <1>1, OpsUntouched DEF SetTimer, Counting
<1>2. CASE ~opsShutdown
  BY <1>2, OpsAdmit DEF SetTimer, Counting
<1>3. QED
  BY <1>1, <1>2

\* Every step of the session is a step of its counter's contract, or none.
LEMMA OpsStep == SafetyInv /\ [Next]_vars => [OpsContract!Next]_OpsContract!vars
<1> SUFFICES ASSUME SafetyInv, [Next]_vars PROVE [OpsContract!Next]_OpsContract!vars
  OBVIOUS
<1> USE DEF lease, timer, counters
<1>1. CASE Tick \/ ServeKeepAlive \/ StreamBreaks
  BY <1>1, OpsUntouched DEF Tick, ServeKeepAlive, StreamBreaks
<1>2. CASE OnTimeout
  BY <1>2, OpsDone DEF OnTimeout, Counting
<1>3. CASE OnTimeoutWrite
  <2>1. CASE opsShutdown
    BY <1>3, <2>1, OpsUntouched DEF OnTimeoutWrite, Counting
  <2>2. CASE ~opsShutdown
    BY <1>3, <2>2, OpsAdmit DEF OnTimeoutWrite, Counting
  <2>3. QED
    BY <2>1, <2>2
<1>4. CASE OnWrite
  BY <1>4, OpsDone DEF OnWrite, Counting
<1>5. CASE OnWriteRead \/ OnRead
  BY <1>5, OpsUntouched DEF OnWriteRead, OnRead, Counting
<1>6. CASE OnReadSetTimer
  BY <1>6, SetTimerKeepsContract DEF OnReadSetTimer, Counting
<1>7. CASE CreateStream \/ ServeGrant \/ GrantThrows
  BY <1>7, OpsUntouched DEF CreateStream, ServeGrant, GrantThrows, EnterShutdown, Returned
<1>8. CASE GrantReply
  BY <1>8, SetTimerKeepsContract DEF GrantReply, SafetyInv, Closed, Counting, Returned
<1>9. CASE Revoke \/ ServeRevoke \/ RevokeThrows \/ RevokeReply \/ RevokeReads \/ WritesDone
  BY <1>9, OpsUntouched
     DEF Revoke, ServeRevoke, RevokeThrows, RevokeReply, RevokeReads, WritesDone, Returned
<1>10. CASE Finish
  <2>1. CASE stream = "half_closed"
    BY <1>10, <2>1, OpsClose DEF Finish, Returned
  <2>2. CASE stream # "half_closed"
    BY <1>10, <2>2, OpsUntouched DEF Finish, Returned
  <2>3. QED
    BY <2>1, <2>2
<1>11. CASE ShutdownReads
  BY <1>11, OpsClose DEF ShutdownReads, Returned
<1>12. CASE RevokeOps \/ ShutdownOps
  <2>1. chain \notin Counting /\ opsShutdown = TRUE
    BY <1>12 DEF RevokeOps, ShutdownOps, SafetyInv, Types, Counted, Closed, Counting
  <2>2. QED
    BY <1>12, <2>1, OpsReturn DEF RevokeOps, ShutdownOps, Returned
<1>13. CASE Destructor
  <2>1. CASE opsShutdown
    <3>1. app' \in Returned /\ app \in Returned
      BY <1>13, <2>1 DEF Destructor, SafetyInv, Closed, Returned
    <3>2. QED
      BY <1>13, <3>1, OpsUntouched DEF Destructor
  <2>2. CASE ~opsShutdown
    <3>1. app' \notin Returned /\ app \notin Returned
      BY <1>13, <2>2 DEF Destructor, EnterShutdown, SafetyInv, Closed, Returned
    <3>2. QED
      BY <1>13, <3>1, OpsUntouched DEF Destructor
  <2>3. QED
    BY <2>1, <2>2
<1>14. CASE UNCHANGED vars
  BY <1>14, OpsUntouched DEF vars
<1>15. QED
  BY <1>1, <1>2, <1>3, <1>4, <1>5, <1>6, <1>7, <1>8, <1>9, <1>10, <1>11, <1>12, <1>13, <1>14
     DEF Next, KeepAlive, Continue

\* The session keeps to the contract of its counter of operations, for any TTLs and
\* with or without failures: nothing is started after ops_ is shut down, and revoke()
\* and the destructor return only when nothing that was started is left.
THEOREM SessionUsesCounter == Spec => UsesCounter
<1>1. Init => OpsContract!Init
  BY DEF Init, OpsContract!Init
<1>2. QED
  BY <1>1, OpsStep, SafetyInvariance, PTL DEF Spec, UsesCounter, OpsContract!Spec

-----------------------------------------------------------------------------
(* The lease is kept.                                                      *)

\* The chain starts with the constructor.
LEMMA InitTiming == Init => Timing
BY DEF Init, Timing

\* An answer that is at most MaxDelay old is younger than the TTL it carries.
LEMMA AnswerIsFresh ==
  ASSUME SafetyInv, Timely, answer \in TTLs
  PROVE  answer - age > 0
<1>1. answer \in Nat /\ MaxDelay \in Nat /\ age \in 0..MaxDelay
  BY SessionAssumption DEF SafetyInv, Types
<1>2. answer \div keep_alives_per_ttl \in Nat
  BY <1>1, PeriodIsNat
<1>3. answer \div keep_alives_per_ttl + 2 * MaxDelay < answer
  BY DEF Timely
<1>4. ASSUME NEW q \in Nat, q + 2 * MaxDelay < answer PROVE answer - age > 0
  BY <1>1, <1>4
<1>5. QED
  BY <1>2, <1>3, <1>4

\* Wherever the chain is, some of the lease is left.
LEMMA SlackIsPositive ==
  ASSUME SafetyInv, Timing, Timely, app = "ready", stream = "open"
  PROVE  leaseLeft > 0
<1>1. Slack /\ Types
  BY DEF SafetyInv, Timing
<1>2. MaxDelay \in Nat /\ age \in 0..MaxDelay /\ leaseLeft \in Nat /\ timerLeft \in Nat
  BY <1>1, SessionAssumption DEF Types
<1>3. CASE chain \in {"timer", "timer_done"} \/ (chain \in Asking /\ request = "sent")
  BY <1>1, <1>2, <1>3 DEF Slack
<1>4. CASE chain \in Asking \cup {"read_done"} /\ request = "answered"
  BY <1>1, <1>4, AnswerIsFresh DEF Slack
<1>5. QED
  BY <1>1, <1>3, <1>4 DEF Slack, Types, Asking, Outstanding, Running

\* With timely messages, and as long as the stream works, no step uses up the slack.
LEMMA TimingStep ==
  ASSUME SafetyInv, Timing, Timely, [Next]_vars
  PROVE  Timing'
<1> USE SessionAssumption DEF SafetyInv, Types, Closed, Timing, Slack, Asking, lease, timer, counters
<1>1. CASE Tick
  <2>1. CASE app = "grant_reply"
    <3>1. leaseLeft > 0
      BY <2>1, AnswerIsFresh
    <3>2. leaseLeft' = leaseLeft - 1
      BY <1>1, <3>1 DEF Tick
    <3>3. age' = age + 1
      BY <1>1, <2>1 DEF Tick, TimerRuns, Waiting
    <3>4. QED
      BY <1>1, <2>1, <3>2, <3>3 DEF Tick
  <2>2. CASE app = "ready" /\ stream = "open"
    <3>0. leaseLeft > 0
      BY <2>2, SlackIsPositive
    <3>1. CASE TimerRuns
      BY <1>1, <2>2, <3>1 DEF Tick, TimerRuns, Waiting
    <3>2. CASE ~TimerRuns
      <4>1. age' = age + 1 /\ timerLeft' = timerLeft
        BY <1>1, <2>2, <3>2 DEF Tick, Waiting
      <4>2. leaseLeft' = leaseLeft - 1
        BY <1>1, <3>0 DEF Tick
      <4>3. QED
        BY <1>1, <2>2, <3>2, <4>1, <4>2 DEF Tick, TimerRuns
    <3>3. QED
      BY <3>1, <3>2
  <2>3. CASE app # "grant_reply" /\ ~(app = "ready" /\ stream = "open")
    BY <1>1, <2>3 DEF Tick
  <2>4. QED
    BY <2>1, <2>2, <2>3
<1>2. CASE ServeKeepAlive
  BY <1>2 DEF ServeKeepAlive
<1>3. CASE StreamBreaks
  BY <1>3 DEF StreamBreaks
<1>4. CASE OnTimeout
  BY <1>4 DEF OnTimeout
<1>5. CASE OnTimeoutWrite
  BY <1>5 DEF OnTimeoutWrite
<1>6. CASE OnWrite
  BY <1>6 DEF OnWrite
<1>7. CASE OnWriteRead
  BY <1>7 DEF OnWriteRead
<1>8. CASE OnRead
  BY <1>8 DEF OnRead
<1>9. CASE OnReadSetTimer
  BY <1>9, PeriodIsNat DEF OnReadSetTimer, SetTimer, Timely
<1>10. CASE CreateStream
  BY <1>10 DEF CreateStream, EnterShutdown, CancelTimer
<1>11. CASE ServeGrant
  BY <1>11 DEF ServeGrant
<1>12. CASE GrantThrows
  BY <1>12 DEF GrantThrows, EnterShutdown, CancelTimer
<1>13. CASE GrantReply
  BY <1>13, PeriodIsNat DEF GrantReply, SetTimer, Timely
<1>14. CASE Revoke
  BY <1>14 DEF Revoke, CancelTimer
<1>15. CASE ServeRevoke
  BY <1>15 DEF ServeRevoke
<1>16. CASE RevokeThrows
  BY <1>16 DEF RevokeThrows
<1>17. CASE RevokeReply
  BY <1>17 DEF RevokeReply
<1>18. CASE RevokeReads
  BY <1>18 DEF RevokeReads
<1>19. CASE WritesDone
  BY <1>19 DEF WritesDone
<1>20. CASE Finish
  BY <1>20 DEF Finish
<1>21. CASE RevokeOps
  BY <1>21 DEF RevokeOps
<1>22. CASE Destructor
  BY <1>22 DEF Destructor, EnterShutdown, CancelTimer
<1>23. CASE ShutdownReads
  BY <1>23 DEF ShutdownReads
<1>24. CASE ShutdownOps
  BY <1>24 DEF ShutdownOps
<1>25. CASE UNCHANGED vars
  BY <1>25 DEF vars
<1>26. QED
  BY <1>1, <1>2, <1>3, <1>4, <1>5, <1>6, <1>7, <1>8, <1>9, <1>10, <1>11, <1>12,
     <1>13, <1>14, <1>15, <1>16, <1>17, <1>18, <1>19, <1>20, <1>21, <1>22, <1>23, <1>24, <1>25 DEF Next, KeepAlive, Continue

\* The lease does not expire under a session in use: five requests per TTL are
\* enough when a period and two delays are shorter than the TTL.
THEOREM LeaseSafety == Spec => []LeaseIsKept
<1>1. SafetyInv /\ (Timely => Timing) /\ [Next]_vars => (Timely => Timing)'
  BY TimingStep DEF Timely
<1>2. SafetyInv /\ (Timely => Timing) => LeaseIsKept
  BY SlackIsPositive DEF LeaseIsKept
<1>3. Init => (Timely => Timing)
  BY InitTiming
<1>4. QED
  BY <1>1, <1>2, <1>3, SafetyInvariance, PTL DEF Spec
=============================================================================
