------------------------------- MODULE Session -------------------------------
(***************************************************************************)
(* gh::detail::session_impl: a lease that is kept alive in the background. *)
(* The application thread constructs the session, revokes the lease and    *)
(* destroys the session; the completion queue thread runs a chain of       *)
(* callbacks, timer -> Write() -> Read() -> timer, each of which starts    *)
(* the next operation.  etcd keeps the lease while requests arrive in time.*)
(*                                                                         *)
(* Granularity: a callback first reports its operation as done and then    *)
(* starts the next one under another acquisition of the mutex, so it takes *)
(* two steps; the application thread may act in between.  The tracers that *)
(* bracket blocking calls are left out of ops_: none of them is alive      *)
(* while the application thread waits for ops_ to drain.                   *)
(***************************************************************************)
EXTENDS Integers

CONSTANTS
  TTLs,      \* the times to live that etcd may assign, in ticks
  MaxDelay,  \* bound: ticks from a timer's expiration until etcd has renewed the
             \* lease, and from there until the next timer is set
  Failures   \* may RPCs and streams fail?

\* How many KeepAlive requests are sent per TTL cycle.
keep_alives_per_ttl == 5

ASSUME SessionAssumption ==
  /\ TTLs \subseteq Nat \ {0} /\ TTLs # {}
  /\ MaxDelay \in Nat
  /\ Failures \in BOOLEAN

VARIABLES
  leaseLeft,      \* etcd: ticks until the lease expires, 0 if there is no lease
  request,        \* the last KeepAlive request: "none", "sent" or "answered"
  answer,         \* the TTL in etcd's last answer
  age,            \* ticks since the chain, or the constructor, waits for others
  stream,         \* state of ka_stream_
  actual_TTL_,
  current_timer_, \* is the pointer set?
  timerLeft,      \* ticks until the timer expires
  timerCancelled, \* will the timer's callback see ok == false?
  chain,          \* the operation that is outstanding, or the callback that runs
  ops_, opsShutdown, reads_, readsShutdown,
  app             \* the call the application thread is in

lease == <<leaseLeft, request, answer>>
timer == <<current_timer_, timerLeft, timerCancelled>>
counters == <<ops_, opsShutdown, reads_, readsShutdown>>
vars == <<lease, age, stream, actual_TTL_, timer, chain, counters, app>>

\* An operation is outstanding: the completion queue will run its callback.
Outstanding == {"timer", "write", "read"}

\* A callback has reported its operation as done and goes on.
Running == {"timer_done", "write_done", "read_done"}

AppStates ==
  {"new", "grant", "grant_reply", "ready", "revoke_rpc", "revoke_reply", "revoke_reads",
   "writes_done", "finish", "revoke_ops", "revoked", "revoke_failed", "shutdown_reads",
   "shutdown_ops", "destroyed"}

Init ==
  /\ leaseLeft = 0 /\ request = "none" /\ answer = 0
  /\ age = 0
  /\ stream = "none"
  /\ actual_TTL_ \in TTLs
  /\ current_timer_ = FALSE /\ timerLeft = 0 /\ timerCancelled = FALSE
  /\ chain = "none"
  /\ ops_ = 0 /\ opsShutdown = FALSE /\ reads_ = 0 /\ readsShutdown = FALSE
  /\ app = "new"

-----------------------------------------------------------------------------
(* Time, etcd and the network.                                             *)

\* The timer runs: nobody has to do anything before it expires.
TimerRuns == chain = "timer" /\ timerLeft > 0

\* Somebody has to act: the constructor, a callback, the network or etcd.
Waiting == ~TimerRuns /\ (chain # "none" \/ app = "grant_reply")

\* Time passes, but no further than MaxDelay while the chain waits for others.
Tick ==
  /\ leaseLeft > 0 \/ TimerRuns \/ Waiting
  /\ Waiting => age < MaxDelay
  /\ leaseLeft' = IF leaseLeft > 0 THEN leaseLeft - 1 ELSE 0
  /\ timerLeft' = IF TimerRuns THEN timerLeft - 1 ELSE timerLeft
  /\ age' = IF Waiting THEN age + 1 ELSE age
  /\ UNCHANGED <<request, answer, stream, actual_TTL_, current_timer_, timerCancelled,
                 chain, counters, app>>

\* etcd renews the lease and answers, with TTL 0 if the lease is gone.
ServeKeepAlive ==
  /\ request = "sent" /\ stream \in {"open", "half_closed"}
  /\ request' = "answered"
  /\ \/ leaseLeft > 0 /\ \E t \in TTLs : leaseLeft' = t /\ answer' = t
     \/ leaseLeft = 0 /\ leaseLeft' = 0 /\ answer' = 0
  /\ age' = 0
  /\ UNCHANGED <<stream, actual_TTL_, timer, chain, counters, app>>

\* The connection that carries the stream is lost.
StreamBreaks ==
  /\ Failures /\ stream \in {"open", "half_closed"}
  /\ stream' = "cancelled"
  /\ UNCHANGED <<lease, age, actual_TTL_, timer, chain, counters, app>>

-----------------------------------------------------------------------------
(* The keep alive chain, on the completion queue thread.                   *)

\* Mutant of SetTimer: one request per TTL.
SetTimerOncePerTTL(ttl) ==
  \/ /\ opsShutdown
     /\ chain' = "none"
     /\ UNCHANGED <<timer, ops_, age>>
  \/ /\ ~opsShutdown
     /\ ops_' = ops_ + 1
     /\ current_timer_' = TRUE /\ timerCancelled' = FALSE
     /\ timerLeft' = ttl
     /\ chain' = "timer"
     /\ age' = 0

\* set_timer(): nothing happens once ops_ is shut down.
SetTimer(ttl) ==
  \/ /\ opsShutdown
     /\ chain' = "none"
     /\ UNCHANGED <<timer, ops_, age>>
  \/ /\ ~opsShutdown
     /\ ops_' = ops_ + 1
     /\ current_timer_' = TRUE /\ timerCancelled' = FALSE
     /\ timerLeft' = ttl \div keep_alives_per_ttl
     /\ chain' = "timer"
     /\ age' = 0

\* on_timeout() reports the timer as done; a canceled timer ends the chain.
OnTimeout ==
  /\ chain = "timer"
  /\ \/ timerCancelled /\ chain' = "none"
     \/ ~timerCancelled /\ timerLeft = 0 /\ chain' = "timer_done"
  /\ ops_' = ops_ - 1
  /\ UNCHANGED <<lease, age, stream, actual_TTL_, timer, opsShutdown, reads_,
                 readsShutdown, app>>

\* Mutant of OnTimeoutWrite: the answer of async_op_start() is not looked at.
OnTimeoutWriteUnasked ==
  /\ chain = "timer_done"
  /\ ops_' = ops_ + 1
  /\ chain' = "write"
  /\ request' = "sent"
  /\ UNCHANGED <<leaseLeft, answer, age, stream, actual_TTL_, timer, opsShutdown, reads_,
                 readsShutdown, app>>

\* The rest of on_timeout(): Write() a KeepAlive request.
OnTimeoutWrite ==
  /\ chain = "timer_done"
  /\ \/ /\ opsShutdown
        /\ chain' = "none"
        /\ UNCHANGED <<ops_, request>>
     \/ /\ ~opsShutdown
        /\ ops_' = ops_ + 1
        /\ chain' = "write"
        /\ request' = "sent"
  /\ UNCHANGED <<leaseLeft, answer, age, stream, actual_TTL_, timer, opsShutdown, reads_,
                 readsShutdown, app>>

\* on_write() reports the Write() as done; a failed Write() ends the chain.
OnWrite ==
  /\ chain = "write"
  /\ \/ chain' = "write_done"
     \/ stream # "open" /\ chain' = "none"
  /\ ops_' = ops_ - 1
  /\ UNCHANGED <<lease, age, stream, actual_TTL_, timer, opsShutdown, reads_,
                 readsShutdown, app>>

\* The rest of on_write(): Read() the answer.
OnWriteRead ==
  /\ chain = "write_done"
  /\ \/ readsShutdown /\ chain' = "none" /\ UNCHANGED reads_
     \/ ~readsShutdown /\ chain' = "read" /\ reads_' = reads_ + 1
  /\ UNCHANGED <<lease, age, stream, actual_TTL_, timer, ops_, opsShutdown, readsShutdown,
                 app>>

\* Mutant of OnRead: async_op_done() is missing when the Read() failed.
OnReadFailureUncounted ==
  /\ chain = "read"
  /\ \/ request = "answered" /\ chain' = "read_done" /\ reads_' = reads_ - 1
     \/ stream = "cancelled" /\ chain' = "none" /\ UNCHANGED reads_
  /\ UNCHANGED <<lease, age, stream, actual_TTL_, timer, ops_, opsShutdown, readsShutdown,
                 app>>

\* on_read() reports the Read() as done; a failed Read() ends the chain.
OnRead ==
  /\ chain = "read"
  /\ \/ request = "answered" /\ chain' = "read_done"
     \/ stream = "cancelled" /\ chain' = "none"
  /\ reads_' = reads_ - 1
  /\ UNCHANGED <<lease, age, stream, actual_TTL_, timer, ops_, opsShutdown, readsShutdown,
                 app>>

\* The rest of on_read(): adopt the TTL and set the next timer.
OnReadSetTimer ==
  /\ chain = "read_done"
  /\ actual_TTL_' = answer
  /\ SetTimer(answer)
  /\ UNCHANGED <<lease, stream, opsShutdown, reads_, readsShutdown, app>>

-----------------------------------------------------------------------------
(* The application thread.                                                 *)

\* Cancel the current timer and forget it.  A timer that has expired may be on its
\* way to the callback already.
CancelTimer ==
  /\ current_timer_' = FALSE
  /\ \/ current_timer_ /\ chain = "timer" /\ timerCancelled' = TRUE
     \/ ~(current_timer_ /\ TimerRuns) /\ UNCHANGED timerCancelled
  /\ UNCHANGED timerLeft

\* shutdown() up to reads_.block_until_all_done(), where no further Read() may start.
EnterShutdown ==
  /\ CancelTimer
  /\ stream' = IF stream \in {"open", "half_closed"} THEN "cancelled" ELSE stream
  /\ readsShutdown' = TRUE
  /\ app' = "shutdown_reads"

\* preamble(): create the stream, or fail.
CreateStream ==
  /\ app = "new"
  /\ \/ /\ stream' = "open"
        /\ app' = "grant"
        /\ UNCHANGED <<timer, readsShutdown>>
     \/ Failures /\ EnterShutdown
  /\ UNCHANGED <<lease, age, actual_TTL_, chain, ops_, opsShutdown, reads_>>

\* preamble(): etcd grants the lease.
ServeGrant ==
  /\ app = "grant"
  /\ \E t \in TTLs : leaseLeft' = t /\ answer' = t
  /\ app' = "grant_reply"
  /\ age' = 0
  /\ UNCHANGED <<request, stream, actual_TTL_, timer, chain, counters>>

\* preamble(): the grant is rejected or the RPC fails, executed or not.
GrantThrows ==
  /\ Failures /\ app \in {"grant", "grant_reply"}
  /\ EnterShutdown
  /\ UNCHANGED <<lease, age, actual_TTL_, chain, ops_, opsShutdown, reads_>>

\* preamble(): store the lease, set the first timer, and the constructor returns.
GrantReply ==
  /\ app = "grant_reply"
  /\ actual_TTL_' = answer
  /\ SetTimer(answer)
  /\ app' = "ready"
  /\ UNCHANGED <<lease, stream, opsShutdown, reads_, readsShutdown>>

\* revoke() up to the LeaseRevoke RPC.
Revoke ==
  /\ app \in {"ready", "revoke_failed"} /\ ~opsShutdown
  /\ CancelTimer
  /\ app' = "revoke_rpc"
  /\ UNCHANGED <<lease, age, stream, actual_TTL_, chain, counters>>

\* etcd revokes the lease.
ServeRevoke ==
  /\ app = "revoke_rpc" /\ leaseLeft > 0
  /\ leaseLeft' = 0
  /\ app' = "revoke_reply"
  /\ UNCHANGED <<request, answer, age, stream, actual_TTL_, timer, chain, counters>>

\* revoke() throws: there is no such lease any more, or the RPC failed, executed or
\* not.
RevokeThrows ==
  /\ \/ app = "revoke_rpc" /\ leaseLeft = 0
     \/ Failures /\ app \in {"revoke_rpc", "revoke_reply"}
  /\ app' = "revoke_failed"
  /\ UNCHANGED <<lease, age, stream, actual_TTL_, timer, chain, counters>>

\* The lease is revoked: reads_.block_until_all_done() is entered.
RevokeReply ==
  /\ app = "revoke_reply"
  /\ readsShutdown' = TRUE
  /\ app' = "revoke_reads"
  /\ UNCHANGED <<lease, age, stream, actual_TTL_, timer, chain, ops_, opsShutdown, reads_>>

\* No Read() is outstanding: WritesDone() is started.
RevokeReads ==
  /\ app = "revoke_reads" /\ reads_ = 0
  /\ stream' = IF stream = "open" THEN "half_closed" ELSE stream
  /\ app' = "writes_done"
  /\ UNCHANGED <<lease, age, actual_TTL_, timer, chain, counters>>

\* WritesDone() completes and Finish() is started, or revoke() throws.
WritesDone ==
  /\ app = "writes_done"
  /\ \/ app' = "finish"
     \/ stream # "half_closed" /\ app' = "revoke_failed"
  /\ UNCHANGED <<lease, age, stream, actual_TTL_, timer, chain, counters>>

\* Finish() completes; unless its status is OK revoke() throws.  Otherwise
\* ops_.block_until_all_done() is entered.
Finish ==
  /\ app = "finish"
  /\ \/ /\ stream = "half_closed"
        /\ opsShutdown' = TRUE
        /\ app' = "revoke_ops"
     \/ /\ stream # "half_closed"
        /\ app' = "revoke_failed"
        /\ UNCHANGED opsShutdown
  /\ stream' = "finished"
  /\ UNCHANGED <<lease, age, actual_TTL_, timer, chain, ops_, reads_, readsShutdown>>

\* Mutant of RevokeOps: the wait for ops_ is missing.
RevokeOpsWithoutWaiting ==
  /\ app = "revoke_ops"
  /\ app' = "revoked"
  /\ UNCHANGED <<lease, age, stream, actual_TTL_, timer, chain, counters>>

\* No operation is outstanding: revoke() returns.
RevokeOps ==
  /\ app = "revoke_ops" /\ ops_ = 0
  /\ app' = "revoked"
  /\ UNCHANGED <<lease, age, stream, actual_TTL_, timer, chain, counters>>

\* The destructor calls shutdown(), which has nothing to do after revoke().
Destructor ==
  /\ app \in {"ready", "revoked", "revoke_failed"}
  /\ \/ /\ opsShutdown
        /\ app' = "destroyed"
        /\ UNCHANGED <<timer, stream, readsShutdown>>
     \/ ~opsShutdown /\ EnterShutdown
  /\ UNCHANGED <<lease, age, actual_TTL_, chain, ops_, opsShutdown, reads_>>

\* shutdown(): no Read() is outstanding, ops_.block_until_all_done() is entered.
ShutdownReads ==
  /\ app = "shutdown_reads" /\ reads_ = 0
  /\ opsShutdown' = TRUE
  /\ app' = "shutdown_ops"
  /\ UNCHANGED <<lease, age, stream, actual_TTL_, timer, chain, ops_, reads_, readsShutdown>>

\* shutdown(): no operation is outstanding; the object is gone.
ShutdownOps ==
  /\ app = "shutdown_ops" /\ ops_ = 0
  /\ app' = "destroyed"
  /\ UNCHANGED <<lease, age, stream, actual_TTL_, timer, chain, counters>>

-----------------------------------------------------------------------------
KeepAlive ==
  OnTimeout \/ OnTimeoutWrite \/ OnWrite \/ OnWriteRead \/ OnRead \/ OnReadSetTimer

\* The steps of a call that is under way.
Continue ==
  \/ CreateStream \/ ServeGrant \/ GrantThrows \/ GrantReply
  \/ ServeRevoke \/ RevokeThrows \/ RevokeReply \/ RevokeReads \/ WritesDone \/ Finish
  \/ RevokeOps \/ ShutdownReads \/ ShutdownOps

Next ==
  Tick \/ ServeKeepAlive \/ StreamBreaks \/ KeepAlive \/ Continue \/ Revoke \/ Destructor

(***************************************************************************)
(* Time passes, etcd answers, the completion queue thread runs callbacks,  *)
(* and calls that are under way go on.  No failure has to happen, and      *)
(* nobody has to call revoke() or the destructor.                          *)
(***************************************************************************)
Fairness ==
  WF_vars(Tick) /\ WF_vars(ServeKeepAlive) /\ WF_vars(KeepAlive) /\ WF_vars(Continue)

Spec == Init /\ [][Next]_vars /\ Fairness

-----------------------------------------------------------------------------
(* Properties.                                                             *)

\* Types; the counters never go negative and never count two operations, as the
\* chain has one operation at a time.
TypeOK ==
  /\ leaseLeft \in Nat /\ request \in {"none", "sent", "answered"} /\ answer \in Nat
  /\ age \in 0..MaxDelay
  /\ stream \in {"none", "open", "half_closed", "cancelled", "finished"}
  /\ actual_TTL_ \in Nat
  /\ current_timer_ \in BOOLEAN /\ timerLeft \in Nat /\ timerCancelled \in BOOLEAN
  /\ chain \in {"none"} \cup Outstanding \cup Running
  /\ ops_ \in {0, 1} /\ reads_ \in {0, 1}
  /\ opsShutdown \in BOOLEAN /\ readsShutdown \in BOOLEAN
  /\ app \in AppStates

\* A period and the delays before and after it are shorter than every TTL.
Timely == \A t \in TTLs : t \div keep_alives_per_ttl + 2 * MaxDelay < t

\* The lease is kept alive: with five requests per TTL it never expires under a
\* session in use, as long as its stream works and the delays leave enough slack.
LeaseIsKept == Timely /\ app = "ready" /\ stream = "open" => leaseLeft > 0

\* When revoke() has returned, or the object is destroyed, no operation is left
\* whose callback could run on it, whichever callback was running meanwhile.
NothingOutstanding == app \in {"revoked", "destroyed"} => chain \notin Outstanding

\* revoke() returns, normally or with an exception, though it waits for a Read()
\* that it does not cancel.
RevokeReturns == app = "revoke_rpc" ~> app \in {"revoked", "revoke_failed"}

\* The destructor returns.
DestructorReturns == app = "shutdown_reads" ~> app = "destroyed"

\* Both of the calls that wait for callbacks come to their end.
CallsReturn == RevokeReturns /\ DestructorReturns

\* The contract of ops_: its operations are the timer and the Write(), and the
\* application thread is let through where revoke() or the destructor returns.
OpsContract == INSTANCE PendingOperations WITH
  Operations <- {"timer", "write"}, Threads <- {"application"},
  inFlight <- {chain} \cap {"timer", "write"}, closed <- opsShutdown,
  through <- IF app \in {"revoked", "destroyed"} THEN {"application"} ELSE {},
  void <- FALSE

\* The session keeps to the contract of its counter of operations: no timer is set
\* and no request is written once ops_ is shut down, whatever the chain was doing
\* when that happened, and revoke() and the destructor return when both are done.
UsesCounter == OpsContract!Spec

\* No callback runs on a session that is destroyed.
NoUseAfterDestroy == app = "destroyed" => chain \notin Outstanding \cup Running
=============================================================================
