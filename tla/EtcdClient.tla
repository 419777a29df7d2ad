----------------------------- MODULE EtcdClient -----------------------------
(***************************************************************************)
(* gh::etcd_client and the gh::detail::client_async_op it starts for every *)
(* call of grant_lease().  The client holds prototypes of its policies and *)
(* each operation gets clones.  An operation is shared by grant_lease(),   *)
(* until that returns, and by the callback of its RPC; the promise is      *)
(* broken when the last of them lets go of it unfulfilled.                 *)
(***************************************************************************)
EXTENDS Integers, RpcPolicies

CONSTANTS
  Calls,      \* calls of grant_lease()
  Duration,   \* what the limited_time policy of the client tolerates
  MaxTime     \* bound: the clock stops here

ASSUME ClientAssumption == Duration \in Nat \ {0} /\ MaxTime \in Nat

VARIABLES
  now,         \* the clock
  rpc_retry_,  \* the client's limited_time policy
  call,        \* call[c]: how far the application is
  grant,       \* grant[c]: the LeaseGrant() RPC of c, as gRPC reports it
  holders,     \* holders[c]: who shares the operation of c
  promise_,    \* promise_[c]: what the future of c will see
  retry_       \* retry_[c]: the operation's clone of the policy

clientVars == <<now, rpc_retry_, call, grant, holders, promise_, retry_>>

ClientInit ==
  /\ now = 0
  /\ rpc_retry_ = LimitedTime(Duration, now)
  /\ call = [c \in Calls |-> "none"]
  /\ grant = [c \in Calls |-> "none"]
  /\ holders = [c \in Calls |-> {}]
  /\ promise_ = [c \in Calls |-> "empty"]
  /\ retry_ = [c \in Calls |-> rpc_retry_]

ClientTypeOK ==
  /\ now \in 0..MaxTime
  /\ rpc_retry_ = LimitedTime(Duration, 0)
  /\ call \in [Calls -> {"none", "starting", "returned", "ignored"}]
  /\ grant \in [Calls -> {"none", "sent", "ok", "error", "aborted", "done"}]
  /\ holders \in [Calls -> SUBSET {"caller", "callback"}]
  /\ promise_ \in [Calls -> {"empty", "value", "exception", "broken"}]
  /\ retry_ \in [Calls -> [duration_ : {Duration}, deadline_ : 0..(MaxTime + Duration)]]

\* Someone lets go of the operation of c, whose promise is p by then.
Release(c, who, p) ==
  /\ holders' = [holders EXCEPT ![c] = @ \ {who}]
  /\ promise_' = [promise_ EXCEPT ![c] =
                    IF p = "empty" /\ holders[c] = {who} THEN "broken" ELSE p]

\* client_async_op(): the operation, with a clone of the policy, and an empty promise.
NewOp(c) == retry_' = [retry_ EXCEPT ![c] = CloneTime(rpc_retry_, now)]

\* start(): the RPC's callback shares the operation.
start(c) ==
  /\ grant' = [grant EXCEPT ![c] = "sent"]
  /\ holders' = [holders EXCEPT ![c] = {"caller", "callback"}]

\* grant_lease(..., use_future), up to the call of get_future().
grant_lease(c) ==
  /\ call[c] = "none"
  /\ call' = [call EXCEPT ![c] = "starting"]
  /\ NewOp(c) /\ start(c)
  /\ UNCHANGED <<now, rpc_retry_, promise_>>

\* get_future(), and the return of grant_lease(); the RPC may have completed before.
get_future(c) ==
  /\ call[c] = "starting"
  /\ call' = [call EXCEPT ![c] = "returned"]
  /\ Release(c, "caller", promise_[c])
  /\ UNCHANGED <<now, rpc_retry_, grant, retry_>>

\* grant_lease(..., functor) makes the clones and a notifier, and starts nothing.
GrantLeaseFunctor(c) ==
  /\ call[c] = "none"
  /\ call' = [call EXCEPT ![c] = "ignored"]
  /\ UNCHANGED <<now, rpc_retry_, grant, holders, promise_, retry_>>

\* What the callback makes of the promise: notify_failure(), notify_value(), or
\* nothing when the RPC has an error; the policies are not asked.
Notified(c) ==
  CASE grant[c] = "aborted" -> "exception"
    [] grant[c] = "ok" -> "value"
    [] OTHER -> promise_[c]

\* Mutant: the operation is shared by something that lives on.
OnGrantLeaking(c) ==
  /\ grant[c] \in {"ok", "error", "aborted"}
  /\ grant' = [grant EXCEPT ![c] = "done"]
  /\ promise_' = [promise_ EXCEPT ![c] = Notified(c)]
  /\ UNCHANGED <<now, rpc_retry_, call, holders, retry_>>

\* The callback of the RPC, and the end of the object that holds it.
OnGrant(c) ==
  /\ grant[c] \in {"ok", "error", "aborted"}
  /\ grant' = [grant EXCEPT ![c] = "done"]
  /\ Release(c, "callback", Notified(c))
  /\ UNCHANGED <<now, rpc_retry_, call, retry_>>

\* External: the RPC completes.
Granted(c) ==
  /\ grant[c] = "sent"
  /\ \E r \in {"ok", "error", "aborted"} : grant' = [grant EXCEPT ![c] = r]
  /\ UNCHANGED <<now, rpc_retry_, call, holders, promise_, retry_>>

Tick ==
  /\ now < MaxTime
  /\ now' = now + 1
  /\ UNCHANGED <<rpc_retry_, call, grant, holders, promise_, retry_>>

ClientNext ==
  \/ Tick
  \/ \E c \in Calls : \/ grant_lease(c) \/ get_future(c) \/ GrantLeaseFunctor(c)
                      \/ Granted(c) \/ OnGrant(c)

\* The RPC ends, the loop runs its callback, and grant_lease() goes on.
ClientFairness ==
  \A c \in Calls : /\ WF_clientVars(Granted(c)) /\ WF_clientVars(OnGrant(c))
                   /\ WF_clientVars(get_future(c))

ClientSpec == ClientInit /\ [][ClientNext]_clientVars /\ ClientFairness

-----------------------------------------------------------------------------
(* Properties.                                                             *)

\* The future of every grant_lease() becomes ready, if only with a broken promise.
FutureSettles == \A c \in Calls : call[c] = "starting" ~> promise_[c] # "empty"
=============================================================================
