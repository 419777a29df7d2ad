----------------------------- MODULE ClientSide -----------------------------
(***************************************************************************)
(* The parts of the library that an application uses on its own side and   *)
(* that share no state with each other: the counter of operations, the     *)
(* etcd_client, the cluster membership, the log, the owners of the         *)
(* completion queues, and the experiment with the failing cluster.  Steps  *)
(* of different parts commute, so each part is explored by itself: the     *)
(* variable part says which of them moves.  The pure functions, the        *)
(* policies and prefix_end(), are checked over bounded inputs.             *)
(***************************************************************************)
EXTENDS AsyncOpCounter, ClusterMembership, EtcdClient, Log, ActiveCompletionQueue, ClusterFailure,
        PrefixEnd

CONSTANT MaxCalls   \* bound: failures reported to a policy

ASSUME CallsAssumption == MaxCalls \in Nat

VARIABLES
  part,    \* the part that moves; "functions" are the pure functions, which do not
  input    \* the argument of prefix_end()

vars == <<part, input, counterVars, membershipVars, clientVars, logVars, activeVars, failureVars>>

Parts == {"counter", "membership", "client", "log", "active", "failure", "functions"}

Init ==
  /\ part \in Parts
  /\ input \in Keys /\ (part # "functions" => input = << >>)
  /\ CounterInit /\ MembershipInit /\ ClientInit /\ LogInit /\ ActiveInit
  /\ FailureInit
  /\ part # "membership" => member_urls_ = Urls /\ cluster = Urls

Only(p) ==
  /\ part = p /\ UNCHANGED <<part, input>>
  /\ p # "counter" => UNCHANGED counterVars
  /\ p # "membership" => UNCHANGED membershipVars
  /\ p # "client" => UNCHANGED clientVars
  /\ p # "log" => UNCHANGED logVars
  /\ p # "active" => UNCHANGED activeVars
  /\ p # "failure" => UNCHANGED failureVars

Next ==
  \/ Only("counter") /\ CounterNext
  \/ Only("membership") /\ MembershipNext
  \/ Only("client") /\ ClientNext
  \/ Only("log") /\ LogNext
  \/ Only("active") /\ ActiveNext
  \/ Only("failure") /\ FailureNext

\* The fairness of the part that moves, as its module states it.
Fairness ==
  /\ \A o \in Ops : /\ WF_vars(Only("counter") /\ DelOp(o))
                    /\ WF_vars(Only("counter") /\ NotifyOne(o))
                    /\ WF_vars(Only("counter") /\ Return(o))
  /\ \A w \in Waiters : WF_vars(Only("counter") /\ Recheck(w))
  /\ WF_vars(Only("membership") /\ Alive /\ (on_refresh_expired \/ on_member_list_response))
  /\ WF_vars(Only("membership") /\ Alive /\ StoreTimer)
  /\ WF_vars(Only("membership") /\ Alive /\ Expire)
  /\ WF_vars(Only("membership") /\ Alive /\ (Answer \/ Unreachable))
  /\ \A c \in Calls : /\ WF_vars(Only("client") /\ Granted(c))
                      /\ WF_vars(Only("client") /\ OnGrant(c))
                      /\ WF_vars(Only("client") /\ get_future(c))
  /\ WF_vars(Only("failure") /\ Program) /\ WF_vars(Only("failure") /\ Driver)

Spec == Init /\ [][Next]_vars /\ Fairness

\* The types of the variables of all parts.
TypeOK ==
  /\ part \in Parts /\ input \in Keys
  /\ CounterTypeOK /\ MembershipTypeOK /\ ClientTypeOK /\ LogTypeOK /\ ActiveTypeOK
  /\ FailureTypeOK

\* The policies over bounded arguments: the delay that on_failure() returns is the minimum,
\* doubled as often as it was called, and cut at the maximum; limited_errors says yes as
\* often as its limit, and clones of the two go on from where the original is.
PolicyAnswers ==
  \A min \in 0..MaxCalls, max \in 0..MaxCalls :
    LET backoff[k \in 0..MaxCalls] ==
          IF k = 0 THEN ExponentialBackoff(min, max)
          ELSE CloneBackoff(BackoffOnFailure(backoff[k - 1]))
        doubled[k \in 0..MaxCalls] == IF k = 0 THEN min ELSE 2 * doubled[k - 1]
        errors[k \in 0..MaxCalls] ==
          IF k = 0 THEN LimitedErrors(max) ELSE CloneErrors(ErrorsOnFailure(errors[k - 1]))
    IN  /\ ValidBackoff(backoff[0]) =>
             \A k \in 0..MaxCalls :
               BackoffDelay(backoff[k]) = IF doubled[k] < max THEN doubled[k] ELSE max
        /\ ValidErrors(errors[0]) =>
             \A k \in 0..MaxCalls : ErrorsTryAgain(errors[k]) <=> k < max

\* The pure functions compute what they are defined to compute.
PureFunctions == part = "functions" => PrefixRange(input) /\ PolicyAnswers
=============================================================================
