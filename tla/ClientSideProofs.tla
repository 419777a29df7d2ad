-------------------------- MODULE ClientSideProofs --------------------------
(***************************************************************************)
(* Proofs about the parts that an application uses on its own side, for    *)
(* any number of URLs, calls, threads, sinks, queues and objects: the      *)
(* cluster membership, the etcd_client, the log, and the owners of the     *)
(* completion queues; and the types of all parts together.                 *)
(***************************************************************************)
EXTENDS ClientSide, AsyncOpCounterProofs, ClusterFailureProofs, SequenceTheorems

-----------------------------------------------------------------------------
(* ClusterMembership.                                                      *)

\* What the loop and the application may leave to each other: a timer that is not stored
\* yet is the only operation there is, nothing runs before startup(), and only shutdown()
\* cancels.
RefreshChain ==
  /\ unassigned => timer # "none" /\ rpc = "none"
  /\ user = "created" => timer = "none" /\ rpc = "none" /\ ~unassigned
  /\ timer = "canceled" => user = "stopped"

MembershipInv == MembershipTypeOK /\ RefreshChain /\ RefreshGoesOn

\* A failure doubles the delay, within the bounds of the policy.
LEMMA BackoffStaysBounded ==
  ASSUME NEW b \in [min_delay_ : {MinDelay}, max_delay_ : {MaxDelay},
                    current_delay_ : MinDelay..MaxDelay]
  PROVE  BackoffOnFailure(b) \in [min_delay_ : {MinDelay}, max_delay_ : {MaxDelay},
                                  current_delay_ : MinDelay..MaxDelay]
BY MembershipAssumption DEF BackoffOnFailure, ValidBackoff, ExponentialBackoff

\* The constructors know some URLs or none, and start nothing.
LEMMA InitMembershipInv == MembershipInit => MembershipInv
<1> SUFFICES ASSUME MembershipInit PROVE MembershipInv
  OBVIOUS
<1>1. backoff_ \in [min_delay_ : {MinDelay}, max_delay_ : {MaxDelay},
                    current_delay_ : MinDelay..MaxDelay]
  BY MembershipAssumption DEF MembershipInit, NewMembership, ExponentialBackoff, ValidBackoff
<1>2. MembershipTypeOK
  <2>1. refresh_timer_ \in BOOLEAN /\ unassigned \in BOOLEAN
    BY DEF MembershipInit
  <2> QED
    BY <1>1, <2>1, MembershipAssumption DEF MembershipInit, NewMembership, MembershipTypeOK
<1>3. RefreshChain /\ RefreshGoesOn
  BY DEF MembershipInit, NewMembership, RefreshChain, RefreshGoesOn, OneRefresh,
     TimerIsReachable, KeepsKnowing
<1> QED
  BY <1>2, <1>3 DEF MembershipInv

\* The two ends of try_query_cluster_membership(): a request to the first URL, or a timer.
LEMMA QueryContinues ==
  ASSUME MembershipInv, NEW urls \in SUBSET Urls, try_query_cluster_membership(urls)
  PROVE  /\ answer' \subseteq Urls /\ left' \subseteq Urls
         /\ backoff_' \in [min_delay_ : {MinDelay}, max_delay_ : {MaxDelay},
                           current_delay_ : MinDelay..MaxDelay]
         /\ \/ timer' = "armed" /\ unassigned' = TRUE /\ rpc' = "none"
            \/ timer' = "none" /\ unassigned' = unassigned /\ rpc' = "sent"
BY BackoffStaysBounded
   DEF MembershipInv, MembershipTypeOK, try_query_cluster_membership, reset_refresh_timer

\* Every step of the application, of the loop and of gRPC keeps the chain.
LEMMA NextMembershipInv == MembershipInv /\ [MembershipNext]_membershipVars => MembershipInv'
<1> SUFFICES ASSUME MembershipInv, [MembershipNext]_membershipVars PROVE MembershipInv'
  OBVIOUS
<1> USE MembershipAssumption
        DEF MembershipInv, MembershipTypeOK, RefreshChain, RefreshGoesOn, OneRefresh,
            TimerIsReachable, KeepsKnowing, etcd
<1>1. CASE startup
  BY <1>1 DEF startup
<1>2. CASE shutdown
  BY <1>2 DEF shutdown
<1>3. CASE on_refresh_expired
  <2>1. CASE timer = "canceled"
    <3>1. ~unassigned /\ refresh_timer_' = FALSE /\ timer' = "none"
      BY <1>3, <2>1 DEF on_refresh_expired
    <3>2. UNCHANGED <<member_urls_, unassigned, rpc, answer, left, backoff_, user, etcd,
                      firstUrls>>
      BY <1>3, <2>1 DEF on_refresh_expired
    <3>3. refresh_timer_' \in BOOLEAN
      BY <3>1
    <3> QED
      BY <2>1, <3>1, <3>2, <3>3
  <2>2. CASE timer = "expired"
    <3>1. try_query_cluster_membership(member_urls_)
      BY <1>3, <2>2 DEF on_refresh_expired
    <3> QED
      BY <1>3, <2>2, <3>1, QueryContinues DEF on_refresh_expired
  <2> QED
    BY <1>3, <2>1, <2>2 DEF on_refresh_expired
<1>4. CASE on_member_list_response
  <2>1. CASE rpc = "ok" /\ answer # {}
    BY <1>4, <2>1 DEF on_member_list_response, reset_refresh_timer
  <2>2. CASE ~(rpc = "ok" /\ answer # {})
    <3>1. try_query_cluster_membership(NextUrls) /\ NextUrls \in SUBSET Urls
      BY <1>4, <2>2 DEF on_member_list_response, NextUrls
    <3> QED
      BY <1>4, <2>2, <3>1, QueryContinues DEF on_member_list_response
  <2> QED
    BY <2>1, <2>2
<1>5. CASE StoreTimer
  BY <1>5 DEF StoreTimer
<1>6. CASE Expire
  BY <1>6 DEF Expire
<1>7. CASE Answer
  BY <1>7 DEF Answer
<1>8. CASE Unreachable
  BY <1>8 DEF Unreachable
<1>9. CASE Fail
  BY <1>9 DEF Fail
<1>10. CASE Reconfigure
  BY <1>10 DEF Reconfigure
<1>11. CASE CancelTimer
  BY <1>11 DEF CancelTimer
<1>12. CASE UNCHANGED membershipVars
  BY <1>12 DEF membershipVars
<1> QED
  BY <1>1, <1>2, <1>3, <1>4, <1>5, <1>6, <1>7, <1>8, <1>9, <1>10, <1>11, <1>12
     DEF MembershipNext

\* For any URLs and whatever fails: one operation carries the refresh on until shutdown(),
\* refresh_timer_ leads to the timer that waits, and there is always a URL to ask.
THEOREM MembershipRefreshes == MembershipSpec => []RefreshGoesOn
<1>1. MembershipInv => RefreshGoesOn
  BY DEF MembershipInv
<1> QED
  BY <1>1, InitMembershipInv, NextMembershipInv, PTL DEF MembershipSpec

-----------------------------------------------------------------------------
(* EtcdClient.                                                             *)

\* A new client has started no operation.
LEMMA InitClientInv == ClientInit => ClientTypeOK
<1> SUFFICES ASSUME ClientInit PROVE ClientTypeOK
  OBVIOUS
<1>1. rpc_retry_ \in [duration_ : {Duration}, deadline_ : 0..(MaxTime + Duration)]
  BY ClientAssumption DEF ClientInit, LimitedTime
<1> QED
  BY <1>1, ClientAssumption DEF ClientInit, ClientTypeOK

\* Every step of the application, of gRPC and of the callbacks keeps the types; the deadline
\* of a clone is a whole duration away.
LEMMA NextClientInv == ClientTypeOK /\ [ClientNext]_clientVars => ClientTypeOK'
<1> SUFFICES ASSUME ClientTypeOK, [ClientNext]_clientVars PROVE ClientTypeOK'
  OBVIOUS
<1> USE ClientAssumption DEF ClientTypeOK
<1>1. ASSUME NEW c \in Calls, grant_lease(c) PROVE ClientTypeOK'
  <2>1. CloneTime(rpc_retry_, now) = [duration_ |-> Duration, deadline_ |-> now + Duration]
    BY DEF CloneTime, LimitedTime
  <2>2. retry_' = [retry_ EXCEPT ![c] = [duration_ |-> Duration, deadline_ |-> now + Duration]]
    BY <1>1, <2>1 DEF grant_lease, NewOp
  <2> QED
    BY <1>1, <2>2 DEF grant_lease, start
<1>2. ASSUME NEW c \in Calls, get_future(c) PROVE ClientTypeOK'
  BY <1>2 DEF get_future, Release
<1>3. ASSUME NEW c \in Calls, GrantLeaseFunctor(c) PROVE ClientTypeOK'
  BY <1>3 DEF GrantLeaseFunctor
<1>4. ASSUME NEW c \in Calls, Granted(c) PROVE ClientTypeOK'
  BY <1>4 DEF Granted
<1>5. ASSUME NEW c \in Calls, OnGrant(c) PROVE ClientTypeOK'
  <2>1. Notified(c) \in {"empty", "value", "exception", "broken"}
    BY DEF Notified
  <2> QED
    BY <1>5, <2>1 DEF OnGrant, Release
<1>6. CASE Tick
  BY <1>6 DEF Tick
<1>7. CASE UNCHANGED clientVars
  BY <1>7 DEF clientVars
<1> QED
  BY <1>1, <1>2, <1>3, <1>4, <1>5, <1>6, <1>7 DEF ClientNext

-----------------------------------------------------------------------------
(* Log.                                                                    *)

\* The statement of t has given the first n of the sinks it saw the whole message.
Delivered(t, n) ==
  /\ Len(got[t]) = n /\ n \in 0..Len(seen[t])
  /\ \A i \in 1..n : got[t][i] = [sink |-> seen[t][i], msg |-> TRUE]

\* How far write() is: it has the message until it is done with it, has called nobody
\* before the loop, and in the loop has called all sinks but those left in range.
WriteProgress(t) ==
  /\ logger[t] \in {"open", "formatted", "not_empty", "accepted", "single"} => got[t] = << >>
  /\ logger[t] \in {"formatted"} \cup Writing => msg[t]
  /\ ~raced[t] =>
       /\ logger[t] \in Writing => seen[t] = sinks_
       /\ logger[t] = "single" => Len(seen[t]) = 1
       /\ logger[t] = "loop" =>
            /\ Len(range[t]) <= Len(seen[t])
            /\ Delivered(t, Len(seen[t]) - Len(range[t]))
            /\ \A i \in 1..Len(range[t]) :
                 range[t][i] = seen[t][i + Len(seen[t]) - Len(range[t])]
       /\ logger[t] = "closed" /\ got[t] # << >> => Delivered(t, Len(seen[t]))

\* The minimum was not lower than least since t last compared with it, and whoever passed
\* a test was not below it then.
SeverityTested(t) ==
  /\ least[t] <= min_severity_
  /\ logger[t] \in {"open", "accepted", "single", "loop"} => sev[t] >= least[t]
  /\ logger[t] \in {"open", "formatted"} \cup Writing => ~level_compile_time_disabled(sev[t])

LogInv == LogTypeOK /\ \A t \in Loggers : WriteProgress(t) /\ SeverityTested(t)

\* The parts of the state that belong to one statement.
StatementOf(t) == <<logger[t], sev[t], msg[t], range[t], got[t], least[t], seen[t], raced[t]>>

\* A statement that does not move, while the sinks and the minimum stay, is where it was.
LEMMA OthersStay ==
  ASSUME LogInv, NEW t \in Loggers, sinks_' = sinks_, min_severity_' = min_severity_,
         UNCHANGED StatementOf(t)
  PROVE  WriteProgress(t)' /\ SeverityTested(t)'
<1>1. WriteProgress(t) /\ SeverityTested(t)
  BY DEF LogInv
<1>2. /\ logger'[t] = logger[t] /\ sev'[t] = sev[t] /\ msg'[t] = msg[t]
      /\ range'[t] = range[t] /\ got'[t] = got[t] /\ least'[t] = least[t]
      /\ seen'[t] = seen[t] /\ raced'[t] = raced[t]
  BY DEF StatementOf
<1>3. WriteProgress(t)'
  <2>1. \A n : Delivered(t, n)' <=> Delivered(t, n)
    BY <1>2 DEF Delivered
  <2> QED
    BY <1>1, <1>2, <2>1 DEF WriteProgress
<1>4. SeverityTested(t)'
  BY <1>1, <1>2 DEF SeverityTested
<1> QED
  BY <1>3, <1>4

\* No thread logs at first, and there is no sink.
LEMMA InitLogInv == LogInit => LogInv
<1> SUFFICES ASSUME LogInit PROVE LogInv
  OBVIOUS
<1>1. LogTypeOK
  BY LogAssumption DEF LogInit, LogTypeOK, Severities
<1> QED
  BY <1>1 DEF LogInit, LogInv, WriteProgress, SeverityTested, Writing

\* The application's changes of the sinks and of the minimum leave the threads that write
\* with a note of it.
LEMMA ApplicationKeepsLogInv ==
  ASSUME LogInv, \/ \E s \in Sinks : add_sink(s)
                 \/ clear_sinks
                 \/ \E s \in Severities : set_min_severity(s)
  PROVE  LogInv'
<1> USE LogAssumption
<1>1. ASSUME NEW s \in Seq(Sinks), Len(s) <= MaxSinks, SetSinks(s) PROVE LogInv'
  <2>1. LogTypeOK'
    BY <1>1 DEF LogInv, LogTypeOK, SetSinks, Severities, Writing
  <2>2. ASSUME NEW t \in Loggers PROVE WriteProgress(t)' /\ SeverityTested(t)'
    <3>1. WriteProgress(t) /\ SeverityTested(t)
      BY DEF LogInv
    <3>2. raced'[t] = (raced[t] \/ logger[t] \in Writing)
      BY <1>1 DEF SetSinks
    <3> QED
      BY <1>1, <3>1, <3>2 DEF SetSinks, WriteProgress, SeverityTested, Delivered, Writing
  <2> QED
    BY <2>1, <2>2 DEF LogInv
<1>2. ASSUME NEW s \in Sinks, add_sink(s) PROVE LogInv'
  <2>1. SetSinks(Append(sinks_, s)) /\ Len(sinks_) < MaxSinks
    BY <1>2 DEF add_sink
  <2>2. Append(sinks_, s) \in Seq(Sinks) /\ Len(Append(sinks_, s)) <= MaxSinks
    BY <2>1 DEF LogInv, LogTypeOK
  <2> QED
    BY <1>1, <2>1, <2>2
<1>3. CASE clear_sinks
  <2>1. SetSinks(<< >>)
    BY <1>3 DEF clear_sinks
  <2>2. << >> \in Seq(Sinks) /\ Len(<< >>) <= MaxSinks
    OBVIOUS
  <2> QED
    BY <1>1, <2>1, <2>2
<1>4. ASSUME NEW s \in Severities, set_min_severity(s) PROVE LogInv'
  <2>1. LogTypeOK'
    BY <1>4 DEF LogInv, LogTypeOK, set_min_severity, Severities
  <2>2. ASSUME NEW t \in Loggers PROVE WriteProgress(t)' /\ SeverityTested(t)'
    <3>1. WriteProgress(t) /\ SeverityTested(t)
      BY DEF LogInv
    <3>2. WriteProgress(t)'
      BY <1>4, <3>1 DEF set_min_severity, WriteProgress, Delivered
    <3>3. SeverityTested(t)'
      BY <1>4, <3>1 DEF set_min_severity, SeverityTested, LogInv, LogTypeOK, Severities
    <3> QED
      BY <3>2, <3>3
  <2> QED
    BY <2>1, <2>2 DEF LogInv
<1> QED
  BY <1>2, <1>3, <1>4

\* What a sink gets is recorded at the end of the history of the statement.
LEMMA DeliverType ==
  ASSUME LogTypeOK, NEW t \in Loggers, NEW s \in Sinks, Deliver(t, s)
  PROVE  /\ got' \in [Loggers -> Seq([sink : Sinks, msg : BOOLEAN])]
         /\ Len(got'[t]) = Len(got[t]) + 1
         /\ got'[t][Len(got[t]) + 1] = [sink |-> s, msg |-> msg[t]]
         /\ \A i \in 1..Len(got[t]) : got'[t][i] = got[t][i]
<1>1. got[t] \in Seq([sink : Sinks, msg : BOOLEAN]) /\ msg[t] \in BOOLEAN
  BY DEF LogTypeOK
<1> DEFINE r == [sink |-> s, msg |-> msg[t]]
<1>2. r \in [sink : Sinks, msg : BOOLEAN]
  BY <1>1
<1>3. got' = [got EXCEPT ![t] = Append(got[t], r)]
  BY DEF Deliver
<1> HIDE DEF r
<1>4. Append(got[t], r) \in Seq([sink : Sinks, msg : BOOLEAN])
  BY <1>1, <1>2
<1>5. got'[t] = Append(got[t], r)
  BY <1>3 DEF LogTypeOK
<1>6. got' \in [Loggers -> Seq([sink : Sinks, msg : BOOLEAN])]
  BY <1>3, <1>4 DEF LogTypeOK
<1>7. /\ Len(got'[t]) = Len(got[t]) + 1 /\ got'[t][Len(got[t]) + 1] = r
      /\ \A i \in 1..Len(got[t]) : got'[t][i] = got[t][i]
  BY <1>1, <1>2, <1>5
<1> QED
  BY <1>6, <1>7 DEF r

\* The steps of a statement keep the types.
LEMMA StatementTypes ==
  ASSUME LogTypeOK, NEW t \in Loggers, Statement(t)
  PROVE  LogTypeOK'
<1> USE LogAssumption DEF LogTypeOK, Severities, Writing, Goes, Deliver
<1>1. ASSUME NEW s \in Severities, NewLogger(t, s) PROVE LogTypeOK'
  <2>1. raced' \in [Loggers -> BOOLEAN]
    BY <1>1 DEF NewLogger
  <2>2. logger' \in [Loggers -> Writing \cup {"idle", "open", "closed", "formatted", "crashed"}]
    BY <1>1 DEF NewLogger
  <2>3. << >> \in Seq(Sinks) /\ << >> \in Seq([sink : Sinks, msg : BOOLEAN])
    OBVIOUS
  <2>4. /\ seen' \in [Loggers -> Seq(Sinks)] /\ got' \in [Loggers -> Seq([sink : Sinks, msg : BOOLEAN])]
    BY <1>1, <2>3 DEF NewLogger
  <2> QED
    BY <1>1, <2>1, <2>2, <2>4 DEF NewLogger
<1>2. CASE EndStatement(t)
  <2>1. msg' \in [Loggers -> BOOLEAN]
    BY <1>2 DEF EndStatement
  <2>2. range' \in [Loggers -> Seq(Sinks)]
    BY <1>2, EmptySeq DEF EndStatement
  <2> QED
    BY <1>2, <2>1, <2>2 DEF EndStatement
<1>3. CASE Format(t)
  BY <1>3 DEF Format
<1>4. CASE TestEmpty(t)
  BY <1>4 DEF TestEmpty
<1>5. CASE TestSeverity(t)
  BY <1>5 DEF TestSeverity
<1>6. CASE TestSize(t)
  BY <1>6 DEF TestSize
<1>7. CASE LogToOne(t)
  <2>1. msg' \in [Loggers -> BOOLEAN]
    BY <1>7 DEF LogToOne
  <2>2. Head(sinks_) \in Sinks
    BY <1>7 DEF LogToOne
  <2>3. got' \in [Loggers -> Seq([sink : Sinks, msg : BOOLEAN])]
    BY <1>7, <2>2, DeliverType DEF LogToOne
  <2> QED
    BY <1>7, <2>1, <2>3 DEF LogToOne
<1>8. CASE LogToNext(t)
  <2>1. Head(range[t]) \in Sinks /\ Tail(range[t]) \in Seq(Sinks)
    BY <1>8 DEF LogToNext
  <2>2. got' \in [Loggers -> Seq([sink : Sinks, msg : BOOLEAN])]
    BY <1>8, <2>1, DeliverType DEF LogToNext
  <2> QED
    BY <1>8, <2>1, <2>2 DEF LogToNext
<1>9. CASE LogLoopEnds(t)
  BY <1>9 DEF LogLoopEnds
<1>10. CASE Crash(t)
  BY <1>10 DEF Crash
<1> QED
  BY <1>1, <1>2, <1>3, <1>4, <1>5, <1>6, <1>7, <1>8, <1>9, <1>10 DEF Statement

\* A statement touches nothing of another.
LEMMA StatementsApart ==
  ASSUME LogTypeOK, NEW t \in Loggers, Statement(t)
  PROVE  /\ sinks_' = sinks_ /\ min_severity_' = min_severity_
         /\ \A u \in Loggers \ {t} : UNCHANGED StatementOf(u)
<1> DEFINE Apart == /\ sinks_' = sinks_ /\ min_severity_' = min_severity_
                    /\ \A u \in Loggers \ {t} : UNCHANGED StatementOf(u)
<1> USE DEF LogTypeOK, Goes, Deliver, StatementOf
<1>1. ASSUME NEW s \in Severities, NewLogger(t, s) PROVE Apart
  BY <1>1 DEF NewLogger
<1>2. CASE EndStatement(t)
  BY <1>2 DEF EndStatement
<1>3. CASE Format(t)
  BY <1>3 DEF Format
<1>4. CASE TestEmpty(t)
  BY <1>4 DEF TestEmpty
<1>5. CASE TestSeverity(t)
  BY <1>5 DEF TestSeverity
<1>6. CASE TestSize(t)
  BY <1>6 DEF TestSize
<1>7. CASE LogToOne(t)
  BY <1>7 DEF LogToOne
<1>8. CASE LogToNext(t)
  BY <1>8 DEF LogToNext
<1>9. CASE LogLoopEnds(t)
  BY <1>9 DEF LogLoopEnds
<1>10. CASE Crash(t)
  BY <1>10 DEF Crash
<1> QED
  BY <1>1, <1>2, <1>3, <1>4, <1>5, <1>6, <1>7, <1>8, <1>9, <1>10 DEF Statement

\* The only sink gets the message itself.
LEMMA OneProgress ==
  ASSUME LogInv, NEW t \in Loggers, LogToOne(t)
  PROVE  WriteProgress(t)'
<1>1. LogTypeOK /\ WriteProgress(t)
  BY DEF LogInv
<1>2. Deliver(t, Head(sinks_)) /\ Head(sinks_) \in Sinks /\ Head(sinks_) = sinks_[1]
  BY <1>1 DEF LogToOne, LogTypeOK
<1>3. /\ logger[t] = "single" /\ logger'[t] = "closed"
      /\ seen'[t] = seen[t] /\ raced'[t] = raced[t]
  BY <1>1 DEF LogToOne, Goes, LogTypeOK
<1>4. got[t] = << >> /\ msg[t] = TRUE
  BY <1>1, <1>3 DEF WriteProgress, Writing, LogTypeOK
<1>5. Len(got'[t]) = 1 /\ got'[t][1] = [sink |-> sinks_[1], msg |-> TRUE]
  <2> DEFINE s == Head(sinks_)
  <2>0. LogTypeOK /\ s \in Sinks /\ Deliver(t, s) /\ s = sinks_[1]
    BY <1>1, <1>2
  <2> HIDE DEF s
  <2>1. /\ Len(got'[t]) = Len(got[t]) + 1
        /\ got'[t][Len(got[t]) + 1] = [sink |-> s, msg |-> msg[t]]
    BY <2>0, DeliverType
  <2>2. Len(got[t]) = 0
    BY <1>4
  <2>3. Len(got'[t]) = 1 /\ got'[t][1] = [sink |-> s, msg |-> msg[t]]
    BY <2>1, <2>2
  <2> QED
    BY <1>4, <2>0, <2>3, Zenon
<1>6. ~raced[t] => seen[t] = sinks_ /\ Len(seen[t]) = 1
  BY <1>1, <1>3 DEF WriteProgress, Writing
<1>7. ~raced'[t] => Delivered(t, Len(seen[t]))'
  <2> SUFFICES ASSUME ~raced'[t] PROVE Delivered(t, Len(seen[t]))'
    OBVIOUS
  <2>1. Len(seen'[t]) = 1 /\ seen'[t] = sinks_
    BY <1>3, <1>6
  <2>2. \A i \in 1..Len(seen'[t]) : got'[t][i] = [sink |-> seen'[t][i], msg |-> TRUE]
    BY <1>5, <2>1
  <2> QED
    BY <1>5, <2>1, <2>2 DEF Delivered
<1> QED
  BY <1>3, <1>7 DEF WriteProgress, Writing

\* Each sink in the loop gets a copy, and the next one is next in the order.
LEMMA NextProgress ==
  ASSUME LogInv, NEW t \in Loggers, LogToNext(t)
  PROVE  WriteProgress(t)'
<1>1. LogTypeOK /\ WriteProgress(t)
  BY DEF LogInv
<1>2. /\ logger'[t] = "loop" /\ logger[t] = "loop" /\ msg'[t] = msg[t]
      /\ raced'[t] = raced[t] /\ seen'[t] = seen[t] /\ sinks_' = sinks_
  BY <1>1 DEF LogToNext, Goes, LogTypeOK
<1>3. msg[t] = TRUE
  BY <1>1, <1>2 DEF WriteProgress, Writing, LogTypeOK
<1>4. range[t] \in Seq(Sinks) /\ seen[t] \in Seq(Sinks) /\ range[t] # << >>
  BY <1>1 DEF LogToNext, LogTypeOK
<1>5. /\ Head(range[t]) \in Sinks /\ Head(range[t]) = range[t][1]
      /\ Tail(range[t]) \in Seq(Sinks) /\ Len(Tail(range[t])) = Len(range[t]) - 1
      /\ \A i \in 1..Len(Tail(range[t])) : Tail(range[t])[i] = range[t][i + 1]
      /\ Len(range[t]) \in Nat \ {0} /\ Len(seen[t]) \in Nat
  BY <1>4
<1>6. range'[t] = Tail(range[t]) /\ Deliver(t, Head(range[t]))
  BY <1>1 DEF LogToNext, LogTypeOK
<1>7. CASE raced[t]
  BY <1>2, <1>3, <1>7 DEF WriteProgress
<1>8. CASE ~raced[t]
  <2> DEFINE n == Len(seen[t]) - Len(range[t])
  <2>1. /\ Len(range[t]) <= Len(seen[t])
        /\ Len(got[t]) = n /\ \A i \in 1..n : got[t][i] = [sink |-> seen[t][i], msg |-> TRUE]
        /\ \A i \in 1..Len(range[t]) : range[t][i] = seen[t][i + Len(seen[t]) - Len(range[t])]
        /\ seen[t] = sinks_
    BY <1>1, <1>2, <1>8 DEF WriteProgress, Delivered, Writing
  <2>0. Len(range'[t]) = Len(range[t]) - 1 /\ Len(seen'[t]) = Len(seen[t])
    BY <1>2, <1>5, <1>6
  <2>2. /\ n \in Nat /\ n + 1 = Len(seen'[t]) - Len(range'[t])
        /\ n + 1 \in 0..Len(seen'[t]) /\ Len(range'[t]) <= Len(seen'[t])
    BY <1>5, <2>0, <2>1
  <2>3. Head(range[t]) = seen[t][n + 1]
    <3>1. 1 \in 1..Len(range[t]) /\ 1 + Len(seen[t]) - Len(range[t]) = n + 1
      BY <1>5
    <3> QED
      BY <1>5, <2>1, <3>1
  <2>4. /\ Len(got'[t]) = n + 1 /\ \A i \in 1..n : got'[t][i] = got[t][i]
        /\ got'[t][n + 1] = [sink |-> seen[t][n + 1], msg |-> TRUE]
    <3> HIDE DEF n
    <3>1. /\ Len(got'[t]) = Len(got[t]) + 1
          /\ got'[t][Len(got[t]) + 1] = [sink |-> Head(range[t]), msg |-> msg[t]]
          /\ \A i \in 1..Len(got[t]) : got'[t][i] = got[t][i]
      BY <1>1, <1>5, <1>6, DeliverType
    <3> QED
      BY <1>3, <2>1, <2>3, <3>1 DEF n
  <2>5. \A i \in 1..(n + 1) : got'[t][i] = [sink |-> seen'[t][i], msg |-> TRUE]
    <3> SUFFICES ASSUME NEW i \in 1..(n + 1)
                 PROVE  got'[t][i] = [sink |-> seen'[t][i], msg |-> TRUE]
      OBVIOUS
    <3>1. CASE i = n + 1
      BY <1>2, <2>4, <3>1
    <3>2. CASE i \in 1..n
      BY <1>2, <2>1, <2>4, <3>2
    <3> QED
      BY <2>2, <3>1, <3>2
  <2>6. \A i \in 1..Len(range'[t]) :
          range'[t][i] = seen'[t][i + Len(seen'[t]) - Len(range'[t])]
    <3> SUFFICES ASSUME NEW i \in 1..Len(range'[t])
                 PROVE  range'[t][i] = seen'[t][i + Len(seen'[t]) - Len(range'[t])]
      OBVIOUS
    <3>1. range'[t][i] = range[t][i + 1] /\ i + 1 \in 1..Len(range[t])
      BY <1>5, <1>6
    <3>2. range[t][i + 1] = seen[t][(i + 1) + Len(seen[t]) - Len(range[t])]
      BY <2>1, <3>1
    <3>3. (i + 1) + Len(seen[t]) - Len(range[t]) = i + Len(seen'[t]) - Len(range'[t])
      <4>1. i \in Int /\ Len(seen[t]) \in Int /\ Len(range[t]) \in Int
        BY <1>5, <2>0
      <4>2. i + Len(seen'[t]) - Len(range'[t]) = i + Len(seen[t]) - (Len(range[t]) - 1)
        BY <2>0
      <4>3. \A x, y, z \in Int : (x + 1) + y - z = x + y - (z - 1)
        OBVIOUS
      <4> QED
        BY <4>1, <4>2, <4>3
    <3> QED
      BY <1>2, <3>1, <3>2, <3>3
  <2>7. Delivered(t, Len(seen[t]) - Len(range[t]))'
    BY <2>2, <2>4, <2>5 DEF Delivered
  <2> QED
    BY <1>2, <1>3, <1>8, <2>1, <2>2, <2>6, <2>7 DEF WriteProgress, Writing
<1> QED
  BY <1>7, <1>8

\* write() goes through the sinks in order, each step one further.
LEMMA StatementProgress ==
  ASSUME LogInv, NEW t \in Loggers, Statement(t)
  PROVE  WriteProgress(t)'
<1>0. LogTypeOK /\ WriteProgress(t)
  BY DEF LogInv
<1> USE <1>0 DEF LogTypeOK, Goes, Deliver, WriteProgress, Delivered, Writing
<1>1. ASSUME NEW s \in Severities, NewLogger(t, s) PROVE WriteProgress(t)'
  BY <1>1 DEF NewLogger
<1>2. CASE EndStatement(t)
  BY <1>2 DEF EndStatement
<1>3. CASE Format(t)
  BY <1>3 DEF Format
<1>4. CASE TestEmpty(t)
  BY <1>4 DEF TestEmpty
<1>5. CASE TestSeverity(t)
  BY <1>5 DEF TestSeverity
<1>6. CASE TestSize(t)
  BY <1>6 DEF TestSize
<1>7. CASE LogToOne(t)
  BY <1>7, OneProgress
<1>8. CASE LogToNext(t)
  BY <1>8, NextProgress
<1>9. CASE LogLoopEnds(t)
  BY <1>9 DEF LogLoopEnds
<1>10. CASE Crash(t)
  BY <1>10 DEF Crash
<1> QED
  BY <1>1, <1>2, <1>3, <1>4, <1>5, <1>6, <1>7, <1>8, <1>9, <1>10 DEF Statement

\* The minimum is compared before a message is formatted and before it is written.
LEMMA StatementSeverity ==
  ASSUME LogInv, NEW t \in Loggers, Statement(t)
  PROVE  SeverityTested(t)'
<1>0. LogTypeOK /\ SeverityTested(t)
  BY DEF LogInv
<1> USE <1>0, LogAssumption DEF LogTypeOK, Goes, Deliver, SeverityTested, Writing, Severities
<1>1. ASSUME NEW s \in Severities, NewLogger(t, s) PROVE SeverityTested(t)'
  BY <1>1 DEF NewLogger
<1>2. CASE EndStatement(t)
  BY <1>2 DEF EndStatement
<1>3. CASE Format(t)
  BY <1>3 DEF Format
<1>4. CASE TestEmpty(t)
  BY <1>4 DEF TestEmpty
<1>5. CASE TestSeverity(t)
  BY <1>5 DEF TestSeverity
<1>6. CASE TestSize(t)
  BY <1>6 DEF TestSize
<1>7. CASE LogToOne(t)
  BY <1>7 DEF LogToOne
<1>8. CASE LogToNext(t)
  BY <1>8 DEF LogToNext
<1>9. CASE LogLoopEnds(t)
  BY <1>9 DEF LogLoopEnds
<1>10. CASE Crash(t)
  BY <1>10 DEF Crash
<1> QED
  BY <1>1, <1>2, <1>3, <1>4, <1>5, <1>6, <1>7, <1>8, <1>9, <1>10 DEF Statement

\* Every step of the application and of the threads that log keeps the account.
LEMMA NextLogInv == LogInv /\ [LogNext]_logVars => LogInv'
<1> SUFFICES ASSUME LogInv, [LogNext]_logVars PROVE LogInv'
  OBVIOUS
<1>0. LogTypeOK
  BY DEF LogInv
<1>1. ASSUME NEW t \in Loggers, Statement(t) PROVE LogInv'
  <2>1. \A u \in Loggers \ {t} : WriteProgress(u)' /\ SeverityTested(u)'
    BY <1>0, <1>1, StatementsApart, OthersStay
  <2> QED
    BY <1>0, <1>1, <2>1, StatementTypes, StatementProgress, StatementSeverity DEF LogInv
<1>2. CASE UNCHANGED logVars
  <2>1. LogTypeOK'
    BY <1>0, <1>2 DEF logVars, LogTypeOK
  <2>2. \A u \in Loggers : WriteProgress(u)' /\ SeverityTested(u)'
    BY <1>2, OthersStay DEF logVars, StatementOf
  <2> QED
    BY <2>1, <2>2 DEF LogInv
<1> QED
  BY <1>1, <1>2, ApplicationKeepsLogInv DEF LogNext

\* What the invariant is for.
LEMMA LogInvSuffices == LogInv => LogDelivers
<1> SUFFICES ASSUME LogInv PROVE LogDelivers
  OBVIOUS
<1>1. EverySinkOnce
  <2> SUFFICES ASSUME NEW t \in Loggers, ~raced[t], logger[t] = "closed", got[t] # << >>
               PROVE  got[t] = [i \in 1..Len(seen[t]) |-> [sink |-> seen[t][i], msg |-> TRUE]]
    BY DEF EverySinkOnce
  <2>1. Delivered(t, Len(seen[t]))
    BY DEF LogInv, WriteProgress
  <2>2. got[t] \in Seq([sink : Sinks, msg : BOOLEAN])
    BY DEF LogInv, LogTypeOK
  <2>3. got[t] = [i \in 1..Len(got[t]) |-> got[t][i]]
    BY <2>2
  <2> QED
    BY <2>1, <2>3 DEF Delivered
<1>2. BelowMinimumIsQuiet
  BY DEF LogInv, SeverityTested, BelowMinimumIsQuiet, Writing
<1> QED
  BY <1>1, <1>2 DEF LogDelivers

\* For any number of threads and sinks: a statement whose sinks stay as they are gives
\* each of them the whole message, in order, or gives nothing; and the minimum severity
\* is respected although other threads change it.
THEOREM LogIsSound == LogSpec => []LogDelivers
BY LogInvSuffices, InitLogInv, NextLogInv, PTL DEF LogSpec

-----------------------------------------------------------------------------
(* ActiveCompletionQueue.                                                  *)

\* The types, without the count of the destructors.
ActiveTypes ==
  /\ active \in [Holders -> {"none", "alive", "joining", "gone"}]
  /\ queue_ \in [Holders -> Queues \cup {NoQueue}]
  /\ thread_ \in [Holders -> Queues \cup {NoQueue}]
  /\ shutdown_queue \in [Holders -> Queues \cup {NoQueue}]
  /\ running \in [Queues -> {"none", "loose", "loop", "stopping", "ended", "joined"}]
  /\ assignedFrom \in [Queues -> SUBSET Actives]

\* Objects that are not alive hold nothing, except what a destructor is about to let go.
HoldNothing ==
  /\ \A a, b \in Holders : active[a] = "joining" /\ active[b] = "joining" => a = b
  /\ \A a \in Holders : active[a] # "alive" => shutdown_queue[a] = NoQueue
  /\ \A a \in Holders : active[a] \in {"none", "gone"} => queue_[a] = NoQueue /\ thread_[a] = NoQueue
  /\ active[Temp] # "alive"

\* A queue, and likewise a thread, has at most one owner; the threads that have one are
\* those that are not joined yet.
OneOwner ==
  /\ \A a, b \in Holders : queue_[a] # NoQueue /\ queue_[a] = queue_[b] => a = b
  /\ \A a, b \in Holders : thread_[a] # NoQueue /\ thread_[a] = thread_[b] => a = b
  /\ \A q \in Queues :
       running[q] \in {"loop", "stopping", "ended"} <=> \E a \in Holders : thread_[a] = q

\* A queue that somebody holds or will shut down was started.
HeldIsStarted ==
  \A a \in Holders, q \in Queues :
    q = queue_[a] \/ q = shutdown_queue[a] => running[q] \notin {"none", "loose"}

\* Nobody but its owner shuts a queue down, and the objects it was assigned from.
OwnerShutsDown ==
  \A a, b \in Actives :
    queue_[a] # NoQueue /\ shutdown_queue[b] = queue_[a] /\ a # b => b \in assignedFrom[queue_[a]]

\* The invariant but for the types.
Owners == HoldNothing /\ OneOwner /\ HeldIsStarted /\ OwnerShutsDown /\ HeldQueueRuns

ActiveInv == ActiveTypes /\ Owners

\* No object exists at first.
LEMMA InitActiveInv == ActiveInit => ActiveInv
BY ActiveAssumption
   DEF ActiveInit, ActiveInv, Owners, ActiveTypes, HoldNothing, OneOwner, HeldIsStarted,
   OwnerShutsDown, HeldQueueRuns, Holders

\* What it means that a member is moved from b to a different a.
LEMMA MovedIs ==
  ASSUME NEW f \in [Holders -> Queues \cup {NoQueue}], NEW a \in Holders, NEW b \in Holders
  PROVE  /\ Moved(f, a, b) \in [Holders -> Queues \cup {NoQueue}]
         /\ Moved(f, a, b)[b] = NoQueue
         /\ a # b => Moved(f, a, b)[a] = f[b]
         /\ \A c \in Holders \ {a, b} : Moved(f, a, b)[c] = f[c]
BY DEF Moved

\* The steps keep the types.
LEMMA ActiveTypesStep == ActiveTypes /\ [ActiveNext]_activeVars => ActiveTypes'
<1> SUFFICES ASSUME ActiveTypes, [ActiveNext]_activeVars PROVE ActiveTypes'
  OBVIOUS
<1> USE DEF ActiveTypes
<1>0. Actives \subseteq Holders /\ Temp \in Holders
  BY DEF Holders
<1>1. ASSUME NEW a \in Actives, Destructor(a) PROVE ActiveTypes'
  BY <1>0, <1>1 DEF Destructor, Destruct
<1>2. ASSUME NEW a \in Actives, NEW q \in Queues, Own(a, q) PROVE ActiveTypes'
  BY <1>0, <1>2 DEF Own
<1>3. ASSUME NEW a \in Actives, NEW b \in Actives, MoveConstruct(a, b) PROVE ActiveTypes'
  BY <1>0, <1>3, MovedIs DEF MoveConstruct
<1>4. ASSUME NEW a \in Actives, NEW b \in Actives, MoveAssign(a, b) PROVE ActiveTypes'
  <2>1. Moved(queue_, Temp, a) \in [Holders -> Queues \cup {NoQueue}]
    BY <1>0, MovedIs
  <2>2. Moved(thread_, Temp, a) \in [Holders -> Queues \cup {NoQueue}]
    BY <1>0, MovedIs
  <2>3. queue_' \in [Holders -> Queues \cup {NoQueue}]
    BY <1>0, <1>4, <2>1, MovedIs DEF MoveAssign
  <2>4. thread_' \in [Holders -> Queues \cup {NoQueue}]
    BY <1>0, <1>4, <2>2, MovedIs DEF MoveAssign
  <2>5. assignedFrom' \in [Queues -> SUBSET Actives]
    BY <1>4 DEF MoveAssign
  <2> QED
    BY <1>0, <1>4, <2>3, <2>4, <2>5 DEF MoveAssign, Destruct
<1>5. ASSUME NEW a \in Holders, JoinThread(a) PROVE ActiveTypes'
  BY <1>5 DEF JoinThread
<1>6. ASSUME NEW q \in Queues, StartLoose(q) \/ LoopEnds(q) PROVE ActiveTypes'
  BY <1>6 DEF StartLoose, LoopEnds
<1>7. CASE UNCHANGED activeVars
  BY <1>7 DEF activeVars
<1> QED
  BY <1>1, <1>2, <1>3, <1>4, <1>5, <1>6, <1>7 DEF ActiveNext, Construct, ConstructFrom

\* A new object owns a queue and a thread that nobody had.
LEMMA OwnKeepsOwners ==
  ASSUME ActiveTypes, Owners, NEW a \in Actives, NEW q \in Queues,
         Own(a, q), running[q] \in {"none", "loose"}
  PROVE  Owners'
<1> USE ActiveAssumption DEF ActiveTypes, Owners, HoldNothing, Holders, Own, Free
<1>1. HoldNothing'
  BY DEF HoldNothing
<1>2. OneOwner'
  BY DEF OneOwner, HeldIsStarted
<1>3. HeldIsStarted'
  BY DEF HeldIsStarted
<1>4. OwnerShutsDown'
  BY DEF OwnerShutsDown, HeldIsStarted
<1>5. HeldQueueRuns'
  BY DEF HeldQueueRuns
<1> QED
  BY <1>1, <1>2, <1>3, <1>4, <1>5 DEF Owners

\* The move constructor passes on the queue, the thread and the duty to shut down.
LEMMA MoveConstructKeepsOwners ==
  ASSUME ActiveTypes, Owners, NEW a \in Actives, NEW b \in Actives, MoveConstruct(a, b)
  PROVE  Owners'
<1> USE ActiveAssumption
   DEF ActiveTypes, Owners, HoldNothing, Holders, MoveConstruct, Free, Moved
<1>1. HoldNothing'
  BY DEF HoldNothing
<1>2. OneOwner'
  BY DEF OneOwner
<1>3. HeldIsStarted'
  BY DEF HeldIsStarted
<1>4. OwnerShutsDown'
  BY DEF OwnerShutsDown, OneOwner
<1>5. HeldQueueRuns'
  BY DEF HeldQueueRuns
<1> QED
  BY <1>1, <1>2, <1>3, <1>4, <1>5 DEF Owners

\* The destructor shuts down its own queue, or one that was assigned from it.
LEMMA DestructorKeepsOwners ==
  ASSUME ActiveTypes, Owners, NEW a \in Actives, Destructor(a)
  PROVE  Owners'
<1> USE ActiveAssumption
   DEF ActiveTypes, Owners, HoldNothing, Holders, Destructor, Destruct, Free
<1>1. HoldNothing'
  BY DEF HoldNothing
<1>2. OneOwner'
  BY DEF OneOwner
<1>3. HeldIsStarted'
  BY DEF HeldIsStarted
<1>4. OwnerShutsDown'
  BY DEF OwnerShutsDown
<1>5. HeldQueueRuns'
  BY DEF HeldQueueRuns, OwnerShutsDown
<1> QED
  BY <1>1, <1>2, <1>3, <1>4, <1>5 DEF Owners

\* operator= passes on the queue and the thread, but leaves a duty to shut down behind.
LEMMA MoveAssignKeepsOwners ==
  ASSUME ActiveTypes, Owners, NEW a \in Actives, NEW b \in Actives, MoveAssign(a, b)
  PROVE  Owners'
<1> USE ActiveAssumption
   DEF ActiveTypes, Owners, HoldNothing, Holders, MoveAssign, Destruct, Free, Moved
<1>1. HoldNothing'
  BY DEF HoldNothing
<1>2. OneOwner'
  BY DEF OneOwner
<1>3. HeldIsStarted'
  BY DEF HeldIsStarted
<1>4. OwnerShutsDown'
  BY DEF OwnerShutsDown
<1>5. HeldQueueRuns'
  <2> SUFFICES ASSUME NEW x \in Actives, active'[x] = "alive", queue_'[x] # NoQueue
               PROVE  \/ running'[queue_'[x]] = "loop"
                      \/ \E c \in assignedFrom'[queue_'[x]] : active'[c] \in {"joining", "gone"}
    BY DEF HeldQueueRuns
  <2>1. \A c \in Actives : active'[c] = active[c]
    OBVIOUS
  <2>2. PICK y \in Actives : y # a /\ active[y] = "alive" /\ queue_[y] = queue_'[x]
    OBVIOUS
  <2> DEFINE q == queue_[y]
  <2>3. q \in Queues /\ q # queue_[a]
    BY <2>2 DEF OneOwner
  <2>4. running'[q] = running[q] /\ assignedFrom[q] \subseteq assignedFrom'[q]
    BY <2>3
  <2>5. \/ running[q] = "loop"
        \/ \E c \in assignedFrom[q] : active[c] \in {"joining", "gone"}
    BY <2>2, <2>3 DEF HeldQueueRuns
  <2>6. assignedFrom[q] \subseteq Actives
    BY <2>3
  <2> QED
    BY <2>1, <2>2, <2>4, <2>5, <2>6
<1> QED
  BY <1>1, <1>2, <1>3, <1>4, <1>5 DEF Owners

\* What was joined has no owner any more.
LEMMA JoinKeepsOwners ==
  ASSUME ActiveTypes, Owners, NEW a \in Holders, JoinThread(a)
  PROVE  Owners'
<1> USE ActiveAssumption DEF ActiveTypes, Owners, HoldNothing, Holders, JoinThread
<1>1. HoldNothing'
  BY DEF HoldNothing
<1>2. OneOwner'
  BY DEF OneOwner
<1>3. HeldIsStarted'
  BY DEF HeldIsStarted
<1>4. OwnerShutsDown'
  BY DEF OwnerShutsDown
<1>5. HeldQueueRuns'
  BY DEF HeldQueueRuns
<1> QED
  BY <1>1, <1>2, <1>3, <1>4, <1>5 DEF Owners

\* A thread starts and ends with nobody's doing but its own.
LEMMA ThreadsKeepOwners ==
  ASSUME ActiveTypes, Owners, NEW q \in Queues, StartLoose(q) \/ LoopEnds(q)
  PROVE  Owners'
<1> USE ActiveAssumption DEF ActiveTypes, Owners, HoldNothing, Holders, StartLoose, LoopEnds
<1>1. HoldNothing'
  BY DEF HoldNothing
<1>2. OneOwner'
  BY DEF OneOwner
<1>3. HeldIsStarted'
  BY DEF HeldIsStarted
<1>4. OwnerShutsDown'
  BY DEF OwnerShutsDown
<1>5. HeldQueueRuns'
  BY DEF HeldQueueRuns
<1> QED
  BY <1>1, <1>2, <1>3, <1>4, <1>5 DEF Owners

\* Every step keeps the owners apart.
LEMMA NextActiveInv == ActiveInv /\ [ActiveNext]_activeVars => ActiveInv'
<1> SUFFICES ASSUME ActiveInv, [ActiveNext]_activeVars PROVE Owners'
  BY ActiveTypesStep DEF ActiveInv
<1> USE DEF ActiveInv
<1>1. ASSUME NEW a \in Actives, Destructor(a) PROVE Owners'
  BY <1>1, DestructorKeepsOwners
<1>2. ASSUME NEW a \in Actives, NEW q \in Queues, Construct(a, q) \/ ConstructFrom(a, q)
      PROVE  Owners'
  BY <1>2, OwnKeepsOwners DEF Construct, ConstructFrom
<1>3. ASSUME NEW a \in Actives, NEW b \in Actives, MoveConstruct(a, b) \/ MoveAssign(a, b)
      PROVE  Owners'
  BY <1>3, MoveConstructKeepsOwners, MoveAssignKeepsOwners
<1>4. ASSUME NEW a \in Holders, JoinThread(a) PROVE Owners'
  BY <1>4, JoinKeepsOwners
<1>5. ASSUME NEW q \in Queues, StartLoose(q) \/ LoopEnds(q) PROVE Owners'
  BY <1>5, ThreadsKeepOwners
<1>6. CASE UNCHANGED activeVars
  BY <1>6 DEF activeVars, Owners, HoldNothing, OneOwner, HeldIsStarted, OwnerShutsDown,
     HeldQueueRuns
<1> QED
  BY <1>1, <1>2, <1>3, <1>4, <1>5, <1>6 DEF ActiveNext

\* A set whose members are all equal has at most one.
LEMMA AtMostOne ==
  ASSUME NEW S, \A a, b \in S : a = b
  PROVE  Cardinality(S) = IF S = {} THEN 0 ELSE 1
<1>1. CASE S = {}
  BY <1>1, FS_EmptySet
<1>2. CASE S # {}
  <2>1. PICK a : S = {a}
    BY <1>2
  <2> QED
    BY <1>2, <2>1, FS_Singleton
<1> QED
  BY <1>1, <1>2

\* What the invariant is for.
LEMMA ActiveInvSuffices == ActiveInv => QueuesAreOwned
<1> SUFFICES ASSUME ActiveInv, NEW q \in Queues
             PROVE  Cardinality({a \in Holders : thread_[a] = q}) =
                      (IF running[q] \in {"loop", "stopping", "ended"} THEN 1 ELSE 0)
  BY DEF ActiveInv, Owners, QueuesAreOwned, NoThreadLost
<1> DEFINE S == {a \in Holders : thread_[a] = q}
<1>1. \A a, b \in S : a = b
  BY ActiveAssumption DEF ActiveInv, Owners, OneOwner
<1>2. S = {} <=> running[q] \notin {"loop", "stopping", "ended"}
  BY DEF ActiveInv, Owners, OneOwner
<1> HIDE DEF S
<1>3. Cardinality(S) = IF S = {} THEN 0 ELSE 1
  BY <1>1, AtMostOne
<1> QED
  BY <1>2, <1>3 DEF S

\* For any number of objects and queues, and whatever moves there are: every thread that
\* is not joined yet has exactly one owner that will join it, and an object that holds a
\* queue finds its loop running, but for the case that operator= leaves open.
THEOREM OwnersOfQueues == ActiveSpec => []QueuesAreOwned
BY ActiveInvSuffices, InitActiveInv, NextActiveInv, PTL DEF ActiveSpec

-----------------------------------------------------------------------------
(* All parts together.                                                     *)

\* The invariants of the parts.
AllInv ==
  /\ part \in Parts /\ input \in Keys
  /\ IInv /\ MembershipInv /\ ClientTypeOK /\ LogInv /\ ActiveInv /\ FailureInv

\* The destructors run one after the other.
LEMMA ActiveInvTypes == ActiveInv => ActiveTypeOK
<1> SUFFICES ASSUME ActiveInv PROVE Cardinality({a \in Holders : active[a] = "joining"}) <= 1
  BY DEF ActiveInv, ActiveTypes, ActiveTypeOK
<1> DEFINE S == {a \in Holders : active[a] = "joining"}
<1>1. \A a, b \in S : a = b
  BY DEF ActiveInv, Owners, HoldNothing
<1> HIDE DEF S
<1>2. Cardinality(S) = IF S = {} THEN 0 ELSE 1
  BY <1>1, AtMostOne
<1> QED
  BY <1>2 DEF S

\* A step of one part is a step of it, and none of the other parts.
LEMMA StepsOfParts ==
  [Next]_vars => /\ UNCHANGED <<part, input>>
                 /\ [CounterNext]_counterVars /\ [MembershipNext]_membershipVars
                 /\ [ClientNext]_clientVars /\ [LogNext]_logVars
                 /\ [ActiveNext]_activeVars /\ [FailureNext]_failureVars
<1> SUFFICES ASSUME [Next]_vars
             PROVE  /\ UNCHANGED <<part, input>>
                    /\ [CounterNext]_counterVars /\ [MembershipNext]_membershipVars
                    /\ [ClientNext]_clientVars /\ [LogNext]_logVars
                    /\ [ActiveNext]_activeVars /\ [FailureNext]_failureVars
  OBVIOUS
<1>1. CASE UNCHANGED vars
  BY <1>1 DEF vars
<1>2. CASE Only("counter") /\ CounterNext
  BY <1>2 DEF Only
<1>3. CASE Only("membership") /\ MembershipNext
  BY <1>3 DEF Only
<1>4. CASE Only("client") /\ ClientNext
  BY <1>4 DEF Only
<1>5. CASE Only("log") /\ LogNext
  BY <1>5 DEF Only
<1>6. CASE Only("active") /\ ActiveNext
  BY <1>6 DEF Only
<1>7. CASE Only("failure") /\ FailureNext
  BY <1>7 DEF Only
<1> QED
  BY <1>1, <1>2, <1>3, <1>4, <1>5, <1>6, <1>7 DEF Next

\* The parts do not disturb each other: all the invariants hold together.
LEMMA AllInvariance == Spec => []AllInv
<1>1. Init => AllInv
  BY InitIInv, InitMembershipInv, InitClientInv, InitLogInv, InitActiveInv, InitFailureInv
     DEF Init, AllInv
<1>2. AllInv /\ [Next]_vars => AllInv'
  BY StepsOfParts, NextIInv, NextMembershipInv, NextClientInv, NextLogInv, NextActiveInv,
     NextFailureInv
     DEF AllInv
<1> QED
  BY <1>1, <1>2, PTL DEF Spec

\* The variables of all parts keep their types, whichever part moves: among them the
\* bounds of the counter of operations, of the delays and the deadlines of the policies,
\* and of the destructors that run at the same time.
THEOREM PartsTypeCorrect == Spec => []TypeOK
<1>1. AllInv => TypeOK
  BY IInvTypes, ActiveInvTypes
     DEF AllInv, TypeOK, MembershipInv, LogInv, FailureInv
<1> QED
  BY <1>1, AllInvariance, PTL

\* What the parts promise by themselves they promise side by side in one program.
THEOREM PartsTogether ==
  Spec => [](/\ BlockReturnsWhenAllDone /\ NoLostWakeup
             /\ RefreshGoesOn /\ LogDelivers /\ QueuesAreOwned /\ SurvivesFailures)
<1>1. AllInv => /\ BlockReturnsWhenAllDone /\ NoLostWakeup
                /\ RefreshGoesOn /\ LogDelivers /\ QueuesAreOwned /\ SurvivesFailures
  BY LogInvSuffices, ActiveInvSuffices, FailureInvSuffices
     DEF AllInv, IInv, MembershipInv
<1> QED
  BY <1>1, AllInvariance, PTL

-----------------------------------------------------------------------------
(* The range of a prefix.                                                  *)

\* A key is a sequence of bytes.
LEMMA KeyIsSeq ==
  ASSUME NEW p \in Keys
  PROVE  /\ p \in Seq(0..MaxByte) /\ Len(p) \in Nat
         /\ \A i \in 1..Len(p) : p[i] \in 0..MaxByte
<1>1. PICK n \in 0..MaxLen : p \in [1..n -> 0..MaxByte]
  BY DEF Keys
<1>2. n \in Nat
  BY PrefixAssumption
<1>3. p \in Seq(0..MaxByte)
  BY <1>1, <1>2, SeqDef
<1> QED
  BY <1>3, LenProperties

\* The library's definition of a prefix, byte by byte.
LEMMA PrefixBytes ==
  ASSUME NEW S, NEW s \in Seq(S), NEW t \in Seq(S)
  PROVE  IsPrefix(s, t) <=> Len(s) <= Len(t) /\ \A i \in 1..Len(s) : s[i] = t[i]
<1>1. Len(s) \in Nat /\ Len(t) \in Nat
  OBVIOUS
<1> SUFFICES ASSUME Len(s) <= Len(t)
             PROVE  SubSeq(s, 1, Len(s)) = SubSeq(t, 1, Len(s))
                      <=> \A i \in 1..Len(s) : s[i] = t[i]
  BY DEF IsPrefix
<1> DEFINE a == SubSeq(s, 1, Len(s))  b == SubSeq(t, 1, Len(s))
<1>2. /\ a \in Seq(S) /\ Len(a) = Len(s) /\ \A i \in 1..Len(s) : a[i] = s[i]
  <2>1. \A i \in 1..Len(s) : s[i] \in S
    OBVIOUS
  <2> QED
    BY <1>1, <2>1, SubSeqProperties
<1>3. /\ b \in Seq(S) /\ Len(b) = Len(s) /\ \A i \in 1..Len(s) : b[i] = t[i]
  <2>1. \A i \in 1..Len(s) : t[i] \in S
    BY <1>1
  <2> QED
    BY <1>1, <2>1, SubSeqProperties
<1> HIDE DEF a, b
<1>4. ASSUME \A i \in 1..Len(s) : s[i] = t[i]  PROVE a = b
  BY <1>2, <1>3, <1>4, SeqEqual
<1>5. ASSUME a = b, NEW i \in 1..Len(s)  PROVE s[i] = t[i]
  BY <1>2, <1>3, <1>5
<1> QED
  BY <1>4, <1>5 DEF a, b

\* There is a byte to take the carry, or 0.
LEMMA CarryExists ==
  ASSUME NEW p \in Keys
  PROVE  LET k == LastToCarry(p)
         IN  /\ k \in 0..Len(p) /\ \A i \in (k + 1)..Len(p) : p[i] = MaxByte
             /\ k > 0 => p[k] # MaxByte
<1>1. Len(p) \in Nat
  BY KeyIsSeq
<1> DEFINE S == {k \in 0..Len(p) : \A i \in (k + 1)..Len(p) : p[i] = MaxByte}
<1>2. Len(p) \in S /\ S \subseteq Nat
  BY <1>1
<1>3. PICK k \in S : \A j \in S : k <= j
  <2> HIDE DEF S
  <2> QED  BY <1>2, LeastNumber
<1>4. ASSUME k > 0, p[k] = MaxByte  PROVE FALSE
  <2>1. k - 1 \in S
    BY <1>1, <1>3, <1>4
  <2>2. k \in Nat
    BY <1>2, <1>3
  <2> HIDE DEF S
  <2> QED
    BY <1>3, <2>1, <2>2
<1> QED
  BY <1>3, <1>4 DEF LastToCarry

\* The end of the range when there is such a byte.
LEMMA EndOfRange ==
  ASSUME NEW p \in Keys, LastToCarry(p) # 0
  PROVE  LET k == LastToCarry(p)
             e == prefix_end(p)
         IN  /\ k \in 1..Len(p) /\ e \in Seq(0..MaxByte) /\ Len(e) = Len(p)
             /\ \A i \in 1..(k - 1) : e[i] = p[i]
             /\ e[k] = p[k] + 1
             /\ \A i \in (k + 1)..Len(p) : e[i] = 0 /\ p[i] = MaxByte
<1> DEFINE k == LastToCarry(p)
           e == [i \in 1..Len(p) |-> IF i > k THEN 0 ELSE IF i = k THEN p[i] + 1 ELSE p[i]]
<1>1. Len(p) \in Nat /\ MaxByte \in Nat /\ \A i \in 1..Len(p) : p[i] \in 0..MaxByte
  BY KeyIsSeq, PrefixAssumption
<1>2. k \in 1..Len(p) /\ (\A i \in (k + 1)..Len(p) : p[i] = MaxByte) /\ p[k] # MaxByte
  BY <1>1, CarryExists
<1>3. prefix_end(p) = e
  BY DEF prefix_end
<1> HIDE DEF k
<1>4. ASSUME NEW i \in 1..Len(p)  PROVE e[i] \in 0..MaxByte
  BY <1>1, <1>2
<1>5. e \in [1..Len(p) -> 0..MaxByte]
  BY <1>4
<1>6. e \in Seq(0..MaxByte)
  <2> HIDE DEF e
  <2> QED  BY <1>1, <1>5, SeqDef
<1>7. Len(e) = Len(p)
  <2> HIDE DEF e
  <2> QED  BY <1>1, <1>5, <1>6, LenProperties
<1>8. /\ \A i \in 1..(k - 1) : e[i] = p[i]
      /\ e[k] = p[k] + 1
      /\ \A i \in (k + 1)..Len(p) : e[i] = 0 /\ p[i] = MaxByte
  BY <1>1, <1>2
<1> QED
  BY <1>2, <1>3, <1>6, <1>7, <1>8 DEF k

\* A key that has the prefix up to the carry, and is not below the prefix, has all of it.
LEMMA NotBelowHasPrefix ==
  ASSUME NEW p \in Keys, NEW key \in Keys, NEW k \in 1..Len(p), k <= Len(key),
         \A i \in 1..k : key[i] = p[i],
         \A i \in (k + 1)..Len(p) : p[i] = MaxByte,
         ~Below(key, p)
  PROVE  IsPrefix(p, key)
<1>1. /\ Len(p) \in Nat /\ Len(key) \in Nat
      /\ p \in Seq(0..MaxByte) /\ key \in Seq(0..MaxByte)
      /\ \A i \in 1..Len(key) : key[i] \in 0..MaxByte
  BY KeyIsSeq
<1> DEFINE Differ == {i \in 1..Len(p) : i <= Len(key) /\ key[i] # p[i]}
<1>2. ASSUME Differ # {}  PROVE FALSE
  <2>1. Differ \subseteq Nat
    OBVIOUS
  <2>2. PICK i \in Differ : \A j \in Differ : i <= j
    <3> HIDE DEF Differ
    <3> QED  BY <1>2, <2>1, LeastNumber
  <2>3. i \in (k + 1)..Len(p) /\ i \in 1..Len(key) /\ key[i] < p[i]
    BY <1>1, <2>2, PrefixAssumption
  <2>4. \A j \in 1..(i - 1) : key[j] = p[j]
    BY <1>1, <2>2, <2>3
  <2> QED
    BY <1>1, <2>3, <2>4 DEF Below
<1>3. \A i \in 1..Len(p) : i <= Len(key) => key[i] = p[i]
  BY <1>2
<1>4. ASSUME Len(key) < Len(p)  PROVE FALSE
  <2>1. IsPrefix(key, p) /\ key # p
    BY <1>1, <1>3, <1>4, PrefixBytes
  <2> QED
    BY <2>1 DEF Below, IsStrictPrefix
<1> QED
  BY <1>1, <1>3, <1>4, PrefixBytes

\* For every prefix and every key: the range that prefix_end() closes has the keys that
\* start with the prefix, if it has a byte that is not 0xFF, and no others, if its last byte
\* is not 0xFF.
THEOREM RangeOfPrefix == \A prefix \in Keys : PrefixRange(prefix)
<1> SUFFICES ASSUME NEW p \in Keys, NEW key \in Keys,
                    LastToCarry(p) # 0 \/ (p # << >> /\ ~EndsWithMaxByte(p))
             PROVE  /\ IsPrefix(p, key) => InRange(key, p)
                    /\ p # << >> /\ ~EndsWithMaxByte(p) /\ InRange(key, p) => IsPrefix(p, key)
  BY DEF PrefixRange
<1> DEFINE k == LastToCarry(p)  e == prefix_end(p)
<1>1. /\ Len(p) \in Nat /\ Len(key) \in Nat
      /\ p \in Seq(0..MaxByte) /\ key \in Seq(0..MaxByte)
      /\ \A i \in 1..Len(key) : key[i] \in 0..MaxByte
      /\ \A i \in 1..Len(p) : p[i] \in 0..MaxByte
  BY KeyIsSeq
<1>a. p # << >> /\ ~EndsWithMaxByte(p) => k = Len(p) /\ k # 0
  BY <1>1, CarryExists DEF EndsWithMaxByte
<1>2. /\ k \in 1..Len(p) /\ e \in Seq(0..MaxByte) /\ Len(e) = Len(p)
      /\ \A i \in 1..(k - 1) : e[i] = p[i]
      /\ e[k] = p[k] + 1
      /\ \A i \in (k + 1)..Len(p) : e[i] = 0 /\ p[i] = MaxByte
  BY <1>a, EndOfRange
<1> HIDE DEF k, e
<1>3. ASSUME IsPrefix(p, key)  PROVE ~Below(key, p) /\ Below(key, e)
  <2>1. Len(p) <= Len(key) /\ \A i \in 1..Len(p) : p[i] = key[i]
    BY <1>1, <1>3, PrefixBytes
  <2>2. ~IsStrictPrefix(key, p)
    <3> SUFFICES ASSUME IsPrefix(key, p) PROVE key = p
      BY DEF IsStrictPrefix
    <3>1. Len(key) <= Len(p)
      BY <1>1, PrefixBytes
    <3> QED
      BY <1>1, <2>1, <3>1, SeqEqual
  <2>3. ~Below(key, p)
    BY <1>1, <2>1, <2>2 DEF Below
  <2>4. k \in 1..Len(key) /\ k <= Len(e) /\ key[k] < e[k] /\ \A j \in 1..(k - 1) : key[j] = e[j]
    BY <1>1, <1>2, <2>1
  <2>5. Below(key, e)
    BY <2>4 DEF Below
  <2> QED
    BY <2>3, <2>5
<1>4. ASSUME ~Below(key, p), Below(key, e), ~IsStrictPrefix(key, e)
      PROVE  IsPrefix(p, key)
  <2>1. PICK i \in 1..Len(key) : i <= Len(e) /\ key[i] < e[i] /\ \A j \in 1..(i - 1) : key[j] = e[j]
    BY <1>4 DEF Below
  <2>2. i <= k
    <3>1. ASSUME i > k  PROVE FALSE
      <4>1. i \in (k + 1)..Len(p)
        BY <1>1, <1>2, <2>1, <3>1
      <4>2. e[i] = 0
        BY <1>2, <4>1
      <4>3. key[i] \in 0..MaxByte /\ key[i] < e[i]
        BY <1>1, <2>1
      <4> QED
        BY <4>2, <4>3, PrefixAssumption
    <3> QED
      BY <1>1, <1>2, <2>1, <3>1
  <2>3. ASSUME i < k  PROVE FALSE
    <3>1. key[i] < p[i] /\ i <= Len(p) /\ \A j \in 1..(i - 1) : key[j] = p[j]
      BY <1>1, <1>2, <2>1, <2>3
    <3> QED
      BY <1>4, <3>1 DEF Below
  <2>4. i = k /\ \A j \in 1..(k - 1) : key[j] = p[j]
    BY <1>1, <1>2, <2>1, <2>2, <2>3
  <2>5. key[k] = p[k]
    <3>1. k <= Len(p) /\ key[k] <= p[k] /\ k \in 1..Len(key)
      BY <1>1, <1>2, <2>1, <2>4
    <3>2. ~(key[k] < p[k])
      BY <1>4, <2>4, <3>1 DEF Below
    <3> QED
      BY <1>1, <1>2, <3>1, <3>2
  <2>6. k <= Len(key) /\ \A j \in 1..k : key[j] = p[j]
    BY <1>1, <1>2, <2>1, <2>4, <2>5
  <2> QED
    BY <1>2, <1>4, <2>6, NotBelowHasPrefix
<1>5. ASSUME k = Len(p), IsStrictPrefix(key, e)  PROVE Below(key, p)
  <2>1. Len(key) <= Len(e) /\ \A i \in 1..Len(key) : key[i] = e[i]
    BY <1>1, <1>2, <1>5, PrefixBytes DEF IsStrictPrefix
  <2>2. Len(key) < Len(e)
    BY <1>1, <1>2, <1>5, <2>1, SeqEqual DEF IsStrictPrefix
  <2>3. Len(key) < Len(p) /\ \A i \in 1..Len(key) : key[i] = p[i]
    BY <1>1, <1>2, <1>5, <2>1, <2>2
  <2> QED
    BY <1>1, <2>3, PrefixBytes DEF Below, IsStrictPrefix
<1> QED
  BY <1>a, <1>3, <1>4, <1>5 DEF InRange, e

-----------------------------------------------------------------------------
(* The policies.                                                           *)

\* Induction over a range of numbers, with a set in place of the predicate.
LEMMA RangeInduction ==
  ASSUME NEW b \in Nat, NEW S, 0 \in S, \A i \in 1..b : i - 1 \in S => i \in S
  PROVE  0..b \subseteq S
<1> DEFINE Bad == (0..b) \ S
<1>1. ASSUME Bad # {}  PROVE FALSE
  <2>1. Bad \subseteq Nat
    OBVIOUS
  <2>2. PICK n \in Bad : \A k \in Bad : n <= k
    <3> HIDE DEF Bad
    <3> QED  BY <1>1, <2>1, LeastNumber
  <2>3. n \in 1..b /\ n - 1 \in S
    BY <2>2
  <2> QED
    BY <2>2, <2>3
<1> QED
  BY <1>1

\* A function on a range is defined by its first value and its steps.
Iterates(f, n, a, g) == f = [k \in 0..n |-> IF k = 0 THEN a ELSE g[f[k - 1]]]

LEMMA IterationExists ==
  ASSUME NEW n \in Nat, NEW a, NEW g
  PROVE  \E f : Iterates(f, n, a, g)
<1> DEFINE Good == {m \in 0..n : \E f : Iterates(f, m, a, g)}
<1>1. 0 \in Good
  <2> DEFINE h == [k \in 0..0 |-> a]
  <2>1. Iterates(h, 0, a, g)
    BY DEF Iterates
  <2> QED
    BY <2>1
<1>2. ASSUME NEW m \in 1..n, m - 1 \in Good  PROVE m \in Good
  <2>1. PICK f : Iterates(f, m - 1, a, g)
    BY <1>2
  <2> DEFINE h == [k \in 0..m |-> IF k < m THEN f[k] ELSE g[f[m - 1]]]
  <2> HIDE DEF Good
  <2>2. h[0] = a
    BY <2>1 DEF Iterates
  <2>3. ASSUME NEW k \in 1..m  PROVE h[k] = g[h[k - 1]]
    <3>1. h[k - 1] = f[k - 1]
      OBVIOUS
    <3>2. CASE k < m
      BY <3>1, <3>2, <2>1 DEF Iterates
    <3>3. CASE k = m
      BY <3>1, <3>3
    <3> QED
      BY <3>2, <3>3
  <2>4. \A k \in 0..m : h[k] = IF k = 0 THEN a ELSE g[h[k - 1]]
    <3> HIDE DEF h
    <3> QED  BY <2>2, <2>3
  <2>5. Iterates(h, m, a, g)
    BY <2>4 DEF Iterates
  <2> QED
    BY <2>5 DEF Good
<1>3. 0..n \subseteq Good
  <2> HIDE DEF Good
  <2> QED  BY <1>1, <1>2, RangeInduction
<1> QED
  BY <1>3

\* It stays in a set that its steps do not leave.
LEMMA IterationStays ==
  ASSUME NEW n \in Nat, NEW D, NEW a \in D, NEW g \in [D -> D], NEW f, Iterates(f, n, a, g)
  PROVE  \A k \in 0..n : f[k] \in D
<1> DEFINE Good == {k \in 0..n : f[k] \in D}
<1>1. 0 \in Good
  BY DEF Iterates
<1>2. ASSUME NEW k \in 1..n, k - 1 \in Good  PROVE k \in Good
  BY <1>2 DEF Iterates
<1>3. 0..n \subseteq Good
  <2> HIDE DEF Good
  <2> QED  BY <1>1, <1>2, RangeInduction
<1> QED
  BY <1>3

\* The functions in PolicyAnswers.
IsBackoff(f, min, max) ==
  f = [k \in 0..MaxCalls |-> IF k = 0 THEN ExponentialBackoff(min, max)
                             ELSE CloneBackoff(BackoffOnFailure(f[k - 1]))]

IsDoubled(f, min) == f = [k \in 0..MaxCalls |-> IF k = 0 THEN min ELSE 2 * f[k - 1]]

IsErrors(f, max) ==
  f = [k \in 0..MaxCalls |-> IF k = 0 THEN LimitedErrors(max)
                             ELSE CloneErrors(ErrorsOnFailure(f[k - 1]))]

LEMMA BackoffExists == ASSUME NEW min \in Nat, NEW max \in Nat PROVE \E f : IsBackoff(f, min, max)
<1> DEFINE D == [min_delay_ : Nat, max_delay_ : Nat, current_delay_ : Nat]
           g == [b \in D |-> CloneBackoff(BackoffOnFailure(b))]
           a == ExponentialBackoff(min, max)
<1>1. a \in D /\ g \in [D -> D]
  <2>1. a \in D
    BY DEF ExponentialBackoff
  <2>2. ASSUME NEW b \in D  PROVE CloneBackoff(BackoffOnFailure(b)) \in D
    BY DEF CloneBackoff, BackoffOnFailure
  <2> QED
    BY <2>1, <2>2
<1> HIDE DEF a, D
<1>2. PICK f : Iterates(f, MaxCalls, a, g)
  BY CallsAssumption, IterationExists
<1>3. \A k \in 0..MaxCalls : f[k] \in D
  <2> HIDE DEF g
  <2> QED  BY <1>1, <1>2, CallsAssumption, IterationStays
<1>4. IsBackoff(f, min, max)
  <2>1. \A k \in 0..MaxCalls : k # 0 => g[f[k - 1]] = CloneBackoff(BackoffOnFailure(f[k - 1]))
    BY <1>3, CallsAssumption
  <2> QED
    BY <1>2, <2>1 DEF Iterates, IsBackoff, a
<1> QED
  BY <1>4

LEMMA DoubledExists == ASSUME NEW min \in Nat PROVE \E f : IsDoubled(f, min)
<1> DEFINE g == [b \in Nat |-> 2 * b]
<1>1. g \in [Nat -> Nat]
  OBVIOUS
<1>2. PICK f : Iterates(f, MaxCalls, min, g)
  BY CallsAssumption, IterationExists
<1>3. \A k \in 0..MaxCalls : f[k] \in Nat
  <2> HIDE DEF g
  <2> QED  BY <1>1, <1>2, CallsAssumption, IterationStays
<1>4. IsDoubled(f, min)
  <2>1. \A k \in 0..MaxCalls : k # 0 => g[f[k - 1]] = 2 * f[k - 1]
    BY <1>3, CallsAssumption
  <2> QED
    BY <1>2, <2>1 DEF Iterates, IsDoubled
<1> QED
  BY <1>4

LEMMA ErrorsExists == ASSUME NEW max \in Nat PROVE \E f : IsErrors(f, max)
<1> DEFINE D == [maximum_count_ : Nat, current_count_ : Nat]
           g == [b \in D |-> CloneErrors(ErrorsOnFailure(b))]
           a == LimitedErrors(max)
<1>1. a \in D /\ g \in [D -> D]
  <2>1. a \in D
    BY DEF LimitedErrors
  <2>2. ASSUME NEW b \in D  PROVE CloneErrors(ErrorsOnFailure(b)) \in D
    BY DEF CloneErrors, ErrorsOnFailure
  <2> QED
    BY <2>1, <2>2
<1> HIDE DEF a, D
<1>2. PICK f : Iterates(f, MaxCalls, a, g)
  BY CallsAssumption, IterationExists
<1>3. \A k \in 0..MaxCalls : f[k] \in D
  <2> HIDE DEF g
  <2> QED  BY <1>1, <1>2, CallsAssumption, IterationStays
<1>4. IsErrors(f, max)
  <2>1. \A k \in 0..MaxCalls : k # 0 => g[f[k - 1]] = CloneErrors(ErrorsOnFailure(f[k - 1]))
    BY <1>3, CallsAssumption
  <2> QED
    BY <1>2, <2>1 DEF Iterates, IsErrors, a
<1> QED
  BY <1>4

\* Cutting the delay at every failure is cutting it once.
LEMMA BackoffIsCut ==
  ASSUME NEW min \in Nat, NEW max \in Nat, min <= max,
         NEW b, IsBackoff(b, min, max), NEW d, IsDoubled(d, min)
  PROVE  \A k \in 0..MaxCalls : BackoffDelay(b[k]) = IF d[k] < max THEN d[k] ELSE max
<1> DEFINE Cut(n) == IF n < max THEN n ELSE max
           Good == {k \in 0..MaxCalls :
                      /\ d[k] \in Nat
                      /\ b[k] = [min_delay_ |-> min, max_delay_ |-> max,
                                 current_delay_ |-> Cut(d[k])]}
<1>1. 0 \in Good
  BY CallsAssumption DEF IsBackoff, IsDoubled, ExponentialBackoff
<1>2. ASSUME NEW k \in 1..MaxCalls, k - 1 \in Good  PROVE k \in Good
  <2>1. k - 1 \in 0..MaxCalls /\ k \in 0..MaxCalls
    BY CallsAssumption
  <2>2. d[k] = 2 * d[k - 1] /\ d[k - 1] \in Nat
    <3>1. d[k - 1] \in Nat
      BY <1>2
    <3>2. d[k] = 2 * d[k - 1]
      BY <2>1 DEF IsDoubled
    <3> QED
      BY <3>1, <3>2
  <2>3. b[k] = BackoffOnFailure(b[k - 1])
    BY <2>1 DEF IsBackoff, CloneBackoff
  <2>4. b[k - 1] = [min_delay_ |-> min, max_delay_ |-> max, current_delay_ |-> Cut(d[k - 1])]
    BY <1>2
  <2>5. b[k] = [min_delay_ |-> min, max_delay_ |-> max,
                current_delay_ |-> IF 2 * Cut(d[k - 1]) > max THEN max ELSE 2 * Cut(d[k - 1])]
    <3> HIDE DEF Cut
    <3> QED  BY <2>3, <2>4 DEF BackoffOnFailure
  <2>6. (IF 2 * Cut(d[k - 1]) > max THEN max ELSE 2 * Cut(d[k - 1])) = Cut(d[k])
    BY <2>2
  <2>7. d[k] \in Nat
    BY <2>2
  <2> HIDE DEF Cut
  <2> QED
    BY <2>1, <2>5, <2>6, <2>7
<1>3. 0..MaxCalls \subseteq Good
  <2> HIDE DEF Good
  <2> QED  BY <1>1, <1>2, CallsAssumption, RangeInduction
<1>4. ASSUME NEW k \in 0..MaxCalls  PROVE BackoffDelay(b[k]) = Cut(d[k])
  <2>1. b[k] = [min_delay_ |-> min, max_delay_ |-> max, current_delay_ |-> Cut(d[k])]
    BY <1>3
  <2> HIDE DEF Cut
  <2> QED
    BY <2>1 DEF BackoffDelay
<1> QED
  BY <1>4

LEMMA ErrorsAreCounted ==
  ASSUME NEW max \in Nat, NEW e, IsErrors(e, max)
  PROVE  \A k \in 0..MaxCalls : ErrorsTryAgain(e[k]) <=> k < max
<1> DEFINE Good == {k \in 0..MaxCalls : e[k] = [maximum_count_ |-> max, current_count_ |-> k]}
<1>1. 0 \in Good
  BY CallsAssumption DEF IsErrors, LimitedErrors
<1>2. ASSUME NEW k \in 1..MaxCalls, k - 1 \in Good  PROVE k \in Good
  <2>1. k - 1 \in 0..MaxCalls /\ k \in 0..MaxCalls /\ k - 1 + 1 = k
    BY CallsAssumption
  <2>2. e[k] = ErrorsOnFailure(e[k - 1])
    BY <2>1 DEF IsErrors, CloneErrors
  <2>3. e[k - 1] = [maximum_count_ |-> max, current_count_ |-> k - 1]
    BY <1>2
  <2> QED
    BY <2>1, <2>2, <2>3 DEF ErrorsOnFailure
<1>3. 0..MaxCalls \subseteq Good
  <2> HIDE DEF Good
  <2> QED  BY <1>1, <1>2, CallsAssumption, RangeInduction
<1>4. ASSUME NEW k \in 0..MaxCalls  PROVE ErrorsTryAgain(e[k]) <=> k < max
  <2>1. e[k] = [maximum_count_ |-> max, current_count_ |-> k]
    BY <1>3
  <2> QED
    BY <2>1 DEF ErrorsTryAgain
<1> QED
  BY <1>4

\* For any number of failures and any limits: the delays are the powers of two of the
\* minimum cut at the maximum, and the limit of errors is exact.
THEOREM PoliciesAnswer == PolicyAnswers
<1>1. ASSUME NEW min \in 0..MaxCalls, NEW max \in 0..MaxCalls
      PROVE  LET b == CHOOSE f : IsBackoff(f, min, max)
                 d == CHOOSE f : IsDoubled(f, min)
                 e == CHOOSE f : IsErrors(f, max)
             IN  /\ ValidBackoff(b[0]) =>
                      \A k \in 0..MaxCalls :
                        BackoffDelay(b[k]) = IF d[k] < max THEN d[k] ELSE max
                 /\ ValidErrors(e[0]) => \A k \in 0..MaxCalls : ErrorsTryAgain(e[k]) <=> k < max
  <2> DEFINE b == CHOOSE f : IsBackoff(f, min, max)
             d == CHOOSE f : IsDoubled(f, min)
             e == CHOOSE f : IsErrors(f, max)
  <2>1. min \in Nat /\ max \in Nat
    BY CallsAssumption
  <2>2. IsBackoff(b, min, max)
    BY <2>1, BackoffExists
  <2>3. IsDoubled(d, min)
    BY <2>1, DoubledExists
  <2>4. IsErrors(e, max)
    BY <2>1, ErrorsExists
  <2> HIDE DEF b, d, e
  <2>5. b[0] = ExponentialBackoff(min, max)
    BY <2>2, CallsAssumption DEF IsBackoff
  <2>6. ValidBackoff(b[0]) => min <= max
    BY <2>5 DEF ValidBackoff, ExponentialBackoff
  <2>7. ValidBackoff(b[0]) =>
          \A k \in 0..MaxCalls : BackoffDelay(b[k]) = IF d[k] < max THEN d[k] ELSE max
    BY <2>1, <2>2, <2>3, <2>6, BackoffIsCut
  <2>8. \A k \in 0..MaxCalls : ErrorsTryAgain(e[k]) <=> k < max
    BY <2>1, <2>4, ErrorsAreCounted
  <2> QED
    BY <2>7, <2>8 DEF b, d, e
<1> QED
  BY <1>1 DEF PolicyAnswers, IsBackoff, IsDoubled, IsErrors

\* The pure functions compute what they are defined to compute, for every input.
THEOREM FunctionsAreRight == Spec => []PureFunctions
<1>1. AllInv => PureFunctions
  BY RangeOfPrefix, PoliciesAnswer DEF AllInv, PureFunctions
<1> QED
  BY <1>1, AllInvariance, PTL
=============================================================================
