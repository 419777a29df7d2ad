------------------------- MODULE ClusterMembership -------------------------
(***************************************************************************)
(* gh::detail::cluster_membership_impl: keeps the list of the client URLs  *)
(* of an etcd cluster.  A timer starts a refresh, the refresh asks the     *)
(* known URLs in order for the list of members until one gives an answer   *)
(* that is not empty, and then the timer is set again.                     *)
(*                                                                         *)
(* The callbacks run in the one thread of the completion queue, startup()  *)
(* and shutdown() in the application's.  refresh_timer_ has no lock: the   *)
(* loop creates a timer first and stores the pointer to it afterwards, and *)
(* shutdown() may come in between; and shutdown() tests the pointer before *)
(* it uses it, and the loop may reset it in between.  In startup() the     *)
(* timer and the pointer are one step: the interval is more than five      *)
(* seconds, which validate_arguments() checks.                             *)
(***************************************************************************)
EXTENDS Integers, FiniteSets, FiniteSetsExt, RpcPolicies

CONSTANTS
  Urls,          \* client URLs; numbers, since a std::set keeps them in order
  MinDelay,      \* the two bounds of the backoff policy
  MaxDelay,
  MaxFailures,   \* bound: RPCs to a member that fail, or that answer with no URL
  MaxChanges     \* bound: changes of the cluster

ASSUME MembershipAssumption ==
  /\ Urls \subseteq Nat /\ IsFiniteSet(Urls)
  /\ MinDelay \in Nat /\ MaxDelay \in Nat
  /\ ValidBackoff(ExponentialBackoff(MinDelay, MaxDelay))
  /\ MaxFailures \in Nat /\ MaxChanges \in Nat

VARIABLES
  member_urls_,    \* the URLs to ask
  refresh_timer_,  \* is the pointer set?
  unassigned,      \* does the loop hold a timer that it has not stored yet?
  timer,           \* the timer in the completion queue
  rpc,             \* the MemberList() request in the completion queue
  answer,          \* the URLs in its response
  left,            \* urls[i..]: the URL that is asked and those to ask after it
  backoff_,        \* *backoff_strategy_
  user,            \* what the application has done, or that it has crashed
  cluster,         \* external: the client URLs of the members
  failures,        \* external: how many requests to members have failed
  changes,         \* external: how often the cluster has changed
  firstUrls        \* history: the URLs given to the constructor

etcd == <<cluster, failures, changes>>
membershipVars == <<member_urls_, refresh_timer_, unassigned, timer, rpc, answer, left,
                    backoff_, user, etcd, firstUrls>>

\* The two constructors: one URL, or a list, which may be empty.
NewMembership(urls) ==
  /\ member_urls_ = urls /\ firstUrls = urls
  /\ backoff_ = ExponentialBackoff(MinDelay, MaxDelay)

MembershipInit ==
  /\ \E urls \in SUBSET Urls : NewMembership(urls)
  /\ refresh_timer_ = FALSE /\ unassigned = FALSE
  /\ timer = "none" /\ rpc = "none" /\ answer = {} /\ left = {}
  /\ user = "created"
  /\ cluster \in SUBSET Urls \ {{}}
  /\ failures = 0 /\ changes = 0

MembershipTypeOK ==
  /\ member_urls_ \subseteq Urls /\ firstUrls \subseteq Urls
  /\ refresh_timer_ \in BOOLEAN /\ unassigned \in BOOLEAN
  /\ timer \in {"none", "armed", "expired", "canceled"}
  /\ rpc \in {"none", "sent", "ok", "failed"}
  /\ answer \subseteq Urls /\ left \subseteq Urls
  /\ backoff_ \in [min_delay_ : {MinDelay}, max_delay_ : {MaxDelay},
                   current_delay_ : MinDelay..MaxDelay]
  /\ user \in {"created", "started", "stopping", "stopped", "crashed"}
  /\ cluster \in SUBSET Urls \ {{}}
  /\ failures \in 0..MaxFailures /\ changes \in 0..MaxChanges

-----------------------------------------------------------------------------
(* The application.                                                        *)

startup ==
  /\ user = "created"
  /\ user' = "started"
  /\ timer' = "armed" /\ refresh_timer_' = TRUE
  /\ UNCHANGED <<member_urls_, unassigned, rpc, answer, left, backoff_, etcd, firstUrls>>

\* shutdown(): without a timer there is nothing to cancel, and a refresh in progress is
\* not told ...
shutdown ==
  /\ user = "started"
  /\ user' = IF refresh_timer_ THEN "stopping" ELSE "stopped"
  /\ UNCHANGED <<member_urls_, refresh_timer_, unassigned, timer, rpc, answer, left,
                 backoff_, etcd, firstUrls>>

\* ... and with one it uses the pointer after the test.  A timer that has expired is not
\* affected.  If the loop has reset the pointer by now, shutdown() uses a null pointer, or,
\* when the build reads the pointer once only, the timer that has expired.
CancelTimer ==
  /\ user = "stopping"
  /\ \/ /\ refresh_timer_
        /\ timer' = IF timer = "armed" THEN "canceled" ELSE timer
        /\ user' = "stopped"
     \/ /\ ~refresh_timer_
        /\ user' \in {"stopped", "crashed"}
        /\ UNCHANGED timer
  /\ UNCHANGED <<member_urls_, refresh_timer_, unassigned, rpc, answer, left, backoff_,
                 etcd, firstUrls>>

-----------------------------------------------------------------------------
(* The callbacks.                                                          *)

\* reset_refresh_timer() in the loop, up to the assignment of the pointer.
reset_refresh_timer == timer' = "armed" /\ unassigned' = TRUE

\* Mutant: gives up for good when no URL is left.
TryQueryForgettingTimer(urls) ==
  /\ left' = urls
  /\ answer' = {}
  /\ rpc' = IF urls = {} THEN "none" ELSE "sent"
  /\ timer' = "none"
  /\ UNCHANGED <<backoff_, unassigned>>

\* try_query_cluster_membership(): asks the first of the URLs, or gives up until the
\* next refresh.  The delay that on_failure() returns is not used.
try_query_cluster_membership(urls) ==
  /\ left' = urls
  /\ answer' = {}
  /\ \/ /\ urls = {}
        /\ backoff_' = BackoffOnFailure(backoff_)
        /\ reset_refresh_timer /\ rpc' = "none"
     \/ /\ urls # {}
        /\ rpc' = "sent" /\ timer' = "none"
        /\ UNCHANGED <<backoff_, unassigned>>

on_refresh_expired ==
  /\ timer \in {"expired", "canceled"} /\ ~unassigned
  /\ refresh_timer_' = FALSE
  /\ \/ /\ timer = "canceled"
        /\ timer' = "none"
        /\ UNCHANGED <<rpc, answer, left, backoff_, unassigned>>
     \/ timer = "expired" /\ try_query_cluster_membership(member_urls_)
  /\ UNCHANGED <<member_urls_, user, etcd, firstUrls>>

\* Mutant: only the first URL is asked.
NoMoreUrls == {}

\* urls[i + 1..]
NextUrls == left \ {Min(left)}

\* on_member_list_response(): a failure or an empty list makes it ask the next URL;
\* otherwise the new list replaces the old one.
on_member_list_response ==
  /\ rpc \in {"ok", "failed"}
  /\ \/ /\ rpc = "failed" \/ answer = {}
        /\ try_query_cluster_membership(NextUrls)
        /\ UNCHANGED member_urls_
     \/ /\ rpc = "ok" /\ answer # {}
        /\ member_urls_' = answer
        /\ rpc' = "none" /\ answer' = {} /\ left' = {}
        /\ reset_refresh_timer
        /\ UNCHANGED backoff_
  /\ UNCHANGED <<refresh_timer_, user, etcd, firstUrls>>

\* The last step of reset_refresh_timer(): the loop stores the pointer.
StoreTimer ==
  /\ unassigned
  /\ unassigned' = FALSE /\ refresh_timer_' = TRUE
  /\ UNCHANGED <<member_urls_, timer, rpc, answer, left, backoff_, user, etcd, firstUrls>>

-----------------------------------------------------------------------------
(* gRPC and etcd.                                                          *)

Expire ==
  /\ timer = "armed"
  /\ timer' = "expired"
  /\ UNCHANGED <<member_urls_, refresh_timer_, unassigned, rpc, answer, left, backoff_,
                 user, etcd, firstUrls>>

\* A member answers with the list it knows; the cluster may have changed when the
\* callback runs.
Answer ==
  /\ rpc = "sent" /\ Min(left) \in cluster
  /\ rpc' = "ok" /\ answer' = cluster
  /\ UNCHANGED <<member_urls_, refresh_timer_, unassigned, timer, left, backoff_, user,
                 etcd, firstUrls>>

\* Nobody serves the URL any more.
Unreachable ==
  /\ rpc = "sent" /\ Min(left) \notin cluster
  /\ rpc' = "failed"
  /\ UNCHANGED <<member_urls_, refresh_timer_, unassigned, timer, answer, left, backoff_,
                 user, etcd, firstUrls>>

\* The RPC to a member fails, or the member does not know any URL.
Fail ==
  /\ rpc = "sent" /\ Min(left) \in cluster
  /\ failures < MaxFailures
  /\ failures' = failures + 1
  /\ rpc' \in {"ok", "failed"}
  /\ UNCHANGED <<member_urls_, refresh_timer_, unassigned, timer, answer, left, backoff_,
                 user, cluster, changes, firstUrls>>

Reconfigure ==
  /\ changes < MaxChanges
  /\ cluster' \in SUBSET Urls \ {{}, cluster}
  /\ changes' = changes + 1
  /\ UNCHANGED <<member_urls_, refresh_timer_, unassigned, timer, rpc, answer, left,
                 backoff_, user, failures, firstUrls>>

\* After a crash nothing moves any more.
Alive == user # "crashed"

MembershipNext ==
  Alive /\ \/ startup \/ shutdown \/ CancelTimer
           \/ on_refresh_expired \/ on_member_list_response \/ StoreTimer
           \/ Expire \/ Answer \/ Unreachable \/ Fail \/ Reconfigure

\* The loop runs callbacks as operations complete; a timer expires and an RPC ends.
MembershipFairness ==
  /\ WF_membershipVars(Alive /\ (on_refresh_expired \/ on_member_list_response))
  /\ WF_membershipVars(Alive /\ StoreTimer)
  /\ WF_membershipVars(Alive /\ Expire)
  /\ WF_membershipVars(Alive /\ (Answer \/ Unreachable))

MembershipSpec == MembershipInit /\ [][MembershipNext]_membershipVars /\ MembershipFairness

-----------------------------------------------------------------------------
(* Properties.                                                             *)

\* Exactly one operation, a timer or a request, carries the refresh on while the
\* membership is in use, whatever fails: the chain is neither lost nor doubled.
OneRefresh ==
  /\ timer = "none" \/ rpc = "none"
  /\ user = "started" => timer # "none" \/ rpc # "none"

\* shutdown() can cancel every timer that waits: refresh_timer_ leads to it, except in
\* the moment in which the loop has created it and not stored it yet.
TimerIsReachable == timer = "armed" /\ ~unassigned => refresh_timer_

\* on_member_list_response() never leaves the membership without anyone to ask.
KeepsKnowing == firstUrls # {} => member_urls_ # {}

\* The refresh goes on until shutdown(): one operation carries it, there is somebody to
\* ask, and a timer that waits is the one refresh_timer_ leads to.  That shutdown() stops
\* the refresh is not claimed: it does not while a request is in flight.
RefreshGoesOn == OneRefresh /\ TimerIsReachable /\ KeepsKnowing

\* When some known URL belongs to a member, the known URLs become those of the cluster,
\* although requests fail and answers are out of date; unless the application calls
\* shutdown(), or all members it knows leave first.
FollowsCluster ==
  user = "started" /\ member_urls_ \cap cluster # {}
    ~> member_urls_ = cluster \/ member_urls_ \cap cluster = {} \/ user # "started"
=============================================================================
