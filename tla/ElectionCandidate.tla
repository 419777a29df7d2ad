-------------------------- MODULE ElectionCandidate --------------------------
(***************************************************************************)
(* gh::detail::election_candidate_impl: several candidates of one election,*)
(* each a process with an application thread (campaign, proclaim, resign,  *)
(* the destructor) and a completion queue thread that runs its callbacks,  *)
(* and the etcd server they share.                                         *)
(*                                                                         *)
(* A candidate writes a node under the election's prefix, attached to its  *)
(* lease; etcd stamps it with a creation revision.  The candidate then     *)
(* repeats: find the node with the largest creation revision below its     *)
(* own, watch it until it is deleted, and look again.  It is elected when  *)
(* there is no such node.                                                  *)
(*                                                                         *)
(* Granularity: a critical section is a step, of a callback as of the      *)
(* application thread.  In between, where a callback has reported its      *)
(* operation as done and has not started the next one, the application     *)
(* thread may act, and even destroy the object; the callback then goes on  *)
(* as if the memory were still its own.  A blocking call is one step, and  *)
(* every request to etcd takes effect in a step of its own, before its     *)
(* completion is handled.  async_op_tracer brackets calls in which the     *)
(* application thread itself blocks; it is never alive while that thread   *)
(* waits in block_until_all_done(), so ops_ counts the callbacks'          *)
(* operations only.                                                        *)
(***************************************************************************)
EXTENDS Integers, FiniteSets

CONSTANTS
  Candidates,   \* the participants; each has one lease, hence one key
  Values,       \* what a candidate may publish in its node
  MaxRevision,  \* bound: etcd's revision stops here
  MaxRestarts,  \* bound: how often a process comes back with the same lease
  Restarters,   \* the candidates whose process may die and come back
  Quitters,     \* the candidates whose application resigns or destroys them
  Proclaimers,  \* the candidates whose application calls proclaim()
  Compactions,  \* may the administrators compact etcd's history?
  Failures      \* may RPCs and streams fail?

NoKey == "no key"
NoValue == "no value"

ASSUME CandidateAssumption ==
  /\ MaxRevision \in Nat
  /\ MaxRestarts \in Nat
  /\ Restarters \subseteq Candidates
  /\ Quitters \subseteq Candidates
  /\ Proclaimers \subseteq Candidates
  /\ Compactions \in BOOLEAN
  /\ Failures \in BOOLEAN
  /\ NoKey \notin Candidates
  /\ NoValue \notin Values

VARIABLES
  \* The etcd server.
  revision,    \* of the store, incremented by every write
  compacted,   \* revisions below this one are gone
  createRev,   \* createRev[c]: create revision of c's node, 0 if there is none
  value,       \* value[c]: what c's node holds
  events,      \* every change of a node, with its revision
  lease,       \* lease[c]: is c's lease valid?
  watches,     \* watches[c]: the watchers on c's watch stream
  \* The candidate object.
  creation_revision_, candidate_value_, watched_keys_, current_watches_,
  elected_, promise_,
  stream,      \* stream[c]: state of watcher_stream_
  async,       \* async[c]: the operation whose callback continues the campaign
  ops_, opsShutdown, reads_, readsShutdown,
  \* The application thread.
  app,         \* app[c]: the call the application thread is in
  tocancel,    \* watches that resign() still has to cancel
  cancels,     \* watches whose cancellation resign() is writing
  restarts     \* restarts so far

etcd == <<revision, compacted, createRev, value, events, lease>>
campaignVars == <<creation_revision_, candidate_value_, watched_keys_>>
result == <<elected_, promise_>>
counters == <<ops_, opsShutdown, reads_, readsShutdown>>
resigning == <<tocancel, cancels>>
vars == <<etcd, watches, campaignVars, current_watches_, result, stream, async,
          counters, app, resigning, restarts>>

-----------------------------------------------------------------------------
(* Types.                                                                  *)

WatchIds == [key : Candidates, start : Nat]

\* A watcher: its identity, the first revision it has not reported yet, how far
\* the server is with it, and whether its start revision was compacted.
Watches == [id : WatchIds, next : Nat,
            state : {"requested", "served", "active", "cancelled"}, lost : BOOLEAN]

Events == [rev : Nat, type : {"PUT", "DELETE"}, key : Candidates]

\* "range" is sent, "reply" is its answer waiting for on_range_request(), "write"
\* is a Write() that creates a watch, "read" is a Read() on the watch stream.  The
\* others are callbacks between two critical sections: "range_done" and "write_done"
\* have reported their operation, "read_on" is about to start the next Read(),
\* "query" to enter query_predecessor(), "ask" to send its Range().
Asyncs ==
  [kind : {"none", "range", "read", "write_done", "read_on", "query", "ask"},
   key : {NoKey}, rev : {0}]
    \cup [kind : {"reply", "range_done"}, key : Candidates \cup {NoKey}, rev : Nat]
    \cup [kind : {"write"}, key : Candidates, rev : Nat]

AppStates ==
  {"new", "create_node", "publish_value", "query_predecessor", "campaigning",
   "aborted", "cancel_watches", "drain_reads", "writes_done", "finish", "resigned",
   "resign_failed", "cleanup_ops", "cleanup_reads", "destroyed", "crashed"}

\* The application is between two calls on the candidate.
Ready == {"new", "campaigning", "aborted", "resigned", "resign_failed"}

Idle == [kind |-> "none", key |-> NoKey, rev |-> 0]
Range == [kind |-> "range", key |-> NoKey, rev |-> 0]
Reply(p, r) == [kind |-> "reply", key |-> p, rev |-> r]
Write(p, r) == [kind |-> "write", key |-> p, rev |-> r]
Read == [kind |-> "read", key |-> NoKey, rev |-> 0]
RangeDone(p, r) == [kind |-> "range_done", key |-> p, rev |-> r]
WriteDone == [kind |-> "write_done", key |-> NoKey, rev |-> 0]
ReadOn == [kind |-> "read_on", key |-> NoKey, rev |-> 0]
Query == [kind |-> "query", key |-> NoKey, rev |-> 0]
Ask == [kind |-> "ask", key |-> NoKey, rev |-> 0]

Init ==
  /\ revision = 1
  /\ compacted = 0
  /\ createRev = [c \in Candidates |-> 0]
  /\ value = [c \in Candidates |-> NoValue]
  /\ events = {}
  /\ lease = [c \in Candidates |-> TRUE]
  /\ watches = [c \in Candidates |-> {}]
  /\ creation_revision_ = [c \in Candidates |-> 0]
  /\ candidate_value_ \in [Candidates -> Values]
  /\ watched_keys_ = [c \in Candidates |-> {}]
  /\ current_watches_ = [c \in Candidates |-> {}]
  /\ elected_ = [c \in Candidates |-> FALSE]
  /\ promise_ = [c \in Candidates |-> "unset"]
  /\ stream = [c \in Candidates |-> "none"]
  /\ async = [c \in Candidates |-> Idle]
  /\ ops_ = [c \in Candidates |-> 0]
  /\ opsShutdown = [c \in Candidates |-> FALSE]
  /\ reads_ = [c \in Candidates |-> 0]
  /\ readsShutdown = [c \in Candidates |-> FALSE]
  /\ app = [c \in Candidates |-> "new"]
  /\ tocancel = [c \in Candidates |-> {}]
  /\ cancels = [c \in Candidates |-> {}]
  /\ restarts = 0

-----------------------------------------------------------------------------
(* The etcd server: transactions, leases, compaction, watchers.            *)

Exists(c) == createRev[c] # 0

\* Put: the node is created, or keeps its create revision and changes its value.
Put(c, v) ==
  /\ revision < MaxRevision
  /\ revision' = revision + 1
  /\ createRev' = [createRev EXCEPT ![c] = IF @ = 0 THEN revision + 1 ELSE @]
  /\ value' = [value EXCEPT ![c] = v]
  /\ events' = events \cup {[rev |-> revision + 1, type |-> "PUT", key |-> c]}
  /\ UNCHANGED <<compacted, lease>>

\* The node, if there is one, is deleted.
Delete(c) ==
  IF Exists(c)
  THEN /\ revision < MaxRevision
       /\ revision' = revision + 1
       /\ createRev' = [createRev EXCEPT ![c] = 0]
       /\ value' = [value EXCEPT ![c] = NoValue]
       /\ events' = events \cup {[rev |-> revision + 1, type |-> "DELETE", key |-> c]}
  ELSE UNCHANGED <<revision, createRev, value, events>>

\* The lease expires, or the session revokes it: the node goes with it.
LeaseEnd(c) ==
  /\ lease[c]
  /\ Delete(c)
  /\ lease' = [lease EXCEPT ![c] = FALSE]
  /\ UNCHANGED <<compacted, watches, campaignVars, current_watches_, result, stream,
                 async, counters, app, resigning, restarts>>

Compact ==
  /\ Compactions
  /\ \E r \in (compacted + 1)..revision : compacted' = r
  /\ UNCHANGED <<revision, createRev, value, events, lease, watches, campaignVars,
                 current_watches_, result, stream, async, counters, app, resigning,
                 restarts>>

\* Mutant of Older: max_create_revision is one too low.
OlderByTwo(c) == {d \in Candidates : Exists(d) /\ createRev[d] < creation_revision_[c] - 1}

\* The nodes query_predecessor() asks for: those older than the candidate's, ...
Older(c) == {d \in Candidates : Exists(d) /\ createRev[d] <= creation_revision_[c] - 1}

\* ... in descending order of creation, limited to the first.
Predecessor(c) ==
  {d \in Older(c) : \A e \in Older(c) : createRev[e] <= createRev[d]}

\* The Range() takes effect: the answer holds a key or none, and the revision.
ServeRange(c) ==
  /\ async[c].kind = "range"
  /\ \/ /\ Older(c) = {}
        /\ async' = [async EXCEPT ![c] = Reply(NoKey, revision)]
     \/ \E p \in Predecessor(c) : async' = [async EXCEPT ![c] = Reply(p, revision)]
  /\ UNCHANGED <<etcd, watches, campaignVars, current_watches_, result, stream, counters,
                 app, resigning, restarts>>

\* The server takes up a request to watch; its start may be compacted by then.
ServeWatch(c) ==
  /\ stream[c] = "open"
  /\ \E w \in watches[c] :
       /\ w.state = "requested"
       /\ watches' = [watches EXCEPT ![c] = (@ \ {w}) \cup
            {[w EXCEPT !.state = "served", !.lost = (w.id.start < compacted)]}]
  /\ UNCHANGED <<etcd, campaignVars, current_watches_, result, stream, async, counters,
                 app, resigning, restarts>>

\* The connection that carries the watch stream is lost.
StreamBreaks(c) ==
  /\ Failures /\ stream[c] = "open"
  /\ stream' = [stream EXCEPT ![c] = "cancelled"]
  /\ UNCHANGED <<etcd, watches, campaignVars, current_watches_, result, async, counters,
                 app, resigning, restarts>>

-----------------------------------------------------------------------------
(* The application thread: campaign() and proclaim().                      *)

\* campaign() up to the creation of the watch stream, which may fail.
Campaign(c) ==
  /\ app[c] = "new"
  /\ \/ /\ stream' = [stream EXCEPT ![c] = "open"]
        /\ app' = [app EXCEPT ![c] = "create_node"]
     \/ /\ Failures
        /\ app' = [app EXCEPT ![c] = "aborted"]
        /\ UNCHANGED stream
  /\ UNCHANGED <<etcd, watches, campaignVars, current_watches_, result, async, counters,
                 resigning, restarts>>

\* create_node() when the key does not exist: the transaction creates it.
CreateNode(c) ==
  /\ app[c] = "create_node" /\ lease[c] /\ ~Exists(c)
  /\ Put(c, candidate_value_[c])
  /\ creation_revision_' = [creation_revision_ EXCEPT ![c] = revision + 1]
  /\ app' = [app EXCEPT ![c] = "query_predecessor"]
  /\ UNCHANGED <<watches, candidate_value_, watched_keys_, current_watches_, result,
                 stream, async, counters, resigning, restarts>>

\* Mutant of AdoptNode: the value of the former instance stays.
AdoptNodeKeepingValue(c) ==
  /\ app[c] = "create_node" /\ Exists(c)
  /\ creation_revision_' = [creation_revision_ EXCEPT ![c] = createRev[c]]
  /\ app' = [app EXCEPT ![c] = "query_predecessor"]
  /\ UNCHANGED <<etcd, watches, candidate_value_, watched_keys_, current_watches_, result,
                 stream, async, counters, resigning, restarts>>

\* create_node() when an earlier instance left the key behind: adopt its creation
\* revision, and publish the value unless it is the same.
AdoptNode(c) ==
  /\ app[c] = "create_node" /\ Exists(c)
  /\ creation_revision_' = [creation_revision_ EXCEPT ![c] = createRev[c]]
  /\ app' = [app EXCEPT ![c] =
       IF value[c] = candidate_value_[c] THEN "query_predecessor" ELSE "publish_value"]
  /\ UNCHANGED <<etcd, watches, candidate_value_, watched_keys_, current_watches_, result,
                 stream, async, counters, resigning, restarts>>

\* The transaction of create_node() throws: the lease is gone, or the RPC failed,
\* in which case the server may have executed it all the same.
CreateNodeThrows(c) ==
  /\ app[c] = "create_node"
  /\ \/ ~Exists(c) /\ ~lease[c] /\ UNCHANGED etcd
     \/ Failures /\ UNCHANGED etcd
     \/ Failures /\ lease[c] /\ ~Exists(c) /\ Put(c, candidate_value_[c])
  /\ app' = [app EXCEPT ![c] = "aborted"]
  /\ UNCHANGED <<watches, campaignVars, current_watches_, result, stream, async, counters,
                 resigning, restarts>>

\* The node publish_value() compares with: same key, same creation revision.
OwnNode(c) == createRev[c] = creation_revision_[c]

\* publish_value() in create_node(): write the value, or delete the key and throw.
\* When the RPC fails it throws too, and the server may have executed it all the same.
PublishValue(c) ==
  /\ app[c] = "publish_value"
  /\ \/ /\ OwnNode(c) /\ lease[c]
        /\ Put(c, candidate_value_[c])
        /\ app' = [app EXCEPT ![c] = "query_predecessor"]
     \/ /\ ~OwnNode(c)
        /\ Delete(c)
        /\ app' = [app EXCEPT ![c] = "aborted"]
        /\ UNCHANGED <<compacted, lease>>
     \/ /\ Failures
        /\ \/ UNCHANGED etcd
           \/ OwnNode(c) /\ lease[c] /\ Put(c, candidate_value_[c])
        /\ app' = [app EXCEPT ![c] = "aborted"]
  /\ UNCHANGED <<watches, campaignVars, current_watches_, result, stream, async, counters,
                 resigning, restarts>>

\* query_predecessor() on the application thread, and campaign() returns.
QueryPredecessor(c) ==
  /\ app[c] = "query_predecessor"
  /\ ops_' = [ops_ EXCEPT ![c] = @ + 1]
  /\ async' = [async EXCEPT ![c] = Range]
  /\ app' = [app EXCEPT ![c] = "campaigning"]
  /\ UNCHANGED <<etcd, watches, campaignVars, current_watches_, result, stream,
                 opsShutdown, reads_, readsShutdown, resigning, restarts>>

\* proclaim(): publish_value() without a failure operation.  It throws, and
\* candidate_value_ stays, when the comparison or the RPC fails.
Proclaim(c, v) ==
  /\ c \in Proclaimers /\ app[c] \in Ready /\ OwnNode(c) /\ lease[c]
  /\ Put(c, v)
  /\ \/ candidate_value_' = [candidate_value_ EXCEPT ![c] = v]
     \/ Failures /\ UNCHANGED candidate_value_
  /\ UNCHANGED <<watches, creation_revision_, watched_keys_, current_watches_, result,
                 stream, async, counters, app, resigning, restarts>>

-----------------------------------------------------------------------------
(* The completion queue thread: the callbacks that drive the campaign.     *)

\* election_result(): the promise keeps the first result.
ElectionResult(c, r) ==
  /\ elected_' = [elected_ EXCEPT ![c] = r]
  /\ promise_' = [promise_ EXCEPT ![c] =
       IF @ # "unset" THEN @ ELSE IF r THEN "elected" ELSE "not elected"]

\* Mutant of WatchStart: the watch starts after the first deletion it could report.
WatchStartTooLate(c) == async[c].rev + 2

\* A watch starts at the revision of the Range() that found the predecessor.
WatchStart(c) == async[c].rev

\* check_election_over_maybe(): elected, unless a key is still waited for.
CheckElectionOverMaybe(c) ==
  IF watched_keys_[c] = {} THEN ElectionResult(c, TRUE) ELSE UNCHANGED result

\* on_range_request() with an answer reports the operation as done.
OnRangeRequest(c) ==
  /\ async[c].kind = "reply"
  /\ ops_' = [ops_ EXCEPT ![c] = @ - 1]
  /\ async' = [async EXCEPT ![c] = RangeDone(async[c].key, async[c].rev)]
  /\ UNCHANGED <<etcd, watches, campaignVars, current_watches_, result, stream,
                 opsShutdown, reads_, readsShutdown, app, resigning, restarts>>

\* The rest of on_range_request().  A predecessor is remembered and a watch on it is
\* written to the stream, unless the candidate is shutting down; with none
\* check_election_over_maybe() decides.
WatchPredecessor(c) ==
  /\ async[c].kind = "range_done"
  /\ \/ /\ async[c].key = NoKey
        /\ CheckElectionOverMaybe(c)
        /\ async' = [async EXCEPT ![c] = Idle]
        /\ UNCHANGED <<watched_keys_, ops_>>
     \/ /\ async[c].key # NoKey /\ opsShutdown[c]
        /\ async' = [async EXCEPT ![c] = Idle]
        /\ UNCHANGED <<watched_keys_, ops_, result>>
     \/ /\ async[c].key # NoKey /\ ~opsShutdown[c]
        /\ ops_' = [ops_ EXCEPT ![c] = @ + 1]
        /\ watched_keys_' = [watched_keys_ EXCEPT ![c] = @ \cup {async[c].key}]
        /\ async' = [async EXCEPT ![c] = Write(async[c].key, WatchStart(c))]
        /\ UNCHANGED result
  /\ UNCHANGED <<etcd, watches, creation_revision_, candidate_value_, current_watches_,
                 stream, opsShutdown, reads_, readsShutdown, app, resigning, restarts>>

\* on_range_request() with ok == false: the counter is not decremented.
OnRangeCancelled(c) ==
  /\ Failures /\ async[c].kind \in {"range", "reply"}
  /\ ElectionResult(c, FALSE)
  /\ async' = [async EXCEPT ![c] = Idle]
  /\ UNCHANGED <<etcd, watches, campaignVars, current_watches_, stream, counters, app,
                 resigning, restarts>>

\* Mutant of OnWatchCreate: async_op_done() is missing.
OnWatchCreateWithoutDone(c) ==
  /\ async[c].kind = "write"
  /\ async' = [async EXCEPT ![c] = IF stream[c] # "open" THEN Idle ELSE WriteDone]
  /\ UNCHANGED <<etcd, watches, campaignVars, current_watches_, result, stream, counters,
                 app, resigning, restarts>>

\* on_watch_create() reports the Write() as done.  With ok == true the request is on
\* its way to the server, whatever became of the stream since.
OnWatchCreate(c) ==
  LET id == [key |-> async[c].key, start |-> async[c].rev]
  IN
  /\ async[c].kind = "write"
  /\ ops_' = [ops_ EXCEPT ![c] = @ - 1]
  /\ \/ /\ watches' = [watches EXCEPT ![c] = @ \cup
             {[id |-> id, next |-> id.start, state |-> "requested", lost |-> FALSE]}]
        /\ async' = [async EXCEPT ![c] = WriteDone]
     \/ /\ stream[c] # "open"
        /\ async' = [async EXCEPT ![c] = Idle]
        /\ UNCHANGED watches
  /\ UNCHANGED <<etcd, campaignVars, current_watches_, result, stream, opsShutdown,
                 reads_, readsShutdown, app, resigning, restarts>>

\* Mutant of StartRead: the next Read() is missing.
StartReadOnce(c) ==
  /\ async[c].kind \in {"write_done", "read_on"}
  /\ reads_' = [reads_ EXCEPT ![c] = IF async[c].kind = "read_on" THEN @ ELSE @ + 1]
  /\ async' = [async EXCEPT ![c] = IF async[c].kind = "read_on" THEN Idle ELSE Read]
  /\ UNCHANGED <<etcd, watches, campaignVars, current_watches_, result, stream, ops_,
                 opsShutdown, readsShutdown, app, resigning, restarts>>

\* The rest of on_watch_create(), or of on_watch_read() when it goes on reading.
StartRead(c) ==
  /\ async[c].kind \in {"write_done", "read_on"}
  /\ reads_' = [reads_ EXCEPT ![c] = IF readsShutdown[c] THEN @ ELSE @ + 1]
  /\ async' = [async EXCEPT ![c] = IF readsShutdown[c] THEN Idle ELSE Read]
  /\ UNCHANGED <<etcd, watches, campaignVars, current_watches_, result, stream, ops_,
                 opsShutdown, readsShutdown, app, resigning, restarts>>

\* query_predecessor() at the end of a callback: the campaign is over if the
\* candidate is shutting down, ...
QueryAgain(c) ==
  /\ async[c].kind = "query"
  /\ \/ /\ opsShutdown[c]
        /\ ElectionResult(c, FALSE)
        /\ async' = [async EXCEPT ![c] = Idle]
     \/ /\ ~opsShutdown[c]
        /\ async' = [async EXCEPT ![c] = Ask]
        /\ UNCHANGED result
  /\ UNCHANGED <<etcd, watches, campaignVars, current_watches_, stream, counters, app,
                 resigning, restarts>>

\* ... otherwise it asks etcd again.  The result of async_op_start() is ignored: the
\* Range() is sent although the candidate may be shutting down by now.
AskAgain(c) ==
  /\ async[c].kind = "ask"
  /\ ops_' = [ops_ EXCEPT ![c] = IF opsShutdown[c] THEN @ ELSE @ + 1]
  /\ async' = [async EXCEPT ![c] = Range]
  /\ UNCHANGED <<etcd, watches, campaignVars, current_watches_, result, stream,
                 opsShutdown, reads_, readsShutdown, app, resigning, restarts>>

\* Mutant of ReadTail: elected once the watched key is gone, without another search.
ReadTailElected(c, canceled) ==
  /\ reads_' = [reads_ EXCEPT ![c] = @ - 1]
  /\ \/ /\ canceled \/ watched_keys_'[c] = {}
        /\ ElectionResult(c, TRUE)
        /\ async' = [async EXCEPT ![c] = Idle]
     \/ /\ ~canceled /\ watched_keys_'[c] # {}
        /\ async' = [async EXCEPT ![c] = ReadOn]
        /\ UNCHANGED result

\* on_watch_read() has reported the Read() as done and has brought watched_keys_ and
\* current_watches_ up to date: look for a predecessor when the watcher was canceled
\* or nothing is left to wait for, else read on.
ReadTail(c, canceled) ==
  /\ reads_' = [reads_ EXCEPT ![c] = @ - 1]
  /\ async' = [async EXCEPT ![c] =
       IF canceled \/ watched_keys_'[c] = {} THEN Query ELSE ReadOn]
  /\ UNCHANGED result

\* on_watch_read() of the response that announces a new watcher.
OnWatchCreated(c) ==
  /\ async[c].kind = "read"
  /\ \E w \in watches[c] :
       /\ w.state = "served"
       /\ current_watches_' = [current_watches_ EXCEPT ![c] = @ \cup {w.id}]
       /\ watches' = [watches EXCEPT ![c] = (@ \ {w}) \cup {[w EXCEPT !.state = "active"]}]
  /\ UNCHANGED watched_keys_
  /\ ReadTail(c, FALSE)
  /\ UNCHANGED <<etcd, creation_revision_, candidate_value_, stream, ops_,
                 opsShutdown, readsShutdown, app, resigning, restarts>>

\* The changes of the watched node from w.next up to revision r, in one response.
EventsOf(w, r) == {e \in events : e.key = w.id.key /\ e.rev \in w.next..r}

\* on_watch_read() of a response with events: a node that was deleted is no
\* longer waited for, other events are ignored.  The code takes the key from the
\* previous value of the node, which etcd leaves out if it is compacted.
OnWatchEvents(c) ==
  /\ async[c].kind = "read"
  /\ \E w \in watches[c], r \in 1..revision :
       /\ w.state = "active" /\ ~w.lost
       /\ EventsOf(w, r) # {}
       /\ watches' = [watches EXCEPT ![c] = (@ \ {w}) \cup {[w EXCEPT !.next = r + 1]}]
       /\ watched_keys_' = [watched_keys_ EXCEPT ![c] =
            @ \ {e.key : e \in {f \in EventsOf(w, r) :
                            f.type = "DELETE" /\ f.rev - 1 >= compacted}}]
  /\ UNCHANGED current_watches_
  /\ ReadTail(c, FALSE)
  /\ UNCHANGED <<etcd, creation_revision_, candidate_value_, stream, ops_,
                 opsShutdown, readsShutdown, app, resigning, restarts>>

\* on_watch_read() of the response that ends a watcher, because resign() canceled
\* it or because its start revision was compacted.
OnWatchCanceled(c) ==
  /\ async[c].kind = "read"
  /\ \E w \in watches[c] :
       /\ w.state = "cancelled" \/ (w.state = "active" /\ w.lost)
       /\ current_watches_' = [current_watches_ EXCEPT ![c] = @ \ {w.id}]
       /\ watches' = [watches EXCEPT ![c] = @ \ {w}]
  /\ UNCHANGED watched_keys_
  /\ ReadTail(c, TRUE)
  /\ UNCHANGED <<etcd, creation_revision_, candidate_value_, stream, ops_,
                 opsShutdown, readsShutdown, app, resigning, restarts>>

\* on_watch_read() with ok == false: the campaign just stops.
OnWatchReadFails(c) ==
  /\ async[c].kind = "read" /\ stream[c] # "open"
  /\ reads_' = [reads_ EXCEPT ![c] = @ - 1]
  /\ async' = [async EXCEPT ![c] = Idle]
  /\ UNCHANGED <<etcd, watches, campaignVars, current_watches_, result, stream, ops_,
                 opsShutdown, readsShutdown, app, resigning, restarts>>

-----------------------------------------------------------------------------
(* The application thread: resign() and the destructor.                    *)

\* resign() takes over the watches it knows; without a stream it just returns.
Resign(c) ==
  /\ c \in Quitters /\ app[c] \in Ready \ {"new"} /\ stream[c] # "none"
  /\ tocancel' = [tocancel EXCEPT ![c] = current_watches_[c]]
  /\ current_watches_' = [current_watches_ EXCEPT ![c] = {}]
  /\ app' = [app EXCEPT ![c] = "cancel_watches"]
  /\ UNCHANGED <<etcd, watches, campaignVars, result, stream, async, counters, cancels,
                 restarts>>

\* One turn of the loop: Write() the cancellation of a watch, do not wait for it.
CancelWatch(c) ==
  /\ app[c] = "cancel_watches"
  /\ \E i \in tocancel[c] :
       /\ tocancel' = [tocancel EXCEPT ![c] = @ \ {i}]
       /\ cancels' = [cancels EXCEPT ![c] = @ \cup {i}]
  /\ UNCHANGED <<etcd, watches, campaignVars, current_watches_, result, stream, async,
                 counters, app, restarts>>

\* on_watch_cancel(); the server, if it can be reached, ends the watcher.
OnWatchCancel(c) ==
  /\ \E i \in cancels[c] :
       /\ cancels' = [cancels EXCEPT ![c] = @ \ {i}]
       /\ watches' = [watches EXCEPT ![c] =
            {IF w.id = i /\ stream[c] = "open" THEN [w EXCEPT !.state = "cancelled"] ELSE w :
               w \in @}]
  /\ UNCHANGED <<etcd, campaignVars, current_watches_, result, stream, async, counters,
                 app, tocancel, restarts>>

\* cancels.block_until_all_done() returns, the stream is cancelled and no new Read()
\* may start: reads_.block_until_all_done() is entered.
CancelStream(c) ==
  /\ app[c] = "cancel_watches" /\ tocancel[c] = {} /\ cancels[c] = {}
  /\ stream' = [stream EXCEPT ![c] = IF @ = "open" THEN "cancelled" ELSE @]
  /\ readsShutdown' = [readsShutdown EXCEPT ![c] = TRUE]
  /\ app' = [app EXCEPT ![c] = "drain_reads"]
  /\ UNCHANGED <<etcd, watches, campaignVars, current_watches_, result, async, ops_,
                 opsShutdown, reads_, resigning, restarts>>

\* reads_.block_until_all_done() returns and WritesDone() is started.
DrainReads(c) ==
  /\ app[c] = "drain_reads" /\ reads_[c] = 0
  /\ app' = [app EXCEPT ![c] = "writes_done"]
  /\ UNCHANGED <<etcd, watches, campaignVars, current_watches_, result, stream, async,
                 counters, resigning, restarts>>

\* WritesDone() completes and Finish() is started, or resign() throws.
WritesDone(c) ==
  /\ app[c] = "writes_done"
  /\ \/ app' = [app EXCEPT ![c] = "finish"]
     \/ stream[c] # "open" /\ app' = [app EXCEPT ![c] = "resign_failed"]
  /\ UNCHANGED <<etcd, watches, campaignVars, current_watches_, result, stream, async,
                 counters, resigning, restarts>>

\* Finish() completes and resign() reports that the candidate was not elected, or
\* it throws.
Finish(c) ==
  /\ app[c] = "finish"
  /\ \/ /\ app' = [app EXCEPT ![c] = "resigned"]
        /\ ElectionResult(c, FALSE)
     \/ /\ Failures /\ app' = [app EXCEPT ![c] = "resign_failed"]
        /\ UNCHANGED result
  /\ stream' = [stream EXCEPT ![c] = "finished"]
  /\ UNCHANGED <<etcd, watches, campaignVars, current_watches_, async, counters,
                 resigning, restarts>>

\* Mutant of Cleanup: the wait for ops_ is missing.
CleanupWithoutWaiting(c) ==
  /\ c \in Quitters /\ app[c] \in Ready
  /\ stream' = [stream EXCEPT ![c] = IF @ = "open" THEN "cancelled" ELSE @]
  /\ opsShutdown' = [opsShutdown EXCEPT ![c] = TRUE]
  /\ readsShutdown' = [readsShutdown EXCEPT ![c] = TRUE]
  /\ app' = [app EXCEPT ![c] = "cleanup_reads"]
  /\ UNCHANGED <<etcd, watches, campaignVars, current_watches_, result, async, ops_,
                 reads_, resigning, restarts>>

\* The destructor calls cleanup(): cancel the stream and call
\* ops_.block_until_all_done(), which waits if an operation is pending ...
Cleanup(c) ==
  /\ c \in Quitters /\ app[c] \in Ready
  /\ stream' = [stream EXCEPT ![c] = IF @ = "open" THEN "cancelled" ELSE @]
  /\ opsShutdown' = [opsShutdown EXCEPT ![c] = TRUE]
  /\ \/ /\ ops_[c] # 0
        /\ app' = [app EXCEPT ![c] = "cleanup_ops"]
        /\ UNCHANGED readsShutdown
     \/ /\ ops_[c] = 0
        /\ app' = [app EXCEPT ![c] = "cleanup_reads"]
        /\ readsShutdown' = [readsShutdown EXCEPT ![c] = TRUE]
  /\ UNCHANGED <<etcd, watches, campaignVars, current_watches_, result, async, ops_,
                 reads_, resigning, restarts>>

\* ... then in reads_.block_until_all_done() ...
CleanupOps(c) ==
  /\ app[c] = "cleanup_ops" /\ ops_[c] = 0
  /\ readsShutdown' = [readsShutdown EXCEPT ![c] = TRUE]
  /\ app' = [app EXCEPT ![c] = "cleanup_reads"]
  /\ UNCHANGED <<etcd, watches, campaignVars, current_watches_, result, stream, async,
                 ops_, opsShutdown, reads_, resigning, restarts>>

\* ... and the object is gone.
CleanupReads(c) ==
  /\ app[c] = "cleanup_reads" /\ reads_[c] = 0
  /\ app' = [app EXCEPT ![c] = "destroyed"]
  /\ UNCHANGED <<etcd, watches, campaignVars, current_watches_, result, stream, async,
                 counters, resigning, restarts>>

\* The state of the object, and of its connection, is gone.
Discard(c) ==
  /\ watches' = [watches EXCEPT ![c] = {}]
  /\ creation_revision_' = [creation_revision_ EXCEPT ![c] = 0]
  /\ watched_keys_' = [watched_keys_ EXCEPT ![c] = {}]
  /\ current_watches_' = [current_watches_ EXCEPT ![c] = {}]
  /\ elected_' = [elected_ EXCEPT ![c] = FALSE]
  /\ promise_' = [promise_ EXCEPT ![c] = "unset"]
  /\ stream' = [stream EXCEPT ![c] = "none"]
  /\ async' = [async EXCEPT ![c] = Idle]
  /\ ops_' = [ops_ EXCEPT ![c] = 0]
  /\ opsShutdown' = [opsShutdown EXCEPT ![c] = FALSE]
  /\ reads_' = [reads_ EXCEPT ![c] = 0]
  /\ readsShutdown' = [readsShutdown EXCEPT ![c] = FALSE]
  /\ tocancel' = [tocancel EXCEPT ![c] = {}]
  /\ cancels' = [cancels EXCEPT ![c] = {}]

\* The process dies, for instance because check_grpc_status() throws in a callback;
\* etcd keeps the node until the lease ends.
Crash(c) ==
  /\ c \in Restarters /\ restarts < MaxRestarts
  /\ app[c] \notin {"crashed", "destroyed"}
  /\ Discard(c)
  /\ app' = [app EXCEPT ![c] = "crashed"]
  /\ UNCHANGED <<etcd, candidate_value_, restarts>>

\* A new object takes part with the same lease, renewed or granted again.
Restart(c) ==
  /\ c \in Restarters /\ restarts < MaxRestarts
  /\ app[c] \in {"crashed", "destroyed"}
  /\ restarts' = restarts + 1
  /\ Discard(c)
  /\ lease' = [lease EXCEPT ![c] = TRUE]
  /\ \E v \in Values : candidate_value_' = [candidate_value_ EXCEPT ![c] = v]
  /\ app' = [app EXCEPT ![c] = "new"]
  /\ UNCHANGED <<revision, compacted, createRev, value, events>>

-----------------------------------------------------------------------------
Server(c) == LeaseEnd(c) \/ ServeRange(c) \/ ServeWatch(c) \/ StreamBreaks(c)

OnWatchRead(c) ==
  OnWatchCreated(c) \/ OnWatchEvents(c) \/ OnWatchCanceled(c) \/ OnWatchReadFails(c)

\* The steps of a callback after it reported its operation as done.
CallbackTail(c) == WatchPredecessor(c) \/ StartRead(c) \/ QueryAgain(c) \/ AskAgain(c)

Callback(c) ==
  OnRangeRequest(c) \/ OnRangeCancelled(c) \/ OnWatchCreate(c) \/ OnWatchRead(c)
    \/ CallbackTail(c) \/ OnWatchCancel(c)

Application(c) ==
  \/ Campaign(c) \/ CreateNode(c) \/ AdoptNode(c) \/ CreateNodeThrows(c)
  \/ PublishValue(c) \/ QueryPredecessor(c) \/ (\E v \in Values : Proclaim(c, v))
  \/ Resign(c) \/ CancelWatch(c) \/ CancelStream(c) \/ DrainReads(c) \/ WritesDone(c)
  \/ Finish(c) \/ Cleanup(c) \/ CleanupOps(c) \/ CleanupReads(c)
  \/ Crash(c) \/ Restart(c)

Next == Compact \/ \E c \in Candidates : Server(c) \/ Callback(c) \/ Application(c)

(***************************************************************************)
(* etcd answers, the completion queue thread runs the callbacks of the     *)
(* operations that completed, and a call of the application thread that is *)
(* under way goes on.  Nobody has to start a call, and no lease has to end.*)
(***************************************************************************)
Continue(c) ==
  \/ CreateNode(c) \/ AdoptNode(c) \/ PublishValue(c) \/ QueryPredecessor(c)
  \/ CancelWatch(c) \/ CancelStream(c) \/ DrainReads(c) \/ WritesDone(c) \/ Finish(c)
  \/ CleanupOps(c) \/ CleanupReads(c)

Fairness ==
  \A c \in Candidates :
    /\ WF_vars(ServeRange(c) \/ OnRangeRequest(c) \/ OnWatchCreate(c) \/ OnWatchRead(c)
                 \/ CallbackTail(c))
    /\ WF_vars(ServeWatch(c))
    /\ WF_vars(OnWatchCancel(c))
    /\ WF_vars(Continue(c))

Spec == Init /\ [][Next]_vars /\ Fairness

-----------------------------------------------------------------------------
(* Properties.                                                             *)

\* Types of the state of etcd, of the candidates and of their threads.
TypeOK ==
  /\ revision \in 1..(MaxRevision + 1) /\ compacted \in 0..revision
  /\ createRev \in [Candidates -> 0..revision]
  /\ value \in [Candidates -> Values \cup {NoValue}]
  /\ events \subseteq Events
  /\ lease \in [Candidates -> BOOLEAN]
  /\ watches \in [Candidates -> SUBSET Watches]
  /\ creation_revision_ \in [Candidates -> 0..revision]
  /\ candidate_value_ \in [Candidates -> Values]
  /\ watched_keys_ \in [Candidates -> SUBSET Candidates]
  /\ current_watches_ \in [Candidates -> SUBSET WatchIds]
  /\ elected_ \in [Candidates -> BOOLEAN]
  /\ promise_ \in [Candidates -> {"unset", "elected", "not elected"}]
  /\ stream \in [Candidates -> {"none", "open", "cancelled", "finished"}]
  /\ async \in [Candidates -> Asyncs]
  /\ ops_ \in [Candidates -> Int] /\ reads_ \in [Candidates -> {0, 1}]
  /\ opsShutdown \in [Candidates -> BOOLEAN] /\ readsShutdown \in [Candidates -> BOOLEAN]
  /\ app \in [Candidates -> AppStates]
  /\ tocancel \in [Candidates -> SUBSET WatchIds]
  /\ cancels \in [Candidates -> SUBSET WatchIds]
  /\ restarts \in 0..MaxRestarts

\* A candidate that reports to be elected and whose node is still there.
IsLeader(c) == elected_[c] /\ Exists(c) /\ OwnNode(c)

-----------------------------------------------------------------------------
(* The election the candidates hold.  The place of a candidate in the line *)
(* is the creation revision of its node.                                   *)

Leaders == {c \in Candidates : IsLeader(c)}

Abstract == INSTANCE Election WITH
  Participants <- Candidates, Tickets <- 1..(MaxRevision + 1),
  ticket <- createRev, leaders <- Leaders

\* The candidates implement Election: on_range_request() makes the first in line the
\* leader and nobody else, although its answer is old when it is handled, nodes come
\* and go meanwhile, and a new instance of a candidate takes over a former one's node.
ImplementsElection == Abstract!Spec

\* At most one candidate leads: whatever dies, restarts, resigns or is compacted,
\* on_range_request() never elects a second one while the node of the first lives.
OneLeader == \A c, d \in Candidates : IsLeader(c) /\ IsLeader(d) => c = d

\* elected() is true only for candidates that no surviving node precedes: looking
\* again after each deletion, rather than counting deletions, is what ensures it.
ElectedIsLowest == \A c \in Candidates : elected_[c] => Older(c) = {}

\* While etcd keeps its history no deletion is missed: a candidate in Read() waits
\* only for nodes that are there, or whose deletion a watcher on its stream still
\* has to report, as the watch starts at the revision of the Range() that saw the
\* node.
WaitIsCovered ==
  ~Compactions =>
    \A c \in Candidates : async[c].kind = "read" /\ app[c] = "campaigning" =>
      \A p \in watched_keys_[c] :
        \E w \in watches[c] :
          /\ w.id.key = p
          /\ \/ createRev[p] \in 1..w.id.start
             \/ \E e \in EventsOf(w, revision) : e.type = "DELETE"

\* While etcd keeps its history a campaign never stalls: until its result is known
\* an operation is outstanding whose callback continues it, and if that operation is a
\* Read() there will be something to read.
NeverStranded ==
  /\ WaitIsCovered
  /\ ~Compactions =>
       \A c \in Candidates :
         app[c] = "campaigning" /\ stream[c] = "open" /\ promise_[c] = "unset"
           => async[c].kind # "none"

\* The value in etcd is the one the candidate believes it published: once the
\* campaign runs, and while no RPC fails, create_node() and proclaim() agree.
ValuePublished ==
  ~Failures =>
    \A c \in Candidates :
      app[c] = "campaigning" /\ Exists(c) /\ OwnNode(c) => value[c] = candidate_value_[c]

\* After the destructor no Read() or Write() of the watch stream is outstanding, for
\* which gRPC would use the stream that went with the object: the two waits of cleanup()
\* cover them, although callbacks are between two operations when it begins.
StreamIsQuiet ==
  \A c \in Candidates :
    app[c] = "destroyed" => async[c].kind \notin {"write", "read"} /\ cancels[c] = {}

\* "The destructor makes sure the *local* resources are released, including connections
\* to the etcd server and pending operations": no operation is pending afterwards.
DestroyedIsQuiet ==
  StreamIsQuiet /\
    \A c \in Candidates : app[c] = "destroyed" => async[c].kind \notin {"range", "reply"}

\* c campaigns, is connected, and its node is the oldest one there is.
IsFirst(c) ==
  /\ app[c] = "campaigning" /\ stream[c] = "open" /\ Exists(c)
  /\ \A d \in Candidates : Exists(d) => createRev[c] <= createRev[d]

\* A candidate whose node is the oldest is elected, unless it stops before: every
\* deletion is followed up, a node left by an earlier instance is taken over.
CandidateElected == \A c \in Candidates : IsFirst(c) ~> elected_[c] \/ ~IsFirst(c)

\* resign() and the destructor return, resign() normally or with an exception, unless the
\* process dies: neither waits for an operation whose callback forgot to report it, or that
\* nothing completes.
CallsReturn ==
  \A c \in Quitters :
    app[c] \in {"cancel_watches", "drain_reads", "cleanup_ops", "cleanup_reads"}
      ~> app[c] \in {"resigned", "resign_failed", "destroyed", "crashed"}
=============================================================================
