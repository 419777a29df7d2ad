-------------------------- MODULE ElectionObserver --------------------------
(***************************************************************************)
(* gh::detail::election_observer_impl: an observer that tells subscribers  *)
(* who leads an election.  It asks etcd for the oldest node, watches the   *)
(* prefix of the election from the revision that created it, and keeps a   *)
(* map of the participants up to date from the events.                     *)
(*                                                                         *)
(* The map changes under the mutex, in one step per response.  Subscribers *)
(* are called without the mutex, one step per call, by the completion      *)
(* queue thread on changes and by the subscribing thread itself inside     *)
(* subscribe().  The next Read() starts after the calls.                   *)
(***************************************************************************)
EXTENDS Integers, Sequences

CONSTANTS
  Keys,         \* the candidates' keys under the election's prefix
  Values,       \* what they publish
  FirstValue,   \* bound: what all of them publish first
  NoNode,       \* the empty KeyValue, which is no node
  Subscribers,  \* the functions passed to subscribe(), each by its own thread
  MaxRevision,  \* bound: etcd's revision stops here
  MaxFailures   \* bound: how often RPCs or streams fail, or the history is compacted

Nodes == [create : Nat, key : Keys, value : Values]

ASSUME ObserverAssumption ==
  /\ MaxRevision \in Nat \ {0} /\ MaxFailures \in Nat
  /\ FirstValue \in Values /\ NoNode \notin Nodes

VARIABLES
  \* The etcd server.
  nodes,          \* the nodes there are
  log,            \* the changes of nodes; the i-th one made revision i + 1
  compacted,      \* revisions below this one are gone
  requests,       \* WatchRequests on their way to the server, in order
  watch,          \* state of the watcher at the server
  next,           \* index of the first change that the watcher has not reported
  \* The observer object.
  participants_, subscriptions_,
  stream,         \* state of watcher_stream_
  ops_, opsShutdown,
  app,            \* the call the application thread is in
  \* The completion queue thread.
  chain,          \* the operation that is outstanding: discovery, then watch
  cancelling,     \* is the Write() of shutdown() outstanding?
  callback,       \* the callback that runs, and what it tells whom
  \* The subscribers.
  sub,            \* sub[s]: where s is: "called" in subscribe() and not added yet,
                  \* "late" since it was added, or "in" step with the notifications
  told,           \* told[s]: the leader that s was called with last
  failures        \* how often something failed or was compacted so far

etcd == <<nodes, log, compacted>>
watcher == <<requests, watch, next>>
subs == <<subscriptions_, sub, told>>
counter == <<ops_, opsShutdown>>
vars == <<etcd, watcher, participants_, stream, counter, app, chain, cancelling,
          callback, subs, failures>>

\* "reply" is the answer to a Range() waiting for on_range_request().
Chains ==
  [kind : {"none", "range", "write", "read"}, node : {NoNode}, rev : {0}]
    \cup [kind : {"reply"}, node : Nodes \cup {NoNode}, rev : Nat]

Op(k) == [kind |-> k, node |-> NoNode, rev |-> 0]

\* The thread waits for the next completion, or runs on_range_request() or
\* on_watch_read(), in call_subscribers(): those in copy have to be called.
Callbacks ==
  [in : {"idle", "range", "read"}, calls : BOOLEAN, with : Nodes \cup {NoNode},
   copy : SUBSET Subscribers, called : SUBSET Subscribers]

IdleCallback ==
  [in |-> "idle", calls |-> FALSE, with |-> NoNode, copy |-> {}, called |-> {}]

\* The revision of the store; the first one is not a change of the election.
Revision == Len(log) + 1

Init ==
  /\ nodes = {} /\ log = <<>> /\ compacted = 0
  /\ requests = <<>> /\ watch = "none" /\ next = 1
  /\ participants_ = {} /\ subscriptions_ = {}
  /\ stream = "none"
  /\ ops_ = 0 /\ opsShutdown = FALSE
  /\ app = "new"
  /\ chain = Op("none") /\ cancelling = FALSE /\ callback = IdleCallback
  /\ sub = [s \in Subscribers |-> "out"]
  /\ told = [s \in Subscribers |-> NoNode]
  /\ failures = 0

-----------------------------------------------------------------------------
(* The participants, a map ordered by creation revision.                   *)

\* participants_.begin()
IsFirst(view, n) == n \in view /\ \A m \in view : n.create <= m.create

Leader(view) == IF view = {} THEN NoNode ELSE CHOOSE n \in view : IsFirst(view, n)

\* Mutant of HandleNodePut: the old entry stays in the map.
HandleNodePutAdding(view, n) ==
  [view |-> view \cup {n}, changed |-> n \notin view /\ IsFirst(view \cup {n}, n)]

\* handle_node_put(): add or replace; has the leader, or its value, changed?
HandleNodePut(view, n) ==
  LET new == {m \in view : m.create # n.create} \cup {n}
  IN  [view |-> new, changed |-> n \notin view /\ IsFirst(new, n)]

\* handle_node_delete(): remove; was it the leader?
HandleNodeDelete(view, create) ==
  [view |-> {m \in view : m.create # create},
   changed |-> \E m \in view : m.create = create /\ IsFirst(view, m)]

\* The prev_kv of a deletion is empty when the revision before it is compacted.
PrevCreate(i) == IF i >= compacted THEN log[i].node.create ELSE 0

HandleEvent(view, i) ==
  IF log[i].type = "PUT" THEN HandleNodePut(view, log[i].node)
                         ELSE HandleNodeDelete(view, PrevCreate(i))

\* Mutant of HandleEvents: a later event that changes nothing hides an earlier one.
HandleEventsLast(from, to) ==
  LET r[i \in (from - 1)..to] ==
        IF i < from THEN [view |-> participants_, changed |-> FALSE]
                    ELSE HandleEvent(r[i - 1].view, i)
  IN  r[to]

\* The events of one response, in order: has one of them changed the leader?
HandleEvents(from, to) ==
  LET r[i \in (from - 1)..to] ==
        IF i < from THEN [view |-> participants_, changed |-> FALSE]
        ELSE LET h == HandleEvent(r[i - 1].view, i)
             IN  [h EXCEPT !.changed = @ \/ r[i - 1].changed]
  IN  r[to]

-----------------------------------------------------------------------------
(* The etcd server, and the candidates that use it.                        *)

Change(type, n) == log' = Append(log, [type |-> type, node |-> n])

\* No method is called while the destructor runs, and what happens in etcd then does
\* not matter.
Usable == app \in {"new", "observing", "shutdown"}

Fails == failures < MaxFailures /\ failures' = failures + 1

\* A candidate creates its node.
Create ==
  /\ Usable /\ Revision < MaxRevision
  /\ \E k \in {k \in Keys : \A n \in nodes : n.key # k} :
       LET new == [create |-> Revision + 1, key |-> k, value |-> FirstValue]
       IN  nodes' = nodes \cup {new} /\ Change("PUT", new)
  /\ UNCHANGED <<compacted, watcher, participants_, stream, counter, app, chain,
                 cancelling, callback, subs, failures>>

\* A candidate publishes a value.
Proclaim ==
  /\ Usable /\ Revision < MaxRevision
  /\ \E n \in nodes, v \in Values :
       LET new == [n EXCEPT !.value = v]
       IN  nodes' = (nodes \ {n}) \cup {new} /\ Change("PUT", new)
  /\ UNCHANGED <<compacted, watcher, participants_, stream, counter, app, chain,
                 cancelling, callback, subs, failures>>

\* The lease of a candidate ends.
Delete ==
  /\ Usable /\ Revision < MaxRevision
  /\ \E n \in nodes : nodes' = nodes \ {n} /\ Change("DELETE", n)
  /\ UNCHANGED <<compacted, watcher, participants_, stream, counter, app, chain,
                 cancelling, callback, subs, failures>>

Compact ==
  /\ Usable /\ compacted < Revision /\ compacted' = Revision
  /\ Fails
  /\ UNCHANGED <<nodes, log, watcher, participants_, stream, counter, app, chain,
                 cancelling, callback, subs>>

\* The Range() takes effect: the oldest node, if any, and the revision.
ServeRange ==
  /\ chain.kind = "range"
  /\ chain' = [kind |-> "reply", node |-> Leader(nodes), rev |-> Revision]
  /\ UNCHANGED <<etcd, watcher, participants_, stream, counter, app, cancelling,
                 callback, subs, failures>>

\* The Range() fails: its status is not checked, and its answer is empty.
RangeFails ==
  /\ chain.kind = "range"
  /\ chain' = [kind |-> "reply", node |-> NoNode, rev |-> 0]
  /\ Fails
  /\ UNCHANGED <<etcd, watcher, participants_, stream, counter, app, cancelling,
                 callback, subs>>

\* The server creates the watcher, from now if the start revision is 0, and cancels
\* it at once if the revision is compacted; a cancellation without a watcher is
\* ignored.
ServeWatch ==
  /\ stream = "open" /\ requests # <<>>
  /\ requests' = Tail(requests)
  /\ LET r == Head(requests)
     IN  \/ /\ r.type = "create"
            /\ watch' = IF r.start # 0 /\ r.start < compacted THEN "cancelled" ELSE "created"
            /\ next' = IF r.start = 0 THEN Len(log) + 1
                       ELSE IF r.start = 1 THEN 1 ELSE r.start - 1
         \/ /\ r.type = "cancel"
            /\ watch' = IF watch \in {"created", "active"} THEN "cancelled" ELSE watch
            /\ UNCHANGED next
  /\ UNCHANGED <<etcd, participants_, stream, counter, app, chain, cancelling, callback,
                 subs, failures>>

\* The connection that carries the watch stream is lost.
StreamBreaks ==
  /\ stream = "open"
  /\ stream' = "cancelled"
  /\ Fails
  /\ UNCHANGED <<etcd, watcher, participants_, counter, app, chain, cancelling, callback,
                 subs>>

-----------------------------------------------------------------------------
(* The completion queue thread.                                            *)

CallSubscribers(in, h) ==
  callback' = [in |-> in, calls |-> h.changed, with |-> Leader(h.view),
               copy |-> subscriptions_, called |-> {}]

\* Mutant of WatchStart: the watch starts at the revision of the answer.
WatchStartNow == chain.rev

\* The watch starts with the creation of the leader, or with the current revision.
WatchStart == IF chain.node # NoNode THEN chain.node.create ELSE chain.rev

\* create_watcher(), called from on_range_request(), whose operation is done: write a
\* request, unless the destructor runs.
CreateWatcher(start) ==
  \/ /\ opsShutdown
     /\ chain' = Op("none") /\ ops_' = ops_ - 1
     /\ UNCHANGED requests
  \/ /\ ~opsShutdown
     /\ chain' = Op("write") /\ UNCHANGED ops_
     /\ requests' = Append(requests, [type |-> "create", start |-> start])

\* on_range_request(): create the watcher, and report the leader if there is one.
OnRangeRequest ==
  /\ chain.kind = "reply" /\ callback.in = "idle"
  /\ CreateWatcher(WatchStart)
  /\ \/ /\ chain.node = NoNode
        /\ UNCHANGED <<participants_, callback>>
     \/ /\ chain.node # NoNode
        /\ LET h == HandleNodePut(participants_, chain.node)
           IN  participants_' = h.view /\ CallSubscribers("range", h)
  /\ UNCHANGED <<etcd, watch, next, stream, opsShutdown, app, cancelling, subs,
                 failures>>

\* on_range_request() with ok == false.
OnRangeCancelled ==
  /\ chain.kind = "range" /\ callback.in = "idle"
  /\ chain' = Op("none") /\ ops_' = ops_ - 1
  /\ Fails
  /\ UNCHANGED <<etcd, watcher, participants_, stream, opsShutdown, app, cancelling,
                 callback, subs>>

\* async_op_start() and async_read(), unless the destructor runs.
StartRead ==
  \/ opsShutdown /\ chain' = Op("none") /\ UNCHANGED ops_
  \/ ~opsShutdown /\ chain' = Op("read") /\ ops_' = ops_ + 1

\* on_watch_create(): start reading, unless the Write() failed.
OnWatchCreate ==
  /\ chain.kind = "write" /\ callback.in = "idle"
  /\ \/ stream = "open" /\ ~opsShutdown /\ chain' = Op("read") /\ UNCHANGED ops_
     \/ (stream # "open" \/ opsShutdown) /\ chain' = Op("none") /\ ops_' = ops_ - 1
  /\ UNCHANGED <<etcd, watcher, participants_, stream, opsShutdown, app, cancelling,
                 callback, subs, failures>>

\* on_watch_read() with a response: the creation of the watcher, without events, or
\* as many changes as the server likes to send at once.
OnWatchRead ==
  /\ chain.kind = "read" /\ callback.in = "idle" /\ stream = "open"
  /\ \/ /\ watch = "created" /\ watch' = "active"
        /\ CallSubscribers("read", [view |-> participants_, changed |-> FALSE])
        /\ UNCHANGED <<next, participants_>>
     \/ /\ watch = "active"
        /\ \E to \in next..Len(log) :
             LET h == HandleEvents(next, to)
             IN  /\ participants_' = h.view
                 /\ CallSubscribers("read", h)
                 /\ next' = to + 1
        /\ UNCHANGED watch
  /\ chain' = Op("none") /\ ops_' = ops_ - 1
  /\ UNCHANGED <<etcd, requests, stream, opsShutdown, app, cancelling, subs, failures>>

\* on_watch_read() when the Read() failed or the watcher was canceled: no further Read().
OnWatchReadEnds ==
  /\ chain.kind = "read" /\ callback.in = "idle"
  /\ stream # "open" \/ watch = "cancelled"
  /\ chain' = Op("none") /\ ops_' = ops_ - 1
  /\ UNCHANGED <<etcd, watcher, participants_, stream, opsShutdown, app, cancelling,
                 callback, subs, failures>>

\* call_subscribers() calls one.  It iterates over subscriptions_ itself, which others
\* change meanwhile, and not over its copy.
CallSubscriber(s) ==
  /\ callback.calls /\ s \in subscriptions_ \ callback.called
  /\ told' = [told EXCEPT ![s] = callback.with]
  /\ callback' = [callback EXCEPT !.called = @ \cup {s}]
  /\ sub' = [sub EXCEPT ![s] = "in"]
  /\ UNCHANGED <<etcd, watcher, participants_, stream, counter, app, chain, cancelling,
                 subscriptions_, failures>>

\* Those there were at the beginning were called, unless they left; one that was
\* added while the iteration ran may be missed.
CallsOver == callback.calls => callback.copy \cap subscriptions_ \subseteq callback.called

\* Mutant of Return: the next Read() is missing.
ReturnWithoutRead ==
  /\ callback.in # "idle" /\ CallsOver
  /\ callback' = IdleCallback
  /\ UNCHANGED <<etcd, watcher, participants_, stream, counter, app, chain, cancelling,
                 subs, failures>>

\* The callback returns; on_watch_read() starts the next Read() first.
Return ==
  /\ callback.in # "idle" /\ CallsOver
  /\ callback' = IdleCallback
  /\ \/ callback.in = "range" /\ UNCHANGED <<chain, ops_>>
     \/ callback.in = "read" /\ StartRead
  /\ UNCHANGED <<etcd, watcher, participants_, stream, opsShutdown, app, cancelling, subs,
                 failures>>

\* Mutant of OnWatchCancel: async_op_done() is missing.
OnWatchCancelWithoutDone ==
  /\ cancelling /\ callback.in = "idle"
  /\ cancelling' = FALSE
  /\ UNCHANGED <<etcd, watcher, participants_, stream, counter, app, chain, callback, subs,
                 failures>>

\* on_watch_cancel()
OnWatchCancel ==
  /\ cancelling /\ callback.in = "idle"
  /\ cancelling' = FALSE /\ ops_' = ops_ - 1
  /\ UNCHANGED <<etcd, watcher, participants_, stream, opsShutdown, app, chain, callback,
                 subs, failures>>

-----------------------------------------------------------------------------
(* The threads that subscribe.                                             *)

\* subscribe(): without a leader the subscriber is added at once, else it is called
\* first, without the lock.
Subscribe(s) ==
  /\ Usable /\ sub[s] = "out"
  /\ \/ /\ participants_ = {}
        /\ sub' = [sub EXCEPT ![s] = "in"]
        /\ subscriptions_' = subscriptions_ \cup {s}
        /\ UNCHANGED told
     \/ /\ participants_ # {}
        /\ sub' = [sub EXCEPT ![s] = "called"]
        /\ told' = [told EXCEPT ![s] = Leader(participants_)]
        /\ UNCHANGED subscriptions_
  /\ UNCHANGED <<etcd, watcher, participants_, stream, counter, app, chain, cancelling,
                 callback, failures>>

\* subscribe() takes the lock again and adds the subscriber.
SubscribeAdd(s) ==
  /\ sub[s] = "called"
  /\ sub' = [sub EXCEPT ![s] = "late"]
  /\ subscriptions_' = subscriptions_ \cup {s}
  /\ UNCHANGED <<etcd, watcher, participants_, stream, counter, app, chain, cancelling,
                 callback, told, failures>>

\* unsubscribe()
Unsubscribe(s) ==
  /\ Usable /\ s \in subscriptions_
  /\ sub' = [sub EXCEPT ![s] = "left"] /\ told' = [told EXCEPT ![s] = NoNode]
  /\ subscriptions_' = subscriptions_ \ {s}
  /\ UNCHANGED <<etcd, watcher, participants_, stream, counter, app, chain, cancelling,
                 callback, failures>>

-----------------------------------------------------------------------------
(* The application thread.                                                 *)

\* create_watcher_stream(): the stream is open, or it cannot be created and fut.get()
\* throws.  The tracer is refused only once the destructor runs, when no method is called.
CreateWatcherStream ==
  \/ stream' = "open" /\ UNCHANGED failures
  \/ UNCHANGED stream /\ Fails

\* discover_node_with_lowest_creation_revision()
Discover == chain' = Op("range") /\ ops_' = ops_ + 1

\* startup(): create the stream, and start the search for the oldest node.  When it
\* throws the application may call it again, or give up.
Startup ==
  /\ app = "new"
  /\ CreateWatcherStream
  /\ \/ stream' = "open" /\ Discover /\ app' = "observing"
     \/ stream' = "none" /\ UNCHANGED <<chain, ops_, app>>
  /\ UNCHANGED <<etcd, watcher, participants_, opsShutdown, cancelling, callback, subs>>

\* cancel_watcher(): write a request.
CancelWatcher ==
  /\ cancelling' = TRUE /\ ops_' = ops_ + 1
  /\ requests' = Append(requests, [type |-> "cancel", start |-> 0])

\* shutdown() cancels the watcher; before startup() it throws.
Shutdown ==
  /\ app = "observing" /\ app' = "shutdown"
  /\ CancelWatcher
  /\ UNCHANGED <<etcd, watch, next, participants_, stream, opsShutdown, chain, callback,
                 subs, failures>>

\* cleanup(), called by the destructor: cancel the stream, which does not exist unless
\* startup() created it; the null pointer is used all the same ...
Cleanup ==
  /\ app \in {"new", "observing", "shutdown"}
  /\ \A s \in Subscribers : sub[s] # "called"
  /\ \/ stream # "none" /\ stream' = "cancelled" /\ app' = "cleanup"
     \/ stream = "none" /\ app' = "crashed" /\ UNCHANGED stream
  /\ UNCHANGED <<etcd, watcher, participants_, counter, chain, cancelling, callback, subs,
                 failures>>

\* ... allow no further operation ...
CleanupOps ==
  /\ app = "cleanup" /\ app' = "waiting"
  /\ opsShutdown' = TRUE
  /\ UNCHANGED <<etcd, watcher, participants_, stream, ops_, chain, cancelling, callback,
                 subs, failures>>

\* ... and wait for those there are.
CleanupDone ==
  /\ app = "waiting" /\ ops_ = 0
  /\ app' = "destroyed"
  /\ UNCHANGED <<etcd, watcher, participants_, stream, counter, chain, cancelling, callback,
                 subs, failures>>

-----------------------------------------------------------------------------

Etcd ==
  \/ Create \/ Proclaim \/ Delete \/ Compact
  \/ ServeRange \/ RangeFails \/ ServeWatch \/ StreamBreaks

Callback ==
  \/ OnRangeRequest \/ OnRangeCancelled \/ OnWatchCreate
  \/ OnWatchRead \/ OnWatchReadEnds \/ OnWatchCancel
  \/ \E s \in Subscribers : CallSubscriber(s)
  \/ Return

Subscription == \E s \in Subscribers : Subscribe(s) \/ SubscribeAdd(s) \/ Unsubscribe(s)

Application == Startup \/ Shutdown \/ Cleanup \/ CleanupOps \/ CleanupDone

Next == Etcd \/ Callback \/ Subscription \/ Application

\* etcd answers, the completion queue runs callbacks, a destructor goes on, and so does
\* subscribe().
Fairness ==
  /\ WF_vars(ServeRange) /\ WF_vars(ServeWatch)
  /\ WF_vars(OnRangeRequest) /\ WF_vars(OnWatchCreate)
  /\ WF_vars(OnWatchRead) /\ WF_vars(OnWatchReadEnds)
  /\ WF_vars(OnWatchCancel) /\ WF_vars(Return)
  /\ \A s \in Subscribers : WF_vars(CallSubscriber(s)) /\ WF_vars(SubscribeAdd(s))
  /\ WF_vars(CleanupOps) /\ WF_vars(CleanupDone)

Spec == Init /\ [][Next]_vars /\ Fairness

-----------------------------------------------------------------------------
(* Properties.                                                             *)

\* The types of the variables.  participants_ has one node per creation revision, and
\* ops_ counts the operation of the chain and the Write() of shutdown().
TypeOK ==
  /\ nodes \subseteq Nodes
  /\ log \in Seq([type : {"PUT", "DELETE"}, node : Nodes])
  /\ compacted \in 0..MaxRevision
  /\ requests \in Seq([type : {"create", "cancel"}, start : 0..MaxRevision])
  /\ watch \in {"none", "created", "active", "cancelled"}
  /\ next \in 1..MaxRevision
  /\ participants_ \subseteq Nodes
  /\ \A m, n \in participants_ : m.create = n.create => m = n
  /\ subscriptions_ = {s \in Subscribers : sub[s] \in {"in", "late"}}
  /\ stream \in {"none", "open", "cancelled"}
  /\ ops_ = (IF chain.kind = "none" THEN 0 ELSE 1) + (IF cancelling THEN 1 ELSE 0)
  /\ opsShutdown \in BOOLEAN
  /\ app \in {"new", "observing", "shutdown", "cleanup", "waiting", "destroyed", "crashed"}
  /\ chain \in Chains /\ cancelling \in BOOLEAN /\ callback \in Callbacks
  /\ sub \in [Subscribers -> {"out", "called", "late", "in", "left"}]
  /\ told \in [Subscribers -> Nodes \cup {NoNode}]
  /\ failures \in 0..MaxFailures

\* The contract of ops_: its operations are that of the chain and the Write() of
\* shutdown(), and the application thread is let through when the destructor returns.
OpsContract == INSTANCE PendingOperations WITH
  Operations <- {"chain", "cancel"}, Threads <- {"application"},
  inFlight <- {o \in {"chain", "cancel"} :
                 IF o = "chain" THEN chain.kind # "none" ELSE cancelling},
  closed <- opsShutdown,
  through <- IF app = "destroyed" THEN {"application"} ELSE {},
  void <- FALSE

\* The observer keeps to the contract of its counter of operations: nothing starts once
\* ops_ is shut down, though a callback may run just then, and the destructor returns
\* when all that was started is done.
UsesCounter == OpsContract!Spec

\* While nothing failed: once the watcher has reported every change, the participants are
\* the nodes in etcd.  The search may have been arbitrarily long before the watcher was
\* created, but replaying the history from the creation of the oldest node catches up.
ViewIsCurrent ==
  failures = 0 /\ watch = "active" /\ next = Len(log) + 1 => participants_ = nodes

\* A change of the node of entry i of history l was made later, up to entry j.
Superseded(l, i, j) == \E k \in (i + 1)..j : l[k].node.create = l[i].node.create

\* The nodes that entries s to j of history l leave.
NodesIn(l, s, j) ==
  {l[i].node : i \in {i \in s..j : l[i].type = "PUT" /\ ~Superseded(l, i, j)}}

\* The participants by revision; revision r is what the first r - 1 changes leave.
HistoryOf(l) == [r \in 1..(Len(l) + 1) |-> NodesIn(l, 1, r - 1)]

\* The contract of the observer.
ViewContract == INSTANCE ElectionView WITH
  history <- HistoryOf(log),
  position <- IF watch = "none" THEN 0 ELSE next,
  view <- participants_,
  failed <- failures # 0

\* The observer keeps its contract: the search and the replay of the history since the
\* creation of the node it found never invent participants, miss nobody at the end, and
\* once the map is right every response leaves it right.
ImplementsView == ViewContract!Spec

\* Between callbacks, subscribers that were added without a leader, or called since they
\* were added, were called last with the leader that current_key() and current_value()
\* return, whatever number of events a response had.
SubscribersInformed ==
  callback.in = "idle" =>
    \A s \in Subscribers : sub[s] = "in" => told[s] = Leader(participants_)

\* The observer keeps reading: when the election comes to rest it knows the nodes, and
\* the subscribers above know the leader, unless something failed.
EventuallyCurrent ==
  <>[](app = "observing" /\ failures = 0 =>
         /\ participants_ = nodes
         /\ \A s \in Subscribers : sub[s] = "in" => told[s] = Leader(nodes))

\* "Notify subscriber when the leader key and/or value changes": everyone whom
\* subscribe() added eventually knows the leader, also when it changes during
\* subscribe().
EverySubscriberLearns ==
  <>[](app = "observing" /\ failures = 0 =>
         \A s \in subscriptions_ : told[s] = Leader(nodes))

\* Once the destructor has cancelled the stream it returns, whatever is outstanding, in
\* callbacks too, and whatever failed.
DestructorReturns == app = "cleanup" ~> app = "destroyed"
=============================================================================
