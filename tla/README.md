# A TLA+ verification of gee-h

gee-h is a C++ library for leader election on top of etcd and gRPC. A process that
takes part in an election keeps a lease alive in the background, writes a node under
the election's name, and waits until it owns the oldest node. All network operations
are asynchronous: they complete on the thread of a completion queue, which runs a
callback that usually starts the next operation.

What can go wrong is in the interleaving of three parties, the application thread, the
completion queue thread and the etcd server with its other clients, and in what
happens when one of them fails half way. That is what these modules model.

## 1. Inventory

| Component | State | Operations | Hard to get right |
|---|---|---|---|
| `async_op_counter` | `pending_`, `shutdown_`, mutex, condition variable | `async_op_start`, `async_op_done`, `shutdown`, `block_until_all_done`, `async_op_tracer` | lost wake ups; what runs after the counter reached zero |
| `election_candidate_impl` | `creation_revision_`, `candidate_value_`, `watched_keys_`, `current_watches_`, `elected_`, promise, watch stream, two counters | `campaign`, `proclaim`, `resign`, destructor; callbacks `on_range_request`, `on_watch_create`, `on_watch_read`, `on_watch_cancel` | deletions between a search and a watch, compaction, restarts, answers after `resign()` |
| `session_impl` | lease id, `actual_TTL_`, `current_timer_`, keep alive stream, two counters | constructor, `revoke`, destructor; callbacks `on_timeout`, `on_write`, `on_read` | lease renewed in time; `revoke()` against the keep alive chain |
| `election_observer_impl` | `participants_`, `subscriptions_`, watch stream, a counter | `startup`, `shutdown`, `subscribe`, `unsubscribe`, destructor; discovery and watch callbacks | changes between the search and the watch; an update missed during `subscribe()`; a watch that ends silently |
| `cluster_membership_impl` | member URLs, refresh timer, backoff policy | `startup`, `shutdown`; timer and RPC callbacks | members that fail, or leave while they are asked; a request in flight re-arms the timer after `shutdown()` |
| `completion_queue` | `pending_ops_` by tag, `shutdown_` | asynchronous RPCs, streams, timers; `run`, `shutdown` | operations that are still pending when the loop ends |
| `active_completion_queue` | queue, thread, what to do on destruction | constructors, moves, destructor | who owns the thread, and shuts the queue down, after a move |
| `leader_election`, `watch_election` | session and candidate; observer | `campaign`, `proclaim`, `resign`; `subscribe`, `startup`, `shutdown` | `resign()` fails before the lease is revoked |
| `join_election`, `observe_election` | flag set by signals | `main` | signals before the handler is installed, while the campaign fails, during `resign()` |
| `etcd_client`, `client_async_op` | policies, URLs; promise, clones of the policies | `grant_lease`; RPC callback | who fulfills the promise, and when is it broken |
| RPC policies | delay, error count, deadline | `on_failure`, `clone` | the limits |
| `prefix_end` | none | least key after a prefix | trailing `0xFF` bytes |
| `log`, `logger` | sinks, minimum severity | `GH_LOG`, `add_sink`, `clear_sinks`, `min_severity` | sinks and severity change while a message is formatted or written |
| `cluster_failure_behavior` and its driver | cached channel; processes of the servers | create, update, delete nodes; kill, restart | servers die between the choice of a channel and its use; late requests |
| error formatting, test support | none | none | nothing the other components depend on |

The components interact as follows. A `leader_election` owns a `session` and an
`election_candidate`, which share the session's lease; the candidate's node is attached
to the lease, so the end of the lease removes the candidate from the election. Sessions,
candidates, observers and cluster membership start operations on a completion queue and
count them with `async_op_counter`, so that a destructor can wait for the callbacks that
still refer to the object. Candidates see one another only through etcd.

What makes a component correct:

- the counter: a thread that blocks is woken, and not before everything admitted is done;
- the candidate: at most one leader; whoever is first gets elected; `resign()` and the
  destructor return and leave nothing behind; the published value is the proclaimed one
  (where the code falls short of this, section 3 says how);
- the session: the lease does not expire while the session is in use; `revoke()` and the
  destructor return and leave nothing behind;
- the observer: subscribers eventually know the current leader;
- the facades and programs: they implement an election; what they do not release expires;
- the membership: it follows the cluster while it knows one of its members;
- the completion queue: it knows every tag gRPC reports, keeps operations alive as long as
  gRPC may write to them, runs their callbacks, and ends.

## 2. Modules

Each component has a module with its state and actions. Four modules are abstract
specifications of what a component promises to those that use it: `Election`, `ElectionView`,
`AsyncCalls` and `PendingOperations`. Modules of proofs extend the modules they are about, and the `MC` modules are
what the TLC configurations instantiate.

| Module | Part | Composed by |
|---|---|---|
| `Election` | what an election promises (abstract) | instantiated in `ElectionCandidate`, `LeaderElection` |
| `ElectionView` | what an observer promises (abstract) | instantiated in `ElectionObserver` |
| `AsyncCalls` | what a completion queue promises (abstract) | instantiated in `CompletionQueue` |
| `PendingOperations` | what a counter promises (abstract) | implemented in `AsyncOpCounter`; used in `Session`, `ElectionObserver` |
| `ElectionCandidate`, `ElectionCandidateProofs` | `election_candidate_impl` and etcd | |
| `Session`, `SessionProofs` | `session_impl` and etcd's leases | |
| `ElectionObserver`, `ElectionObserverProofs` | `election_observer_impl` and etcd's watchers | |
| `CompletionQueue`, `CompletionQueueProofs` | `base_completion_queue` and gRPC | |
| `LeaderElection`, `LeaderElectionProofs` | `leader_election`, `watch_election`, the two example programs | takes the four above by their contracts |
| `AsyncOpCounter`, `AsyncOpCounterProofs` | `async_op_counter` | `ClientSide` |
| `ClusterMembership` | `cluster_membership_impl` | `ClientSide` |
| `EtcdClient`, `RpcPolicies` | `etcd_client`, `client_async_op`, the policies | `ClientSide` |
| `Log` | `log`, `logger`, `GH_LOG()` | `ClientSide` |
| `ActiveCompletionQueue` | owners of queues and threads | `ClientSide` |
| `ClusterFailure`, `ClusterFailureProofs` | the experiment with a failing cluster | `ClientSide` |
| `PrefixEnd` | `prefix_end()` | `ClientSide` |
| `ClientSide`, `ClientSideProofs` | the parts that name it, side by side; proofs about those that have no module of proofs | |

### AsyncOpCounter

`pending_` and `shutdown_` are the members of the class; `op[o]` says how far operation
`o` is, `waiter[w]` where thread `w` is in `block_until_all_done()`. Each critical section
is a step: `AddOp` (`async_op_start`), `DelOp` (`async_op_done`), `Shutdown`, `Block`.
`del_op()` unlocks before it notifies, so `NotifyOne` is a step of its own, and so is
`Return`, the rest of the callback. `SpuriousWakeup` and `Recheck` are the wait with its
predicate. An operation in `Tracers` is counted by an `async_op_tracer`, which keeps going,
and decrements the counter, even when `async_op_start()` refused it. The module of its
own is where the details of the mutex and the condition variable live; the other modules
use the counter through its contract: a number, a flag, and a wait for zero.

That contract is `PendingOperations`: operations are admitted until the counter is closed, and
who waits is let through when none is left. `AsyncOpCounter` implements it (`ImplementsCounter`):
its operations in flight are the admitted ones whose `async_op_done()` is to come, and the
threads let through are those that returned from `block_until_all_done()`; a tracer that was
refused and decrements the counter all the same makes the contract `void`. From the other
side, `Session` and `ElectionObserver` are shown to keep to it (`UsesCounter` in each): what they
have outstanding are operations that were admitted, none starts after their shutdown flag is
set, and they go on behind the wait when there is none. `ElectionCandidate` is not, since a crash
replaces the object and its counters.

### ElectionCandidate

The module has any number of candidates and the etcd server they share.

- etcd (external, modelled as the candidates use it): a `revision`, the `createRev` and
  `value` of each candidate's node, the history of `events` and how far it is
  `compacted`, leases, and the watchers on each stream. `Put`, `Delete`, `LeaseEnd`,
  `Compact`, `ServeRange`, `ServeWatch` and `StreamBreaks` are its steps.
- The application thread, `app[c]`: `Campaign`, then `create_node()` as `CreateNode` (a new
  node), `AdoptNode` (one that an earlier instance with the same lease left) or
  `CreateNodeThrows`, `PublishValue`, `QueryPredecessor`; `Proclaim`; `resign()` as `Resign`,
  `CancelWatch`, `CancelStream`, `DrainReads`, `WritesDone`, `Finish`; the destructor as
  `Cleanup`, `CleanupOps`, `CleanupReads`; `Crash` and `Restart` of the process.
- The completion queue thread, `async[c]`: the one operation whose callback continues the
  campaign, or how far that callback is. `OnRangeRequest`, `OnWatchCreate` and `OnWatchCreated`,
  `OnWatchEvents`, `OnWatchCanceled`, `OnWatchReadFails` (the branches of `on_watch_read()`), which
  share `ReadTail`, report the operation as done. What follows in the same callback is a step of its
  own: `WatchPredecessor` (the rest of `on_range_request()`), `StartRead` (the next `Read()`),
  `QueryAgain` (the test in `query_predecessor()`) and `AskAgain` (its `Range()`, which is sent
  whatever `async_op_start()` says).

A lease id determines the key, so keys are identified with candidates. A request to etcd
takes effect in one step and its completion is handled in another, so that an answer can
be old when it is used. A critical section is a step, so the application thread may run between
any two parts of a callback; it may destroy the object, and the callback goes on with what was its
memory. `Quitters` and `Proclaimers` are the candidates whose applications call `resign()` or the
destructor, and `proclaim()`; a value may be proclaimed twice. `Restarters` are those whose
processes may crash and come back. The theorems hold for every choice of the three sets.

### Session

Time is discrete. `leaseLeft` counts the ticks until etcd drops the lease, `timerLeft` those
until the timer fires, and `age` those for which the chain has waited for the network, etcd
or the scheduler; `MaxDelay` bounds it. The keep alive chain timer, `Write()`, `Read()`, timer
is the variable `chain`: a callback first reports its operation as done and then starts the
next one, and the application thread may act in between, so it takes two steps
(`OnTimeout` and `OnTimeoutWrite`, `OnWrite` and `OnWriteRead`, `OnRead` and
`OnReadSetTimer`). The application thread runs the constructor (`CreateStream`, `ServeGrant`,
`GrantThrows`, `GrantReply`), `revoke()` (`Revoke` to `RevokeOps`; it may throw and be called
again) and the destructor (`Destructor`, `ShutdownReads`, `ShutdownOps`). TTLs are numbers
of ticks; the conversion from milliseconds is left out.

### ElectionObserver

etcd is the set of `nodes` of the election and the `log` of its changes; the watcher reports
the changes from `next` on, as many at a time as it likes. `participants_` is the map of the
class, as a set of nodes with distinct creation revisions, and `Leader` its first entry.
`chain` is the operation outstanding: the search, the `Write()` that creates the watcher, a
`Read()`. `HandleNodePut`, `HandleNodeDelete` and `HandleEvents` are the functions of the same
names and the loop over the events of a response. A callback is one step up to
`call_subscribers()`; each call of a subscriber is a step (`CallSubscriber`), and so is the end of
the callback (`Return`), which starts the next `Read()`. `subscribe()` is one step without a
leader and two with one (`Subscribe`, `SubscribeAdd`), since it releases the lock to call the
subscriber. `Startup`, `Shutdown`, `Cleanup`, `CleanupOps` and `CleanupDone` belong to the
application thread. The stream that `Startup` creates may fail, and then the application may try
again, or destroy the object: `Cleanup` without a stream is the use of a null pointer
(`app = "crashed"`). The ghost variables `sub` and `told` say where each subscriber is and
whom it was told of last, `failures` counts what went wrong.

`ElectionView` is what the observer promises. The election has a history, the participants
revision by revision. The observer first knows somebody who led at some time (`Search`), starts
at some revision (`Start`) and follows (`Follow`): each time it knows only participants there
were at the revision it has reached, all of them at the end of the history, and all of them
again after every response once it knew all. Nothing is promised after a failure. Until the
observer is in step the contract leaves open which of the participants it knows, and so whom it
shows as the leader: the replay starts at the creation of the node that the search found, so it
meets older participants only when they publish a value, and may show one of them, or the
one it started with, while an older one leads at the revision it has reached. `ImplementsView`
has the substitution: revision `r` is what the first `r - 1` entries of `log` leave.

### CompletionQueue

`op[o]` follows the operation whose object has address `o` from `register_op` over `Post` (the
interceptor hands the tag to gRPC), `Complete` or `Cancel`, to the loop: `RunTest`,
`NextTimeout`, `NextShutdown`, `NextEvent`, `UnregisterOp`, `CallCallback` are the steps of
`run()`. The functions that start operations have their names from the source. Addresses are used again
when the loop has dropped an operation. `Shutdown`, `CloseQueue`, `Join` and `Destroy` are
the destructor of an `active_completion_queue`. `future[o]` is the future of the functions
called with `gh::use_future`. The other modules use the queue through its contract, `AsyncCalls`:
a callback is called once, after its operation ended and with the result it ended with, or
never if the queue goes first, and then the future is broken. `ImplementsCalls` is the
refinement: what happens between the registration and the callback, in the loop and in gRPC, is
one of `Start`, `End`, `CallBack`, `Close`, `Go`, or invisible.

### Election

Participants stand in line with a `ticket`, and the first may be made a leader: `Enter`, `Leave`,
`Win`, `StepDown`. `ElectionCandidate` implements it with the creation revisions of the nodes as
tickets and, as leaders, the candidates that report to be elected and whose node is still
there. `LeaderElection` implements it with the nodes of the processes. Each module has the
substitution in its instance `Promise`, and `ImplementsElection` is `Promise!Spec`.

### LeaderElection

`pc[p]` is where `main()` of `join_election` is: `NewLeaderElection`, `campaign`, `InstallHandlers`,
`WaitForResult`, `WaitForInterrupt`, the two halves of `leader_election::resign()` (`resign` for the
candidate's, `revoke` for the session's) and `Exit`, the destruction of the locals. A
signal (`signal_handler`) kills a process without a handler and sets a flag otherwise. Session
and candidate are taken by the contracts that their modules establish: `LeaseExpires`,
`Win`, `Abort`. `Abort` has the three ways in which a campaign fails there: a broken stream stalls it, a
canceled search leaves an operation in the counter (so that `Exit` waits for ever), and an
error in the search is thrown out of the loop and ends the process. `campaign()` itself may throw
with the lease alive, before or after the node is created. `watcher` is
where `main()` of `observe_election` is, `view` what its observer knows, `shown` what its
subscriber was told. `Startup` is `subscribe()` and `startup()`, which only connects, or throws;
`ShutdownWatcher` is `unsubscribe()` and `shutdown()`. The map follows the nodes in `Follow`, the
subscriber is called in `Notify`, and the nodes may change in between; `Disconnect` ends it.

### ClientSide and its parts

These parts share no state, so `ClientSide` explores each by itself: `part` says which one
moves, and the others stay where they are. A step of one commutes with every step of another,
so this loses nothing for properties that speak of one part each.

- `ClusterMembership`: `startup`, `shutdown`, and the callbacks under their names in the
  source. `left` is what remains of the list that is being asked; `Answer`, `Unreachable` and
  `Fail` are the members, `Reconfigure` changes the cluster under way. The loop creates a timer
  first and stores the pointer to it afterwards (`StoreTimer`); `shutdown()` may come in between.
  `shutdown()` itself tests the pointer (`shutdown`) and then uses it (`CancelTimer`); the loop may
  reset it in between, and the process may crash.
- `EtcdClient`: `holders[c]` is who shares the operation of call `c`; the promise is broken
  when the last holder lets go of it. `RpcPolicies` has the three policies as records.
- `Log`: a `GH_LOG()` statement step by step, from `NewLogger` over `Format` and the tests of
  `log::write()` to the sinks; `Crash` is what the unlocked use of `sinks_` may lead to.
- `ActiveCompletionQueue`: constructors, `MoveConstruct`, `MoveAssign` (also of an object to
  itself), `Destructor` and `JoinThread`; `Temp` is the local variable of `operator=`.
- `ClusterFailure`: the program calls `pick_channel()` and an RPC (`EnterCall`, `ReuseChannel`,
  `AskStatus`, `NoChannel`, `GrantLease`, `Answered`, `Refused`, `TooLate`), the driver starts, kills and restarts
  servers between its lines. Channels break (`ChannelBreaks`) and connect again by themselves
  (`ChannelReconnects`). A request that missed its deadline may be executed later
  (`ServeLate`). A `Put()` without a lease detaches the node from its lease, as in etcd.
- `PrefixEnd`: each key is an initial state (`input`); strings are over a small alphabet, whose largest letter is
  `0xFF`; `Below` is the order of etcd's keys.

## 3. Runs

| Run | Instance | What it shows |
|---|---|---|
| `candidate_election` | 2 candidates that restart, of which one quits and one proclaims, failures, compaction | the candidates implement `Election` (`ImplementsElection`); no operation on the watch stream outlives the object (`StreamIsQuiet`) |
| `candidate_watch` | 3 candidates, leases end, history kept | never two leaders (`OneLeader`); no deletion is missed and no campaign stalls (`NeverStranded`); the first gets elected (`CandidateElected`) |
| `candidate_restart` | 2 candidates, 2 values; one restarts, the other quits | a node left behind is taken over with the new value (`ValuePublished`), as a step of `Election` (`ImplementsElection`), and the election goes on (`CandidateElected`); `resign()` and the destructor return (`CallsReturn`) |
| `session` | TTLs 5 and 10, delay 1, failures | the lease is kept (`LeaseIsKept`); `revoke()` and the destructor return (`CallsReturn`) and leave nothing outstanding (`NothingOutstanding`); nothing starts after the shutdown (`UsesCounter`) |
| `observer` | 2 candidates, 2 values, 1 subscriber, 3 changes, 1 failure | the observer implements `ElectionView` (`ImplementsView`); search and replay give the participants (`ViewIsCurrent`, `EventuallyCurrent`), subscribers are in step with them (`SubscribersInformed`), the destructor returns once it has cancelled the stream (`DestructorReturns`) |
| `completion_queue` | 3 operations at 2 addresses | the queue implements `AsyncCalls` (`ImplementsCalls`); no unknown tag and no object freed under gRPC (`OutstandingIsRegistered`); callbacks run (`CallbackRuns`), futures are resolved (`FutureReady`), the destructor returns (`ShutdownReturns`) |
| `leader_election` | 2 processes and an observer, 2 faults | the programs implement `Election`; who ended does not stand in line for ever (`NoneLeftBehind`); a signal ends the program (`InterruptEnds`); the next in line wins (`Succession`); what the observing program was told last is who leads, once processes stop coming and going (`LeaderIsShown`) |
| `client_side` | see Bounds | counter: `PendingOperations` is implemented (`ImplementsCounter`), `NoLostWakeup`, `BlockReturns`; membership: `RefreshGoesOn`, `FollowsCluster`; client: `FutureSettles`; log: `LogDelivers`; queues: `QueuesAreOwned`; experiment: `SurvivesFailures`, `TestEnds`; `prefix_end` and policies against their definitions: `PureFunctions` |

No run checks a type invariant or `BlockReturnsWhenAllDone` (which `ImplementsCounter`
implies): they are proved for every instance. An invariant with several aspects is a conjunction of named parts, each with its
own comment in the module.

The other runs show where the code departs from what its documentation or comments say; the
`findings` in `PROJECT.json` quote the lines.

| Run | Violated | How |
|---|---|---|
| `candidate_compaction` | `CandidateElected` | The history is compacted after the watched node was deleted and before the watch starts. etcd cancels the watch, the candidate searches again and finds no predecessor, but `watched_keys_` still holds the deleted key: the candidate waits with no operation outstanding. |
| `candidate_destroyed` | `DestroyedIsQuiet` | The destructor runs to its end between the test of `in_shutdown()` in `query_predecessor()` and the start of the `Range()`, whose refusal is ignored; the answer finds no object. |
| `observer_subscribe` | `EverySubscriberLearns` | The leader changes after `subscribe()` called the new subscriber and before it added it. |
| `session_destroyed` | `NoUseAfterDestroy` | A callback reports its operation as done, and the destructor does not wait for the rest of it. |

The models have more departures, of which some contradict a comment in the code:

- `elected()` is to "Return true if this is the current leader" (`election_candidate.hpp:17`), but
  nothing resets `elected_` when the lease ends: after `LeaseEnd` of a leader another candidate is
  elected and both report it. `OneLeader` and `Election` therefore speak of candidates with a node.
- `resign()` reports that the candidate "is not going to be elected"
  (`election_candidate_impl.hpp:160`), but does not wait for a search: its callback may still
  elect the candidate (`WatchPredecessor` after `Finish`). `Election` lets a participant win until it
  leaves, so that this is no second leader.
- A search that ends with `ok == false` is not reported to `ops_` (`OnRangeCancelled`), though
  `async_op_done()` "should be called just after" an operation (`async_op_counter.hpp:70-71`): the
  destructor waits for ever. `CallsReturn` is checked without failures because of it.
- The destructor of an observer that was not connected dereferences `watcher_stream_`, which is null
  (`Cleanup`, `app = "crashed"`); `election_observer.hpp:25` says that it raises at worst.
  `DestructorReturns` starts where the stream is cancelled.
- The clone of a `limited_time` policy starts a period of its own (`CloneTime`), though `clone()` is to
  "Create a copy of this policy" (`rpc_retry_policy.hpp:29`).
- The range of a prefix that ends with `0xFF` is not the set of keys that start with it, though
  `prefix_end.hpp:15-18` says so of every prefix: see `PrefixRange`.

Others are described with the hazards: a keep alive request that is outstanding while `revoke()` closes the stream, two
threads in `block_until_all_done()` of which `notify_one()` wakes one, a tracer created
after the shutdown, `is_active()` after the lease ended, several `Write()` at a
time on a watch stream, a keep alive period of zero, an observer that takes a failed
search for an empty election, or whose watcher was compacted away, a membership whose
`shutdown()` does not stop it or meets a null pointer.

Some properties carry their exception in their statement, and so do not speak of the hazard that
the exception names: `ImplementsCounter` and `BlockReturns` the refused tracer, `HeldQueueRuns` the
queue that `operator=` leaves in `rhs`, `InterruptEnds` the operation that a canceled search leaves
in the counter, `SubscribersInformed` and `EventuallyCurrent` the subscribers that are not called
since the leader changed during `subscribe()`, `RefreshGoesOn` and `FollowsCluster` what follows
`shutdown()`, `LogDelivers` the statements that race with a change of the sinks, `NodesDeleted` the
update that etcd executes after the deletion, `ServersStopped` the servers that
the driver cannot kill because an entry is `None`. `PrefixRange` is stated for prefixes with a byte that is not
`0xFF` (no key is missing) and with a last byte that is not (no key too many): the prefix
of an election ends with a slash.

### Bounds

- `MaxRevision` bounds the writes to etcd, from revision 1. Three candidates need three for their
  nodes; 5 leaves one for a lease that ends, so that a predecessor is deleted and the search is
  repeated. `OneLeader` and `NeverStranded` are proved for any number of writes. Two
  candidates need two, and in `candidate_restart` two are left, for a restart that publishes a new value
  and a deletion; with failures and compactions one is left. Proclamations take part in
  `candidate_election` and, for `ValuePublished`, in the proof.
- `MCInit` gives all candidates of `candidate_restart` the same value at first: no step compares the
  values of two candidates, so the names of one candidate's values do not matter.
- Three candidates are the least number with which a candidate gets a second predecessor
  after the first is gone, and with which a candidate in the middle disappears.
- `MaxRestarts` is 1: one restart produces the situation the code handles specially, a node
  that exists before `create_node()`.
- One waiter is what every owner in the code has; the proofs cover any number.
- TTL 5 makes the period of keep alive requests one tick, TTL 10 two, so a change of TTL by
  the server changes the period. The proof covers all TTLs and delays.
- Three changes to an election of two let its leader go after a second candidate joined, or
  publish another value before or after it was found. All candidates publish `FirstValue`
  first and any value later. One failure or compaction (`MaxFailures`) can hit any step.
- Three operations at two addresses are the least number with one address used again
  while another operation is outstanding; the proof covers any number.
- Two processes and two faults in `leader_election` let a fault hit each of two programs, or both
  halves of one program's `resign()`, and leave a successor; `revision` needs no bound, since a
  process creates one node.
- `client_side`: three operations, of which one has a tracer; three member URLs, two changes
  of the cluster and a failure, so that the cluster may move away from what is known while
  it is asked; two calls of `grant_lease()`; one thread that logs at three severities to up to
  two sinks, which the application changes; three owners and two queues, so
  that an assignment has a third object to go to; three servers, the least number that survives a
  death, and two missed deadlines; all keys up to four letters of three; all policies with
  limits up to six and as many failures.
- No symmetry is used: most runs check liveness.
- Deadlock is not checked: elections, sessions and counters may all come to rest.

### Fairness

Weak fairness only. etcd answers requests, the completion queue thread runs the callback
of an operation that completed (its loop does nothing else), and a call of the application
thread that is under way continues when its wait is over. Nobody has to start a call, no
lease has to end, and no failure has to happen. In the session, time also passes. The
completion queue needs strong fairness for one step: `AsyncNext()` hands out the operations
that are complete in turn, so none of them waits forever while the loop is busy with others.
A `Read()` need never complete. The programs of `LeaderElection` run, and the lease of a process that
ended expires; other leases need not; the observer follows the nodes and calls its subscriber
(`Follow`, `Notify`). The refresh timer expires and members answer. In
`ClusterFailure` the program and the driver run, each RPC ends at the latest with its
deadline of 50 ms; a leader need never be elected.

## 4. Proofs

Every invariant, action property and refinement that a run checks is also a theorem, for all values
of the constants that satisfy the named assumptions. These are types of the parameters, and
what the code ensures before it starts: finitely many operations, processes, servers and URLs
(`OpsAssumption`, `ElectionAssumption`, `FailureAssumption`, `MembershipAssumption`), a
minimum delay that is not above the maximum (`validate_arguments()` throws otherwise), and
special values (the null tag, no key, no node, no leader) that differ from the real ones. In
each module the inductive invariant was first checked by TLC on the instances of the runs.

**AsyncOpCounterProofs.** `Invariance` proves `IInv`: the types, the exact account
`PendingIsCounted`, that only tracers run on after a refusal, that a thread in the wait has
set `shutdown_`, and the two properties `BlockReturnsWhenAllDone` and `NoLostWakeup`. The
account is needed because the waiter looks only at the number; `shutdown_` because the
number must not rise again after the waiter has seen zero. From it: `TypeCorrect`,
`Accounting`, `BlockSafety`, `WakeupSafety`. `CounterKeepsContract` proves the refinement of
`PendingOperations`: `AddOp` admits or is refused, `DelOp` is the end of an operation unless a
refused tracer voids the contract, and `Block` and `Recheck` let a thread through at zero
because the account says that none is left. `ContractSafety` draws the conclusion from the
contract alone.

**ElectionCandidateProofs.** `ElectionInvariance` proves `ElectionInv`: the types; a candidate
that has not created its node yet is idle; nodes have distinct creation revisions; an
empty answer still in flight remains true (`EmptyAnswerHolds`); `ElectedIsLowest`. The heart
is that `Older(c)`, the set of nodes before `c`'s, never grows, since new nodes get larger
revisions (`OlderStaysEmpty`): so an answer "no predecessor" may be arbitrarily late and is
still true when `on_range_request()` acts on it. `LowestIsElected` and `ElectionSafety`
(`OneLeader`) follow, with crashes, restarts, failures and compactions. `TypeCorrect` adds
that at most one `Read()` is outstanding per candidate (`ReadsCounted`).
`CandidatesImplementElection` proves the refinement: the initial states are initial states of
`Election`, and each action is an `Enter`, `Leave`, `Win`, `StepDown` or changes
neither the tickets nor the leaders. `Win` is where `ElectionInv` is needed, since the candidate
wins on an old answer. The other properties need more of the code:

- `CallsInv` adds `CallInv(c)`: up to the wait of the destructor, `ops_` counts exactly the
  outstanding operation, and nothing while a callback is between two operations; the counters are
  shut down in the destructor, not while campaigning; behind its first wait no `Write()` is left or
  can start, behind the second no `Read()`; cancellations are written only during `resign()`.
  `QuietAfterDestruction` (`StreamIsQuiet`) follows. The account is what makes it go through: a
  callback that is between two operations when the destructor begins asks the counters again
  before it uses the stream, and is refused. The `Range()` of `query_predecessor()` does not ask,
  and so has no theorem (run `candidate_destroyed`).
- `WaitInv` adds `History`, that events have positive revisions and that nothing is compacted
  without compactions; `Published(c)`, the value that `create_node()` and `proclaim()` have
  left; `Bounded(c)`, that no watcher and no answer is ahead of etcd and that no watcher is lost
  without compactions; and `Waits(c)`, that each key a candidate waits for is watched from the
  revision at which it was seen. `PublishedValue` (`ValuePublished`) and `CampaignsGoOn`
  (`NeverStranded`) follow.

**ElectionObserverProofs.** `Types` is inductive: which callback and which operations can be
outstanding together, so that `ops_` counts them (`TypeCorrect`). `HandleEvents` is a function
defined by recursion over the events of a response. `ReplayExists` shows that the definition
defines a function, by a set in place of the predicate of an induction (`RangeInduction`),
and `EventsKeep` that it keeps one node per creation revision and reports a change whenever
the leader or its value changed, through any number of events. `Informs` says of each
subscriber in step that it knows the leader, or is one of those that the callback still has to
call; the property alone is not inductive, since it says nothing while a callback runs.
`SubscribersKnow` follows, with subscribers that come and leave during the calls.
`ViewCatchesUp` (`ViewIsCurrent`) rests on `Replays`: the nodes in etcd are what the history
leaves (`NodesIn`), the participants are what the entries from some `s` up to the last event
leave, and everything before `s` was superseded (`Complete`), so that nothing is missed by not
reading it. The start is where the code could be wrong: the answer to the `Range()` may be
arbitrarily old when the watcher is created, and its node may carry a later value than its
creation. `AnswerIsComplete` shows that the creation of the oldest node is early enough, and
`EventsReplay` that replaying from there over that later value leads to the right nodes.
`ObserverKeepsContract` (`ImplementsView`) adds `Found`, that the node in an answer led at some
revision. A change in etcd appends to the history and leaves its past alone (`HistoryGoesOn`),
the creation of the watcher is `Start`, and a response is `Follow`: what a part of the history
leaves is part of what all of it leaves (`LaterPart`), a complete part leaves all at the end, and
a map that is right is what a replay from the first entry leaves, so that `EventsReplay` also keeps it
right. `ContractSafety` and `ContractStaysInStep` say what the contract is good for.
`ObserverUsesCounter` proves `UsesCounter` from `Types` and the fact that the counter is
shut down exactly while the destructor waits and afterwards (`ShutDown`).

**LeaderElectionProofs.** `ElectionInv` has the types, that each place in line is taken
once, and that what a process remembers of its node may be outdated but is never the place of
another (`OwnPlace`), that the elected one has none before it, and the bound of the revisions. `ProgramsImplementElection` proves the refinement of `Election`, and
`OneProcessLeads` transfers what the abstract specification promises to the programs: there
is at most one leader, and it is the first of those that entered.

**ClusterFailureProofs.** `FailureInv` follows the program and the driver together: which
line the driver expects at each point of `main()` (`Flow`), which servers it has killed by then
(`Killing`, `CleaningUp`), what the client knows of the leader while nothing troubled it
(`Untroubled`), and that a node which is gone comes back only by an update that was given up
(`Deleting`). `ClientSurvives` (`SurvivesFailures`) follows, for any number of servers.

**ClientSideProofs.** Each part has its own invariant and theorem: `MembershipRefreshes`
(`RefreshGoesOn`), `LogIsSound` (`LogDelivers`: how
much of the iteration over the sinks is done), `OwnersOfQueues` (`QueuesAreOwned`: every thread
has one owner, and a moved object holds nothing). `StepsOfParts` shows that a step of one part
is none of the others, so all the invariants hold side by side: `PartsTypeCorrect` and
`PartsTogether`.
The pure functions are proved for every input. `RangeOfPrefix` (`PrefixRange`) goes by the first
byte at which a key differs from the prefix, or from the end: a key that starts with the prefix is
not below it, and is below the end at the byte that took the carry; and when the last byte took it,
a key between the two agrees with the prefix up to there.
`PoliciesAnswer` shows that the recursive definitions exist (`IterationExists`), and that to cut
the doubled delay at each failure is to cut it once. `FunctionsAreRight` states both as
`PureFunctions` of the specification.

**SessionProofs.** `SafetyInvariance` proves `SafetyInv`: types, `Counted` (the counters count
the one operation of the chain) and `Closed` (what the application thread has shut down at
each point of `revoke()` and of the destructor). `TypeCorrect` and `QuietAtTheEnd`
(`NothingOutstanding`) follow. `LeaseSafety` proves `LeaseIsKept` for all TTLs and delays with
TTL/5 + 2 MaxDelay < TTL: `Timing` says, for each point of the chain, how much of the lease
is left. A timer leaves at least one delay, a request under way has used part of
it, and an answer under way is as old as the lease is shorter than its TTL. `SessionUsesCounter`
(`UsesCounter`) follows from `SafetyInv`: the callbacks that were running when `ops_` was shut down
are refused, and the waits see zero only when neither timer nor `Write()` is left.

**CompletionQueueProofs.** `QueueInvariance` proves `QueueInv`: the types, the account
`OutstandingIsRegistered`, and `LoopInv`, what the loop holds in its local variables. The
account alone is not inductive: that the tag the loop removes is one of an operation that
was taken, and no longer one that runs, is what makes `UnregisterOp` and `CallCallback` keep
it. `TypeCorrect` and `Registration` follow, for any number of operations. `QueueKeepsContract`
(`ImplementsCalls`) needs `Progresses` too: the operation that the loop holds is the only one
between its completion and its callback, it has a result, and a future that waits has an
operation that is not forgotten. `ContractSafety` says what the contract is good for: a future
is kept waiting only by a call whose callback is still to come.

Only model-checked: the liveness properties, since the prover has no rules for fairness and
`ENABLED`. These are `CandidateElected` and the two `CallsReturn`, `EventuallyCurrent` and
`DestructorReturns`, `CallbackRuns`, `FutureReady` and `ShutdownReturns`, `NoneLeftBehind`,
`InterruptEnds`, `Succession` and `LeaderIsShown`, `BlockReturns`, `FollowsCluster`, `FutureSettles`
and `TestEnds`.

## 5. What is not modelled

- `watcher_and_compaction`: a script without choices that shows how etcd answers a watch
  after a compaction. What it shows is part of `ElectionCandidate` and `ElectionObserver`.
- Formatting of gRPC errors, of annotations and of log messages; that a bad status or a
  failed assertion throws is part of the actions that check it.
- The mock interceptor, the tests, the build: they add no behaviour of their own.
- The overload of `grant_lease()` with a functor starts nothing in the code; its action has
  no further effect. The clones of the policies are made and not asked yet, so no retry is modelled.
- The arguments of the example programs and of the driver.
- In the observer, a callback is one step up to the calls of subscribers, and `startup()` is one
  step. Its callbacks heed what `async_op_start()` returns, so that the test of the shutdown flag
  and the start of an operation are one; but, as in the session, a callback reports its
  operation before it is over, and the object may be gone when it goes on. `Session` has that
  interleaving, the observer's model only from the calls of the subscribers on.
- The queue's callers: `CompletionQueue` lets an operation start until gRPC's queue is shut down,
  which gRPC demands of its users; neither the queue nor its callers enforce it.
- An object that is destroyed under a callback: the callback goes on with the values that were
  there, which is one of the outcomes of the undefined behaviour.
- Torn reads of shared pointers (`current_timer_`) that are written and read by two threads
  without a lock; the model has the outcomes of the two orders.
- Keys, values and annotations as strings; the conversion of TTLs to seconds.
- Exceptions thrown by callbacks beyond their effect that the process dies (`Crash`).

## 6. State of the plan

The components that have behaviour are modelled, every safety property that a run checks is
proved, and the contracts by which the modules use one another are abstract specifications with
proved refinements: the candidates and the programs implement `Election`, the observer
`ElectionView`, the queue `AsyncCalls`, the counter `PendingOperations`. What could be added:

1. `UsesCounter` for the candidate, per incarnation of the object.
2. `LeaderElection` takes the observer's view in one step (`Follow`); it could use `ElectionView`
   and show what its subscriber sees before the observer is in step.
