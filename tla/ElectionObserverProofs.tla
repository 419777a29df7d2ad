----------------------- MODULE ElectionObserverProofs -----------------------
(***************************************************************************)
(* Proofs about the election observer, for any number of candidates and    *)
(* subscribers, any history of the election and any number of failures.    *)
(*                                                                         *)
(* Types, the inductive type invariant, says which callbacks and           *)
(* operations can be outstanding together.  Informs adds whom the callback *)
(* that runs still has to call, and Replays what the participants are      *)
(* while the watcher is on its way through the history.                    *)
(***************************************************************************)
EXTENDS ElectionObserver, WellFoundedInduction, TLAPS

-----------------------------------------------------------------------------
(* The inductive invariants.                                               *)

\* A change in the history.
Entries == [type : {"PUT", "DELETE"}, node : Nodes]

UniqueCreates(view) == \A m, n \in view : m.create = n.create => m = n

\* The type invariant by the parts of the state.  No revision is beyond the bound.
EtcdTypes ==
  /\ nodes \subseteq Nodes /\ log \in Seq(Entries) /\ compacted \in 0..MaxRevision
  /\ Len(log) < MaxRevision /\ \A n \in nodes : n.create <= MaxRevision

Requests == [type : {"create", "cancel"}, start : 0..MaxRevision]

WatcherTypes ==
  /\ requests \in Seq(Requests) /\ next \in 1..MaxRevision
  /\ watch \in {"none", "created", "active", "cancelled"}

ViewTypes == participants_ \subseteq Nodes /\ UniqueCreates(participants_)

SubscriberTypes ==
  /\ subscriptions_ = {s \in Subscribers : sub[s] \in {"in", "late"}}
  /\ sub \in [Subscribers -> {"out", "called", "late", "in", "left"}]
  /\ told \in [Subscribers -> Nodes \cup {NoNode}]

\* ops_ counts what is outstanding; on_watch_read() runs without an operation.
CountTypes ==
  /\ ops_ = (IF chain.kind = "none" THEN 0 ELSE 1) + (IF cancelling THEN 1 ELSE 0)
  /\ opsShutdown \in BOOLEAN
  /\ app \in {"new", "observing", "shutdown", "cleanup", "waiting", "destroyed", "crashed"}
  /\ chain \in Chains /\ cancelling \in BOOLEAN
  /\ chain.rev <= MaxRevision
  /\ chain.node # NoNode => chain.node.create <= MaxRevision
  /\ app = "new" => chain.kind = "none" /\ callback.in = "idle"
  /\ app \in {"new", "observing"} => ~cancelling
  /\ callback.in = "read" => chain.kind = "none"

OtherTypes ==
  /\ stream \in {"none", "open", "cancelled"}
  /\ callback \in Callbacks
  /\ failures \in 0..MaxFailures

Types ==
  EtcdTypes /\ WatcherTypes /\ ViewTypes /\ SubscriberTypes /\ CountTypes /\ OtherTypes

\* Subscriber s knows the leader, or is about to be called with it.
Informed(s) ==
  /\ sub[s] = "out" => told[s] = NoNode
  /\ sub[s] = "in" =>
       \/ told[s] = Leader(participants_)
       \/ callback.in # "idle" /\ callback.calls /\ s \in callback.copy \ callback.called

\* The callback that runs calls with the leader.
CallsWithLeader == callback.in # "idle" => callback.with = Leader(participants_)

\* Nobody is called between callbacks.
Idle == callback.in = "idle" => ~callback.calls

Informs == Idle /\ CallsWithLeader /\ \A s \in Subscribers : Informed(s)

InformedInv == Types /\ Informs

-----------------------------------------------------------------------------

\* Nothing is missed when history l is replayed from entry s.
Complete(l, s) ==
  /\ s \in 1..(Len(l) + 1)
  /\ \A i \in 1..(s - 1) : l[i].type = "PUT" => Superseded(l, i, Len(l))

\* The first entry that a watcher reports which starts with a revision.
FirstEntry(revision) == IF revision = 1 THEN 1 ELSE revision - 1

\* Node n was created by entry s.
CreatedBy(l, s, n) ==
  s \in 1..Len(l) /\ l[s].type = "PUT" /\ l[s].node.create = n.create

\* The participants before the first event: none, or the one that entry s created.
BeforeEntry(l, s, view) == view = {} \/ \E n \in view : view = {n} /\ CreatedBy(l, s, n)

\* The history tells what nodes there are, and each of them was created by the entry
\* that made its creation revision.
History ==
  /\ nodes = NodesIn(log, 1, Len(log))
  /\ UniqueCreates(nodes)
  /\ \A i \in 1..Len(log) : log[i].node.create <= i + 1
  /\ \A n \in nodes : n.create >= 2 /\ CreatedBy(log, n.create - 1, n)

\* The observer asks once for a watcher.
IsCreate(i) == i \in 1..Len(requests) /\ requests[i].type = "create"

AsksOnce ==
  /\ app = "new" \/ chain.kind \in {"range", "reply"} =>
       watch = "none" /\ participants_ = {} /\ \A i \in 1..Len(requests) : ~IsCreate(i)
  /\ \A i \in 1..Len(requests) : IsCreate(i) =>
       watch = "none" /\ \A j \in 1..Len(requests) : IsCreate(j) => i = j

\* The answer to the Range() tells where to start, and so does the request.
Answered ==
  chain.kind = "reply" =>
    /\ chain.node = NoNode => chain.rev # 0 /\ Complete(log, FirstEntry(chain.rev))
    /\ chain.node # NoNode =>
         /\ chain.node.create >= 2
         /\ Complete(log, chain.node.create - 1)
         /\ CreatedBy(log, chain.node.create - 1, chain.node)

Asked ==
  \A i \in 1..Len(requests) : IsCreate(i) =>
    /\ requests[i].start # 0
    /\ Complete(log, FirstEntry(requests[i].start))
    /\ BeforeEntry(log, FirstEntry(requests[i].start), participants_)

\* The participants are what the events so far leave.
Replayed ==
  watch \in {"created", "active"} =>
    \E s \in 1..next :
      /\ Complete(log, s) /\ next <= Len(log) + 1
      /\ \/ participants_ = NodesIn(log, s, next - 1)
         \/ s = next /\ BeforeEntry(log, s, participants_)

Replaying == compacted = 0 /\ Answered /\ Asked /\ Replayed

Replays == History /\ AsksOnce /\ (failures = 0 => Replaying)

ReplayInv == Types /\ Replays

-----------------------------------------------------------------------------
(* Lemmas about the participants.                                          *)

\* Every set of numbers has a least one.
LEMMA LeastNumber ==
  ASSUME NEW S, S \subseteq Nat, S # {}
  PROVE  \E m \in S : \A n \in S : m <= n
<1>1. IsWellFoundedOn(OpToRel(<, Nat), Nat)
  BY NatLessThanWellFounded
<1>2. PICK m \in S : \A n \in S : ~(<<n, m>> \in OpToRel(<, Nat))
  BY <1>1, WFMin
<1>3. \A n \in S : ~(n < m)
  BY <1>2 DEF OpToRel
<1> QED
  BY <1>3

\* Induction over a range of numbers, with a set in place of the predicate.
LEMMA RangeInduction ==
  ASSUME NEW a \in Nat, NEW b \in Nat, NEW S, a \in S,
         \A i \in (a + 1)..b : i - 1 \in S => i \in S
  PROVE  a..b \subseteq S
<1> DEFINE Bad == (a..b) \ S
<1>1. ASSUME Bad # {}  PROVE FALSE
  <2>1. Bad \subseteq Nat
    OBVIOUS
  <2>2. PICK n \in Bad : \A k \in Bad : n <= k
    <3> HIDE DEF Bad
    <3> QED  BY <1>1, <2>1, LeastNumber
  <2>3. n \in (a + 1)..b /\ n - 1 \in S
    BY <2>2
  <2> QED
    BY <2>2, <2>3
<1> QED
  BY <1>1

\* The entries of a sequence, and of a sequence with one more.
LEMMA Entry == ASSUME NEW S, NEW l \in Seq(S), NEW i \in 1..Len(l) PROVE l[i] \in S
OBVIOUS

LEMMA Appended ==
  ASSUME NEW S, NEW l \in Seq(S), NEW e \in S
  PROVE  /\ Append(l, e) \in Seq(S) /\ Len(Append(l, e)) = Len(l) + 1
         /\ Len(l) \in Nat /\ Append(l, e)[Len(l) + 1] = e
         /\ \A i \in 1..Len(l) : Append(l, e)[i] = l[i]
OBVIOUS

\* There is a leader when there is a participant, and it is the first of them.
LEMMA LeaderIsFirst ==
  ASSUME NEW view, view \subseteq Nodes, view # {}
  PROVE  Leader(view) \in view /\ IsFirst(view, Leader(view))
<1> DEFINE S == {n.create : n \in view}
<1>1. S \subseteq Nat /\ S # {}
  BY DEF Nodes
<1>2. PICK m \in S : \A k \in S : m <= k
  BY <1>1, LeastNumber
<1>3. \E n \in view : IsFirst(view, n)
  BY <1>2 DEF IsFirst
<1> QED
  BY <1>3 DEF Leader

LEMMA LeaderType ==
  ASSUME NEW view, view \subseteq Nodes
  PROVE  Leader(view) \in Nodes \cup {NoNode}
BY LeaderIsFirst DEF Leader

\* The first participant is the leader.
LEMMA FirstIsLeader ==
  ASSUME NEW view, view \subseteq Nodes, UniqueCreates(view), NEW n, IsFirst(view, n)
  PROVE  Leader(view) = n
<1>1. IsFirst(view, Leader(view)) /\ Leader(view) \in view /\ n \in view
  BY LeaderIsFirst DEF IsFirst
<1>2. Leader(view).create = n.create
  BY <1>1 DEF IsFirst, Nodes
<1> QED
  BY <1>1, <1>2 DEF UniqueCreates

\* handle_node_put() keeps one node per creation revision, and returns false only if
\* the leader and its value are what they were.
LEMMA PutKeeps ==
  ASSUME NEW view, view \subseteq Nodes, UniqueCreates(view), NEW n \in Nodes
  PROVE  LET h == HandleNodePut(view, n)
         IN  /\ h = [view |-> h.view, changed |-> h.changed]
             /\ h.view \subseteq Nodes /\ UniqueCreates(h.view) /\ h.changed \in BOOLEAN
             /\ h.view = {m \in view : m.create # n.create} \cup {n}
             /\ ~h.changed => Leader(h.view) = Leader(view)
<1> DEFINE new == {m \in view : m.create # n.create} \cup {n}
           h == HandleNodePut(view, n)
<1>1. h = [view |-> new, changed |-> n \notin view /\ IsFirst(new, n)]
  BY DEF HandleNodePut
<1>2. h.view = new /\ h.changed = (n \notin view /\ IsFirst(new, n))
  BY <1>1
<1>3. new \subseteq Nodes
  OBVIOUS
<1>4. UniqueCreates(new)
  BY DEF UniqueCreates
<1>5. ASSUME n \in view  PROVE new = view
  BY <1>5 DEF UniqueCreates
<1>6. ASSUME n \notin view, ~IsFirst(new, n)
      PROVE  Leader(new) = Leader(view)
  <2>1. PICK m \in new : ~(n.create <= m.create)
    BY <1>6 DEF IsFirst
  <2>2. m \in view /\ m.create < n.create
    BY <2>1 DEF Nodes
  <2>3. Leader(view) \in view /\ IsFirst(view, Leader(view))
    BY <2>2, LeaderIsFirst
  <2>4. Leader(view).create < n.create
    BY <2>2, <2>3 DEF IsFirst, Nodes
  <2>5. IsFirst(new, Leader(view))
    BY <2>3, <2>4 DEF IsFirst, Nodes
  <2> QED
    BY <2>5, <1>3, <1>4, FirstIsLeader
<1>7. ~h.changed => Leader(h.view) = Leader(view)
  BY <1>2, <1>5, <1>6
<1>8. h.changed \in BOOLEAN
  BY <1>2
<1> QED
  BY <1>1, <1>2, <1>3, <1>4, <1>7, <1>8

\* handle_node_delete(), the same.
LEMMA DeleteKeeps ==
  ASSUME NEW view, view \subseteq Nodes, UniqueCreates(view), NEW create \in Nat
  PROVE  LET h == HandleNodeDelete(view, create)
         IN  /\ h = [view |-> h.view, changed |-> h.changed]
             /\ h.view \subseteq Nodes /\ UniqueCreates(h.view) /\ h.changed \in BOOLEAN
             /\ h.view = {m \in view : m.create # create}
             /\ ~h.changed => Leader(h.view) = Leader(view)
<1> DEFINE new == {m \in view : m.create # create}
           h == HandleNodeDelete(view, create)
<1>1. h = [view |-> new, changed |-> \E m \in view : m.create = create /\ IsFirst(view, m)]
  BY DEF HandleNodeDelete
<1>2. h.view = new /\ h.changed = (\E m \in view : m.create = create /\ IsFirst(view, m))
  BY <1>1
<1>3. new \subseteq Nodes /\ UniqueCreates(new)
  BY DEF UniqueCreates
<1>4. ASSUME ~\E m \in view : m.create = create /\ IsFirst(view, m), view # {}
      PROVE  Leader(new) = Leader(view)
  <2>1. Leader(view) \in view /\ IsFirst(view, Leader(view))
    BY <1>4, LeaderIsFirst
  <2>2. IsFirst(new, Leader(view))
    BY <2>1, <1>4 DEF IsFirst
  <2> QED
    BY <2>2, <1>3, FirstIsLeader
<1>5. view = {} => new = view
  OBVIOUS
<1>6. ~h.changed => Leader(h.view) = Leader(view)
  BY <1>2, <1>4, <1>5
<1>7. h.changed \in BOOLEAN
  BY <1>2
<1> QED
  BY <1>1, <1>2, <1>3, <1>6, <1>7

\* One event: the same, for the node that it is about.
LEMMA EventKeeps ==
  ASSUME log \in Seq(Entries),
         NEW view, view \subseteq Nodes, UniqueCreates(view), NEW i \in 1..Len(log)
  PROVE  LET h == HandleEvent(view, i)
         IN  /\ h = [view |-> h.view, changed |-> h.changed]
             /\ h.view \subseteq Nodes /\ UniqueCreates(h.view) /\ h.changed \in BOOLEAN
             /\ ~h.changed => Leader(h.view) = Leader(view)
             /\ compacted = 0 =>
                  h.view = {m \in view : m.create # log[i].node.create}
                             \cup IF log[i].type = "PUT" THEN {log[i].node} ELSE {}
<1>1. log[i] \in Entries
  BY Entry
<1>0. log[i].node \in Nodes
  BY <1>1 DEF Entries
<1>2. CASE log[i].type = "PUT"
  <2>1. HandleEvent(view, i) = HandleNodePut(view, log[i].node)
    BY <1>2 DEF HandleEvent
  <2> QED
    BY <1>0, <1>2, <2>1, PutKeeps
<1>3. CASE log[i].type # "PUT"
  <2>1. HandleEvent(view, i) = HandleNodeDelete(view, PrevCreate(i))
    BY <1>3 DEF HandleEvent
  <2>2. PrevCreate(i) \in Nat /\ (compacted = 0 => PrevCreate(i) = log[i].node.create)
    BY <1>0 DEF PrevCreate, Nodes
  <2> QED
    BY <1>3, <2>1, <2>2, DeleteKeeps
<1> QED
  BY <1>2, <1>3

-----------------------------------------------------------------------------
(* Lemmas about the events of one response.                                *)

\* What HandleEvents() knows after some events, and after one more.
Start == [view |-> participants_, changed |-> FALSE]

After(p, i) ==
  LET h == HandleEvent(p.view, i)
  IN  [h EXCEPT !.changed = @ \/ p.changed]

IsReplay(f, from, to) ==
  f = [i \in (from - 1)..to |-> IF i < from THEN Start ELSE After(f[i - 1], i)]

\* The definition of HandleEvents() by recursion is sound.
LEMMA ReplayExists ==
  ASSUME NEW from \in Nat \ {0}, NEW to \in Nat, from - 1 <= to
  PROVE  \E f : IsReplay(f, from, to)
<1> DEFINE Good == {n \in (from - 1)..to : \E f : IsReplay(f, from, n)}
<1>1. from - 1 \in Good
  <2> DEFINE g == [i \in (from - 1)..(from - 1) |-> Start]
  <2>1. IsReplay(g, from, from - 1)
    BY DEF IsReplay
  <2> QED
    BY <2>1
<1>2. ASSUME NEW n \in (from - 1 + 1)..to, n - 1 \in Good  PROVE n \in Good
  <2>1. PICK f : IsReplay(f, from, n - 1)
    BY <1>2
  <2> DEFINE g == [i \in (from - 1)..n |-> IF i < n THEN f[i] ELSE After(f[n - 1], n)]
  <2> HIDE DEF Good
  <2>2. \A i \in (from - 1)..n : i < from => g[i] = Start
    BY <2>1 DEF IsReplay
  <2>3. ASSUME NEW i \in from..n  PROVE g[i] = After(g[i - 1], i)
    <3>1. g[i - 1] = f[i - 1]
      OBVIOUS
    <3>2. CASE i < n
      BY <3>1, <3>2, <2>1 DEF IsReplay
    <3>3. CASE i = n
      BY <3>1, <3>3
    <3> QED
      BY <3>2, <3>3
  <2>4. \A i \in (from - 1)..n : g[i] = IF i < from THEN Start ELSE After(g[i - 1], i)
    <3> HIDE DEF g
    <3> QED  BY <2>2, <2>3
  <2>5. IsReplay(g, from, n)
    BY <2>4 DEF IsReplay
  <2> QED
    BY <2>5 DEF Good
<1>3. (from - 1)..to \subseteq Good
  <2> HIDE DEF Good
  <2> QED  BY <1>1, <1>2, RangeInduction
<1> QED
  BY <1>3

LEMMA ReplayEquation ==
  ASSUME NEW from \in Nat \ {0}, NEW to \in Nat, from - 1 <= to
  PROVE  \E f : IsReplay(f, from, to) /\ HandleEvents(from, to) = f[to]
<1> DEFINE r == CHOOSE f : IsReplay(f, from, to)
<1>1. IsReplay(r, from, to)
  BY ReplayExists
<1>2. HandleEvents(from, to) = r[to]
  BY DEF HandleEvents, IsReplay, After, Start
<1> QED
  BY <1>1, <1>2

\* Any number of events keeps one node per creation revision, and has not changed the
\* leader unless one of them says so.
LEMMA EventsKeep ==
  ASSUME log \in Seq(Entries), participants_ \subseteq Nodes, UniqueCreates(participants_),
         NEW from \in Nat \ {0}, NEW to \in (from - 1)..Len(log)
  PROVE  LET h == HandleEvents(from, to)
         IN  /\ h = [view |-> h.view, changed |-> h.changed]
             /\ h.view \subseteq Nodes /\ UniqueCreates(h.view) /\ h.changed \in BOOLEAN
             /\ ~h.changed => Leader(h.view) = Leader(participants_)
<1> DEFINE Fine(h) ==
      /\ h = [view |-> h.view, changed |-> h.changed]
      /\ h.view \subseteq Nodes /\ UniqueCreates(h.view) /\ h.changed \in BOOLEAN
      /\ ~h.changed => Leader(h.view) = Leader(participants_)
<1>0. to \in Nat /\ from - 1 \in Nat /\ Len(log) \in Nat
  OBVIOUS
<1>1. PICK f : IsReplay(f, from, to) /\ HandleEvents(from, to) = f[to]
  BY ReplayEquation, <1>0
<1> DEFINE Good == {i \in (from - 1)..to : Fine(f[i])}
<1>2. from - 1 \in Good
  <2>1. f[from - 1] = Start
    BY <1>0, <1>1 DEF IsReplay
  <2>2. Fine(Start)
    BY DEF Start
  <2> QED
    BY <1>0, <2>1, <2>2
<1>3. ASSUME NEW i \in (from - 1 + 1)..to, i - 1 \in Good  PROVE i \in Good
  <2> DEFINE h == HandleEvent(f[i - 1].view, i)
  <2>1. f[i] = After(f[i - 1], i)
    BY <1>0, <1>1 DEF IsReplay
  <2>2. Fine(f[i - 1]) /\ i \in 1..Len(log)
    BY <1>0, <1>3
  <2>3. /\ h = [view |-> h.view, changed |-> h.changed]
        /\ h.view \subseteq Nodes /\ UniqueCreates(h.view) /\ h.changed \in BOOLEAN
        /\ ~h.changed => Leader(h.view) = Leader(f[i - 1].view)
    BY <2>2, EventKeeps
  <2>4. f[i] = [view |-> h.view, changed |-> h.changed \/ f[i - 1].changed]
    BY <2>1, <2>3 DEF After
  <2>5. Fine(f[i])
    <3> HIDE DEF h
    <3>1. f[i].view = h.view /\ f[i].changed = (h.changed \/ f[i - 1].changed)
      BY <2>4
    <3>2. f[i].changed \in BOOLEAN
      BY <3>1
    <3> QED
      BY <2>2, <2>3, <2>4, <3>1, <3>2
  <2> QED
    BY <1>0, <2>5
<1>4. (from - 1)..to \subseteq Good
  <2> HIDE DEF Good
  <2> QED  BY <1>0, <1>2, <1>3, RangeInduction
<1>5. Fine(f[to])
  BY <1>0, <1>4
<1> QED
  BY <1>1, <1>5

-----------------------------------------------------------------------------
(* The types.                                                              *)

LEMMA TypesSuffice == Types => TypeOK
BY DEF Types, EtcdTypes, WatcherTypes, ViewTypes, SubscriberTypes, CountTypes, OtherTypes,
       TypeOK, Entries, Requests, UniqueCreates

LEMMA OpType ==
  /\ \A k \in {"none", "range", "write", "read"} :
       Op(k) \in Chains /\ Op(k).kind = k /\ Op(k).rev = 0 /\ Op(k).node = NoNode
  /\ IdleCallback \in Callbacks /\ IdleCallback.in = "idle"
<1>1. ASSUME NEW k \in {"none", "range", "write", "read"}
      PROVE  Op(k) \in Chains /\ Op(k).kind = k /\ Op(k).rev = 0 /\ Op(k).node = NoNode
  BY DEF Op, Chains
<1>2. IdleCallback \in Callbacks /\ IdleCallback.in = "idle"
  BY DEF IdleCallback, Callbacks
<1> QED
  BY <1>1, <1>2

LEMMA InitTypes == Init => Types
<1> SUFFICES ASSUME Init PROVE Types
  OBVIOUS
<1>1. EtcdTypes /\ WatcherTypes /\ ViewTypes
  BY ObserverAssumption DEF Init, EtcdTypes, WatcherTypes, ViewTypes, UniqueCreates
<1>2. SubscriberTypes
  BY DEF Init, SubscriberTypes
<1>3. chain \in Chains /\ chain.kind = "none" /\ chain.rev = 0 /\ chain.node = NoNode
  BY OpType DEF Init
<1>4. callback \in Callbacks /\ callback.in = "idle"
  BY OpType DEF Init
<1>5. CountTypes
  <2>1. opsShutdown \in BOOLEAN /\ cancelling \in BOOLEAN /\ ~cancelling /\ ops_ = 0 /\ app = "new"
    BY DEF Init
  <2> QED
    BY <1>3, <1>4, <2>1, ObserverAssumption DEF CountTypes
<1>6. OtherTypes
  BY <1>4, ObserverAssumption DEF Init, OtherTypes
<1> QED
  BY <1>1, <1>2, <1>5, <1>6 DEF Types

\* A part of the state that does not change keeps its types.
LEMMA PartsKeep ==
  /\ EtcdTypes /\ UNCHANGED etcd => EtcdTypes'
  /\ WatcherTypes /\ UNCHANGED watcher => WatcherTypes'
  /\ ViewTypes /\ UNCHANGED participants_ => ViewTypes'
  /\ SubscriberTypes /\ UNCHANGED subs => SubscriberTypes'
  /\ CountTypes /\ UNCHANGED <<counter, app, chain, cancelling, callback>> => CountTypes'
  /\ OtherTypes /\ UNCHANGED <<stream, callback, failures>> => OtherTypes'
BY DEF EtcdTypes, WatcherTypes, ViewTypes, SubscriberTypes, CountTypes, OtherTypes, UniqueCreates,
       etcd, watcher, subs, counter

\* A change of the election keeps the types, when the nodes do.
LEMMA ChangeTypes ==
  ASSUME EtcdTypes, Revision < MaxRevision, nodes' \subseteq Nodes,
         \A n \in nodes' : n.create <= MaxRevision, UNCHANGED compacted,
         NEW type \in {"PUT", "DELETE"}, NEW n \in Nodes, Change(type, n)
  PROVE  EtcdTypes'
<1> DEFINE e == [type |-> type, node |-> n]
<1>1. e \in Entries
  BY DEF Entries
<1>2. log' = Append(log, e) /\ log \in Seq(Entries)
  BY DEF Change, EtcdTypes
<1> HIDE DEF e
<1>3. log' \in Seq(Entries) /\ Len(log') = Len(log) + 1
  BY <1>1, <1>2, Appended
<1> QED
  BY <1>3 DEF EtcdTypes, Revision

\* The types are preserved by what etcd does.
LEMMA EtcdKeepsTypes == ASSUME Types, Etcd PROVE Types'
<1> USE DEF Types
<1>0. log \in Seq(Entries) /\ Len(log) \in Nat /\ nodes \subseteq Nodes /\ MaxRevision \in Nat
  BY ObserverAssumption DEF EtcdTypes
<1>1. CASE Create
  <2>1. PICK k \in Keys : LET new == [create |-> Revision + 1, key |-> k, value |-> FirstValue]
                          IN  nodes' = nodes \cup {new} /\ Change("PUT", new)
    BY <1>1 DEF Create
  <2> DEFINE new == [create |-> Revision + 1, key |-> k, value |-> FirstValue]
  <2>2. new \in Nodes /\ new.create = Len(log) + 2 /\ Len(log) + 2 <= MaxRevision
    BY <1>0, <1>1, ObserverAssumption DEF Nodes, Create, Revision
  <2>3. nodes' = nodes \cup {new} /\ Change("PUT", new)
    BY <2>1
  <2> HIDE DEF new
  <2>4. EtcdTypes'
    BY <1>0, <1>1, <2>2, <2>3, ChangeTypes DEF Create, EtcdTypes
  <2> QED
    BY <1>1, <2>4, PartsKeep DEF Create
<1>2. CASE Proclaim
  <2>1. PICK n \in nodes, v \in Values : LET new == [n EXCEPT !.value = v]
                                        IN  nodes' = (nodes \ {n}) \cup {new} /\ Change("PUT", new)
    BY <1>2 DEF Proclaim
  <2> DEFINE new == [n EXCEPT !.value = v]
  <2>2. new \in Nodes /\ new.create = n.create
    BY <1>0 DEF Nodes
  <2>3. nodes' = (nodes \ {n}) \cup {new} /\ Change("PUT", new)
    BY <2>1
  <2> HIDE DEF new
  <2>4. EtcdTypes'
    BY <1>0, <1>2, <2>2, <2>3, ChangeTypes DEF Proclaim, EtcdTypes
  <2> QED
    BY <1>2, <2>4, PartsKeep DEF Proclaim
<1>3. CASE Delete
  <2>1. PICK n \in nodes : nodes' = nodes \ {n} /\ Change("DELETE", n)
    BY <1>3 DEF Delete
  <2>2. EtcdTypes'
    BY <1>0, <1>3, <2>1, ChangeTypes DEF Delete, EtcdTypes
  <2> QED
    BY <1>3, <2>2, PartsKeep DEF Delete
<1>4. CASE Compact
  <2>1. EtcdTypes' /\ OtherTypes'
    BY <1>0, <1>4, ObserverAssumption DEF Compact, EtcdTypes, Revision, OtherTypes, Fails
  <2> QED
    BY <1>4, <2>1, PartsKeep DEF Compact
<1>5. CASE ServeRange
  <2> DEFINE reply == [kind |-> "reply", node |-> Leader(nodes), rev |-> Revision]
  <2>1. Leader(nodes) \in nodes \/ Leader(nodes) = NoNode
    BY <1>0, LeaderIsFirst DEF Leader
  <2>2. reply \in Chains
    BY <1>0, <2>1 DEF Chains, Revision
  <2>3. CountTypes'
    BY <1>0, <1>5, <2>1, <2>2 DEF ServeRange, CountTypes, EtcdTypes, Revision, counter
  <2> QED
    BY <1>5, <2>3, PartsKeep DEF ServeRange
<1>6. CASE RangeFails
  <2> DEFINE reply == [kind |-> "reply", node |-> NoNode, rev |-> 0]
  <2>1. reply \in Chains
    BY DEF Chains
  <2>2. CountTypes'
    BY <1>0, <1>6, <2>1 DEF RangeFails, CountTypes, counter
  <2>3. OtherTypes'
    BY <1>6, ObserverAssumption DEF RangeFails, OtherTypes, Fails
  <2> QED
    BY <1>6, <2>2, <2>3, PartsKeep DEF RangeFails
<1>7. CASE ServeWatch
  <2>1. requests \in Seq(Requests) /\ requests # <<>>
    BY <1>7 DEF ServeWatch, WatcherTypes
  <2>2. Head(requests) \in Requests /\ Tail(requests) \in Seq(Requests)
    BY <2>1
  <2>3. Head(requests).start \in 0..MaxRevision
    BY <2>2 DEF Requests
  <2>4. WatcherTypes'
    BY <1>0, <1>7, <2>2, <2>3 DEF ServeWatch, WatcherTypes, EtcdTypes
  <2> QED
    BY <1>7, <2>4, PartsKeep DEF ServeWatch
<1>8. CASE StreamBreaks
  <2>1. OtherTypes'
    BY <1>8, ObserverAssumption DEF StreamBreaks, OtherTypes, Fails
  <2> QED
    BY <1>8, <2>1, PartsKeep DEF StreamBreaks
<1> QED
  BY <1>1, <1>2, <1>3, <1>4, <1>5, <1>6, <1>7, <1>8 DEF Etcd

\* What on_range_request() and on_watch_read() tell the subscribers.
LEMMA CallbackType ==
  ASSUME NEW in \in {"range", "read"}, NEW h, h.view \subseteq Nodes, h.changed \in BOOLEAN,
         SubscriberTypes, CallSubscribers(in, h)
  PROVE  /\ callback' \in Callbacks /\ callback'.in = in /\ callback'.calls = h.changed
         /\ callback'.with = Leader(h.view)
         /\ callback'.copy = subscriptions_ /\ callback'.called = {}
<1>1. Leader(h.view) \in Nodes \cup {NoNode} /\ subscriptions_ \subseteq Subscribers
  BY LeaderType DEF SubscriberTypes
<1> QED
  BY <1>1 DEF CallSubscribers, Callbacks

\* The types are preserved by the completion queue thread.
LEMMA RangeRequestKeepsTypes == ASSUME Types, OnRangeRequest PROVE Types'
<1> USE DEF Types
<1>1. chain.kind = "reply" /\ callback.in = "idle" /\ chain \in Chains
  BY DEF OnRangeRequest, CountTypes
<1>2. chain.node \in Nodes \cup {NoNode} /\ chain.rev \in Nat
  BY <1>1 DEF Chains
<1>3. WatchStart \in 0..MaxRevision
  BY <1>2, ObserverAssumption DEF WatchStart, CountTypes, Nodes
<1>4. WatcherTypes'
  <2> DEFINE r == [type |-> "create", start |-> WatchStart]
  <2>1. r \in Requests
    BY <1>3 DEF Requests
  <2>2. requests \in Seq(Requests) /\ (UNCHANGED requests \/ requests' = Append(requests, r))
    BY DEF OnRangeRequest, CreateWatcher, WatcherTypes
  <2> HIDE DEF r
  <2>3. requests' \in Seq(Requests)
    BY <2>1, <2>2
  <2> QED
    BY <2>3 DEF OnRangeRequest, WatcherTypes
<1>5. /\ chain' \in Chains /\ chain'.kind \in {"none", "write"} /\ chain'.rev = 0
      /\ chain'.node = NoNode
  BY OpType DEF OnRangeRequest, CreateWatcher
<1>6. ops_' = (IF chain'.kind = "none" THEN 0 ELSE 1) + (IF cancelling THEN 1 ELSE 0)
  BY <1>1, OpType DEF OnRangeRequest, CreateWatcher, CountTypes
<1>7. /\ ViewTypes' /\ callback' \in Callbacks /\ callback'.in \in {"idle", "range"}
  <2>1. CASE chain.node = NoNode
    BY <1>1, <1>2, <2>1, PartsKeep, ObserverAssumption DEF OnRangeRequest, OtherTypes
  <2>2. CASE chain.node # NoNode
    <3> DEFINE h == HandleNodePut(participants_, chain.node)
    <3>1. participants_' = h.view /\ CallSubscribers("range", h)
      BY <2>2 DEF OnRangeRequest
    <3>2. h.view \subseteq Nodes /\ UniqueCreates(h.view) /\ h.changed \in BOOLEAN
      BY <1>2, <2>2, PutKeeps DEF ViewTypes
    <3> QED
      BY <3>1, <3>2, CallbackType DEF ViewTypes, UniqueCreates
  <2> QED
    BY <2>1, <2>2
<1>8. CountTypes'
  BY <1>1, <1>5, <1>6, <1>7, ObserverAssumption DEF OnRangeRequest, CountTypes
<1>9. OtherTypes'
  BY <1>7 DEF OnRangeRequest, OtherTypes
<1> QED
  BY <1>4, <1>7, <1>8, <1>9, PartsKeep DEF OnRangeRequest

LEMMA WatchReadKeepsTypes == ASSUME Types, OnWatchRead PROVE Types'
<1> USE DEF Types
<1>1. /\ chain' \in Chains /\ chain'.kind = "none" /\ chain'.rev = 0 /\ chain'.node = NoNode
      /\ chain.kind = "read"
  BY OpType DEF OnWatchRead
<1>2. /\ ViewTypes' /\ callback' \in Callbacks /\ callback'.in = "read"
      /\ next' \in 1..MaxRevision /\ watch' \in {"created", "active"}
  <2>1. CASE watch = "created" /\ UNCHANGED <<next, participants_>> /\ watch' = "active"
               /\ CallSubscribers("read", [view |-> participants_, changed |-> FALSE])
    <3> DEFINE h == [view |-> participants_, changed |-> FALSE]
    <3>1. h.view \subseteq Nodes /\ h.changed \in BOOLEAN
      BY DEF ViewTypes
    <3>2. CallSubscribers("read", h)
      BY <2>1
    <3> HIDE DEF h
    <3> QED
      BY <2>1, <3>1, <3>2, CallbackType, PartsKeep DEF WatcherTypes
  <2>2. CASE watch = "active" /\ UNCHANGED watch
    <3>1. PICK to \in next..Len(log) :
            LET h == HandleEvents(next, to)
            IN  participants_' = h.view /\ CallSubscribers("read", h) /\ next' = to + 1
      BY <2>2 DEF OnWatchRead
    <3> DEFINE h == HandleEvents(next, to)
    <3>2. next \in Nat \ {0} /\ to \in (next - 1)..Len(log) /\ to < MaxRevision /\ to \in Nat
      BY <3>1, ObserverAssumption DEF WatcherTypes, EtcdTypes
    <3>3. h.view \subseteq Nodes /\ UniqueCreates(h.view) /\ h.changed \in BOOLEAN
      BY <3>2, EventsKeep DEF EtcdTypes, ViewTypes
    <3>4. participants_' = h.view /\ CallSubscribers("read", h) /\ next' = to + 1
      BY <3>1
    <3> HIDE DEF h
    <3>5. callback' \in Callbacks /\ callback'.in = "read"
      BY <3>3, <3>4, CallbackType
    <3> QED
      BY <2>2, <3>2, <3>3, <3>4, <3>5, ObserverAssumption DEF ViewTypes, UniqueCreates
  <2> QED
    BY <2>1, <2>2 DEF OnWatchRead
<1>3. CountTypes'
  BY <1>1, <1>2, ObserverAssumption DEF OnWatchRead, CountTypes
<1>4. OtherTypes' /\ WatcherTypes'
  BY <1>2 DEF OnWatchRead, OtherTypes, WatcherTypes
<1> QED
  BY <1>2, <1>3, <1>4, PartsKeep DEF OnWatchRead

LEMMA CallbackKeepsTypes == ASSUME Types, Callback PROVE Types'
<1> USE DEF Types
<1>1. CASE OnRangeCancelled
  <2>1. CountTypes'
    BY <1>1, OpType, ObserverAssumption DEF OnRangeCancelled, CountTypes
  <2>2. OtherTypes'
    BY <1>1, ObserverAssumption DEF OnRangeCancelled, OtherTypes, Fails
  <2> QED
    BY <1>1, <2>1, <2>2, PartsKeep DEF OnRangeCancelled
<1>2. CASE OnWatchCreate
  <2>1. CountTypes'
    BY <1>2, OpType, ObserverAssumption DEF OnWatchCreate, CountTypes
  <2> QED
    BY <1>2, <2>1, PartsKeep DEF OnWatchCreate
<1>3. CASE OnWatchReadEnds
  <2>1. CountTypes'
    BY <1>3, OpType, ObserverAssumption DEF OnWatchReadEnds, CountTypes
  <2> QED
    BY <1>3, <2>1, PartsKeep DEF OnWatchReadEnds
<1>4. CASE OnWatchCancel
  <2>1. CountTypes'
    <3>1. cancelling /\ cancelling' \in BOOLEAN /\ ~cancelling' /\ ops_' = ops_ - 1
      BY <1>4 DEF OnWatchCancel
    <3>2. ops_' = (IF chain.kind = "none" THEN 0 ELSE 1)
      BY <3>1 DEF CountTypes
    <3> QED
      BY <1>4, <3>1, <3>2 DEF OnWatchCancel, CountTypes
  <2> QED
    BY <1>4, <2>1, PartsKeep DEF OnWatchCancel
<1>5. ASSUME NEW s \in Subscribers, CallSubscriber(s)  PROVE Types'
  <2>1. /\ callback' = [callback EXCEPT !.called = @ \cup {s}] /\ callback \in Callbacks
        /\ callback.with \in Nodes \cup {NoNode}
    BY <1>5 DEF CallSubscriber, OtherTypes, Callbacks
  <2>2. callback' \in Callbacks /\ callback'.in = callback.in
    BY <2>1 DEF Callbacks
  <2>3. CountTypes' /\ OtherTypes'
    BY <1>5, <2>2 DEF CallSubscriber, CountTypes, OtherTypes, counter
  <2>4. SubscriberTypes'
    BY <1>5, <2>1 DEF CallSubscriber, SubscriberTypes
  <2> QED
    BY <1>5, <2>3, <2>4, PartsKeep DEF CallSubscriber
<1>6. CASE Return
  <2>1. callback' \in Callbacks /\ callback'.in = "idle"
    BY <1>6, OpType DEF Return
  <2>2. CountTypes'
    BY <1>6, <2>1, OpType, ObserverAssumption DEF Return, StartRead, CountTypes
  <2>3. OtherTypes'
    BY <1>6, <2>1 DEF Return, OtherTypes
  <2> QED
    BY <1>6, <2>2, <2>3, PartsKeep DEF Return
<1> QED
  BY <1>1, <1>2, <1>3, <1>4, <1>5, <1>6, RangeRequestKeepsTypes, WatchReadKeepsTypes DEF Callback

\* The types are preserved by the threads that subscribe.
LEMMA SubscriptionKeepsTypes == ASSUME Types, Subscription PROVE Types'
<1> USE DEF Types
<1>0. PICK s \in Subscribers : Subscribe(s) \/ SubscribeAdd(s) \/ Unsubscribe(s)
  BY DEF Subscription
<1>1. Leader(participants_) \in Nodes \cup {NoNode}
  BY LeaderType DEF ViewTypes
<1>2. CASE Subscribe(s)
  <2>1. SubscriberTypes'
    BY <1>1, <1>2 DEF Subscribe, SubscriberTypes
  <2> QED
    BY <1>2, <2>1, PartsKeep DEF Subscribe
<1>3. CASE SubscribeAdd(s)
  <2>1. SubscriberTypes'
    BY <1>3 DEF SubscribeAdd, SubscriberTypes
  <2> QED
    BY <1>3, <2>1, PartsKeep DEF SubscribeAdd
<1>4. CASE Unsubscribe(s)
  <2>1. SubscriberTypes'
    BY <1>4 DEF Unsubscribe, SubscriberTypes
  <2> QED
    BY <1>4, <2>1, PartsKeep DEF Unsubscribe
<1> QED
  BY <1>0, <1>2, <1>3, <1>4

\* The types are preserved by the application thread.
LEMMA ApplicationKeepsTypes == ASSUME Types, Application PROVE Types'
<1> USE DEF Types
<1>1. CASE Startup
  <2>1. CountTypes'
    BY <1>1, OpType, ObserverAssumption DEF Startup, Discover, CountTypes
  <2>2. OtherTypes'
    BY <1>1, ObserverAssumption DEF Startup, CreateWatcherStream, Fails, OtherTypes
  <2> QED
    BY <1>1, <2>1, <2>2, PartsKeep DEF Startup
<1>2. CASE Shutdown
  <2> DEFINE r == [type |-> "cancel", start |-> 0]
  <2>1. r \in Requests
    BY ObserverAssumption DEF Requests
  <2>2. requests \in Seq(Requests) /\ requests' = Append(requests, r)
    BY <1>2 DEF Shutdown, CancelWatcher, WatcherTypes
  <2> HIDE DEF r
  <2>3. requests' \in Seq(Requests)
    BY <2>1, <2>2
  <2>4. WatcherTypes'
    BY <1>2, <2>3 DEF Shutdown, WatcherTypes
  <2>5. CountTypes'
    BY <1>2 DEF Shutdown, CancelWatcher, CountTypes
  <2> QED
    BY <1>2, <2>4, <2>5, PartsKeep DEF Shutdown
<1>3. CASE Cleanup
  <2>1. CountTypes' /\ OtherTypes'
    BY <1>3 DEF Cleanup, CountTypes, OtherTypes, counter
  <2> QED
    BY <1>3, <2>1, PartsKeep DEF Cleanup
<1>4. CASE CleanupOps
  <2>1. CountTypes'
    BY <1>4 DEF CleanupOps, CountTypes
  <2> QED
    BY <1>4, <2>1, PartsKeep DEF CleanupOps
<1>5. CASE CleanupDone
  <2>1. CountTypes'
    BY <1>5 DEF CleanupDone, CountTypes, counter
  <2> QED
    BY <1>5, <2>1, PartsKeep DEF CleanupDone
<1> QED
  BY <1>1, <1>2, <1>3, <1>4, <1>5 DEF Application

LEMMA NextTypes == Types /\ [Next]_vars => Types'
<1>1. Types /\ UNCHANGED vars => Types'
  BY PartsKeep DEF Types, vars
<1> QED
  BY <1>1, EtcdKeepsTypes, CallbackKeepsTypes, SubscriptionKeepsTypes, ApplicationKeepsTypes
     DEF Next

\* The types, one participant per creation revision, and the operations that the counter
\* counts, for every instance.
THEOREM TypeCorrect == Spec => []TypeOK
<1>1. Spec => []Types
  BY InitTypes, NextTypes, PTL DEF Spec
<1> QED
  BY <1>1, TypesSuffice, PTL

-----------------------------------------------------------------------------
(* The observer keeps to the contract of its counter.                      *)

\* What the counter counts, and whether it is shut down, in terms of the observer.
LEMMA OpsUntouched ==
  ASSUME chain'.kind # "none" <=> chain.kind # "none",
         UNCHANGED <<opsShutdown, cancelling>>, app' = "destroyed" <=> app = "destroyed"
  PROVE  UNCHANGED OpsContract!vars
BY DEF OpsContract!vars

LEMMA ChainAdmitted ==
  ASSUME ~opsShutdown, chain.kind = "none", chain'.kind # "none",
         UNCHANGED <<opsShutdown, cancelling>>, app' = "destroyed" <=> app = "destroyed"
  PROVE  OpsContract!Next
<1>1. OpsContract!Admit("chain")
  BY DEF OpsContract!Admit
<1> QED
  BY <1>1 DEF OpsContract!Next

LEMMA ChainDone ==
  ASSUME chain.kind # "none", chain'.kind = "none",
         UNCHANGED <<opsShutdown, cancelling, app>>
  PROVE  OpsContract!Next
<1>1. OpsContract!Done("chain")
  BY DEF OpsContract!Done
<1> QED
  BY <1>1 DEF OpsContract!Next

\* The counter is shut down while the destructor waits for it, and not before.
ShutDown == opsShutdown <=> app \in {"waiting", "destroyed"}

LEMMA InitShutDown == Init => ShutDown
BY DEF Init, ShutDown

LEMMA NextShutDown == ShutDown /\ [Next]_vars => ShutDown'
<1> SUFFICES ASSUME ShutDown, [Next]_vars PROVE ShutDown'
  OBVIOUS
<1> USE DEF ShutDown, counter
<1>1. CASE Etcd
  BY <1>1 DEF Etcd, Create, Proclaim, Delete, Compact, ServeRange, RangeFails, ServeWatch,
              StreamBreaks
<1>2. CASE Callback
  BY <1>2 DEF Callback, OnRangeRequest, OnRangeCancelled, OnWatchCreate, OnWatchRead,
              OnWatchReadEnds, OnWatchCancel, CallSubscriber, Return
<1>3. CASE Subscription
  BY <1>3 DEF Subscription, Subscribe, SubscribeAdd, Unsubscribe
<1>4. CASE Application
  BY <1>4 DEF Application, Startup, Shutdown, Cleanup, CleanupOps, CleanupDone
<1>5. CASE UNCHANGED vars
  BY <1>5 DEF vars
<1> QED
  BY <1>1, <1>2, <1>3, <1>4, <1>5 DEF Next

LEMMA EtcdLeavesOps == ASSUME Types, Etcd PROVE UNCHANGED OpsContract!vars
<1>1. CASE Create \/ Proclaim \/ Delete \/ Compact \/ ServeWatch \/ StreamBreaks
  <2>1. UNCHANGED <<chain, opsShutdown, cancelling, app>>
    BY <1>1 DEF Create, Proclaim, Delete, Compact, ServeWatch, StreamBreaks, counter
  <2> QED
    BY <2>1, OpsUntouched
<1>2. CASE ServeRange \/ RangeFails
  <2>1. chain.kind # "none" /\ chain'.kind # "none"
    BY <1>2 DEF ServeRange, RangeFails
  <2>2. UNCHANGED <<opsShutdown, cancelling, app>>
    BY <1>2 DEF ServeRange, RangeFails, counter
  <2> QED
    BY <2>1, <2>2, OpsUntouched
<1> QED
  BY <1>1, <1>2 DEF Etcd

LEMMA CallbackUsesOps ==
  ASSUME Types, Callback PROVE [OpsContract!Next]_OpsContract!vars
<1>1. CASE OnRangeRequest \/ OnRangeCancelled \/ OnWatchCreate
  <2>1. chain.kind # "none" /\ UNCHANGED <<opsShutdown, cancelling, app>>
    BY <1>1 DEF OnRangeRequest, OnRangeCancelled, OnWatchCreate
  <2> QED
    BY <2>1, OpsUntouched, ChainDone
<1>2. CASE OnWatchRead \/ OnWatchReadEnds
  <2>1. chain.kind # "none" /\ chain'.kind = "none" /\ UNCHANGED <<opsShutdown, cancelling, app>>
    BY <1>2, OpType DEF OnWatchRead, OnWatchReadEnds
  <2> QED
    BY <2>1, ChainDone
<1>3. CASE OnWatchCancel
  <2>1. OpsContract!Done("cancel")
    BY <1>3 DEF OnWatchCancel, OpsContract!Done, Types, CountTypes
  <2> QED
    BY <2>1 DEF OpsContract!Next
<1>4. CASE \E s \in Subscribers : CallSubscriber(s)
  <2>1. UNCHANGED <<chain, opsShutdown, cancelling, app>>
    BY <1>4 DEF CallSubscriber, counter
  <2> QED
    BY <2>1, OpsUntouched
<1>5. CASE Return
  <2>1. UNCHANGED <<opsShutdown, cancelling, app>>
    BY <1>5 DEF Return
  <2>2. CASE UNCHANGED chain
    BY <2>1, <2>2, OpsUntouched
  <2>3. CASE callback.in = "read" /\ StartRead
    <3>1. chain.kind = "none"
      BY <2>3 DEF Types, CountTypes
    <3>2. CASE opsShutdown
      <4>1. chain'.kind = "none"
        BY <2>3, <3>2, OpType DEF StartRead
      <4> QED
        BY <2>1, <3>1, <4>1, OpsUntouched
    <3>3. CASE ~opsShutdown
      <4>1. chain'.kind = "read"
        BY <2>3, <3>3, OpType DEF StartRead
      <4> QED
        BY <2>1, <3>1, <3>3, <4>1, ChainAdmitted
    <3> QED
      BY <3>2, <3>3
  <2> QED
    BY <1>5, <2>2, <2>3 DEF Return
<1> QED
  BY <1>1, <1>2, <1>3, <1>4, <1>5 DEF Callback

LEMMA ApplicationUsesOps ==
  ASSUME Types, ShutDown, Application PROVE [OpsContract!Next]_OpsContract!vars
<1>1. CASE Startup
  <2>1. chain.kind = "none" /\ ~opsShutdown /\ (chain'.kind = "range" \/ UNCHANGED chain)
    BY <1>1, OpType DEF Startup, Discover, Types, CountTypes, ShutDown
  <2>2. UNCHANGED <<opsShutdown, cancelling>> /\ app # "destroyed" /\ app' # "destroyed"
    BY <1>1 DEF Startup
  <2> QED
    BY <2>1, <2>2, ChainAdmitted, OpsUntouched
<1>2. CASE Shutdown
  <2>1. ~cancelling /\ ~opsShutdown
    BY <1>2 DEF Shutdown, Types, CountTypes, ShutDown
  <2>2. cancelling' = TRUE /\ UNCHANGED <<opsShutdown, chain>>
    BY <1>2 DEF Shutdown, CancelWatcher
  <2>3. OpsContract!Admit("cancel")
    BY <1>2, <2>1, <2>2 DEF Shutdown, OpsContract!Admit
  <2> QED
    BY <2>3 DEF OpsContract!Next
<1>3. CASE Cleanup
  <2>1. UNCHANGED <<chain, opsShutdown, cancelling>> /\ app # "destroyed" /\ app' # "destroyed"
    BY <1>3 DEF Cleanup, counter
  <2> QED
    BY <2>1, OpsUntouched
<1>4. CASE CleanupOps
  BY <1>4 DEF CleanupOps, OpsContract!Next, OpsContract!Close
<1>5. CASE CleanupDone
  <2>1. opsShutdown = TRUE
    BY <1>5 DEF CleanupDone, ShutDown, Types, CountTypes
  <2>2. chain.kind = "none" /\ ~cancelling
    BY <1>5 DEF CleanupDone, Types, CountTypes
  <2>3. OpsContract!LetThrough("application")
    BY <1>5, <2>1, <2>2 DEF CleanupDone, OpsContract!LetThrough, counter
  <2> QED
    BY <2>3 DEF OpsContract!Next
<1> QED
  BY <1>1, <1>2, <1>3, <1>4, <1>5 DEF Application

LEMMA OpsStep ==
  Types /\ ShutDown /\ [Next]_vars => [OpsContract!Next]_OpsContract!vars
<1>1. ASSUME Subscription \/ UNCHANGED vars PROVE UNCHANGED OpsContract!vars
  <2>1. UNCHANGED <<chain, opsShutdown, cancelling, app>>
    BY <1>1 DEF Subscription, Subscribe, SubscribeAdd, Unsubscribe, counter, vars
  <2> QED
    BY <2>1, OpsUntouched
<1> QED
  BY <1>1, EtcdLeavesOps, CallbackUsesOps, ApplicationUsesOps DEF Next

\* The observer keeps to the contract of its counter of operations, whatever fails:
\* nothing is started after ops_ is shut down, also by a callback that was running then,
\* and the destructor returns only when nothing that was started is left.
THEOREM ObserverUsesCounter == Spec => UsesCounter
<1>1. Init => OpsContract!Init
  BY OpType DEF Init, OpsContract!Init
<1> QED
  BY <1>1, InitTypes, NextTypes, InitShutDown, NextShutDown, OpsStep, PTL
     DEF Spec, UsesCounter, OpsContract!Spec

-----------------------------------------------------------------------------
(* Subscribers know the leader.                                            *)

\* Most steps leave alone what the subscribers know and what there is to know.
LEMMA OthersInform ==
  ASSUME Informs, UNCHANGED <<participants_, callback, subs>>
  PROVE  Informs'
BY DEF Informs, Idle, CallsWithLeader, Informed, subs

\* A callback that changed the participants, and calls everyone if the leader changed.
LEMMA NewLeaderInforms ==
  ASSUME Types, Informs, callback.in = "idle", UNCHANGED subs,
         NEW in \in {"range", "read"}, NEW h, h.view \subseteq Nodes, h.changed \in BOOLEAN,
         ~h.changed => Leader(h.view) = Leader(participants_),
         participants_' = h.view, CallSubscribers(in, h)
  PROVE  Informs'
<1>1. /\ callback'.in = in /\ callback'.calls = h.changed /\ callback'.with = Leader(h.view)
      /\ callback'.copy = subscriptions_ /\ callback'.called = {}
  BY CallbackType DEF Types
<1>2. CallsWithLeader' /\ Idle'
  BY <1>1 DEF CallsWithLeader, Idle
<1>3. ASSUME NEW s \in Subscribers  PROVE Informed(s)'
  <2>1. Informed(s) /\ sub'[s] = sub[s] /\ told'[s] = told[s]
    BY DEF Informs, subs
  <2>2. sub[s] = "in" => told[s] = Leader(participants_) /\ s \in subscriptions_
    BY <2>1 DEF Informed, Types, SubscriberTypes
  <2>3. CASE h.changed
    BY <1>1, <2>1, <2>2, <2>3 DEF Informed
  <2>4. CASE ~h.changed
    BY <1>1, <2>1, <2>2, <2>4 DEF Informed
  <2> QED
    BY <2>3, <2>4
<1> QED
  BY <1>2, <1>3 DEF Informs

LEMMA CallbackInforms == ASSUME Types, Informs, Callback PROVE Informs'
<1>1. CASE OnRangeRequest
  <2>1. CASE chain.node = NoNode
    BY <1>1, <2>1, OthersInform DEF OnRangeRequest
  <2>2. CASE chain.node # NoNode
    <3> DEFINE h == HandleNodePut(participants_, chain.node)
    <3>1. participants_' = h.view /\ CallSubscribers("range", h)
      BY <1>1, <2>2 DEF OnRangeRequest
    <3>2. chain \in Chains /\ chain.kind = "reply" /\ participants_ \subseteq Nodes
      BY <1>1 DEF OnRangeRequest, Types, CountTypes, ViewTypes
    <3>3. chain.node \in Nodes
      BY <3>2, <2>2 DEF Chains
    <3>4. /\ h.view \subseteq Nodes /\ h.changed \in BOOLEAN
          /\ ~h.changed => Leader(h.view) = Leader(participants_)
      BY <3>2, <3>3, PutKeeps DEF Types, ViewTypes
    <3> HIDE DEF h
    <3> QED
      BY <1>1, <3>1, <3>4, NewLeaderInforms DEF OnRangeRequest
  <2> QED
    BY <2>1, <2>2
<1>2. CASE OnWatchRead
  <2> DEFINE Done(h) ==
        /\ h.view \subseteq Nodes /\ h.changed \in BOOLEAN
        /\ ~h.changed => Leader(h.view) = Leader(participants_)
        /\ participants_' = h.view /\ CallSubscribers("read", h)
  <2>1. \E h : Done(h)
    <3>1. CASE UNCHANGED participants_
                 /\ CallSubscribers("read", [view |-> participants_, changed |-> FALSE])
      <4> DEFINE h == [view |-> participants_, changed |-> FALSE]
      <4>1. Done(h)
        BY <3>1 DEF Types, ViewTypes
      <4> QED
        BY <4>1
    <3>2. ASSUME NEW to \in next..Len(log),
                 participants_' = HandleEvents(next, to).view,
                 CallSubscribers("read", HandleEvents(next, to))
          PROVE  Done(HandleEvents(next, to))
      <4>1. next \in Nat \ {0} /\ to \in (next - 1)..Len(log)
        BY ObserverAssumption DEF Types, WatcherTypes, EtcdTypes
      <4> QED
        BY <3>2, <4>1, EventsKeep DEF Types, EtcdTypes, ViewTypes
    <3> QED
      BY <1>2, <3>1, <3>2 DEF OnWatchRead
  <2> QED
    BY <1>2, <2>1, NewLeaderInforms DEF OnWatchRead
<1>3. ASSUME NEW s \in Subscribers, CallSubscriber(s)  PROVE Informs'
  <2>1. /\ callback' = [callback EXCEPT !.called = @ \cup {s}] /\ callback \in Callbacks
        /\ callback.calls /\ UNCHANGED participants_ /\ s \in subscriptions_
    BY <1>3 DEF CallSubscriber, Types, OtherTypes
  <2>2. /\ callback'.in = callback.in /\ callback'.with = callback.with
        /\ callback'.calls = callback.calls /\ callback'.copy = callback.copy
        /\ callback'.called = callback.called \cup {s}
    BY <2>1 DEF Callbacks
  <2>3. /\ told' = [told EXCEPT ![s] = callback.with] /\ sub' = [sub EXCEPT ![s] = "in"]
        /\ DOMAIN told = Subscribers /\ DOMAIN sub = Subscribers
    BY <1>3 DEF CallSubscriber, Types, SubscriberTypes
  <2>4. callback.in # "idle"
    BY <2>1 DEF Informs, Idle
  <2>5. CallsWithLeader' /\ Idle'
    BY <2>1, <2>2, <2>4 DEF Informs, CallsWithLeader, Idle
  <2>6. ASSUME NEW c \in Subscribers  PROVE Informed(c)'
    BY <2>1, <2>2, <2>3, <2>4 DEF Informs, CallsWithLeader, Informed
  <2> QED
    BY <2>5, <2>6 DEF Informs
<1>4. CASE Return
  <2>1. /\ callback'.in = "idle" /\ ~callback'.calls
        /\ UNCHANGED <<participants_, sub, told, subscriptions_>>
    BY <1>4 DEF Return, subs, IdleCallback
  <2>2. ASSUME NEW s \in Subscribers  PROVE Informed(s)'
    <3>1. Informed(s) /\ (sub[s] = "in" => s \in subscriptions_)
      BY DEF Informs, Types, SubscriberTypes
    <3>2. callback.calls => callback.copy \cap subscriptions_ \subseteq callback.called
      BY <1>4 DEF Return, CallsOver
    <3> QED
      BY <2>1, <3>1, <3>2 DEF Informed
  <2> QED
    BY <2>1, <2>2 DEF Informs, CallsWithLeader, Idle
<1>5. CASE OnRangeCancelled \/ OnWatchCreate \/ OnWatchReadEnds \/ OnWatchCancel
  BY <1>5, OthersInform DEF OnRangeCancelled, OnWatchCreate, OnWatchReadEnds, OnWatchCancel
<1> QED
  BY <1>1, <1>2, <1>3, <1>4, <1>5 DEF Callback

LEMMA SubscriptionInforms == ASSUME Types, Informs, Subscription PROVE Informs'
<1>0. PICK s \in Subscribers : Subscribe(s) \/ SubscribeAdd(s) \/ Unsubscribe(s)
  BY DEF Subscription
<1>1. /\ UNCHANGED <<participants_, callback>>
      /\ DOMAIN sub = Subscribers /\ DOMAIN told = Subscribers
  BY <1>0 DEF Subscribe, SubscribeAdd, Unsubscribe, Types, SubscriberTypes
<1>2. ASSUME NEW c \in Subscribers, c # s  PROVE Informed(c)'
  <2>1. sub'[c] = sub[c] /\ told'[c] = told[c]
    BY <1>0, <1>1, <1>2 DEF Subscribe, SubscribeAdd, Unsubscribe
  <2> QED
    BY <1>1, <2>1 DEF Informs, Informed
<1>3. Informed(s)'
  <2>1. CASE Subscribe(s)
    <3>1. CASE participants_ = {} /\ sub' = [sub EXCEPT ![s] = "in"] /\ UNCHANGED told
      BY <1>1, <2>1, <3>1 DEF Subscribe, Informs, Informed, Leader
    <3>2. CASE sub' = [sub EXCEPT ![s] = "called"]
      BY <1>1, <3>2 DEF Informed
    <3> QED
      BY <2>1, <3>1, <3>2 DEF Subscribe
  <2>2. CASE SubscribeAdd(s) \/ Unsubscribe(s)
    BY <1>1, <2>2 DEF SubscribeAdd, Unsubscribe, Informed
  <2> QED
    BY <1>0, <2>1, <2>2
<1> QED
  BY <1>1, <1>2, <1>3 DEF Informs, CallsWithLeader, Idle

LEMMA NextInforms == Types /\ Informs /\ [Next]_vars => Informs'
<1>1. ASSUME Informs, Etcd PROVE Informs'
  BY <1>1, OthersInform DEF Etcd, Create, Proclaim, Delete, Compact, ServeRange, RangeFails,
     ServeWatch, StreamBreaks
<1>2. ASSUME Informs, Application PROVE Informs'
  BY <1>2, OthersInform DEF Application, Startup, Shutdown, Cleanup, CleanupOps, CleanupDone
<1>3. ASSUME Informs, UNCHANGED vars PROVE Informs'
  BY <1>3, OthersInform DEF vars
<1> QED
  BY <1>1, <1>2, <1>3, CallbackInforms, SubscriptionInforms DEF Next

\* Between callbacks every subscriber in step knows the leader, whatever number of events
\* a response had and whoever subscribed or left meanwhile.
THEOREM SubscribersKnow == Spec => []SubscribersInformed
<1>1. Init => Informs
  BY DEF Init, Informs, Idle, CallsWithLeader, Informed, IdleCallback
<1>2. Spec => []InformedInv
  BY <1>1, InitTypes, NextTypes, NextInforms, PTL DEF Spec, InformedInv
<1>3. InformedInv => SubscribersInformed
  BY DEF InformedInv, Informs, Informed, SubscribersInformed
<1> QED
  BY <1>2, <1>3, PTL

-----------------------------------------------------------------------------
(* Lemmas about histories.                                                 *)

LEMMA NodesInNone == ASSUME NEW l, NEW s \in Nat PROVE NodesIn(l, s, s - 1) = {}
BY DEF NodesIn

\* What entry e of a history makes of some nodes.
Applied(view, e) ==
  {m \in view : m.create # e.node.create} \cup IF e.type = "PUT" THEN {e.node} ELSE {}

\* One more entry replaces the node that it is about.
LEMMA NodesInStep ==
  ASSUME NEW l \in Seq(Entries), NEW s \in Nat \ {0}, NEW j \in s..Len(l)
  PROVE  NodesIn(l, s, j) = Applied(NodesIn(l, s, j - 1), l[j])
<1> USE DEF Applied
<1> DEFINE R == Applied(NodesIn(l, s, j - 1), l[j])
<1>1. ASSUME NEW n \in NodesIn(l, s, j)  PROVE n \in R
  <2>1. PICK i \in s..j : n = l[i].node /\ l[i].type = "PUT" /\ ~Superseded(l, i, j)
    BY DEF NodesIn
  <2>2. CASE i = j
    BY <2>1, <2>2
  <2>3. CASE i # j
    <3>1. i \in s..(j - 1) /\ ~Superseded(l, i, j - 1) /\ l[j].node.create # l[i].node.create
      BY <2>1, <2>3 DEF Superseded
    <3>2. n \in NodesIn(l, s, j - 1)
      BY <2>1, <3>1 DEF NodesIn
    <3> QED
      BY <2>1, <3>1, <3>2
  <2> QED
    BY <2>2, <2>3
<1>2. ASSUME NEW n \in NodesIn(l, s, j - 1), n.create # l[j].node.create
      PROVE  n \in NodesIn(l, s, j)
  <2>1. PICK i \in s..(j - 1) : n = l[i].node /\ l[i].type = "PUT" /\ ~Superseded(l, i, j - 1)
    BY DEF NodesIn
  <2>2. i \in s..j /\ ~Superseded(l, i, j)
    BY <1>2, <2>1 DEF Superseded
  <2> QED
    BY <2>1, <2>2 DEF NodesIn
<1>3. ASSUME l[j].type = "PUT"  PROVE l[j].node \in NodesIn(l, s, j)
  <2>1. j \in s..j /\ ~Superseded(l, j, j)
    BY DEF Superseded
  <2> QED
    BY <1>3, <2>1 DEF NodesIn
<1>4. R \subseteq NodesIn(l, s, j)
  BY <1>2, <1>3
<1> QED
  BY <1>1, <1>4

\* What is known of a history stays true when it goes on.
LEMMA HistoryGoesOn ==
  ASSUME NEW l \in Seq(Entries), NEW e \in Entries
  PROVE  /\ \A s \in Nat, j \in 0..Len(l) : s > 0 => NodesIn(Append(l, e), s, j) = NodesIn(l, s, j)
         /\ \A s : Complete(l, s) => Complete(Append(l, e), s)
         /\ \A s, n : CreatedBy(l, s, n) => CreatedBy(Append(l, e), s, n)
         /\ \A s, view : BeforeEntry(l, s, view) => BeforeEntry(Append(l, e), s, view)
<1> DEFINE a == Append(l, e)
<1>1. Len(l) \in Nat /\ Len(a) = Len(l) + 1 /\ \A i \in 1..Len(l) : a[i] = l[i]
  BY Appended
<1> HIDE DEF a
<1>2. ASSUME NEW s \in Nat, NEW j \in 0..Len(l), s > 0  PROVE NodesIn(a, s, j) = NodesIn(l, s, j)
  <2>1. \A i \in s..j : a[i] = l[i]
    BY <1>1, <1>2
  <2>2. \A i \in s..j : Superseded(a, i, j) <=> Superseded(l, i, j)
    BY <1>1, <1>2 DEF Superseded
  <2> QED
    BY <2>1, <2>2 DEF NodesIn
<1>3. ASSUME NEW s, Complete(l, s)  PROVE Complete(a, s)
  <2>1. s \in 1..(Len(l) + 1) /\ \A i \in 1..(s - 1) : l[i].type = "PUT" => Superseded(l, i, Len(l))
    BY <1>3 DEF Complete
  <2>2. ASSUME NEW i \in 1..(s - 1), a[i].type = "PUT"  PROVE Superseded(a, i, Len(a))
    <3>1. i \in 1..Len(l) /\ a[i] = l[i]
      BY <1>1, <2>1
    <3>2. PICK k \in (i + 1)..Len(l) : l[k].node.create = l[i].node.create
      BY <2>1, <2>2, <3>1 DEF Superseded
    <3>3. k \in (i + 1)..Len(a) /\ a[k] = l[k]
      BY <1>1, <3>1, <3>2
    <3> QED
      BY <3>1, <3>2, <3>3 DEF Superseded
  <2> QED
    BY <1>1, <2>1, <2>2 DEF Complete
<1>4. ASSUME NEW s, NEW n, CreatedBy(l, s, n)  PROVE CreatedBy(a, s, n)
  BY <1>1, <1>4 DEF CreatedBy
<1>5. ASSUME NEW s, NEW view, BeforeEntry(l, s, view)  PROVE BeforeEntry(a, s, view)
  BY <1>4, <1>5 DEF BeforeEntry
<1> QED
  BY <1>2, <1>3, <1>4, <1>5 DEF a

\* A complete replay leaves all nodes there are.
LEMMA CompleteIsAll ==
  ASSUME NEW l \in Seq(Entries), NEW s, Complete(l, s)
  PROVE  NodesIn(l, s, Len(l)) = NodesIn(l, 1, Len(l))
<1>1. /\ Len(l) \in Nat /\ s \in 1..(Len(l) + 1)
      /\ \A i \in 1..(s - 1) : l[i].type = "PUT" => Superseded(l, i, Len(l))
  BY DEF Complete
<1>2. \A i \in 1..Len(l) : l[i].type = "PUT" /\ ~Superseded(l, i, Len(l)) => i \in s..Len(l)
  BY <1>1
<1> QED
  BY <1>1, <1>2 DEF NodesIn

\* The events of a response lead from what the history leaves to what it leaves later,
\* also from the answer to the Range(), whatever value that node had then.
LEMMA EventsReplay ==
  ASSUME log \in Seq(Entries), participants_ \subseteq Nodes, UniqueCreates(participants_),
         compacted = 0,
         NEW from \in Nat \ {0}, NEW to \in from..Len(log), NEW s \in 1..from,
         \/ participants_ = NodesIn(log, s, from - 1)
         \/ s = from /\ BeforeEntry(log, s, participants_)
  PROVE  HandleEvents(from, to).view = NodesIn(log, s, to)
<1>0. to \in Nat /\ from - 1 \in Nat /\ Len(log) \in Nat /\ from - 1 <= to
  OBVIOUS
<1>1. PICK f : IsReplay(f, from, to) /\ HandleEvents(from, to) = f[to]
  BY ReplayEquation, <1>0
<1> DEFINE Fine(i) ==
      f[i].view = NodesIn(log, s, i) /\ f[i].view \subseteq Nodes /\ UniqueCreates(f[i].view)
    Good == {i \in from..to : Fine(i)}
    Later(view, i) == {m \in view : m.create # log[i].node.create}
                        \cup IF log[i].type = "PUT" THEN {log[i].node} ELSE {}
<1>2. ASSUME NEW i \in from..to, f[i - 1].view \subseteq Nodes, UniqueCreates(f[i - 1].view)
      PROVE  /\ f[i].view = Later(f[i - 1].view, i)
             /\ f[i].view \subseteq Nodes /\ UniqueCreates(f[i].view)
  <2> DEFINE h == HandleEvent(f[i - 1].view, i)
  <2>1. f[i] = After(f[i - 1], i)
    BY <1>0, <1>1 DEF IsReplay
  <2>2. i \in 1..Len(log)
    BY <1>0
  <2>3. /\ h = [view |-> h.view, changed |-> h.changed]
        /\ h.view \subseteq Nodes /\ UniqueCreates(h.view)
        /\ h.view = Later(f[i - 1].view, i)
    BY <1>2, <2>2, EventKeeps
  <2>4. f[i].view = h.view
    BY <2>1, <2>3 DEF After
  <2> QED
    BY <2>3, <2>4
<1>3. f[from - 1].view = participants_
  BY <1>0, <1>1 DEF IsReplay, Start
<1>4. \A i \in from..to : NodesIn(log, s, i) = Later(NodesIn(log, s, i - 1), i)
  BY <1>0, NodesInStep DEF Applied
<1>5. from \in Good
  <2>1. /\ f[from].view = Later(participants_, from)
        /\ f[from].view \subseteq Nodes /\ UniqueCreates(f[from].view)
    BY <1>0, <1>2, <1>3
  <2>0. from \in from..to /\ NodesIn(log, s, from) = Later(NodesIn(log, s, from - 1), from)
    BY <1>0, <1>4
  <2>2. CASE participants_ = NodesIn(log, s, from - 1)
    <3> HIDE DEF Later
    <3>1. Fine(from)
      BY <2>0, <2>1, <2>2
    <3> QED
      BY <2>0, <3>1
  <2>3. CASE s = from /\ BeforeEntry(log, s, participants_)
    <3>1. NodesIn(log, s, from) = Later({}, from)
      BY <2>0, <2>3, NodesInNone
    <3>2. Later(participants_, from) = Later({}, from)
      BY <2>3 DEF BeforeEntry, CreatedBy
    <3> HIDE DEF Later
    <3>3. Fine(from)
      BY <2>1, <3>1, <3>2
    <3> QED
      BY <2>0, <3>3
  <2> QED
    BY <2>2, <2>3
<1>6. ASSUME NEW i \in (from + 1)..to, i - 1 \in Good  PROVE i \in Good
  <2>1. i \in from..to /\ Fine(i - 1)
    BY <1>6
  <2> QED
    BY <1>2, <1>4, <2>1
<1>7. from..to \subseteq Good
  <2> HIDE DEF Good
  <2> QED  BY <1>0, <1>5, <1>6, RangeInduction
<1> QED
  BY <1>0, <1>1, <1>7

-----------------------------------------------------------------------------
(* The participants follow the history.                                    *)

\* A change of one node keeps the history right, and what was known of it.
LEMMA ChangeReplays ==
  ASSUME Types, Replays, NEW type \in {"PUT", "DELETE"}, NEW n \in Nodes, Change(type, n),
         nodes' = {m \in nodes : m.create # n.create} \cup IF type = "PUT" THEN {n} ELSE {},
         n.create <= Len(log) + 2,
         type = "PUT" =>
           /\ n.create >= 2
           /\ n.create = Len(log) + 2 \/ n \in {[m EXCEPT !.value = n.value] : m \in nodes},
         UNCHANGED <<compacted, watcher, participants_, app, chain, failures>>
  PROVE  Replays'
<1> DEFINE e == [type |-> type, node |-> n]
<1>1. e \in Entries /\ e.type = type /\ e.node = n
  BY DEF Entries
<1>2. log' = Append(log, e) /\ log \in Seq(Entries) /\ Len(log) \in Nat /\ nodes \subseteq Nodes
  BY DEF Change, Types, EtcdTypes
<1> HIDE DEF e
<1>3. /\ log' \in Seq(Entries) /\ Len(log') = Len(log) + 1 /\ log'[Len(log) + 1] = e
      /\ \A i \in 1..Len(log) : log'[i] = log[i]
  BY <1>1, <1>2, Appended
<1>4. /\ \A s \in Nat, j \in 0..Len(log) : s > 0 => NodesIn(log', s, j) = NodesIn(log, s, j)
      /\ \A s : Complete(log, s) => Complete(log', s)
      /\ \A s, m : CreatedBy(log, s, m) => CreatedBy(log', s, m)
      /\ \A s, view : BeforeEntry(log, s, view) => BeforeEntry(log', s, view)
  BY <1>1, <1>2, HistoryGoesOn
<1>5. History'
  <2>0. History /\ n.create \in Nat
    BY DEF Replays, Nodes
  <2>1. nodes' = NodesIn(log', 1, Len(log'))
    <3>0. /\ Len(log) \in 0..Len(log) /\ Len(log) + 1 \in 1..Len(log')
          /\ 1 \in Nat /\ 1 > 0 /\ 1 \in Nat \ {0}
      BY <1>2, <1>3
    <3>1. NodesIn(log', 1, Len(log)) = nodes
      <4>1. NodesIn(log', 1, Len(log)) = NodesIn(log, 1, Len(log))
        BY <1>4, <3>0
      <4> QED
        BY <2>0, <4>1 DEF History
    <3> DEFINE j == Len(log) + 1
    <3>2. j \in 1..Len(log') /\ log'[j] = e /\ j - 1 = Len(log) /\ j = Len(log')
      BY <1>2, <1>3
    <3> HIDE DEF j
    <3>3. NodesIn(log', 1, j) = Applied(NodesIn(log', 1, j - 1), log'[j])
      BY <1>3, <3>0, <3>2, NodesInStep
    <3> QED
      BY <1>1, <3>1, <3>2, <3>3 DEF Applied
  <2>2. UniqueCreates(nodes)'
    BY <2>0 DEF History, UniqueCreates
  <2>3. \A i \in 1..Len(log') : log'[i].node.create <= i + 1
    <3>1. ASSUME NEW i \in 1..Len(log')  PROVE log'[i].node.create <= i + 1
      BY <1>1, <1>2, <1>3, <2>0 DEF History
    <3> QED
      BY <3>1
  <2>4. ASSUME NEW m \in nodes'  PROVE m.create >= 2 /\ CreatedBy(log', m.create - 1, m)
    <3>1. CASE m \in nodes
      BY <1>4, <2>0, <3>1 DEF History
    <3>2. CASE m = n /\ type = "PUT" /\ n.create = Len(log) + 2
      BY <1>1, <1>2, <1>3, <3>2 DEF CreatedBy
    <3>3. CASE m = n /\ type = "PUT" /\ n \in {[k EXCEPT !.value = n.value] : k \in nodes}
      <4>1. PICK k \in nodes : n = [k EXCEPT !.value = n.value]
        BY <3>3
      <4>2. n.create = k.create
        BY <1>2, <4>1 DEF Nodes
      <4>3. k.create >= 2 /\ CreatedBy(log', k.create - 1, k)
        BY <1>4, <2>0 DEF History
      <4> QED
        BY <3>3, <4>2, <4>3 DEF CreatedBy
    <3> QED
      BY <3>1, <3>2, <3>3
  <2> QED
    BY <2>1, <2>2, <2>3, <2>4 DEF History
<1>6. AsksOnce'
  BY DEF Replays, AsksOnce, IsCreate, watcher
<1>7. ASSUME failures = 0  PROVE Replaying'
  <2>1. Replaying
    BY <1>7 DEF Replays
  <2>2. Answered'
    BY <1>4, <2>1 DEF Replaying, Answered
  <2>3. Asked'
    BY <1>4, <2>1 DEF Replaying, Asked, IsCreate, watcher
  <2>4. Replayed'
    <3> SUFFICES ASSUME watch' \in {"created", "active"} PROVE Replayed'
      BY DEF Replayed
    <3>1. PICK s \in 1..next :
            /\ Complete(log, s) /\ next <= Len(log) + 1
            /\ \/ participants_ = NodesIn(log, s, next - 1)
               \/ s = next /\ BeforeEntry(log, s, participants_)
      BY <2>1 DEF Replaying, Replayed, watcher
    <3>2. next \in Nat \ {0} /\ next - 1 \in 0..Len(log) /\ s \in Nat /\ s > 0
      BY <1>2, <3>1, ObserverAssumption DEF Types, WatcherTypes
    <3>3. NodesIn(log', s, next - 1) = NodesIn(log, s, next - 1)
      BY <1>4, <3>2
    <3>4. next <= Len(log') + 1
      BY <1>2, <1>3, <3>1, <3>2
    <3> QED
      BY <1>4, <3>1, <3>3, <3>4 DEF Replayed, watcher
  <2> QED
    BY <2>1, <2>2, <2>3, <2>4 DEF Replaying
<1> QED
  BY <1>5, <1>6, <1>7 DEF Replays

\* The oldest node, or none, tells from where on the history is complete.
LEMMA AnswerIsComplete ==
  ASSUME Types, History
  PROVE  /\ nodes = {} => Complete(log, FirstEntry(Revision))
         /\ nodes # {} =>
              LET n == Leader(nodes)
              IN  /\ n \in nodes /\ n # NoNode /\ n.create >= 2
                  /\ Complete(log, n.create - 1) /\ CreatedBy(log, n.create - 1, n)
<1>1. log \in Seq(Entries) /\ Len(log) \in Nat /\ nodes \subseteq Nodes
  BY DEF Types, EtcdTypes
<1>2. ASSUME NEW i \in 1..Len(log), log[i].type = "PUT", ~Superseded(log, i, Len(log))
      PROVE  log[i].node \in nodes /\ log[i].node.create <= i + 1
  BY <1>2 DEF History, NodesIn
<1>3. ASSUME nodes = {}  PROVE Complete(log, FirstEntry(Revision))
  BY <1>1, <1>2, <1>3 DEF Complete, FirstEntry, Revision
<1>4. ASSUME nodes # {}
      PROVE  LET n == Leader(nodes)
             IN  /\ n \in nodes /\ n # NoNode /\ n.create >= 2
                 /\ Complete(log, n.create - 1) /\ CreatedBy(log, n.create - 1, n)
  <2> DEFINE n == Leader(nodes)
  <2>1. n \in nodes /\ IsFirst(nodes, n)
    BY <1>1, <1>4, LeaderIsFirst
  <2> HIDE DEF n
  <2>2. n # NoNode /\ n.create \in Nat /\ n.create >= 2 /\ CreatedBy(log, n.create - 1, n)
    BY <1>1, <2>1, ObserverAssumption DEF History, Nodes
  <2>3. n.create - 1 \in 1..Len(log)
    BY <2>2 DEF CreatedBy
  <2>4. ASSUME NEW i \in 1..(n.create - 1 - 1), log[i].type = "PUT"
        PROVE  Superseded(log, i, Len(log))
    <3>1. i \in 1..Len(log) /\ i + 1 < n.create
      BY <1>1, <2>2, <2>3
    <3>2. ASSUME ~Superseded(log, i, Len(log))  PROVE FALSE
      <4>1. log[i].node \in nodes /\ log[i].node.create <= i + 1 /\ log[i].node.create \in Nat
        BY <1>1, <1>2, <2>4, <3>1, <3>2 DEF Nodes
      <4> QED
        BY <2>1, <2>2, <3>1, <4>1 DEF IsFirst
    <3> QED
      BY <3>2
  <2>5. Complete(log, n.create - 1)
    BY <1>1, <2>2, <2>3, <2>4 DEF Complete
  <2> QED
    BY <2>1, <2>2, <2>5 DEF n
<1> QED
  BY <1>3, <1>4

LEMMA EtcdReplays == ASSUME Types, Replays, Etcd PROVE Replays'
<1>0. /\ log \in Seq(Entries) /\ Len(log) \in Nat /\ nodes \subseteq Nodes /\ MaxRevision \in Nat
      /\ \A n \in nodes : n.create \in Nat /\ n.create <= Len(log) + 1
  <2>1. \A n \in nodes : CreatedBy(log, n.create - 1, n)
    BY DEF Replays, History
  <2> QED
    BY <2>1, ObserverAssumption DEF Types, EtcdTypes, CreatedBy, Nodes
<1>1. CASE Create
  <2>1. PICK k \in Keys : LET new == [create |-> Revision + 1, key |-> k, value |-> FirstValue]
                          IN  nodes' = nodes \cup {new} /\ Change("PUT", new)
    BY <1>1 DEF Create
  <2> DEFINE new == [create |-> Revision + 1, key |-> k, value |-> FirstValue]
  <2>2. new \in Nodes /\ new.create = Len(log) + 2
    BY <1>0, ObserverAssumption DEF Nodes, Revision
  <2>3. nodes' = nodes \cup {new} /\ Change("PUT", new)
    BY <2>1
  <2> HIDE DEF new
  <2>4. nodes' = {m \in nodes : m.create # new.create} \cup {new}
    BY <1>0, <2>2, <2>3
  <2> QED
    BY <1>0, <1>1, <2>2, <2>3, <2>4, ChangeReplays DEF Create
<1>2. CASE Proclaim
  <2>1. PICK n \in nodes, v \in Values : LET new == [n EXCEPT !.value = v]
                                        IN  nodes' = (nodes \ {n}) \cup {new} /\ Change("PUT", new)
    BY <1>2 DEF Proclaim
  <2> DEFINE new == [n EXCEPT !.value = v]
  <2>2. new \in Nodes /\ new.create = n.create /\ new = [n EXCEPT !.value = new.value]
    BY <1>0 DEF Nodes
  <2>3. nodes' = (nodes \ {n}) \cup {new} /\ Change("PUT", new)
    BY <2>1
  <2> HIDE DEF new
  <2>4. nodes' = {m \in nodes : m.create # new.create} \cup {new}
    BY <2>2, <2>3 DEF Replays, History, UniqueCreates
  <2>5. new.create >= 2 /\ new.create <= Len(log) + 2
    BY <1>0, <2>2 DEF Replays, History
  <2> QED
    BY <1>2, <2>2, <2>3, <2>4, <2>5, ChangeReplays DEF Proclaim
<1>3. CASE Delete
  <2>1. PICK n \in nodes : nodes' = nodes \ {n} /\ Change("DELETE", n)
    BY <1>3 DEF Delete
  <2>2. nodes' = {m \in nodes : m.create # n.create} \cup {}
    BY <2>1 DEF Replays, History, UniqueCreates
  <2>3. n \in Nodes /\ n.create <= Len(log) + 2
    BY <1>0
  <2> QED
    BY <1>3, <2>1, <2>2, <2>3, ChangeReplays DEF Delete
<1>4. CASE Compact \/ RangeFails \/ StreamBreaks
  <2>1. failures' # 0
    BY <1>4 DEF Compact, RangeFails, StreamBreaks, Fails, Types, OtherTypes
  <2>2. History'
    BY <1>4 DEF Compact, RangeFails, StreamBreaks, Replays, History, etcd, UniqueCreates
  <2>3. AsksOnce'
    BY <1>4 DEF Compact, RangeFails, StreamBreaks, Replays, AsksOnce, IsCreate, watcher
  <2> QED
    BY <2>1, <2>2, <2>3 DEF Replays
<1>5. CASE ServeRange
  <2>0. UNCHANGED <<log, nodes, compacted, requests, watch, next, participants_, app, failures>>
    BY <1>5 DEF ServeRange, etcd, watcher
  <2>1. /\ chain'.kind = "reply" /\ chain'.node = Leader(nodes) /\ chain'.rev = Revision
        /\ chain.kind = "range"
    BY <1>5 DEF ServeRange
  <2>2. History'
    BY <2>0 DEF Replays, History, UniqueCreates
  <2>3. AsksOnce'
    BY <2>0, <2>1 DEF Replays, AsksOnce, IsCreate
  <2>4. Answered'
    <3>1. CASE nodes = {}
      BY <1>0, <2>0, <2>1, <3>1, AnswerIsComplete DEF Answered, Replays, Leader, Revision
    <3>2. CASE nodes # {}
      BY <2>0, <2>1, <3>2, AnswerIsComplete DEF Answered, Replays
    <3> QED
      BY <3>1, <3>2
  <2>5. failures' = 0 => Replaying'
    BY <2>0, <2>4 DEF Replays, Replaying, Asked, IsCreate, Replayed
  <2> QED
    BY <2>2, <2>3, <2>5 DEF Replays
<1>6. CASE ServeWatch
  <2>0. UNCHANGED <<log, nodes, compacted, participants_, app, chain, failures>>
    BY <1>6 DEF ServeWatch, etcd
  <2>1. requests \in Seq(Requests) /\ requests # <<>> /\ requests' = Tail(requests)
    BY <1>6 DEF ServeWatch, Types, WatcherTypes
  <2>2. /\ Len(requests) \in Nat \ {0} /\ Len(requests') = Len(requests) - 1
        /\ \A i \in 1..Len(requests') : requests'[i] = requests[i + 1]
        /\ Head(requests) = requests[1]
    BY <2>1
  <2>3. \A i \in 1..Len(requests') : IsCreate(i)' => i + 1 \in 1..Len(requests) /\ IsCreate(i + 1)
    BY <2>2 DEF IsCreate
  <2>4. History'
    BY <2>0 DEF Replays, History, UniqueCreates
  <2>5. failures = 0 => Answered'
    BY <2>0 DEF Answered, Replaying, Replays
  <2>6. CASE requests[1].type = "create"
    <3>1. /\ IsCreate(1) /\ 1 \in 1..Len(requests)
          /\ \A i \in 1..Len(requests') : ~IsCreate(i)'
      BY <2>2, <2>3, <2>6 DEF IsCreate, Replays, AsksOnce
    <3>2. app # "new" /\ chain.kind \notin {"range", "reply"}
      BY <3>1 DEF Replays, AsksOnce
    <3>3. AsksOnce'
      BY <2>0, <3>1, <3>2 DEF AsksOnce
    <3>4. ASSUME failures = 0  PROVE Replaying'
      <4>1. /\ compacted = 0 /\ requests[1].start # 0
            /\ Complete(log, FirstEntry(requests[1].start))
            /\ BeforeEntry(log, FirstEntry(requests[1].start), participants_)
        BY <3>1, <3>4 DEF Replays, Replaying, Asked
      <4>2. next' = FirstEntry(requests[1].start)
        BY <1>6, <2>2, <2>6, <4>1 DEF ServeWatch, FirstEntry
      <4>3. next' \in 1..next' /\ next' <= Len(log) + 1
        BY <1>0, <4>1, <4>2 DEF Complete
      <4>4. Replayed'
        BY <2>0, <4>1, <4>2, <4>3 DEF Replayed
      <4>5. Asked'
        BY <3>1 DEF Asked
      <4> QED
        BY <2>0, <2>5, <3>4, <4>1, <4>4, <4>5 DEF Replaying, Replays
    <3> QED
      BY <2>0, <2>4, <3>3, <3>4 DEF Replays
  <2>7. CASE requests[1].type # "create"
    <3>1. /\ watch' = IF watch \in {"created", "active"} THEN "cancelled" ELSE watch
          /\ UNCHANGED next
      BY <1>6, <2>2, <2>7 DEF ServeWatch
    <3>2. AsksOnce'
      BY <2>0, <2>2, <2>3, <3>1 DEF AsksOnce, Replays, IsCreate
    <3>3. ASSUME failures = 0  PROVE Replaying'
      <4>1. Asked'
        BY <2>0, <2>2, <2>3, <3>3 DEF Replays, Replaying, Asked
      <4>2. Replayed'
        BY <2>0, <3>1, <3>3 DEF Replays, Replaying, Replayed
      <4> QED
        BY <2>0, <2>5, <3>3, <4>1, <4>2 DEF Replaying, Replays
    <3> QED
      BY <2>0, <2>4, <3>2, <3>3 DEF Replays
  <2> QED
    BY <2>6, <2>7
<1> QED
  BY <1>1, <1>2, <1>3, <1>4, <1>5, <1>6 DEF Etcd

\* Most steps of the program leave alone the history, the watcher and the participants,
\* and start no second search.
LEMMA OthersReplay ==
  ASSUME Replays, UNCHANGED <<etcd, watcher, participants_>>,
         failures' = failures \/ failures' # 0,
         app' = "new" \/ chain'.kind \in {"range", "reply"} =>
           app = "new" \/ chain.kind \in {"range", "reply"},
         chain'.kind = "reply" => UNCHANGED chain
  PROVE  Replays'
<1>1. UNCHANGED <<log, nodes, compacted, requests, watch, next, participants_>>
  BY DEF etcd, watcher
<1>2. History'
  BY <1>1 DEF Replays, History, UniqueCreates
<1>3. AsksOnce'
  BY <1>1 DEF Replays, AsksOnce, IsCreate
<1>4. failures' = 0 => Replaying'
  BY <1>1 DEF Replays, Replaying, Answered, Asked, IsCreate, Replayed
<1> QED
  BY <1>2, <1>3, <1>4 DEF Replays

\* A request more.
LEMMA Requested ==
  ASSUME Types, NEW r \in Requests, requests' = Append(requests, r)
  PROVE  /\ Len(requests') = Len(requests) + 1 /\ Len(requests) \in Nat
         /\ requests'[Len(requests) + 1] = r
         /\ \A i \in 1..Len(requests) : requests'[i] = requests[i]
         /\ \A i : IsCreate(i)' <=> IsCreate(i) \/ (i = Len(requests) + 1 /\ r.type = "create")
<1>1. requests \in Seq(Requests)
  BY DEF Types, WatcherTypes
<1>2. /\ Len(requests') = Len(requests) + 1 /\ Len(requests) \in Nat
      /\ requests'[Len(requests) + 1] = r
      /\ \A i \in 1..Len(requests) : requests'[i] = requests[i]
  BY <1>1, Appended
<1>3. ASSUME NEW i
      PROVE  IsCreate(i)' <=> IsCreate(i) \/ (i = Len(requests) + 1 /\ r.type = "create")
  BY <1>2 DEF IsCreate
<1> QED
  BY <1>2, <1>3

LEMMA RangeRequestReplays == ASSUME Types, Replays, OnRangeRequest PROVE Replays'
<1>1. UNCHANGED <<log, nodes, compacted, watch, next, app, failures>>
  BY DEF OnRangeRequest, etcd
<1>2. /\ chain.kind = "reply" /\ chain'.kind \in {"none", "write"} /\ app # "new"
      /\ watch = "none" /\ participants_ = {} /\ \A i \in 1..Len(requests) : ~IsCreate(i)
  BY OpType DEF OnRangeRequest, CreateWatcher, Types, CountTypes, Replays, AsksOnce
<1>3. chain.node \in Nodes \cup {NoNode} /\ chain.rev \in Nat /\ chain \in Chains
  BY <1>2 DEF Types, CountTypes, Chains
<1>4. participants_' = IF chain.node = NoNode THEN {} ELSE {chain.node}
  <2>1. CASE chain.node = NoNode
    BY <1>2, <2>1 DEF OnRangeRequest
  <2>2. CASE chain.node # NoNode
    <3>1. HandleNodePut({}, chain.node).view = {chain.node}
      BY DEF HandleNodePut
    <3> QED
      BY <1>2, <2>2, <3>1 DEF OnRangeRequest
  <2> QED
    BY <2>1, <2>2
<1>5. History'
  BY <1>1 DEF Replays, History, UniqueCreates
<1>6. Answered' /\ Replayed'
  BY <1>1, <1>2 DEF Answered, Replayed
<1>7. CASE UNCHANGED requests
  <2>1. AsksOnce' /\ Asked'
    BY <1>1, <1>2, <1>7 DEF AsksOnce, IsCreate, Asked
  <2> QED
    BY <1>1, <1>5, <1>6, <2>1 DEF Replays, Replaying
<1>8. CASE requests' = Append(requests, [type |-> "create", start |-> WatchStart])
  <2> DEFINE r == [type |-> "create", start |-> WatchStart]
  <2>1. r \in Requests /\ r.type = "create" /\ r.start = WatchStart
    BY <1>3, ObserverAssumption DEF Requests, WatchStart, Nodes, Types, CountTypes
  <2>2. requests' = Append(requests, r)
    BY <1>8
  <2> HIDE DEF r
  <2>3. /\ Len(requests') = Len(requests) + 1 /\ Len(requests) \in Nat
        /\ requests'[Len(requests) + 1] = r
        /\ \A i \in 1..Len(requests') : IsCreate(i)' => i = Len(requests) + 1
    BY <1>2, <2>1, <2>2, Requested DEF IsCreate
  <2>4. AsksOnce'
    BY <1>1, <1>2, <2>3 DEF AsksOnce
  <2>5. ASSUME failures = 0  PROVE Asked'
    <3>1. Answered
      BY <2>5 DEF Replays, Replaying
    <3>2. /\ r.start # 0 /\ Complete(log, FirstEntry(r.start))
          /\ BeforeEntry(log, FirstEntry(r.start), participants_')
      <4>1. CASE chain.node = NoNode
        BY <1>2, <1>4, <2>1, <3>1, <4>1 DEF Answered, WatchStart, BeforeEntry
      <4>2. CASE chain.node # NoNode
        <5>1. r.start = chain.node.create /\ participants_' = {chain.node}
          BY <1>4, <2>1, <4>2 DEF WatchStart
        <5>2. /\ r.start \in Nat /\ r.start >= 2
              /\ Complete(log, r.start - 1) /\ CreatedBy(log, r.start - 1, chain.node)
          BY <1>2, <1>3, <3>1, <4>2, <5>1 DEF Answered, Nodes
        <5>3. FirstEntry(r.start) = r.start - 1 /\ r.start # 0
          BY <5>2 DEF FirstEntry
        <5> QED
          BY <5>1, <5>2, <5>3 DEF BeforeEntry
      <4> QED
        BY <4>1, <4>2
    <3> QED
      BY <1>1, <2>3, <3>2 DEF Asked
  <2> QED
    BY <1>1, <1>5, <1>6, <2>4, <2>5 DEF Replays, Replaying
<1> QED
  BY <1>7, <1>8 DEF OnRangeRequest, CreateWatcher

LEMMA WatchReadReplays == ASSUME Types, Replays, OnWatchRead PROVE Replays'
<1>1. UNCHANGED <<log, nodes, compacted, requests, app, failures>>
  BY DEF OnWatchRead, etcd
<1>2. /\ chain'.kind = "none" /\ app # "new" /\ watch \in {"created", "active"}
      /\ \A i \in 1..Len(requests) : ~IsCreate(i)
  BY OpType DEF OnWatchRead, Types, CountTypes, Replays, AsksOnce
<1>3. History'
  BY <1>1 DEF Replays, History, UniqueCreates
<1>4. AsksOnce' /\ Asked' /\ Answered'
  BY <1>1, <1>2 DEF AsksOnce, IsCreate, Asked, Answered
<1>5. ASSUME failures = 0  PROVE Replayed'
  <2>1. compacted = 0 /\ Replayed
    BY <1>5 DEF Replays, Replaying
  <2>2. PICK s \in 1..next :
          /\ Complete(log, s) /\ next <= Len(log) + 1
          /\ \/ participants_ = NodesIn(log, s, next - 1)
             \/ s = next /\ BeforeEntry(log, s, participants_)
    BY <1>2, <2>1 DEF Replayed
  <2>3. CASE UNCHANGED <<next, participants_>>
    BY <1>1, <2>2, <2>3 DEF Replayed
  <2>4. ASSUME NEW to \in next..Len(log),
               participants_' = HandleEvents(next, to).view, next' = to + 1
        PROVE  Replayed'
    <3>1. next \in Nat \ {0} /\ Len(log) \in Nat /\ to \in Nat
      BY ObserverAssumption DEF Types, WatcherTypes, EtcdTypes
    <3>2. participants_' = NodesIn(log, s, to)
      BY <2>1, <2>2, <2>4, <3>1, EventsReplay DEF Types, EtcdTypes, ViewTypes
    <3>3. s \in 1..next' /\ next' <= Len(log) + 1 /\ next' - 1 = to
      BY <2>4, <3>1
    <3> QED
      BY <1>1, <2>2, <3>2, <3>3 DEF Replayed
  <2> QED
    BY <2>3, <2>4 DEF OnWatchRead
<1> QED
  BY <1>1, <1>3, <1>4, <1>5 DEF Replays, Replaying

LEMMA CallbackReplays == ASSUME Types, Replays, Callback PROVE Replays'
<1>1. CASE OnRangeCancelled
  <2>1. failures' # 0 /\ chain'.kind = "none" /\ app # "new"
    BY <1>1, OpType DEF OnRangeCancelled, Fails, Types, OtherTypes, CountTypes
  <2> QED
    BY <1>1, <2>1, OthersReplay DEF OnRangeCancelled
<1>2. CASE OnWatchCreate \/ OnWatchReadEnds
  <2>1. chain'.kind \in {"none", "read"} /\ UNCHANGED app
    BY <1>2, OpType DEF OnWatchCreate, OnWatchReadEnds
  <2> QED
    BY <1>2, <2>1, OthersReplay DEF OnWatchCreate, OnWatchReadEnds
<1>3. CASE OnWatchCancel \/ \E s \in Subscribers : CallSubscriber(s)
  BY <1>3, OthersReplay DEF OnWatchCancel, CallSubscriber
<1>4. CASE Return
  <2>1. UNCHANGED chain \/ chain'.kind \in {"none", "read"}
    BY <1>4, OpType DEF Return, StartRead
  <2> QED
    BY <1>4, <2>1, OthersReplay DEF Return
<1> QED
  BY <1>1, <1>2, <1>3, <1>4, RangeRequestReplays, WatchReadReplays DEF Callback

LEMMA ApplicationReplays == ASSUME Types, Replays, Application PROVE Replays'
<1>1. CASE Startup
  <2>1. app = "new" /\ (chain'.kind = "range" \/ UNCHANGED chain)
    BY <1>1, OpType DEF Startup, Discover
  <2>2. failures' = failures \/ failures' # 0
    BY <1>1 DEF Startup, CreateWatcherStream, Fails, Types, OtherTypes
  <2> QED
    BY <1>1, <2>1, <2>2, OthersReplay DEF Startup
<1>2. CASE Shutdown
  <2> DEFINE r == [type |-> "cancel", start |-> 0]
  <2>1. r \in Requests /\ r.type # "create"
    BY ObserverAssumption DEF Requests
  <2>2. requests' = Append(requests, r)
    BY <1>2 DEF Shutdown, CancelWatcher
  <2> HIDE DEF r
  <2>3. /\ Len(requests') = Len(requests) + 1 /\ Len(requests) \in Nat
        /\ \A i \in 1..Len(requests) : requests'[i] = requests[i]
        /\ \A i : IsCreate(i)' <=> IsCreate(i)
    BY <2>1, <2>2, Requested
  <2>4. /\ UNCHANGED <<log, nodes, compacted, watch, next, participants_, chain, failures>>
        /\ app' = "shutdown"
    BY <1>2 DEF Shutdown, etcd
  <2>5. \A i : IsCreate(i) => i \in 1..Len(requests)
    BY DEF IsCreate
  <2>6. History' /\ AsksOnce'
    BY <2>3, <2>4, <2>5 DEF Replays, History, UniqueCreates, AsksOnce
  <2>7. failures' = 0 => Replaying'
    BY <2>3, <2>4, <2>5 DEF Replays, Replaying, Answered, Asked, Replayed
  <2> QED
    BY <2>6, <2>7 DEF Replays
<1>3. CASE Cleanup \/ CleanupOps \/ CleanupDone
  BY <1>3, OthersReplay DEF Cleanup, CleanupOps, CleanupDone
<1> QED
  BY <1>1, <1>2, <1>3 DEF Application

LEMMA NextReplays == Types /\ Replays /\ [Next]_vars => Replays'
<1>1. ASSUME Replays, Subscription PROVE Replays'
  BY <1>1, OthersReplay DEF Subscription, Subscribe, SubscribeAdd, Unsubscribe
<1>2. ASSUME Replays, UNCHANGED vars PROVE Replays'
  BY <1>2, OthersReplay DEF vars
<1> QED
  BY <1>1, <1>2, EtcdReplays, CallbackReplays, ApplicationReplays DEF Next

LEMMA InitReplays == Init => Replays
<1> SUFFICES ASSUME Init PROVE Replays
  OBVIOUS
<1>1. Len(log) = 0 /\ Len(requests) = 0 /\ chain.kind = "none"
  BY OpType DEF Init
<1>2. History
  BY <1>1 DEF Init, History, NodesIn, UniqueCreates
<1>3. AsksOnce /\ Replaying
  BY <1>1 DEF Init, AsksOnce, IsCreate, Replaying, Answered, Asked, Replayed
<1> QED
  BY <1>2, <1>3 DEF Replays

\* Once the watcher has reported every change, and nothing failed, the participants are
\* the nodes in etcd: the watch starts early enough, however late it starts.
THEOREM ViewCatchesUp == Spec => []ViewIsCurrent
<1>1. Spec => []ReplayInv
  BY InitTypes, InitReplays, NextTypes, NextReplays, PTL DEF Spec, ReplayInv
<1>2. ReplayInv => ViewIsCurrent
  <2> SUFFICES ASSUME ReplayInv, failures = 0, watch = "active", next = Len(log) + 1
               PROVE  participants_ = nodes
    BY DEF ViewIsCurrent
  <2>1. PICK s \in 1..next :
          /\ Complete(log, s)
          /\ \/ participants_ = NodesIn(log, s, next - 1)
             \/ s = next /\ BeforeEntry(log, s, participants_)
    BY DEF ReplayInv, Replays, Replaying, Replayed
  <2>2. log \in Seq(Entries) /\ Len(log) \in Nat /\ next - 1 = Len(log)
    BY DEF ReplayInv, Types, EtcdTypes
  <2>3. NodesIn(log, s, Len(log)) = nodes
    BY <2>1, <2>2, CompleteIsAll DEF ReplayInv, Replays, History
  <2>4. CASE participants_ = NodesIn(log, s, next - 1)
    BY <2>2, <2>3, <2>4
  <2>5. CASE s = next /\ BeforeEntry(log, s, participants_)
    <3>1. participants_ = {}
      BY <2>2, <2>5 DEF BeforeEntry, CreatedBy
    <3>2. NodesIn(log, s, Len(log)) = {}
      <4>1. s \in Nat /\ s - 1 = Len(log)
        BY <2>2, <2>5
      <4> QED
        BY <4>1, NodesInNone
    <3> QED
      BY <2>3, <3>1, <3>2
  <2> QED
    BY <2>1, <2>4, <2>5
<1> QED
  BY <1>1, <1>2, PTL
-----------------------------------------------------------------------------
(* The observer keeps its contract.                                        *)

\* The history of the participants has one entry per revision.
LEMMA HistoryFacts ==
  ASSUME NEW l \in Seq(Entries)
  PROVE  /\ Len(l) \in Nat /\ Len(HistoryOf(l)) = Len(l) + 1
         /\ \A r \in 1..(Len(l) + 1) : HistoryOf(l)[r] = NodesIn(l, 1, r - 1)
<1>1. Len(l) \in Nat
  OBVIOUS
<1> QED
  BY <1>1 DEF HistoryOf

\* Who is left by the later part of a history is left by all of it.
LEMMA LaterPart ==
  ASSUME NEW l, NEW s \in Nat \ {0}, NEW j \in Nat
  PROVE  NodesIn(l, s, j) \subseteq NodesIn(l, 1, j)
BY DEF NodesIn

\* The node in the answer to the Range() led when the Range() took effect.
Found ==
  chain.kind = "reply" /\ chain.node # NoNode =>
    \E r \in 1..(Len(log) + 1) :
      /\ chain.node \in NodesIn(log, 1, r - 1)
      /\ ViewContract!Leads(chain.node, NodesIn(log, 1, r - 1))

ViewInv == Types /\ Replays /\ Found

LEMMA InitFound == Init => Found
BY OpType DEF Init, Found

\* Who led once has led, whatever is appended to the history.
LEMMA ChangeFinds ==
  ASSUME Types, Found, NEW e \in Entries, log' = Append(log, e), UNCHANGED chain
  PROVE  Found'
<1> SUFFICES ASSUME chain.kind = "reply", chain.node # NoNode
             PROVE  \E r \in 1..(Len(log') + 1) :
                      /\ chain.node \in NodesIn(log', 1, r - 1)
                      /\ ViewContract!Leads(chain.node, NodesIn(log', 1, r - 1))
  BY DEF Found
<1>1. log \in Seq(Entries) /\ Len(log) \in Nat
  BY DEF Types, EtcdTypes
<1>2. PICK r \in 1..(Len(log) + 1) :
        /\ chain.node \in NodesIn(log, 1, r - 1)
        /\ ViewContract!Leads(chain.node, NodesIn(log, 1, r - 1))
  BY DEF Found
<1>3. Len(log') = Len(log) + 1
  BY <1>1, Appended
<1>4. r - 1 \in 0..Len(log) /\ 1 \in Nat /\ 1 > 0 /\ r \in 1..(Len(log') + 1)
  BY <1>1, <1>3
<1>5. NodesIn(log', 1, r - 1) = NodesIn(log, 1, r - 1)
  BY <1>1, <1>4, HistoryGoesOn
<1> QED
  BY <1>2, <1>4, <1>5

\* The changes in etcd are entries of the history.
LEMMA ChangeIsEntry ==
  ASSUME Types, Create \/ Proclaim \/ Delete
  PROVE  \E e \in Entries : log' = Append(log, e)
<1>0. nodes \subseteq Nodes /\ Len(log) \in Nat
  BY DEF Types, EtcdTypes
<1>1. CASE Create
  <2>1. PICK k \in Keys :
          Change("PUT", [create |-> Revision + 1, key |-> k, value |-> FirstValue])
    BY <1>1 DEF Create
  <2>2. [create |-> Revision + 1, key |-> k, value |-> FirstValue] \in Nodes
    BY <1>0, ObserverAssumption DEF Nodes, Revision
  <2> QED
    BY <2>1, <2>2 DEF Change, Entries
<1>2. CASE Proclaim
  <2>1. PICK n \in nodes, v \in Values : Change("PUT", [n EXCEPT !.value = v])
    BY <1>2 DEF Proclaim
  <2>2. [n EXCEPT !.value = v] \in Nodes
    BY <1>0 DEF Nodes
  <2> QED
    BY <2>1, <2>2 DEF Change, Entries
<1>3. CASE Delete
  <2>1. PICK n \in nodes : Change("DELETE", n)
    BY <1>3 DEF Delete
  <2> QED
    BY <1>0, <2>1 DEF Change, Entries
<1> QED
  BY <1>1, <1>2, <1>3

\* Only the Range() brings an answer.
LEMMA NextFound == Types /\ Replays /\ Found /\ [Next]_vars => Found'
<1> SUFFICES ASSUME Types, Replays, Found, [Next]_vars PROVE Found'
  OBVIOUS
<1>1. CASE UNCHANGED log /\ (UNCHANGED chain \/ chain'.kind # "reply" \/ chain'.node = NoNode)
  BY <1>1 DEF Found
<1>2. CASE Create \/ Proclaim \/ Delete
  <2>1. UNCHANGED chain
    BY <1>2 DEF Create, Proclaim, Delete
  <2>2. \E e \in Entries : log' = Append(log, e)
    BY <1>2, ChangeIsEntry
  <2> QED
    BY <2>1, <2>2, ChangeFinds
<1>3. CASE ServeRange
  <2>1. /\ chain'.kind = "reply" /\ chain'.node = Leader(nodes) /\ UNCHANGED log
        /\ log \in Seq(Entries) /\ Len(log) \in Nat /\ nodes \subseteq Nodes
    BY <1>3 DEF ServeRange, etcd, Types, EtcdTypes
  <2>2. CASE nodes = {}
    BY <2>1, <2>2 DEF Found, Leader
  <2>3. CASE nodes # {}
    <3> DEFINE r == Len(log) + 1
    <3>1. Leader(nodes) \in nodes /\ IsFirst(nodes, Leader(nodes))
      BY <2>1, <2>3, LeaderIsFirst
    <3>2. r \in 1..(Len(log) + 1) /\ NodesIn(log, 1, r - 1) = nodes
      BY <2>1 DEF Replays, History
    <3>3. /\ chain'.node \in NodesIn(log', 1, r - 1)
          /\ ViewContract!Leads(chain'.node, NodesIn(log', 1, r - 1))
      BY <2>1, <3>1, <3>2 DEF IsFirst, ViewContract!Leads
    <3> QED
      BY <2>1, <3>2, <3>3 DEF Found
  <2> QED
    BY <2>2, <2>3
<1>4. CASE Compact \/ RangeFails \/ ServeWatch \/ StreamBreaks
  BY <1>1, <1>4 DEF Compact, RangeFails, ServeWatch, StreamBreaks, etcd
<1>5. CASE Callback
  <2>1. UNCHANGED log
    BY <1>5 DEF Callback, OnRangeRequest, OnRangeCancelled, OnWatchCreate, OnWatchRead,
                OnWatchReadEnds, OnWatchCancel, CallSubscriber, Return, etcd
  <2>2. UNCHANGED chain \/ chain'.kind # "reply"
    BY <1>5, OpType
       DEF Callback, OnRangeRequest, CreateWatcher, OnRangeCancelled, OnWatchCreate,
           OnWatchRead, OnWatchReadEnds, OnWatchCancel, CallSubscriber, Return, StartRead
  <2> QED
    BY <1>1, <2>1, <2>2
<1>6. CASE Subscription
  BY <1>1, <1>6 DEF Subscription, Subscribe, SubscribeAdd, Unsubscribe, etcd
<1>7. CASE Application
  <2>1. UNCHANGED log /\ (UNCHANGED chain \/ chain'.kind # "reply")
    BY <1>7, OpType DEF Application, Startup, Discover, Shutdown, Cleanup, CleanupOps,
                        CleanupDone, etcd
  <2> QED
    BY <1>1, <2>1
<1>8. CASE UNCHANGED vars
  BY <1>1, <1>8 DEF vars, etcd
<1> QED
  BY <1>2, <1>3, <1>4, <1>5, <1>6, <1>7, <1>8 DEF Next, Etcd
\* A step of the contract is none when the history, the watcher's place and the
\* participants stay what they are.
LEMMA ViewUntouched ==
  ASSUME UNCHANGED <<log, next, participants_, failures>>, watch' = "none" <=> watch = "none"
  PROVE  UNCHANGED ViewContract!vars
BY DEF ViewContract!vars

\* The election changes.
LEMMA ChangeImplements ==
  ASSUME Types, Create \/ Proclaim \/ Delete
  PROVE  ViewContract!Next
<1>1. UNCHANGED <<watch, next, participants_, failures>>
  BY DEF Create, Proclaim, Delete, watcher
<1>2. PICK e \in Entries : log' = Append(log, e)
  BY ChangeIsEntry
<1>3. log \in Seq(Entries) /\ Len(log) \in Nat
  BY DEF Types, EtcdTypes
<1>4. log' \in Seq(Entries) /\ Len(log') = Len(log) + 1
  BY <1>2, <1>3, Appended
<1>5. Len(HistoryOf(log')) = Len(HistoryOf(log)) + 1
  BY <1>3, <1>4, HistoryFacts
<1>6. ASSUME NEW r \in 1..Len(HistoryOf(log))  PROVE HistoryOf(log')[r] = HistoryOf(log)[r]
  <2>1. r \in 1..(Len(log) + 1) /\ r \in 1..(Len(log') + 1) /\ r - 1 \in 0..Len(log)
    BY <1>3, <1>4, HistoryFacts
  <2>2. /\ HistoryOf(log)[r] = NodesIn(log, 1, r - 1)
        /\ HistoryOf(log')[r] = NodesIn(log', 1, r - 1)
    BY <1>3, <1>4, <2>1, HistoryFacts
  <2>3. 1 \in Nat /\ 1 > 0
    OBVIOUS
  <2>4. NodesIn(log', 1, r - 1) = NodesIn(log, 1, r - 1)
    BY <1>2, <1>3, <2>1, <2>3, HistoryGoesOn
  <2> QED
    BY <2>2, <2>4
<1>7. ViewContract!Change
  BY <1>1, <1>5, <1>6 DEF ViewContract!Change
<1> QED
  BY <1>7 DEF ViewContract!Next

\* The server creates the watcher: the observer starts to follow.
LEMMA WatchImplements ==
  ASSUME Types, Replays, Replays', ServeWatch
  PROVE  [ViewContract!Next]_ViewContract!vars
<1>0. UNCHANGED <<log, nodes, compacted, participants_, failures>> /\ failures \in Nat
  BY DEF ServeWatch, etcd, Types, OtherTypes
<1>1. CASE failures # 0
  BY <1>0, <1>1 DEF ViewContract!Next
<1>2. CASE failures = 0 /\ UNCHANGED next /\ (watch' = "none" <=> watch = "none")
  BY <1>0, <1>2, ViewUntouched
<1>3. CASE failures = 0 /\ Head(requests).type = "create"
  <2>1. /\ log \in Seq(Entries) /\ Len(log) \in Nat
        /\ requests \in Seq(Requests) /\ requests # <<>> /\ Head(requests) = requests[1]
    BY DEF ServeWatch, Types, EtcdTypes, WatcherTypes
  <2>2. IsCreate(1) /\ 1 \in 1..Len(requests)
    BY <1>3, <2>1 DEF IsCreate
  <2>3. watch = "none" /\ compacted = 0 /\ requests[1].start # 0
    BY <1>3, <2>2 DEF Replays, AsksOnce, Replaying, Asked
  <2>4. requests[1].start \in Nat
    <3>1. requests[1] \in Requests
      BY <2>1, <2>2, Entry
    <3> QED
      BY <3>1, ObserverAssumption DEF Requests
  <2>5. watch' = "created"
    BY <1>3, <2>1, <2>3, <2>4 DEF ServeWatch
  <2>6. PICK s \in 1..next' :
          /\ Complete(log, s) /\ next' <= Len(log) + 1
          /\ \/ participants_ = NodesIn(log, s, next' - 1)
             \/ s = next' /\ BeforeEntry(log, s, participants_)
    BY <1>0, <1>3, <2>5 DEF Replays, Replaying, Replayed
  <2>7. next' \in Nat /\ s \in Nat /\ next' \in 1..(Len(log) + 1) /\ next' # 0
    <3>1. next' \in Int
      BY <1>3, <2>1, <2>3, <2>4 DEF ServeWatch
    <3> QED
      BY <2>1, <2>6, <3>1
  <2>8. ASSUME next' = Len(log) + 1  PROVE participants_ = NodesIn(log, 1, Len(log))
    <3>1. NodesIn(log, s, Len(log)) = NodesIn(log, 1, Len(log))
      BY <2>1, <2>6, CompleteIsAll
    <3>2. CASE participants_ = NodesIn(log, s, next' - 1)
      BY <2>1, <2>8, <3>1, <3>2
    <3>3. CASE s = next' /\ BeforeEntry(log, s, participants_)
      <4>1. participants_ = {}
        BY <2>1, <2>8, <3>3 DEF BeforeEntry, CreatedBy
      <4>2. s - 1 = Len(log)
        BY <2>1, <2>8, <3>3
      <4> QED
        BY <2>7, <3>1, <4>1, <4>2, NodesInNone
    <3> QED
      BY <2>6, <3>2, <3>3
  <2>9. Len(HistoryOf(log)) = Len(log) + 1
    BY <2>1, HistoryFacts
  <2>10. next' = Len(HistoryOf(log)) => participants_ = HistoryOf(log)[next']
    <3> SUFFICES ASSUME next' = Len(log) + 1 PROVE participants_ = HistoryOf(log)[next']
      BY <2>9
    <3>1. HistoryOf(log)[next'] = NodesIn(log, 1, next' - 1) /\ next' - 1 = Len(log)
      BY <2>1, <2>7, HistoryFacts
    <3> QED
      BY <2>8, <3>1
  <2>11. ViewContract!Start
    BY <1>0, <2>3, <2>5, <2>7, <2>9, <2>10 DEF ViewContract!Start, ViewContract!InStep
  <2> QED
    BY <2>11 DEF ViewContract!Next
<1>4. Head(requests).type = "create" \/ (UNCHANGED next /\ (watch' = "none" <=> watch = "none"))
  BY DEF ServeWatch
<1> QED
  BY <1>1, <1>2, <1>3, <1>4

\* on_range_request(): the search has found somebody, or nobody.
LEMMA SearchImplements ==
  ASSUME Types, Replays, Found, OnRangeRequest
  PROVE  [ViewContract!Next]_ViewContract!vars
<1>0. UNCHANGED <<log, watch, next, failures>> /\ chain.kind = "reply"
  BY DEF OnRangeRequest, etcd
<1>1. watch = "none" /\ participants_ = {}
  BY <1>0 DEF Replays, AsksOnce
<1>2. CASE chain.node = NoNode
  BY <1>0, <1>2, ViewUntouched DEF OnRangeRequest
<1>3. CASE chain.node # NoNode
  <2>1. HandleNodePut({}, chain.node).view = {chain.node}
    BY DEF HandleNodePut
  <2>2. participants_' = {chain.node}
    BY <1>1, <1>3, <2>1 DEF OnRangeRequest
  <2>3. PICK r \in 1..(Len(log) + 1) :
          /\ chain.node \in NodesIn(log, 1, r - 1)
          /\ ViewContract!Leads(chain.node, NodesIn(log, 1, r - 1))
    BY <1>0, <1>3 DEF Found
  <2>4. r \in 1..Len(HistoryOf(log)) /\ HistoryOf(log)[r] = NodesIn(log, 1, r - 1)
    BY HistoryFacts DEF Types, EtcdTypes
  <2>5. ViewContract!Search
    BY <1>0, <1>1, <2>2, <2>3, <2>4 DEF ViewContract!Search
  <2> QED
    BY <2>5 DEF ViewContract!Next
<1> QED
  BY <1>2, <1>3

\* on_watch_read(): the events of one response.
LEMMA EventsImplement ==
  ASSUME Types, Replays, failures = 0, watch = "active", UNCHANGED <<log, watch, failures>>,
         NEW to \in next..Len(log),
         participants_' = HandleEvents(next, to).view, next' = to + 1
  PROVE  ViewContract!Follow
<1>0. /\ log \in Seq(Entries) /\ Len(log) \in Nat /\ next \in Nat \ {0} /\ to \in Nat
      /\ participants_ \subseteq Nodes /\ UniqueCreates(participants_)
  BY ObserverAssumption DEF Types, EtcdTypes, WatcherTypes, ViewTypes
<1>1. compacted = 0
  BY DEF Replays, Replaying
<1>2. PICK s \in 1..next :
        /\ Complete(log, s)
        /\ \/ participants_ = NodesIn(log, s, next - 1)
           \/ s = next /\ BeforeEntry(log, s, participants_)
  BY DEF Replays, Replaying, Replayed
<1>3. participants_' = NodesIn(log, s, to)
  BY <1>0, <1>1, <1>2, EventsReplay
<1>4. /\ Len(HistoryOf(log)) = Len(log) + 1 /\ next \in 1..(Len(log) + 1)
      /\ next' \in (next + 1)..(Len(log) + 1) /\ next' \in 1..(Len(log) + 1) /\ next' - 1 = to
  BY <1>0, HistoryFacts
<1>5. /\ HistoryOf(log)[next] = NodesIn(log, 1, next - 1)
      /\ HistoryOf(log)[next'] = NodesIn(log, 1, to)
  BY <1>0, <1>4, HistoryFacts
<1>6. participants_' \subseteq HistoryOf(log)[next']
  BY <1>0, <1>3, <1>5, LaterPart
<1>7. ASSUME participants_ = HistoryOf(log)[next]  PROVE participants_' = HistoryOf(log)[next']
  <2>1. 1 \in 1..next /\ participants_ = NodesIn(log, 1, next - 1)
    BY <1>0, <1>5, <1>7
  <2>2. participants_' = NodesIn(log, 1, to)
    BY <1>0, <1>1, <2>1, EventsReplay
  <2> QED
    BY <1>5, <2>2
<1>8. ASSUME next' = Len(log) + 1  PROVE participants_' = HistoryOf(log)[next']
  <2>1. to = Len(log)
    BY <1>0, <1>8
  <2> QED
    BY <1>0, <1>2, <1>3, <1>5, <2>1, CompleteIsAll
<1>9. watch # "none" /\ watch' # "none" /\ next # 0 /\ next' # 0
  BY <1>0, <1>4
<1> QED
  BY <1>4, <1>6, <1>7, <1>8, <1>9 DEF ViewContract!Follow, ViewContract!InStep

LEMMA ReadImplements ==
  ASSUME Types, Replays, OnWatchRead
  PROVE  [ViewContract!Next]_ViewContract!vars
<1>0. UNCHANGED <<log, failures>>
  BY DEF OnWatchRead, etcd
<1>1. CASE failures # 0
  BY <1>0, <1>1 DEF ViewContract!Next
<1>2. CASE failures = 0 /\ watch = "created"
  <2>1. watch' = "active" /\ UNCHANGED <<next, participants_>>
    BY <1>2 DEF OnWatchRead
  <2> QED
    BY <1>0, <1>2, <2>1, ViewUntouched
<1>3. CASE failures = 0 /\ watch = "active"
  <2>1. PICK to \in next..Len(log) :
          participants_' = HandleEvents(next, to).view /\ next' = to + 1
    BY <1>3 DEF OnWatchRead
  <2>2. UNCHANGED watch
    BY <1>3 DEF OnWatchRead
  <2>3. ViewContract!Follow
    BY <1>0, <1>3, <2>1, <2>2, EventsImplement
  <2> QED
    BY <2>3 DEF ViewContract!Next
<1>4. watch \in {"created", "active"}
  BY DEF OnWatchRead
<1> QED
  BY <1>1, <1>2, <1>3, <1>4

\* Every step of the observer is a step of the contract, or none.
LEMMA ViewStep ==
  Types /\ Replays /\ Replays' /\ Found /\ [Next]_vars => [ViewContract!Next]_ViewContract!vars
<1> SUFFICES ASSUME Types, Replays, Replays', Found, [Next]_vars
             PROVE  [ViewContract!Next]_ViewContract!vars
  OBVIOUS
<1>1. CASE failures' # 0
  BY <1>1 DEF ViewContract!Next
<1>2. CASE UNCHANGED <<log, watch, next, participants_, failures>>
  BY <1>2, ViewUntouched
<1>3. CASE Compact \/ RangeFails \/ StreamBreaks \/ OnRangeCancelled
  <2>1. failures' # 0
    BY <1>3 DEF Compact, RangeFails, StreamBreaks, OnRangeCancelled, Fails, Types, OtherTypes
  <2> QED
    BY <1>1, <2>1
<1>4. CASE ServeRange
  BY <1>2, <1>4 DEF ServeRange, etcd, watcher
<1>5. CASE OnWatchCreate \/ OnWatchReadEnds \/ OnWatchCancel \/ Return
             \/ \E s \in Subscribers : CallSubscriber(s)
  BY <1>2, <1>5 DEF OnWatchCreate, OnWatchReadEnds, OnWatchCancel, Return, CallSubscriber,
                    etcd, watcher
<1>6. CASE Subscription
  BY <1>2, <1>6 DEF Subscription, Subscribe, SubscribeAdd, Unsubscribe, etcd, watcher
<1>7. CASE Application
  <2>1. CASE Startup
    <3>1. failures' = failures \/ failures' # 0
      BY <2>1 DEF Startup, CreateWatcherStream, Fails, Types, OtherTypes
    <3> QED
      BY <1>1, <1>2, <2>1, <3>1 DEF Startup, etcd, watcher
  <2>2. CASE ~Startup
    BY <1>2, <1>7, <2>2 DEF Application, Shutdown, CancelWatcher, Cleanup, CleanupOps,
                            CleanupDone, etcd, watcher
  <2> QED
    BY <2>1, <2>2
<1>8. CASE UNCHANGED vars
  BY <1>2, <1>8 DEF vars, etcd, watcher
<1> QED
  BY <1>3, <1>4, <1>5, <1>6, <1>7, <1>8, ChangeImplements, WatchImplements,
     SearchImplements, ReadImplements DEF Next, Etcd, Callback

\* The observer keeps its contract, for any candidates, any history of the election and
\* any split of the events into responses: it never counts somebody among the
\* participants who was none at the revision it has reached, it knows all of them at the
\* end of the history, and once it does it stays in step.
THEOREM ObserverKeepsContract == Spec => ImplementsView
<1>1. Init => ViewContract!Init
  <2> SUFFICES ASSUME Init PROVE ViewContract!Init
    OBVIOUS
  <2>1. log = <<>> /\ watch = "none" /\ participants_ = {} /\ failures = 0
    BY DEF Init
  <2>2. log \in Seq(Entries) /\ Len(log) = 0
    BY <2>1
  <2>3. HistoryOf(log) = <<{}>>
    BY <2>2 DEF HistoryOf, NodesIn
  <2> QED
    BY <2>1, <2>3 DEF ViewContract!Init
<1> QED
  BY <1>1, InitTypes, NextTypes, InitReplays, NextReplays, InitFound, NextFound, ViewStep, PTL
     DEF Spec, ImplementsView, ViewContract!Spec

-----------------------------------------------------------------------------
(* What the contract is good for.                                          *)

\* The contract's own invariant.
LEMMA ContractStep ==
  ViewContract!Followed /\ [ViewContract!Next]_ViewContract!vars
    => /\ ViewContract!Followed'
       /\ ViewContract!InStep /\ failures' = 0 => ViewContract!InStep'
<1> SUFFICES ASSUME ViewContract!Followed, [ViewContract!Next]_ViewContract!vars
             PROVE  /\ ViewContract!Followed'
                    /\ ViewContract!InStep /\ failures' = 0 => ViewContract!InStep'
  OBVIOUS
<1> USE DEF ViewContract!Followed, ViewContract!InHistory, ViewContract!InStep
<1> DEFINE position == IF watch = "none" THEN 0 ELSE next
<1>1. CASE failures' # 0
  BY <1>1
<1>2. CASE ViewContract!Change
  <2>1. /\ Len(HistoryOf(log')) = Len(HistoryOf(log)) + 1
        /\ \A r \in 1..Len(HistoryOf(log)) : HistoryOf(log')[r] = HistoryOf(log)[r]
        /\ position' = position /\ participants_' = participants_
        /\ (failures' # 0) = (failures # 0)
    BY <1>2 DEF ViewContract!Change
  <2> HIDE DEF position
  <2> QED
    BY <2>1 DEF position
<1>3. CASE ViewContract!Search
  BY <1>3 DEF ViewContract!Search
<1>4. CASE ViewContract!Start
  BY <1>4 DEF ViewContract!Start
<1>5. CASE ViewContract!Follow
  BY <1>5 DEF ViewContract!Follow
<1>6. CASE UNCHANGED ViewContract!vars
  BY <1>6 DEF ViewContract!vars
<1> QED
  BY <1>1, <1>2, <1>3, <1>4, <1>5, <1>6 DEF ViewContract!Next

LEMMA ContractInvariance == ViewContract!Spec => []ViewContract!Followed
<1>1. ViewContract!Init => ViewContract!Followed
  BY DEF ViewContract!Init, ViewContract!Followed, ViewContract!InHistory
<1> QED
  BY <1>1, ContractStep, PTL DEF ViewContract!Spec

\* Whoever keeps the contract knows the participants at the end of the history ...
THEOREM ContractSafety == ViewContract!Spec => []ViewContract!KnowsTheEnd
<1>1. ViewContract!Followed => ViewContract!KnowsTheEnd
  BY DEF ViewContract!Followed, ViewContract!InHistory, ViewContract!KnowsTheEnd
<1> QED
  BY <1>1, ContractInvariance, PTL

\* ... and never misses one again once it knows all of them.
THEOREM ContractStaysInStep == ViewContract!Spec => ViewContract!StaysInStep
<1>1. ViewContract!Followed /\ [ViewContract!Next]_ViewContract!vars
        => [ViewContract!InStep /\ ~(failures # 0)' => ViewContract!InStep']_ViewContract!vars
  BY ContractStep
<1> QED
  BY <1>1, ContractInvariance, PTL DEF ViewContract!Spec, ViewContract!StaysInStep
=============================================================================
