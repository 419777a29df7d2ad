---------------------- MODULE ElectionCandidateProofs ----------------------
(***************************************************************************)
(* Proofs about ElectionCandidate, for any set of candidates and values,   *)
(* any bounds, and with or without compactions and failures.               *)
(***************************************************************************)
EXTENDS ElectionCandidate, TLAPS

\* The types, without the range of reads_, which follows from the accounting.
StoreTypes ==
  /\ revision \in 1..(MaxRevision + 1) /\ compacted \in 0..revision
  /\ createRev \in [Candidates -> 0..revision]
  /\ value \in [Candidates -> Values \cup {NoValue}]
  /\ events \subseteq Events

LeaseTypes == lease \in [Candidates -> BOOLEAN]

WatchTypes == watches \in [Candidates -> SUBSET Watches]

CampaignTypes ==
  /\ creation_revision_ \in [Candidates -> 0..revision]
  /\ candidate_value_ \in [Candidates -> Values]
  /\ watched_keys_ \in [Candidates -> SUBSET Candidates]
  /\ current_watches_ \in [Candidates -> SUBSET WatchIds]
  /\ stream \in [Candidates -> {"none", "open", "cancelled", "finished"}]

ResultTypes ==
  /\ elected_ \in [Candidates -> BOOLEAN]
  /\ promise_ \in [Candidates -> {"unset", "elected", "not elected"}]

AsyncTypes ==
  /\ async \in [Candidates -> Asyncs]
  /\ ops_ \in [Candidates -> Int] /\ reads_ \in [Candidates -> Int]

ThreadTypes ==
  /\ opsShutdown \in [Candidates -> BOOLEAN] /\ readsShutdown \in [Candidates -> BOOLEAN]
  /\ app \in [Candidates -> AppStates]
  /\ tocancel \in [Candidates -> SUBSET WatchIds]
  /\ cancels \in [Candidates -> SUBSET WatchIds]
  /\ restarts \in 0..MaxRestarts

Types ==
  /\ StoreTypes /\ LeaseTypes /\ WatchTypes /\ CampaignTypes /\ ResultTypes
  /\ AsyncTypes /\ ThreadTypes

-----------------------------------------------------------------------------
(* What the operators that several actions share preserve.                 *)

\* The operations of a campaign are well formed.
LEMMA AsyncValues ==
  /\ Idle \in Asyncs /\ Range \in Asyncs /\ Read \in Asyncs /\ WriteDone \in Asyncs
  /\ ReadOn \in Asyncs /\ Query \in Asyncs /\ Ask \in Asyncs
  /\ \A p \in Candidates \cup {NoKey}, r \in Nat :
       Reply(p, r) \in Asyncs /\ RangeDone(p, r) \in Asyncs
  /\ \A p \in Candidates, r \in Nat : Write(p, r) \in Asyncs
  /\ \A a \in Asyncs :
       /\ a.rev \in Nat /\ a.key \in Candidates \cup {NoKey}
       /\ a.kind = "write" => a.key \in Candidates
BY DEF Asyncs, Idle, Range, Read, Reply, RangeDone, Write, WriteDone, ReadOn, Query, Ask

\* What tells the operations apart.
LEMMA AsyncKinds ==
  /\ Idle.kind = "none" /\ Range.kind = "range" /\ Read.kind = "read"
  /\ WriteDone.kind = "write_done" /\ ReadOn.kind = "read_on"
  /\ Query.kind = "query" /\ Ask.kind = "ask"
BY DEF Idle, Range, Read, WriteDone, ReadOn, Query, Ask

\* A write to etcd keeps the store well formed and moves the revision forward.
LEMMA PutTypes ==
  ASSUME StoreTypes, NEW c \in Candidates, NEW v \in Values, Put(c, v)
  PROVE  StoreTypes' /\ revision' = revision + 1 /\ lease' = lease
<1> USE CandidateAssumption DEF StoreTypes, Put
<1>1. revision' \in 1..(MaxRevision + 1) /\ compacted' \in 0..revision'
  OBVIOUS
<1>2. createRev' \in [Candidates -> 0..revision']
  OBVIOUS
<1>3. value' \in [Candidates -> Values \cup {NoValue}]
  OBVIOUS
<1>4. events' \subseteq Events
  BY DEF Events
<1>5. QED
  BY <1>1, <1>2, <1>3, <1>4

\* So does a deletion, which has no effect when the node does not exist.
LEMMA DeleteTypes ==
  ASSUME StoreTypes, NEW c \in Candidates, Delete(c), compacted' = compacted
  PROVE  StoreTypes' /\ revision' \in {revision, revision + 1}
<1> USE CandidateAssumption DEF StoreTypes, Delete
<1>1. CASE Exists(c)
  <2>1. revision' \in 1..(MaxRevision + 1) /\ compacted' \in 0..revision' /\ revision' = revision + 1
    BY <1>1
  <2>2. createRev' \in [Candidates -> 0..revision']
    BY <1>1
  <2>3. value' \in [Candidates -> Values \cup {NoValue}]
    BY <1>1
  <2>4. events' \subseteq Events
    BY <1>1 DEF Events
  <2>5. QED
    BY <2>1, <2>2, <2>3, <2>4
<1>2. CASE ~Exists(c)
  BY <1>2
<1>3. QED
  BY <1>1, <1>2

\* A revision that moves forward does not invalidate what the candidates hold.
LEMMA LaterRevision ==
  ASSUME StoreTypes, StoreTypes', CampaignTypes, revision <= revision',
         UNCHANGED <<creation_revision_, candidate_value_, watched_keys_, current_watches_, stream>>
  PROVE  CampaignTypes'
<1>1. \A c \in Candidates : creation_revision_'[c] \in 0..revision'
  BY DEF StoreTypes, CampaignTypes
<1>2. QED
  BY <1>1 DEF CampaignTypes

\* election_result() stores a result and leaves the promise in a known state.
LEMMA ElectionResultTypes ==
  ASSUME ResultTypes, NEW c \in Candidates, NEW r \in BOOLEAN, ElectionResult(c, r)
  PROVE  ResultTypes'
BY DEF ResultTypes, ElectionResult

\* on_watch_read() decides on a well formed continuation.
LEMMA ReadTailTypes ==
  ASSUME ResultTypes, AsyncTypes, NEW c \in Candidates, NEW canceled \in BOOLEAN,
         ReadTail(c, canceled), ops_' = ops_
  PROVE  ResultTypes' /\ AsyncTypes'
<1>1. async' = [async EXCEPT ![c] = Query] \/ async' = [async EXCEPT ![c] = ReadOn]
  BY DEF ReadTail
<1>2. async' \in [Candidates -> Asyncs]
  BY <1>1, AsyncValues DEF AsyncTypes
<1>3. reads_' \in [Candidates -> Int]
  BY DEF ReadTail, AsyncTypes
<1>4. QED
  BY <1>2, <1>3 DEF ReadTail, ResultTypes, AsyncTypes, result

-----------------------------------------------------------------------------
(* The state stays well formed.                                            *)

\* Every action of etcd, of the callbacks and of the application keeps the types.
LEMMA TypesStep == Types /\ [Next]_vars => Types'
<1> SUFFICES ASSUME Types, [Next]_vars PROVE Types'
  OBVIOUS
<1> USE CandidateAssumption, AsyncValues DEF Types, etcd, campaignVars, result, counters, resigning
<1>1. ASSUME NEW c \in Candidates, LeaseEnd(c) PROVE Types'
  <2>0. StoreTypes' /\ revision' \in {revision, revision + 1}
    BY <1>1, DeleteTypes DEF LeaseEnd
  <2>1. LeaseTypes' /\ WatchTypes' /\ ResultTypes' /\ AsyncTypes' /\ ThreadTypes'
    BY <1>1 DEF LeaseEnd, LeaseTypes, WatchTypes, ResultTypes, AsyncTypes, ThreadTypes, AppStates
  <2>2. StoreTypes'
    BY <2>0
  <2>3. CampaignTypes'
    BY <1>1, <2>0, LaterRevision DEF LeaseEnd, StoreTypes
  <2>4. QED
    BY <2>1, <2>2, <2>3
<1>2. ASSUME NEW c \in Candidates, ServeRange(c) PROVE Types'
  <2>1. StoreTypes' /\ LeaseTypes' /\ WatchTypes' /\ CampaignTypes' /\ ResultTypes' /\ ThreadTypes'
    BY <1>2 DEF ServeRange, StoreTypes, LeaseTypes, WatchTypes, CampaignTypes, ResultTypes, ThreadTypes, AppStates
  <2>2. AsyncTypes'
    <3>1. revision \in Nat
      BY DEF StoreTypes
    <3>2. PICK p \in Candidates \cup {NoKey} : async' = [async EXCEPT ![c] = Reply(p, revision)]
      BY <1>2 DEF ServeRange, Predecessor, Older
    <3>3. QED
      BY <1>2, <3>1, <3>2 DEF ServeRange, AsyncTypes
  <2>3. QED
    BY <2>1, <2>2
<1>3. ASSUME NEW c \in Candidates, ServeWatch(c) PROVE Types'
  <2>1. StoreTypes' /\ LeaseTypes' /\ CampaignTypes' /\ ResultTypes' /\ AsyncTypes' /\ ThreadTypes'
    BY <1>3 DEF ServeWatch, StoreTypes, LeaseTypes, CampaignTypes, ResultTypes, AsyncTypes, ThreadTypes, AppStates
  <2>2. WatchTypes'
    <3>1. PICK w \in watches[c] : watches' = [watches EXCEPT ![c] = (@ \ {w}) \cup
            {[w EXCEPT !.state = "served", !.lost = (w.id.start < compacted)]}]
      BY <1>3 DEF ServeWatch
    <3>2. w \in Watches /\ (w.id.start < compacted) \in BOOLEAN
      BY DEF WatchTypes
    <3>3. [w EXCEPT !.state = "served", !.lost = (w.id.start < compacted)] \in Watches
      BY <3>2 DEF Watches
    <3>4. QED
      BY <3>1, <3>3 DEF WatchTypes
  <2>3. QED
    BY <2>1, <2>2
<1>4. ASSUME NEW c \in Candidates, StreamBreaks(c) PROVE Types'
  <2>1. StoreTypes' /\ LeaseTypes' /\ WatchTypes' /\ CampaignTypes' /\ ResultTypes' /\ AsyncTypes' /\ ThreadTypes'
    BY <1>4 DEF StreamBreaks, StoreTypes, LeaseTypes, WatchTypes, CampaignTypes, ResultTypes, AsyncTypes, ThreadTypes, AppStates
  <2>2. QED
    BY <2>1
<1>5. ASSUME NEW c \in Candidates, Campaign(c) PROVE Types'
  <2>1. StoreTypes' /\ LeaseTypes' /\ WatchTypes' /\ ResultTypes' /\ AsyncTypes'
    BY <1>5 DEF Campaign, StoreTypes, LeaseTypes, WatchTypes, ResultTypes, AsyncTypes
  <2>2. CampaignTypes'
    BY <1>5 DEF Campaign, CampaignTypes
  <2>3. ThreadTypes'
    BY <1>5 DEF Campaign, ThreadTypes, AppStates
  <2>4. QED
    BY <2>1, <2>2, <2>3
<1>6. ASSUME NEW c \in Candidates, CreateNode(c) PROVE Types'
  <2>0. StoreTypes' /\ revision' = revision + 1 /\ lease' = lease
    BY <1>6, PutTypes DEF CreateNode, CampaignTypes
  <2>1. WatchTypes' /\ ResultTypes' /\ AsyncTypes' /\ ThreadTypes'
    BY <1>6 DEF CreateNode, WatchTypes, ResultTypes, AsyncTypes, ThreadTypes, AppStates
  <2>2. StoreTypes'
    BY <2>0
  <2>3. LeaseTypes'
    BY <2>0 DEF LeaseTypes
  <2>4. CampaignTypes'
    <3>1. \A d \in Candidates : creation_revision_'[d] \in 0..revision'
      BY <1>6, <2>0 DEF CreateNode, StoreTypes, CampaignTypes
    <3>2. QED
      BY <1>6, <3>1 DEF CreateNode, CampaignTypes
  <2>5. QED
    BY <2>1, <2>2, <2>3, <2>4
<1>7. ASSUME NEW c \in Candidates, AdoptNode(c) PROVE Types'
  <2>1. StoreTypes' /\ LeaseTypes' /\ WatchTypes' /\ ResultTypes' /\ AsyncTypes' /\ ThreadTypes'
    BY <1>7 DEF AdoptNode, StoreTypes, LeaseTypes, WatchTypes, ResultTypes, AsyncTypes, ThreadTypes, AppStates
  <2>2. CampaignTypes'
    BY <1>7 DEF AdoptNode, StoreTypes, CampaignTypes
  <2>3. QED
    BY <2>1, <2>2
<1>8. ASSUME NEW c \in Candidates, CreateNodeThrows(c) PROVE Types'
  <2>0. StoreTypes' /\ revision' \in {revision, revision + 1} /\ lease' = lease
    BY <1>8, PutTypes DEF CreateNodeThrows, StoreTypes, CampaignTypes
  <2>1. WatchTypes' /\ ResultTypes' /\ AsyncTypes' /\ ThreadTypes'
    BY <1>8 DEF CreateNodeThrows, WatchTypes, ResultTypes, AsyncTypes, ThreadTypes, AppStates
  <2>2. StoreTypes'
    BY <2>0
  <2>3. LeaseTypes'
    BY <2>0 DEF LeaseTypes
  <2>4. CampaignTypes'
    BY <1>8, <2>0, LaterRevision DEF CreateNodeThrows, StoreTypes
  <2>5. QED
    BY <2>1, <2>2, <2>3, <2>4
<1>9. ASSUME NEW c \in Candidates, PublishValue(c) PROVE Types'
  <2>0. StoreTypes' /\ revision' \in {revision, revision + 1} /\ lease' = lease
    BY <1>9, PutTypes, DeleteTypes DEF PublishValue, StoreTypes, CampaignTypes
  <2>1. WatchTypes' /\ ResultTypes' /\ AsyncTypes'
    BY <1>9 DEF PublishValue, WatchTypes, ResultTypes, AsyncTypes
  <2>2. StoreTypes'
    BY <2>0
  <2>3. LeaseTypes'
    BY <2>0 DEF LeaseTypes
  <2>4. CampaignTypes'
    BY <1>9, <2>0, LaterRevision DEF PublishValue, StoreTypes
  <2>5. ThreadTypes'
    BY <1>9 DEF PublishValue, ThreadTypes, AppStates
  <2>6. QED
    BY <2>1, <2>2, <2>3, <2>4, <2>5
<1>10. ASSUME NEW c \in Candidates, QueryPredecessor(c) PROVE Types'
  <2>1. StoreTypes' /\ LeaseTypes' /\ WatchTypes' /\ CampaignTypes' /\ ResultTypes' /\ ThreadTypes'
    BY <1>10 DEF QueryPredecessor, StoreTypes, LeaseTypes, WatchTypes, CampaignTypes, ResultTypes, ThreadTypes, AppStates
  <2>2. AsyncTypes'
    BY <1>10 DEF QueryPredecessor, AsyncTypes
  <2>3. QED
    BY <2>1, <2>2
<1>11. ASSUME NEW c \in Candidates, OnRangeRequest(c) PROVE Types'
  <2>1. StoreTypes' /\ LeaseTypes' /\ WatchTypes' /\ CampaignTypes' /\ ResultTypes' /\ ThreadTypes'
    BY <1>11 DEF OnRangeRequest, StoreTypes, LeaseTypes, WatchTypes, CampaignTypes, ResultTypes, ThreadTypes, AppStates
  <2>2. AsyncTypes'
    <3>1. async[c].key \in Candidates \cup {NoKey} /\ async[c].rev \in Nat
      BY DEF AsyncTypes
    <3>2. RangeDone(async[c].key, async[c].rev) \in Asyncs
      BY <3>1, AsyncValues
    <3>3. QED
      BY <1>11, <3>2 DEF OnRangeRequest, AsyncTypes
  <2>3. QED
    BY <2>1, <2>2
<1>12. ASSUME NEW c \in Candidates, OnRangeCancelled(c) PROVE Types'
  <2>1. StoreTypes' /\ LeaseTypes' /\ WatchTypes' /\ CampaignTypes' /\ AsyncTypes' /\ ThreadTypes'
    BY <1>12 DEF OnRangeCancelled, StoreTypes, LeaseTypes, WatchTypes, CampaignTypes, AsyncTypes, ThreadTypes, AppStates
  <2>2. ResultTypes'
    BY <1>12, ElectionResultTypes DEF OnRangeCancelled
  <2>3. QED
    BY <2>1, <2>2
<1>13. ASSUME NEW c \in Candidates, OnWatchCreate(c) PROVE Types'
  <2>1. StoreTypes' /\ LeaseTypes' /\ CampaignTypes' /\ ResultTypes' /\ ThreadTypes'
    BY <1>13 DEF OnWatchCreate, StoreTypes, LeaseTypes, CampaignTypes, ResultTypes, ThreadTypes, AppStates
  <2>2. WatchTypes'
    <3> DEFINE id == [key |-> async[c].key, start |-> async[c].rev]
               w == [id |-> id, next |-> id.start, state |-> "requested", lost |-> FALSE]
    <3>1. watches' = watches \/ watches' = [watches EXCEPT ![c] = @ \cup {w}]
      BY <1>13 DEF OnWatchCreate
    <3>2. async[c].key \in Candidates /\ async[c].rev \in Nat
      BY <1>13 DEF AsyncTypes, OnWatchCreate
    <3>3. w \in Watches
      BY <3>2 DEF Watches, WatchIds
    <3> HIDE DEF w
    <3>4. QED
      BY <3>1, <3>3 DEF WatchTypes
  <2>3. AsyncTypes'
    <3>1. PICK a \in {Idle, WriteDone} : async' = [async EXCEPT ![c] = a]
      BY <1>13 DEF OnWatchCreate
    <3>2. a \in Asyncs
      BY AsyncValues
    <3>3. QED
      BY <1>13, <3>1, <3>2 DEF OnWatchCreate, AsyncTypes
  <2>4. QED
    BY <2>1, <2>2, <2>3
<1>14. ASSUME NEW c \in Candidates, OnWatchCreated(c) PROVE Types'
  <2>0. ResultTypes' /\ AsyncTypes'
    BY <1>14, ReadTailTypes DEF OnWatchCreated
  <2>1. StoreTypes' /\ LeaseTypes' /\ ThreadTypes'
    BY <1>14 DEF OnWatchCreated, StoreTypes, LeaseTypes, ThreadTypes, AppStates
  <2>2. WatchTypes'
    <3>1. PICK w \in watches[c] : watches' = [watches EXCEPT ![c] = (@ \ {w}) \cup {[w EXCEPT !.state = "active"]}]
      BY <1>14 DEF OnWatchCreated
    <3>2. w \in Watches
      BY DEF WatchTypes
    <3>3. [w EXCEPT !.state = "active"] \in Watches
      BY <3>2 DEF Watches
    <3>4. QED
      BY <3>1, <3>3 DEF WatchTypes
  <2>3. CampaignTypes'
    <3>1. PICK w \in watches[c] : current_watches_' = [current_watches_ EXCEPT ![c] = @ \cup {w.id}]
      BY <1>14 DEF OnWatchCreated
    <3>2. w.id \in WatchIds
      BY DEF WatchTypes, Watches
    <3>3. QED
      BY <1>14, <3>1, <3>2 DEF OnWatchCreated, CampaignTypes
  <2>4. ResultTypes'
    BY <2>0
  <2>5. AsyncTypes'
    BY <2>0
  <2>6. QED
    BY <2>1, <2>2, <2>3, <2>4, <2>5
<1>15. ASSUME NEW c \in Candidates, OnWatchEvents(c) PROVE Types'
  <2>0. ResultTypes' /\ AsyncTypes'
    BY <1>15, ReadTailTypes DEF OnWatchEvents
  <2>1. StoreTypes' /\ LeaseTypes' /\ ThreadTypes'
    BY <1>15 DEF OnWatchEvents, StoreTypes, LeaseTypes, ThreadTypes, AppStates
  <2>2. WatchTypes'
    <3>1. PICK w \in watches[c], r \in 1..revision :
            watches' = [watches EXCEPT ![c] = (@ \ {w}) \cup {[w EXCEPT !.next = r + 1]}]
      BY <1>15 DEF OnWatchEvents
    <3>2. w \in Watches /\ r + 1 \in Nat
      BY DEF WatchTypes, StoreTypes
    <3>3. [w EXCEPT !.next = r + 1] \in Watches
      BY <3>2 DEF Watches
    <3>4. QED
      BY <3>1, <3>3 DEF WatchTypes
  <2>3. CampaignTypes'
    <3>1. PICK S : watched_keys_' = [watched_keys_ EXCEPT ![c] = @ \ S]
      BY <1>15 DEF OnWatchEvents
    <3>2. QED
      BY <1>15, <3>1 DEF OnWatchEvents, CampaignTypes
  <2>4. ResultTypes'
    BY <2>0
  <2>5. AsyncTypes'
    BY <2>0
  <2>6. QED
    BY <2>1, <2>2, <2>3, <2>4, <2>5
<1>16. ASSUME NEW c \in Candidates, OnWatchCanceled(c) PROVE Types'
  <2>0. ResultTypes' /\ AsyncTypes'
    BY <1>16, ReadTailTypes DEF OnWatchCanceled
  <2>1. StoreTypes' /\ LeaseTypes' /\ WatchTypes' /\ CampaignTypes' /\ ThreadTypes'
    BY <1>16 DEF OnWatchCanceled, StoreTypes, LeaseTypes, WatchTypes, CampaignTypes, ThreadTypes, AppStates
  <2>2. ResultTypes'
    BY <2>0
  <2>3. AsyncTypes'
    BY <2>0
  <2>4. QED
    BY <2>1, <2>2, <2>3
<1>17. ASSUME NEW c \in Candidates, OnWatchReadFails(c) PROVE Types'
  <2>1. StoreTypes' /\ LeaseTypes' /\ WatchTypes' /\ CampaignTypes' /\ ResultTypes' /\ ThreadTypes'
    BY <1>17 DEF OnWatchReadFails, StoreTypes, LeaseTypes, WatchTypes, CampaignTypes, ResultTypes, ThreadTypes, AppStates
  <2>2. AsyncTypes'
    BY <1>17 DEF OnWatchReadFails, AsyncTypes
  <2>3. QED
    BY <2>1, <2>2
<1>18. ASSUME NEW c \in Candidates, Resign(c) PROVE Types'
  <2>1. StoreTypes' /\ LeaseTypes' /\ WatchTypes' /\ CampaignTypes' /\ ResultTypes' /\ AsyncTypes'
    BY <1>18 DEF Resign, StoreTypes, LeaseTypes, WatchTypes, CampaignTypes, ResultTypes, AsyncTypes
  <2>2. ThreadTypes'
    BY <1>18 DEF Resign, CampaignTypes, ThreadTypes, AppStates
  <2>3. QED
    BY <2>1, <2>2
<1>19. ASSUME NEW c \in Candidates, CancelWatch(c) PROVE Types'
  <2>1. StoreTypes' /\ LeaseTypes' /\ WatchTypes' /\ CampaignTypes' /\ ResultTypes' /\ AsyncTypes'
    BY <1>19 DEF CancelWatch, StoreTypes, LeaseTypes, WatchTypes, CampaignTypes, ResultTypes, AsyncTypes
  <2>2. ThreadTypes'
    BY <1>19 DEF CancelWatch, ThreadTypes
  <2>3. QED
    BY <2>1, <2>2
<1>20. ASSUME NEW c \in Candidates, OnWatchCancel(c) PROVE Types'
  <2>1. StoreTypes' /\ LeaseTypes' /\ CampaignTypes' /\ ResultTypes' /\ AsyncTypes'
    BY <1>20 DEF OnWatchCancel, StoreTypes, LeaseTypes, CampaignTypes, ResultTypes, AsyncTypes
  <2>2. WatchTypes'
    <3>1. PICK i \in cancels[c] : watches' = [watches EXCEPT ![c] =
            {IF w.id = i /\ stream[c] = "open" THEN [w EXCEPT !.state = "cancelled"] ELSE w : w \in @}]
      BY <1>20 DEF OnWatchCancel
    <3>2. ASSUME NEW w \in watches[c]
          PROVE  w \in Watches /\ [w EXCEPT !.state = "cancelled"] \in Watches
      <4>1. w \in Watches
        BY DEF WatchTypes
      <4>2. QED
        BY <4>1 DEF Watches
    <3>3. QED
      BY <3>1, <3>2 DEF WatchTypes
  <2>3. ThreadTypes'
    BY <1>20 DEF OnWatchCancel, ThreadTypes
  <2>4. QED
    BY <2>1, <2>2, <2>3
<1>21. ASSUME NEW c \in Candidates, CancelStream(c) PROVE Types'
  <2>1. StoreTypes' /\ LeaseTypes' /\ WatchTypes' /\ CampaignTypes' /\ ResultTypes' /\ AsyncTypes' /\ ThreadTypes'
    BY <1>21 DEF CancelStream, StoreTypes, LeaseTypes, WatchTypes, CampaignTypes, ResultTypes, AsyncTypes, ThreadTypes, AppStates
  <2>2. QED
    BY <2>1
<1>22. ASSUME NEW c \in Candidates, DrainReads(c) PROVE Types'
  <2>1. StoreTypes' /\ LeaseTypes' /\ WatchTypes' /\ CampaignTypes' /\ ResultTypes' /\ AsyncTypes' /\ ThreadTypes'
    BY <1>22 DEF DrainReads, StoreTypes, LeaseTypes, WatchTypes, CampaignTypes, ResultTypes, AsyncTypes, ThreadTypes, AppStates
  <2>2. QED
    BY <2>1
<1>23. ASSUME NEW c \in Candidates, WritesDone(c) PROVE Types'
  <2>1. StoreTypes' /\ LeaseTypes' /\ WatchTypes' /\ CampaignTypes' /\ ResultTypes' /\ AsyncTypes'
    BY <1>23 DEF WritesDone, StoreTypes, LeaseTypes, WatchTypes, CampaignTypes, ResultTypes, AsyncTypes
  <2>2. ThreadTypes'
    BY <1>23 DEF WritesDone, ThreadTypes, AppStates
  <2>3. QED
    BY <2>1, <2>2
<1>24. ASSUME NEW c \in Candidates, Finish(c) PROVE Types'
  <2>1. StoreTypes' /\ LeaseTypes' /\ WatchTypes' /\ AsyncTypes'
    BY <1>24 DEF Finish, StoreTypes, LeaseTypes, WatchTypes, AsyncTypes
  <2>2. CampaignTypes'
    BY <1>24 DEF Finish, ElectionResult, CampaignTypes
  <2>3. ResultTypes'
    BY <1>24, ElectionResultTypes DEF Finish, ResultTypes
  <2>4. ThreadTypes'
    BY <1>24 DEF Finish, ElectionResult, ThreadTypes, AppStates
  <2>5. QED
    BY <2>1, <2>2, <2>3, <2>4
<1>25. ASSUME NEW c \in Candidates, Cleanup(c) PROVE Types'
  <2>1. StoreTypes' /\ LeaseTypes' /\ WatchTypes' /\ CampaignTypes'
    BY <1>25 DEF Cleanup, StoreTypes, LeaseTypes, WatchTypes, CampaignTypes
  <2>2. ResultTypes'
    BY <1>25 DEF Cleanup, ResultTypes
  <2>3. AsyncTypes'
    BY <1>25 DEF Cleanup, AsyncTypes
  <2>4. ThreadTypes'
    BY <1>25 DEF Cleanup, ThreadTypes, AppStates
  <2>5. QED
    BY <2>1, <2>2, <2>3, <2>4
<1>26. ASSUME NEW c \in Candidates, CleanupOps(c) PROVE Types'
  <2>1. StoreTypes' /\ LeaseTypes' /\ WatchTypes' /\ CampaignTypes' /\ ResultTypes' /\ AsyncTypes' /\ ThreadTypes'
    BY <1>26 DEF CleanupOps, StoreTypes, LeaseTypes, WatchTypes, CampaignTypes, ResultTypes, AsyncTypes, ThreadTypes, AppStates
  <2>2. QED
    BY <2>1
<1>27. ASSUME NEW c \in Candidates, CleanupReads(c) PROVE Types'
  <2>1. StoreTypes' /\ LeaseTypes' /\ WatchTypes' /\ CampaignTypes' /\ ResultTypes' /\ AsyncTypes' /\ ThreadTypes'
    BY <1>27 DEF CleanupReads, StoreTypes, LeaseTypes, WatchTypes, CampaignTypes, ResultTypes, AsyncTypes, ThreadTypes, AppStates
  <2>2. QED
    BY <2>1
<1>28. ASSUME NEW c \in Candidates, Crash(c) PROVE Types'
  <2>1. StoreTypes' /\ LeaseTypes'
    BY <1>28 DEF Crash, StoreTypes, LeaseTypes
  <2>2. WatchTypes'
    BY <1>28 DEF Crash, Discard, WatchTypes
  <2>3. CampaignTypes'
    BY <1>28 DEF Crash, Discard, StoreTypes, CampaignTypes
  <2>4. ResultTypes'
    BY <1>28 DEF Crash, Discard, ResultTypes
  <2>5. AsyncTypes'
    BY <1>28 DEF Crash, Discard, AsyncTypes
  <2>6. ThreadTypes'
    BY <1>28 DEF Crash, Discard, ThreadTypes, AppStates
  <2>7. QED
    BY <2>1, <2>2, <2>3, <2>4, <2>5, <2>6
<1>29. ASSUME NEW c \in Candidates, Restart(c) PROVE Types'
  <2>1. StoreTypes' /\ LeaseTypes'
    BY <1>29 DEF Restart, StoreTypes, LeaseTypes
  <2>2. WatchTypes'
    BY <1>29 DEF Restart, Discard, WatchTypes
  <2>3. CampaignTypes'
    BY <1>29 DEF Restart, Discard, StoreTypes, CampaignTypes
  <2>4. ResultTypes'
    BY <1>29 DEF Restart, Discard, ResultTypes
  <2>5. AsyncTypes'
    BY <1>29 DEF Restart, Discard, AsyncTypes
  <2>6. ThreadTypes'
    BY <1>29 DEF Restart, Discard, ThreadTypes, AppStates
  <2>7. QED
    BY <2>1, <2>2, <2>3, <2>4, <2>5, <2>6
<1>30. ASSUME NEW c \in Candidates, NEW v \in Values, Proclaim(c, v) PROVE Types'
  <2>1. StoreTypes' /\ revision' = revision + 1 /\ lease' = lease
    BY <1>30, PutTypes DEF Proclaim
  <2>2. \A d \in Candidates : creation_revision_'[d] \in 0..revision'
    BY <1>30, <2>1 DEF Proclaim, StoreTypes, CampaignTypes
  <2>3. CampaignTypes'
    <3>1. candidate_value_' \in [Candidates -> Values]
      BY <1>30 DEF Proclaim, CampaignTypes
    <3>2. creation_revision_' = creation_revision_ /\ UNCHANGED <<watched_keys_, current_watches_, stream>>
      BY <1>30 DEF Proclaim
    <3>3. creation_revision_' \in [Candidates -> 0..revision']
      BY <2>2, <3>2 DEF CampaignTypes
    <3> QED
      BY <3>1, <3>2, <3>3 DEF CampaignTypes
  <2>4. LeaseTypes' /\ WatchTypes' /\ ResultTypes' /\ AsyncTypes' /\ ThreadTypes'
    BY <1>30, <2>1 DEF Proclaim, LeaseTypes, WatchTypes, ResultTypes, AsyncTypes, ThreadTypes
  <2>5. QED
    BY <2>1, <2>3, <2>4
<1>31. ASSUME Compact PROVE Types'
  <2>1. StoreTypes'
    BY <1>31 DEF Compact, StoreTypes
  <2>2. LeaseTypes' /\ WatchTypes' /\ CampaignTypes' /\ ResultTypes' /\ AsyncTypes' /\ ThreadTypes'
    BY <1>31 DEF Compact, LeaseTypes, WatchTypes, CampaignTypes, ResultTypes, AsyncTypes, ThreadTypes
  <2>3. QED
    BY <2>1, <2>2
<1>32. ASSUME UNCHANGED vars PROVE Types'
  BY <1>32 DEF vars, StoreTypes, LeaseTypes, WatchTypes, CampaignTypes, ResultTypes, AsyncTypes, ThreadTypes
<1>33. ASSUME NEW c \in Candidates, WatchPredecessor(c) PROVE Types'
  <2>1. StoreTypes' /\ LeaseTypes' /\ WatchTypes' /\ ThreadTypes'
    BY <1>33 DEF WatchPredecessor, StoreTypes, LeaseTypes, WatchTypes, ThreadTypes, AppStates
  <2>2. CampaignTypes'
    <3>1. CASE watched_keys_' = watched_keys_
      BY <1>33, <3>1 DEF WatchPredecessor, CampaignTypes
    <3>2. CASE async[c].key # NoKey /\ watched_keys_' = [watched_keys_ EXCEPT ![c] = @ \cup {async[c].key}]
      <4>1. async[c].key \in Candidates
        BY <3>2 DEF AsyncTypes
      <4>2. watched_keys_' \in [Candidates -> SUBSET Candidates]
        BY <3>2, <4>1 DEF CampaignTypes
      <4>3. QED
        BY <1>33, <4>2 DEF WatchPredecessor, CampaignTypes
    <3>3. QED
      BY <1>33, <3>1, <3>2 DEF WatchPredecessor
  <2>3. ResultTypes'
    BY <1>33, ElectionResultTypes DEF WatchPredecessor, CheckElectionOverMaybe, ResultTypes
  <2>4. AsyncTypes'
    <3>1. async[c].key \in Candidates \cup {NoKey} /\ WatchStart(c) \in Nat
      BY DEF AsyncTypes, WatchStart
    <3>2. ops_' = ops_ \/ ops_' = [ops_ EXCEPT ![c] = @ + 1]
      BY <1>33 DEF WatchPredecessor
    <3>3. \/ async' = [async EXCEPT ![c] = Idle]
          \/ /\ async[c].key # NoKey
             /\ async' = [async EXCEPT ![c] = Write(async[c].key, WatchStart(c))]
      BY <1>33 DEF WatchPredecessor
    <3>4. async' \in [Candidates -> Asyncs]
      <4>1. PICK a \in Asyncs : async' = [async EXCEPT ![c] = a]
        <5>1. Idle \in Asyncs
          BY AsyncValues
        <5>2. async[c].key # NoKey => Write(async[c].key, WatchStart(c)) \in Asyncs
          BY <3>1, AsyncValues
        <5>3. QED
          BY <3>3, <5>1, <5>2
      <4>2. QED
        BY <4>1 DEF AsyncTypes
    <3>5. ops_' \in [Candidates -> Int] /\ reads_' \in [Candidates -> Int]
      BY <1>33, <3>2 DEF WatchPredecessor, AsyncTypes
    <3>6. QED
      BY <3>4, <3>5 DEF AsyncTypes
  <2>5. QED
    BY <2>1, <2>2, <2>3, <2>4
<1>34. ASSUME NEW c \in Candidates, StartRead(c) PROVE Types'
  <2>1. StoreTypes' /\ LeaseTypes' /\ WatchTypes' /\ CampaignTypes' /\ ResultTypes' /\ ThreadTypes'
    BY <1>34 DEF StartRead, StoreTypes, LeaseTypes, WatchTypes, CampaignTypes, ResultTypes, ThreadTypes, AppStates
  <2>2. AsyncTypes'
    BY <1>34 DEF StartRead, AsyncTypes
  <2>3. QED
    BY <2>1, <2>2
<1>35. ASSUME NEW c \in Candidates, QueryAgain(c) PROVE Types'
  <2>1. StoreTypes' /\ LeaseTypes' /\ WatchTypes' /\ CampaignTypes' /\ ThreadTypes'
    BY <1>35 DEF QueryAgain, StoreTypes, LeaseTypes, WatchTypes, CampaignTypes, ThreadTypes, AppStates
  <2>2. ResultTypes'
    BY <1>35, ElectionResultTypes DEF QueryAgain, ResultTypes
  <2>3. AsyncTypes'
    <3>1. async' = [async EXCEPT ![c] = Idle] \/ async' = [async EXCEPT ![c] = Ask]
      BY <1>35 DEF QueryAgain
    <3>2. Idle \in Asyncs /\ Ask \in Asyncs
      BY DEF Idle, Ask, Asyncs
    <3>3. UNCHANGED counters
      BY <1>35 DEF QueryAgain
    <3>4. ops_' = ops_ /\ reads_' = reads_
      BY <3>3 DEF counters
    <3>5. async' \in [Candidates -> Asyncs]
      BY <3>1, <3>2 DEF AsyncTypes
    <3> QED
      BY <3>4, <3>5 DEF AsyncTypes
  <2>4. QED
    BY <2>1, <2>2, <2>3
<1>36. ASSUME NEW c \in Candidates, AskAgain(c) PROVE Types'
  <2>1. StoreTypes' /\ LeaseTypes' /\ WatchTypes' /\ CampaignTypes' /\ ResultTypes' /\ ThreadTypes'
    BY <1>36 DEF AskAgain, StoreTypes, LeaseTypes, WatchTypes, CampaignTypes, ResultTypes, ThreadTypes, AppStates
  <2>2. AsyncTypes'
    BY <1>36 DEF AskAgain, AsyncTypes
  <2>3. QED
    BY <2>1, <2>2
<1>37. QED
  BY <1>1, <1>2, <1>3, <1>4, <1>5, <1>6, <1>7, <1>8, <1>9, <1>10, <1>11, <1>12, <1>13, <1>14, <1>15, <1>16,
     <1>17, <1>18, <1>19, <1>20, <1>21, <1>22, <1>23, <1>24, <1>25, <1>26, <1>27, <1>28, <1>29, <1>30, <1>31, <1>32,
     <1>33, <1>34, <1>35, <1>36
  DEF Next, Server, Callback, CallbackTail, OnWatchRead, Application

-----------------------------------------------------------------------------
(* At most one leader.                                                     *)

\* campaign() has not started the campaign yet.
Early == {"new", "create_node", "publish_value", "query_predecessor"}

\* The candidate's creation revision is fixed before its campaign starts.
EarlyIsIdle ==
  \A c \in Candidates : app[c] \in Early => async[c].kind = "none" /\ ~elected_[c]

\* No two nodes have the same creation revision.
NodesAreDistinct ==
  \A c, d \in Candidates : Exists(c) /\ createRev[c] = createRev[d] => c = d

\* An answer without a key, old as it may be when it is handled, is still right:
\* nodes created since then are younger.
EmptyAnswerHolds ==
  \A c \in Candidates :
    async[c].kind \in {"reply", "range_done"} /\ async[c].key = NoKey => Older(c) = {}

ElectionInv ==
  Types /\ EarlyIsIdle /\ NodesAreDistinct /\ EmptyAnswerHolds /\ ElectedIsLowest

\* Every step creates or deletes at most one node, and a created node gets the
\* next revision.
LEMMA StoreStep ==
  ASSUME Types, [Next]_vars
  PROVE  \/ createRev' = createRev
         \/ \E c \in Candidates :
              \/ createRev' = [createRev EXCEPT ![c] = 0]
              \/ /\ createRev' = [createRev EXCEPT ![c] = revision + 1]
                 /\ createRev[c] = 0
<1> USE DEF etcd
<1>1. ASSUME NEW c \in Candidates, NEW v \in Values, Put(c, v)
      PROVE  createRev' = createRev \/ (createRev' = [createRev EXCEPT ![c] = revision + 1] /\ createRev[c] = 0)
  BY <1>1 DEF Put, Types, StoreTypes
<1>2. ASSUME NEW c \in Candidates, Delete(c)
      PROVE  createRev' = createRev \/ createRev' = [createRev EXCEPT ![c] = 0]
  BY <1>2 DEF Delete
<1>3. ASSUME NEW c \in Candidates, Server(c) \/ Callback(c)
      PROVE  createRev' = createRev \/ Delete(c)
  BY <1>3 DEF Server, LeaseEnd, ServeRange, ServeWatch, StreamBreaks, Callback, CallbackTail,
       OnRangeRequest, WatchPredecessor, StartRead, QueryAgain, AskAgain, OnRangeCancelled, OnWatchCreate, OnWatchRead, OnWatchCreated, OnWatchEvents,
       OnWatchCanceled, OnWatchReadFails, OnWatchCancel
<1>4. ASSUME NEW c \in Candidates, Application(c)
      PROVE  createRev' = createRev \/ Delete(c) \/ (\E v \in Values : Put(c, v))
  BY <1>4 DEF Application, Campaign, CreateNode, AdoptNode, CreateNodeThrows, PublishValue,
       QueryPredecessor, Proclaim, Resign, CancelWatch, CancelStream, DrainReads,
       WritesDone, Finish, Cleanup, CleanupOps, CleanupReads, Crash, Restart, Types, CampaignTypes
<1>5. ASSUME Compact \/ UNCHANGED vars PROVE createRev' = createRev
  BY <1>5 DEF Compact, vars
<1>6. QED
  BY <1>1, <1>2, <1>3, <1>4, <1>5 DEF Next

\* What a step may do to the campaign of d.  Its creation revision changes only
\* while no campaign runs; an answer without a key is produced by etcd only when
\* no node is older; and it takes such an answer to become elected.
CampaignStep(d) ==
  /\ \/ creation_revision_'[d] = creation_revision_[d]
     \/ app[d] = "create_node" /\ async'[d] = async[d] /\ elected_'[d] = elected_[d]
     \/ async'[d].kind = "none" /\ ~elected_'[d]
  /\ \/ async'[d] = async[d]
     \/ async'[d].kind \notin {"reply", "range_done"}
     \/ async'[d].key # NoKey
     \/ /\ Older(d) = {} \/ (async[d].kind = "reply" /\ async[d].key = NoKey)
        /\ createRev' = createRev /\ creation_revision_' = creation_revision_
  /\ \/ ~elected_'[d]
     \/ elected_[d]
     \/ /\ async[d].kind = "range_done" /\ async[d].key = NoKey
        /\ createRev' = createRev /\ creation_revision_' = creation_revision_
  /\ app'[d] \in Early => async'[d].kind = "none" /\ ~elected_'[d]

\* The end of on_watch_read() is such a step: it elects nobody.
LEMMA ReadTailStep ==
  ASSUME Types, EarlyIsIdle, NEW c \in Candidates, NEW d \in Candidates, NEW b \in BOOLEAN,
         async[c].kind = "read", ReadTail(c, b),
         UNCHANGED <<createRev, creation_revision_, app>>
  PROVE  CampaignStep(d)
<1>1. app[c] \notin Early
  BY DEF EarlyIsIdle
<1>2. async' = [async EXCEPT ![c] = Query] \/ async' = [async EXCEPT ![c] = ReadOn]
  BY DEF ReadTail
<1>3. elected_' = elected_
  BY DEF ReadTail, result
<1>4. async'[d] = async[d] \/ (d = c /\ async'[d].kind \notin {"reply", "range_done"})
  BY <1>2 DEF Query, ReadOn, Types, AsyncTypes
<1>5. elected_'[d] = elected_[d]
  BY <1>3
<1>6. app'[d] \in Early => d # c /\ async[d].kind = "none" /\ ~elected_[d]
  BY <1>1 DEF EarlyIsIdle
<1>7. QED
  BY <1>4, <1>5, <1>6 DEF CampaignStep

\* Every action is such a step for every candidate.
LEMMA CampaignSteps ==
  ASSUME Types, EarlyIsIdle, [Next]_vars, NEW d \in Candidates
  PROVE  CampaignStep(d)
<1> USE CandidateAssumption DEF CampaignStep, Types, CampaignTypes, ResultTypes, AsyncTypes, ThreadTypes,
      EarlyIsIdle, Early, etcd, campaignVars, result, counters, resigning
<1>1. ASSUME NEW c \in Candidates, LeaseEnd(c) PROVE CampaignStep(d)
  BY <1>1 DEF LeaseEnd, Idle, Range, Read, Write
<1>2. ASSUME NEW c \in Candidates, ServeRange(c) PROVE CampaignStep(d)
  <2>1. /\ async[c].kind = "range"
        /\ UNCHANGED <<createRev, creation_revision_, elected_, app>>
    BY <1>2 DEF ServeRange
  <2>2. \/ Older(c) = {} /\ async' = [async EXCEPT ![c] = Reply(NoKey, revision)]
        \/ \E p \in Candidates : async' = [async EXCEPT ![c] = Reply(p, revision)]
    BY <1>2 DEF ServeRange, Predecessor, Older
  <2>3. CASE d = c
    <3>1. \/ async'[d].key # NoKey
          \/ Older(d) = {}
      <4>1. CASE Older(c) = {}
        BY <4>1, <2>3
      <4>2. CASE Older(c) # {}
        <5>1. PICK p \in Candidates : async' = [async EXCEPT ![c] = Reply(p, revision)]
          BY <2>2, <4>2
        <5>2. async'[d] = Reply(p, revision)
          BY <5>1, <2>3
        <5>3. Reply(p, revision).key # NoKey
          BY DEF Reply
        <5>4. QED
          BY <5>2, <5>3
      <4>3. QED
        BY <4>1, <4>2
    <3>2. app[d] \notin {"new", "create_node", "publish_value", "query_predecessor"}
      BY <2>1, <2>3
    <3>3. QED
      BY <2>1, <2>3, <3>1, <3>2
  <2>4. CASE d # c
    <3>1. async'[d] = async[d]
      BY <2>2, <2>4 DEF Types, AsyncTypes
    <3>2. QED
      BY <2>1, <3>1
  <2>5. QED
    BY <2>3, <2>4
<1>3. ASSUME NEW c \in Candidates, ServeWatch(c) PROVE CampaignStep(d)
  BY <1>3 DEF ServeWatch, Idle, Range, Read, Write
<1>4. ASSUME NEW c \in Candidates, StreamBreaks(c) PROVE CampaignStep(d)
  BY <1>4 DEF StreamBreaks, Idle, Range, Read, Write
<1>5. ASSUME NEW c \in Candidates, Campaign(c) PROVE CampaignStep(d)
  BY <1>5, ZenonT(60) DEF Campaign, Idle, Range, Read, Write
<1>6. ASSUME NEW c \in Candidates, CreateNode(c) PROVE CampaignStep(d)
  BY <1>6 DEF CreateNode, Idle, Range, Read, Write
<1>7. ASSUME NEW c \in Candidates, AdoptNode(c) PROVE CampaignStep(d)
  BY <1>7 DEF AdoptNode, Idle, Range, Read, Write
<1>8. ASSUME NEW c \in Candidates, CreateNodeThrows(c) PROVE CampaignStep(d)
  BY <1>8 DEF CreateNodeThrows, Idle, Range, Read, Write
<1>9. ASSUME NEW c \in Candidates, PublishValue(c) PROVE CampaignStep(d)
  BY <1>9 DEF PublishValue, Idle, Range, Read, Write
<1>10. ASSUME NEW c \in Candidates, QueryPredecessor(c) PROVE CampaignStep(d)
  BY <1>10 DEF QueryPredecessor, Idle, Range, Read, Write
<1>11. ASSUME NEW c \in Candidates, OnRangeRequest(c) PROVE CampaignStep(d)
  <2>1. /\ async[c].kind = "reply"
        /\ UNCHANGED <<createRev, creation_revision_, elected_, app>>
        /\ app[c] \notin {"new", "create_node", "publish_value", "query_predecessor"}
        /\ async' = [async EXCEPT ![c] = RangeDone(async[c].key, async[c].rev)]
    BY <1>11 DEF OnRangeRequest
  <2>2. CASE d = c
    <3>1. async'[d].key = async[d].key
      BY <2>1, <2>2 DEF RangeDone
    <3>2. QED
      BY <2>1, <2>2, <3>1
  <2>3. CASE d # c
    <3>1. async'[d] = async[d]
      BY <2>1, <2>3
    <3>2. QED
      BY <2>1, <3>1
  <2>4. QED
    BY <2>2, <2>3
<1>12. ASSUME NEW c \in Candidates, OnRangeCancelled(c) PROVE CampaignStep(d)
  BY <1>12 DEF OnRangeCancelled, ElectionResult, Idle, Range, Read, Write
<1>13. ASSUME NEW c \in Candidates, OnWatchCreate(c) PROVE CampaignStep(d)
  <2>1. /\ async[c].kind = "write"
        /\ UNCHANGED <<createRev, creation_revision_, elected_, app>>
        /\ app[c] \notin {"new", "create_node", "publish_value", "query_predecessor"}
    BY <1>13 DEF OnWatchCreate
  <2>2. \/ async' = [async EXCEPT ![c] = Idle]
        \/ async' = [async EXCEPT ![c] = WriteDone]
    BY <1>13 DEF OnWatchCreate
  <2>3. async'[d] = async[d] \/ (d = c /\ async'[d].kind \notin {"reply", "range_done"})
    <3>1. async'[d] = async[d] \/ (d = c /\ async'[d] \in {Idle, WriteDone})
      BY <2>2
    <3>2. QED
      BY <3>1, AsyncKinds
  <2>4. QED
    BY <2>1, <2>3
<1>14. ASSUME NEW c \in Candidates, OnWatchCreated(c) PROVE CampaignStep(d)
  <2>1. /\ async[c].kind = "read" /\ ReadTail(c, FALSE)
        /\ UNCHANGED <<createRev, creation_revision_, app>>
    BY <1>14 DEF OnWatchCreated
  <2>2. QED
    BY <2>1, ReadTailStep
<1>15. ASSUME NEW c \in Candidates, OnWatchEvents(c) PROVE CampaignStep(d)
  <2>1. /\ async[c].kind = "read" /\ ReadTail(c, FALSE)
        /\ UNCHANGED <<createRev, creation_revision_, app>>
    BY <1>15 DEF OnWatchEvents
  <2>2. QED
    BY <2>1, ReadTailStep
<1>16. ASSUME NEW c \in Candidates, OnWatchCanceled(c) PROVE CampaignStep(d)
  <2>1. /\ async[c].kind = "read" /\ ReadTail(c, TRUE)
        /\ UNCHANGED <<createRev, creation_revision_, app>>
    BY <1>16 DEF OnWatchCanceled
  <2>2. QED
    BY <2>1, ReadTailStep
<1>17. ASSUME NEW c \in Candidates, OnWatchReadFails(c) PROVE CampaignStep(d)
  BY <1>17 DEF OnWatchReadFails, Idle, Range, Read, Write
<1>18. ASSUME NEW c \in Candidates, Resign(c) PROVE CampaignStep(d)
  BY <1>18 DEF Resign, Idle, Range, Read, Write
<1>19. ASSUME NEW c \in Candidates, CancelWatch(c) PROVE CampaignStep(d)
  BY <1>19 DEF CancelWatch, Idle, Range, Read, Write
<1>20. ASSUME NEW c \in Candidates, OnWatchCancel(c) PROVE CampaignStep(d)
  BY <1>20 DEF OnWatchCancel, Idle, Range, Read, Write
<1>21. ASSUME NEW c \in Candidates, CancelStream(c) PROVE CampaignStep(d)
  BY <1>21 DEF CancelStream, Idle, Range, Read, Write
<1>22. ASSUME NEW c \in Candidates, DrainReads(c) PROVE CampaignStep(d)
  BY <1>22 DEF DrainReads, Idle, Range, Read, Write
<1>23. ASSUME NEW c \in Candidates, WritesDone(c) PROVE CampaignStep(d)
  BY <1>23, ZenonT(60) DEF WritesDone, Idle, Range, Read, Write
<1>24. ASSUME NEW c \in Candidates, Finish(c) PROVE CampaignStep(d)
  BY <1>24, ZenonT(60) DEF Finish, ElectionResult, Idle, Range, Read, Write
<1>25. ASSUME NEW c \in Candidates, Cleanup(c) PROVE CampaignStep(d)
  <2>1. /\ UNCHANGED <<createRev, creation_revision_, elected_, async>>
        /\ \/ app' = [app EXCEPT ![c] = "cleanup_ops"]
           \/ app' = [app EXCEPT ![c] = "cleanup_reads"]
    BY <1>25 DEF Cleanup
  <2>2. app[c] \in Ready
    BY <1>25 DEF Cleanup
  <2> QED
    BY <2>1, <2>2 DEF Ready
<1>26. ASSUME NEW c \in Candidates, CleanupOps(c) PROVE CampaignStep(d)
  BY <1>26 DEF CleanupOps, Idle, Range, Read, Write
<1>27. ASSUME NEW c \in Candidates, CleanupReads(c) PROVE CampaignStep(d)
  BY <1>27 DEF CleanupReads, Idle, Range, Read, Write
<1>28. ASSUME NEW c \in Candidates, Crash(c) PROVE CampaignStep(d)
  BY <1>28 DEF Crash, Discard, Idle, Range, Read, Write
<1>29. ASSUME NEW c \in Candidates, Restart(c) PROVE CampaignStep(d)
  BY <1>29 DEF Restart, Discard, Idle, Range, Read, Write
<1>30. ASSUME NEW c \in Candidates, NEW v \in Values, Proclaim(c, v) PROVE CampaignStep(d)
  BY <1>30 DEF Proclaim
<1>31. ASSUME Compact \/ UNCHANGED vars PROVE CampaignStep(d)
  BY <1>31 DEF Compact, vars
<1>32. ASSUME NEW c \in Candidates, WatchPredecessor(c) PROVE CampaignStep(d)
  <2>1. /\ async[c].kind = "range_done"
        /\ UNCHANGED <<createRev, creation_revision_, app>>
        /\ app[c] \notin {"new", "create_node", "publish_value", "query_predecessor"}
    BY <1>32 DEF WatchPredecessor
  <2>2. \/ async' = [async EXCEPT ![c] = Idle]
        \/ async' = [async EXCEPT ![c] = Write(async[c].key, WatchStart(c))]
    BY <1>32 DEF WatchPredecessor
  <2>3. \/ elected_' = elected_
        \/ async[c].key = NoKey /\ elected_' = [elected_ EXCEPT ![c] = TRUE]
    BY <1>32 DEF WatchPredecessor, CheckElectionOverMaybe, ElectionResult
  <2>4. CASE d = c
    <3>1. async'[d].kind \notin {"reply", "range_done"}
      <4>1. async'[d] = Idle \/ async'[d] = Write(async[c].key, WatchStart(c))
        BY <2>2, <2>4
      <4>2. Write(async[c].key, WatchStart(c)).kind = "write"
        BY DEF Write
      <4>3. QED
        BY <4>1, <4>2, AsyncKinds
    <3>2. ~elected_'[d] \/ elected_[d] \/ async[d].key = NoKey
      BY <2>3, <2>4
    <3>3. QED
      BY <2>1, <2>4, <3>1, <3>2
  <2>5. CASE d # c
    <3>1. async'[d] = async[d] /\ elected_'[d] = elected_[d]
      BY <2>2, <2>3, <2>5
    <3>2. QED
      BY <2>1, <3>1
  <2>6. QED
    BY <2>4, <2>5
<1>33. ASSUME NEW c \in Candidates, StartRead(c) PROVE CampaignStep(d)
  <2>1. /\ async[c].kind \in {"write_done", "read_on"}
        /\ UNCHANGED <<createRev, creation_revision_, elected_, app>>
        /\ app[c] \notin {"new", "create_node", "publish_value", "query_predecessor"}
    BY <1>33 DEF StartRead
  <2>2. \/ async' = [async EXCEPT ![c] = Idle]
        \/ async' = [async EXCEPT ![c] = Read]
    BY <1>33 DEF StartRead
  <2>3. async'[d] = async[d] \/ (d = c /\ async'[d].kind \notin {"reply", "range_done"})
    <3>1. async'[d] = async[d] \/ (d = c /\ async'[d] \in {Idle, Read})
      BY <2>2
    <3>2. QED
      BY <3>1, AsyncKinds
  <2>4. QED
    BY <2>1, <2>3
<1>34. ASSUME NEW c \in Candidates, QueryAgain(c) PROVE CampaignStep(d)
  <2>1. /\ async[c].kind = "query"
        /\ UNCHANGED <<createRev, creation_revision_, app>>
        /\ app[c] \notin {"new", "create_node", "publish_value", "query_predecessor"}
    BY <1>34 DEF QueryAgain
  <2>2. \/ async' = [async EXCEPT ![c] = Idle]
        \/ async' = [async EXCEPT ![c] = Ask]
    BY <1>34 DEF QueryAgain
  <2>3. elected_' = elected_ \/ elected_' = [elected_ EXCEPT ![c] = FALSE]
    BY <1>34 DEF QueryAgain, ElectionResult
  <2>0. DOMAIN elected_ = Candidates
    BY DEF Types, ResultTypes
  <2>4. async'[d] = async[d] \/ (d = c /\ async'[d].kind \notin {"reply", "range_done"})
    <3>1. async'[d] = async[d] \/ (d = c /\ async'[d] \in {Idle, Ask})
      BY <2>2
    <3>2. QED
      BY <3>1, AsyncKinds
  <2>5. elected_'[d] = elected_[d] \/ (d = c /\ ~elected_'[d])
    BY <2>0, <2>3
  <2>6. QED
    BY <2>1, <2>4, <2>5
<1>35. ASSUME NEW c \in Candidates, AskAgain(c) PROVE CampaignStep(d)
  <2>1. /\ async[c].kind = "ask"
        /\ UNCHANGED <<createRev, creation_revision_, elected_, app>>
        /\ app[c] \notin {"new", "create_node", "publish_value", "query_predecessor"}
    BY <1>35 DEF AskAgain
  <2>2. \/ async' = [async EXCEPT ![c] = Idle]
        \/ async' = [async EXCEPT ![c] = Range]
    BY <1>35 DEF AskAgain
  <2>3. async'[d] = async[d] \/ (d = c /\ async'[d].kind \notin {"reply", "range_done"})
    <3>1. async'[d] = async[d] \/ (d = c /\ async'[d] \in {Idle, Range})
      BY <2>2
    <3>2. QED
      BY <3>1, AsyncKinds
  <2>4. QED
    BY <2>1, <2>3
<1>36. QED
  BY <1>1, <1>2, <1>3, <1>4, <1>5, <1>6, <1>7, <1>8, <1>9, <1>10, <1>11, <1>12, <1>13, <1>14, <1>15, <1>16,
     <1>17, <1>18, <1>19, <1>20, <1>21, <1>22, <1>23, <1>24, <1>25, <1>26, <1>27, <1>28, <1>29, <1>30, <1>31,
     <1>32, <1>33, <1>34, <1>35
  DEF Next, Server, Callback, CallbackTail, OnWatchRead, Application

\* Nodes that appear later are younger: a candidate that no node precedes keeps
\* that position, as long as its creation revision is the same.
LEMMA OlderStaysEmpty ==
  ASSUME Types, [Next]_vars, NEW d \in Candidates, Older(d) = {},
         creation_revision_'[d] = creation_revision_[d]
  PROVE  Older(d)' = {}
<1>1. \A e \in Candidates : \/ createRev'[e] = createRev[e]
                            \/ createRev'[e] = 0
                            \/ createRev'[e] = revision + 1
  BY StoreStep DEF Types, StoreTypes
<1>2. creation_revision_[d] \in 0..revision /\ revision \in Nat
  BY DEF Types, StoreTypes, CampaignTypes
<1>3. ASSUME NEW e \in Candidates, Exists(e)', createRev'[e] <= creation_revision_'[d] - 1
      PROVE  FALSE
  <2>1. createRev'[e] # 0
    BY <1>3 DEF Exists
  <2>2. createRev'[e] # revision + 1
    BY <1>2, <1>3
  <2>3. createRev'[e] = createRev[e]
    BY <1>1, <2>1, <2>2
  <2>4. e \in Older(d)
    BY <1>3, <2>1, <2>3 DEF Older, Exists
  <2>5. QED
    BY <2>4
<1>4. QED
  BY <1>3 DEF Older

\* The invariant holds before any candidate campaigns.
LEMMA InitElectionInv == Init => ElectionInv
<1> SUFFICES ASSUME Init PROVE ElectionInv
  OBVIOUS
<1> USE CandidateAssumption
<1>1. StoreTypes
  BY DEF Init, StoreTypes
<1>2. LeaseTypes /\ WatchTypes
  BY DEF Init, LeaseTypes, WatchTypes
<1>3. CampaignTypes
  BY DEF Init, CampaignTypes
<1>4. ResultTypes
  BY DEF Init, ResultTypes
<1>5. AsyncTypes
  BY AsyncValues DEF Init, AsyncTypes
<1>6. ThreadTypes
  BY DEF Init, ThreadTypes, AppStates
<1>7. EarlyIsIdle
  BY AsyncKinds DEF Init, EarlyIsIdle
<1>8. NodesAreDistinct
  BY DEF Init, NodesAreDistinct, Exists
<1>9. EmptyAnswerHolds
  BY AsyncKinds DEF Init, EmptyAnswerHolds
<1>10. ElectedIsLowest
  BY DEF Init, ElectedIsLowest
<1>11. QED
  BY <1>1, <1>2, <1>3, <1>4, <1>5, <1>6, <1>7, <1>8, <1>9, <1>10 DEF ElectionInv, Types

\* Every step preserves it.
LEMMA ElectionStep == ElectionInv /\ [Next]_vars => ElectionInv'
<1> SUFFICES ASSUME ElectionInv, [Next]_vars PROVE ElectionInv'
  OBVIOUS
<1>0. Types /\ EarlyIsIdle
  BY DEF ElectionInv
<1>1. Types'
  BY <1>0, TypesStep
<1>2. \A d \in Candidates : CampaignStep(d)
  BY <1>0, CampaignSteps
<1>3. EarlyIsIdle'
  BY <1>2 DEF EarlyIsIdle, CampaignStep
<1>4. NodesAreDistinct'
  <2>1. \A e \in Candidates : createRev[e] \in 0..revision /\ revision \in Nat
    BY <1>0 DEF Types, StoreTypes
  <2>2. CASE createRev' = createRev
    BY <2>2 DEF ElectionInv, NodesAreDistinct, Exists
  <2>3. ASSUME NEW c \in Candidates, createRev' = [createRev EXCEPT ![c] = 0]
        PROVE  NodesAreDistinct'
    BY <1>0, <2>3 DEF ElectionInv, NodesAreDistinct, Exists, Types, StoreTypes
  <2>4. ASSUME NEW c \in Candidates, createRev' = [createRev EXCEPT ![c] = revision + 1]
        PROVE  NodesAreDistinct'
    <3>1. \A e \in Candidates : createRev'[e] = IF e = c THEN revision + 1 ELSE createRev[e]
      BY <1>0, <2>4 DEF Types, StoreTypes
    <3>2. \A e \in Candidates : createRev[e] # revision + 1
      BY <2>1
    <3>3. QED
      BY <3>1, <3>2 DEF ElectionInv, NodesAreDistinct, Exists
  <2>5. QED
    BY <1>0, StoreStep, <2>2, <2>3, <2>4
<1>5. ASSUME NEW d \in Candidates, createRev' = createRev,
             creation_revision_' = creation_revision_, Older(d) = {}
      PROVE  Older(d)' = {}
  BY <1>5 DEF Older, Exists
<1>6. EmptyAnswerHolds'
  <2> SUFFICES ASSUME NEW d \in Candidates, async'[d].kind \in {"reply", "range_done"}, async'[d].key = NoKey
               PROVE  Older(d)' = {}
    BY DEF EmptyAnswerHolds
  <2>1. CASE async'[d] = async[d]
    <3>1. Older(d) = {} /\ app[d] # "create_node"
      BY <2>1 DEF ElectionInv, EmptyAnswerHolds, EarlyIsIdle, Early
    <3>2. creation_revision_'[d] = creation_revision_[d]
      BY <1>2, <2>1, <3>1 DEF CampaignStep
    <3>3. QED
      BY <1>0, <3>1, <3>2, OlderStaysEmpty
  <2>2. CASE async'[d] # async[d]
    <3>1. /\ Older(d) = {} \/ (async[d].kind = "reply" /\ async[d].key = NoKey)
          /\ createRev' = createRev /\ creation_revision_' = creation_revision_
      BY <1>2, <2>2 DEF CampaignStep
    <3>2. QED
      BY <1>5, <3>1 DEF ElectionInv, EmptyAnswerHolds
  <2>3. QED
    BY <2>1, <2>2
<1>7. ElectedIsLowest'
  <2> SUFFICES ASSUME NEW d \in Candidates, elected_'[d] PROVE Older(d)' = {}
    BY DEF ElectedIsLowest
  <2>1. CASE elected_[d]
    <3>1. Older(d) = {} /\ app[d] # "create_node"
      BY <2>1 DEF ElectionInv, ElectedIsLowest, EarlyIsIdle, Early
    <3>2. creation_revision_'[d] = creation_revision_[d]
      BY <1>2, <3>1 DEF CampaignStep
    <3>3. QED
      BY <1>0, <3>1, <3>2, OlderStaysEmpty
  <2>2. CASE ~elected_[d]
    <3>1. /\ async[d].kind = "range_done" /\ async[d].key = NoKey
          /\ createRev' = createRev /\ creation_revision_' = creation_revision_
      BY <1>2, <2>2 DEF CampaignStep
    <3>2. QED
      BY <1>5, <3>1 DEF ElectionInv, EmptyAnswerHolds
  <2>3. QED
    BY <2>1, <2>2
<1>8. QED
  BY <1>1, <1>3, <1>4, <1>6, <1>7 DEF ElectionInv

\* The inductive invariant of the election.
THEOREM ElectionInvariance == Spec => []ElectionInv
<1>1. QED
  BY InitElectionInv, ElectionStep, PTL DEF Spec

\* elected() is true only for candidates that no surviving node precedes.
THEOREM LowestIsElected == Spec => []ElectedIsLowest
<1>1. ElectionInv => ElectedIsLowest
  BY DEF ElectionInv
<1>2. QED
  BY <1>1, ElectionInvariance, PTL

\* The safety of the election: two candidates that report to be elected never both
\* have a node.
THEOREM ElectionSafety == Spec => []OneLeader
<1>1. ASSUME ElectionInv, NEW c \in Candidates, NEW d \in Candidates, IsLeader(c), IsLeader(d)
      PROVE  c = d
  <2>1. Older(c) = {} /\ Older(d) = {}
    BY <1>1 DEF ElectionInv, ElectedIsLowest, IsLeader
  <2>2. createRev[c] \in Nat /\ createRev[d] \in Nat
    BY <1>1 DEF ElectionInv, Types, StoreTypes
  <2>3. creation_revision_[c] = createRev[c] /\ creation_revision_[d] = createRev[d]
    BY <1>1 DEF IsLeader, OwnNode
  <2>4. ~(createRev[d] <= createRev[c] - 1) /\ ~(createRev[c] <= createRev[d] - 1)
    BY <1>1, <2>1, <2>3 DEF IsLeader, Older
  <2>5. createRev[c] = createRev[d]
    BY <2>2, <2>4
  <2>6. QED
    BY <1>1, <2>5 DEF ElectionInv, NodesAreDistinct, IsLeader
<1>2. ElectionInv => OneLeader
  BY <1>1 DEF OneLeader
<1>3. QED
  BY <1>2, ElectionInvariance, PTL

-----------------------------------------------------------------------------
(* The candidates implement Election.                                      *)

\* What a step of c does to the nodes: a node that appears is not one that c, at that
\* moment, takes itself to lead with.
NodeMoves(c) ==
  \/ createRev' = createRev
  \/ createRev' = [createRev EXCEPT ![c] = 0]
  \/ /\ createRev[c] = 0 /\ revision + 1 \in 1..(MaxRevision + 1)
     /\ createRev' = [createRev EXCEPT ![c] = revision + 1]
     /\ ~elected_'[c] \/ creation_revision_'[c] # revision + 1

\* What it does to the other candidates.
OthersStay(c) ==
  \A d \in Candidates \ {c} :
    elected_'[d] = elected_[d] /\ creation_revision_'[d] = creation_revision_[d]

LEMMA NodeSteps ==
  ASSUME Types, EarlyIsIdle, NEW c \in Candidates, Server(c) \/ Callback(c) \/ Application(c)
  PROVE  NodeMoves(c)
<1> USE DEF etcd
<1>0. createRev \in [Candidates -> 0..revision] /\ revision \in Nat /\ MaxRevision \in Nat
  BY CandidateAssumption DEF Types, StoreTypes
<1>1. ASSUME Delete(c) PROVE NodeMoves(c)
  BY <1>1 DEF Delete, NodeMoves
<1>2. ASSUME NEW v \in Values, Put(c, v), ~elected_'[c] \/ creation_revision_'[c] # revision + 1
      PROVE  NodeMoves(c)
  <2>1. CASE createRev[c] = 0
    BY <1>0, <1>2, <2>1 DEF Put, NodeMoves
  <2>2. CASE createRev[c] # 0
    BY <1>0, <1>2, <2>2 DEF Put, NodeMoves
  <2>3. QED
    BY <2>1, <2>2
<1>3. ASSUME Server(c) \/ Callback(c) PROVE NodeMoves(c)
  <2>1. createRev' = createRev \/ Delete(c)
    BY <1>3 DEF Server, LeaseEnd, ServeRange, ServeWatch, StreamBreaks, Callback, CallbackTail,
         OnRangeRequest, WatchPredecessor, StartRead, QueryAgain, AskAgain, OnRangeCancelled, OnWatchCreate, OnWatchRead, OnWatchCreated, OnWatchEvents,
         OnWatchCanceled, OnWatchReadFails, OnWatchCancel
  <2>2. QED
    BY <1>1, <2>1 DEF NodeMoves
<1>4. ASSUME Campaign(c) \/ AdoptNode(c) \/ QueryPredecessor(c) \/ Resign(c) \/ CancelWatch(c)
               \/ CancelStream(c) \/ DrainReads(c) \/ WritesDone(c) \/ Finish(c) \/ Cleanup(c)
               \/ CleanupOps(c) \/ CleanupReads(c) \/ Crash(c) \/ Restart(c)
      PROVE  NodeMoves(c)
  <2>1. createRev' = createRev
    BY <1>4 DEF Campaign, AdoptNode, QueryPredecessor, Resign, CancelWatch, CancelStream, DrainReads,
         WritesDone, Finish, Cleanup, CleanupOps, CleanupReads, Crash, Restart
  <2>2. QED
    BY <2>1 DEF NodeMoves
<1>5. ASSUME app[c] \in Early, elected_' = elected_ PROVE ~elected_'[c]
  BY <1>5 DEF EarlyIsIdle
<1>6. candidate_value_[c] \in Values
  BY DEF Types, CampaignTypes
<1>7. ASSUME CreateNode(c) PROVE NodeMoves(c)
  <2>1. Put(c, candidate_value_[c]) /\ app[c] = "create_node" /\ elected_' = elected_
    BY <1>7 DEF CreateNode, result
  <2>2. QED
    BY <2>1, <1>2, <1>5, <1>6 DEF Early
<1>8. ASSUME CreateNodeThrows(c) PROVE NodeMoves(c)
  <2>1. /\ createRev' = createRev \/ Put(c, candidate_value_[c])
        /\ app[c] = "create_node" /\ elected_' = elected_
    BY <1>8 DEF CreateNodeThrows, result
  <2>2. QED
    BY <2>1, <1>2, <1>5, <1>6 DEF Early, NodeMoves
<1>9. ASSUME PublishValue(c) PROVE NodeMoves(c)
  <2>1. /\ createRev' = createRev \/ Delete(c) \/ Put(c, candidate_value_[c])
        /\ app[c] = "publish_value" /\ elected_' = elected_
    BY <1>9 DEF PublishValue, result
  <2>2. QED
    BY <2>1, <1>1, <1>2, <1>5, <1>6 DEF Early, NodeMoves
<1>10. ASSUME NEW v \in Values, Proclaim(c, v) PROVE NodeMoves(c)
  <2>1. /\ Put(c, v) /\ createRev[c] = creation_revision_[c]
        /\ creation_revision_' = creation_revision_
    BY <1>10 DEF Proclaim, OwnNode
  <2>2. creation_revision_'[c] # revision + 1
    BY <1>0, <2>1
  <2>3. QED
    BY <2>1, <2>2, <1>2
<1>11. QED
  BY <1>3, <1>4, <1>7, <1>8, <1>9, <1>10 DEF Application

LEMMA OthersSteps ==
  ASSUME Types, NEW c \in Candidates, Server(c) \/ Callback(c) \/ Application(c)
  PROVE  OthersStay(c)
<1> USE DEF etcd, campaignVars, result
<1>1. \/ elected_' = elected_
      \/ \E b \in BOOLEAN : elected_' = [elected_ EXCEPT ![c] = b]
  <2>1. ASSUME Server(c) \/ OnRangeRequest(c) \/ OnWatchCreate(c) \/ StartRead(c) \/ AskAgain(c)
                 \/ OnWatchReadFails(c) \/ OnWatchCancel(c)
        PROVE  elected_' = elected_
    BY <2>1 DEF Server, LeaseEnd, ServeRange, ServeWatch, StreamBreaks, OnRangeRequest, OnWatchCreate,
         StartRead, AskAgain, OnWatchReadFails, OnWatchCancel
  <2>2. ASSUME WatchPredecessor(c) \/ QueryAgain(c) \/ OnRangeCancelled(c) \/ OnWatchCreated(c)
                 \/ OnWatchEvents(c) \/ OnWatchCanceled(c)
        PROVE  \/ elected_' = elected_
               \/ \E b \in BOOLEAN : elected_' = [elected_ EXCEPT ![c] = b]
    BY <2>2 DEF WatchPredecessor, CheckElectionOverMaybe, OnRangeCancelled, OnWatchCreated,
         OnWatchEvents, OnWatchCanceled, ReadTail, QueryAgain, ElectionResult
  <2>3. ASSUME Application(c)
        PROVE  \/ elected_' = elected_
               \/ \E b \in BOOLEAN : elected_' = [elected_ EXCEPT ![c] = b]
    BY <2>3 DEF Application, Campaign, CreateNode, AdoptNode, CreateNodeThrows, PublishValue,
         QueryPredecessor, Proclaim, Resign, CancelWatch, CancelStream, DrainReads, WritesDone,
         Finish, ElectionResult, Cleanup, CleanupOps, CleanupReads, Crash, Restart, Discard
  <2>4. QED
    BY <2>1, <2>2, <2>3 DEF Callback, CallbackTail, OnWatchRead
<1>2. \/ creation_revision_' = creation_revision_
      \/ \E r : creation_revision_' = [creation_revision_ EXCEPT ![c] = r]
  <2>1. ASSUME Server(c) \/ Callback(c) PROVE creation_revision_' = creation_revision_
    BY <2>1 DEF Server, LeaseEnd, ServeRange, ServeWatch, StreamBreaks, Callback, CallbackTail,
         OnRangeRequest, WatchPredecessor, StartRead, QueryAgain, AskAgain, OnRangeCancelled, OnWatchCreate, OnWatchRead, OnWatchCreated, OnWatchEvents,
         OnWatchCanceled, OnWatchReadFails, OnWatchCancel
  <2>2. ASSUME Application(c)
        PROVE  \/ creation_revision_' = creation_revision_
               \/ \E r : creation_revision_' = [creation_revision_ EXCEPT ![c] = r]
    BY <2>2 DEF Application, Campaign, CreateNode, AdoptNode, CreateNodeThrows, PublishValue,
         QueryPredecessor, Proclaim, Resign, CancelWatch, CancelStream, DrainReads, WritesDone,
         Finish, Cleanup, CleanupOps, CleanupReads, Crash, Restart, Discard
  <2>3. QED
    BY <2>1, <2>2
<1>3. elected_ \in [Candidates -> BOOLEAN] /\ DOMAIN creation_revision_ = Candidates
  BY DEF Types, ResultTypes, CampaignTypes
<1>4. QED
  BY <1>1, <1>2, <1>3 DEF OthersStay

\* Every step is one of the election, or none that it can see.
LEMMA ElectionSimulation ==
  ASSUME ElectionInv, ElectionInv', [Next]_vars
  PROVE  [Abstract!Next]_(Abstract!vars)
<1> USE DEF Abstract!vars
<1>0. Types /\ EarlyIsIdle /\ createRev \in [Candidates -> 0..revision] /\ revision \in Nat
  BY DEF ElectionInv, Types, StoreTypes
<1>1. CASE Compact \/ UNCHANGED vars
  <2>1. UNCHANGED <<createRev, elected_, creation_revision_>>
    BY <1>1 DEF Compact, vars, etcd, campaignVars, result
  <2>2. Leaders' = Leaders
    BY <2>1 DEF Leaders, IsLeader, Exists, OwnNode
  <2>3. QED
    BY <2>1, <2>2
<1>2. ASSUME NEW c \in Candidates, Server(c) \/ Callback(c) \/ Application(c)
      PROVE  [Abstract!Next]_(Abstract!vars)
  <2>1. NodeMoves(c) /\ OthersStay(c)
    BY <1>0, <1>2, NodeSteps, OthersSteps
  <2>2. \A d \in Candidates \ {c} : createRev'[d] = createRev[d]
    BY <1>0, <2>1 DEF NodeMoves
  <2>3. \A d \in Candidates \ {c} : IsLeader(d)' <=> IsLeader(d)
    BY <2>1, <2>2 DEF OthersStay, IsLeader, Exists, OwnNode
  <2>4. CASE createRev' = createRev
    <3>1. CASE IsLeader(c)' <=> IsLeader(c)
      BY <2>3, <2>4, <3>1 DEF Leaders
    <3>2. CASE IsLeader(c)' /\ ~IsLeader(c)
      <4>1. Leaders' = Leaders \cup {c}
        BY <2>3, <3>2 DEF Leaders
      <4>2. Older(c)' = {} /\ createRev'[c] # 0 /\ createRev'[c] = creation_revision_'[c]
        BY <3>2 DEF ElectionInv, ElectedIsLowest, IsLeader, Exists, OwnNode
      <4>3. \A d \in Candidates : createRev[d] # 0 => ~(createRev[d] <= createRev[c] - 1)
        BY <4>2, <2>4 DEF Older, Exists
      <4>4. Abstract!First(c)
        BY <1>0, <2>4, <4>2, <4>3 DEF Abstract!First, Abstract!InLine
      <4>5. Abstract!Win(c)
        BY <2>4, <4>1, <4>4 DEF Abstract!Win
      <4>6. QED
        BY <4>5 DEF Abstract!Next
    <3>3. CASE ~IsLeader(c)' /\ IsLeader(c)
      <4>1. Leaders' = Leaders \ {c}
        BY <2>3, <3>3 DEF Leaders
      <4>2. Abstract!StepDown(c)
        BY <2>4, <4>1 DEF Abstract!StepDown
      <4>3. QED
        BY <4>2 DEF Abstract!Next
    <3>4. QED
      BY <3>1, <3>2, <3>3
  <2>5. CASE createRev[c] # 0 /\ createRev' = [createRev EXCEPT ![c] = 0]
    <3>1. ~IsLeader(c)'
      BY <1>0, <2>5 DEF IsLeader, Exists
    <3>2. Leaders' = Leaders \ {c}
      BY <2>3, <3>1 DEF Leaders
    <3>3. Abstract!Leave(c)
      BY <2>5, <3>2 DEF Abstract!Leave, Abstract!InLine
    <3>4. QED
      BY <3>3 DEF Abstract!Next
  <2>6. CASE /\ createRev[c] = 0 /\ revision + 1 \in 1..(MaxRevision + 1)
             /\ createRev' = [createRev EXCEPT ![c] = revision + 1]
             /\ ~elected_'[c] \/ creation_revision_'[c] # revision + 1
    <3>1. createRev'[c] = revision + 1
      BY <1>0, <2>6
    <3>2. ~IsLeader(c) /\ ~IsLeader(c)'
      BY <2>6, <3>1 DEF IsLeader, Exists, OwnNode
    <3>3. Leaders' = Leaders
      BY <2>3, <3>2 DEF Leaders
    <3>4. \A d \in Candidates : createRev[d] < revision + 1
      BY <1>0
    <3>5. Abstract!Enter(c)
      BY <2>6, <3>3, <3>4 DEF Abstract!Enter, Abstract!InLine
    <3>6. QED
      BY <3>5 DEF Abstract!Next
  <2>7. createRev[c] = 0 => [createRev EXCEPT ![c] = 0] = createRev
    BY <1>0
  <2>8. QED
    BY <2>1, <2>4, <2>5, <2>6, <2>7 DEF NodeMoves
<1>3. QED
  BY <1>1, <1>2 DEF Next

\* The refinement: the line of the abstract election is the order of the creation
\* revisions, and its leaders are the candidates that hold their node and were elected.
THEOREM CandidatesImplementElection == Spec => ImplementsElection
<1>1. Init => Abstract!Init
  <2>1. Init => createRev = [p \in Candidates |-> 0] /\ Leaders = {}
    BY DEF Init, Leaders, IsLeader
  <2>2. QED
    BY <2>1 DEF Abstract!Init
<1>2. ElectionInv /\ ElectionInv' /\ [Next]_vars => [Abstract!Next]_(Abstract!vars)
  BY ElectionSimulation
<1>3. QED
  BY <1>1, <1>2, ElectionInvariance, PTL DEF Spec, ImplementsElection, Abstract!Spec

-----------------------------------------------------------------------------
(* The accounting of Read(), and with it the types.                        *)

\* reads_ counts the Read() that is outstanding, so there is at most one.
ReadsCounted ==
  \A c \in Candidates : reads_[c] = IF async[c].kind = "read" THEN 1 ELSE 0

\* The counter follows when the operation of one candidate ends ...
LEMMA CountNone ==
  ASSUME AsyncTypes, ReadsCounted, NEW c \in Candidates, NEW a \in {Idle, Query, ReadOn},
         async' = [async EXCEPT ![c] = a], reads_' = [reads_ EXCEPT ![c] = 0]
  PROVE  ReadsCounted'
<1>1. a.kind # "read"
  BY AsyncKinds
<1>2. QED
  BY <1>1 DEF AsyncTypes, ReadsCounted

\* ... and when it is replaced by a Read().
LEMMA CountRead ==
  ASSUME AsyncTypes, ReadsCounted, NEW c \in Candidates,
         async' = [async EXCEPT ![c] = Read], reads_' = [reads_ EXCEPT ![c] = 1]
  PROVE  ReadsCounted'
BY AsyncKinds DEF AsyncTypes, ReadsCounted

\* on_watch_read() finishes its Read().
LEMMA ReadTailCounts ==
  ASSUME AsyncTypes, ReadsCounted, NEW c \in Candidates, NEW b \in BOOLEAN,
         async[c].kind = "read", ReadTail(c, b)
  PROVE  ReadsCounted'
<1>1. reads_[c] = 1
  BY DEF ReadsCounted
<1>2. reads_' = [reads_ EXCEPT ![c] = 0]
  BY <1>1 DEF ReadTail
<1>3. PICK a \in {Query, ReadOn} : async' = [async EXCEPT ![c] = a]
  BY DEF ReadTail
<1> QED
  BY <1>2, <1>3, CountNone

\* Every callback and every call accounts for the Read() it starts or completes.
LEMMA ReadsStep ==
  ASSUME Types, EarlyIsIdle, ReadsCounted, [Next]_vars
  PROVE  ReadsCounted'
<1> USE DEF counters
<1>0. AsyncTypes
  BY DEF Types
<1>1. ASSUME UNCHANGED <<async, reads_>> PROVE ReadsCounted'
  BY <1>1 DEF ReadsCounted
<1>2. ASSUME NEW c \in Candidates, NEW a, async[c].kind # "read", a.kind # "read",
             async' = [async EXCEPT ![c] = a], reads_' = reads_
      PROVE  ReadsCounted'
  BY <1>0, <1>2 DEF ReadsCounted, AsyncTypes
<1>3. ASSUME NEW c \in Candidates, Server(c) PROVE ReadsCounted'
  <2>1. CASE ServeRange(c)
    <3>1. PICK p : async' = [async EXCEPT ![c] = Reply(p, revision)]
      BY <2>1 DEF ServeRange
    <3>2. async[c].kind # "read" /\ reads_' = reads_
      BY <2>1 DEF ServeRange
    <3>3. Reply(p, revision).kind # "read"
      BY DEF Reply
    <3>4. QED
      BY <1>2, <3>1, <3>2, <3>3
  <2>2. CASE ~ServeRange(c)
    BY <1>1, <1>3, <2>2 DEF Server, LeaseEnd, ServeWatch, StreamBreaks
  <2>3. QED
    BY <2>1, <2>2
<1>4. ASSUME NEW c \in Candidates, OnRangeRequest(c) PROVE ReadsCounted'
  <2>1. /\ async' = [async EXCEPT ![c] = RangeDone(async[c].key, async[c].rev)]
        /\ async[c].kind # "read" /\ reads_' = reads_
    BY <1>4 DEF OnRangeRequest
  <2>2. RangeDone(async[c].key, async[c].rev).kind # "read"
    BY DEF RangeDone
  <2>3. QED
    BY <1>2, <2>1, <2>2
<1>5. ASSUME NEW c \in Candidates, OnRangeCancelled(c) PROVE ReadsCounted'
  BY <1>2, <1>5, AsyncKinds DEF OnRangeCancelled
<1>6. ASSUME NEW c \in Candidates, OnWatchCreate(c) PROVE ReadsCounted'
  <2>1. PICK a \in {Idle, WriteDone} : async' = [async EXCEPT ![c] = a]
    BY <1>6 DEF OnWatchCreate
  <2>2. async[c].kind # "read" /\ reads_' = reads_
    BY <1>6 DEF OnWatchCreate
  <2>3. QED
    BY <1>2, <2>1, <2>2, AsyncKinds
<1>14. ASSUME NEW c \in Candidates, WatchPredecessor(c) PROVE ReadsCounted'
  <2>1. PICK a \in {Idle, Write(async[c].key, WatchStart(c))} : async' = [async EXCEPT ![c] = a]
    BY <1>14 DEF WatchPredecessor
  <2>2. async[c].kind # "read" /\ reads_' = reads_
    BY <1>14 DEF WatchPredecessor
  <2>3. Write(async[c].key, WatchStart(c)).kind # "read"
    BY DEF Write
  <2>4. QED
    BY <1>2, <2>1, <2>2, <2>3, AsyncKinds
<1>15. ASSUME NEW c \in Candidates, QueryAgain(c) \/ AskAgain(c) PROVE ReadsCounted'
  <2>1. PICK a \in {Idle, Ask, Range} : async' = [async EXCEPT ![c] = a]
    BY <1>15 DEF QueryAgain, AskAgain
  <2>2. async[c].kind # "read" /\ reads_' = reads_
    BY <1>15 DEF QueryAgain, AskAgain
  <2>3. QED
    BY <1>2, <2>1, <2>2, AsyncKinds
<1>16. ASSUME NEW c \in Candidates, StartRead(c) PROVE ReadsCounted'
  <2>1. async[c].kind # "read" /\ reads_[c] = 0
    BY <1>16 DEF StartRead, ReadsCounted
  <2>2. CASE readsShutdown[c]
    <3>1. async' = [async EXCEPT ![c] = Idle] /\ reads_' = [reads_ EXCEPT ![c] = 0]
      BY <1>16, <2>1, <2>2 DEF StartRead
    <3>2. QED
      BY <1>0, <3>1, CountNone
  <2>3. CASE ~readsShutdown[c]
    <3>1. async' = [async EXCEPT ![c] = Read] /\ reads_' = [reads_ EXCEPT ![c] = 1]
      BY <1>16, <2>1, <2>3 DEF StartRead
    <3>2. QED
      BY <1>0, <3>1, CountRead
  <2>4. QED
    BY <2>2, <2>3
<1>7. ASSUME NEW c \in Candidates, OnWatchRead(c) PROVE ReadsCounted'
  <2>1. CASE OnWatchReadFails(c)
    <3>1. async[c].kind = "read" /\ reads_[c] = 1
      BY <2>1 DEF OnWatchReadFails, ReadsCounted
    <3>2. async' = [async EXCEPT ![c] = Idle] /\ reads_' = [reads_ EXCEPT ![c] = 0]
      BY <2>1, <3>1 DEF OnWatchReadFails
    <3>3. QED
      BY <1>0, <3>2, CountNone
  <2>2. CASE ~OnWatchReadFails(c)
    <3>1. async[c].kind = "read" /\ \E b \in BOOLEAN : ReadTail(c, b)
      BY <1>7, <2>2 DEF OnWatchRead, OnWatchCreated, OnWatchEvents, OnWatchCanceled
    <3>2. QED
      BY <1>0, <3>1, ReadTailCounts
  <2>3. QED
    BY <2>1, <2>2
<1>8. ASSUME NEW c \in Candidates, OnWatchCancel(c) PROVE ReadsCounted'
  BY <1>1, <1>8 DEF OnWatchCancel
<1>9. ASSUME NEW c \in Candidates, QueryPredecessor(c) PROVE ReadsCounted'
  <2>1. async[c].kind = "none"
    BY <1>9 DEF QueryPredecessor, EarlyIsIdle, Early
  <2>2. QED
    BY <1>2, <1>9, <2>1, AsyncKinds DEF QueryPredecessor
<1>10. ASSUME NEW c \in Candidates, Discard(c) PROVE ReadsCounted'
  BY <1>0, <1>10, CountNone DEF Discard
<1>11. ASSUME NEW c \in Candidates, Application(c), ~QueryPredecessor(c), ~Discard(c)
       PROVE  ReadsCounted'
  <2>1. UNCHANGED <<async, reads_>>
    BY <1>11 DEF Application, Campaign, CreateNode, AdoptNode, CreateNodeThrows, PublishValue,
         Proclaim, Resign, CancelWatch, CancelStream, DrainReads, WritesDone, Finish,
         Cleanup, CleanupOps, CleanupReads, Crash, Restart
  <2>2. QED
    BY <1>1, <2>1
<1>12. ASSUME Compact \/ UNCHANGED vars PROVE ReadsCounted'
  BY <1>1, <1>12 DEF Compact, vars
<1>13. QED
  BY <1>3, <1>4, <1>5, <1>6, <1>7, <1>8, <1>9, <1>10, <1>11, <1>12, <1>14, <1>15, <1>16
     DEF Next, Callback, CallbackTail

\* The state of etcd, of the candidates and of their threads has its type; no
\* candidate ever has a second Read() outstanding on its stream.
THEOREM TypeCorrect == Spec => []TypeOK
<1>1. Init => ReadsCounted
  BY AsyncKinds DEF Init, ReadsCounted
<1>2. ElectionInv /\ ReadsCounted /\ [Next]_vars => ReadsCounted'
  BY ReadsStep DEF ElectionInv
<1>3. ASSUME ElectionInv, ReadsCounted PROVE TypeOK
  <2>1. reads_ \in [Candidates -> {0, 1}]
    BY <1>3 DEF ReadsCounted, ElectionInv, Types, AsyncTypes
  <2>2. QED
    BY <1>3, <2>1 DEF ElectionInv, TypeOK, Types, StoreTypes, LeaseTypes, WatchTypes,
         CampaignTypes, ResultTypes, AsyncTypes, ThreadTypes
<1>4. QED
  BY <1>1, <1>2, <1>3, ElectionInvariance, PTL DEF Spec

-----------------------------------------------------------------------------
(* The calls and the callbacks of one candidate.                           *)

\* All that belongs to candidate d: its object, its threads, its stream and its node.
OwnState(d) ==
  <<createRev[d], value[d], lease[d], watches[d], creation_revision_[d], candidate_value_[d],
    watched_keys_[d], elected_[d], promise_[d], stream[d], async[d], ops_[d], opsShutdown[d],
    reads_[d], readsShutdown[d], app[d], cancels[d]>>

\* A step of one candidate, or of etcd on its behalf, leaves the others alone.
LEMMA OthersKeepTheirs ==
  ASSUME Types, NEW c \in Candidates, NEW d \in Candidates \ {c},
         Server(c) \/ Callback(c) \/ Application(c)
  PROVE  UNCHANGED OwnState(d)
<1> USE DEF OwnState, etcd, campaignVars, result, counters, resigning
<1>a. /\ DOMAIN createRev = Candidates /\ DOMAIN value = Candidates /\ DOMAIN lease = Candidates
      /\ DOMAIN watches = Candidates /\ DOMAIN creation_revision_ = Candidates
      /\ DOMAIN candidate_value_ = Candidates /\ DOMAIN watched_keys_ = Candidates
      /\ DOMAIN elected_ = Candidates /\ DOMAIN promise_ = Candidates
  BY DEF Types, StoreTypes, LeaseTypes, WatchTypes, CampaignTypes, ResultTypes
<1>b. /\ DOMAIN stream = Candidates /\ DOMAIN async = Candidates /\ DOMAIN ops_ = Candidates
      /\ DOMAIN opsShutdown = Candidates /\ DOMAIN reads_ = Candidates
      /\ DOMAIN readsShutdown = Candidates /\ DOMAIN app = Candidates
      /\ DOMAIN cancels = Candidates
  BY DEF Types, StoreTypes, LeaseTypes, WatchTypes, CampaignTypes, ResultTypes, AsyncTypes, ThreadTypes
<1> USE <1>a, <1>b
<1>1. CASE Server(c)
  BY <1>1 DEF Server, LeaseEnd, Delete, ServeRange, ServeWatch, StreamBreaks
<1>2. CASE OnRangeRequest(c)
  BY <1>2 DEF OnRangeRequest
<1>3. CASE OnRangeCancelled(c)
  BY <1>3 DEF OnRangeCancelled, ElectionResult
<1>4. CASE OnWatchCreate(c)
  BY <1>4 DEF OnWatchCreate
<1>5. ASSUME NEW b \in BOOLEAN, ReadTail(c, b)
      PROVE  UNCHANGED <<elected_[d], promise_[d], async[d], reads_[d]>>
  BY <1>5 DEF ReadTail
<1>6. CASE OnWatchCreated(c)
  BY <1>5, <1>6 DEF OnWatchCreated
<1>7. CASE OnWatchEvents(c)
  BY <1>5, <1>7 DEF OnWatchEvents
<1>8. CASE OnWatchCanceled(c)
  BY <1>5, <1>8 DEF OnWatchCanceled
<1>9. CASE OnWatchReadFails(c)
  BY <1>9 DEF OnWatchReadFails
<1>10. CASE OnWatchCancel(c)
  BY <1>10 DEF OnWatchCancel
<1>16. CASE WatchPredecessor(c)
  BY <1>16 DEF WatchPredecessor, CheckElectionOverMaybe, ElectionResult
<1>17. CASE StartRead(c)
  BY <1>17 DEF StartRead
<1>18. CASE QueryAgain(c) \/ AskAgain(c)
  BY <1>18 DEF QueryAgain, AskAgain, ElectionResult
<1>11. CASE Campaign(c) \/ CreateNode(c) \/ AdoptNode(c) \/ CreateNodeThrows(c)
  BY <1>11 DEF Campaign, CreateNode, AdoptNode, CreateNodeThrows, Put
<1>12. CASE PublishValue(c) \/ QueryPredecessor(c) \/ (\E v \in Values : Proclaim(c, v))
  <2>1. CASE PublishValue(c)
    BY <2>1 DEF PublishValue, Put, Delete
  <2>2. CASE QueryPredecessor(c)
    BY <2>2 DEF QueryPredecessor
  <2>3. CASE \E v \in Values : Proclaim(c, v)
    BY <2>3 DEF Proclaim, Put
  <2> QED
    BY <1>12, <2>1, <2>2, <2>3
<1>13. CASE Resign(c) \/ CancelWatch(c) \/ CancelStream(c) \/ DrainReads(c) \/ WritesDone(c)
  BY <1>13 DEF Resign, CancelWatch, CancelStream, DrainReads, WritesDone
<1>14. CASE Finish(c) \/ Cleanup(c) \/ CleanupOps(c) \/ CleanupReads(c)
  <2>1. CASE Finish(c)
    BY <2>1 DEF Finish, ElectionResult
  <2>2. CASE ~Finish(c)
    BY <1>14, <2>2 DEF Cleanup, CleanupOps, CleanupReads
  <2> QED
    BY <2>1, <2>2
<1>15. CASE Crash(c) \/ Restart(c)
  <2>1. UNCHANGED <<createRev[d], value[d], lease[d], candidate_value_[d], app[d]>>
    BY <1>15 DEF Crash, Restart
  <2>2. Discard(c)
    BY <1>15 DEF Crash, Restart
  <2>3. UNCHANGED <<watches[d], creation_revision_[d], watched_keys_[d], elected_[d],
                    promise_[d], stream[d], async[d]>>
    BY <2>2 DEF Discard
  <2>4. UNCHANGED <<ops_[d], opsShutdown[d], reads_[d], readsShutdown[d], cancels[d]>>
    BY <2>2 DEF Discard
  <2> QED
    BY <2>1, <2>3, <2>4
<1> QED
  BY <1>1, <1>2, <1>3, <1>4, <1>6, <1>7, <1>8, <1>9, <1>10, <1>11, <1>12, <1>13, <1>14, <1>15,
     <1>16, <1>17, <1>18 DEF Callback, CallbackTail, OnWatchRead, Application

\* The calls of the destructor, and the part of it after the wait for ops_.
Destroying == {"cleanup_ops", "cleanup_reads", "destroyed"}
OpsWaited == {"cleanup_reads", "destroyed"}

\* The operations that ops_ counts, until the destructor has waited for it.
Counted == {"range", "reply", "write"}

\* How the calls and the callbacks of a candidate depend on each other.  Until the wait
\* of the destructor ends, ops_ is 1 while an operation it counts is outstanding and 0 while
\* a callback runs or a Read() is outstanding; only a campaign that is over may leave it
\* at 1.  So a callback that is about to ask etcd is never waited for, while a Write() is.
\* Cancellations are written only during resign().
CallInv(c) ==
  /\ app[c] \notin OpsWaited =>
       /\ async[c].kind \in Counted => ops_[c] = 1
       /\ async[c].kind \notin Counted \cup {"none"} => ops_[c] = 0
       /\ ops_[c] \in {0, 1}
  /\ app[c] \in Early => ops_[c] = 0
  /\ opsShutdown[c] <=> app[c] \in Destroying
  /\ app[c] = "cleanup_ops" => async[c].kind # "ask"
  /\ app[c] \in OpsWaited => readsShutdown[c] /\ async[c].kind # "write"
  /\ app[c] = "destroyed" => async[c].kind # "read"
  /\ cancels[c] # {} => app[c] = "cancel_watches"
  /\ app[c] \in Early \cup {"campaigning"} => ~readsShutdown[c]

\* What the records that describe the operations say of their kind.
LEMMA OperationKinds ==
  /\ Idle.kind = "none" /\ Range.kind = "range" /\ Read.kind = "read"
  /\ WriteDone.kind = "write_done" /\ ReadOn.kind = "read_on"
  /\ Query.kind = "query" /\ Ask.kind = "ask"
  /\ \A p, r : /\ Reply(p, r).kind = "reply" /\ Write(p, r).kind = "write"
               /\ RangeDone(p, r).kind = "range_done"
BY DEF Idle, Range, Read, WriteDone, ReadOn, Query, Ask, Reply, Write, RangeDone

\* A step of the candidate itself keeps these facts.
LEMMA OwnCallInv ==
  ASSUME Types, EarlyIsIdle, ReadsCounted, NEW c \in Candidates, CallInv(c),
         Server(c) \/ Callback(c) \/ Application(c)
  PROVE  CallInv(c)'
<1>0. /\ async[c].kind \in {"none", "range", "reply", "range_done", "write", "write_done",
                            "read", "read_on", "query", "ask"}
      /\ ops_[c] \in Int
      /\ reads_[c] = IF async[c].kind = "read" THEN 1 ELSE 0
      /\ app[c] \in Early => async[c].kind = "none" /\ ~elected_[c]
  BY DEF Types, AsyncTypes, Asyncs, ReadsCounted, EarlyIsIdle
<1>t. /\ DOMAIN async = Candidates /\ DOMAIN ops_ = Candidates /\ DOMAIN reads_ = Candidates
      /\ DOMAIN elected_ = Candidates /\ DOMAIN opsShutdown = Candidates
      /\ DOMAIN readsShutdown = Candidates /\ DOMAIN app = Candidates
      /\ DOMAIN cancels = Candidates
  BY DEF Types, ResultTypes, AsyncTypes, ThreadTypes
<1> USE <1>0, <1>t, OperationKinds
        DEF CallInv, Early, Destroying, OpsWaited, Counted, etcd, campaignVars, result,
            counters, resigning
<1>1. CASE LeaseEnd(c) \/ ServeWatch(c) \/ StreamBreaks(c)
  <2>1. UNCHANGED <<async, ops_, opsShutdown, reads_, readsShutdown, app, cancels>>
    BY <1>1 DEF LeaseEnd, ServeWatch, StreamBreaks
  <2> QED
    BY <2>1
<1>2. CASE ServeRange(c)
  BY <1>2 DEF ServeRange
<1>3. CASE OnRangeRequest(c)
  <2>1. /\ async[c].kind = "reply" /\ ops_'[c] = ops_[c] - 1
        /\ UNCHANGED <<opsShutdown, readsShutdown, app, cancels>>
    BY <1>3 DEF OnRangeRequest
  <2>2. async'[c] = RangeDone(async[c].key, async[c].rev)
    BY <1>3 DEF OnRangeRequest
  <2>3. async'[c].kind = "range_done"
    BY <2>2
  <2> QED
    BY <2>1, <2>3
<1>17. CASE WatchPredecessor(c)
  <2>1. /\ async[c].kind = "range_done"
        /\ UNCHANGED <<opsShutdown, readsShutdown, app, cancels>>
    BY <1>17 DEF WatchPredecessor
  <2>2. \/ async'[c] = Idle /\ ops_'[c] = ops_[c]
        \/ /\ async'[c] = Write(async[c].key, WatchStart(c)) /\ ops_'[c] = ops_[c] + 1
           /\ ~opsShutdown[c]
    BY <1>17 DEF WatchPredecessor
  <2>3. \/ async'[c].kind = "none" /\ ops_'[c] = ops_[c]
        \/ async'[c].kind = "write" /\ ops_'[c] = ops_[c] + 1 /\ ~opsShutdown[c]
    BY <2>2
  <2> QED
    BY <2>1, <2>3
<1>18. CASE StartRead(c)
  <2>1. /\ async[c].kind \in {"write_done", "read_on"}
        /\ UNCHANGED <<ops_, opsShutdown, readsShutdown, app, cancels>>
        /\ async'[c] = IF readsShutdown[c] THEN Idle ELSE Read
    BY <1>18 DEF StartRead
  <2>2. async'[c].kind = IF readsShutdown[c] THEN "none" ELSE "read"
    BY <2>1
  <2> QED
    BY <2>1, <2>2
<1>19. CASE QueryAgain(c)
  <2>1. /\ async[c].kind = "query" /\ UNCHANGED <<ops_, opsShutdown, readsShutdown, app, cancels>>
        /\ async'[c] = IF opsShutdown[c] THEN Idle ELSE Ask
    BY <1>19 DEF QueryAgain
  <2>2. async'[c].kind = IF opsShutdown[c] THEN "none" ELSE "ask"
    BY <2>1
  <2> QED
    BY <2>1, <2>2
<1>20. CASE AskAgain(c)
  <2>1. /\ async[c].kind = "ask" /\ UNCHANGED <<opsShutdown, readsShutdown, app, cancels>>
        /\ async'[c] = Range /\ ops_'[c] = IF opsShutdown[c] THEN ops_[c] ELSE ops_[c] + 1
    BY <1>20 DEF AskAgain
  <2>2. async'[c].kind = "range"
    BY <2>1
  <2> QED
    BY <2>1, <2>2
<1>4. CASE OnRangeCancelled(c)
  BY <1>4 DEF OnRangeCancelled, ElectionResult
<1>5. CASE OnWatchCreate(c)
  <2>1. /\ async[c].kind = "write" /\ ops_'[c] = ops_[c] - 1
        /\ UNCHANGED <<opsShutdown, readsShutdown, app, cancels>>
    BY <1>5 DEF OnWatchCreate
  <2>2. async'[c] = Idle \/ async'[c] = WriteDone
    BY <1>5 DEF OnWatchCreate
  <2>3. async'[c].kind \in {"none", "write_done"}
    BY <2>2
  <2> QED
    BY <2>1, <2>3
<1>6. ASSUME NEW b \in BOOLEAN, ReadTail(c, b), async[c].kind = "read",
             UNCHANGED <<ops_, opsShutdown, readsShutdown, app, cancels>>
      PROVE  CallInv(c)'
  <2>1. async'[c] = Query \/ async'[c] = ReadOn
    BY <1>6 DEF ReadTail
  <2>2. async'[c].kind \in {"query", "read_on"}
    BY <2>1
  <2> QED
    BY <1>6, <2>2
<1>7. CASE OnWatchCreated(c) \/ OnWatchEvents(c) \/ OnWatchCanceled(c)
  BY <1>6, <1>7 DEF OnWatchCreated, OnWatchEvents, OnWatchCanceled
<1>8. CASE OnWatchReadFails(c)
  BY <1>8 DEF OnWatchReadFails
<1>9. CASE OnWatchCancel(c)
  BY <1>9 DEF OnWatchCancel
<1>10. CASE Campaign(c) \/ CreateNode(c) \/ AdoptNode(c) \/ CreateNodeThrows(c)
  BY <1>10 DEF Campaign, CreateNode, AdoptNode, CreateNodeThrows
<1>11. CASE PublishValue(c) \/ (\E v \in Values : Proclaim(c, v))
  BY <1>11 DEF PublishValue, Proclaim
<1>12. CASE QueryPredecessor(c)
  <2>1. /\ async[c].kind = "none" /\ app[c] = "query_predecessor"
        /\ UNCHANGED <<opsShutdown, readsShutdown, cancels>>
    BY <1>12 DEF QueryPredecessor
  <2>2. async'[c] = Range /\ ops_'[c] = ops_[c] + 1 /\ app'[c] = "campaigning"
    BY <1>12 DEF QueryPredecessor
  <2>3. async'[c].kind = "range"
    BY <2>2
  <2> QED
    BY <2>1, <2>2, <2>3
<1>13. CASE Resign(c) \/ CancelWatch(c) \/ CancelStream(c) \/ DrainReads(c) \/ WritesDone(c)
  BY <1>13 DEF Resign, Ready, CancelWatch, CancelStream, DrainReads, WritesDone
<1>14. CASE Finish(c) \/ Cleanup(c)
  <2>1. CASE Finish(c)
    BY <2>1 DEF Finish
  <2>2. CASE Cleanup(c)
    <3>1. /\ opsShutdown'[c] /\ UNCHANGED <<async, ops_, cancels>>
          /\ app[c] \in {"new", "campaigning", "aborted", "resigned", "resign_failed"}
      BY <2>2 DEF Cleanup, Ready
    <3>2. CASE ops_[c] # 0
      <4>1. app'[c] = "cleanup_ops"
        BY <2>2, <3>2 DEF Cleanup
      <4> QED
        BY <3>1, <3>2, <4>1
    <3>3. CASE ops_[c] = 0
      <4>1. app'[c] = "cleanup_reads" /\ readsShutdown'[c]
        BY <2>2, <3>3 DEF Cleanup
      <4> QED
        BY <3>1, <3>3, <4>1
    <3> QED
      BY <3>2, <3>3
  <2> QED
    BY <1>14, <2>1, <2>2
<1>15. CASE CleanupOps(c) \/ CleanupReads(c)
  <2>1. CASE CleanupOps(c)
    BY <2>1 DEF CleanupOps
  <2>2. CASE CleanupReads(c)
    <3>1. async[c].kind # "read"
      BY <2>2 DEF CleanupReads
    <3> QED
      BY <2>2, <3>1 DEF CleanupReads
  <2> QED
    BY <1>15, <2>1, <2>2
<1>16. CASE Crash(c) \/ Restart(c)
  <2>1. app'[c] \in {"crashed", "new"} /\ Discard(c)
    BY <1>16 DEF Crash, Restart
  <2>2. /\ async'[c] = Idle /\ ops_'[c] = 0 /\ cancels'[c] = {} /\ elected_'[c] = FALSE
        /\ opsShutdown'[c] = FALSE /\ readsShutdown'[c] = FALSE
    BY <2>1 DEF Discard
  <2>3. async'[c].kind = "none"
    BY <2>2
  <2> QED
    BY <2>1, <2>2, <2>3
<1> QED
  BY <1>1, <1>2, <1>3, <1>4, <1>5, <1>7, <1>8, <1>9, <1>10, <1>11, <1>12, <1>13, <1>14, <1>15,
     <1>16, <1>17, <1>18, <1>19, <1>20 DEF Server, Callback, CallbackTail, OnWatchRead, Application

\* The inductive invariant of the calls.
CallsInv == ElectionInv /\ ReadsCounted /\ \A c \in Candidates : CallInv(c)

\* No call is under way at first.
LEMMA InitCallsInv == Init => CallsInv
<1> SUFFICES ASSUME Init PROVE CallsInv
  OBVIOUS
<1>1. ElectionInv /\ ReadsCounted
  BY InitElectionInv, AsyncKinds DEF Init, ReadsCounted
<1>2. ASSUME NEW c \in Candidates PROVE CallInv(c)
  <2>1. /\ async[c].kind = "none" /\ ops_[c] = 0 /\ cancels[c] = {} /\ ~elected_[c]
        /\ ~opsShutdown[c] /\ ~readsShutdown[c] /\ app[c] = "new"
    BY AsyncKinds DEF Init
  <2> QED
    BY <2>1 DEF CallInv, Early, Destroying, OpsWaited, Counted
<1> QED
  BY <1>1, <1>2 DEF CallsInv

\* Every step is one of etcd alone or concerns one candidate.
LEMMA CallsStep == CallsInv /\ [Next]_vars => CallsInv'
<1> SUFFICES ASSUME CallsInv, [Next]_vars PROVE CallsInv'
  OBVIOUS
<1>0. Types /\ EarlyIsIdle /\ ReadsCounted
  BY DEF CallsInv, ElectionInv
<1>1. ElectionInv' /\ ReadsCounted'
  BY <1>0, ElectionStep, ReadsStep DEF CallsInv
<1>2. ASSUME NEW d \in Candidates, UNCHANGED OwnState(d) PROVE CallInv(d)'
  <2>1. CallInv(d)
    BY DEF CallsInv
  <2> QED
    BY <1>2, <2>1 DEF OwnState, CallInv
<1>3. CASE Compact \/ UNCHANGED vars
  <2>1. \A d \in Candidates : UNCHANGED OwnState(d)
    BY <1>3 DEF Compact, vars, OwnState, etcd, campaignVars, result, counters, resigning
  <2> QED
    BY <1>1, <1>2, <2>1 DEF CallsInv
<1>4. ASSUME NEW c \in Candidates, Server(c) \/ Callback(c) \/ Application(c)
      PROVE  CallsInv'
  <2>1. CallInv(c)'
    BY <1>0, <1>4, OwnCallInv DEF CallsInv
  <2>2. \A d \in Candidates \ {c} : CallInv(d)'
    BY <1>0, <1>2, <1>4, OthersKeepTheirs
  <2> QED
    BY <1>1, <2>1, <2>2 DEF CallsInv
<1> QED
  BY <1>3, <1>4 DEF Next

\* So they hold in all reachable states.
LEMMA CallsInvariance == Spec => []CallsInv
BY InitCallsInv, CallsStep, PTL DEF Spec

\* For any number of candidates, and whatever fails: once the destructor has returned no
\* Read() or Write() is outstanding on the watch stream that went with the object.
THEOREM QuietAfterDestruction == Spec => []StreamIsQuiet
<1>1. CallsInv => StreamIsQuiet
  BY DEF CallsInv, CallInv, OpsWaited, StreamIsQuiet
<1> QED
  BY <1>1, CallsInvariance, PTL

-----------------------------------------------------------------------------
(* What a candidate waits for.                                             *)

\* Once its node is known a candidate without failures has published its value.
Published(c) ==
  ~Failures /\ app[c] \in {"query_predecessor", "campaigning"} /\ Exists(c) /\ OwnNode(c)
    => value[c] = candidate_value_[c]

\* The deletion of p will be reported to a watcher that starts at s and has reported all
\* before n: the node is there, and was when the watcher started, or its deletion is
\* still to be reported.
Reported(p, s, n) ==
  \/ createRev[p] \in 1..s
  \/ \E e \in events : e.key = p /\ e.type = "DELETE" /\ e.rev \in n..revision

\* No candidate is ahead of etcd, and without compactions no watcher is lost.
Bounded(c) ==
  /\ async[c].rev <= revision
  /\ \A w \in watches[c] : w.next <= revision + 1 /\ (~Compactions => ~w.lost)

\* The history of etcd.
History ==
  /\ \A e \in events : e.rev >= 1
  /\ ~Compactions => compacted = 0

\* The campaign looks for a predecessor; it is about to read, or reads.
Searching == {"range", "reply", "range_done", "query", "ask"}
Reading == {"write_done", "read_on", "read"}

\* A campaign waits for no key while it looks for a predecessor, for the one it found
\* while the request for its watch is written, and then only for keys whose deletion will
\* be reported; it has an operation outstanding until there is a result or no stream.
Waits(c) ==
  ~Compactions /\ app[c] \in Early \cup {"campaigning"} =>
    /\ \A w \in watches[c] : w.state # "cancelled"
    /\ app[c] \in Early \/ async[c].kind \in Searching => watched_keys_[c] = {}
    /\ async[c].kind \in {"reply", "range_done"} /\ async[c].key # NoKey =>
         Reported(async[c].key, async[c].rev, async[c].rev)
    /\ async[c].kind = "write" =>
         /\ watched_keys_[c] = {async[c].key}
         /\ Reported(async[c].key, async[c].rev, async[c].rev)
    /\ async[c].kind \in Reading =>
         \A p \in watched_keys_[c] :
           \E w \in watches[c] : w.id.key = p /\ Reported(p, w.id.start, w.next)
    /\ app[c] = "campaigning" /\ stream[c] = "open" /\ promise_[c] = "unset" =>
         async[c].kind # "none"

\* The inductive invariant of the campaigns.
WaitInv == CallsInv /\ History /\ \A c \in Candidates : Published(c) /\ Bounded(c) /\ Waits(c)

\* What a step does to the history: a node that is gone was deleted by an event that
\* is recorded.
LEMMA HistoryMoves ==
  ASSUME Types, [Next]_vars
  PROVE  /\ events \subseteq events' /\ revision' \in {revision, revision + 1}
         /\ \A e \in events' : e \in events \/ e.rev = revision + 1
         /\ ~Compactions => compacted' = compacted
         /\ \A p \in Candidates :
              \/ createRev'[p] = createRev[p]
              \/ createRev[p] = 0
              \/ /\ [rev |-> revision + 1, type |-> "DELETE", key |-> p] \in events'
                 /\ revision' = revision + 1
<1> DEFINE Moves ==
      /\ events \subseteq events' /\ revision' \in {revision, revision + 1}
      /\ \A e \in events' : e \in events \/ e.rev = revision + 1
      /\ \A p \in Candidates :
           \/ createRev'[p] = createRev[p]
           \/ createRev[p] = 0
           \/ /\ [rev |-> revision + 1, type |-> "DELETE", key |-> p] \in events'
              /\ revision' = revision + 1
<1> USE DEF etcd
<1>1. ASSUME NEW c \in Candidates, NEW v \in Values, Put(c, v) PROVE Moves
  BY <1>1 DEF Put, Types, StoreTypes
<1>2. ASSUME NEW c \in Candidates, Delete(c) PROVE Moves
  BY <1>2 DEF Delete, Types, StoreTypes
<1>3. ASSUME UNCHANGED <<events, revision, createRev>> PROVE Moves
  BY <1>3
<1>4. ASSUME NEW c \in Candidates, Server(c) \/ Callback(c)
      PROVE  (UNCHANGED <<events, revision, createRev>> \/ Delete(c)) /\ compacted' = compacted
  BY <1>4 DEF Server, LeaseEnd, ServeRange, ServeWatch, StreamBreaks, Callback, OnRangeRequest,
     OnRangeCancelled, OnWatchCreate, OnWatchRead, OnWatchCreated, OnWatchEvents,
     OnWatchCanceled, OnWatchReadFails, OnWatchCancel, CallbackTail, WatchPredecessor,
     StartRead, QueryAgain, AskAgain
<1>5. ASSUME NEW c \in Candidates, Application(c)
      PROVE  /\ \/ UNCHANGED <<events, revision, createRev>>
                \/ Delete(c)
                \/ \E v \in Values : Put(c, v)
             /\ compacted' = compacted
  BY <1>5 DEF Application, Campaign, CreateNode, AdoptNode, CreateNodeThrows, PublishValue,
     QueryPredecessor, Proclaim, Resign, CancelWatch, CancelStream, DrainReads, WritesDone,
     Finish, Cleanup, CleanupOps, CleanupReads, Crash, Restart, Types, CampaignTypes, Put
<1>6. ASSUME Compact \/ UNCHANGED vars
      PROVE  UNCHANGED <<events, revision, createRev>> /\ (~Compactions => compacted' = compacted)
  BY <1>6 DEF Compact, vars
<1>7. Moves /\ (~Compactions => compacted' = compacted)
  <2> HIDE DEF Moves
  <2> QED
    BY <1>1, <1>2, <1>3, <1>4, <1>5, <1>6 DEF Next
<1> QED
  BY <1>7

\* A deletion that will be reported will still be reported after the next step.
LEMMA StillReported ==
  ASSUME Types, [Next]_vars, NEW p \in Candidates, NEW s \in Nat, NEW n \in Nat,
         n <= revision + 1, Reported(p, s, n)
  PROVE  Reported(p, s, n)'
<1>0. revision \in Nat /\ events \subseteq Events /\ revision' \in {revision, revision + 1}
      /\ events \subseteq events'
  BY HistoryMoves DEF Types, StoreTypes
<1>1. CASE \E e \in events : e.key = p /\ e.type = "DELETE" /\ e.rev \in n..revision
  <2>1. PICK e \in events : e.key = p /\ e.type = "DELETE" /\ e.rev \in n..revision
    BY <1>1
  <2>2. e \in events' /\ e.rev \in n..revision'
    BY <1>0, <2>1 DEF Events
  <2> QED
    BY <2>1, <2>2 DEF Reported
<1>2. CASE createRev[p] \in 1..s
  <2>1. CASE createRev'[p] = createRev[p]
    BY <1>2, <2>1 DEF Reported
  <2>2. CASE createRev'[p] # createRev[p]
    <3>1. /\ [rev |-> revision + 1, type |-> "DELETE", key |-> p] \in events'
          /\ revision' = revision + 1
      BY <1>2, <2>2, HistoryMoves
    <3> DEFINE e == [rev |-> revision + 1, type |-> "DELETE", key |-> p]
    <3>2. e.key = p /\ e.type = "DELETE" /\ e.rev \in n..revision'
      BY <1>0, <3>1
    <3> QED
      BY <3>1, <3>2 DEF Reported
  <2> QED
    BY <2>1, <2>2
<1> QED
  BY <1>1, <1>2 DEF Reported

\* Nor does any step invalidate what bounds a candidate that does not move.
LEMMA HistoryStep ==
  ASSUME Types, History, [Next]_vars
  PROVE  History'
BY HistoryMoves DEF Types, StoreTypes, History

\* A candidate that does nothing keeps waiting for what will be reported.
LEMMA UnmovedWaits ==
  ASSUME Types, [Next]_vars, NEW d \in Candidates, Bounded(d), Waits(d),
         UNCHANGED <<watches[d], watched_keys_[d], async[d], promise_[d]>>,
         stream'[d] # "open" \/ stream'[d] = stream[d] \/ app'[d] \in Early,
         \/ app'[d] \notin Early \cup {"campaigning"}
         \/ app'[d] = app[d]
         \/ app[d] \in Early /\ app'[d] \in Early
  PROVE  Bounded(d)' /\ Waits(d)'
<1>0. revision \in Nat /\ revision' \in {revision, revision + 1}
  BY HistoryMoves DEF Types, StoreTypes
<1>1. async[d].rev \in Nat /\ async[d].key \in Candidates \cup {NoKey} /\ async[d] \in Asyncs
  BY AsyncValues DEF Types, AsyncTypes
<1>2. \A w \in watches[d] : w.next \in Nat /\ w.id.start \in Nat /\ w.id.key \in Candidates
  BY DEF Types, WatchTypes, Watches, WatchIds
<1>3. Bounded(d)'
  BY <1>0, <1>1, <1>2 DEF Bounded
<1>4. Waits(d)'
  <2> SUFFICES ASSUME ~Compactions, app'[d] \in Early \cup {"campaigning"}
               PROVE  Waits(d)'
    BY DEF Waits
  <2>1. app[d] \in Early \cup {"campaigning"} /\ (app'[d] \in Early => app[d] \in Early)
    BY DEF Early
  <2>2. \A w \in watches'[d] : w.state # "cancelled"
    BY <2>1 DEF Waits
  <2>3. app'[d] \in Early \/ async'[d].kind \in Searching => watched_keys_'[d] = {}
    BY <2>1 DEF Waits
  <2>4. async'[d].kind \in {"reply", "range_done"} /\ async'[d].key # NoKey =>
          Reported(async[d].key, async[d].rev, async[d].rev)'
    BY <1>0, <1>1, <2>1, StillReported DEF Waits, Bounded
  <2>5. async'[d].kind = "write" =>
          /\ watched_keys_'[d] = {async'[d].key}
          /\ Reported(async[d].key, async[d].rev, async[d].rev)'
    BY <1>0, <1>1, <2>1, AsyncValues, StillReported DEF Waits, Bounded
  <2>6. ASSUME async'[d].kind \in Reading, NEW p \in watched_keys_'[d]
        PROVE  \E w \in watches'[d] : w.id.key = p /\ Reported(p, w.id.start, w.next)'
    BY <1>0, <1>2, <2>1, <2>6, StillReported DEF Waits, Bounded
  <2>7. app'[d] = "campaigning" /\ stream'[d] = "open" /\ promise_'[d] = "unset" =>
          async'[d].kind # "none"
    BY <2>1 DEF Waits, Early
  <2> QED
    BY <2>1, <2>2, <2>3, <2>4, <2>5, <2>6, <2>7 DEF Waits
<1> QED
  BY <1>3, <1>4

\* create_node(), publish_value() and proclaim() leave in etcd what the candidate has.
LEMMA OwnPublished ==
  ASSUME Types, NEW c \in Candidates, Published(c), Server(c) \/ Callback(c) \/ Application(c)
  PROVE  Published(c)'
<1>t. /\ DOMAIN createRev = Candidates /\ DOMAIN value = Candidates /\ DOMAIN app = Candidates
      /\ DOMAIN candidate_value_ = Candidates /\ DOMAIN creation_revision_ = Candidates
  BY DEF Types, StoreTypes, CampaignTypes, ThreadTypes
<1> USE <1>t DEF Published, Exists, OwnNode, etcd, campaignVars
<1>1. CASE LeaseEnd(c)
  BY <1>1 DEF LeaseEnd, Delete
<1>2. CASE ServeRange(c) \/ ServeWatch(c) \/ StreamBreaks(c)
  BY <1>2 DEF ServeRange, ServeWatch, StreamBreaks
<1>3. CASE Callback(c)
  <2>1. UNCHANGED <<createRev, value, creation_revision_, candidate_value_, app>>
    BY <1>3 DEF Callback, OnRangeRequest, OnRangeCancelled, OnWatchCreate, OnWatchRead,
       OnWatchCreated, OnWatchEvents, OnWatchCanceled, OnWatchReadFails, OnWatchCancel,
       CallbackTail, WatchPredecessor, StartRead, QueryAgain, AskAgain
  <2> QED
    BY <2>1
<1>4. CASE CreateNode(c)
  BY <1>4 DEF CreateNode, Put
<1>5. CASE AdoptNode(c)
  BY <1>5 DEF AdoptNode
<1>6. CASE PublishValue(c)
  BY <1>6 DEF PublishValue, Put
<1>7. CASE QueryPredecessor(c)
  BY <1>7 DEF QueryPredecessor
<1>8. ASSUME NEW v \in Values, Proclaim(c, v) PROVE Published(c)'
  BY <1>8 DEF Proclaim, Put
<1>9. CASE Campaign(c) \/ CreateNodeThrows(c) \/ Resign(c) \/ CancelWatch(c) \/ CancelStream(c)
             \/ DrainReads(c) \/ WritesDone(c) \/ Finish(c) \/ Cleanup(c) \/ CleanupOps(c)
             \/ CleanupReads(c) \/ Crash(c) \/ Restart(c)
  <2>1. app'[c] \notin {"query_predecessor", "campaigning"}
    BY <1>9 DEF Campaign, CreateNodeThrows, Resign, CancelWatch, CancelStream, DrainReads,
       WritesDone, Finish, Cleanup, CleanupOps, CleanupReads, Crash, Restart
  <2> QED
    BY <2>1
<1> QED
  BY <1>1, <1>2, <1>3, <1>4, <1>5, <1>6, <1>7, <1>8, <1>9 DEF Server, Application

\* The steps that change nothing of what the campaign waits for.
LEMMA OwnWaitsUnmoved ==
  ASSUME Types, [Next]_vars, NEW c \in Candidates, Bounded(c), Waits(c),
         \/ LeaseEnd(c) \/ StreamBreaks(c)
         \/ Application(c) /\ ~QueryPredecessor(c) /\ ~Crash(c) /\ ~Restart(c)
  PROVE  Bounded(c)' /\ Waits(c)'
<1> USE DEF etcd, campaignVars, result, counters, resigning
<1>t. DOMAIN stream = Candidates /\ DOMAIN app = Candidates
  BY DEF Types, CampaignTypes, ThreadTypes
<1>1. CASE LeaseEnd(c) \/ StreamBreaks(c)
  <2>1. UNCHANGED <<watches, watched_keys_, async, promise_, app>>
    BY <1>1 DEF LeaseEnd, StreamBreaks
  <2>2. stream'[c] = "cancelled" \/ stream'[c] = stream[c]
    BY <1>1, <1>t DEF LeaseEnd, StreamBreaks
  <2> QED
    BY <2>1, <2>2, UnmovedWaits
<1>2. CASE Campaign(c) \/ CreateNode(c) \/ AdoptNode(c) \/ CreateNodeThrows(c) \/ PublishValue(c)
             \/ (\E v \in Values : Proclaim(c, v))
  <2>1. UNCHANGED <<watches, watched_keys_, async, promise_>>
    BY <1>2 DEF Campaign, CreateNode, AdoptNode, CreateNodeThrows, PublishValue, Proclaim
  <2>2. \/ app'[c] = "aborted" /\ stream'[c] = stream[c]
        \/ app[c] \in Early /\ app'[c] \in Early
        \/ app'[c] = app[c] /\ stream'[c] = stream[c]
    BY <1>2, <1>t DEF Campaign, CreateNode, AdoptNode, CreateNodeThrows, PublishValue, Proclaim,
       Early
  <2> QED
    BY <2>1, <2>2, UnmovedWaits DEF Early
<1>3. CASE CancelWatch(c) \/ CancelStream(c) \/ DrainReads(c) \/ WritesDone(c)
             \/ Resign(c) \/ Cleanup(c) \/ CleanupOps(c) \/ CleanupReads(c)
  <2>1. UNCHANGED <<watches, watched_keys_, async, promise_>>
    BY <1>3 DEF CancelWatch, CancelStream, DrainReads, WritesDone, Resign, Cleanup, CleanupOps,
       CleanupReads
  <2>2. app'[c] \notin Early \cup {"campaigning"}
    BY <1>3, <1>t DEF CancelWatch, CancelStream, DrainReads, WritesDone, Resign, Cleanup,
       CleanupOps, CleanupReads, Early
  <2>3. stream'[c] = stream[c] \/ stream'[c] # "open"
    BY <1>3, <1>t DEF CancelWatch, CancelStream, DrainReads, WritesDone, Resign, Cleanup,
       CleanupOps, CleanupReads
  <2> QED
    BY <2>1, <2>2, <2>3, UnmovedWaits
<1>4. CASE Finish(c)
  <2>1. app'[c] \in {"resigned", "resign_failed"} /\ UNCHANGED <<watches, async>>
    BY <1>4, <1>t DEF Finish
  <2>2. Waits(c)'
    BY <2>1 DEF Waits, Early
  <2>3. revision \in Nat /\ revision' = revision
    BY <1>4 DEF Finish, Types, StoreTypes
  <2> QED
    BY <2>1, <2>2, <2>3 DEF Bounded
<1> QED
  BY <1>1, <1>2, <1>3, <1>4 DEF Application

\* query_predecessor(), the answer of the Range() and the callbacks up to the Read().
LEMMA SearchWaits ==
  ASSUME Types, EarlyIsIdle, [Next]_vars, NEW c \in Candidates, CallInv(c), Bounded(c), Waits(c),
         \/ QueryPredecessor(c) \/ ServeRange(c) \/ OnRangeRequest(c) \/ OnRangeCancelled(c)
         \/ WatchPredecessor(c) \/ QueryAgain(c) \/ AskAgain(c)
  PROVE  Bounded(c)' /\ Waits(c)'
<1> USE DEF etcd, campaignVars, result, counters, resigning, Searching, Reading
<1>t. /\ DOMAIN async = Candidates /\ DOMAIN app = Candidates
      /\ DOMAIN promise_ = Candidates /\ DOMAIN watched_keys_ = Candidates
  BY DEF Types, AsyncTypes, ThreadTypes, ResultTypes, CampaignTypes
<1>n. revision \in Nat /\ createRev \in [Candidates -> 0..revision]
  BY DEF Types, StoreTypes
<1>a. async[c] \in Asyncs /\ promise_[c] \in {"unset", "elected", "not elected"}
  BY DEF Types, AsyncTypes, ResultTypes
<1>r. async[c].rev \in Nat
  BY <1>a, AsyncValues
<1>0. UNCHANGED <<watches, stream, revision, createRev, events>>
  BY DEF QueryPredecessor, ServeRange, OnRangeRequest, OnRangeCancelled, WatchPredecessor,
     QueryAgain, AskAgain
<1>2. CASE QueryPredecessor(c)
  <2>1. app[c] \in Early /\ async'[c] = Range /\ watched_keys_' = watched_keys_
    BY <1>2, <1>t DEF QueryPredecessor, Early
  <2>2. Range.kind = "range" /\ Range.rev = 0
    BY DEF Range
  <2>3. app'[c] = "campaigning" /\ async'[c].kind = "range" /\ async'[c].rev = 0
    BY <1>2, <1>t, <2>1, <2>2 DEF QueryPredecessor
  <2>4. Bounded(c)'
    BY <1>0, <1>n, <2>3 DEF Bounded
  <2>5. Waits(c)'
    BY <1>0, <2>1, <2>3 DEF Waits, Early
  <2> QED
    BY <2>4, <2>5
<1>3. CASE ServeRange(c)
  <2>1. async[c].kind = "range" /\ UNCHANGED <<watched_keys_, app, promise_>>
    BY <1>3 DEF ServeRange
  <2>2. \E p \in Candidates \cup {NoKey} :
          /\ async' = [async EXCEPT ![c] = Reply(p, revision)]
          /\ p # NoKey => p \in Older(c)
    BY <1>3 DEF ServeRange, Predecessor, Older
  <2>3. PICK p \in Candidates \cup {NoKey} :
          /\ async' = [async EXCEPT ![c] = Reply(p, revision)]
          /\ p # NoKey => p \in Older(c)
    BY <2>2
  <2>4. async'[c] = Reply(p, revision)
    BY <1>t, <2>3
  <2>5. async'[c].kind = "reply" /\ async'[c].key = p /\ async'[c].rev = revision
    BY <2>4 DEF Reply
  <2>6. ASSUME p # NoKey PROVE Reported(p, revision, revision)
    <3>1. p \in Candidates /\ createRev[p] # 0
      BY <2>3, <2>6 DEF Older, Exists
    <3>2. createRev[p] \in 1..revision
      BY <1>n, <3>1
    <3> QED
      BY <3>2 DEF Reported
  <2>7. p # NoKey => Reported(async[c].key, async[c].rev, async[c].rev)'
    BY <1>0, <2>5, <2>6 DEF Reported
  <2>8. app[c] \notin Early
    BY <2>1 DEF EarlyIsIdle
  <2>9. Waits(c)'
    BY <1>0, <2>1, <2>5, <2>7, <2>8 DEF Waits
  <2> QED
    BY <1>0, <1>n, <2>5, <2>9 DEF Bounded
<1>6. CASE OnRangeRequest(c)
  <2>1. /\ async[c].kind = "reply" /\ UNCHANGED <<watched_keys_, app, promise_>>
        /\ async'[c] = RangeDone(async[c].key, async[c].rev)
    BY <1>6, <1>t DEF OnRangeRequest
  <2>2. /\ async'[c].kind = "range_done" /\ async'[c].key = async[c].key
        /\ async'[c].rev = async[c].rev
    BY <2>1 DEF RangeDone
  <2>3. Bounded(c)'
    BY <1>0, <2>2 DEF Bounded
  <2>4. Reported(async[c].key, async[c].rev, async[c].rev) =>
          Reported(async[c].key, async[c].rev, async[c].rev)'
    BY <1>0, <2>2 DEF Reported
  <2>5. Waits(c)'
    BY <1>0, <2>1, <2>2, <2>4 DEF Waits
  <2> QED
    BY <2>3, <2>5
<1>7. CASE QueryAgain(c) \/ AskAgain(c)
  <2>1. /\ async[c].kind \in {"query", "ask"} /\ UNCHANGED <<watched_keys_, app>>
        /\ async'[c] \in {Idle, Ask, Range}
        /\ ~opsShutdown[c] => async'[c] \in {Ask, Range} /\ UNCHANGED promise_
    BY <1>7, <1>t DEF QueryAgain, AskAgain
  <2>2. /\ async'[c].rev = 0 /\ async'[c].kind \in {"none", "ask", "range"}
        /\ ~opsShutdown[c] => async'[c].kind \in {"ask", "range"}
    BY <2>1 DEF Idle, Ask, Range
  <2>3. Bounded(c)'
    BY <1>0, <1>n, <2>2 DEF Bounded
  <2>4. app[c] \in Early \cup {"campaigning"} => ~opsShutdown[c] /\ app[c] \notin Early
    BY <2>1 DEF EarlyIsIdle, CallInv, Destroying, Early
  <2>5. Waits(c)'
    BY <1>0, <2>1, <2>2, <2>4 DEF Waits
  <2> QED
    BY <2>3, <2>5
<1>4. CASE WatchPredecessor(c)
  <2>1. /\ async[c].kind = "range_done" /\ app' = app
        /\ \/ async'[c] = Idle
           \/ async[c].key # NoKey /\ async'[c] = Write(async[c].key, async[c].rev)
    BY <1>4, <1>t DEF WatchPredecessor, WatchStart
  <2>2. async'[c].rev <= revision /\ Idle.kind = "none"
    BY <1>n, <1>r, <2>1 DEF Idle, Write, Bounded
  <2>3. Bounded(c)'
    BY <1>0, <2>2 DEF Bounded
  <2>4. Waits(c)'
    <3> SUFFICES ASSUME ~Compactions, app[c] \in Early \cup {"campaigning"} PROVE Waits(c)'
      BY <2>1 DEF Waits
    <3>1. app[c] = "campaigning" /\ ~opsShutdown[c] /\ watched_keys_[c] = {}
      BY <2>1 DEF EarlyIsIdle, CallInv, Destroying, Early, Waits
    <3>2. CASE async[c].key = NoKey
      <4>1. async'[c] = Idle /\ ElectionResult(c, TRUE) /\ watched_keys_' = watched_keys_
        BY <1>4, <1>t, <3>1, <3>2 DEF WatchPredecessor, CheckElectionOverMaybe
      <4>2. promise_'[c] # "unset"
        BY <1>a, <1>t, <4>1 DEF ElectionResult
      <4>3. \A w \in watches[c] : w.state # "cancelled"
        BY <3>1 DEF Waits
      <4> QED
        BY <1>0, <2>1, <2>2, <3>1, <4>1, <4>2, <4>3 DEF Waits, Early
    <3>3. CASE async[c].key # NoKey
      <4>1. /\ async'[c] = Write(async[c].key, async[c].rev)
            /\ watched_keys_'[c] = {async[c].key}
        BY <1>4, <1>t, <3>1, <3>3 DEF WatchPredecessor, WatchStart
      <4>2. /\ async'[c].kind = "write" /\ async'[c].key = async[c].key
            /\ async'[c].rev = async[c].rev
        BY <4>1 DEF Write
      <4>3. Reported(async[c].key, async[c].rev, async[c].rev)
        BY <2>1, <3>1, <3>3 DEF Waits
      <4>5. Reported(async[c].key, async[c].rev, async[c].rev)'
        BY <1>0, <4>2, <4>3 DEF Reported
      <4>4. \A w \in watches[c] : w.state # "cancelled"
        BY <3>1 DEF Waits
      <4> QED
        BY <1>0, <2>1, <3>1, <4>1, <4>2, <4>4, <4>5 DEF Waits, Early
    <3> QED
      BY <3>2, <3>3
  <2> QED
    BY <2>3, <2>4
<1>5. CASE OnRangeCancelled(c)
  <2>1. /\ async'[c] = Idle /\ async[c].kind \in {"range", "reply"}
        /\ UNCHANGED <<watched_keys_, app>> /\ ElectionResult(c, FALSE)
    BY <1>5, <1>t DEF OnRangeCancelled
  <2>2. promise_'[c] # "unset"
    BY <1>a, <1>t, <2>1 DEF ElectionResult
  <2>3. async'[c].kind = "none" /\ async'[c].rev = 0
    BY <2>1 DEF Idle
  <2>4. app[c] \notin Early
    BY <2>1 DEF EarlyIsIdle
  <2>5. Bounded(c)'
    BY <1>0, <1>n, <2>3 DEF Bounded
  <2>6. Waits(c)'
    BY <1>0, <2>1, <2>2, <2>3, <2>4 DEF Waits
  <2> QED
    BY <2>5, <2>6
<1> QED
  BY <1>2, <1>3, <1>4, <1>5, <1>6, <1>7

\* The server and on_watch_read() change the state of a watcher, not what it reports.
LEMMA SameWatcher ==
  ASSUME NEW W, NEW w \in W, NEW v, v.id = w.id, v.next = w.next, NEW p,
         \E u \in W : u.id.key = p /\ Reported(p, u.id.start, u.next)
  PROVE  \E u \in (W \ {w}) \cup {v} : u.id.key = p /\ Reported(p, u.id.start, u.next)
<1>1. PICK u \in W : u.id.key = p /\ Reported(p, u.id.start, u.next)
  OBVIOUS
<1>2. CASE u = w
  <2>1. v.id.key = p /\ Reported(p, v.id.start, v.next)
    BY <1>1, <1>2
  <2> QED
    BY <2>1
<1>3. CASE u # w
  BY <1>1, <1>3
<1> QED
  BY <1>2, <1>3

\* The server takes up a request to watch.
LEMMA ServeWatchWaits ==
  ASSUME Types, History, NEW c \in Candidates, Bounded(c), Waits(c), ServeWatch(c)
  PROVE  Bounded(c)' /\ Waits(c)'
<1> USE DEF etcd, campaignVars, result, counters, resigning
<1>0. UNCHANGED <<revision, createRev, events, watched_keys_, async, promise_, stream, app>>
  BY DEF ServeWatch
<1>1. PICK w \in watches[c] :
        watches' = [watches EXCEPT ![c] = (@ \ {w}) \cup
          {[w EXCEPT !.state = "served", !.lost = (w.id.start < compacted)]}]
  BY DEF ServeWatch
<1> DEFINE v == [w EXCEPT !.state = "served", !.lost = (w.id.start < compacted)]
<1>2. watches'[c] = (watches[c] \ {w}) \cup {v}
  BY <1>1 DEF Types, WatchTypes
<1>3. w \in Watches /\ w.id.start \in Nat
  BY DEF Types, WatchTypes, Watches, WatchIds
<1>4. v.id = w.id /\ v.next = w.next /\ v.state = "served" /\ v.lost = (w.id.start < compacted)
  BY <1>3 DEF Watches
<1>5. ~Compactions => ~v.lost
  <2>1. ~Compactions => ~(w.id.start < compacted)
    BY <1>3 DEF History
  <2> QED
    BY <1>4, <2>1
<1> HIDE DEF v
<1>6. Bounded(c)'
  BY <1>0, <1>2, <1>4, <1>5 DEF Bounded
<1>7. \A p : (\E u \in watches[c] : u.id.key = p /\ Reported(p, u.id.start, u.next)) =>
             \E u \in watches'[c] : u.id.key = p /\ Reported(p, u.id.start, u.next)
  BY <1>2, <1>4, SameWatcher
<1>8. \A p, s, n : Reported(p, s, n) => Reported(p, s, n)'
  BY <1>0 DEF Reported
<1>9. Waits(c)'
  <2> SUFFICES ASSUME ~Compactions, app[c] \in Early \cup {"campaigning"} PROVE Waits(c)'
    BY <1>0 DEF Waits
  <2>1. \A u \in watches'[c] : u.state # "cancelled"
    BY <1>2, <1>4 DEF Waits
  <2>2. async[c].kind \in Reading =>
         \A p \in watched_keys_[c] :
           \E u \in watches'[c] : u.id.key = p /\ Reported(p, u.id.start, u.next)'
    BY <1>7, <1>8 DEF Waits
  <2>3. /\ async[c].kind \in {"reply", "range_done"} /\ async[c].key # NoKey =>
             Reported(async[c].key, async[c].rev, async[c].rev)'
        /\ async[c].kind = "write" => Reported(async[c].key, async[c].rev, async[c].rev)'
    BY <1>0 DEF Waits, Reported
  <2> QED
    BY <1>0, <2>1, <2>2, <2>3 DEF Waits
<1> QED
  BY <1>6, <1>9

\* on_watch_create() starts to read, and the watch it announced covers the key.
LEMMA OnWatchCreateWaits ==
  ASSUME Types, EarlyIsIdle, NEW c \in Candidates, CallInv(c), Bounded(c), Waits(c),
         OnWatchCreate(c)
  PROVE  Bounded(c)' /\ Waits(c)'
<1> USE DEF etcd, campaignVars, result, counters, resigning
<1>0. /\ UNCHANGED <<revision, createRev, events, watched_keys_, promise_, stream, app>>
      /\ async[c].kind = "write"
  BY DEF OnWatchCreate
<1>t. DOMAIN async = Candidates /\ DOMAIN watches = Candidates
  BY DEF Types, AsyncTypes, WatchTypes
<1>n. revision \in Nat /\ async[c].rev \in Nat /\ async[c].rev <= revision
  <2>1. async[c] \in Asyncs
    BY DEF Types, AsyncTypes
  <2> QED
    BY <2>1, AsyncValues DEF Types, StoreTypes, Bounded
<1> DEFINE v == [id |-> [key |-> async[c].key, start |-> async[c].rev], next |-> async[c].rev,
                 state |-> "requested", lost |-> FALSE]
<1>v. /\ v.id.key = async[c].key /\ v.id.start = async[c].rev /\ v.next = async[c].rev
      /\ v.state = "requested" /\ v.lost = FALSE
  OBVIOUS
<1>1. \/ watches'[c] = watches[c] \cup {v} /\ async'[c] = WriteDone
      \/ watches'[c] = watches[c] /\ stream[c] # "open" /\ async'[c] = Idle
  BY <1>t DEF OnWatchCreate
<1>3. /\ async'[c].rev = 0
      /\ \/ watches'[c] = watches[c] \cup {v} /\ async'[c].kind = "write_done"
         \/ watches'[c] = watches[c] /\ stream[c] # "open" /\ async'[c].kind = "none"
  BY <1>1 DEF Idle, WriteDone
<1> HIDE DEF v
<1>5. Bounded(c)'
  BY <1>0, <1>3, <1>n, <1>v DEF Bounded
<1>6. Waits(c)'
  <2> SUFFICES ASSUME ~Compactions, app[c] \in Early \cup {"campaigning"} PROVE Waits(c)'
    BY <1>0 DEF Waits
  <2>1. app[c] = "campaigning"
    BY <1>0 DEF EarlyIsIdle
  <2>2. watched_keys_[c] = {async[c].key} /\ Reported(async[c].key, async[c].rev, async[c].rev)
    BY <1>0, <2>1 DEF Waits
  <2>3. \A p, s, n : Reported(p, s, n) => Reported(p, s, n)'
    BY <1>0 DEF Reported
  <2>4. \A u \in watches'[c] : u.state # "cancelled"
    BY <1>3, <1>v, <2>1 DEF Waits
  <2>5. async'[c].kind = "write_done" =>
          \A p \in watched_keys_[c] :
            \E u \in watches'[c] : u.id.key = p /\ Reported(p, u.id.start, u.next)'
    <3>1. ASSUME async'[c].kind = "write_done", NEW p \in watched_keys_[c]
          PROVE  \E u \in watches'[c] : u.id.key = p /\ Reported(p, u.id.start, u.next)
      <4>1. v \in watches'[c] /\ v.id.key = p
        BY <1>3, <1>v, <2>2, <3>1
      <4>2. Reported(p, v.id.start, v.next)
        BY <1>v, <2>2
      <4> QED
        BY <4>1, <4>2
    <3> QED
      BY <2>3, <3>1
  <2>6. app[c] \notin Early
    BY <2>1 DEF Early
  <2> QED
    BY <1>0, <1>3, <2>1, <2>4, <2>5, <2>6 DEF Waits, Searching, Reading
<1> QED
  BY <1>5, <1>6

\* StartRead() goes on to wait for the same keys.
LEMMA StartReadWaits ==
  ASSUME Types, EarlyIsIdle, NEW c \in Candidates, CallInv(c), Bounded(c), Waits(c),
         StartRead(c)
  PROVE  Bounded(c)' /\ Waits(c)'
<1> USE DEF etcd, campaignVars, result
<1>0. /\ UNCHANGED <<revision, createRev, events, watches, watched_keys_, promise_, stream, app>>
      /\ async[c].kind \in {"write_done", "read_on"}
  BY DEF StartRead
<1>1. async'[c] = IF readsShutdown[c] THEN Idle ELSE Read
  BY DEF StartRead, Types, AsyncTypes
<1>2. async'[c].rev = 0 /\ async'[c].kind = IF readsShutdown[c] THEN "none" ELSE "read"
  BY <1>1 DEF Idle, Read
<1>3. Bounded(c)'
  BY <1>0, <1>2 DEF Bounded, Types, StoreTypes
<1>4. app[c] \in Early \cup {"campaigning"} => ~readsShutdown[c] /\ app[c] \notin Early
  BY <1>0 DEF EarlyIsIdle, CallInv
<1>5. \A p, s, n : Reported(p, s, n) => Reported(p, s, n)'
  BY <1>0 DEF Reported
<1>6. Waits(c)'
  BY <1>0, <1>2, <1>4, <1>5 DEF Waits, Searching, Reading
<1> QED
  BY <1>3, <1>6

\* The end of on_watch_read() looks for a predecessor when it waits for nothing any more.
LEMMA ReadTailContinues ==
  ASSUME Types, NEW c \in Candidates, NEW b \in BOOLEAN, ReadTail(c, b)
  PROVE  /\ async'[c].rev = 0 /\ async'[c].kind \in {"query", "read_on"}
         /\ promise_' = promise_
         /\ ~b => \/ async'[c].kind = "query" /\ watched_keys_'[c] = {}
                  \/ async'[c].kind = "read_on"
<1>1. DOMAIN async = Candidates
  BY DEF Types, AsyncTypes
<1>2. /\ async'[c] = Query \/ async'[c] = ReadOn
      /\ ~b => \/ async'[c] = Query /\ watched_keys_'[c] = {}
               \/ async'[c] = ReadOn
  BY <1>1 DEF ReadTail
<1>3. promise_' = promise_
  BY DEF ReadTail, result
<1> QED
  BY <1>2, <1>3 DEF Query, ReadOn

\* What on_watch_read() may do to the watchers keeps the campaign waiting for keys whose
\* deletion will be reported.
LEMMA ReadWaits ==
  ASSUME Types, EarlyIsIdle, NEW c \in Candidates, CallInv(c), Bounded(c), Waits(c),
         async[c].kind = "read", NEW b \in BOOLEAN, ReadTail(c, b),
         UNCHANGED <<revision, createRev, events, stream, app>>,
         \A w \in watches'[c] : w.next <= revision + 1 /\ (~Compactions => ~w.lost),
         ~Compactions /\ app[c] = "campaigning" =>
           /\ ~b
           /\ \A w \in watches'[c] : w.state # "cancelled"
           /\ \A p \in watched_keys_'[c] :
                \E w \in watches'[c] : w.id.key = p /\ Reported(p, w.id.start, w.next)
  PROVE  Bounded(c)' /\ Waits(c)'
<1>1. async'[c].rev = 0 /\ async'[c].kind \in {"query", "read_on"} /\ promise_' = promise_
  BY ReadTailContinues
<1>2. Bounded(c)'
  BY <1>1 DEF Bounded, Types, StoreTypes
<1>3. Waits(c)'
  <2> SUFFICES ASSUME ~Compactions, app[c] \in Early \cup {"campaigning"} PROVE Waits(c)'
    BY DEF Waits
  <2>1. app[c] = "campaigning" /\ app[c] \notin Early
    BY DEF EarlyIsIdle, Early
  <2>2. \/ async'[c].kind = "query" /\ watched_keys_'[c] = {}
        \/ async'[c].kind = "read_on"
    BY <2>1, ReadTailContinues
  <2>3. \A p, s, n : Reported(p, s, n) => Reported(p, s, n)'
    BY DEF Reported
  <2>4. \A p \in watched_keys_'[c] :
          \E w \in watches'[c] : w.id.key = p /\ Reported(p, w.id.start, w.next)'
    BY <2>1, <2>3
  <2> QED
    BY <1>1, <2>1, <2>2, <2>4 DEF Waits, Searching, Reading
<1> QED
  BY <1>2, <1>3

\* on_watch_read() of a new watcher.
LEMMA OnWatchCreatedWaits ==
  ASSUME Types, EarlyIsIdle, NEW c \in Candidates, CallInv(c), Bounded(c), Waits(c),
         OnWatchCreated(c)
  PROVE  Bounded(c)' /\ Waits(c)'
<1> USE DEF etcd
<1>0. /\ async[c].kind = "read" /\ ReadTail(c, FALSE)
      /\ UNCHANGED <<revision, createRev, events, stream, app, watched_keys_>>
  BY DEF OnWatchCreated
<1>1. PICK w \in watches[c] :
        watches' = [watches EXCEPT ![c] = (@ \ {w}) \cup {[w EXCEPT !.state = "active"]}]
  BY DEF OnWatchCreated
<1> DEFINE v == [w EXCEPT !.state = "active"]
<1>2. watches'[c] = (watches[c] \ {w}) \cup {v}
  BY <1>1 DEF Types, WatchTypes
<1>3. w \in Watches
  BY DEF Types, WatchTypes
<1>4. v.id = w.id /\ v.next = w.next /\ v.state = "active" /\ v.lost = w.lost
  BY <1>3 DEF Watches
<1> HIDE DEF v
<1>5. \A u \in watches'[c] : u.next <= revision + 1 /\ (~Compactions => ~u.lost)
  BY <1>2, <1>4 DEF Bounded
<1>6. \A p : (\E u \in watches[c] : u.id.key = p /\ Reported(p, u.id.start, u.next)) =>
             \E u \in watches'[c] : u.id.key = p /\ Reported(p, u.id.start, u.next)
  BY <1>2, <1>4, SameWatcher
<1>7. ~Compactions /\ app[c] = "campaigning" =>
        /\ \A u \in watches'[c] : u.state # "cancelled"
        /\ \A p \in watched_keys_'[c] :
             \E u \in watches'[c] : u.id.key = p /\ Reported(p, u.id.start, u.next)
  BY <1>0, <1>2, <1>4, <1>6 DEF Waits, Reading
<1> QED
  BY <1>0, <1>5, <1>7, ReadWaits

\* on_watch_read() of events: a key that is still waited for was not deleted by them.
LEMMA OnWatchEventsWaits ==
  ASSUME Types, EarlyIsIdle, History, NEW c \in Candidates, CallInv(c), Bounded(c), Waits(c),
         OnWatchEvents(c)
  PROVE  Bounded(c)' /\ Waits(c)'
<1> USE DEF etcd
<1>0. /\ async[c].kind = "read" /\ ReadTail(c, FALSE)
      /\ UNCHANGED <<revision, createRev, events, stream, app>>
  BY DEF OnWatchEvents
<1>1. PICK w \in watches[c], r \in 1..revision :
        /\ watches' = [watches EXCEPT ![c] = (@ \ {w}) \cup {[w EXCEPT !.next = r + 1]}]
        /\ watched_keys_' = [watched_keys_ EXCEPT ![c] =
             @ \ {e.key : e \in {f \in EventsOf(w, r) :
                             f.type = "DELETE" /\ f.rev - 1 >= compacted}}]
  BY DEF OnWatchEvents
<1> DEFINE v == [w EXCEPT !.next = r + 1]
<1>2. watches'[c] = (watches[c] \ {w}) \cup {v}
  BY <1>1 DEF Types, WatchTypes
<1>3. watched_keys_'[c] = watched_keys_[c] \ {e.key : e \in {f \in EventsOf(w, r) :
                             f.type = "DELETE" /\ f.rev - 1 >= compacted}}
  BY <1>1 DEF Types, CampaignTypes
<1>n. revision \in Nat /\ r \in Nat /\ r <= revision /\ events \subseteq Events
  BY DEF Types, StoreTypes
<1>4. w \in Watches /\ w.next \in Nat /\ w.id.start \in Nat
  BY DEF Types, WatchTypes, Watches, WatchIds
<1>5. v.id = w.id /\ v.next = r + 1 /\ v.state = w.state /\ v.lost = w.lost
  BY <1>4 DEF Watches
<1> HIDE DEF v
<1>6. \A u \in watches'[c] : u.next <= revision + 1 /\ (~Compactions => ~u.lost)
  BY <1>2, <1>5, <1>n DEF Bounded
<1>7. ASSUME ~Compactions, app[c] = "campaigning", NEW p \in watched_keys_'[c]
      PROVE  \E u \in watches'[c] : u.id.key = p /\ Reported(p, u.id.start, u.next)
  <2>1. p \in watched_keys_[c]
    BY <1>3
  <2>2. PICK u \in watches[c] : u.id.key = p /\ Reported(p, u.id.start, u.next)
    BY <1>0, <1>7, <2>1 DEF Waits, Reading
  <2>3. CASE u # w
    BY <1>2, <2>2, <2>3
  <2>4. CASE u = w
    <3>1. Reported(p, v.id.start, v.next)
      <4>1. CASE createRev[p] \in 1..w.id.start
        BY <1>5, <4>1 DEF Reported
      <4>2. CASE \E e \in events : e.key = p /\ e.type = "DELETE" /\ e.rev \in w.next..revision
        <5>1. PICK e \in events : e.key = p /\ e.type = "DELETE" /\ e.rev \in w.next..revision
          BY <4>2
        <5>2. e.rev \in Nat /\ e.rev - 1 >= compacted
          BY <1>7, <1>n, <5>1 DEF Events, History
        <5>3. ~(e.rev <= r)
          <6> SUFFICES ASSUME e.rev <= r PROVE FALSE
            OBVIOUS
          <6>1. e \in EventsOf(w, r)
            BY <1>4, <1>n, <2>2, <2>4, <5>1, <5>2 DEF EventsOf
          <6>2. p \in {f.key : f \in {g \in EventsOf(w, r) :
                                 g.type = "DELETE" /\ g.rev - 1 >= compacted}}
            BY <5>1, <5>2, <6>1
          <6> QED
            BY <1>3, <6>2
        <5>4. e.rev \in v.next..revision
          BY <1>5, <1>n, <5>1, <5>2, <5>3
        <5> QED
          BY <5>1, <5>4 DEF Reported
      <4> QED
        BY <2>2, <2>4, <4>1, <4>2 DEF Reported
    <3> QED
      BY <1>2, <1>5, <2>2, <2>4, <3>1
  <2> QED
    BY <2>3, <2>4
<1>8. ~Compactions /\ app[c] = "campaigning" => \A u \in watches'[c] : u.state # "cancelled"
  BY <1>0, <1>2, <1>5 DEF Waits
<1> QED
  BY <1>0, <1>6, <1>7, <1>8, ReadWaits

\* on_watch_read() of a cancellation: without compactions there is none during a campaign.
LEMMA OnWatchCanceledWaits ==
  ASSUME Types, EarlyIsIdle, NEW c \in Candidates, CallInv(c), Bounded(c), Waits(c),
         OnWatchCanceled(c)
  PROVE  Bounded(c)' /\ Waits(c)'
<1> USE DEF etcd
<1>0. /\ async[c].kind = "read" /\ ReadTail(c, TRUE)
      /\ UNCHANGED <<revision, createRev, events, stream, app, watched_keys_>>
  BY DEF OnWatchCanceled
<1>1. PICK w \in watches[c] :
        /\ w.state = "cancelled" \/ (w.state = "active" /\ w.lost)
        /\ watches' = [watches EXCEPT ![c] = @ \ {w}]
  BY DEF OnWatchCanceled
<1>2. watches'[c] = watches[c] \ {w}
  BY <1>1 DEF Types, WatchTypes
<1>3. ~(~Compactions /\ app[c] = "campaigning")
  BY <1>1 DEF Waits, Bounded
<1>4. \A u \in watches'[c] : u.next <= revision + 1 /\ (~Compactions => ~u.lost)
  BY <1>2 DEF Bounded
<1> QED
  BY <1>0, <1>3, <1>4, ReadWaits

\* A Read() that fails ends the campaign with its stream, the cancellations belong to
\* resign(), and a process that dies or is replaced forgets all.
LEMMA EndWaits ==
  ASSUME Types, EarlyIsIdle, [Next]_vars, NEW c \in Candidates, CallInv(c), Bounded(c), Waits(c),
         \/ OnWatchReadFails(c)
         \/ OnWatchCancel(c)
         \/ (Crash(c) \/ Restart(c))
  PROVE  Bounded(c)' /\ Waits(c)'
<1> USE DEF etcd, campaignVars, result, counters, resigning
<1>n. revision \in Nat
  BY DEF Types, StoreTypes
<1>1. CASE OnWatchReadFails(c)
  <2>1. /\ async[c].kind = "read" /\ stream[c] # "open" /\ async'[c] = Idle
        /\ UNCHANGED <<revision, watches, stream, app, watched_keys_>>
    BY <1>1 DEF OnWatchReadFails, Types, AsyncTypes
  <2>2. async'[c].kind = "none" /\ async'[c].rev = 0
    BY <2>1 DEF Idle
  <2>3. app[c] \notin Early
    BY <2>1 DEF EarlyIsIdle
  <2>4. Bounded(c)'
    BY <1>n, <2>1, <2>2 DEF Bounded
  <2> QED
    BY <2>1, <2>2, <2>3, <2>4 DEF Waits, Searching, Reading
<1>2. CASE OnWatchCancel(c)
  <2>1. app[c] = "cancel_watches" /\ UNCHANGED <<revision, app, async>>
    BY <1>2 DEF OnWatchCancel, CallInv
  <2>2. Waits(c)'
    BY <2>1 DEF Waits, Early
  <2>3. PICK i \in cancels[c] :
          /\ cancels' = [cancels EXCEPT ![c] = @ \ {i}]
          /\ watches' = [watches EXCEPT ![c] =
               {IF w.id = i /\ stream[c] = "open" THEN [w EXCEPT !.state = "cancelled"] ELSE w :
                  w \in @}]
    BY <1>2 DEF OnWatchCancel
  <2>4. \A u \in watches'[c] : \E w \in watches[c] : u = w \/ u = [w EXCEPT !.state = "cancelled"]
    BY <2>3 DEF Types, WatchTypes
  <2>5. \A u \in watches'[c] : u.next <= revision + 1 /\ (~Compactions => ~u.lost)
    <3> SUFFICES ASSUME NEW u \in watches'[c]
                 PROVE  u.next <= revision + 1 /\ (~Compactions => ~u.lost)
      OBVIOUS
    <3>1. PICK w \in watches[c] : u = w \/ u = [w EXCEPT !.state = "cancelled"]
      BY <2>4
    <3>2. w \in Watches
      BY DEF Types, WatchTypes
    <3>3. u.next = w.next /\ u.lost = w.lost
      BY <3>1, <3>2 DEF Watches
    <3> QED
      BY <3>3 DEF Bounded
  <2> QED
    BY <2>1, <2>2, <2>5 DEF Bounded
<1>3. CASE Crash(c) \/ Restart(c)
  <2>1. Discard(c) /\ app'[c] \in {"crashed", "new"} /\ revision' = revision
    BY <1>3 DEF Crash, Restart, Types, ThreadTypes
  <2>2. watches'[c] = {} /\ watched_keys_'[c] = {} /\ async'[c] = Idle
    BY <2>1 DEF Discard, Types, WatchTypes, CampaignTypes, AsyncTypes
  <2>3. async'[c].kind = "none" /\ async'[c].rev = 0
    BY <2>2 DEF Idle
  <2>4. Bounded(c)'
    BY <1>n, <2>1, <2>2, <2>3 DEF Bounded
  <2> QED
    BY <2>1, <2>2, <2>3, <2>4 DEF Waits, Searching, Reading
<1> QED
  BY <1>1, <1>2, <1>3

\* Nothing is waited for at first.
LEMMA InitWaitInv == Init => WaitInv
<1> SUFFICES ASSUME Init PROVE WaitInv
  OBVIOUS
<1>1. CallsInv /\ History
  BY InitCallsInv DEF Init, History
<1>2. ASSUME NEW c \in Candidates PROVE Published(c) /\ Bounded(c) /\ Waits(c)
  <2>1. /\ async[c].kind = "none" /\ async[c].rev = 0 /\ watches[c] = {} /\ revision = 1
        /\ watched_keys_[c] = {} /\ app[c] = "new"
    BY <1>2 DEF Init, Idle
  <2> QED
    BY <2>1 DEF Published, Bounded, Waits, Searching, Reading
<1> QED
  BY <1>1, <1>2 DEF WaitInv

\* Every step of a candidate keeps what it waits for within what will be reported.
LEMMA OwnWaits ==
  ASSUME WaitInv, [Next]_vars, NEW c \in Candidates, Server(c) \/ Callback(c) \/ Application(c)
  PROVE  Bounded(c)' /\ Waits(c)'
<1>0. Types /\ EarlyIsIdle /\ History /\ CallInv(c) /\ Bounded(c) /\ Waits(c)
  BY DEF WaitInv, CallsInv, ElectionInv
<1>1. CASE \/ LeaseEnd(c) \/ StreamBreaks(c)
           \/ Application(c) /\ ~QueryPredecessor(c) /\ ~Crash(c) /\ ~Restart(c)
  BY <1>0, <1>1, OwnWaitsUnmoved
<1>2. CASE \/ QueryPredecessor(c) \/ ServeRange(c) \/ OnRangeRequest(c) \/ OnRangeCancelled(c)
           \/ WatchPredecessor(c) \/ QueryAgain(c) \/ AskAgain(c)
  BY <1>0, <1>2, SearchWaits
<1>3. CASE ServeWatch(c) \/ OnWatchCreate(c) \/ StartRead(c)
  BY <1>0, <1>3, ServeWatchWaits, OnWatchCreateWaits, StartReadWaits
<1>4. CASE OnWatchCreated(c) \/ OnWatchEvents(c) \/ OnWatchCanceled(c)
  BY <1>0, <1>4, OnWatchCreatedWaits, OnWatchEventsWaits, OnWatchCanceledWaits
<1>5. CASE OnWatchReadFails(c) \/ OnWatchCancel(c) \/ Crash(c) \/ Restart(c)
  BY <1>0, <1>5, EndWaits
<1> QED
  BY <1>1, <1>2, <1>3, <1>4, <1>5 DEF Server, Callback, CallbackTail, OnWatchRead

\* Every step keeps the invariant: of the candidate that moves and of those that do not.
LEMMA WaitStep == WaitInv /\ [Next]_vars => WaitInv'
<1> SUFFICES ASSUME WaitInv, [Next]_vars PROVE WaitInv'
  OBVIOUS
<1>0. Types /\ History /\ \A d \in Candidates : Published(d) /\ Bounded(d) /\ Waits(d)
  BY DEF WaitInv, CallsInv, ElectionInv
<1>1. CallsInv' /\ History'
  BY <1>0, CallsStep, HistoryStep DEF WaitInv
<1>2. ASSUME NEW d \in Candidates, UNCHANGED OwnState(d)
      PROVE  Published(d)' /\ Bounded(d)' /\ Waits(d)'
  <2>1. /\ UNCHANGED <<watches[d], watched_keys_[d], async[d], promise_[d], stream[d], app[d]>>
        /\ UNCHANGED <<createRev[d], value[d], creation_revision_[d], candidate_value_[d]>>
    BY <1>2 DEF OwnState
  <2>2. Published(d)'
    BY <1>0, <2>1 DEF Published, Exists, OwnNode
  <2>3. Bounded(d)' /\ Waits(d)'
    BY <1>0, <2>1, UnmovedWaits
  <2> QED
    BY <2>2, <2>3
<1>3. CASE Compact \/ UNCHANGED vars
  <2>1. \A d \in Candidates : UNCHANGED OwnState(d)
    BY <1>3 DEF Compact, vars, OwnState, etcd, campaignVars, result, counters, resigning
  <2> QED
    BY <1>1, <1>2, <2>1 DEF WaitInv
<1>4. ASSUME NEW c \in Candidates, Server(c) \/ Callback(c) \/ Application(c)
      PROVE  WaitInv'
  <2>1. Published(c)' /\ Bounded(c)' /\ Waits(c)'
    BY <1>0, <1>4, OwnPublished, OwnWaits
  <2>2. \A d \in Candidates \ {c} : Published(d)' /\ Bounded(d)' /\ Waits(d)'
    BY <1>0, <1>2, <1>4, OthersKeepTheirs
  <2> QED
    BY <1>1, <2>1, <2>2 DEF WaitInv
<1> QED
  BY <1>3, <1>4 DEF Next

\* So it holds in all reachable states.
LEMMA WaitInvariance == Spec => []WaitInv
BY InitWaitInv, WaitStep, PTL DEF Spec

\* For any candidates and values, while no RPC fails: the node of a candidate that
\* campaigns holds the value the candidate has, whichever instance created the node.
THEOREM PublishedValue == Spec => []ValuePublished
<1>1. WaitInv => ValuePublished
  BY DEF WaitInv, Published, ValuePublished
<1> QED
  BY <1>1, WaitInvariance, PTL

\* For any number of candidates, while etcd keeps its history: a campaign never stalls.
\* It waits only for nodes whose deletion its watchers will report, and until there is a
\* result an operation is outstanding that continues it.
THEOREM CampaignsGoOn == Spec => []NeverStranded
<1>1. WaitInv => NeverStranded
  <2> SUFFICES ASSUME WaitInv, ~Compactions PROVE NeverStranded
    BY DEF NeverStranded, WaitIsCovered
  <2>1. ASSUME NEW c \in Candidates, async[c].kind = "read", app[c] = "campaigning",
               NEW p \in watched_keys_[c]
        PROVE  \E w \in watches[c] :
                 /\ w.id.key = p
                 /\ \/ createRev[p] \in 1..w.id.start
                    \/ \E e \in EventsOf(w, revision) : e.type = "DELETE"
    <3>1. PICK w \in watches[c] : w.id.key = p /\ Reported(p, w.id.start, w.next)
      BY <2>1 DEF WaitInv, Waits, Reading
    <3> QED
      BY <3>1 DEF Reported, EventsOf
  <2>2. ASSUME NEW c \in Candidates, app[c] = "campaigning", stream[c] = "open",
               promise_[c] = "unset"
        PROVE  async[c].kind # "none"
    BY <2>2 DEF WaitInv, Waits
  <2> QED
    BY <2>1, <2>2 DEF NeverStranded, WaitIsCovered
<1> QED
  BY <1>1, WaitInvariance, PTL
=============================================================================
