--------------------------- MODULE LeaderElection ---------------------------
(***************************************************************************)
(* Whole programs: processes that run examples/join_election with a        *)
(* gh::leader_election, which is a session and a candidate, and one that   *)
(* runs examples/observe_election with a gh::watch_election.               *)
(*                                                                         *)
(* The parts are taken by their contracts, which the modules Session,      *)
(* ElectionCandidate and ElectionObserver establish: a session keeps the   *)
(* lease while it lives and messages are timely; campaign() creates a node *)
(* on the lease, and the candidate learns that it is elected when no older *)
(* node is left, which it may also do while it resigns or when its own     *)
(* node is gone; a broken stream stalls a campaign without a result;       *)
(* resign() reports that the candidate is not elected; destructors release *)
(* nothing in etcd.                                                        *)
(***************************************************************************)
EXTENDS Integers, FiniteSets

CONSTANTS
  Processes,   \* the processes that join the election
  NoLeader,    \* what the observer shows when nobody is in line
  MaxFaults    \* bound: failed RPCs, broken streams and late keep alives

ASSUME ElectionAssumption ==
  /\ IsFiniteSet(Processes) /\ NoLeader \notin Processes
  /\ MaxFaults \in Nat

VARIABLES
  pc,         \* pc[p]: where main() of p is
  interrupt,  \* interrupt[p]: has the signal handler of p been called?
  lease,      \* lease[p]: etcd's view of the lease of p's session
  node,       \* node[p]: the creation revision of p's node, 0 if there is none
  place,      \* place[p]: creation_revision_ of p's candidate
  elected,    \* elected[p]: elected() of p's candidate
  fut,        \* fut[p]: the future that campaign() returned
  broken,     \* broken[p]: what has ended the campaign of p, if anything
  revision,   \* how many nodes were created
  faults,     \* how many faults there were
  watcher,    \* where main() of the observing program is
  observing,  \* is the watch_election connected, after startup()?
  view,       \* the leader that it knows
  calling,    \* has its callback changed that leader, and not called its subscribers yet?
  shown       \* the leader that the subscriber was told last

processVars == <<pc, interrupt, lease, node, place, elected, fut, broken, revision, faults>>
watcherVars == <<watcher, observing, view, calling, shown>>
vars == <<processVars, watcherVars>>

Ended == {"exit_ok", "exit_error", "killed"}

\* The session of p exists, and so does its candidate.
Constructed(p) == pc[p] \notin {"start", "no_session"} \cup Ended

TypeOK ==
  /\ pc \in [Processes -> {"start", "no_session", "constructed", "campaigning", "waiting",
                           "won", "resigning", "revoking", "done", "unwinding"} \cup Ended]
  /\ interrupt \in [Processes -> BOOLEAN]
  /\ lease \in [Processes -> {"none", "live", "gone"}]
  /\ node \in [Processes -> 0..revision] /\ place \in [Processes -> 0..revision]
  /\ elected \in [Processes -> BOOLEAN]
  /\ fut \in [Processes -> {"pending", "true", "false"}]
  /\ broken \in [Processes -> {"no", "stream", "leak"}]
  /\ revision \in 0..Cardinality(Processes) /\ faults \in 0..MaxFaults
  /\ watcher \in {"start", "running", "exit_ok", "crashed"}
  /\ observing \in BOOLEAN /\ calling \in BOOLEAN
  /\ view \in Processes \cup {NoLeader} /\ shown \in Processes \cup {NoLeader}

Init ==
  /\ pc = [p \in Processes |-> "start"]
  /\ interrupt = [p \in Processes |-> FALSE]
  /\ lease = [p \in Processes |-> "none"]
  /\ node = [p \in Processes |-> 0] /\ place = [p \in Processes |-> 0]
  /\ elected = [p \in Processes |-> FALSE]
  /\ fut = [p \in Processes |-> "pending"]
  /\ broken = [p \in Processes |-> "no"]
  /\ revision = 0 /\ faults = 0
  /\ watcher = "start" /\ observing = FALSE /\ calling = FALSE
  /\ view = NoLeader /\ shown = NoLeader

\* An RPC, a stream or a keep alive fails.
Fault == faults < MaxFaults /\ faults' = faults + 1

-----------------------------------------------------------------------------
(* leader_election and the program join_election.                          *)

\* leader_election(): the session first, then the candidate with its lease.  When the
\* session cannot be made there is no candidate.
NewLeaderElection(p) ==
  /\ pc[p] = "start"
  /\ \/ /\ lease' = [lease EXCEPT ![p] = "live"]
        /\ pc' = [pc EXCEPT ![p] = "constructed"]
        /\ UNCHANGED faults
     \/ /\ Fault
        /\ pc' = [pc EXCEPT ![p] = "no_session"]
        /\ UNCHANGED lease
  /\ UNCHANGED <<interrupt, node, place, elected, fut, broken, revision, watcherVars>>

\* campaign() creates the node, or throws: when the lease is gone, and when the stream
\* cannot be created or an RPC fails, in which case the node may be there or not.
campaign(p) ==
  /\ pc[p] = "constructed"
  /\ \/ /\ lease[p] = "live"
        /\ revision' = revision + 1
        /\ node' = [node EXCEPT ![p] = revision + 1]
        /\ \/ /\ place' = [place EXCEPT ![p] = revision + 1]
              /\ pc' = [pc EXCEPT ![p] = "campaigning"]
              /\ UNCHANGED faults
           \/ /\ Fault
              /\ pc' = [pc EXCEPT ![p] = "unwinding"]
              /\ UNCHANGED place
     \/ /\ \/ lease[p] = "gone" /\ UNCHANGED faults
           \/ lease[p] = "live" /\ Fault
        /\ pc' = [pc EXCEPT ![p] = "unwinding"]
        /\ UNCHANGED <<revision, node, place>>
  /\ UNCHANGED <<interrupt, lease, elected, fut, broken, watcherVars>>

\* std::signal(): only from here on does a signal set the flag.
InstallHandlers(p) ==
  /\ pc[p] = "campaigning"
  /\ pc' = [pc EXCEPT ![p] = "waiting"]
  /\ UNCHANGED <<interrupt, lease, node, place, elected, fut, broken, revision, faults,
                 watcherVars>>

\* A user sends a signal; without a handler it ends the process.
signal_handler(p) ==
  /\ pc[p] \notin Ended
  /\ IF pc[p] \in {"start", "no_session", "constructed", "campaigning"}
     THEN pc' = [pc EXCEPT ![p] = "killed"] /\ UNCHANGED interrupt
     ELSE ~interrupt[p] /\ interrupt' = [interrupt EXCEPT ![p] = TRUE] /\ UNCHANGED pc
  /\ UNCHANGED <<lease, node, place, elected, fut, broken, revision, faults, watcherVars>>

\* The loop over wait_for() ends when the result is there or the user interrupts; a
\* result of false makes main() throw.  If both hold either may have been seen first.
WaitForResult(p) ==
  /\ pc[p] = "waiting"
  /\ \/ fut[p] = "true" /\ pc' = [pc EXCEPT ![p] = "won"]
     \/ fut[p] = "false" /\ pc' = [pc EXCEPT ![p] = "unwinding"]
     \/ interrupt[p] /\ pc' = [pc EXCEPT ![p] = "resigning"]
  /\ UNCHANGED <<interrupt, lease, node, place, elected, fut, broken, revision, faults,
                 watcherVars>>

WaitForInterrupt(p) ==
  /\ pc[p] = "won" /\ interrupt[p]
  /\ pc' = [pc EXCEPT ![p] = "resigning"]
  /\ UNCHANGED <<interrupt, lease, node, place, elected, fut, broken, revision, faults,
                 watcherVars>>

\* Mutant: main() swallows the exception of resign() and goes on to wait.
ResignRetrying(p) ==
  /\ pc[p] = "resigning"
  /\ \/ /\ pc' = [pc EXCEPT ![p] = "revoking"]
        /\ elected' = [elected EXCEPT ![p] = FALSE]
        /\ fut' = [fut EXCEPT ![p] = IF @ = "pending" THEN "false" ELSE @]
        /\ UNCHANGED <<faults, interrupt>>
     \/ /\ Fault
        /\ pc' = [pc EXCEPT ![p] = "waiting"]
        /\ interrupt' = [interrupt EXCEPT ![p] = FALSE]
        /\ UNCHANGED <<elected, fut>>
  /\ UNCHANGED <<lease, node, place, broken, revision, watcherVars>>

\* resign(), its first half: candidate_->resign().  When it throws the lease is not
\* revoked.
resign(p) ==
  /\ pc[p] = "resigning"
  /\ \/ /\ pc' = [pc EXCEPT ![p] = "revoking"]
        /\ elected' = [elected EXCEPT ![p] = FALSE]
        /\ fut' = [fut EXCEPT ![p] = IF @ = "pending" THEN "false" ELSE @]
        /\ UNCHANGED faults
     \/ /\ Fault
        /\ pc' = [pc EXCEPT ![p] = "unwinding"]
        /\ UNCHANGED <<elected, fut>>
  /\ UNCHANGED <<interrupt, lease, node, place, broken, revision, watcherVars>>

\* Mutant: the node is not attached to the lease.
EndLeaseKeepingNode(p) ==
  /\ lease' = [lease EXCEPT ![p] = "gone"]
  /\ UNCHANGED node

\* The lease is no more, and the node with it.
EndLease(p) ==
  /\ lease' = [lease EXCEPT ![p] = "gone"]
  /\ node' = [node EXCEPT ![p] = 0]

\* resign(), its second half: session_->revoke().  It throws when etcd does not know the
\* lease any more, or when the RPC fails, whether or not etcd executed it.
revoke(p) ==
  /\ pc[p] = "revoking"
  /\ \/ lease[p] = "live" /\ EndLease(p) /\ pc' = [pc EXCEPT ![p] = "done"] /\ UNCHANGED faults
     \/ /\ lease[p] = "gone" /\ pc' = [pc EXCEPT ![p] = "unwinding"]
        /\ UNCHANGED <<lease, node, faults>>
     \/ /\ lease[p] = "live" /\ Fault /\ pc' = [pc EXCEPT ![p] = "unwinding"]
        /\ EndLease(p) \/ UNCHANGED <<lease, node>>
  /\ UNCHANGED <<interrupt, place, elected, fut, broken, revision, watcherVars>>

\* The locals of main() are destroyed, the candidate before the session, and main()
\* returns 0, or 1 from its exception handler.  The destructor of the candidate waits for
\* ever for an operation that was not counted down, and the session goes on.
Exit(p) ==
  /\ broken[p] # "leak"
  /\ \/ pc[p] = "done" /\ pc' = [pc EXCEPT ![p] = "exit_ok"]
     \/ pc[p] \in {"unwinding", "no_session"} /\ pc' = [pc EXCEPT ![p] = "exit_error"]
  /\ UNCHANGED <<interrupt, lease, node, place, elected, fut, broken, revision, faults,
                 watcherVars>>

-----------------------------------------------------------------------------
(* The contracts of the session and the candidate.                         *)

\* The lease expires: nobody keeps it alive any more, or the keep alives are late.
LeaseExpires(p) ==
  /\ lease[p] = "live"
  /\ \/ pc[p] \in Ended /\ UNCHANGED faults
     \/ Constructed(p) /\ Fault
  /\ EndLease(p)
  /\ UNCHANGED <<pc, interrupt, place, elected, fut, broken, revision, watcherVars>>

\* No node is older than the one p created.
NoneOlder(p) == \A q \in Processes : node[q] # 0 => place[p] <= node[q]

\* Mutant: the candidate does not look for an older node.
WinAtOnce(p) ==
  /\ Constructed(p) /\ place[p] # 0 /\ broken[p] = "no" /\ ~elected[p]
  /\ elected' = [elected EXCEPT ![p] = TRUE]
  /\ fut' = [fut EXCEPT ![p] = IF @ = "pending" THEN "true" ELSE @]
  /\ UNCHANGED <<pc, interrupt, lease, node, place, broken, revision, faults, watcherVars>>

\* Mutant: the candidate's search finds its own node too.
WinIfAlone(p) ==
  /\ Constructed(p) /\ place[p] # 0 /\ broken[p] = "no" /\ ~elected[p]
  /\ \A q \in Processes : node[q] # 0 => place[p] < node[q]
  /\ elected' = [elected EXCEPT ![p] = TRUE]
  /\ fut' = [fut EXCEPT ![p] = IF @ = "pending" THEN "true" ELSE @]
  /\ UNCHANGED <<pc, interrupt, lease, node, place, broken, revision, faults, watcherVars>>

\* The candidate finds that no older node is left.
Win(p) ==
  /\ Constructed(p) /\ place[p] # 0 /\ broken[p] = "no" /\ ~elected[p]
  /\ NoneOlder(p)
  /\ elected' = [elected EXCEPT ![p] = TRUE]
  /\ fut' = [fut EXCEPT ![p] = IF @ = "pending" THEN "true" ELSE @]
  /\ UNCHANGED <<pc, interrupt, lease, node, place, broken, revision, faults, watcherVars>>

\* The campaign fails.  Its stream breaks, and nothing more happens; or its search is
\* canceled, which gives the result false and leaves an operation in the candidate's
\* counter; or the search has an error, which the callback throws out of the loop.
Abort(p) ==
  /\ Constructed(p) /\ place[p] # 0 /\ broken[p] = "no" /\ Fault
  /\ \/ /\ broken' = [broken EXCEPT ![p] = "stream"]
        /\ UNCHANGED <<pc, fut, elected>>
     \/ /\ broken' = [broken EXCEPT ![p] = "leak"]
        /\ fut' = [fut EXCEPT ![p] = IF @ = "pending" THEN "false" ELSE @]
        /\ elected' = [elected EXCEPT ![p] = FALSE]
        /\ UNCHANGED pc
     \/ /\ pc' = [pc EXCEPT ![p] = "killed"]
        /\ UNCHANGED <<broken, fut, elected>>
  /\ UNCHANGED <<interrupt, lease, node, place, revision, watcherVars>>

-----------------------------------------------------------------------------
(* watch_election and the program observe_election.                        *)

InLine == {p \in Processes : node[p] # 0}

\* The leader as an observer defines it: who has the oldest node.
CurrentLeader ==
  IF InLine = {} THEN NoLeader
  ELSE CHOOSE p \in InLine : \A q \in InLine : node[p] <= node[q]

\* main() calls subscribe(), which registers the subscriber and does not call it, since the
\* observer knows nobody yet, and then startup(), which connects the observer, or throws;
\* and then the destructor of the observer uses a stream that was never created.
Startup ==
  /\ watcher = "start"
  /\ \/ /\ watcher' = "running" /\ observing' = TRUE
        /\ UNCHANGED processVars
     \/ /\ Fault
        /\ watcher' = "crashed"
        /\ UNCHANGED <<observing, pc, interrupt, lease, node, place, elected, fut, broken,
                       revision>>
  /\ UNCHANGED <<view, calling, shown>>

\* The contract of the observer, once connected: it follows the nodes, ...
Follow ==
  /\ observing /\ ~calling /\ view # CurrentLeader
  /\ view' = CurrentLeader /\ calling' = TRUE
  /\ UNCHANGED <<processVars, watcher, observing, shown>>

\* Mutant of Notify: the subscriber is not told that nobody leads.
NotifyOfLeaders ==
  /\ calling /\ calling' = FALSE
  /\ shown' = IF view # NoLeader THEN view ELSE shown
  /\ UNCHANGED <<processVars, watcher, observing, view>>

\* ... and then calls whoever is registered.
Notify ==
  /\ calling /\ calling' = FALSE
  /\ shown' = view
  /\ UNCHANGED <<processVars, watcher, observing, view>>

\* The watch stream of the observer breaks, or its history is compacted: it follows no
\* more.
Disconnect ==
  /\ observing /\ observing' = FALSE
  /\ Fault
  /\ UNCHANGED <<watcher, view, calling, shown, pc, interrupt, lease, node, place, elected,
                 fut, broken, revision>>

\* The user interrupts the program: unsubscribe(), shutdown() and the return.  What the
\* program knew is gone with it.
ShutdownWatcher ==
  /\ watcher = "running"
  /\ watcher' = "exit_ok" /\ observing' = FALSE /\ calling' = FALSE
  /\ view' = NoLeader /\ shown' = NoLeader
  /\ UNCHANGED processVars

-----------------------------------------------------------------------------
Main(p) ==
  \/ NewLeaderElection(p) \/ campaign(p) \/ InstallHandlers(p) \/ WaitForResult(p)
  \/ WaitForInterrupt(p) \/ resign(p) \/ revoke(p) \/ Exit(p)

Observe ==
  Startup \/ Follow \/ Notify \/ Disconnect \/ ShutdownWatcher

Next ==
  \/ \E p \in Processes : Main(p) \/ signal_handler(p) \/ LeaseExpires(p) \/ Win(p) \/ Abort(p)
  \/ Observe

\* The programs run, candidates follow up deletions, observers follow the nodes, and a
\* lease that nobody renews expires.  Nobody has to send a signal, and only the leases of
\* processes that have ended are sure to expire.
Fairness ==
  /\ \A p \in Processes :
       /\ WF_vars(Main(p)) /\ WF_vars(Win(p))
       /\ WF_vars(pc[p] \in Ended /\ LeaseExpires(p))
  /\ WF_vars(Follow) /\ WF_vars(Notify)

Spec == Init /\ [][Next]_vars /\ Fairness

-----------------------------------------------------------------------------
(* Properties.                                                             *)

Leaders == {p \in Processes : elected[p] /\ node[p] # 0}

Promise == INSTANCE Election WITH
  Participants <- Processes, Tickets <- 1..Cardinality(Processes),
  ticket <- node, leaders <- Leaders

\* The programs hold an election: processes that are killed, that fail half way through
\* leader_election::resign(), or that lose their lease without noticing it, never lead
\* besides another process or ahead of one that came before them.
ImplementsElection == Promise!Spec

\* A process that has ended, in whichever way, does not stand in line for ever: what
\* main() did not release expires with the lease.
NoneLeftBehind == \A p \in Processes : pc[p] \in Ended ~> node[p] = 0

\* A signal that the handler got ends the program, whether it waits for the election or
\* leads, and whatever resign() and revoke() throw; unless a canceled search has left an
\* operation in the counter for which the candidate's destructor waits.
InterruptEnds ==
  \A p \in Processes : interrupt[p] ~> pc[p] \in Ended \/ broken[p] = "leak"

\* When every process before p has left, p hears that it has won, unless its campaign
\* fails or it is told to stop.
Succession ==
  \A p \in Processes :
    pc[p] = "waiting" /\ NoneOlder(p)
      ~> pc[p] # "waiting" \/ broken[p] # "no" \/ interrupt[p]

\* The observer and the candidates come to agree: when processes stop coming and going, the
\* subscriber of observe_election was told last of the first in line, who is the process
\* that leads if one does, or that nobody is.  main() registers it before startup(), so
\* that the calls, which lag behind the map, reach it in their order.
LeaderIsShown ==
  <>[](watcher = "running" /\ observing => shown = CurrentLeader /\ Leaders \subseteq {shown})
=============================================================================
