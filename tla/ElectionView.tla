---------------------------- MODULE ElectionView ----------------------------
(***************************************************************************)
(* What an observer of an election promises to whoever asks it for the     *)
(* leader.  The election has a history: who took part in it, revision by   *)
(* revision.  The observer starts with somebody who led at some time, and  *)
(* then follows the history from some revision on: it counts among the     *)
(* participants only those there were at the revision it has reached; it   *)
(* knows all of them at the latest when it reaches the end of the history; *)
(* and once it does it misses none of them again, however many revisions   *)
(* it takes at a time.  Nothing is promised after a failure.               *)
(***************************************************************************)
EXTENDS Naturals, Sequences

VARIABLES
  history,   \* history[r]: the participants at revision r, with their place in line
  position,  \* the revision that the observer has reached, 0 before it follows
  view,      \* the participants that the observer knows
  failed     \* did anything fail?

vars == <<history, position, view, failed>>

Leads(n, participants) == \A m \in participants : n.create <= m.create

InStep == position # 0 /\ view = history[position]

Init == history = <<{}>> /\ position = 0 /\ view = {} /\ failed = FALSE

\* Somebody enters or leaves the election, or publishes a value.
Change ==
  /\ Len(history') = Len(history) + 1
  /\ \A r \in 1..Len(history) : history'[r] = history[r]
  /\ UNCHANGED <<position, view, failed>>

\* The search finds somebody who led when it took place, maybe long ago.
Search ==
  /\ position = 0 /\ view = {}
  /\ \E r \in 1..Len(history) : \E n \in history[r] : Leads(n, history[r]) /\ view' = {n}
  /\ UNCHANGED <<history, position, failed>>

\* The observer starts to follow.  It starts at the end only if there is nobody there.
Start ==
  /\ position = 0 /\ position' \in 1..Len(history)
  /\ position' = Len(history) => InStep'
  /\ UNCHANGED <<history, view, failed>>

\* It follows the history, one or more revisions at a time.
Follow ==
  /\ position # 0 /\ position' \in (position + 1)..Len(history)
  /\ view' \subseteq history[position']
  /\ InStep \/ position' = Len(history) => InStep'
  /\ UNCHANGED <<history, failed>>

Next == Change \/ Search \/ Start \/ Follow \/ failed'

Spec == Init /\ [][Next]_vars

-----------------------------------------------------------------------------
(* Properties.                                                             *)

\* An observer at the end of the history knows the participants, and so the leader.
KnowsTheEnd == ~failed /\ position = Len(history) => InStep

\* Why: it never leaves the history.
InHistory ==
  /\ Len(history) \in Nat \ {0} /\ position \in 0..Len(history)
  /\ position = Len(history) => InStep

Followed == ~failed => InHistory

\* Once in step it stays in step, whatever happens in the election.
StaysInStep == [][InStep /\ ~failed' => InStep']_vars
=============================================================================
