------------------------- MODULE PendingOperations -------------------------
(***************************************************************************)
(* What an async_op_counter promises to the object that owns it, and what  *)
(* the modules of the candidate, the session and the observer take from    *)
(* it: operations are admitted until the counter is closed, and a thread   *)
(* that waits for them is let through when none is left, so that whoever   *)
(* was let through meets no operation any more.  The promise is void when  *)
(* an operation is reported done that was never admitted.                  *)
(***************************************************************************)
CONSTANTS Operations, Threads

VARIABLES
  inFlight,  \* the operations that were admitted and are not done
  closed,    \* no further operation is admitted
  through,   \* the threads that were let through
  void       \* was an operation reported done that was never admitted?

vars == <<inFlight, closed, through, void>>

Init == inFlight = {} /\ closed = FALSE /\ through = {} /\ void = FALSE

Admit(o) ==
  /\ ~closed /\ o \notin inFlight
  /\ inFlight' = inFlight \cup {o}
  /\ UNCHANGED <<closed, through, void>>

Done(o) ==
  /\ o \in inFlight
  /\ inFlight' = inFlight \ {o}
  /\ UNCHANGED <<closed, through, void>>

Close ==
  /\ closed' = TRUE
  /\ UNCHANGED <<inFlight, through, void>>

\* A thread that finds nothing to wait for closes the counter and goes on at once.
LetThrough(t) ==
  /\ inFlight = {}
  /\ through' = through \cup {t} /\ closed' = TRUE
  /\ UNCHANGED <<inFlight, void>>

Next ==
  \/ \E o \in Operations : Admit(o) \/ Done(o)
  \/ Close
  \/ \E t \in Threads : LetThrough(t)
  \/ void'

Spec == Init /\ [][Next]_vars

-----------------------------------------------------------------------------
(* Properties.                                                             *)

\* Whoever was let through meets no operation, then or later.
NoneAfterwards == ~void /\ through # {} => inFlight = {}
=============================================================================
