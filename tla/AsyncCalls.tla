----------------------------- MODULE AsyncCalls -----------------------------
(***************************************************************************)
(* What a completion queue promises to the code that starts asynchronous   *)
(* operations with it, and what the modules of the candidate, the session  *)
(* and the observer take from it: the callback of an operation is called   *)
(* once, after the operation has ended and with the result that it ended   *)
(* with; or never, if the queue goes first, and then the future that       *)
(* somebody may wait for is broken.  A call can be made anew once its      *)
(* callback was called.                                                    *)
(***************************************************************************)
CONSTANT Calls

VARIABLES
  call,     \* call[c]: how far c is
  result,   \* result[c]: how c ended, if it did and its callback was not called yet
  future,   \* future[c]: the future of c, if it has one
  queue     \* "open"; "closed", when no call can be made any more; or "gone"

vars == <<call, result, future, queue>>

\* How an operation can end, and what its future may become then: errors are exceptions
\* for some operations and values for others.
Results == {"ok", "error", "cancelled"}

Settles(r) ==
  CASE r = "ok" -> {"value"} [] r = "cancelled" -> {"exception"} [] OTHER -> {"value", "exception"}

Init ==
  /\ call = [c \in Calls |-> "idle"]
  /\ result = [c \in Calls |-> "none"]
  /\ future = [c \in Calls |-> "none"]
  /\ queue = "open"

Start(c) ==
  /\ queue = "open" /\ call[c] = "idle"
  /\ call' = [call EXCEPT ![c] = "started"]
  /\ \E f \in {"none", "waiting"} : future' = [future EXCEPT ![c] = f]
  /\ UNCHANGED <<result, queue>>

End(c) ==
  /\ call[c] = "started"
  /\ call' = [call EXCEPT ![c] = "ended"]
  /\ \E r \in Results : result' = [result EXCEPT ![c] = r]
  /\ UNCHANGED <<future, queue>>

\* The callback is called.
CallBack(c) ==
  /\ queue # "gone" /\ call[c] = "ended"
  /\ call' = [call EXCEPT ![c] = "idle"]
  /\ result' = [result EXCEPT ![c] = "none"]
  /\ \E v \in Settles(result[c]) :
       future' = [future EXCEPT ![c] = IF @ = "waiting" THEN v ELSE @]
  /\ UNCHANGED queue

Close ==
  /\ queue = "open" /\ queue' = "closed"
  /\ UNCHANGED <<call, result, future>>

\* The queue goes, and takes the calls with it whose callbacks were not called.
Go ==
  /\ queue = "closed" /\ queue' = "gone"
  /\ call' = [c \in Calls |-> IF call[c] = "idle" THEN "idle" ELSE "dropped"]
  /\ future' = [c \in Calls |-> IF future[c] = "waiting" THEN "broken" ELSE future[c]]
  /\ UNCHANGED result

Next ==
  \/ \E c \in Calls : Start(c) \/ End(c) \/ CallBack(c)
  \/ Close \/ Go

Spec == Init /\ [][Next]_vars

-----------------------------------------------------------------------------
(* Properties.                                                             *)

\* A future is kept waiting only by a call whose callback is still to come.
WaitsForCallback ==
  \A c \in Calls : future[c] = "waiting" => call[c] \in {"started", "ended"}
=============================================================================
