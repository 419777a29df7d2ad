-------------------------------- MODULE Log --------------------------------
(***************************************************************************)
(* gh::log, gh::logger and GH_LOG(): threads that log while the            *)
(* application adds sinks, clears them and changes the minimum severity.   *)
(*                                                                         *)
(* A GH_LOG() statement is a loop that constructs a logger, tests it,      *)
(* formats the message and passes it to log::write().  The mutex guards    *)
(* the minimum severity and the changes of sinks_; write() reads sinks_    *)
(* without it, several times, and its range-for keeps iterators.           *)
(***************************************************************************)
EXTENDS Integers, Sequences

CONSTANTS
  Loggers,      \* threads that log
  Sinks,        \* sinks that the application may add
  MaxSeverity,  \* the highest severity; the lowest is 0
  CompileMin,   \* GH_MIN_SEVERITY
  MaxSinks      \* bound: the sinks at one time

ASSUME LogAssumption ==
  MaxSeverity \in Nat /\ CompileMin \in 0..MaxSeverity /\ MaxSinks \in Nat

VARIABLES
  min_severity_,
  sinks_,
  logger,   \* logger[t]: where the statement of t is
  sev,      \* sev[t]: its severity
  msg,      \* msg[t]: does the logger of t still have the message?
  range,    \* range[t]: what is left of the range-for in write()
  got,      \* history: the sinks that the statement of t called, and if the message was there
  least,    \* history: the lowest minimum severity since t last had to compare with it
  seen,     \* history: the sinks when write() began
  raced     \* history: did sinks_ change during write()?

logVars == <<min_severity_, sinks_, logger, sev, msg, range, got, least, seen, raced>>

\* enum class severity
Severities == 0..MaxSeverity

\* Between the first and the last use of sinks_ in write().
Writing == {"not_empty", "accepted", "single", "loop"}

LogInit ==
  /\ min_severity_ = 0 /\ sinks_ = << >>
  /\ logger = [t \in Loggers |-> "idle"]
  /\ sev = [t \in Loggers |-> 0]
  /\ msg = [t \in Loggers |-> FALSE]
  /\ range = [t \in Loggers |-> << >>]
  /\ got = [t \in Loggers |-> << >>]
  /\ least = [t \in Loggers |-> 0]
  /\ seen = [t \in Loggers |-> << >>]
  /\ raced = [t \in Loggers |-> FALSE]

-----------------------------------------------------------------------------
(* The application.                                                        *)

\* A change of sinks_ under the feet of those that write.
SetSinks(s) ==
  /\ sinks_' = s
  /\ raced' = [t \in Loggers |-> raced[t] \/ logger[t] \in Writing]
  /\ UNCHANGED <<min_severity_, logger, sev, msg, range, got, least, seen>>

add_sink(s) == Len(sinks_) < MaxSinks /\ SetSinks(Append(sinks_, s))

clear_sinks == sinks_ # << >> /\ SetSinks(<< >>)

set_min_severity(s) ==
  /\ s # min_severity_ /\ min_severity_' = s
  /\ least' = [t \in Loggers |-> IF s < least[t] THEN s ELSE least[t]]
  /\ UNCHANGED <<sinks_, logger, sev, msg, range, got, seen, raced>>

-----------------------------------------------------------------------------
(* A GH_LOG() statement.                                                   *)

\* logger<true>: the statement is disabled at compile time.
level_compile_time_disabled(s) == s < CompileMin

Goes(t, here, there) == logger[t] = here /\ logger' = [logger EXCEPT ![t] = there]

\* logger<false>(): closed from the start if the severity is below the minimum.
NewLogger(t, s) ==
  /\ Goes(t, "idle", IF level_compile_time_disabled(s) \/ s < min_severity_
                     THEN "closed" ELSE "open")
  /\ sev' = [sev EXCEPT ![t] = s]
  /\ least' = [least EXCEPT ![t] = min_severity_]
  /\ got' = [got EXCEPT ![t] = << >>] /\ seen' = [seen EXCEPT ![t] = << >>]
  /\ raced' = [raced EXCEPT ![t] = FALSE]
  /\ UNCHANGED <<min_severity_, sinks_, msg, range>>

\* The loop of the statement ends: its logger is closed.
EndStatement(t) ==
  /\ Goes(t, "closed", "idle")
  /\ msg' = [msg EXCEPT ![t] = FALSE]
  /\ range' = [range EXCEPT ![t] = << >>]
  /\ UNCHANGED <<min_severity_, sinks_, sev, got, least, seen, raced>>

\* The expressions of the statement are evaluated into the logger's stream, and
\* write_to() passes the message on.
Format(t) ==
  /\ Goes(t, "open", "formatted")
  /\ msg' = [msg EXCEPT ![t] = TRUE]
  /\ least' = [least EXCEPT ![t] = min_severity_]
  /\ UNCHANGED <<min_severity_, sinks_, sev, range, got, seen, raced>>

\* write(): sinks_.empty() ...
TestEmpty(t) ==
  /\ Goes(t, "formatted", IF sinks_ = << >> THEN "closed" ELSE "not_empty")
  /\ seen' = [seen EXCEPT ![t] = sinks_]
  /\ UNCHANGED <<min_severity_, sinks_, sev, msg, range, got, least, raced>>

\* ... or sev < min_severity(): the minimum may have changed while t was formatting.
TestSeverity(t) ==
  /\ Goes(t, "not_empty", IF sev[t] < min_severity_ THEN "closed" ELSE "accepted")
  /\ UNCHANGED <<min_severity_, sinks_, sev, msg, range, got, least, seen, raced>>

\* sinks_.size() == 1, or the loop begins.
TestSize(t) ==
  /\ Goes(t, "accepted", IF Len(sinks_) = 1 THEN "single" ELSE "loop")
  /\ range' = [range EXCEPT ![t] = sinks_]
  /\ UNCHANGED <<min_severity_, sinks_, sev, msg, got, least, seen, raced>>

\* log_to_functor::log(): the sink s takes the message, or a copy of it.
Deliver(t, s) == got' = [got EXCEPT ![t] = Append(@, [sink |-> s, msg |-> msg[t]])]

\* The message is moved to the only sink, which is read again.
LogToOne(t) ==
  /\ Goes(t, "single", "closed")
  /\ sinks_ # << >> /\ Deliver(t, Head(sinks_))
  /\ msg' = [msg EXCEPT ![t] = FALSE]
  /\ UNCHANGED <<min_severity_, sinks_, sev, range, least, seen, raced>>

\* Mutant of LogToNext: the sinks get the message itself.
LogToNextMoving(t) ==
  /\ range[t] # << >> /\ Goes(t, "loop", "loop")
  /\ Deliver(t, Head(range[t]))
  /\ msg' = [msg EXCEPT ![t] = FALSE]
  /\ range' = [range EXCEPT ![t] = Tail(@)]
  /\ UNCHANGED <<min_severity_, sinks_, sev, least, seen, raced>>

\* Each sink in the loop gets a copy.
LogToNext(t) ==
  /\ range[t] # << >> /\ Goes(t, "loop", "loop")
  /\ Deliver(t, Head(range[t]))
  /\ range' = [range EXCEPT ![t] = Tail(@)]
  /\ UNCHANGED <<min_severity_, sinks_, sev, msg, least, seen, raced>>

\* The end of the loop.
LogLoopEnds(t) ==
  /\ range[t] = << >> /\ Goes(t, "loop", "closed")
  /\ UNCHANGED <<min_severity_, sinks_, sev, msg, range, got, least, seen, raced>>

\* Undefined: the only sink is gone, or the iterators lead into a vector that was cleared
\* or has moved.  The program may crash here; calling a sink that is no longer in
\* sinks_, as above, is the other thing that can happen.
Crash(t) ==
  /\ \/ logger[t] = "single" /\ sinks_ = << >>
     \/ logger[t] = "loop" /\ raced[t] /\ range[t] # << >>
  /\ logger' = [logger EXCEPT ![t] = "crashed"]
  /\ UNCHANGED <<min_severity_, sinks_, sev, msg, range, got, least, seen, raced>>

Statement(t) ==
  \/ \E s \in Severities : NewLogger(t, s)
  \/ EndStatement(t) \/ Format(t) \/ TestEmpty(t) \/ TestSeverity(t) \/ TestSize(t)
  \/ LogToOne(t) \/ LogToNext(t) \/ LogLoopEnds(t) \/ Crash(t)

LogNext ==
  /\ \A t \in Loggers : logger[t] # "crashed"
  /\ \/ \E s \in Sinks : add_sink(s)
     \/ clear_sinks
     \/ \E s \in Severities : set_min_severity(s)
     \/ \E t \in Loggers : Statement(t)

LogSpec == LogInit /\ [][LogNext]_logVars

-----------------------------------------------------------------------------
(* Properties.                                                             *)

LogTypeOK ==
  /\ min_severity_ \in Severities
  /\ sinks_ \in Seq(Sinks) /\ Len(sinks_) <= MaxSinks
  /\ logger \in [Loggers -> Writing \cup {"idle", "open", "closed", "formatted", "crashed"}]
  /\ sev \in [Loggers -> Severities] /\ least \in [Loggers -> Severities]
  /\ msg \in [Loggers -> BOOLEAN] /\ raced \in [Loggers -> BOOLEAN]
  /\ range \in [Loggers -> Seq(Sinks)] /\ seen \in [Loggers -> Seq(Sinks)]
  /\ got \in [Loggers -> Seq([sink : Sinks, msg : BOOLEAN])]

\* Unless sinks_ changes during its write(), a statement calls the sinks there are, in the
\* order in which they were added, and each gets the whole message.
EverySinkOnce ==
  \A t \in Loggers :
    ~raced[t] /\ logger[t] = "closed" /\ got[t] # << >> =>
      got[t] = [i \in 1..Len(seen[t]) |-> [sink |-> seen[t][i], msg |-> TRUE]]

\* A disabled statement does not even evaluate its expressions, and a minimum that is
\* raised while a thread formats its message, and stays raised, still stops the message.
BelowMinimumIsQuiet ==
  \A t \in Loggers :
    logger[t] \in {"open", "accepted", "single", "loop"} =>
      sev[t] >= least[t] /\ ~level_compile_time_disabled(sev[t])

\* What a statement delivers: all of it to all sinks, or nothing.
LogDelivers == EverySinkOnce /\ BelowMinimumIsQuiet
=============================================================================
