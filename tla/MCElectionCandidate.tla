------------------------ MODULE MCElectionCandidate ------------------------
(***************************************************************************)
(* Model-checking instances of ElectionCandidate.                          *)
(***************************************************************************)
EXTENDS ElectionCandidate

\* All candidates begin with the same value.  No step compares the values of two
\* candidates, so that the names of one candidate's values do not matter.
MCInit == Init /\ candidate_value_ = [c \in Candidates |-> CHOOSE v \in Values : TRUE]

MCSpec == MCInit /\ [][Next]_vars /\ Fairness
=============================================================================
