---------------------------- MODULE RpcPolicies ----------------------------
(***************************************************************************)
(* The policies that pace and limit the attempts of an RPC: a policy is a  *)
(* record of its members, on_failure() an operator for its answer and one  *)
(* for the new state.  Times are numbers of ticks.                         *)
(***************************************************************************)
EXTENDS Integers

\* exponential_backoff: the delay doubles after every failure, up to a maximum.
ExponentialBackoff(min, max) ==
  [min_delay_ |-> min, max_delay_ |-> max, current_delay_ |-> min]

\* validate_arguments() throws otherwise.
ValidBackoff(b) == b.min_delay_ <= b.max_delay_

BackoffDelay(b) == b.current_delay_

BackoffOnFailure(b) ==
  [b EXCEPT !.current_delay_ = IF 2 * @ > b.max_delay_ THEN b.max_delay_ ELSE 2 * @]

\* The copy goes on from the delay that the original has reached.
CloneBackoff(b) == b

\* limited_errors: a number of failures is tolerated.
LimitedErrors(n) == [maximum_count_ |-> n, current_count_ |-> 0]

ValidErrors(e) == e.maximum_count_ > 0

\* Mutant: the answer is yes once too often.
ErrorsTryOnceMore(e) == e.current_count_ <= e.maximum_count_

ErrorsTryAgain(e) == e.current_count_ < e.maximum_count_

ErrorsOnFailure(e) == [e EXCEPT !.current_count_ = @ + 1]

\* The copy has the failures of the original.
CloneErrors(e) == e

\* limited_time: failures are tolerated until the deadline.
LimitedTime(d, now) == [duration_ |-> d, deadline_ |-> now + d]

TimeTryAgain(t, now) == now < t.deadline_

\* A clone is made from the duration: its deadline starts over.
CloneTime(t, now) == LimitedTime(t.duration_, now)
=============================================================================
