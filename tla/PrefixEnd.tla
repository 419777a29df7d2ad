----------------------------- MODULE PrefixEnd -----------------------------
(***************************************************************************)
(* gh::prefix_end(): the end of the range of the keys that start with a    *)
(* prefix.  A string is a sequence of bytes 0..MaxByte; etcd orders keys   *)
(* lexicographically and a range does not contain its end.                 *)
(***************************************************************************)
EXTENDS Integers, Sequences, SequencesExt

CONSTANTS
  MaxByte,   \* 0xFF
  MaxLen     \* bound: the longest key

ASSUME PrefixAssumption == MaxByte \in Nat \ {0} /\ MaxLen \in Nat

\* The last byte that is not MaxByte, 0 when there is none.
LastToCarry(s) ==
  CHOOSE k \in 0..Len(s) : /\ \A i \in (k + 1)..Len(s) : s[i] = MaxByte
                           /\ k > 0 => s[k] # MaxByte

\* Mutant: the byte that takes the carry stays as it is.
prefix_end_without_carry(prefix) ==
  LET k == LastToCarry(prefix)
      range_end == [i \in 1..Len(prefix) |-> IF i > k THEN 0 ELSE prefix[i]]
  IN  IF k = 0 THEN Append(range_end, 1) ELSE range_end

\* The bytes after it become 0 and it is incremented; without such a byte a 1 is appended.
prefix_end(prefix) ==
  LET k == LastToCarry(prefix)
      range_end == [i \in 1..Len(prefix) |->
                      IF i > k THEN 0 ELSE IF i = k THEN prefix[i] + 1 ELSE prefix[i]]
  IN  IF k = 0 THEN Append(range_end, 1) ELSE range_end

\* The order of the keys in etcd.
Below(s, t) ==
  \/ IsStrictPrefix(s, t)
  \/ \E i \in 1..Len(s) : /\ i <= Len(t) /\ s[i] < t[i]
                          /\ \A j \in 1..(i - 1) : s[j] = t[j]

\* The keys that are not longer than the bound.
Keys == UNION {[1..n -> 0..MaxByte] : n \in 0..MaxLen}

InRange(key, prefix) == ~Below(key, prefix) /\ Below(key, prefix_end(prefix))

EndsWithMaxByte(prefix) == prefix # << >> /\ prefix[Len(prefix)] = MaxByte

\* The range has every key that starts with the prefix, if the prefix has a byte that is
\* not 0xFF, and no other key, if the last byte is not 0xFF: the prefix of an election ends
\* with a slash.
PrefixRange(prefix) ==
  /\ LastToCarry(prefix) # 0 =>
       \A key \in Keys : IsPrefix(prefix, key) => InRange(key, prefix)
  /\ prefix # << >> /\ ~EndsWithMaxByte(prefix) =>
       \A key \in Keys : InRange(key, prefix) => IsPrefix(prefix, key)
=============================================================================
