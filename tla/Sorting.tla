------------------------------ MODULE Sorting ------------------------------
(* Sets in the order that .sort puts them in; before is the set of pairs of  *)
(* which the first comes first.  Of elements that compare as equal either    *)
(* one may come first.                                                       *)
EXTENDS Integers, Sequences, FiniteSets, SequencesExt

First(S, before) == CHOOSE x \in S : \A y \in S : <<y, x>> \notin before

Sorted(S, before) ==
  LET line[n \in 0..Cardinality(S)] ==
        IF n = 0 THEN <<>> ELSE Append(line[n - 1], First(S \ ToSet(line[n - 1]), before))
  IN line[Cardinality(S)]
=============================================================================
