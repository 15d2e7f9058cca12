------------------------------ MODULE IndexSets -------------------------------
(***************************************************************************)
(* What the operations of the object store's IndexSet do to a set of        *)
(* positions.  The forms that take a position and a count are the ones for  *)
(* sets at the positions p .. p + count - 1.                                *)
(***************************************************************************)
EXTENDS Integers, FiniteSets

(* Those before position to: count(0, to), which adds up whole chunks.      *)
count(S, to) == Cardinality({i \in S : i < to})

(* Where position i comes to be when the positions of S are inserted: the   *)
(* one with i others outside S before it.                                   *)
shift(S, i) == CHOOSE j \in i .. i + Cardinality(S) : j \notin S /\ j - count(S, j) = i

(* Where position i, not in S, comes to be when the positions of S go.      *)
unshift(S, i) == i - count(S, i)

add_shifted(S, i) == S \cup {shift(S, i)}

(* The values are positions after S was deleted and shifted_by inserted.    *)
add_shifted_by(S, shifted_by, values) ==
  S \cup {shift(S, unshift(shifted_by, i)) : i \in values \ shifted_by}

shift_for_insert_at(S, P) == {shift(P, i) : i \in S}
insert_at(S, P) == P \cup shift_for_insert_at(S, P)
erase_at(S, P) == {unshift(P, i) : i \in S \ P}
===============================================================================
