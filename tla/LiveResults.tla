----------------------------- MODULE LiveResults -----------------------------
(***************************************************************************)
(* The rows of a Realm Results collection and of the table view that shows  *)
(* it.  A Results holds no objects: `count` and the subscript re-evaluate   *)
(* the query against the current version, so its rows are a function of the *)
(* set of matching objects.  An object is its ObjKey; keys are handed out   *)
(* in increasing order, and a Results without a sort lists objects in key   *)
(* order (results.cpp, Mode::Table), a sorted one by the sorted property    *)
(* and, among equals, in the order of the list it was made from.  Row       *)
(* numbers start at 0, as IndexPath.row does.                               *)
(***************************************************************************)
EXTENDS Integers, FiniteSets

(* y is listed before x when objects are sorted by the property `key`.      *)
Precedes(key, y, x) == \/ key[y] < key[x]
                       \/ key[y] = key[x] /\ y < x

(* The row at which a Results over the set S lists the object x.            *)
Rank(key, S, x) == Cardinality({y \in S : Precedes(key, y, x)})

(* Results.count is the length of this function, results[r] its value at r. *)
Rows(key, S) ==
  [r \in 0 .. Cardinality(S) - 1 |-> CHOOSE x \in S : Rank(key, S, x) = r]

(* numberOfRowsInSection of a table whose cells are the function f.         *)
Count(f) == Cardinality(DOMAIN f)

(* UITableView.deleteRows(at: [r]): the cells below row r move up by one.   *)
Without(f, r) ==
  [i \in 0 .. Count(f) - 2 |-> IF i < r THEN f[i] ELSE f[i + 1]]
==============================================================================
