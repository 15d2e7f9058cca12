------------------------------ MODULE MCTodoey ------------------------------
(* Todoey with four objects, two names and two search texts, one of which   *)
(* matches both names.                                                      *)
EXTENDS Todoey

MCNames == {1, 2}
MCTexts == {"a", "b"}
MCContains == [t \in MCTexts |-> IF t = "a" THEN {1, 2} ELSE {2}]
==============================================================================
