----------------------------- MODULE MCSwipeTable -----------------------------
(* A screen of two rows with more items than rows: each row that comes on  *)
(* screen takes the cell of one that goes, and each cell has a finger.      *)
EXTENDS SwipeTable
===============================================================================
