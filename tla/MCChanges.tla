------------------------------- MODULE MCChanges -------------------------------
(***************************************************************************)
(* ChangeBuilder and RangeVector, for TLC.  They share nothing; part says   *)
(* which runs.                                                              *)
(***************************************************************************)
EXTENDS ChangeBuilder

VARIABLES part, v, set, copied, right

rangeVars == <<v, set, copied, right>>

(* Chunks of two ranges, so that seven positions make up to two full        *)
(* chunks, and every operation splits, fills and empties chunks.            *)
Ranges == INSTANCE RangeVector WITH MaxIndex <- 6, MaxOther <- 2

ASSUME Ranges!RangesAssumption

(* The model of count that ChangeBuilder goes by is what RangeVector does   *)
(* with positions added in order.                                           *)
ASSUME \A S \in SUBSET (0 .. 6), to \in 0 .. 7 : \A from \in 0 .. to :
         countFrom(S, from, to) = Ranges!count(Ranges!Made(S), from, to)
-------------------------------------------------------------------------------
(* Of the part that does not run one initial state is enough.               *)
PartsInit ==
  /\ part \in {"changes", "ranges"} /\ Init /\ Ranges!Init
  /\ part = "ranges" => kind = "list" /\ keys = 0

ChangesRun == part = "changes" /\ UNCHANGED <<part, rangeVars>>
RangesRun == part = "ranges" /\ UNCHANGED <<part, vars>>

PartsNext ==
  \/ ChangesRun /\ Next
  \/ RangesRun /\ Ranges!Next

PartsSpec == PartsInit /\ [][PartsNext]_<<part, vars, rangeVars>>
-------------------------------------------------------------------------------
(* RangeVector: the chunks hold the positions of the set, whatever was done *)
(* to them.                                                                 *)
StandsForTheSet == Ranges!StandsForTheSet

(* RangeVector: what the operations return is what they return of the set,  *)
(* and a chunk knows how many positions it holds.                           *)
AnswersAreRight == Ranges!AnswersAreRight
================================================================================
