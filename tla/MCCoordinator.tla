---------------------------- MODULE MCCoordinator ----------------------------
(***************************************************************************)
(* Coordinator with notifiers of one Realm, for TLC.                        *)
(***************************************************************************)
EXTENDS Coordinator, TLC

CONSTANTS r1, n1
OneOwner == [n \in Notifiers |-> r1]
==============================================================================
