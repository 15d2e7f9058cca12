-------------------------------- MODULE MCSync --------------------------------
(***************************************************************************)
(* SyncSessions with one thread of the app and the event loop, for TLC.     *)
(***************************************************************************)
EXTENDS SyncSessions, TLC
===============================================================================
