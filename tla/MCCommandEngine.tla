--------------------------- MODULE MCCommandEngine ---------------------------
(***************************************************************************)
(* Instances of CommandEngine for TLC.  One tick takes a command past      *)
(* every short limit (90, 120 and 180 s), a second one past 900 s:         *)
(* LockAge = RecentAge = 1, TimeoutAge = 0, ExpireAge = 1.  An instance is *)
(* chosen by Requests, the things its operators ask for.                   *)
(***************************************************************************)
EXTENDS CommandEngineClaims
===============================================================================
