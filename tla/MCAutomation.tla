---------------------------- MODULE MCAutomation ----------------------------
(* Automation for TLC: one automation for every minute in UTC, and one for a  *)
(* minute that the wall clock of its zone reads twice, the hour between the   *)
(* first and the last minute being the one that is repeated.                  *)
EXTENDS Automation, TLC

CONSTANTS p1, p2, l1, l2

MCWall == 1 :> <<"first", "last">> @@ 2 :> <<"first", "first">>
MCSchedule == 1 :> WallMinutes @@ 2 :> {"first"}

=============================================================================
