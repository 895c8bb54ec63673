---------------------------- MODULE MCTimerList ----------------------------
(* Three timers, a clock of four ticks to the second.                        *)
EXTENDS TimerOrder
=============================================================================
