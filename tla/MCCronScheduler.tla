--------------------------- MODULE MCCronScheduler ---------------------------
(* Two jobs: a is recurring and woken early; b is a one-shot, woken at its  *)
(* time, or so early that its wake meets that of a.                        *)
EXTENDS CronScheduler, TLC

CONSTANTS a, b

MCSchedule == (a :> {2, 4}) @@ (b :> {3})
MCShort == (a :> {1, 3, 4}) @@ (b :> {1})
MCOffset == (a :> 2) @@ (b :> 0)
MCWide == (a :> 1) @@ (b :> 2)
=============================================================================
