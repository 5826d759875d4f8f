----------------------------- MODULE MCSendCap -----------------------------
(***************************************************************************)
(* Instance of SendCap for TLC: weeks of one day, a two-week table, two    *)
(* ticks a day so that a verification can fall between two midnights.      *)
(***************************************************************************)
EXTENDS SendCap

MCWeeklyTargets == <<1, 2>>
=============================================================================
