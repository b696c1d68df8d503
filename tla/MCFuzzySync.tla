---------------------------- MODULE MCFuzzySync -----------------------------
(* The fuzzy-sync pair with counters that fold back after a few barriers,  *)
(* so that every run takes the INT_MAX branch several times, in each of    *)
(* run, start_race and end_race.                                           *)
EXTENDS FuzzySync

=============================================================================
