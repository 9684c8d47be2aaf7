---------------------------- MODULE MCSemaineIso ----------------------------
(***************************************************************************)
(* Instances of SemaineIso for TLC: the first weeks, one in the middle and *)
(* the last ones.  From 2020 to 2032 the clock meets January 1st on every  *)
(* weekday, leap years, and the years of 53 weeks 2020, 2026 and 2032.     *)
(***************************************************************************)
EXTENDS SemaineIso

Extremes == {1, 2, 26, 51, 52}

=============================================================================
