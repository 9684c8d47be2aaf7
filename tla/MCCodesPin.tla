----------------------------- MODULE MCCodesPin -----------------------------
(***************************************************************************)
(* Instances of CodesPin for TLC.                                          *)
(***************************************************************************)
EXTENDS CodesPinRegistre, TLC

\* Companies and PINs are only compared with one another.
Symetrie == Permutations(Societes) \cup Permutations(Pins)

Heure(a, w, t) == [annee |-> a, semaine |-> w, taches |-> t]

\* Year 7 ends in its week 2; January 1st of year 8 is a Monday.
UnNouvelAn ==
  << Heure(7, 2, {}),
     Heure(8, 1, {}), Heure(8, 1, {"annuel"}), Heure(8, 1, {"hebdo"}) >>

\* January 1st of year 7 is in the last week of the year before, beyond the
\* loop's last. Two yearly tasks: a company of year 6 is renewed in year 8 when
\* the process was stopped at the hour of the first, which purges its rows
\* otherwise.
DeuxAnnees ==
  << Heure(6, 2, {}),
     Heure(7, 3, {}), Heure(7, 3, {"annuel"}),
     Heure(8, 1, {}), Heure(8, 1, {"annuel"}) >>

\* The end of a week, then a Monday.
UnLundi == << Heure(7, 1, {}), Heure(7, 2, {}), Heure(7, 2, {"hebdo"}) >>

\* A week, the next one with its Monday task, and the last Monday of the year,
\* whose week has number 1 again: it is the first week of the year to come.
FinAnnee ==
  << Heure(7, 1, {}), Heure(7, 2, {}), Heure(7, 2, {"hebdo"}), Heure(7, 1, {}) >>

\* One day, no task.
UnJour == << Heure(7, 1, {}) >>

=============================================================================
