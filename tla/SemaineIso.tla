----------------------------- MODULE SemaineIso -----------------------------
(***************************************************************************)
(* Which row of CodesPIN is in force on a day, and which dates the program *)
(* shows beside a row.                                                     *)
(*                                                                         *)
(* The rows are keyed by (Semaine, Annee).  The server finds the row of    *)
(* today with moment().isoWeek() and new Date().getFullYear()              *)
(* (DashNov_Server.js 868-870 and 879), and shows beside each row of       *)
(* /societes and /telechargerTableau the range from                        *)
(*    moment().year(Annee).isoWeek(Semaine).startOf('isoWeek')  to         *)
(*    moment().year(Annee).isoWeek(Semaine).endOf('isoWeek')               *)
(* Both read the clock anew.  The algorithms are those of moment 2.30.1    *)
(* (src/node_modules/moment/moment.js) with dow = 1 and doy = 4.           *)
(*                                                                         *)
(* A date is a year and a day of that year; day number 1 is January 1st of *)
(* year 1, a Monday.  A displayed DD/MM/YYYY is its day number.            *)
(***************************************************************************)
EXTENDS Integers

CONSTANTS PremiereAnnee, DerniereAnnee, \* the years the clock runs through
          SemainesAffichees             \* the weeks of the rows displayed

ASSUME AnneesAssumption ==
  /\ PremiereAnnee \in Nat \ {0, 1} /\ DerniereAnnee \in Nat
  /\ PremiereAnnee <= DerniereAnnee
  /\ SemainesAffichees \subseteq 1 .. 52

VARIABLES
  annee, quantieme,  \* today
  etape,             \* of a request: "repos", "debutLu", "affiche"
  ligne,             \* the row displayed: [semaine, annee]
  lundi, dimanche,   \* its range, as day numbers
  luLe               \* the day number at which the range's start was read

vars == <<annee, quantieme, etape, ligne, lundi, dimanche, luLe>>
-----------------------------------------------------------------------------
isLeapYear(y) == (y % 4 = 0 /\ y % 100 # 0) \/ y % 400 = 0

daysInYear(y) == IF isLeapYear(y) THEN 366 ELSE 365

\* The calendar of Date: the number of the q-th day of year y ...
Numero(y, q) ==
  365 * (y - 1) + (y - 1) \div 4 - (y - 1) \div 100 + (y - 1) \div 400 + q

\* ... and its weekday, 0 for Sunday.
getDay(n) == n % 7

isoWeekday(n) == IF getDay(n) = 0 THEN 7 ELSE getDay(n)

\* Mutant: week() for isoWeek(), the default locale's dow = 0 and doy = 6.
MutfirstWeekOffset(y) ==
  LET fwd   == 7 + 0 - 6
      fwdlw == (7 + getDay(Numero(y, fwd)) - 0) % 7
  IN  fwd - fwdlw - 1

firstWeekOffset(y) ==
  LET fwd   == 7 + 1 - 4
      fwdlw == (7 + getDay(Numero(y, fwd)) - 1) % 7
  IN  fwd - fwdlw - 1

weeksInYear(y) ==
  (daysInYear(y) - firstWeekOffset(y) + firstWeekOffset(y + 1)) \div 7

\* Mutant: the days before week 1 stay in a week 0.
MutisoWeek(y, q) ==
  LET week == (q - firstWeekOffset(y) - 1) \div 7 + 1
  IN  IF week > weeksInYear(y) THEN week - weeksInYear(y) ELSE week

\* moment.isoWeek(), weekOfYear in the library
isoWeek(y, q) ==
  LET week == (q - firstWeekOffset(y) - 1) \div 7 + 1
  IN  IF week < 1 THEN week + weeksInYear(y - 1)
      ELSE IF week > weeksInYear(y) THEN week - weeksInYear(y)
      ELSE week

\* moment.year(vers): the same month and day, February 29th giving the 28th.
year(y, q, vers) ==
  IF isLeapYear(y) /\ ~ isLeapYear(vers) /\ q >= 60 THEN q - 1
  ELSE IF ~ isLeapYear(y) /\ isLeapYear(vers) /\ q >= 60 THEN q + 1
  ELSE q

\* Mutant: the week of today for the week of today's date in that year.
MutJourAffiche(r) ==
  Numero(r.annee, year(annee, quantieme, r.annee))
    + 7 * (r.semaine - isoWeek(annee, quantieme))

\* moment().year(Annee).isoWeek(Semaine)
JourAffiche(r) ==
  LET q == year(annee, quantieme, r.annee)
  IN  Numero(r.annee, q) + 7 * (r.semaine - isoWeek(r.annee, q))

startOf(n) == n - (isoWeekday(n) - 1)

endOf(n) == n - (isoWeekday(n) - 1) + 7 - 1

Aujourdhui == Numero(annee, quantieme)

\* Mutant: the year of the ISO week for getFullYear().
MutCleActuelle ==
  LET w == isoWeek(annee, quantieme)
  IN  [semaine |-> w,
       annee |-> IF w = 1 /\ quantieme > 300 THEN annee + 1
                 ELSE IF w > 51 /\ quantieme < 7 THEN annee - 1 ELSE annee]

\* The key of the row in force: obtenirSemaineActuelle() and getFullYear().
CleActuelle == [semaine |-> isoWeek(annee, quantieme), annee |-> annee]

\* Last year's rows are there until the yearly task, and longer if it fails.
LignesAffichees == [semaine : SemainesAffichees, annee : annee - 1 .. annee]

-----------------------------------------------------------------------------
Init ==
  /\ annee = PremiereAnnee /\ quantieme = 1
  /\ etape = "repos" /\ ligne = CleActuelle
  /\ lundi = 0 /\ dimanche = 0 /\ luLe = 0

\* startDate, for a row of the recordset
LitDebut ==
  /\ etape = "repos"
  /\ \E r \in LignesAffichees \cup {CleActuelle} :
       ligne' = r /\ lundi' = startOf(JourAffiche(r))
  /\ luLe' = Aujourdhui
  /\ etape' = "debutLu"
  /\ UNCHANGED <<annee, quantieme, dimanche>>

\* endDate, from a second reading of the clock
LitFin ==
  /\ etape = "debutLu"
  /\ dimanche' = endOf(JourAffiche(ligne))
  /\ etape' = "affiche"
  /\ UNCHANGED <<annee, quantieme, ligne, lundi, luLe>>

Repond ==
  /\ etape = "affiche"
  /\ etape' = "repos"
  /\ lundi' = 0 /\ dimanche' = 0 /\ luLe' = 0 /\ ligne' = CleActuelle
  /\ UNCHANGED <<annee, quantieme>>

\* Midnight.  The two readings are in one callback: one midnight at most lies
\* between them, and the range shown is judged on the day it was read.
Minuit ==
  /\ \/ etape = "repos"
     \/ etape = "debutLu" /\ luLe = Aujourdhui
  /\ IF quantieme < daysInYear(annee)
     THEN quantieme' = quantieme + 1 /\ UNCHANGED annee
     ELSE quantieme' = 1 /\ annee' = annee + 1 /\ annee < DerniereAnnee
  /\ UNCHANGED <<etape, lundi, dimanche, luLe>>
  /\ IF etape = "repos" THEN ligne' = CleActuelle' ELSE UNCHANGED ligne

Next == LitDebut \/ LitFin \/ Repond \/ Minuit

Spec == Init /\ [][Next]_vars

-----------------------------------------------------------------------------
(***************************************************************************)
(* ISO 8601, stated independently: weeks begin on Monday and belong to the *)
(* year of their Thursday, whose first one is in week 1.                   *)
(***************************************************************************)
Jeudi(n) == startOf(n) + 3

AnneeIso(n) ==
  CHOOSE y \in annee - 2 .. annee + 2 :
    Numero(y, 1) <= Jeudi(n) /\ Jeudi(n) < Numero(y + 1, 1)

SemaineIso8601(n) == (Jeudi(n) - Numero(AnneeIso(n), 1)) \div 7 + 1

\* The Monday of week w of the ISO year y: that of January 4th for week 1.
LundiIso(w, y) == startOf(Numero(y, 4)) + 7 * (w - 1)

\* Type correctness.
TypeOK ==
  /\ annee \in PremiereAnnee .. DerniereAnnee
  /\ quantieme \in 1 .. daysInYear(annee)
  /\ etape \in {"repos", "debutLu", "affiche"}
  /\ ligne \in [semaine : 1 .. 53, annee : Nat]
  /\ lundi \in Nat /\ dimanche \in Nat /\ luLe \in Nat

\* The week number that keys the rows, the cron task and /obtenirCodePin is
\* the ISO 8601 week on every day, the days around New Year and the years of
\* 53 weeks included.
SemaineConforme ==
  isoWeek(annee, quantieme) = SemaineIso8601(Aujourdhui)

\* The range shown beside the row in force holds the day it is read on.
PlageDuJour ==
  etape = "affiche" /\ luLe = Aujourdhui /\ ligne = CleActuelle =>
    lundi <= Aujourdhui /\ Aujourdhui <= dimanche

\* A range read on one day is a Monday and the Sunday of the same week, and is
\* the ISO week Semaine of Annee on the very days that, carried into Annee, are
\* days of the ISO year Annee: on the others, around January 1st, it is not.
PlageSure ==
  etape = "affiche" /\ luLe = Aujourdhui =>
    /\ isoWeekday(lundi) = 1 /\ dimanche = lundi + 6
    /\ LET q == year(annee, quantieme, ligne.annee)
       IN  AnneeIso(Numero(ligne.annee, q)) = ligne.annee
             <=> lundi = LundiIso(ligne.semaine, ligne.annee)

\* The row in force changes at no other time than on a Monday, when the weekly
\* task runs, or on January 1st, when the yearly one does: no company's PIN
\* expires between two runs of the tasks.
CleStable ==
  [][CleActuelle' # CleActuelle =>
       isoWeekday(Aujourdhui') = 1 \/ quantieme' = 1]_vars

\* `Calculer la plage de dates`, `l'affichage des dates lundi-dimanche`: the
\* dates shown beside a row are those of the week Semaine of the year Annee.
PlageExacte ==
  etape = "affiche" =>
    /\ lundi = LundiIso(ligne.semaine, ligne.annee)
    /\ dimanche = lundi + 6

=============================================================================
