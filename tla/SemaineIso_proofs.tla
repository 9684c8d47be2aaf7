-------------------------- MODULE SemaineIso_proofs ---------------------------
(***************************************************************************)
(* The week numbers and the ranges of dates, for every year the clock may  *)
(* run through.                                                            *)
(***************************************************************************)
EXTENDS SemaineIso, TLAPS

-----------------------------------------------------------------------------
(* Years *)

LEMMA Diviseurs ==
  \A y \in Int :
    /\ y \div 4 = (y - 1) \div 4 + (IF y % 4 = 0 THEN 1 ELSE 0)
    /\ y \div 100 = (y - 1) \div 100 + (IF y % 100 = 0 THEN 1 ELSE 0)
    /\ y \div 400 = (y - 1) \div 400 + (IF y % 400 = 0 THEN 1 ELSE 0)
    /\ y % 100 = 0 => y % 4 = 0
    /\ y % 400 = 0 => y % 100 = 0
<1>1. \A y \in Int : y \div 4 = (y - 1) \div 4 + (IF y % 4 = 0 THEN 1 ELSE 0)
  OBVIOUS
<1>2. \A y \in Int :
        y \div 100 = (y - 1) \div 100 + (IF y % 100 = 0 THEN 1 ELSE 0)
  OBVIOUS
<1>3. \A y \in Int :
        y \div 400 = (y - 1) \div 400 + (IF y % 400 = 0 THEN 1 ELSE 0)
  OBVIOUS
<1>4. \A y \in Int : (y % 100 = 0 => y % 4 = 0) /\ (y % 400 = 0 => y % 100 = 0)
  OBVIOUS
<1> QED
  BY <1>1, <1>2, <1>3, <1>4

\* A year begins when the days of the one before are over.
LEMMA AnneeSuivante ==
  \A y \in Int : Numero(y + 1, 1) = Numero(y, 1) + daysInYear(y)
BY Diviseurs DEF Numero, daysInYear, isLeapYear

LEMMA NumeroEntier ==
  \A y, q \in Int : /\ Numero(y, q) \in Int
                    /\ Numero(y, q) = Numero(y, 1) + q - 1
BY DEF Numero

LEMMA LongueurAnnee == \A y : daysInYear(y) \in {365, 366}
BY DEF daysInYear

LEMMA NumeroPositif == \A y \in Nat \ {0} : Numero(y, 1) >= 1
<1> SUFFICES ASSUME NEW y \in Nat \ {0} PROVE Numero(y, 1) >= 1
  OBVIOUS
<1>1. /\ (y - 1) \div 4 >= (y - 1) \div 100 /\ (y - 1) \div 400 >= 0
      /\ (y - 1) \div 4 \in Int /\ (y - 1) \div 100 \in Int
      /\ (y - 1) \div 400 \in Int
  OBVIOUS
<1> QED
  BY <1>1 DEF Numero

\* The same month and day in another year is a day of that year.
LEMMA JourTransporte ==
  \A y, vers \in Int : \A q \in 1 .. daysInYear(y) :
    year(y, q, vers) \in 1 .. daysInYear(vers)
BY DEF year, daysInYear

-----------------------------------------------------------------------------
(* Weeks *)

\* The Monday of a day, among the days whose number leaves 1.
LEMMA Lundi ==
  \A n \in Int :
    /\ startOf(n) \in Int /\ startOf(n) <= n /\ n <= startOf(n) + 6
    /\ startOf(n) % 7 = 1 /\ isoWeekday(startOf(n)) = 1
    /\ endOf(n) = startOf(n) + 6
    /\ isoWeekday(n) = 1 <=> n % 7 = 1
BY DEF startOf, endOf, isoWeekday, getDay

LEMMA LundiUnique ==
  \A n, m \in Int : m % 7 = 1 /\ m <= n /\ n <= m + 6 => startOf(n) = m
<1> SUFFICES ASSUME NEW n \in Int, NEW m \in Int, m % 7 = 1, m <= n, n <= m + 6
             PROVE  startOf(n) = m
  OBVIOUS
<1> DEFINE l == startOf(n)
<1>1. l \in Int /\ l % 7 = 1 /\ l <= n /\ n <= l + 6
  BY Lundi
<1> HIDE DEF l
<1>2. l = m
  BY <1>1
<1> QED
  BY <1>2 DEF l

\* The Monday of week 1, as firstWeekOffset() gives it.
Semaine1(y) == Numero(y, 1) + firstWeekOffset(y)

LEMMA Decalage ==
  \A y \in Int : /\ firstWeekOffset(y) \in -3 .. 3
                 /\ Semaine1(y) \in Int /\ Semaine1(y) % 7 = 1
                 /\ startOf(Numero(y, 4)) = Semaine1(y)
<1> SUFFICES ASSUME NEW y \in Int
             PROVE  /\ firstWeekOffset(y) \in -3 .. 3
                    /\ Semaine1(y) \in Int /\ Semaine1(y) % 7 = 1
                    /\ startOf(Numero(y, 4)) = Semaine1(y)
  OBVIOUS
<1> DEFINE j == Numero(y, 1)
<1>1. j \in Int /\ Numero(y, 4) = j + 3
  BY NumeroEntier
<1>2. firstWeekOffset(y) = 3 - ((7 + ((j + 3) % 7) - 1) % 7)
  BY <1>1 DEF firstWeekOffset, getDay
<1> HIDE DEF j
<1>3. /\ firstWeekOffset(y) \in -3 .. 3 /\ (j + firstWeekOffset(y)) % 7 = 1
      /\ j + firstWeekOffset(y) <= j + 3 /\ j + 3 <= j + firstWeekOffset(y) + 6
  BY <1>1, <1>2
<1> QED
  BY <1>1, <1>3, LundiUnique DEF Semaine1, j

\* A year has a whole number of weeks, 52 or 53.
LEMMA SemainesEntieres ==
  \A y \in Int : /\ weeksInYear(y) \in 52 .. 53
                 /\ Semaine1(y + 1) = Semaine1(y) + 7 * weeksInYear(y)
<1> SUFFICES ASSUME NEW y \in Int
             PROVE  /\ weeksInYear(y) \in 52 .. 53
                    /\ Semaine1(y + 1) = Semaine1(y) + 7 * weeksInYear(y)
  OBVIOUS
<1> DEFINE d == daysInYear(y) - firstWeekOffset(y) + firstWeekOffset(y + 1)
<1>1. /\ Semaine1(y) \in Int /\ Semaine1(y) % 7 = 1
      /\ Semaine1(y + 1) \in Int /\ Semaine1(y + 1) % 7 = 1
  BY Decalage
<1>2. Semaine1(y + 1) = Semaine1(y) + d /\ d \in 359 .. 372
  <2>1. /\ firstWeekOffset(y) \in -3 .. 3 /\ firstWeekOffset(y + 1) \in -3 .. 3
        /\ daysInYear(y) \in {365, 366}
    BY Decalage, LongueurAnnee
  <2>2. /\ Numero(y + 1, 1) = Numero(y, 1) + daysInYear(y)
        /\ Numero(y, 1) \in Int
    BY AnneeSuivante, NumeroEntier
  <2> QED
    BY <2>1, <2>2 DEF Semaine1
<1> HIDE DEF d
<1>3. d = 7 * (d \div 7) /\ d \div 7 \in 52 .. 53
  BY <1>1, <1>2
<1> QED
  BY <1>2, <1>3 DEF weeksInYear, d

\* The week w of the ISO year z.
Lundi0(z, w) == Semaine1(z) + 7 * (w - 1)

\* isoWeek() numbers the weeks of the year before, of the year and of the year
\* after from its Monday.
LEMMA SemaineDuJour ==
  ASSUME NEW y \in Int, NEW q \in 1 .. daysInYear(y)
  PROVE  \E z \in y - 1 .. y + 1 : \E w \in 1 .. weeksInYear(z) :
           isoWeek(y, q) = w /\ startOf(Numero(y, q)) = Lundi0(z, w)
<1> DEFINE n == Numero(y, q)
           o == firstWeekOffset(y)
           k == (q - o - 1) \div 7
<1>1. q \in Int /\ 1 <= q /\ q <= daysInYear(y) /\ daysInYear(y) \in {365, 366}
  BY LongueurAnnee
<1>2. /\ o \in -3 .. 3 /\ n \in Int /\ n = Numero(y, 1) + q - 1
      /\ Numero(y, 1) \in Int /\ Semaine1(y) = Numero(y, 1) + o
      /\ Semaine1(y) \in Int /\ Semaine1(y) % 7 = 1
  BY <1>1, Decalage, NumeroEntier DEF Semaine1
<1>3. /\ weeksInYear(y) \in 52 .. 53 /\ weeksInYear(y - 1) \in 52 .. 53
      /\ weeksInYear(y + 1) \in 52 .. 53
      /\ Semaine1(y + 1) = Semaine1(y) + 7 * weeksInYear(y)
      /\ Semaine1(y) = Semaine1(y - 1) + 7 * weeksInYear(y - 1)
      /\ Semaine1(y - 1) \in Int
  <2>1. (y - 1) + 1 = y /\ y - 1 \in Int /\ y + 1 \in Int
    OBVIOUS
  <2> QED
    BY <2>1, SemainesEntieres, Decalage
<1>4. /\ Semaine1(y + 1) = Numero(y, 1) + daysInYear(y) + firstWeekOffset(y + 1)
      /\ firstWeekOffset(y + 1) \in -3 .. 3
  BY AnneeSuivante, Decalage DEF Semaine1
<1>5. /\ isoWeek(y, q) = IF k + 1 < 1 THEN (k + 1) + weeksInYear(y - 1)
                         ELSE IF k + 1 > weeksInYear(y)
                         THEN (k + 1) - weeksInYear(y) ELSE k + 1
  BY DEF isoWeek
<1>6. /\ k \in Int /\ 7 * k <= q - o - 1 /\ q - o - 1 <= 7 * k + 6
  BY <1>1, <1>2
<1> HIDE DEF n, o, k
<1>7. startOf(n) = Semaine1(y) + 7 * k
  <2>1. (Semaine1(y) + 7 * k) % 7 = 1 /\ Semaine1(y) + 7 * k \in Int
    BY <1>2, <1>6
  <2>2. Semaine1(y) + 7 * k <= n /\ n <= Semaine1(y) + 7 * k + 6
    BY <1>1, <1>2, <1>6
  <2> QED
    BY <1>2, <2>1, <2>2, LundiUnique
<1>8. -1 <= k /\ k <= weeksInYear(y)
  BY <1>1, <1>2, <1>3, <1>4, <1>6
<1>9. CASE k = -1
  <2>1. isoWeek(y, q) = weeksInYear(y - 1)
    BY <1>3, <1>5, <1>9
  <2>2. startOf(n) = Lundi0(y - 1, weeksInYear(y - 1))
    BY <1>3, <1>7, <1>9 DEF Lundi0
  <2>3. /\ y - 1 \in y - 1 .. y + 1
        /\ weeksInYear(y - 1) \in 1 .. weeksInYear(y - 1)
    BY <1>3
  <2> QED
    BY <2>1, <2>2, <2>3 DEF n
<1>10. CASE 0 <= k /\ k < weeksInYear(y)
  <2>1. isoWeek(y, q) = k + 1
    BY <1>3, <1>5, <1>6, <1>10
  <2>2. startOf(n) = Lundi0(y, k + 1)
    BY <1>2, <1>6, <1>7 DEF Lundi0
  <2>3. y \in y - 1 .. y + 1 /\ k + 1 \in 1 .. weeksInYear(y)
    BY <1>3, <1>6, <1>10
  <2> QED
    BY <2>1, <2>2, <2>3 DEF n
<1>11. CASE k = weeksInYear(y)
  <2>1. isoWeek(y, q) = 1
    BY <1>3, <1>5, <1>11
  <2>2. startOf(n) = Lundi0(y + 1, 1)
    BY <1>2, <1>3, <1>7, <1>11 DEF Lundi0
  <2>3. y + 1 \in y - 1 .. y + 1 /\ 1 \in 1 .. weeksInYear(y + 1)
    BY <1>3
  <2> QED
    BY <2>1, <2>2, <2>3 DEF n
<1> QED
  BY <1>3, <1>6, <1>8, <1>9, <1>10, <1>11

\* The Thursday of such a week is a day of that year, in the week w from its
\* first Thursday on.
LEMMA JeudiDansLAnnee ==
  ASSUME NEW z \in Int, NEW w \in 1 .. weeksInYear(z)
  PROVE  /\ Lundi0(z, w) \in Int
         /\ Numero(z, 1) <= Lundi0(z, w) + 3
         /\ Lundi0(z, w) + 3 < Numero(z + 1, 1)
         /\ (Lundi0(z, w) + 3 - Numero(z, 1)) \div 7 + 1 = w
<1> DEFINE o == firstWeekOffset(z)
           j == Numero(z, 1)
<1>1. /\ o \in -3 .. 3 /\ j \in Int /\ Semaine1(z) = j + o
      /\ weeksInYear(z) \in 52 .. 53 /\ w \in Int /\ 1 <= w /\ w <= weeksInYear(z)
  BY Decalage, NumeroEntier, SemainesEntieres DEF Semaine1
<1>2. /\ Semaine1(z + 1) = Semaine1(z) + 7 * weeksInYear(z)
      /\ Semaine1(z + 1) = Numero(z + 1, 1) + firstWeekOffset(z + 1)
      /\ firstWeekOffset(z + 1) \in -3 .. 3 /\ Numero(z + 1, 1) \in Int
  BY Decalage, NumeroEntier, SemainesEntieres DEF Semaine1
<1> HIDE DEF o, j
<1>3. Lundi0(z, w) = j + o + 7 * (w - 1)
  BY <1>1 DEF Lundi0
<1>4. (o + 7 * (w - 1) + 3) \div 7 + 1 = w
  BY <1>1
<1>5. Lundi0(z, w) + 3 - j = o + 7 * (w - 1) + 3
  BY <1>1, <1>3
<1> QED
  BY <1>1, <1>2, <1>3, <1>4, <1>5 DEF j

\* A day lies in one year.
LEMMA AnneeUnique ==
  ASSUME NEW y \in Int, NEW x \in Int,
         NEW a \in y - 2 .. y + 2, Numero(a, 1) <= x, x < Numero(a + 1, 1),
         NEW b \in y - 2 .. y + 2, Numero(b, 1) <= x, x < Numero(b + 1, 1)
  PROVE  a = b
<1> DEFINE j(i) == Numero(y + i, 1)
<1>1. \A i \in Int : j(i) \in Int /\ j(i + 1) >= j(i) + 365
  <2> SUFFICES ASSUME NEW i \in Int PROVE j(i) \in Int /\ j(i + 1) >= j(i) + 365
    OBVIOUS
  <2> DEFINE z == y + i
  <2>1. z \in Int /\ y + (i + 1) = z + 1
    OBVIOUS
  <2> HIDE DEF z
  <2>2. Numero(z + 1, 1) = Numero(z, 1) + daysInYear(z)
    BY <2>1, AnneeSuivante
  <2>3. Numero(z, 1) \in Int
    BY <2>1, NumeroEntier
  <2>4. Numero(z + 1, 1) >= Numero(z, 1) + 365
    BY <2>2, <2>3, LongueurAnnee
  <2> QED
    BY <2>1, <2>3, <2>4 DEF z
<1>2. PICK c \in -2 .. 2 : a = y + c
  <2>1. a - y \in -2 .. 2 /\ a = y + (a - y)
    OBVIOUS
  <2> QED
    BY <2>1
<1>3. PICK e \in -2 .. 2 : b = y + e
  <2>1. b - y \in -2 .. 2 /\ b = y + (b - y)
    OBVIOUS
  <2> QED
    BY <2>1
<1>4. j(c) <= x /\ x < j(c + 1) /\ j(e) <= x /\ x < j(e + 1)
  <2>1. (y + c) + 1 = y + (c + 1) /\ (y + e) + 1 = y + (e + 1)
    OBVIOUS
  <2> QED
    BY <1>2, <1>3, <2>1
<1> HIDE DEF j
<1>5. /\ j(-1) >= j(-2) /\ j(0) >= j(-1) /\ j(1) >= j(0) /\ j(2) >= j(1)
      /\ j(3) >= j(2) /\ \A i \in -2 .. 3 : j(i) \in Int
  <2>1. /\ -2 + 1 = -1 /\ -1 + 1 = 0 /\ 0 + 1 = 1 /\ 1 + 1 = 2 /\ 2 + 1 = 3
        /\ -2 \in Int /\ -1 \in Int
    OBVIOUS
  <2>2. \A i \in Int : j(i + 1) >= j(i)
    BY <1>1
  <2> QED
    BY <1>1, <2>1, <2>2
<1>6. c = -2 \/ c = -1 \/ c = 0 \/ c = 1 \/ c = 2
  OBVIOUS
<1>7. e = -2 \/ e = -1 \/ e = 0 \/ e = 1 \/ e = 2
  OBVIOUS
<1>8. c = e
  BY <1>4, <1>5, <1>6, <1>7
<1> QED
  BY <1>2, <1>3, <1>8

-----------------------------------------------------------------------------
(* The week and the range of a day *)

\* The year of its Thursday, as the week ISO 8601 gives the day.
LEMMA SemaineDuCalendrier ==
  ASSUME annee \in Int, NEW y \in annee - 1 .. annee,
         NEW q \in 1 .. daysInYear(y)
  PROVE  \E z \in y - 1 .. y + 1 : \E w \in 1 .. weeksInYear(z) :
           /\ isoWeek(y, q) = w /\ startOf(Numero(y, q)) = Lundi0(z, w)
           /\ AnneeIso(Numero(y, q)) = z /\ SemaineIso8601(Numero(y, q)) = w
<1>1. y \in Int
  OBVIOUS
<1>2. PICK z \in y - 1 .. y + 1 : \E w \in 1 .. weeksInYear(z) :
        isoWeek(y, q) = w /\ startOf(Numero(y, q)) = Lundi0(z, w)
  BY <1>1, SemaineDuJour
<1>3. PICK w \in 1 .. weeksInYear(z) :
        isoWeek(y, q) = w /\ startOf(Numero(y, q)) = Lundi0(z, w)
  BY <1>2
<1>4. z \in Int /\ z \in annee - 2 .. annee + 2
  OBVIOUS
<1> DEFINE x == Lundi0(z, w) + 3
<1>5. x \in Int /\ Numero(z, 1) <= x /\ x < Numero(z + 1, 1)
      /\ (x - Numero(z, 1)) \div 7 + 1 = w
  <2>1. /\ Lundi0(z, w) \in Int
        /\ Numero(z, 1) <= Lundi0(z, w) + 3
        /\ Lundi0(z, w) + 3 < Numero(z + 1, 1)
        /\ (Lundi0(z, w) + 3 - Numero(z, 1)) \div 7 + 1 = w
    BY <1>4, JeudiDansLAnnee
  <2>2. Numero(z, 1) \in Int
    BY <1>4, NumeroEntier
  <2> QED
    BY <2>1, <2>2
<1>6. Jeudi(Numero(y, q)) = x
  BY <1>3 DEF Jeudi
<1> HIDE DEF x
<1>7. AnneeIso(Numero(y, q)) = z
  <2> DEFINE P(a) == Numero(a, 1) <= x /\ x < Numero(a + 1, 1)
             c == CHOOSE a \in annee - 2 .. annee + 2 : P(a)
  <2>1. AnneeIso(Numero(y, q)) = c
    BY <1>6 DEF AnneeIso
  <2>2. P(z)
    BY <1>5
  <2>3. c \in annee - 2 .. annee + 2 /\ P(c)
    <3> HIDE DEF P
    <3> QED
      BY <1>4, <2>2
  <2> HIDE DEF c
  <2>4. c = z
    BY <1>4, <1>5, <2>2, <2>3, AnneeUnique
  <2> QED
    BY <2>1, <2>4
<1>8. SemaineIso8601(Numero(y, q)) = w
  BY <1>5, <1>6, <1>7 DEF SemaineIso8601
<1> QED
  BY <1>3, <1>7, <1>8

\* Today's range for a row of one of the years from 1 on: the week of that
\* number of the ISO year of today's date in the row's year.
LEMMA PlageAffichee ==
  ASSUME annee \in Int, quantieme \in 1 .. daysInYear(annee),
         NEW r \in [semaine : 1 .. 53, annee : Nat], r.annee >= 1
  PROVE  /\ JourAffiche(r) \in Int
         /\ startOf(JourAffiche(r)) \in Nat /\ endOf(JourAffiche(r)) \in Nat
         /\ r.annee \in annee - 1 .. annee =>
              startOf(JourAffiche(r)) =
                Lundi0(AnneeIso(Numero(r.annee, year(annee, quantieme, r.annee))),
                       r.semaine)
<1> DEFINE y == r.annee
           s == r.semaine
           q == year(annee, quantieme, r.annee)
           n == Numero(y, q)
<1>1. y \in Int /\ y >= 1 /\ s \in Int /\ s >= 1
  OBVIOUS
<1>2. q \in 1 .. daysInYear(y) /\ q \in Int /\ q >= 1
  <2>1. q \in 1 .. daysInYear(y)
    BY <1>1, JourTransporte
  <2> QED
    BY <2>1, LongueurAnnee
<1>3. JourAffiche(r) = n + 7 * (s - isoWeek(y, q))
  BY DEF JourAffiche
<1> HIDE DEF y, s, q
<1>4. PICK z \in y - 1 .. y + 1 : \E w \in 1 .. weeksInYear(z) :
        /\ isoWeek(y, q) = w /\ startOf(n) = Lundi0(z, w)
        /\ y \in annee - 1 .. annee => AnneeIso(n) = z
  <2>1. CASE y \in annee - 1 .. annee
    BY <1>2, <2>1, SemaineDuCalendrier
  <2>2. CASE y \notin annee - 1 .. annee
    BY <1>1, <1>2, <2>2, SemaineDuJour
  <2> QED
    BY <2>1, <2>2
<1>5. PICK w \in 1 .. weeksInYear(z) :
        /\ isoWeek(y, q) = w /\ startOf(n) = Lundi0(z, w)
        /\ y \in annee - 1 .. annee => AnneeIso(n) = z
  BY <1>4
<1>6. /\ z \in Int /\ z + 1 \in Int /\ w \in Int /\ 1 <= w
      /\ w <= weeksInYear(z) /\ weeksInYear(z) \in 52 .. 53
  BY <1>1, SemainesEntieres
<1>7. n \in Int /\ n = Numero(y, 1) + q - 1 /\ n >= 1
  <2>1. n \in Int /\ n = Numero(y, 1) + q - 1 /\ Numero(y, 1) \in Int
    BY <1>1, <1>2, NumeroEntier
  <2>2. Numero(y, 1) >= 1
    BY <1>1, NumeroPositif
  <2> QED
    BY <1>2, <2>1, <2>2
<1>8. /\ startOf(n) \in Int /\ startOf(n) % 7 = 1 /\ startOf(n) <= n
      /\ n <= startOf(n) + 6
  BY <1>7, Lundi
<1> HIDE DEF n
<1>9. JourAffiche(r) \in Int /\ JourAffiche(r) = n + 7 * (s - w)
  BY <1>1, <1>3, <1>5, <1>6, <1>7
<1>10. startOf(JourAffiche(r)) = startOf(n) + 7 * (s - w)
  <2> DEFINE m == startOf(n) + 7 * (s - w)
  <2>1. m \in Int /\ m % 7 = 1
    BY <1>1, <1>6, <1>8
  <2>2. m <= JourAffiche(r) /\ JourAffiche(r) <= m + 6
    BY <1>1, <1>6, <1>7, <1>8, <1>9
  <2> HIDE DEF m
  <2>3. startOf(JourAffiche(r)) = m
    BY <1>9, <2>1, <2>2, LundiUnique
  <2> QED
    BY <2>3 DEF m
<1>11. Semaine1(z) \in Int /\ Semaine1(z + 1) = Semaine1(z) + 7 * weeksInYear(z)
  BY <1>6, Decalage, SemainesEntieres
<1>12. startOf(JourAffiche(r)) = Lundi0(z, s)
  BY <1>1, <1>5, <1>6, <1>10, <1>11 DEF Lundi0
<1>13. Semaine1(1) = 1
  BY DEF Semaine1, firstWeekOffset, getDay, Numero
<1>14. z >= 1
  <2> SUFFICES ASSUME z < 1 PROVE FALSE
    BY <1>6
  <2>1. z = 0
    BY <1>1, <1>6
  <2>2. Semaine1(0) + 7 * weeksInYear(0) = 1
    BY <1>11, <1>13, <2>1
  <2>3. startOf(n) <= -6
    BY <1>5, <1>6, <1>11, <2>1, <2>2 DEF Lundi0
  <2> QED
    BY <1>7, <1>8, <2>3
<1>15. Semaine1(z) >= 1
  <2>1. CASE z = 1
    BY <1>13, <2>1
  <2>2. CASE z > 1
    <3>1. Numero(z, 1) >= 366
      <4>1. (z - 1) + 1 = z /\ z - 1 \in Int /\ z - 1 \in Nat \ {0}
        BY <1>6, <2>2
      <4>2. Numero(z, 1) = Numero(z - 1, 1) + daysInYear(z - 1)
        BY <4>1, AnneeSuivante
      <4>3. Numero(z - 1, 1) >= 1 /\ Numero(z - 1, 1) \in Int
        BY <4>1, NumeroPositif, NumeroEntier
      <4> QED
        BY <4>2, <4>3, LongueurAnnee
    <3>2. firstWeekOffset(z) \in -3 .. 3 /\ Numero(z, 1) \in Int
      BY <1>6, Decalage, NumeroEntier
    <3> QED
      BY <3>1, <3>2 DEF Semaine1
  <2> QED
    BY <1>6, <1>14, <2>1, <2>2
<1>16. startOf(JourAffiche(r)) \in Nat
  BY <1>1, <1>11, <1>12, <1>15 DEF Lundi0
<1>17. endOf(JourAffiche(r)) \in Nat
  BY <1>9, <1>16, Lundi
<1>18. y \in annee - 1 .. annee => startOf(JourAffiche(r)) = Lundi0(AnneeIso(n), s)
  BY <1>5, <1>12
<1> QED
  BY <1>9, <1>16, <1>17, <1>18 DEF y, s, q, n

-----------------------------------------------------------------------------
(* The states *)

\* Midnight moves to the next day.
LEMMA Lendemain ==
  ASSUME annee \in Int, quantieme \in 1 .. daysInYear(annee), Minuit
  PROVE  /\ annee' \in Int /\ quantieme' \in 1 .. daysInYear(annee')
         /\ Aujourdhui \in Int /\ Aujourdhui' = Aujourdhui + 1
<1>1. /\ daysInYear(annee) \in {365, 366} /\ daysInYear(annee + 1) \in {365, 366}
      /\ quantieme \in Int
  BY LongueurAnnee
<1>2. Aujourdhui \in Int /\ Aujourdhui = Numero(annee, 1) + quantieme - 1
  BY <1>1, NumeroEntier DEF Aujourdhui
<1>3. CASE quantieme < daysInYear(annee) /\ quantieme' = quantieme + 1
           /\ annee' = annee
  <2>1. /\ Numero(annee, quantieme + 1) = Numero(annee, 1) + (quantieme + 1) - 1
        /\ Numero(annee, 1) \in Int
    BY <1>1, NumeroEntier
  <2>2. Aujourdhui' = Numero(annee, quantieme + 1)
    BY <1>3 DEF Aujourdhui
  <2>3. quantieme' \in 1 .. daysInYear(annee)
    BY <1>1, <1>3
  <2> QED
    BY <1>1, <1>2, <1>3, <2>1, <2>2, <2>3
<1>4. CASE quantieme = daysInYear(annee) /\ quantieme' = 1 /\ annee' = annee + 1
  <2>1. Numero(annee + 1, 1) = Numero(annee, 1) + daysInYear(annee)
    BY AnneeSuivante
  <2>2. Aujourdhui' = Numero(annee + 1, 1)
    BY <1>4 DEF Aujourdhui
  <2>3. Numero(annee, 1) \in Int
    BY NumeroEntier
  <2>4. quantieme' \in 1 .. daysInYear(annee + 1)
    BY <1>1, <1>4
  <2> QED
    BY <1>1, <1>2, <1>4, <2>1, <2>2, <2>3, <2>4
<1> QED
  BY <1>1, <1>3, <1>4 DEF Minuit

\* Week numbers are those of a year.
LEMMA SemaineType ==
  \A y \in Int : \A q \in 1 .. daysInYear(y) : isoWeek(y, q) \in 1 .. 53
<1> SUFFICES ASSUME NEW y \in Int, NEW q \in 1 .. daysInYear(y)
             PROVE  isoWeek(y, q) \in 1 .. 53
  OBVIOUS
<1>1. PICK z \in y - 1 .. y + 1 : \E w \in 1 .. weeksInYear(z) :
        isoWeek(y, q) = w
  BY SemaineDuJour
<1>2. weeksInYear(z) \in 52 .. 53
  BY SemainesEntieres
<1> QED
  BY <1>1, <1>2

\* What was read today is what today gives.
Lecture ==
  etape # "repos" =>
    /\ luLe <= Aujourdhui /\ ligne.annee >= 1
    /\ luLe = Aujourdhui => /\ ligne.annee \in annee - 1 .. annee
                            /\ lundi = startOf(JourAffiche(ligne))
    /\ etape = "affiche" /\ luLe = Aujourdhui =>
         dimanche = endOf(JourAffiche(ligne))

IInv == TypeOK /\ Lecture

LEMMA JourDeLAnnee ==
  ASSUME TypeOK
  PROVE  /\ annee \in Nat /\ annee >= 2 /\ annee \in Int
         /\ quantieme \in 1 .. daysInYear(annee)
         /\ Aujourdhui \in Nat
<1>1. annee \in Nat /\ annee >= 2 /\ quantieme \in 1 .. daysInYear(annee)
  BY AnneesAssumption DEF TypeOK
<1>2. quantieme \in Int /\ quantieme >= 1
  BY <1>1, LongueurAnnee
<1>3. Numero(annee, 1) >= 1
  BY <1>1, NumeroPositif
<1>4. Aujourdhui \in Int /\ Aujourdhui = Numero(annee, 1) + quantieme - 1
      /\ Numero(annee, 1) \in Int
  BY <1>1, <1>2, NumeroEntier DEF Aujourdhui
<1> QED
  BY <1>1, <1>2, <1>3, <1>4

LEMMA IInvInit == Init => IInv
<1> SUFFICES ASSUME Init PROVE IInv
  OBVIOUS
<1>1. annee \in Nat /\ annee \in PremiereAnnee .. DerniereAnnee
  BY AnneesAssumption DEF Init
<1>2. quantieme \in 1 .. daysInYear(annee)
  BY LongueurAnnee DEF Init
<1>3. CleActuelle \in [semaine : 1 .. 53, annee : Nat]
  BY <1>1, <1>2, SemaineType DEF CleActuelle
<1> QED
  BY <1>1, <1>2, <1>3 DEF Init, IInv, TypeOK, Lecture

LEMMA IInvNext == IInv /\ [Next]_vars => IInv'
<1> SUFFICES ASSUME IInv, [Next]_vars PROVE IInv'
  OBVIOUS
<1>0. /\ annee \in Nat /\ annee >= 2 /\ annee \in Int
      /\ quantieme \in 1 .. daysInYear(annee) /\ Aujourdhui \in Nat
  BY JourDeLAnnee DEF IInv
<1>1. CASE LitDebut
  <2>1. PICK r \in LignesAffichees \cup {CleActuelle} :
          ligne' = r /\ lundi' = startOf(JourAffiche(r))
    BY <1>1 DEF LitDebut
  <2>2. /\ r \in [semaine : 1 .. 53, annee : Nat] /\ r.annee >= 1
        /\ r.annee \in annee - 1 .. annee
    <3>1. CASE r = CleActuelle
      <4>1. isoWeek(annee, quantieme) \in 1 .. 53
        BY <1>0, SemaineType
      <4> QED
        BY <1>0, <3>1, <4>1 DEF CleActuelle
    <3>2. CASE r \in LignesAffichees
      <4>1. /\ r \in [semaine : SemainesAffichees, annee : annee - 1 .. annee]
            /\ SemainesAffichees \subseteq 1 .. 53
        BY <3>2, AnneesAssumption DEF LignesAffichees
      <4>2. \A a \in annee - 1 .. annee : a \in Nat /\ a >= 1
        BY <1>0
      <4> QED
        BY <4>1, <4>2
    <3> QED
      BY <2>1, <3>1, <3>2
  <2>3. startOf(JourAffiche(r)) \in Nat
    BY <1>0, <2>2, PlageAffichee
  <2>4. /\ annee' = annee /\ quantieme' = quantieme /\ dimanche' = dimanche
        /\ luLe' = Aujourdhui /\ etape' = "debutLu"
    BY <1>1 DEF LitDebut
  <2>5. Aujourdhui' = Aujourdhui /\ JourAffiche(r)' = JourAffiche(r)
    BY <2>4 DEF Aujourdhui, JourAffiche
  <2>6. startOf(JourAffiche(ligne))' = startOf(JourAffiche(r))
    BY <2>1, <2>4 DEF startOf, JourAffiche
  <2>7. TypeOK'
    BY <1>0, <2>1, <2>2, <2>3, <2>4 DEF IInv, TypeOK
  <2>8. Lecture'
    BY <1>0, <2>1, <2>2, <2>4, <2>5, <2>6 DEF Lecture
  <2> QED
    BY <2>7, <2>8 DEF IInv
<1>2. CASE LitFin
  <2>1. /\ dimanche' = endOf(JourAffiche(ligne)) /\ etape = "debutLu"
        /\ etape' = "affiche" /\ annee' = annee /\ quantieme' = quantieme
        /\ ligne' = ligne /\ lundi' = lundi /\ luLe' = luLe
    BY <1>2 DEF LitFin
  <2>2. endOf(JourAffiche(ligne)) \in Nat
    BY <1>0, <2>1, PlageAffichee DEF IInv, TypeOK, Lecture
  <2>3. /\ Aujourdhui' = Aujourdhui
        /\ startOf(JourAffiche(ligne))' = startOf(JourAffiche(ligne))
        /\ endOf(JourAffiche(ligne))' = endOf(JourAffiche(ligne))
    BY <2>1 DEF Aujourdhui, JourAffiche, startOf, endOf
  <2>4. TypeOK'
    BY <2>1, <2>2 DEF IInv, TypeOK
  <2>5. Lecture'
    BY <2>1, <2>3 DEF IInv, Lecture
  <2> QED
    BY <2>4, <2>5 DEF IInv
<1>3. CASE Repond
  <2>1. CleActuelle \in [semaine : 1 .. 53, annee : Nat]
    BY <1>0, SemaineType DEF CleActuelle
  <2> QED
    BY <1>3, <2>1 DEF Repond, IInv, TypeOK, Lecture
<1>4. CASE Minuit
  <2>1. /\ annee' \in Int /\ quantieme' \in 1 .. daysInYear(annee')
        /\ Aujourdhui \in Int /\ Aujourdhui' = Aujourdhui + 1
    BY <1>0, <1>4, Lendemain
  <2>2. /\ etape' = etape /\ lundi' = lundi /\ dimanche' = dimanche
        /\ luLe' = luLe
    BY <1>4 DEF Minuit
  <2>3. annee' \in PremiereAnnee .. DerniereAnnee /\ annee' \in Nat
    BY <1>0, <1>4, AnneesAssumption DEF Minuit, IInv, TypeOK
  <2>4. ligne' \in [semaine : 1 .. 53, annee : Nat]
    <3>1. CASE ligne' = CleActuelle'
      <4>1. isoWeek(annee', quantieme') \in 1 .. 53
        BY <2>1, SemaineType
      <4> QED
        BY <2>3, <3>1, <4>1 DEF CleActuelle
    <3>2. CASE ligne' = ligne
      BY <3>2 DEF IInv, TypeOK
    <3> QED
      BY <1>4, <3>1, <3>2 DEF Minuit
  <2>5. etape # "repos" => ligne' = ligne
    BY <1>4 DEF Minuit
  <2>6. TypeOK'
    BY <2>1, <2>2, <2>3, <2>4 DEF IInv, TypeOK
  <2>7. etape # "repos" => luLe < Aujourdhui'
    BY <2>1 DEF IInv, TypeOK, Lecture
  <2>8. Lecture'
    BY <1>0, <2>1, <2>2, <2>5, <2>7 DEF IInv, TypeOK, Lecture
  <2> QED
    BY <2>6, <2>8 DEF IInv
<1>5. CASE UNCHANGED vars
  BY <1>5 DEF vars, IInv, TypeOK, Lecture, Aujourdhui, JourAffiche, startOf,
     endOf
<1> QED
  BY <1>1, <1>2, <1>3, <1>4, <1>5 DEF Next

-----------------------------------------------------------------------------
\* Types, in every state: every day shown is a day number, every row a week
\* of 1 to 53.
THEOREM TypeCorrect == Spec => []TypeOK
<1>1. Init => IInv
  BY IInvInit
<1>2. IInv /\ [Next]_vars => IInv'
  BY IInvNext
<1>3. IInv => TypeOK
  BY DEF IInv
<1> QED
  BY <1>1, <1>2, <1>3, PTL DEF Spec

\* isoWeek() is the ISO 8601 week on every day of every year.
THEOREM SemaineConformeCorrect == Spec => []SemaineConforme
<1>1. Init => IInv
  BY IInvInit
<1>2. IInv /\ [Next]_vars => IInv'
  BY IInvNext
<1>3. IInv => SemaineConforme
  <2> SUFFICES ASSUME IInv PROVE SemaineConforme
    OBVIOUS
  <2>1. annee \in Int /\ quantieme \in 1 .. daysInYear(annee)
        /\ annee \in annee - 1 .. annee
    BY JourDeLAnnee DEF IInv
  <2>2. isoWeek(annee, quantieme) = SemaineIso8601(Numero(annee, quantieme))
    BY <2>1, SemaineDuCalendrier
  <2> QED
    BY <2>2 DEF SemaineConforme, Aujourdhui
<1> QED
  BY <1>1, <1>2, <1>3, PTL DEF Spec

\* The range shown beside the row in force holds the day it is read on,
\* whatever the day.
THEOREM PlageDuJourCorrect == Spec => []PlageDuJour
<1>1. Init => IInv
  BY IInvInit
<1>2. IInv /\ [Next]_vars => IInv'
  BY IInvNext
<1>3. IInv => PlageDuJour
  <2> SUFFICES ASSUME IInv, etape = "affiche", luLe = Aujourdhui,
                      ligne = CleActuelle
               PROVE  lundi <= Aujourdhui /\ Aujourdhui <= dimanche
    BY DEF PlageDuJour
  <2>1. Aujourdhui \in Int
    BY JourDeLAnnee DEF IInv
  <2>2. /\ ligne.annee = annee /\ ligne.semaine = isoWeek(annee, quantieme)
        /\ year(annee, quantieme, annee) = quantieme
    BY DEF CleActuelle, year
  <2>3. isoWeek(annee, quantieme) \in Int
    BY <2>2 DEF IInv, TypeOK
  <2>4. JourAffiche(ligne) = Aujourdhui
    BY <2>1, <2>2, <2>3 DEF JourAffiche, Aujourdhui
  <2>5. lundi = startOf(Aujourdhui) /\ dimanche = endOf(Aujourdhui)
    BY <2>4 DEF IInv, Lecture
  <2> QED
    BY <2>1, <2>5, Lundi
<1> QED
  BY <1>1, <1>2, <1>3, PTL DEF Spec

\* Two ISO years next to one another begin at least 52 weeks apart.
LEMMA SemainesDistinctes ==
  ASSUME NEW y \in Int, NEW z \in y - 1 .. y + 1, Semaine1(z) = Semaine1(y)
  PROVE  z = y
<1>1. y - 1 \in Int /\ (y - 1) + 1 = y
  OBVIOUS
<1>2. /\ Semaine1(y + 1) = Semaine1(y) + 7 * weeksInYear(y)
      /\ weeksInYear(y) \in 52 .. 53
  BY SemainesEntieres
<1>3. /\ Semaine1(y) = Semaine1(y - 1) + 7 * weeksInYear(y - 1)
      /\ weeksInYear(y - 1) \in 52 .. 53
  BY <1>1, SemainesEntieres
<1>4. Semaine1(y) \in Int /\ Semaine1(y - 1) \in Int /\ Semaine1(y + 1) \in Int
  BY <1>1, Decalage
<1>5. z = y - 1 \/ z = y \/ z = y + 1
  OBVIOUS
<1> QED
  BY <1>2, <1>3, <1>4, <1>5

\* A range read on one day is a week, and the row's on the very days that carried
\* into the row's year are days of the ISO year of that number.
THEOREM PlageSureCorrect == Spec => []PlageSure
<1>1. Init => IInv
  BY IInvInit
<1>2. IInv /\ [Next]_vars => IInv'
  BY IInvNext
<1>3. IInv => PlageSure
  <2> DEFINE q == year(annee, quantieme, ligne.annee)
  <2> SUFFICES ASSUME IInv, etape = "affiche", luLe = Aujourdhui
               PROVE  /\ isoWeekday(lundi) = 1 /\ dimanche = lundi + 6
                      /\ AnneeIso(Numero(ligne.annee, q)) = ligne.annee
                           <=> lundi = LundiIso(ligne.semaine, ligne.annee)
    BY DEF PlageSure
  <2>1. /\ ligne.annee \in annee - 1 .. annee /\ ligne.annee >= 1
        /\ ligne \in [semaine : 1 .. 53, annee : Nat]
        /\ lundi = startOf(JourAffiche(ligne))
        /\ dimanche = endOf(JourAffiche(ligne))
    BY DEF IInv, Lecture, TypeOK
  <2>2. annee \in Int /\ quantieme \in 1 .. daysInYear(annee)
    BY JourDeLAnnee DEF IInv
  <2>3. /\ JourAffiche(ligne) \in Int
        /\ lundi = Lundi0(AnneeIso(Numero(ligne.annee, q)), ligne.semaine)
    BY <2>1, <2>2, PlageAffichee
  <2>4. isoWeekday(lundi) = 1 /\ dimanche = lundi + 6
    BY <2>1, <2>3, Lundi
  <2>5. LundiIso(ligne.semaine, ligne.annee) = Lundi0(ligne.annee, ligne.semaine)
    BY <2>1, Decalage DEF LundiIso, Lundi0
  <2>6. AnneeIso(Numero(ligne.annee, q)) \in ligne.annee - 1 .. ligne.annee + 1
    <3>1. q \in 1 .. daysInYear(ligne.annee)
      BY <2>1, <2>2, JourTransporte
    <3> QED
      BY <2>1, <2>2, <3>1, SemaineDuCalendrier
  <2>7. ASSUME NEW z \in ligne.annee - 1 .. ligne.annee + 1,
               Lundi0(z, ligne.semaine) = Lundi0(ligne.annee, ligne.semaine)
        PROVE  z = ligne.annee
    <3>1. ligne.annee \in Int /\ ligne.semaine \in Int /\ z \in Int
      BY <2>1
    <3>2. Semaine1(z) = Semaine1(ligne.annee)
      BY <2>7, <3>1, Decalage DEF Lundi0
    <3> QED
      BY <3>1, <3>2, SemainesDistinctes
  <2> QED
    BY <2>3, <2>4, <2>5, <2>6, <2>7
<1> QED
  BY <1>1, <1>2, <1>3, PTL DEF Spec

\* The row in force changes on a Monday or on January 1st only.
THEOREM CleStableCorrect == Spec => CleStable
<1>1. Init => IInv
  BY IInvInit
<1>2. IInv /\ [Next]_vars => IInv'
  BY IInvNext
<1>3. IInv /\ [Next]_vars =>
        [CleActuelle' # CleActuelle =>
           isoWeekday(Aujourdhui') = 1 \/ quantieme' = 1]_vars
  <2> SUFFICES ASSUME IInv, Next, ~ (isoWeekday(Aujourdhui') = 1),
                      quantieme' # 1
               PROVE  CleActuelle' = CleActuelle
    OBVIOUS
  <2>1. CASE annee' = annee /\ quantieme' = quantieme
    BY <2>1 DEF CleActuelle
  <2>2. CASE Minuit
    <3>1. annee \in Int /\ quantieme \in 1 .. daysInYear(annee)
      BY JourDeLAnnee DEF IInv
    <3>2. /\ quantieme' \in 1 .. daysInYear(annee')
          /\ Aujourdhui \in Int /\ Aujourdhui' = Aujourdhui + 1
      BY <2>2, <3>1, Lendemain
    <3>3. annee' = annee
      BY <2>2 DEF Minuit
    <3>4. startOf(Aujourdhui') = startOf(Aujourdhui)
      <4>1. /\ startOf(Aujourdhui) \in Int /\ startOf(Aujourdhui) <= Aujourdhui
            /\ Aujourdhui <= startOf(Aujourdhui) + 6
            /\ startOf(Aujourdhui) % 7 = 1
        BY <3>2, Lundi
      <4>2. (Aujourdhui + 1) % 7 # 1
        <5>1. isoWeekday(Aujourdhui + 1) # 1 /\ Aujourdhui + 1 \in Int
          BY <3>2
        <5> QED
          BY <5>1, Lundi
      <4>3. Aujourdhui # startOf(Aujourdhui) + 6
        <5>1. \A s \in Int : s % 7 = 1 => ((s + 6) + 1) % 7 = 1
          OBVIOUS
        <5> QED
          BY <4>1, <4>2, <5>1
      <4>4. Aujourdhui' <= startOf(Aujourdhui) + 6
        BY <3>2, <4>1, <4>3
      <4>5. startOf(Aujourdhui) <= Aujourdhui'
        BY <3>2, <4>1
      <4> QED
        BY <3>2, <4>1, <4>4, <4>5, LundiUnique
    <3>5. PICK z \in annee - 1 .. annee + 1 : \E w \in 1 .. weeksInYear(z) :
            /\ isoWeek(annee, quantieme) = w
            /\ startOf(Numero(annee, quantieme)) = Lundi0(z, w)
      BY <3>1, SemaineDuJour
    <3>6. PICK w \in 1 .. weeksInYear(z) :
            /\ isoWeek(annee, quantieme) = w
            /\ startOf(Numero(annee, quantieme)) = Lundi0(z, w)
      BY <3>5
    <3>7. PICK z2 \in annee - 1 .. annee + 1 : \E w2 \in 1 .. weeksInYear(z2) :
            /\ isoWeek(annee, quantieme') = w2
            /\ startOf(Numero(annee, quantieme')) = Lundi0(z2, w2)
      BY <3>1, <3>2, <3>3, SemaineDuJour
    <3>8. PICK w2 \in 1 .. weeksInYear(z2) :
            /\ isoWeek(annee, quantieme') = w2
            /\ startOf(Numero(annee, quantieme')) = Lundi0(z2, w2)
      BY <3>7
    <3>9. Lundi0(z, w) = Lundi0(z2, w2)
      BY <3>3, <3>4, <3>6, <3>8 DEF Aujourdhui
    <3>10. z \in Int /\ z2 \in Int
           /\ z \in annee - 2 .. annee + 2 /\ z2 \in annee - 2 .. annee + 2
      BY <3>1
    <3>11. /\ Lundi0(z, w) \in Int
           /\ Numero(z, 1) <= Lundi0(z, w) + 3
           /\ Lundi0(z, w) + 3 < Numero(z + 1, 1)
           /\ (Lundi0(z, w) + 3 - Numero(z, 1)) \div 7 + 1 = w
      BY <3>10, JeudiDansLAnnee
    <3>12. /\ Numero(z2, 1) <= Lundi0(z2, w2) + 3
           /\ Lundi0(z2, w2) + 3 < Numero(z2 + 1, 1)
           /\ (Lundi0(z2, w2) + 3 - Numero(z2, 1)) \div 7 + 1 = w2
      BY <3>10, JeudiDansLAnnee
    <3>13. Lundi0(z, w) + 3 \in Int
      BY <3>11
    <3>14. z = z2
      BY <3>1, <3>9, <3>10, <3>11, <3>12, <3>13, AnneeUnique
    <3>15. w = w2
      BY <3>9, <3>11, <3>12, <3>14
    <3> QED
      BY <3>3, <3>6, <3>8, <3>15 DEF CleActuelle
  <2> QED
    BY <2>1, <2>2 DEF Next, LitDebut, LitFin, Repond
<1> QED
  BY <1>1, <1>2, <1>3, PTL DEF Spec, CleStable

=============================================================================
