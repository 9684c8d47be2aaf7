----------------------------- MODULE RegistrePin -----------------------------
(***************************************************************************)
(* What the table of the PIN codes promises to its readers, whatever the   *)
(* calls, the tasks, the failures and the stops behind it: a company's     *)
(* year appears at once, with a PIN for each week, a company disappears at *)
(* once, a year disappears at once, and only a company that the yearly     *)
(* task has taken up changes row by row.                                   *)
(***************************************************************************)
EXTENDS Naturals

CONSTANTS Societes, DerniereSemaine

VARIABLES
  codes,     \* rows [societe, semaine, annee, pin]
  reecrites  \* the companies taken up by the yearly task

vars == <<codes, reecrites>>

MemeAnnee(r, t) == r.societe = t.societe /\ r.annee = t.annee
Meme(r, t) == MemeAnnee(r, t) /\ r.semaine = t.semaine

Init == codes = {} /\ reecrites = {}

\* A creation.
Apparait ==
  /\ codes \subseteq codes'
  /\ \E r \in codes' \ codes :
       /\ \A t \in codes' \ codes : MemeAnnee(r, t)
       /\ \A t \in codes : ~ MemeAnnee(r, t)
  /\ \A w \in 1 .. DerniereSemaine : \E t \in codes' \ codes : t.semaine = w
  /\ \A t, u \in codes' \ codes : Meme(t, u) => t = u
  /\ UNCHANGED reecrites

\* A deletion.
Disparait ==
  /\ \E r \in codes : codes' = {t \in codes : t.societe # r.societe}
  /\ UNCHANGED reecrites

\* The purge of the yearly task.
Purge ==
  /\ \E r \in codes : codes' = {t \in codes : t.annee # r.annee}
  /\ UNCHANGED reecrites

Reprend == \E s \in Societes : reecrites' = reecrites \cup {s} /\ UNCHANGED codes

\* A week of a company that the yearly task draws again.
Redessine ==
  /\ \E r \in codes' :
       /\ r.societe \in reecrites
       /\ codes' = {t \in codes : ~ Meme(t, r)} \cup {r}
  /\ UNCHANGED reecrites

Next == Apparait \/ Disparait \/ Purge \/ Reprend \/ Redessine

Spec == Init /\ [][Next]_vars

=============================================================================
