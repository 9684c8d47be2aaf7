----------------------- MODULE CodesPin_hebdo_proofs ------------------------
(***************************************************************************)
(* Once the weekly task has succeeded, the cards carry the PINs of the     *)
(* week: the argument and its proof.                                       *)
(***************************************************************************)
EXTENDS CodesPin_proofs

LigneDuJour(r) == /\ r.annee = Calendrier[instant].annee
                  /\ r.semaine = Calendrier[instant].semaine

HebdoActuelle == TacheActive(hebdo) /\ MemeSemaine(hebdoDebut, instant)

\* Who is at work carries a date of today's week, or is recorded.
Horaires ==
  /\ TacheActive(annuel) => AnneeNouvelle <= Calendrier[instant].annee
  /\ TacheActive(hebdo) /\ aJour => MemeSemaine(hebdoDebut, instant)
  /\ aJour \/ HebdoActuelle =>
       \A a \in Creations : EnCours(a) => MemeSemaine(debut[a], instant)
  /\ \A a \in Suppressions : EnCours(a) => societe[a] \in perturbees
  /\ annuel \in {"tirage", "merge", "message"} => annuelSociete \in perturbees

\* What is left of the weekly recordset is still in the table.
ResteActuel ==
  /\ hebdo # "envoi" => hebdoReste = {}
  /\ \A r \in hebdoReste : /\ r.annee = Calendrier[hebdoDebut].annee
                           /\ r.semaine = Calendrier[hebdoDebut].semaine
  /\ HebdoActuelle =>
       \A r \in hebdoReste : r \in codesPin \/ r.societe \in perturbees

\* The cards: right once a run has succeeded, right or still to be sent while
\* a run of this week is sending.
Badges ==
  \A r \in codesPin : LigneDuJour(r) /\ r.societe \notin perturbees =>
    /\ aJour => carte[r.societe] = r.pin
    /\ hebdo = "envoi" /\ HebdoActuelle =>
         carte[r.societe] = r.pin \/ r \in hebdoReste

HebdoInv == Horaires /\ ResteActuel /\ Badges

LEMMA HebdoInit == Init => HebdoInv
BY DEF Init, HebdoInv, Horaires, ResteActuel, Badges, HebdoActuelle,
       TacheActive, EnCours, Appels

\* Dates of consecutive instants.
LEMMA InstantSuivant ==
  ASSUME NEW i \in Instants, i < Len(Calendrier)
  PROVE  /\ Calendrier[i].annee <= Calendrier[i + 1].annee
         /\ Calendrier[i + 1].taches # {} => MemeSemaine(i, i + 1)
<1>1. i + 1 \in 2 .. Len(Calendrier) /\ (i + 1) - 1 = i
  BY LongueurCalendrier DEF Instants
<1> QED
  BY <1>1, CalendrierAssumption DEF MemeSemaine

-----------------------------------------------------------------------------
\* A creation's step is one of its successes, or a rollback and an answer.
LEMMA CreationDecomposee ==
  ASSUME NEW a \in Creations, Creation(a)
  PROVE  \/ RecoitCreation(a) \/ Begin(a) \/ LiftValide(a) \/ Tirage(a)
         \/ Insertion(a) \/ Message(a) \/ Commit(a) \/ Accuse(a)
         \/ EnCours(a) /\ \E r \in {"400", "500"} : Annule(a, r)
BY DEF Creation, EtapeCreation, LiftInvalide, InsertionRefusee,
       SansPinActuel, AccusePerdu, EchecCreation, FinAttenteCreation,
       EnCours, Finis, Reponses, EtatsTransaction

\* What a creation's step leaves alone.
LEMMA CreationCadre ==
  ASSUME TypeInv, NEW a \in Creations, Creation(a)
  PROVE  /\ UNCHANGED <<horloge, societe, tacheHebdo, tacheAnnuel, perturbees>>
         /\ \A b \in Suppressions : etat'[b] = etat[b]
         /\ \A b \in Creations : EnCours(b)' =>
              (EnCours(b) /\ debut'[b] = debut[b]) \/ debut'[b] = instant
         /\ Commit(a) \/ UNCHANGED <<codesPin, carte>>
<1>1. /\ UNCHANGED <<horloge, societe, tacheHebdo, tacheAnnuel, perturbees>>
      /\ Commit(a) \/ UNCHANGED <<codesPin, carte>>
  BY CreationDecomposee
     DEF RecoitCreation, Begin, LiftValide, Annule, Tirage, Insertion,
         Message, Commit, Accuse, temoins, base
<1>2. /\ etat \in [Appels -> EtatsTransaction \cup EtatsSuppression
                     \cup Finis \cup {"libre", "pool", "accuse"}]
      /\ debut \in [Appels -> Instants] /\ a \in Appels
  BY DEF TypeInv, TypeOK, Appels
<1>3. \A b \in Appels : b # a => etat'[b] = etat[b] /\ debut'[b] = debut[b]
  BY <1>2, CreationDecomposee
     DEF RecoitCreation, Begin, LiftValide, Annule, Tirage, Insertion,
         SemaineSuivante, Message, Commit, Accuse
<1>4. (EnCours(a) /\ debut'[a] = debut[a]) \/ debut'[a] = instant
  <2>1. CASE RecoitCreation(a)
    BY <1>2, <2>1 DEF RecoitCreation
  <2>2. CASE ~ RecoitCreation(a)
    BY <2>2, CreationDecomposee
       DEF Begin, LiftValide, Annule, Tirage, Insertion, Message, Commit,
           Accuse, EnCours, Finis, Reponses
  <2> QED
    BY <2>1, <2>2
<1> QED
  BY <1>1, <1>3, <1>4, ConstantesAssumption DEF EnCours, Appels

LEMMA HebdoCreation ==
  ASSUME TypeInv, Transactions, CleUnique, HebdoInv,
         NEW a \in Creations, Creation(a)
  PROVE  HebdoInv'
<1> USE DEF HebdoInv
<1>1. Horaires'
  BY CreationCadre, ConstantesAssumption
     DEF Horaires, horloge, tacheHebdo, tacheAnnuel, HebdoActuelle,
         MemeSemaine, AnneeNouvelle, EnCours, TacheActive
<1>2. codesPin \subseteq codesPin'
  BY CreationCadre DEF Commit
<1>3. ResteActuel'
  BY <1>2, CreationCadre
     DEF ResteActuel, horloge, tacheHebdo, HebdoActuelle, MemeSemaine,
         TacheActive
<1>4. Badges'
  <2>1. CASE UNCHANGED <<codesPin, carte>>
    BY <2>1, CreationCadre
       DEF Badges, horloge, tacheHebdo, HebdoActuelle, MemeSemaine,
           TacheActive, LigneDuJour
  <2>2. CASE Commit(a)
    <3> SUFFICES ASSUME NEW r \in codesPin', LigneDuJour(r)',
                        r.societe \notin perturbees',
                        aJour' \/ HebdoActuelle'
                 PROVE  \/ carte'[r.societe] = r.pin
                        \/ /\ r \in codesPin
                           /\ carte'[r.societe] = carte[r.societe]
      BY CreationCadre
         DEF Badges, horloge, tacheHebdo, HebdoActuelle, MemeSemaine,
             TacheActive, LigneDuJour
    <3>1. MemeSemaine(debut[a], instant)
      BY <2>2, CreationCadre
         DEF Horaires, Commit, EnCours, Finis, Reponses, horloge, tacheHebdo,
             HebdoActuelle, MemeSemaine, TacheActive
    <3>2. PICK r0 \in LigneActuelle(a) :
            carte' = [carte EXCEPT ![societe[a]] = r0.pin]
      BY <2>2 DEF Commit
    <3>3. /\ r0 \in ecrits[a] /\ r0.societe = societe[a]
          /\ r0.annee = Annee(a)
          /\ r0.semaine = Calendrier[debut[a]].semaine
      BY <3>2 DEF LigneActuelle, Transactions, TransactionEnOrdre
    <3>4. /\ r.annee = Calendrier[instant].annee
          /\ r.semaine = Calendrier[instant].semaine
      BY CreationCadre DEF LigneDuJour, horloge
    <3>5. r \in codesPin \cup ecrits[a]
      BY <2>2 DEF Commit
    <3>6. CASE r.societe = societe[a]
      <4>1. MemeCle(r, r0)
        BY <3>1, <3>3, <3>4, <3>6 DEF MemeCle, MemeSemaine, Annee
      <4>2. r = r0
        BY <3>3, <3>5, <4>1 DEF CleUnique, NonValidees
      <4> QED
        BY <3>2, <3>6, <4>2 DEF TypeInv, TypeOK, Appels
    <3>7. CASE r.societe # societe[a]
      <4>1. r \in codesPin
        BY <3>5, <3>7 DEF Transactions, TransactionEnOrdre
      <4> QED
        BY <3>2, <3>7, <4>1 DEF TypeInv, TypeOK, Lignes
    <3> QED
      BY <3>6, <3>7
  <2> QED
    BY <2>1, <2>2, CreationCadre
<1> QED
  BY <1>1, <1>3, <1>4

-----------------------------------------------------------------------------
LEMMA HebdoSuppression ==
  ASSUME TypeInv, HebdoInv, NEW a \in Suppressions, Suppression(a)
  PROVE  HebdoInv'
<1> USE DEF HebdoInv, TypeInv, TypeOK, Appels
<1>1. /\ UNCHANGED <<horloge, societe, tacheHebdo, tacheAnnuel>>
      /\ perturbees \subseteq perturbees' /\ perturbees' \subseteq Societes
      /\ \A r \in codesPin :
           r \in codesPin' \/ (r.societe = societe[a] /\ EnCours(a))
      /\ codesPin' \subseteq codesPin
      /\ \A s \in Societes :
           carte'[s] = carte[s] \/ (s = societe[a] /\ EnCours(a))
  <2>0. /\ societe[a] \in Societes /\ perturbees \subseteq Societes
        /\ carte \in [Societes -> Pins \cup {Aucun}]
    OBVIOUS
  <2> HIDE DEF HebdoInv, TypeInv, TypeOK, Appels
  <2>1. CASE RecoitSuppression(a)
    BY <2>0, <2>1 DEF RecoitSuppression, base
  <2>2. CASE Supprime(a)
    BY <2>0, <2>2 DEF Supprime, temoins, EnCours, Finis, Reponses
  <2>3. CASE MessageSuppression(a)
    BY <2>0, <2>3 DEF MessageSuppression, temoins, EnCours, Finis, Reponses
  <2>4. CASE AccuseSuppression(a) \/ EchecSuppression(a)
    BY <2>0, <2>4 DEF AccuseSuppression, EchecSuppression, base, temoins
  <2> QED
    BY <2>1, <2>2, <2>3, <2>4
       DEF Suppression, EtapeSuppression, FinAttenteSuppression
<1>2. \A b \in Creations : etat'[b] = etat[b] /\ debut'[b] = debut[b]
  BY CreationsIntactes DEF AutrePas
<1>3. \A b \in Suppressions : EnCours(b)' => societe[b] \in perturbees'
  <2>1. ASSUME NEW b \in Suppressions, b # a PROVE etat'[b] = etat[b]
    BY <2>1 DEF Suppression, RecoitSuppression, EtapeSuppression, Supprime,
         MessageSuppression, AccuseSuppression,
         EchecSuppression, FinAttenteSuppression
  <2>2. EnCours(a)' => societe[a] \in perturbees'
    BY DEF Horaires, Suppression, RecoitSuppression, EtapeSuppression,
         Supprime, MessageSuppression, AccuseSuppression,
         EchecSuppression,
         FinAttenteSuppression, temoins, EnCours, Finis, Reponses
  <2> QED
    BY <1>1, <2>1, <2>2 DEF Horaires, EnCours
<1>4. EnCours(a) => societe[a] \in perturbees
  BY DEF Horaires
<1>5. Horaires'
  BY <1>1, <1>2, <1>3
     DEF Horaires, horloge, tacheHebdo, tacheAnnuel, HebdoActuelle,
         MemeSemaine, AnneeNouvelle, EnCours, TacheActive
<1>6. ResteActuel'
  BY <1>1, <1>4
     DEF ResteActuel, horloge, tacheHebdo, HebdoActuelle, MemeSemaine,
         TacheActive
<1>7. Badges'
  <2>1. \A r \in codesPin : r.societe \in Societes
    BY DEF Lignes
  <2> QED
    BY <1>1, <1>4, <2>1
       DEF Badges, horloge, tacheHebdo, HebdoActuelle, MemeSemaine,
           TacheActive, LigneDuJour
<1> QED
  BY <1>5, <1>6, <1>7

LEMMA HebdoTache ==
  ASSUME TypeInv, CleUnique, HebdoInv, EtapeHebdo \/ EchecHebdo
  PROVE  HebdoInv'
<1> USE DEF HebdoInv, TypeInv, TypeOK
<1>1. CASE HebdoLit
  BY <1>1 DEF HebdoLit, Horaires, ResteActuel, Badges, base, horloge, appels,
       tacheAnnuel, temoins, HebdoActuelle, MemeSemaine, TacheActive,
       EnCours, AnneeNouvelle, LigneDuJour
<1>2. CASE HebdoEnvoie
  <2>1. PICK m \in hebdoReste :
          /\ carte' = [carte EXCEPT ![m.societe] = m.pin]
          /\ hebdoReste' = hebdoReste \ {m}
    BY <1>2 DEF HebdoEnvoie
  <2>2. UNCHANGED <<codesPin, horloge, appels, hebdo, hebdoDebut,
                    tacheAnnuel, perturbees>>
    BY <1>2 DEF HebdoEnvoie, temoins
  <2>3. Horaires'
    BY <2>2 DEF Horaires, horloge, appels, tacheAnnuel, HebdoActuelle,
         MemeSemaine, TacheActive, EnCours, AnneeNouvelle
  <2>4. ResteActuel'
    BY <2>1, <2>2 DEF ResteActuel, horloge, HebdoActuelle, MemeSemaine,
         TacheActive
  <2>5. Badges'
    <3> SUFFICES ASSUME NEW r \in codesPin, LigneDuJour(r),
                        r.societe \notin perturbees, aJour \/ HebdoActuelle
                 PROVE  \/ carte'[r.societe] = r.pin
                        \/ /\ carte'[r.societe] = carte[r.societe] /\ r # m
      BY <2>1, <2>2
         DEF Badges, horloge, HebdoActuelle, MemeSemaine, TacheActive,
             LigneDuJour
    <3>1. HebdoActuelle
      BY <1>2 DEF HebdoEnvoie, Horaires, HebdoActuelle, TacheActive
    <3>2. CASE m.societe = r.societe
      <4>1. MemeCle(m, r)
        BY <3>1, <3>2 DEF ResteActuel, HebdoActuelle, MemeSemaine,
             LigneDuJour, MemeCle
      <4>2. m \in codesPin
        BY <3>1, <3>2 DEF ResteActuel
      <4>3. m = r
        BY <4>1, <4>2 DEF CleUnique
      <4> QED
        BY <2>1, <4>3 DEF Lignes
    <3>3. CASE m.societe # r.societe
      BY <2>1, <3>3 DEF Lignes
    <3> QED
      BY <3>2, <3>3
  <2> QED
    BY <2>3, <2>4, <2>5
<1>3. CASE HebdoTermine
  BY <1>3 DEF HebdoTermine, Horaires, ResteActuel, Badges, base, appels,
       tacheAnnuel, temoins, HebdoActuelle, MemeSemaine, TacheActive,
       EnCours, AnneeNouvelle, LigneDuJour
<1>4. CASE EchecHebdo
  BY <1>4 DEF EchecHebdo, Horaires, ResteActuel, Badges, base, horloge,
       appels, tacheAnnuel, temoins, HebdoActuelle, MemeSemaine, TacheActive,
       EnCours, AnneeNouvelle, LigneDuJour
<1> QED
  BY <1>1, <1>2, <1>3, <1>4 DEF EtapeHebdo, FinAttenteHebdo

-----------------------------------------------------------------------------
\* The yearly task's steps, by what they do to the table and the cards.
LEMMA HebdoAnnuelle ==
  ASSUME TypeInv, HebdoInv, EtapeAnnuelle \/ EchecAnnuel
  PROVE  HebdoInv'
<1> USE DEF HebdoInv, TypeInv, TypeOK
<1>0. \A r \in codesPin \cup hebdoReste :
        r.societe \in Societes /\ r.annee \in Nat
  BY DEF Lignes
<1>1. CASE AnnuelPurge
  <2>1. /\ UNCHANGED <<horloge, appels, tacheHebdo, annuelDebut, carte,
                       perturbees>>
        /\ codesPin' = {r \in codesPin : r.annee + 1 # AnneeNouvelle}
        /\ annuel = "purge" /\ annuel' = "liste"
    BY <1>1 DEF AnnuelPurge, temoins
  <2>2. Horaires'
    BY <2>1 DEF Horaires, horloge, appels, tacheHebdo, HebdoActuelle,
         MemeSemaine, TacheActive, EnCours, AnneeNouvelle
  <2>3. ASSUME NEW r \in hebdoReste, HebdoActuelle, r \in codesPin
        PROVE  r \in codesPin'
    <3>1. r.annee = Calendrier[instant].annee
      BY <2>3 DEF ResteActuel, HebdoActuelle, MemeSemaine
    <3>2. AnneeNouvelle <= r.annee
      BY <2>1, <3>1 DEF Horaires, TacheActive
    <3>3. r.annee \in Nat /\ AnneeNouvelle \in Nat
      BY <1>0, DateType DEF AnneeNouvelle
    <3> QED
      BY <2>1, <2>3, <3>2, <3>3
  <2>4. ResteActuel'
    BY <2>1, <2>3 DEF ResteActuel, horloge, tacheHebdo, HebdoActuelle,
         MemeSemaine, TacheActive
  <2>5. Badges'
    BY <2>1 DEF Badges, horloge, tacheHebdo, HebdoActuelle, MemeSemaine,
         TacheActive, LigneDuJour
  <2> QED
    BY <2>2, <2>4, <2>5
<1>2. CASE AnnuelListe \/ AnnuelTirage \/ AnnuelTermine \/ EchecAnnuel
  <2>1. /\ UNCHANGED <<base, horloge, appels, tacheHebdo, annuelDebut,
                       annuelSociete, perturbees>>
        /\ TacheActive(annuel)
        /\ annuel' \in {"tirage", "merge", "message"} =>
             annuel \in {"tirage", "merge", "message"}
    BY <1>2 DEF AnnuelListe, AnnuelTirage, AnnuelTermine, EchecAnnuel,
         temoins, TacheActive
  <2> QED
    BY <2>1 DEF Horaires, ResteActuel, Badges, base, horloge, appels,
         tacheHebdo, HebdoActuelle, MemeSemaine, TacheActive, EnCours,
         AnneeNouvelle, LigneDuJour
<1>3. CASE AnnuelSociete
  <2>1. /\ UNCHANGED <<base, horloge, appels, tacheHebdo, annuelDebut>>
        /\ perturbees \subseteq perturbees'
        /\ annuelSociete' \in perturbees'
        /\ TacheActive(annuel)
    BY <1>3 DEF AnnuelSociete, TacheActive
  <2> QED
    BY <2>1 DEF Horaires, ResteActuel, Badges, base, horloge, appels,
         tacheHebdo, HebdoActuelle, MemeSemaine, TacheActive, EnCours,
         AnneeNouvelle, LigneDuJour
<1>4. CASE AnnuelMerge \/ AnnuelMessage
  <2>1. /\ UNCHANGED <<horloge, appels, tacheHebdo, annuelDebut,
                       annuelSociete, perturbees>>
        /\ annuel \in {"merge", "message"}
    BY <1>4 DEF AnnuelMerge, AnnuelMessage, temoins
  <2>2. annuelSociete \in perturbees
    BY <2>1 DEF Horaires
  <2>3. \A r : r.societe # annuelSociete =>
          /\ r \in codesPin' <=> r \in codesPin
          /\ r.societe \in Societes => carte'[r.societe] = carte[r.societe]
    <3>1. CASE AnnuelMerge
      BY <3>1 DEF AnnuelMerge, MemeCle, LigneAnnuelle, Ligne
    <3>2. CASE AnnuelMessage
      BY <3>2 DEF AnnuelMessage
    <3> QED
      BY <1>4, <3>1, <3>2
  <2>4. Horaires'
    BY <2>1, <2>2 DEF Horaires, horloge, appels, tacheHebdo, HebdoActuelle,
         MemeSemaine, TacheActive, EnCours, AnneeNouvelle
  <2>5. ResteActuel'
    BY <2>1, <2>2, <2>3 DEF ResteActuel, horloge, tacheHebdo, HebdoActuelle,
         MemeSemaine, TacheActive
  <2>6. Badges'
    <3> SUFFICES ASSUME NEW r \in codesPin', r.societe \notin perturbees'
                 PROVE  r \in codesPin /\ carte'[r.societe] = carte[r.societe]
      BY <2>1 DEF Badges, horloge, tacheHebdo, HebdoActuelle, MemeSemaine,
           TacheActive, LigneDuJour
    <3> QED
      BY <1>0, <2>1, <2>2, <2>3
  <2> QED
    BY <2>4, <2>5, <2>6
<1> QED
  BY <1>1, <1>2, <1>3, <1>4 DEF EtapeAnnuelle, FinAttenteAnnuel

-----------------------------------------------------------------------------
\* The process stops or comes back.
LEMMA HebdoProcessus ==
  ASSUME TypeInv, HebdoInv, Arret \/ Redemarre \/ UNCHANGED vars
  PROVE  HebdoInv'
<1> USE DEF HebdoInv, TypeInv, TypeOK
<1>1. CASE Arret
  <2>1. /\ UNCHANGED <<base, instant, aJour, debut, societe, perturbees>>
        /\ \A a \in Appels : ~ EnCours(a)'
        /\ hebdo' = "repos" /\ hebdoReste' = {} /\ annuel' = "repos"
    BY <1>1 DEF Arret, temoins, EnCours, Finis
  <2> QED
    BY <2>1 DEF Horaires, ResteActuel, Badges, base, HebdoActuelle,
         TacheActive, LigneDuJour, Appels
<1>2. CASE Redemarre \/ UNCHANGED vars
  <2>1. UNCHANGED <<base, instant, aJour, appels, tacheHebdo, tacheAnnuel,
                    temoins>>
    BY <1>2 DEF Redemarre, vars, horloge
  <2> QED
    BY <2>1 DEF Horaires, ResteActuel, Badges, base, appels, tacheHebdo,
         tacheAnnuel, temoins, HebdoActuelle, MemeSemaine, TacheActive,
         EnCours, AnneeNouvelle, LigneDuJour
<1> QED
  BY <1>1, <1>2

-----------------------------------------------------------------------------
\* Midnight, or a task's hour.  In the same week nothing is forgotten; into
\* another one, no task starts, aJour falls and who is still at work carries
\* the date of the week before.
LEMMA HebdoInstant ==
  ASSUME TypeInv, HebdoInv, AvanceInstant
  PROVE  HebdoInv'
<1> DEFINE j == instant + 1
<1> DEFINE lanceH == Declenche("hebdo", j)
<1> DEFINE lanceA == Declenche("annuel", j)
<1>1. /\ instant' = j /\ PeutAvancer(j)
      /\ UNCHANGED <<codesPin, carte, etat, debut, societe, hebdoReste,
                     annuelSociete>>
  BY DEF AvanceInstant, base, appels
<1>2. IF MemeSemaine(instant, j)
      THEN aJour' = aJour /\ perturbees' = perturbees
      ELSE /\ aJour' = FALSE
           /\ perturbees' =
                {societe[a] : a \in {b \in Suppressions : EnCours(b)}}
                \cup (IF TacheActive(annuel) THEN perturbees ELSE {})
  BY DEF AvanceInstant
<1>3. /\ lanceH => hebdo' = "lit" /\ hebdoDebut' = j
      /\ ~ lanceH => hebdo' = hebdo /\ hebdoDebut' = hebdoDebut
      /\ lanceA => annuel' = "purge" /\ annuelDebut' = j
      /\ ~ lanceA => annuel' = annuel /\ annuelDebut' = annuelDebut
  BY DEF AvanceInstant
<1>4. /\ instant \in Instants /\ j \in Instants
      /\ Calendrier[instant].annee <= Calendrier[j].annee
      /\ Calendrier[instant].annee \in Nat /\ Calendrier[j].annee \in Nat
      /\ lanceH \/ lanceA => MemeSemaine(instant, j)
  <2>1. instant \in Instants /\ instant < Len(Calendrier)
    BY DEF AvanceInstant, TypeInv, TypeOK
  <2>2. j \in Instants
    BY <2>1, LongueurCalendrier DEF Instants
  <2> QED
    BY <2>1, <2>2, InstantSuivant, DateType DEF Declenche
<1>5. /\ \A a \in Appels : EnCours(a) => debut[a] = instant
      /\ TacheActive(hebdo) => hebdoDebut = instant /\ ~ lanceH
      /\ TacheActive(annuel) => annuelDebut = instant /\ ~ lanceA
  BY <1>1 DEF PeutAvancer, Declenche
<1> HIDE DEF j, lanceH, lanceA
<1>6. /\ aJour' => MemeSemaine(instant, j)
      /\ HebdoActuelle' => MemeSemaine(instant, j)
      /\ HebdoActuelle' /\ ~ lanceH => HebdoActuelle
  <2>1. aJour' => MemeSemaine(instant, j)
    BY <1>2
  <2>2. HebdoActuelle' /\ ~ lanceH =>
          /\ HebdoActuelle /\ MemeSemaine(instant, j)
    BY <1>1, <1>3, <1>5 DEF HebdoActuelle, TacheActive, MemeSemaine
  <2> QED
    BY <1>4, <2>1, <2>2
<1>7. Horaires'
  <2>1. (TacheActive(annuel) => AnneeNouvelle <= Calendrier[instant].annee)'
    BY <1>1, <1>3, <1>4, <1>5 DEF TacheActive, AnneeNouvelle
  <2>2. (TacheActive(hebdo) /\ aJour => MemeSemaine(hebdoDebut, instant))'
    BY <1>1, <1>3, <1>5, <1>6 DEF TacheActive, MemeSemaine
  <2>3. (aJour \/ HebdoActuelle =>
           \A a \in Creations : EnCours(a) => MemeSemaine(debut[a], instant))'
    BY <1>1, <1>5, <1>6 DEF EnCours, MemeSemaine, Appels
  <2>4. (\A a \in Suppressions : EnCours(a) => societe[a] \in perturbees)'
    BY <1>1, <1>2 DEF EnCours, HebdoInv, Horaires
  <2>5. (annuel \in {"tirage", "merge", "message"} =>
           annuelSociete \in perturbees)'
    BY <1>1, <1>2, <1>3 DEF HebdoInv, Horaires, TacheActive
  <2> QED
    BY <2>1, <2>2, <2>3, <2>4, <2>5 DEF Horaires
<1>8. ResteActuel'
  <2>1. CASE lanceH
    <3>1. hebdoReste = {}
      BY <1>5, <2>1 DEF HebdoInv, ResteActuel, TacheActive
    <3> QED
      BY <1>1, <3>1 DEF ResteActuel
  <2>2. CASE ~ lanceH
    BY <1>1, <1>2, <1>3, <1>6, <2>2 DEF HebdoInv, ResteActuel
  <2> QED
    BY <2>1, <2>2
<1>9. Badges'
  <2> SUFFICES ASSUME NEW r \in codesPin', LigneDuJour(r)',
                      r.societe \notin perturbees', aJour' \/ HebdoActuelle'
               PROVE  /\ aJour' => carte'[r.societe] = r.pin
                      /\ hebdo' = "envoi" /\ HebdoActuelle' =>
                           carte'[r.societe] = r.pin \/ r \in hebdoReste'
    BY DEF Badges
  <2>1. LigneDuJour(r) /\ r.societe \notin perturbees /\ r \in codesPin
    BY <1>1, <1>2, <1>6 DEF LigneDuJour, MemeSemaine
  <2>2. aJour' => aJour
    BY <1>2
  <2>3. hebdo' = "envoi" => hebdo = "envoi" /\ ~ lanceH
    BY <1>3
  <2> QED
    BY <1>1, <1>6, <2>1, <2>2, <2>3 DEF HebdoInv, Badges
<1> QED
  BY <1>7, <1>8, <1>9 DEF HebdoInv

LEMMA HebdoSuivant ==
  TypeInv /\ Transactions /\ CleUnique /\ HebdoInv /\ [Next]_vars => HebdoInv'
BY HebdoCreation, HebdoSuppression, HebdoTache, HebdoAnnuelle, HebdoProcessus,
   HebdoInstant DEF Next

\* Once a weekly run has succeeded, and until the week ends, the card of each
\* company carries its PIN of the week: whatever creations the run overlapped,
\* whatever failed, and through the purge of the yearly task.
THEOREM BadgeDeLaSemaineCorrect == Spec => []BadgeDeLaSemaine
<1>1. HebdoInv => BadgeDeLaSemaine
  BY DEF HebdoInv, Badges, BadgeDeLaSemaine, LigneDuJour
<1>2. Init => CleUnique
  BY DEF Init, CleUnique, NonValidees
<1>3. Spec => [](TypeInv /\ Transactions /\ CleUnique /\ HebdoInv)
  BY <1>2, HebdoInit, HebdoSuivant, TypeInit, TypeSuivant, TransactionsInit,
     TransactionsSuivant, CleUniqueSuivant, PTL DEF Spec
<1> QED
  BY <1>1, <1>3, PTL

=============================================================================
