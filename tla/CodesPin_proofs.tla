-------------------------- MODULE CodesPin_proofs ---------------------------
(***************************************************************************)
(* What CodesPin guarantees for any number of companies, PINs, weeks,      *)
(* calls, any calendar, any pool size and both isolation modes.            *)
(***************************************************************************)
EXTENDS CodesPin, SequenceTheorems, TLAPS

\* The PIN drawn is defined where the code uses it: TypeOK is not inductive
\* without it.
PinsTires ==
  /\ \A a \in Creations : etat[a] = "insertion" => pin[a] \in Pins
  /\ annuel \in {"merge", "message"} => annuelPin \in Pins

TypeInv == TypeOK /\ PinsTires

-----------------------------------------------------------------------------
\* The date an index of the calendar gives.
LEMMA DateType ==
  ASSUME NEW i \in Instants
  PROVE  /\ Calendrier[i].annee \in Nat
         /\ Calendrier[i].semaine \in Nat \ {0}
         /\ Calendrier[i].taches \in SUBSET {"hebdo", "annuel"}
<1> DEFINE Date == [annee : Nat, semaine : Nat \ {0},
                    taches : SUBSET {"hebdo", "annuel"}]
<1>1. Calendrier \in Seq(Date)
  BY CalendrierAssumption
<1> HIDE DEF Date
<1>2. Calendrier[i] \in Date
  BY <1>1, ElementOfSeq DEF Instants
<1> QED
  BY <1>2 DEF Date

\* The clock's instants are the positive numbers up to the calendar's length.
LEMMA LongueurCalendrier == Len(Calendrier) \in Nat \ {0}
<1> DEFINE Date == [annee : Nat, semaine : Nat \ {0},
                    taches : SUBSET {"hebdo", "annuel"}]
<1>1. Calendrier \in Seq(Date) /\ Len(Calendrier) > 0
  BY CalendrierAssumption
<1> HIDE DEF Date
<1> QED
  BY <1>1, LenProperties

LEMMA LigneType ==
  ASSUME NEW s \in Societes, NEW w \in Semaines, NEW y \in Nat, NEW p \in Pins
  PROVE  Ligne(s, w, y, p) \in Lignes
BY DEF Ligne, Lignes

LEMMA TypeInit == Init => TypeInv
<1> SUFFICES ASSUME Init PROVE TypeInv
  OBVIOUS
<1>1. 1 \in Instants /\ 1 \in Semaines
  BY ConstantesAssumption, LongueurCalendrier DEF Instants, Semaines
<1>2. TypeOK
  BY <1>1 DEF Init, TypeOK
<1>3. PinsTires
  BY DEF Init, PinsTires, Appels
<1> QED
  BY <1>2, <1>3 DEF TypeInv

\* Every step keeps the types: one case per action.
LEMMA TypeSuivant == TypeInv /\ [Next]_vars => TypeInv'
<1> SUFFICES ASSUME TypeInv, [Next]_vars PROVE TypeInv'
  OBVIOUS
<1> USE DEF TypeInv, TypeOK, PinsTires
<1>1. ASSUME NEW a \in Creations, Creation(a) PROVE TypeInv'
  <2> USE <1>1 DEF Appels, horloge, base, tacheHebdo, tacheAnnuel, temoins
  <2>1. CASE RecoitCreation(a)
    BY <2>1 DEF RecoitCreation
  <2>2. CASE Begin(a)
    BY <2>2 DEF Begin, EtatsTransaction
  <2>3. CASE LiftValide(a)
    BY <2>3, ConstantesAssumption DEF LiftValide, Semaines, EtatsTransaction
  <2>4. ASSUME NEW r \in {"400", "500"}, Annule(a, r) PROVE TypeInv'
    BY <2>4 DEF Annule, Finis, Reponses
  <2>5. CASE Tirage(a)
    BY <2>5 DEF Tirage, EtatsTransaction
  <2>6. CASE Insertion(a)
    <3>1. LigneTiree(a) \in Lignes
      BY <2>6, DateType, LigneType DEF Insertion, LigneTiree, Annee
    <3>2. ecrits' \in [Creations -> SUBSET Lignes]
      BY <2>6, <3>1 DEF Insertion
    <3>3. semaine' \in [Creations -> Semaines]
      BY <2>6, ConstantesAssumption DEF Insertion, SemaineSuivante, Semaines
    <3>4. /\ etat' \in [Appels -> EtatsTransaction \cup EtatsSuppression
                          \cup Finis \cup {"libre", "pool", "accuse"}]
          /\ \A b \in Creations : etat'[b] = "insertion" =>
               etat[b] = "insertion"
      BY <2>6 DEF Insertion, SemaineSuivante, EtatsTransaction
    <3> QED
      BY <2>6, <3>2, <3>3, <3>4 DEF Insertion
  <2>7. CASE Message(a)
    BY <2>7 DEF Message, EtatsTransaction
  <2>8. CASE Commit(a)
    <3>1. \A r \in LigneActuelle(a) : r.pin \in Pins
      BY DEF LigneActuelle, Lignes
    <3>2. carte' \in [Societes -> Pins \cup {Aucun}]
      BY <2>8, <3>1 DEF Commit
    <3> QED
      BY <2>8, <3>2 DEF Commit
  <2>9. CASE Accuse(a)
    BY <2>9 DEF Accuse, Finis, Reponses
  <2> QED
    BY <2>1, <2>2, <2>3, <2>4, <2>5, <2>6, <2>7, <2>8, <2>9
       DEF Creation, EtapeCreation, LiftInvalide, InsertionRefusee,
           SansPinActuel, AccusePerdu, EchecCreation, FinAttenteCreation
<1>2. ASSUME NEW a \in Suppressions, Suppression(a) PROVE TypeInv'
  <2> USE <1>2, ConstantesAssumption
      DEF Appels, horloge, tacheHebdo, tacheAnnuel, temoins
  <2>1. CASE RecoitSuppression(a)
    BY <2>1 DEF RecoitSuppression, EtatsSuppression, base
  <2>2. CASE Supprime(a)
    BY <2>2 DEF Supprime, EtatsSuppression
  <2>3. CASE MessageSuppression(a)
    BY <2>3 DEF MessageSuppression, EtatsSuppression
  <2>4. CASE AccuseSuppression(a)
    BY <2>4 DEF AccuseSuppression, Finis, Reponses, base
  <2>5. CASE EchecSuppression(a)
    BY <2>5 DEF EchecSuppression, Finis, Reponses, base
  <2> QED
    BY <2>1, <2>2, <2>3, <2>4, <2>5
       DEF Suppression, EtapeSuppression, FinAttenteSuppression
<1>3. CASE EtapeHebdo \/ EchecHebdo
  <2> USE DEF horloge, base, appels, tacheAnnuel, temoins
  <2>1. CASE HebdoLit
    BY <2>1 DEF HebdoLit
  <2>2. CASE HebdoEnvoie
    BY <2>2 DEF HebdoEnvoie, Lignes
  <2>3. CASE HebdoTermine
    BY <2>3 DEF HebdoTermine, MemeSemaine
  <2>4. CASE EchecHebdo
    BY <2>4 DEF EchecHebdo
  <2> QED
    BY <1>3, <2>1, <2>2, <2>3, <2>4 DEF EtapeHebdo, FinAttenteHebdo
<1>4. CASE EtapeAnnuelle \/ EchecAnnuel
  <2> USE DEF horloge, base, appels, tacheHebdo, temoins
  <2>1. CASE AnnuelPurge
    BY <2>1 DEF AnnuelPurge
  <2>2. CASE AnnuelListe
    BY <2>2 DEF AnnuelListe, Lignes
  <2>3. CASE AnnuelSociete
    BY <2>3, ConstantesAssumption DEF AnnuelSociete, Semaines
  <2>4. CASE AnnuelTirage
    BY <2>4 DEF AnnuelTirage
  <2>5. ASSUME SuiteAnnuelle
        PROVE  annuel' \in {"tirage", "societe"} /\ annuelSemaine' \in Semaines
    BY <2>5, ConstantesAssumption DEF SuiteAnnuelle, Semaines
  <2>6. CASE AnnuelMerge
    <3>1. LigneAnnuelle \in Lignes
      BY <2>6, DateType, LigneType DEF AnnuelMerge, LigneAnnuelle, AnneeNouvelle
    <3> QED
      BY <2>6, <2>5, <3>1 DEF AnnuelMerge
  <2>7. CASE AnnuelMessage
    BY <2>7, <2>5 DEF AnnuelMessage
  <2>8. CASE AnnuelTermine
    BY <2>8 DEF AnnuelTermine
  <2>9. CASE EchecAnnuel
    BY <2>9 DEF EchecAnnuel
  <2> QED
    BY <1>4, <2>1, <2>2, <2>3, <2>4, <2>6, <2>7, <2>8, <2>9
       DEF EtapeAnnuelle, FinAttenteAnnuel
<1>5. CASE Arret
  <2>1. etat' \in [Appels -> EtatsTransaction \cup EtatsSuppression
                        \cup Finis \cup {"libre", "pool", "accuse"}]
    BY <1>5 DEF Arret, Finis
  <2>2. \A a \in Appels : etat'[a] = "insertion" => etat[a] = "insertion"
    BY <1>5 DEF Arret
  <2> QED
    BY <1>5, <2>1, <2>2 DEF Arret, base, temoins, Appels
<1>6. CASE Redemarre
  BY <1>6 DEF Redemarre, base, appels, tacheHebdo, tacheAnnuel, temoins
<1>7. CASE AvanceInstant
  <2>1. instant + 1 \in Instants
    BY <1>7, LongueurCalendrier DEF AvanceInstant, Instants
  <2>2. perturbees' \in SUBSET Societes
    BY <1>7 DEF AvanceInstant, Appels
  <2> QED
    BY <1>7, <2>1, <2>2 DEF AvanceInstant, base, appels
<1>8. CASE UNCHANGED vars
  BY <1>8 DEF vars, base, horloge, appels, tacheHebdo, tacheAnnuel, temoins
<1> QED
  BY <1>1, <1>2, <1>3, <1>4, <1>5, <1>6, <1>7, <1>8 DEF Next

\* The types hold in every reachable state.
THEOREM TypeCorrect == Spec => []TypeOK
<1>1. Spec => []TypeInv
  BY TypeInit, TypeSuivant, PTL DEF Spec
<1>2. TypeInv => TypeOK
  BY DEF TypeInv
<1> QED
  BY <1>1, <1>2, PTL

-----------------------------------------------------------------------------
(***************************************************************************)
(* The open transactions.                                                  *)
(***************************************************************************)

\* What the local variables of a creation say of the rows it has written.
TransactionEnOrdre(a) ==
  /\ etat[a] \notin {"tirage", "insertion", "file", "commit"} => ecrits[a] = {}
  /\ \A r \in ecrits[a] : r.societe = societe[a] /\ r.annee = Annee(a)
  /\ etat[a] \in {"tirage", "insertion"} =>
       \A w \in Semaines : (\E r \in ecrits[a] : r.semaine = w) <=> w < semaine[a]
  /\ etat[a] \in {"file", "commit"} =>
       \A w \in Semaines : \E r \in ecrits[a] : r.semaine = w
  /\ a \in connexions <=> etat[a] \in EtatsTransaction \cup {"accuse"}

Transactions == \A a \in Creations : TransactionEnOrdre(a)

\* The steps that are no creation's and do not stop the process.
AutrePas ==
  \/ \E a \in Suppressions : Suppression(a)
  \/ EtapeHebdo \/ EchecHebdo \/ EtapeAnnuelle \/ EchecAnnuel
  \/ Redemarre \/ AvanceInstant \/ UNCHANGED vars

LEMMA PasDeNext ==
  [Next]_vars => (\E a \in Creations : Creation(a)) \/ Arret \/ AutrePas
BY DEF Next, AutrePas

\* They leave every creation alone.
LEMMA CreationsIntactes ==
  ASSUME TypeInv, AutrePas
  PROVE  /\ UNCHANGED <<societe, semaine, pin, ecrits, connexions>>
         /\ \A c \in Creations : etat'[c] = etat[c] /\ debut'[c] = debut[c]
<1>1. ASSUME NEW a \in Suppressions, Suppression(a)
      PROVE  /\ UNCHANGED <<societe, semaine, pin, ecrits, connexions>>
             /\ \A c \in Creations : etat'[c] = etat[c] /\ debut'[c] = debut[c]
  <2>1. a \notin Creations
    BY <1>1, ConstantesAssumption
  <2> QED
    BY <1>1, <2>1
       DEF Suppression, RecoitSuppression, EtapeSuppression, Supprime,
           MessageSuppression, AccuseSuppression,
           FinAttenteSuppression, EchecSuppression,
           TypeInv, TypeOK, Appels
<1>2. ASSUME EtapeHebdo \/ EchecHebdo \/ EtapeAnnuelle \/ EchecAnnuel
      PROVE  UNCHANGED appels
  BY <1>2
     DEF EtapeHebdo, HebdoLit, HebdoEnvoie, HebdoTermine, FinAttenteHebdo,
         EchecHebdo, EtapeAnnuelle, AnnuelPurge, AnnuelListe, AnnuelSociete,
         AnnuelTirage, AnnuelMerge, AnnuelMessage, AnnuelTermine,
         FinAttenteAnnuel, EchecAnnuel
<1>3. ASSUME Redemarre \/ AvanceInstant \/ UNCHANGED vars PROVE UNCHANGED appels
  BY <1>3 DEF Redemarre, AvanceInstant, vars
<1> QED
  BY <1>1, <1>2, <1>3 DEF AutrePas, appels

\* A creation's step leaves the other creations alone.
LEMMA AutreCreation ==
  ASSUME TypeInv, NEW a \in Creations, Creation(a), NEW b \in Creations, b # a
  PROVE  /\ etat'[b] = etat[b] /\ debut'[b] = debut[b]
         /\ semaine'[b] = semaine[b] /\ pin'[b] = pin[b]
         /\ ecrits'[b] = ecrits[b] /\ societe' = societe
         /\ b \in connexions' <=> b \in connexions
BY DEF Creation, RecoitCreation, EtapeCreation, Begin, LiftValide,
       LiftInvalide, Annule, Tirage, Insertion, SemaineSuivante,
       InsertionRefusee, Message, SansPinActuel, Commit, Accuse, AccusePerdu,
       EchecCreation, FinAttenteCreation, TypeInv, TypeOK, Appels

LEMMA TransactionsInit == Init => Transactions
BY DEF Init, Transactions, TransactionEnOrdre, Appels, EtatsTransaction

\* A step of creation a keeps its own transaction in order.
LEMMA TransactionPropre ==
  ASSUME TypeInv, Transactions, NEW a \in Creations, Creation(a)
  PROVE  TransactionEnOrdre(a)'
<1> USE DEF TypeInv, TypeOK, Appels, Annee, EtatsTransaction
<1>0. TransactionEnOrdre(a)
  BY DEF Transactions
<1>1. CASE RecoitCreation(a)
  BY <1>0, <1>1 DEF RecoitCreation, TransactionEnOrdre
<1>2. CASE Begin(a)
  BY <1>0, <1>2 DEF Begin, TransactionEnOrdre
<1>3. CASE LiftValide(a)
  BY <1>0, <1>3 DEF LiftValide, TransactionEnOrdre, Semaines
<1>4. ASSUME NEW r \in {"400", "500"}, Annule(a, r)
      PROVE  TransactionEnOrdre(a)'
  BY <1>0, <1>4 DEF Annule, TransactionEnOrdre
<1>5. CASE Tirage(a)
  BY <1>0, <1>5 DEF Tirage, TransactionEnOrdre
<1>6. CASE Insertion(a)
  <2> DEFINE l == LigneTiree(a)
  <2>1. /\ l.societe = societe[a] /\ l.annee = Annee(a)
        /\ l.semaine = semaine[a]
    BY DEF LigneTiree, Ligne
  <2>2. ecrits'[a] = ecrits[a] \cup {l} /\ UNCHANGED <<societe, debut>>
    BY <1>6 DEF Insertion
  <2>3. a \in connexions' /\ etat'[a] \in {"tirage", "file"}
    BY <1>0, <1>6 DEF Insertion, SemaineSuivante, TransactionEnOrdre
  <2>4. \A r \in ecrits'[a] : r.societe = societe'[a] /\ r.annee = Annee(a)'
    BY <1>0, <2>1, <2>2 DEF TransactionEnOrdre
  <2>5. \A w \in Semaines :
          (\E r \in ecrits'[a] : r.semaine = w) <=> w <= semaine[a]
    <3>1. \A w \in Semaines :
            (\E r \in ecrits[a] : r.semaine = w) <=> w < semaine[a]
      BY <1>0, <1>6 DEF Insertion, TransactionEnOrdre
    <3>2. semaine[a] \in Semaines
      OBVIOUS
    <3>3. \A w \in Semaines :
            (\E r \in ecrits'[a] : r.semaine = w)
              <=> (\E r \in ecrits[a] : r.semaine = w) \/ w = semaine[a]
      BY <2>1, <2>2
    <3> HIDE DEF TypeInv, TypeOK, l
    <3> QED
      BY <3>1, <3>2, <3>3, ConstantesAssumption DEF Semaines
  <2>6. CASE semaine[a] < DerniereSemaine
    <3>1. etat'[a] = "tirage" /\ semaine'[a] = semaine[a] + 1
      BY <1>6, <2>6 DEF Insertion, SemaineSuivante
    <3>2. \A w \in Semaines : w <= semaine[a] <=> w < semaine'[a]
      BY <3>1, ConstantesAssumption DEF Semaines
    <3> QED
      BY <2>3, <2>4, <2>5, <3>1, <3>2 DEF TransactionEnOrdre
  <2>7. CASE ~ (semaine[a] < DerniereSemaine)
    <3>1. etat'[a] = "file"
      BY <1>6, <2>7 DEF Insertion, SemaineSuivante
    <3>2. \A w \in Semaines : w <= semaine[a]
      BY <2>7, ConstantesAssumption DEF Semaines
    <3> QED
      BY <2>3, <2>4, <2>5, <3>1, <3>2 DEF TransactionEnOrdre
  <2> QED
    BY <2>6, <2>7
<1>7. CASE Message(a)
  BY <1>0, <1>7 DEF Message, TransactionEnOrdre
<1>8. CASE Commit(a)
  BY <1>0, <1>8 DEF Commit, TransactionEnOrdre
<1>9. CASE Accuse(a)
  BY <1>0, <1>9 DEF Accuse, TransactionEnOrdre
<1> QED
  BY <1>1, <1>2, <1>3, <1>4, <1>5, <1>6, <1>7, <1>8, <1>9
     DEF Creation, EtapeCreation, LiftInvalide, InsertionRefusee,
         SansPinActuel, AccusePerdu, EchecCreation, FinAttenteCreation

LEMMA TransactionsSuivant ==
  TypeInv /\ Transactions /\ [Next]_vars => Transactions'
<1> SUFFICES ASSUME TypeInv, Transactions, [Next]_vars,
                    NEW b \in Creations
             PROVE  TransactionEnOrdre(b)'
  BY DEF Transactions
<1>0. TransactionEnOrdre(b)
  BY DEF Transactions
<1>1. ASSUME NEW a \in Creations, Creation(a) PROVE TransactionEnOrdre(b)'
  <2>1. CASE b = a
    BY <1>1, <2>1, TransactionPropre
  <2>2. CASE b # a
    BY <1>0, <1>1, <2>2, AutreCreation DEF TransactionEnOrdre, Annee
  <2> QED
    BY <2>1, <2>2
<1>2. CASE Arret
  <2>1. ecrits'[b] = {} /\ b \notin connexions'
    BY <1>2 DEF Arret
  <2>2. etat'[b] \notin EtatsTransaction \cup {"accuse"}
    BY <1>2 DEF Arret, EnCours, Finis, Reponses, EtatsTransaction, Appels
  <2> QED
    BY <2>1, <2>2 DEF TransactionEnOrdre, EtatsTransaction
<1>3. CASE AutrePas
  BY <1>0, <1>3, CreationsIntactes DEF TransactionEnOrdre, Annee
<1> QED
  BY <1>1, <1>2, <1>3, PasDeNext

\* No answered call keeps a connection or an open row.
THEOREM SansFuiteCorrect == Spec => []SansFuite
<1>1. TypeInv /\ Transactions => SansFuite
  BY DEF Transactions, TransactionEnOrdre, SansFuite, EtatsTransaction, Finis,
         Reponses
<1>2. Spec => [](TypeInv /\ Transactions)
  BY TypeInit, TypeSuivant, TransactionsInit, TransactionsSuivant, PTL DEF Spec
<1> QED
  BY <1>1, <1>2, PTL

-----------------------------------------------------------------------------
(***************************************************************************)
(* All the weeks of a year or none.                                        *)
(***************************************************************************)

\* The yearly task records a company before it touches the company's rows.
Reecriture ==
  annuel \in {"tirage", "merge", "message"} => annuelSociete \in reecrites

\* Which steps change the table, and how.
LEMMA TableIntacte ==
  ASSUME TypeInv, [Next]_vars
  PROVE  \/ UNCHANGED <<codesPin, attribues>>
         \/ \E a \in Creations : Commit(a)
         \/ \E a \in Suppressions : Supprime(a)
         \/ AnnuelPurge \/ AnnuelMerge
<1>1. ASSUME NEW a \in Creations, Creation(a), ~ Commit(a)
      PROVE  UNCHANGED <<codesPin, attribues>>
  BY <1>1 DEF Creation, RecoitCreation, EtapeCreation, Begin, LiftValide,
       LiftInvalide, Annule, Tirage, Insertion, InsertionRefusee, Message,
       SansPinActuel, Accuse, AccusePerdu, EchecCreation, FinAttenteCreation,
       base
<1>2. ASSUME NEW a \in Suppressions, Suppression(a), ~ Supprime(a)
      PROVE  UNCHANGED <<codesPin, attribues>>
  BY <1>2 DEF Suppression, RecoitSuppression, EtapeSuppression,
       MessageSuppression, AccuseSuppression,
       EchecSuppression, FinAttenteSuppression, base
<1>3. ASSUME EtapeHebdo \/ EchecHebdo PROVE UNCHANGED <<codesPin, attribues>>
  BY <1>3 DEF EtapeHebdo, HebdoLit, HebdoEnvoie, HebdoTermine, EchecHebdo,
       FinAttenteHebdo, base
<1>4. ASSUME EtapeAnnuelle \/ EchecAnnuel, ~ AnnuelPurge, ~ AnnuelMerge
      PROVE  UNCHANGED <<codesPin, attribues>>
  BY <1>4 DEF EtapeAnnuelle, AnnuelListe, AnnuelSociete, AnnuelTirage,
       AnnuelMessage, AnnuelTermine, EchecAnnuel, FinAttenteAnnuel, base
<1>5. ASSUME Arret \/ Redemarre \/ AvanceInstant \/ UNCHANGED vars
      PROVE  UNCHANGED <<codesPin, attribues>>
  BY <1>5 DEF Arret, Redemarre, AvanceInstant, vars, base
<1> QED
  BY <1>1, <1>2, <1>3, <1>4, <1>5 DEF Next

\* The yearly task alone changes its variables or the set it records.
LEMMA AnnuelIntact ==
  ASSUME [Next]_vars
  PROVE  \/ UNCHANGED <<tacheAnnuel, reecrites>>
         \/ EtapeAnnuelle \/ EchecAnnuel
         \/ annuel' \in {"repos", "purge"} /\ reecrites' = reecrites
<1>1. ASSUME NEW a \in Creations, Creation(a)
      PROVE  UNCHANGED <<tacheAnnuel, reecrites>>
  BY <1>1 DEF Creation, RecoitCreation, EtapeCreation, Begin, LiftValide,
       LiftInvalide, Annule, Tirage, Insertion, InsertionRefusee, Message,
       SansPinActuel, Commit, Accuse, AccusePerdu, EchecCreation,
       FinAttenteCreation, temoins
<1>2. ASSUME NEW a \in Suppressions, Suppression(a)
      PROVE  UNCHANGED <<tacheAnnuel, reecrites>>
  BY <1>2 DEF Suppression, RecoitSuppression, EtapeSuppression, Supprime,
       MessageSuppression, AccuseSuppression,
       EchecSuppression, FinAttenteSuppression, temoins
<1>3. ASSUME EtapeHebdo \/ EchecHebdo
      PROVE  UNCHANGED <<tacheAnnuel, reecrites>>
  BY <1>3 DEF EtapeHebdo, HebdoLit, HebdoEnvoie, HebdoTermine, EchecHebdo,
       FinAttenteHebdo, temoins
<1>4. ASSUME Arret \/ AvanceInstant
      PROVE  \/ UNCHANGED <<tacheAnnuel, reecrites>>
             \/ annuel' \in {"repos", "purge"} /\ reecrites' = reecrites
  BY <1>4 DEF Arret, AvanceInstant, tacheAnnuel, temoins
<1>5. ASSUME Redemarre \/ UNCHANGED vars
      PROVE  UNCHANGED <<tacheAnnuel, reecrites>>
  BY <1>5 DEF Redemarre, vars, temoins
<1> QED
  BY <1>1, <1>2, <1>3, <1>4, <1>5 DEF Next

LEMMA ReecritureSuivant == Reecriture /\ [Next]_vars => Reecriture'
<1> SUFFICES ASSUME Reecriture, [Next]_vars PROVE Reecriture'
  OBVIOUS
<1>1. ASSUME UNCHANGED <<tacheAnnuel, reecrites>> PROVE Reecriture'
  BY <1>1 DEF Reecriture, tacheAnnuel
<1>2. ASSUME EtapeAnnuelle \/ EchecAnnuel PROVE Reecriture'
  BY <1>2 DEF Reecriture, EtapeAnnuelle, AnnuelPurge, AnnuelListe,
       AnnuelSociete, AnnuelTirage, AnnuelMerge, AnnuelMessage,
       AnnuelTermine, EchecAnnuel, FinAttenteAnnuel, SuiteAnnuelle, temoins
<1>3. ASSUME annuel' \in {"repos", "purge"} PROVE Reecriture'
  BY <1>3 DEF Reecriture
<1> QED
  BY <1>1, <1>2, <1>3, AnnuelIntact

LEMMA ToutOuRienSuivant ==
  TypeInv /\ Transactions /\ Reecriture /\ ToutOuRien /\ [Next]_vars
    => ToutOuRien'
<1> SUFFICES ASSUME TypeInv, Transactions, Reecriture, ToutOuRien,
                    [Next]_vars,
                    NEW s \in Societes \ reecrites',
                    NEW r \in codesPin', r.societe = s, NEW w \in Semaines
             PROVE  \E t \in codesPin' : MemeCle(t, Ligne(s, w, r.annee, r.pin))
  BY DEF ToutOuRien
<1>0. reecrites \subseteq reecrites'
  <2>1. ASSUME EtapeAnnuelle \/ EchecAnnuel PROVE reecrites \subseteq reecrites'
    BY <2>1 DEF EtapeAnnuelle, AnnuelPurge, AnnuelListe, AnnuelSociete,
         AnnuelTirage, AnnuelMerge, AnnuelMessage, AnnuelTermine,
         EchecAnnuel, FinAttenteAnnuel, temoins
  <2> QED
    BY <2>1, AnnuelIntact
<1>1. ASSUME r \in codesPin
      PROVE  \E t \in codesPin : MemeCle(t, Ligne(s, w, r.annee, r.pin))
  BY <1>0, <1>1 DEF ToutOuRien
<1>2. CASE UNCHANGED codesPin
  BY <1>1, <1>2
<1>3. ASSUME NEW a \in Creations, Commit(a)
      PROVE  \E t \in codesPin' : MemeCle(t, Ligne(s, w, r.annee, r.pin))
  <2>1. codesPin' = codesPin \cup ecrits[a]
    BY <1>3 DEF Commit
  <2>2. CASE r \in codesPin
    BY <1>1, <2>1, <2>2
  <2>3. CASE r \in ecrits[a]
    <3>1. \A t \in ecrits[a] : t.societe = societe[a] /\ t.annee = Annee(a)
      BY DEF Transactions, TransactionEnOrdre
    <3>2. PICK t \in ecrits[a] : t.semaine = w
      BY <1>3 DEF Commit, Transactions, TransactionEnOrdre
    <3>3. MemeCle(t, Ligne(s, w, r.annee, r.pin))
      BY <2>3, <3>1, <3>2 DEF MemeCle, Ligne
    <3> QED
      BY <2>1, <3>3
  <2> QED
    BY <2>1, <2>2, <2>3
<1>4. ASSUME NEW a \in Suppressions, Supprime(a)
      PROVE  \E t \in codesPin' : MemeCle(t, Ligne(s, w, r.annee, r.pin))
  BY <1>1, <1>4 DEF Supprime, MemeCle, Ligne
<1>5. CASE AnnuelPurge
  BY <1>1, <1>5 DEF AnnuelPurge, MemeCle, Ligne
<1>6. CASE AnnuelMerge
  <2>1. annuelSociete # s
    BY <1>0, <1>6 DEF AnnuelMerge, Reecriture
  <2>2. LigneAnnuelle.societe = annuelSociete
    BY DEF LigneAnnuelle, Ligne
  <2>3. r \in codesPin
    BY <1>6, <2>1, <2>2 DEF AnnuelMerge
  <2>4. PICK t \in codesPin : MemeCle(t, Ligne(s, w, r.annee, r.pin))
    BY <1>1, <2>3
  <2>5. ~ MemeCle(t, LigneAnnuelle)
    BY <2>1, <2>2, <2>4 DEF MemeCle, Ligne
  <2> QED
    BY <1>6, <2>4, <2>5 DEF AnnuelMerge
<1> QED
  BY <1>2, <1>3, <1>4, <1>5, <1>6, TableIntacte

\* A creation that fails, stops or is refused leaves no week of its year.
THEOREM ToutOuRienCorrect == Spec => []ToutOuRien
<1>1. Init => Reecriture /\ ToutOuRien
  BY DEF Init, Reecriture, ToutOuRien
<1>2. Spec => [](TypeInv /\ Transactions /\ Reecriture /\ ToutOuRien)
  BY <1>1, TypeInit, TypeSuivant, TransactionsInit, TransactionsSuivant,
     ReecritureSuivant, ToutOuRienSuivant, PTL DEF Spec
<1> QED
  BY <1>2, PTL

-----------------------------------------------------------------------------
(***************************************************************************)
(* One PIN a key, uncommitted rows included.                               *)
(***************************************************************************)
Presentes == codesPin \cup NonValidees(Creations)

LEMMA MemeCleSymetrique == \A x, y : MemeCle(x, y) => MemeCle(y, x)
BY DEF MemeCle

\* A step that neither inserts a row nor merges one adds no row at all.
LEMMA PresentesReduites ==
  ASSUME TypeInv, [Next]_vars,
         \A a \in Creations : ~ Insertion(a), ~ AnnuelMerge
  PROVE  Presentes' \subseteq Presentes
<1> USE DEF TypeInv, TypeOK, Appels
<1>1. ASSUME NEW a \in Creations, Creation(a), ~ Commit(a)
      PROVE  Presentes' \subseteq Presentes
  <2>1. ecrits'[a] \subseteq ecrits[a]
    BY <1>1 DEF Creation, RecoitCreation, EtapeCreation, Begin, LiftValide,
         LiftInvalide, Annule, Tirage, InsertionRefusee, Message,
         SansPinActuel, Accuse, AccusePerdu, EchecCreation,
         FinAttenteCreation
  <2>2. \A b \in Creations : ecrits'[b] \subseteq ecrits[b]
    BY <1>1, <2>1, AutreCreation
  <2>3. codesPin' = codesPin
    BY <1>1 DEF Creation, RecoitCreation, EtapeCreation, Begin, LiftValide,
         LiftInvalide, Annule, Tirage, InsertionRefusee, Message,
         SansPinActuel, Accuse, AccusePerdu, EchecCreation,
         FinAttenteCreation, base
  <2> QED
    BY <2>2, <2>3 DEF Presentes, NonValidees
<1>2. ASSUME NEW a \in Creations, Commit(a)
      PROVE  Presentes' \subseteq Presentes
  <2>1. codesPin' = codesPin \cup ecrits[a]
    BY <1>2 DEF Commit
  <2>2. \A b \in Creations : ecrits'[b] \subseteq ecrits[b]
    BY <1>2 DEF Commit
  <2> QED
    BY <2>1, <2>2 DEF Presentes, NonValidees
<1>3. CASE Arret
  BY <1>3 DEF Arret, base, Presentes, NonValidees
<1>4. CASE AutrePas
  <2>1. ecrits' = ecrits
    BY <1>4, CreationsIntactes
  <2>2. codesPin' \subseteq codesPin
    <3>1. ASSUME NEW a \in Creations, Commit(a) PROVE FALSE
      BY <1>4, <3>1, CreationsIntactes DEF Commit
    <3> QED
      BY <3>1, TableIntacte DEF Supprime, AnnuelPurge
  <2> QED
    BY <2>1, <2>2 DEF Presentes, NonValidees
<1> QED
  BY <1>1, <1>2, <1>3, <1>4, PasDeNext

LEMMA CleUniqueSuivant ==
  TypeInv /\ Transactions /\ CleUnique /\ [Next]_vars => CleUnique'
<1> SUFFICES ASSUME TypeInv, Transactions, CleUnique, [Next]_vars,
                    NEW r \in Presentes', NEW t \in Presentes', MemeCle(r, t)
             PROVE  r = t
  BY DEF CleUnique, Presentes
<1>0. \A x, y \in Presentes : MemeCle(x, y) => x = y
  BY DEF CleUnique, Presentes
<1>1. ASSUME NEW a \in Creations, Insertion(a) PROVE r = t
  <2> DEFINE l == LigneTiree(a)
  <2>1. Presentes' \subseteq Presentes \cup {l}
    <3>1. \A b \in Creations : ecrits'[b] \subseteq ecrits[b] \cup {l}
      BY <1>1 DEF Insertion, TypeInv, TypeOK
    <3> QED
      BY <1>1, <3>1 DEF Insertion, base, Presentes, NonValidees
  <2>2. \A x \in Presentes : ~ MemeCle(x, l)
    <3>1. \A x \in codesPin : ~ MemeCle(x, l)
      BY <1>1 DEF Insertion
    <3>2. ASSUME NEW b \in Creations, b # a, NEW x \in ecrits[b]
          PROVE  ~ MemeCle(x, l)
      <4>1. x \in NonValidees(Creations \ {a})
        BY <3>2 DEF NonValidees
      <4> QED
        BY <1>1, <4>1, MemeCleSymetrique DEF Insertion, CleLibre
    <3>3. ASSUME NEW x \in ecrits[a] PROVE ~ MemeCle(x, l)
      <4>1. l.semaine = semaine[a]
        BY DEF LigneTiree, Ligne
      <4>2. semaine[a] \in Semaines /\ ~ (semaine[a] < semaine[a])
        BY ConstantesAssumption DEF TypeInv, TypeOK, Semaines
      <4>3. x.semaine # semaine[a]
        BY <1>1, <3>3, <4>2 DEF Insertion, Transactions, TransactionEnOrdre
      <4> QED
        BY <4>1, <4>3 DEF MemeCle
    <3> QED
      BY <3>1, <3>2, <3>3 DEF Presentes, NonValidees
  <2> HIDE DEF l
  <2> QED
    BY <1>0, <2>1, <2>2, MemeCleSymetrique
<1>2. CASE AnnuelMerge
  <2>1. NonValidees(Creations)' = NonValidees(Creations)
    BY <1>2 DEF AnnuelMerge, appels, NonValidees
  <2>2. \A x \in Presentes' : \/ x \in Presentes /\ ~ MemeCle(x, LigneAnnuelle)
                              \/ x = LigneAnnuelle
    BY <1>2, <2>1, MemeCleSymetrique DEF AnnuelMerge, CleLibre, Presentes
  <2> QED
    BY <1>0, <2>2, MemeCleSymetrique
<1>3. ASSUME \A a \in Creations : ~ Insertion(a), ~ AnnuelMerge PROVE r = t
  BY <1>0, <1>3, PresentesReduites
<1> QED
  BY <1>1, <1>2, <1>3

\* The UNIQUE key is never broken, nor about to be by an open transaction.
THEOREM CleUniqueCorrect == Spec => []CleUnique
<1>1. Init => CleUnique
  BY DEF Init, CleUnique, NonValidees
<1>2. Spec => [](TypeInv /\ Transactions /\ CleUnique)
  BY <1>1, TypeInit, TypeSuivant, TransactionsInit, TransactionsSuivant,
     CleUniqueSuivant, PTL DEF Spec
<1> QED
  BY <1>2, PTL

-----------------------------------------------------------------------------
(***************************************************************************)
(* Where the PINs on the cards come from.                                  *)
(***************************************************************************)

\* What the table, the weekly task and the yearly task hold was committed.
Provenance ==
  /\ codesPin \subseteq attribues
  /\ hebdoReste \subseteq attribues
  /\ annuel = "message" => LigneAnnuelle \in attribues

LEMMA ProvenanceSuivant ==
  TypeInv /\ Provenance /\ [Next]_vars => Provenance'
<1> SUFFICES ASSUME TypeInv, Provenance, [Next]_vars PROVE Provenance'
  OBVIOUS
<1>1. codesPin' \subseteq attribues' /\ attribues \subseteq attribues'
  BY TableIntacte
     DEF Provenance, Commit, Supprime, AnnuelPurge, AnnuelMerge
<1>2. hebdoReste' \subseteq hebdoReste \cup codesPin
  <2>1. ASSUME NEW a \in Creations, Creation(a) PROVE hebdoReste' = hebdoReste
    BY <2>1 DEF Creation, RecoitCreation, EtapeCreation, Begin, LiftValide,
         LiftInvalide, Annule, Tirage, Insertion, InsertionRefusee, Message,
         SansPinActuel, Commit, Accuse, AccusePerdu, EchecCreation,
         FinAttenteCreation, tacheHebdo
  <2>2. ASSUME NEW a \in Suppressions, Suppression(a)
        PROVE  hebdoReste' = hebdoReste
    BY <2>2 DEF Suppression, RecoitSuppression, EtapeSuppression, Supprime,
         MessageSuppression, AccuseSuppression,
         EchecSuppression, FinAttenteSuppression,
         tacheHebdo
  <2>3. ASSUME EtapeHebdo \/ EchecHebdo
        PROVE  hebdoReste' \subseteq hebdoReste \cup codesPin
    BY <2>3 DEF EtapeHebdo, HebdoLit, HebdoEnvoie, HebdoTermine, EchecHebdo,
         FinAttenteHebdo
  <2>4. ASSUME EtapeAnnuelle \/ EchecAnnuel PROVE hebdoReste' = hebdoReste
    BY <2>4 DEF EtapeAnnuelle, AnnuelPurge, AnnuelListe, AnnuelSociete,
         AnnuelTirage, AnnuelMerge, AnnuelMessage, AnnuelTermine,
         EchecAnnuel, FinAttenteAnnuel, tacheHebdo
  <2>5. ASSUME Arret \/ Redemarre \/ AvanceInstant \/ UNCHANGED vars
        PROVE  hebdoReste' \subseteq hebdoReste \cup codesPin
    BY <2>5 DEF Arret, Redemarre, AvanceInstant, vars, tacheHebdo
  <2> QED
    BY <2>1, <2>2, <2>3, <2>4, <2>5 DEF Next
<1>3. annuel' = "message" => LigneAnnuelle' \in attribues'
  <2>1. CASE UNCHANGED tacheAnnuel
    BY <1>1, <2>1
       DEF Provenance, tacheAnnuel, LigneAnnuelle, AnneeNouvelle, Ligne
  <2>2. CASE AnnuelMerge
    <3>1. CASE annuelSemaine = 1
      BY <2>2, <3>1
         DEF AnnuelMerge, LigneAnnuelle, AnneeNouvelle, Ligne
    <3>2. CASE annuelSemaine # 1
      BY <2>2, <3>2 DEF AnnuelMerge, SuiteAnnuelle
    <3> QED
      BY <3>1, <3>2
  <2>3. ASSUME EtapeAnnuelle \/ EchecAnnuel, ~ AnnuelMerge
        PROVE  annuel' # "message"
    BY <2>3 DEF EtapeAnnuelle, AnnuelPurge, AnnuelListe, AnnuelSociete,
         AnnuelTirage, AnnuelMessage, AnnuelTermine, EchecAnnuel,
         FinAttenteAnnuel, SuiteAnnuelle
  <2> QED
    BY <2>1, <2>2, <2>3, AnnuelIntact
<1> QED
  BY <1>1, <1>2, <1>3 DEF Provenance

LEMMA BadgeAttribueSuivant ==
  TypeInv /\ Transactions /\ Provenance /\ BadgeAttribue /\ [Next]_vars
    => BadgeAttribue'
<1> SUFFICES ASSUME TypeInv, Transactions, Provenance, BadgeAttribue,
                    [Next]_vars, NEW s \in Societes, carte'[s] # Aucun
             PROVE  \E r \in attribues' : r.societe = s /\ r.pin = carte'[s]
  BY DEF BadgeAttribue
<1> USE DEF TypeInv, TypeOK
<1>1. ASSUME carte'[s] = carte[s]
      PROVE  \E r \in attribues' : r.societe = s /\ r.pin = carte'[s]
  <2>1. attribues \subseteq attribues'
    BY TableIntacte DEF Commit, Supprime, AnnuelPurge, AnnuelMerge
  <2> QED
    BY <1>1, <2>1 DEF BadgeAttribue
<1>2. ASSUME NEW a \in Creations, Creation(a)
      PROVE  \E r \in attribues' : r.societe = s /\ r.pin = carte'[s]
  <2>1. CASE Commit(a)
    <3>1. PICK r \in LigneActuelle(a) :
            carte' = [carte EXCEPT ![societe[a]] = r.pin]
      BY <2>1 DEF Commit
    <3>2. r \in attribues' /\ r.societe = societe[a]
      BY <2>1, <3>1
         DEF Commit, LigneActuelle, Transactions, TransactionEnOrdre
    <3> QED
      BY <1>1, <3>1, <3>2
  <2>2. CASE ~ Commit(a)
    BY <1>1, <1>2, <2>2
       DEF Creation, RecoitCreation, EtapeCreation, Begin, LiftValide,
           LiftInvalide, Annule, Tirage, Insertion, InsertionRefusee,
           Message, SansPinActuel, Accuse, AccusePerdu, EchecCreation,
           FinAttenteCreation, base
  <2> QED
    BY <2>1, <2>2
<1>3. ASSUME NEW a \in Suppressions, Suppression(a)
      PROVE  \E r \in attribues' : r.societe = s /\ r.pin = carte'[s]
  <2>1. carte'[s] \in {carte[s], Aucun}
    BY <1>3 DEF Suppression, RecoitSuppression, EtapeSuppression, Supprime,
         MessageSuppression, AccuseSuppression,
         EchecSuppression, FinAttenteSuppression, base
  <2> QED
    BY <1>1, <2>1
<1>4. ASSUME EtapeHebdo \/ EchecHebdo
      PROVE  \E r \in attribues' : r.societe = s /\ r.pin = carte'[s]
  <2>1. CASE HebdoEnvoie
    BY <1>1, <2>1 DEF HebdoEnvoie, Provenance
  <2>2. CASE ~ HebdoEnvoie
    BY <1>1, <1>4, <2>2 DEF EtapeHebdo, HebdoLit, HebdoTermine, EchecHebdo,
         FinAttenteHebdo, base
  <2> QED
    BY <2>1, <2>2
<1>5. ASSUME EtapeAnnuelle \/ EchecAnnuel
      PROVE  \E r \in attribues' : r.societe = s /\ r.pin = carte'[s]
  <2>1. CASE AnnuelMessage
    <3>1. LigneAnnuelle \in attribues'
      BY <2>1 DEF AnnuelMessage, Provenance
    <3>2. /\ LigneAnnuelle.societe = annuelSociete
          /\ LigneAnnuelle.pin = annuelPin
      BY DEF LigneAnnuelle, Ligne
    <3> QED
      BY <1>1, <2>1, <3>1, <3>2 DEF AnnuelMessage
  <2>2. CASE ~ AnnuelMessage
    BY <1>1, <1>5, <2>2 DEF EtapeAnnuelle, AnnuelPurge, AnnuelListe,
         AnnuelSociete, AnnuelTirage, AnnuelMerge, AnnuelTermine,
         EchecAnnuel, FinAttenteAnnuel, base
  <2> QED
    BY <2>1, <2>2
<1>6. ASSUME Arret \/ Redemarre \/ AvanceInstant \/ UNCHANGED vars
      PROVE  \E r \in attribues' : r.societe = s /\ r.pin = carte'[s]
  BY <1>1, <1>6 DEF Arret, Redemarre, AvanceInstant, vars, base
<1> QED
  BY <1>2, <1>3, <1>4, <1>5, <1>6 DEF Next

\* No card carries a PIN that the table never gave its company.
THEOREM BadgeAttribueCorrect == Spec => []BadgeAttribue
<1>1. Init => Provenance /\ BadgeAttribue
  BY DEF Init, Provenance, BadgeAttribue
<1>2. Spec => [](TypeInv /\ Transactions /\ Provenance /\ BadgeAttribue)
  BY <1>1, TypeInit, TypeSuivant, TransactionsInit, TransactionsSuivant,
     ProvenanceSuivant, BadgeAttribueSuivant, PTL DEF Spec
<1> QED
  BY <1>2, PTL

-----------------------------------------------------------------------------
(***************************************************************************)
(* No two companies with one PIN, as long as writers do not overlap.       *)
(***************************************************************************)

\* At most one writer: one open transaction, or the yearly task.
Exclusion ==
  /\ \A a, b \in connexions : a = b
  /\ annuel # "repos" => connexions = {}

\* What a writer has drawn is still free when it comes to write it.
TirageLibre ==
  /\ \A a \in Creations : etat[a] = "insertion" =>
       SansCollision(pin[a], semaine[a], Annee(a), Presentes)
  /\ annuel = "merge" =>
       SansCollision(annuelPin, annuelSemaine, AnneeNouvelle, Presentes)

PinsDistincts ==
  \A r, t \in Presentes :
    r.semaine = t.semaine /\ r.annee = t.annee /\ r.pin = t.pin => r = t

Seul == ~ chevauche => Exclusion /\ TirageLibre /\ PinsDistincts

LEMMA ChevaucheReste ==
  ASSUME TypeInv, [Next]_vars
  PROVE  chevauche => chevauche'
<1>1. ASSUME NEW a \in Creations, Creation(a) PROVE chevauche => chevauche'
  BY <1>1 DEF Creation, RecoitCreation, EtapeCreation, Begin, LiftValide,
       LiftInvalide, Annule, Tirage, Insertion, InsertionRefusee, Message,
       SansPinActuel, Commit, Accuse, AccusePerdu, EchecCreation,
       FinAttenteCreation, temoins
<1>2. ASSUME NEW a \in Suppressions, Suppression(a)
      PROVE  chevauche => chevauche'
  BY <1>2 DEF Suppression, RecoitSuppression, EtapeSuppression, Supprime,
       MessageSuppression, AccuseSuppression,
       EchecSuppression, FinAttenteSuppression, temoins
<1>3. ASSUME EtapeHebdo \/ EchecHebdo PROVE chevauche => chevauche'
  BY <1>3 DEF EtapeHebdo, HebdoLit, HebdoEnvoie, HebdoTermine, EchecHebdo,
       FinAttenteHebdo, temoins
<1>4. ASSUME EtapeAnnuelle \/ EchecAnnuel PROVE chevauche => chevauche'
  BY <1>4 DEF EtapeAnnuelle, AnnuelPurge, AnnuelListe, AnnuelSociete,
       AnnuelTirage, AnnuelMerge, AnnuelMessage, AnnuelTermine, EchecAnnuel,
       FinAttenteAnnuel, temoins
<1>5. ASSUME Arret \/ Redemarre \/ AvanceInstant \/ UNCHANGED vars
      PROVE  chevauche => chevauche'
  BY <1>5 DEF Arret, Redemarre, AvanceInstant, vars, temoins
<1> QED
  BY <1>1, <1>2, <1>3, <1>4, <1>5 DEF Next

\* The yearly task changes its own state; the clock starts it, Arret ends it.
LEMMA AnnuelDemarre ==
  ASSUME TypeInv, [Next]_vars
  PROVE  \/ UNCHANGED tacheAnnuel
         \/ (EtapeAnnuelle \/ EchecAnnuel)
         \/ annuel' = "repos"
         \/ annuel' = "purge" /\ connexions' = connexions
              /\ chevauche' = (chevauche \/ connexions # {})
<1>1. CASE AvanceInstant
  BY <1>1 DEF AvanceInstant, tacheAnnuel, appels
<1>2. CASE Arret
  BY <1>2 DEF Arret
<1>3. ASSUME ~ AvanceInstant, ~ Arret
      PROVE  UNCHANGED tacheAnnuel \/ EtapeAnnuelle \/ EchecAnnuel
  <2>1. ASSUME NEW a \in Creations, Creation(a) PROVE UNCHANGED tacheAnnuel
    BY <2>1 DEF Creation, RecoitCreation, EtapeCreation, Begin, LiftValide,
         LiftInvalide, Annule, Tirage, Insertion, InsertionRefusee, Message,
         SansPinActuel, Commit, Accuse, AccusePerdu, EchecCreation,
         FinAttenteCreation
  <2>2. ASSUME NEW a \in Suppressions, Suppression(a)
        PROVE  UNCHANGED tacheAnnuel
    BY <2>2 DEF Suppression, RecoitSuppression, EtapeSuppression, Supprime,
         MessageSuppression, AccuseSuppression,
         EchecSuppression, FinAttenteSuppression
  <2>3. ASSUME EtapeHebdo \/ EchecHebdo \/ Redemarre \/ UNCHANGED vars
        PROVE  UNCHANGED tacheAnnuel
    BY <2>3 DEF EtapeHebdo, HebdoLit, HebdoEnvoie, HebdoTermine, EchecHebdo,
         FinAttenteHebdo, Redemarre, vars
  <2> QED
    BY <1>3, <2>1, <2>2, <2>3 DEF Next
<1> QED
  BY <1>1, <1>2, <1>3

\* Connections are taken by Begin only.
LEMMA ConnexionsPrises ==
  ASSUME TypeInv, [Next]_vars
  PROVE  \/ connexions' \subseteq connexions
         \/ \E a \in Creations : Begin(a)
<1>1. ASSUME NEW a \in Creations, Creation(a), ~ Begin(a)
      PROVE  connexions' \subseteq connexions
  BY <1>1 DEF Creation, RecoitCreation, EtapeCreation, LiftValide,
       LiftInvalide, Annule, Tirage, Insertion, InsertionRefusee, Message,
       SansPinActuel, Commit, Accuse, AccusePerdu, EchecCreation,
       FinAttenteCreation
<1>2. ASSUME Arret PROVE connexions' \subseteq connexions
  BY <1>2 DEF Arret
<1>3. ASSUME AutrePas PROVE connexions' \subseteq connexions
  BY <1>3, CreationsIntactes
<1> QED
  BY <1>1, <1>2, <1>3, PasDeNext

LEMMA ExclusionSuivante ==
  ASSUME TypeInv, [Next]_vars, Exclusion, ~ chevauche'
  PROVE  Exclusion'
<1>1. ASSUME NEW a \in Creations, Begin(a) PROVE Exclusion'
  BY <1>1 DEF Begin, Exclusion, TacheActive, tacheAnnuel
<1>2. ASSUME connexions' \subseteq connexions PROVE Exclusion'
  <2>1. \A a, b \in connexions' : a = b
    BY <1>2 DEF Exclusion
  <2>2. annuel' # "repos" => connexions' = {}
    <3>1. CASE UNCHANGED tacheAnnuel
      BY <1>2, <3>1 DEF Exclusion, tacheAnnuel
    <3>2. CASE EtapeAnnuelle \/ EchecAnnuel
      <4>1. annuel # "repos"
        BY <3>2 DEF EtapeAnnuelle, AnnuelPurge, AnnuelListe, AnnuelSociete,
             AnnuelTirage, AnnuelMerge, AnnuelMessage, AnnuelTermine,
             EchecAnnuel, FinAttenteAnnuel, TacheActive
      <4> QED
        BY <1>2, <4>1 DEF Exclusion
    <3> QED
      BY <3>1, <3>2, AnnuelDemarre
  <2> QED
    BY <2>1, <2>2 DEF Exclusion
<1> QED
  BY <1>1, <1>2, ConnexionsPrises

\* While creation a holds the one connection, no other row is uncommitted.
LEMMA SeulPresent ==
  ASSUME Transactions, Exclusion, NEW a \in Creations, a \in connexions
  PROVE  Presentes = codesPin \cup ecrits[a]
<1>1. \A b \in Creations : b # a => ecrits[b] = {}
  BY DEF Transactions, TransactionEnOrdre, Exclusion, EtatsTransaction
<1> QED
  BY <1>1 DEF Presentes, NonValidees

LEMMA PersonnePresent ==
  ASSUME Transactions, Exclusion, annuel # "repos"
  PROVE  Presentes = codesPin
<1>1. \A b \in Creations : ecrits[b] = {}
  BY DEF Transactions, TransactionEnOrdre, Exclusion, EtatsTransaction
<1> QED
  BY <1>1 DEF Presentes, NonValidees

\* An insertion keeps other writers out, a merge too.
LEMMA InsertionSeule ==
  ASSUME Transactions, Exclusion, NEW a \in Creations, etat[a] = "insertion"
  PROVE  /\ a \in connexions /\ annuel = "repos"
         /\ \A b \in Creations : etat[b] = "insertion" => b = a
BY DEF Transactions, TransactionEnOrdre, Exclusion, EtatsTransaction

LEMMA TirageLibreSuivant ==
  ASSUME TypeInv, Transactions, [Next]_vars, Exclusion, TirageLibre
  PROVE  TirageLibre'
<1>1. ASSUME NEW a \in Creations, etat'[a] = "insertion"
      PROVE  SansCollision(pin[a], semaine[a], Annee(a), Presentes)'
  <2>1. CASE Tirage(a)
    <3>1. a \in connexions
      BY <2>1 DEF Tirage, Transactions, TransactionEnOrdre, EtatsTransaction
    <3>2. Presentes = codesPin \cup ecrits[a]
      BY <3>1, SeulPresent
    <3>3. /\ Presentes' = Presentes /\ semaine' = semaine
          /\ Annee(a)' = Annee(a)
      BY <2>1 DEF Tirage, base, Presentes, NonValidees, Annee
    <3>4. SansCollision(pin'[a], semaine[a], Annee(a), Presentes)
      BY <2>1, <3>2 DEF Tirage, TypeInv, TypeOK
    <3> QED
      BY <3>3, <3>4 DEF SansCollision
  <2>2. CASE ~ Tirage(a)
    <3>1. /\ etat[a] = "insertion" /\ pin'[a] = pin[a]
          /\ semaine'[a] = semaine[a] /\ Annee(a)' = Annee(a)
      <4>1. ASSUME Creation(a)
            PROVE  FALSE
        BY <1>1, <2>2, <4>1
           DEF Creation, RecoitCreation, EtapeCreation, Begin, LiftValide,
               LiftInvalide, Annule, Insertion, SemaineSuivante,
               InsertionRefusee, Message, SansPinActuel, Commit, Accuse,
               AccusePerdu, EchecCreation, FinAttenteCreation, TypeInv,
               TypeOK, Appels
      <4>2. ASSUME NEW b \in Creations, Creation(b), b # a
            PROVE  /\ etat[a] = "insertion" /\ pin'[a] = pin[a]
                   /\ semaine'[a] = semaine[a] /\ Annee(a)' = Annee(a)
        BY <1>1, <4>2, AutreCreation DEF Annee
      <4>3. ASSUME Arret PROVE FALSE
        BY <1>1, <4>3 DEF Arret, EnCours, Finis, Reponses, Appels
      <4>4. ASSUME AutrePas
            PROVE  /\ etat[a] = "insertion" /\ pin'[a] = pin[a]
                   /\ semaine'[a] = semaine[a] /\ Annee(a)' = Annee(a)
        BY <1>1, <4>4, CreationsIntactes DEF Annee
      <4> QED
        BY <4>1, <4>2, <4>3, <4>4, PasDeNext
    <3>2. \A b \in Creations : ~ Insertion(b)
      <4>1. ASSUME Insertion(a) PROVE FALSE
        BY <1>1, <4>1 DEF Insertion, SemaineSuivante, TypeInv, TypeOK, Appels
      <4> QED
        BY <3>1, <4>1, InsertionSeule DEF Insertion
    <3>3. ~ AnnuelMerge
      BY <3>1, InsertionSeule DEF AnnuelMerge
    <3>4. Presentes' \subseteq Presentes
      BY <3>2, <3>3, PresentesReduites
    <3>5. SansCollision(pin[a], semaine[a], Annee(a), Presentes)
      BY <3>1 DEF TirageLibre
    <3> QED
      BY <3>1, <3>4, <3>5 DEF SansCollision
  <2> QED
    BY <2>1, <2>2
<1>2. ASSUME annuel' = "merge"
      PROVE  SansCollision(annuelPin, annuelSemaine, AnneeNouvelle, Presentes)'
  <2>1. CASE AnnuelTirage
    <3>1. Presentes = codesPin
      BY <2>1, PersonnePresent DEF AnnuelTirage
    <3>2. /\ Presentes' = Presentes /\ annuelSemaine' = annuelSemaine
          /\ AnneeNouvelle' = AnneeNouvelle
      BY <2>1 DEF AnnuelTirage, base, appels, Presentes, NonValidees,
                  AnneeNouvelle
    <3>3. SansCollision(annuelPin', annuelSemaine, AnneeNouvelle, Presentes)
      BY <2>1, <3>1 DEF AnnuelTirage
    <3> QED
      BY <3>2, <3>3 DEF SansCollision
  <2>2. CASE UNCHANGED tacheAnnuel
    <3>1. /\ annuel = "merge" /\ annuelPin' = annuelPin
          /\ annuelSemaine' = annuelSemaine /\ AnneeNouvelle' = AnneeNouvelle
      BY <1>2, <2>2 DEF tacheAnnuel, AnneeNouvelle
    <3>2. \A b \in Creations : ~ Insertion(b)
      BY <3>1, InsertionSeule DEF Insertion
    <3>3. ~ AnnuelMerge
      BY <1>2, <3>1 DEF AnnuelMerge, SuiteAnnuelle
    <3>4. Presentes' \subseteq Presentes
      BY <3>2, <3>3, PresentesReduites
    <3> QED
      BY <3>1, <3>4 DEF TirageLibre, SansCollision
  <2>3. ASSUME EtapeAnnuelle \/ EchecAnnuel, ~ AnnuelTirage
        PROVE  annuel' # "merge"
    BY <2>3 DEF EtapeAnnuelle, AnnuelPurge, AnnuelListe, AnnuelSociete,
         AnnuelMerge, AnnuelMessage, AnnuelTermine, EchecAnnuel,
         FinAttenteAnnuel, SuiteAnnuelle
  <2> QED
    BY <1>2, <2>1, <2>2, <2>3, AnnuelDemarre
<1> QED
  BY <1>1, <1>2 DEF TirageLibre

LEMMA PinsDistinctsSuivant ==
  ASSUME TypeInv, Transactions, [Next]_vars, Exclusion, TirageLibre,
         PinsDistincts
  PROVE  PinsDistincts'
<1>1. ASSUME NEW a \in Creations, Insertion(a) PROVE PinsDistincts'
  <2> DEFINE l == LigneTiree(a)
  <2>1. Presentes' \subseteq Presentes \cup {l}
    <3>1. \A b \in Creations : ecrits'[b] \subseteq ecrits[b] \cup {l}
      BY <1>1 DEF Insertion, TypeInv, TypeOK
    <3> QED
      BY <1>1, <3>1 DEF Insertion, base, Presentes, NonValidees
  <2>2. \A r \in Presentes :
          ~ (r.semaine = l.semaine /\ r.annee = l.annee /\ r.pin = l.pin)
    BY <1>1 DEF Insertion, TirageLibre, SansCollision, LigneTiree, Ligne
  <2> HIDE DEF l
  <2> QED
    BY <2>1, <2>2 DEF PinsDistincts
<1>2. CASE AnnuelMerge
  <2> DEFINE l == LigneAnnuelle
  <2>1. Presentes' \subseteq Presentes \cup {l}
    BY <1>2 DEF AnnuelMerge, appels, Presentes, NonValidees
  <2>2. \A r \in Presentes :
          ~ (r.semaine = l.semaine /\ r.annee = l.annee /\ r.pin = l.pin)
    BY <1>2 DEF AnnuelMerge, TirageLibre, SansCollision, LigneAnnuelle, Ligne
  <2> HIDE DEF l
  <2> QED
    BY <2>1, <2>2 DEF PinsDistincts
<1>3. ASSUME \A a \in Creations : ~ Insertion(a), ~ AnnuelMerge
      PROVE  PinsDistincts'
  BY <1>3, PresentesReduites DEF PinsDistincts
<1> QED
  BY <1>1, <1>2, <1>3

LEMMA SeulSuivant == TypeInv /\ Transactions /\ Seul /\ [Next]_vars => Seul'
<1> SUFFICES ASSUME TypeInv, Transactions, Seul, [Next]_vars, ~ chevauche'
             PROVE  Exclusion' /\ TirageLibre' /\ PinsDistincts'
  BY DEF Seul
<1>1. Exclusion /\ TirageLibre /\ PinsDistincts
  BY ChevaucheReste DEF Seul
<1> QED
  BY <1>1, ExclusionSuivante, TirageLibreSuivant, PinsDistinctsSuivant

\* The loops on `collision` suffice as long as one writer runs at a time.
THEOREM UniciteDuPinCorrect == Spec => []UniciteDuPin
<1>1. Init => Seul
  BY DEF Init, Seul, Exclusion, TirageLibre, PinsDistincts, Presentes,
         NonValidees, Appels
<1>2. Seul => UniciteDuPin
  BY DEF Seul, PinsDistincts, UniciteDuPin, Presentes
<1>3. Spec => [](TypeInv /\ Transactions /\ Seul)
  BY <1>1, TypeInit, TypeSuivant, TransactionsInit, TransactionsSuivant,
     SeulSuivant, PTL DEF Spec
<1> QED
  BY <1>2, <1>3, PTL


-----------------------------------------------------------------------------
(***************************************************************************)
(* The card of a deleted company.                                          *)
(***************************************************************************)

\* When the tasks leave deletions alone: the yearly one does not run, and no
\* deletion is under way while the weekly one sends what it has read.
TachesAPart ==
  /\ annuel = "repos"
  /\ hebdo = "envoi" => \A d \in Suppressions : ~ EnCours(d)

\* What the weekly task has still to send is in the table.
EnvoiFidele == hebdo = "envoi" => hebdoReste \subseteq codesPin

\* A company without rows has no card, unless a deletion of it was cut.
CartesRendues == \A s \in Societes : Disparue(s) => carte[s] = Aucun

LEMMA EnvoiFideleSuivant ==
  ASSUME TypeInv, TachesAPart, EnvoiFidele, [Next]_vars
  PROVE  EnvoiFidele'
<1>1. ASSUME NEW a \in Creations, Creation(a)
      PROVE  codesPin \subseteq codesPin' /\ UNCHANGED tacheHebdo
  BY <1>1 DEF Creation, RecoitCreation, EtapeCreation, Begin, LiftValide,
       LiftInvalide, Annule, Tirage, Insertion, InsertionRefusee, Message,
       SansPinActuel, Commit, Accuse, AccusePerdu, EchecCreation,
       FinAttenteCreation, base
<1>2. ASSUME NEW d \in Suppressions, Suppression(d) PROVE EnvoiFidele'
  <2>1. CASE Supprime(d)
    <3>1. EnCours(d)
      BY <2>1 DEF Supprime, EnCours, Finis, Reponses
    <3> QED
      BY <2>1, <3>1 DEF Supprime, EnvoiFidele, TachesAPart, tacheHebdo
  <2>2. CASE ~ Supprime(d)
    BY <1>2, <2>2 DEF Suppression, RecoitSuppression, EtapeSuppression,
         MessageSuppression, AccuseSuppression,
         EchecSuppression, FinAttenteSuppression, base,
         tacheHebdo, EnvoiFidele
  <2> QED
    BY <2>1, <2>2
<1>3. CASE EtapeHebdo \/ EchecHebdo
  BY <1>3 DEF EtapeHebdo, HebdoLit, HebdoEnvoie, HebdoTermine, EchecHebdo,
       FinAttenteHebdo, base, EnvoiFidele
<1>4. CASE Arret \/ Redemarre \/ UNCHANGED vars
  BY <1>4 DEF Arret, Redemarre, vars, base, tacheHebdo, EnvoiFidele
<1>5. CASE AvanceInstant
  BY <1>5 DEF AvanceInstant, base, EnvoiFidele
<1>6. ~ (EtapeAnnuelle \/ EchecAnnuel)
  BY DEF TachesAPart, EtapeAnnuelle, AnnuelPurge, AnnuelListe, AnnuelSociete,
       AnnuelTirage, AnnuelMerge, AnnuelMessage, AnnuelTermine,
       FinAttenteAnnuel, EchecAnnuel, TacheActive
<1> QED
  BY <1>1, <1>2, <1>3, <1>4, <1>5, <1>6 DEF Next, EnvoiFidele, tacheHebdo

\* Only a commit, which brings rows with it, and the weekly task, which sends
\* rows of the table, fill a card; only a deletion empties the table.
LEMMA CartesRenduesSuivant ==
  ASSUME TypeInv, Transactions, TachesAPart, EnvoiFidele, CartesRendues,
         [Next]_vars
  PROVE  CartesRendues'
<1> USE DEF TypeInv, TypeOK, Appels
<1>0. \A d \in Suppressions : d \notin Creations
  BY ConstantesAssumption
<1>1. ASSUME UNCHANGED <<codesPin, carte, societe>>,
             \A d \in Suppressions :
               \/ etat'[d] = etat[d] \/ etat[d] = "accuse"
               \/ etat'[d] \notin {"libre", "delete", "accuse", "200"}
      PROVE  CartesRendues'
  BY <1>1 DEF CartesRendues, Disparue, SansEffet
<1>2. ASSUME NEW a \in Creations, Creation(a), ~ Commit(a)
      PROVE  /\ UNCHANGED <<codesPin, carte, societe>>
             /\ \A d \in Suppressions : etat'[d] = etat[d]
  BY <1>0, <1>2 DEF Creation, RecoitCreation, EtapeCreation, Begin, LiftValide,
       LiftInvalide, Annule, Tirage, Insertion, SemaineSuivante,
       InsertionRefusee, Message, SansPinActuel, Accuse, AccusePerdu,
       EchecCreation, FinAttenteCreation, base
<1>3. ASSUME NEW a \in Creations, Commit(a) PROVE CartesRendues'
  <2>1. /\ codesPin' = codesPin \cup ecrits[a] /\ societe' = societe
        /\ \A d \in Suppressions : etat'[d] = etat[d]
        /\ etat[a] = "commit"
        /\ \A s \in Societes : s # societe[a] => carte'[s] = carte[s]
    BY <1>0, <1>3 DEF Commit
  <2>2. \E r \in ecrits[a] : r.societe = societe[a]
    BY <2>1, ConstantesAssumption DEF Transactions, TransactionEnOrdre, Semaines
  <2> QED
    BY <2>1, <2>2 DEF CartesRendues, Disparue, SansEffet
<1>4. ASSUME NEW d \in Suppressions, Suppression(d) PROVE CartesRendues'
  <2>1. CASE RecoitSuppression(d)
    BY <2>1 DEF RecoitSuppression, base, CartesRendues, Disparue, SansEffet
  <2>2. CASE Supprime(d)
    <3>1. /\ UNCHANGED <<carte, societe>> /\ etat'[d] = "message"
          /\ \A e \in Suppressions \ {d} : etat'[e] = etat[e]
          /\ \A s \in Societes \ {societe[d]} : \A r \in codesPin :
               r.societe = s => r \in codesPin'
      BY <2>2 DEF Supprime
    <3> QED
      BY <3>1 DEF CartesRendues, Disparue, SansEffet
  <2>3. CASE MessageSuppression(d)
    <3>1. /\ UNCHANGED <<codesPin, societe>>
          /\ \A e \in Suppressions \ {d} : etat'[e] = etat[e]
          /\ carte'[societe[d]] = Aucun
          /\ \A s \in Societes \ {societe[d]} : carte'[s] = carte[s]
      BY <2>3 DEF MessageSuppression
    <3> QED
      BY <3>1 DEF CartesRendues, Disparue, SansEffet
  <2>4. CASE AccuseSuppression(d) \/ EchecSuppression(d)
    BY <1>1, <2>4 DEF AccuseSuppression, EchecSuppression, base
  <2> QED
    BY <1>4, <2>1, <2>2, <2>3, <2>4
       DEF Suppression, EtapeSuppression, FinAttenteSuppression
<1>5. CASE EtapeHebdo \/ EchecHebdo
  <2>1. CASE HebdoEnvoie
    <3>1. PICK r \in hebdoReste : carte' = [carte EXCEPT ![r.societe] = r.pin]
      BY <2>1 DEF HebdoEnvoie
    <3>2. r \in codesPin /\ UNCHANGED <<codesPin, etat, societe>>
      BY <2>1 DEF HebdoEnvoie, EnvoiFidele, appels
    <3> QED
      BY <3>1, <3>2 DEF CartesRendues, Disparue, SansEffet
  <2>2. CASE ~ HebdoEnvoie
    BY <1>1, <1>5, <2>2 DEF EtapeHebdo, HebdoLit, HebdoTermine, EchecHebdo,
         FinAttenteHebdo, base, appels
  <2> QED
    BY <2>1, <2>2
<1>6. ~ (EtapeAnnuelle \/ EchecAnnuel)
  BY DEF TachesAPart, EtapeAnnuelle, AnnuelPurge, AnnuelListe, AnnuelSociete,
       AnnuelTirage, AnnuelMerge, AnnuelMessage, AnnuelTermine,
       FinAttenteAnnuel, EchecAnnuel, TacheActive
<1>7. CASE Arret
  BY <1>1, <1>7 DEF Arret, EnCours, Finis, Reponses, base
<1>8. CASE Redemarre \/ AvanceInstant \/ UNCHANGED vars
  BY <1>1, <1>8 DEF Redemarre, AvanceInstant, vars, appels, base
<1> QED
  BY <1>1, <1>2, <1>3, <1>4, <1>5, <1>6, <1>7, <1>8 DEF Next

\* As long as the tasks leave deletions alone, the card of a company whose
\* deletion was answered 200 stays away until the company is created again,
\* whatever other calls, failures and stops interleave.
THEOREM SuppressionEffectiveCorrect ==
  Spec /\ []TachesAPart => []SuppressionEffective
<1>1. Init => EnvoiFidele /\ CartesRendues
  BY DEF Init, EnvoiFidele, CartesRendues
<1>2. /\ TypeInv /\ Transactions /\ TachesAPart /\ EnvoiFidele /\ CartesRendues
      /\ [Next]_vars
      => EnvoiFidele' /\ CartesRendues'
  BY EnvoiFideleSuivant, CartesRenduesSuivant
<1>3. TypeInv /\ CartesRendues => SuppressionEffective
  BY DEF CartesRendues, SuppressionEffective, TypeInv, TypeOK, Appels
<1> QED
  BY <1>1, <1>2, <1>3, TypeInit, TypeSuivant, TransactionsInit,
     TransactionsSuivant, PTL DEF Spec

-----------------------------------------------------------------------------
\* How many steps a creation has left at most.
Rang(a) ==
  CASE etat[a] = "libre"     -> 2 * DerniereSemaine + 6
    [] etat[a] = "pool"      -> 2 * DerniereSemaine + 5
    [] etat[a] = "lift"      -> 2 * DerniereSemaine + 4
    [] etat[a] = "tirage"    -> 2 * (DerniereSemaine - semaine[a]) + 5
    [] etat[a] = "insertion" -> 2 * (DerniereSemaine - semaine[a]) + 4
    [] etat[a] = "file"      -> 3
    [] etat[a] = "commit"    -> 2
    [] etat[a] = "accuse"    -> 1
    [] OTHER                 -> 0

LEMMA RangType == ASSUME TypeInv, NEW a \in Creations PROVE Rang(a) \in Nat
BY ConstantesAssumption DEF TypeInv, TypeOK, Semaines, Rang

\* Each step of a creation takes it nearer to its answer.
LEMMA RangDecroit ==
  ASSUME TypeInv, NEW a \in Creations, Creation(a)
  PROVE  Rang(a)' < Rang(a)
<1> USE DEF Appels
<1>0. /\ DerniereSemaine \in Nat /\ DerniereSemaine >= 1
      /\ semaine[a] \in Nat /\ 1 <= semaine[a] /\ semaine[a] <= DerniereSemaine
  BY ConstantesAssumption DEF TypeInv, TypeOK, Semaines
<1>1. ASSUME NEW e, etat' = [etat EXCEPT ![a] = e] PROVE etat'[a] = e
  BY <1>1 DEF TypeInv, TypeOK
<1>2. ASSUME NEW r \in {"400", "500"}, Annule(a, r),
             etat[a] \in EtatsTransaction \cup {"pool", "accuse"}
      PROVE  Rang(a)' < Rang(a)
  <2>1. etat'[a] \in {"400", "500"}
    BY <1>1, <1>2 DEF Annule
  <2> QED
    BY <1>0, <1>2, <2>1 DEF Rang, EtatsTransaction
<1>3. CASE RecoitCreation(a) \/ Begin(a)
  <2>1. \/ etat[a] = "libre" /\ etat'[a] = "pool"
        \/ etat[a] = "pool" /\ etat'[a] = "lift"
    BY <1>1, <1>3 DEF RecoitCreation, Begin
  <2> QED
    BY <1>0, <2>1 DEF Rang
<1>4. CASE LiftValide(a)
  <2>1. etat[a] = "lift" /\ etat'[a] = "tirage" /\ semaine'[a] = 1
    BY <1>1, <1>4 DEF LiftValide, TypeInv, TypeOK
  <2> QED
    BY <1>0, <2>1 DEF Rang
<1>5. CASE Tirage(a)
  <2>1. etat[a] = "tirage" /\ etat'[a] = "insertion" /\ semaine' = semaine
    BY <1>1, <1>5 DEF Tirage
  <2> QED
    BY <1>0, <2>1 DEF Rang
<1>6. CASE Insertion(a)
  <2>1. etat[a] = "insertion"
    BY <1>6 DEF Insertion
  <2>2. \/ etat'[a] = "tirage" /\ semaine'[a] = semaine[a] + 1
        \/ etat'[a] = "file"
    BY <1>1, <1>6 DEF Insertion, SemaineSuivante, TypeInv, TypeOK
  <2> QED
    BY <1>0, <2>1, <2>2 DEF Rang
<1>7. CASE Message(a) \/ Commit(a) \/ Accuse(a)
  <2>1. \/ etat[a] = "file" /\ etat'[a] = "commit"
        \/ etat[a] = "commit" /\ etat'[a] = "accuse"
        \/ etat[a] = "accuse" /\ etat'[a] = "200"
    BY <1>1, <1>7 DEF Message, Commit, Accuse
  <2> QED
    BY <1>0, <2>1 DEF Rang
<1>8. CASE \/ InsertionRefusee(a) \/ SansPinActuel(a) \/ LiftInvalide(a)
           \/ AccusePerdu(a) \/ EchecCreation(a)
  BY <1>2, <1>8 DEF InsertionRefusee, SansPinActuel, LiftInvalide, AccusePerdu,
       EchecCreation, EtatsTransaction
<1> QED
  BY <1>3, <1>4, <1>5, <1>6, <1>7, <1>8
     DEF Creation, EtapeCreation, FinAttenteCreation

\* The part of AppelsTermines that needs no fairness: a creation takes at most
\* 2 * DerniereSemaine + 6 steps, each one nearer to its answer, and nothing that
\* happens beside it sends it back.
CreationBornee ==
  [][\A a \in Creations :
       /\ Rang(a)' <= Rang(a)
       /\ Creation(a) => Rang(a)' < Rang(a)]_vars

THEOREM CreationBorneeCorrecte == Spec => CreationBornee
<1>1. ASSUME TypeInv, [Next]_vars
      PROVE  [\A a \in Creations :
                /\ Rang(a)' <= Rang(a)
                /\ Creation(a) => Rang(a)' < Rang(a)]_vars
  <2> SUFFICES ASSUME NEW a \in Creations
               PROVE  /\ Rang(a)' <= Rang(a)
                      /\ Creation(a) => Rang(a)' < Rang(a)
    OBVIOUS
  <2>0. Rang(a) \in Nat /\ Rang(a)' \in Nat
    <3>1. TypeInv'
      BY <1>1, TypeSuivant
    <3>2. Rang(a)' \in Nat
      BY <3>1, ConstantesAssumption DEF TypeInv, TypeOK, Semaines, Rang
    <3> QED
      BY <1>1, <3>2, RangType
  <2>1. CASE Creation(a)
    BY <1>1, <2>0, <2>1, RangDecroit
  <2>2. CASE \E b \in Creations : b # a /\ Creation(b)
    <3>1. etat'[a] = etat[a] /\ semaine'[a] = semaine[a]
      BY <1>1, <2>2, AutreCreation
    <3>2. Rang(a)' = Rang(a)
      BY <3>1 DEF Rang
    <3>3. CASE Creation(a)
      BY <2>1, <3>3
    <3> QED
      BY <2>0, <3>2, <3>3
  <2>3. CASE AutrePas /\ ~ Creation(a)
    <3>1. etat'[a] = etat[a] /\ semaine'[a] = semaine[a]
      BY <1>1, <2>3, CreationsIntactes
    <3>2. Rang(a)' = Rang(a)
      BY <3>1 DEF Rang
    <3> QED
      BY <2>0, <2>3, <3>2
  <2>4. CASE Arret /\ ~ Creation(a)
    <3>1. /\ etat'[a] = IF EnCours(a) THEN "perdu" ELSE etat[a]
          /\ semaine' = semaine
      BY <2>4 DEF Arret, Appels
    <3>2. Rang(a)' = Rang(a) \/ Rang(a)' = 0
      BY <3>1 DEF Rang
    <3> QED
      BY <2>0, <2>4, <3>2
  <2> QED
    BY <1>1, <2>1, <2>2, <2>3, <2>4, PasDeNext
<1> QED
  BY <1>1, TypeInit, TypeSuivant, PTL DEF Spec, CreationBornee

=============================================================================
