----------------------- MODULE CodesPinRegistre_proofs ------------------------
(***************************************************************************)
(* CodesPin implements RegistrePin for every value of its constants; what  *)
(* the transactions give the yearly task follows from the same facts.      *)
(***************************************************************************)
EXTENDS CodesPinRegistre, CodesPin_proofs

\* No open transaction holds a key of the table, nor one of another's.
Neuves ==
  \A a \in Creations : \A t \in ecrits[a] :
    /\ \A r \in codesPin : ~ MemeCle(r, t)
    /\ \A b \in Creations \ {a} : \A u \in ecrits[b] : ~ MemeCle(t, u)

LEMMA NeuvesInit == Init => Neuves
BY DEF Init, Neuves

\* Only an insertion adds to a transaction.
LEMMA EcritsReduits ==
  ASSUME TypeInv, [Next]_vars, \A a \in Creations : ~ Insertion(a)
  PROVE  \A c \in Creations : ecrits'[c] \subseteq ecrits[c]
<1> USE DEF TypeInv, TypeOK
<1>1. ASSUME NEW a \in Creations, Creation(a)
      PROVE  \A c \in Creations : ecrits'[c] \subseteq ecrits[c]
  <2>1. ecrits'[a] \subseteq ecrits[a]
    BY <1>1 DEF Creation, RecoitCreation, EtapeCreation, Begin, LiftValide,
         LiftInvalide, Annule, Tirage, InsertionRefusee, Message,
         SansPinActuel, Commit, Accuse, AccusePerdu, EchecCreation,
         FinAttenteCreation
  <2> QED
    BY <1>1, <2>1, AutreCreation
<1>2. CASE Arret
  BY <1>2 DEF Arret
<1>3. CASE AutrePas
  BY <1>3, CreationsIntactes
<1> QED
  BY <1>1, <1>2, <1>3, PasDeNext

LEMMA NeuvesSuivant ==
  TypeInv /\ Transactions /\ Neuves /\ [Next]_vars => Neuves'
<1> SUFFICES ASSUME TypeInv, Transactions, Neuves, [Next]_vars
             PROVE  Neuves'
  OBVIOUS
<1>1. ASSUME NEW a \in Creations, Insertion(a) PROVE Neuves'
  <2> DEFINE l == LigneTiree(a)
  <2>1. /\ ecrits'[a] = ecrits[a] \cup {l}
        /\ \A c \in Creations \ {a} : ecrits'[c] = ecrits[c]
        /\ codesPin' = codesPin
    BY <1>1 DEF Insertion, base, TypeInv, TypeOK
  <2>2. \A r \in codesPin : ~ MemeCle(r, l)
    BY <1>1 DEF Insertion
  <2>3. \A b \in Creations \ {a} : \A u \in ecrits[b] :
          ~ MemeCle(l, u) /\ ~ MemeCle(u, l)
    BY <1>1, MemeCleSymetrique DEF Insertion, CleLibre, NonValidees
  <2> HIDE DEF l
  <2>4. ASSUME NEW c \in Creations, NEW t \in ecrits'[c]
        PROVE  /\ \A r \in codesPin' : ~ MemeCle(r, t)
               /\ \A b \in Creations \ {c} : \A u \in ecrits'[b] :
                    ~ MemeCle(t, u)
    <3>1. CASE c = a /\ t = l
      BY <2>1, <2>2, <2>3, <3>1
    <3>2. CASE c = a /\ t \in ecrits[a]
      BY <2>1, <3>2 DEF Neuves
    <3>3. CASE c # a
      <4>1. t \in ecrits[c]
        BY <2>1, <3>3
      <4>2. \A r \in codesPin' : ~ MemeCle(r, t)
        BY <2>1, <4>1 DEF Neuves
      <4>3. ASSUME NEW b \in Creations \ {c}, NEW u \in ecrits'[b]
            PROVE  ~ MemeCle(t, u)
        <5>1. u \in ecrits[b] \/ (b = a /\ u = l)
          BY <2>1
        <5> QED
          BY <2>3, <3>3, <4>1, <5>1 DEF Neuves
      <4> QED
        BY <4>2, <4>3
    <3> QED
      BY <2>1, <2>4, <3>1, <3>2, <3>3
  <2> QED
    BY <2>4 DEF Neuves
<1>2. ASSUME \A a \in Creations : ~ Insertion(a), NEW c \in Creations,
             NEW t \in ecrits'[c]
      PROVE  /\ \A r \in codesPin' : ~ MemeCle(r, t)
             /\ \A b \in Creations \ {c} : \A u \in ecrits'[b] :
                  ~ MemeCle(t, u)
  <2>1. \A b \in Creations : ecrits'[b] \subseteq ecrits[b]
    BY <1>2, EcritsReduits
  <2>2. t \in ecrits[c]
    BY <1>2, <2>1
  <2>3. ASSUME codesPin' \subseteq codesPin
        PROVE  \A r \in codesPin' : ~ MemeCle(r, t)
    BY <2>2, <2>3 DEF Neuves
  <2>4. ASSUME NEW a \in Creations, Commit(a)
        PROVE  \A r \in codesPin' : ~ MemeCle(r, t)
    <3>1. c # a
      BY <1>2, <2>4 DEF Commit, TypeInv, TypeOK
    <3>2. codesPin' = codesPin \cup ecrits[a]
      BY <2>4 DEF Commit
    <3> QED
      BY <2>2, <3>1, <3>2, MemeCleSymetrique DEF Neuves
  <2>5. ASSUME AnnuelMerge PROVE \A r \in codesPin' : ~ MemeCle(r, t)
    <3>1. ~ MemeCle(LigneAnnuelle, t)
      BY <2>2, <2>5 DEF AnnuelMerge, CleLibre, NonValidees
    <3>2. \A r \in codesPin' : r \in codesPin \/ r = LigneAnnuelle
      BY <2>5 DEF AnnuelMerge
    <3> QED
      BY <2>2, <3>1, <3>2 DEF Neuves
  <2>6. \A r \in codesPin' : ~ MemeCle(r, t)
    BY <2>3, <2>4, <2>5, TableIntacte DEF Supprime, AnnuelPurge
  <2>7. \A b \in Creations \ {c} : \A u \in ecrits'[b] : ~ MemeCle(t, u)
    BY <2>1, <2>2 DEF Neuves
  <2> QED
    BY <2>6, <2>7
<1> QED
  BY <1>1, <1>2 DEF Neuves

-----------------------------------------------------------------------------
\* A transaction ready to commit brings a whole year that the table has not.
LEMMA CommitApparait ==
  ASSUME TypeInv, Transactions, CleUnique, Neuves,
         NEW a \in Creations, Commit(a)
  PROVE  Registre!Apparait
<1>1. /\ codesPin' = codesPin \cup ecrits[a] /\ etat[a] = "commit"
      /\ reecrites' = reecrites
  BY DEF Commit, temoins
<1>2. codesPin' \ codesPin = ecrits[a]
  BY <1>1 DEF Neuves, MemeCle
<1>3. \A t \in ecrits[a] : t.societe = societe[a] /\ t.annee = Annee(a)
  BY DEF Transactions, TransactionEnOrdre
<1>4. \A w \in Semaines : \E t \in ecrits[a] : t.semaine = w
  BY <1>1 DEF Transactions, TransactionEnOrdre
<1>5. PICK r \in ecrits[a] : TRUE
  BY <1>4, ConstantesAssumption DEF Semaines
<1>6. \A t \in ecrits[a] : Registre!MemeAnnee(r, t)
  BY <1>3, <1>5 DEF Registre!MemeAnnee
<1>7. ASSUME NEW t \in codesPin PROVE ~ Registre!MemeAnnee(r, t)
  <2>1. t.semaine \in Semaines
    BY <1>7 DEF TypeInv, TypeOK, Lignes
  <2>2. PICK u \in ecrits[a] : u.semaine = t.semaine
    BY <1>4, <2>1
  <2>3. ~ MemeCle(t, u)
    BY <2>2 DEF Neuves
  <2> QED
    BY <1>3, <1>5, <2>2, <2>3 DEF MemeCle, Registre!MemeAnnee
<1>8. \A t, u \in ecrits[a] : Registre!Meme(t, u) => t = u
  BY DEF CleUnique, NonValidees, MemeCle, Registre!Meme, Registre!MemeAnnee
<1> QED
  BY <1>1, <1>2, <1>4, <1>5, <1>6, <1>7, <1>8
     DEF Registre!Apparait, Semaines

LEMMA PurgeDUneAnnee ==
  ASSUME TypeInv, AnnuelPurge
  PROVE  Registre!Purge \/ codesPin' = codesPin
<1>1. /\ codesPin' = {r \in codesPin : r.annee + 1 # AnneeNouvelle}
      /\ reecrites' = reecrites
  BY DEF AnnuelPurge, temoins
<1>2. \A r \in codesPin : r.annee \in Nat
  BY DEF TypeInv, TypeOK, Lignes
<1>3. ASSUME NEW r \in codesPin, r.annee + 1 = AnneeNouvelle
      PROVE  Registre!Purge
  <2>1. \A t \in codesPin : t.annee + 1 # AnneeNouvelle <=> t.annee # r.annee
    BY <1>2, <1>3
  <2>2. codesPin' = {t \in codesPin : t.annee # r.annee}
    BY <1>1, <2>1
  <2> QED
    BY <1>1, <1>3, <2>2 DEF Registre!Purge
<1> QED
  BY <1>1, <1>3

LEMMA MergeRedessine ==
  ASSUME Reecriture, AnnuelMerge
  PROVE  Registre!Redessine
<1>1. /\ codesPin' = {t \in codesPin : ~ MemeCle(t, LigneAnnuelle)}
                       \cup {LigneAnnuelle}
      /\ reecrites' = reecrites /\ annuelSociete \in reecrites
  BY DEF AnnuelMerge, temoins, Reecriture
<1>2. LigneAnnuelle.societe \in reecrites
  BY <1>1 DEF LigneAnnuelle, Ligne
<1>3. \A t : MemeCle(t, LigneAnnuelle) <=> Registre!Meme(t, LigneAnnuelle)
  BY DEF MemeCle, Registre!Meme, Registre!MemeAnnee
<1> QED
  BY <1>1, <1>2, <1>3 DEF Registre!Redessine

\* Apart from AnnuelSociete no step takes a company up.
LEMMA ReecritesIntactes ==
  ASSUME [Next]_vars, ~ AnnuelSociete
  PROVE  reecrites' = reecrites
<1>1. ASSUME EtapeAnnuelle \/ EchecAnnuel PROVE reecrites' = reecrites
  BY <1>1 DEF EtapeAnnuelle, AnnuelPurge, AnnuelListe, AnnuelTirage,
       AnnuelMerge, AnnuelMessage, AnnuelTermine, EchecAnnuel,
       FinAttenteAnnuel, temoins
<1> QED
  BY <1>1, AnnuelIntact

Inv == TypeInv /\ Transactions /\ Reecriture /\ CleUnique /\ Neuves

LEMMA PasDuRegistre ==
  Inv /\ [Next]_vars => [Registre!Next]_(Registre!vars)
<1> SUFFICES ASSUME Inv, [Next]_vars
             PROVE  Registre!Next \/ UNCHANGED <<codesPin, reecrites>>
  BY DEF Registre!vars
<1> USE DEF Inv
<1>1. ASSUME NEW a \in Creations, Commit(a) PROVE Registre!Next
  BY <1>1, CommitApparait DEF Registre!Next
<1>2. ASSUME NEW a \in Suppressions, Supprime(a)
      PROVE  Registre!Next \/ UNCHANGED <<codesPin, reecrites>>
  <2>1. /\ codesPin' = {t \in codesPin : t.societe # societe[a]}
        /\ reecrites' = reecrites
    BY <1>2 DEF Supprime, temoins
  <2> QED
    BY <2>1 DEF Registre!Next, Registre!Disparait
<1>3. CASE AnnuelPurge
  BY <1>3, PurgeDUneAnnee DEF Registre!Next, AnnuelPurge, temoins
<1>4. CASE AnnuelMerge
  BY <1>4, MergeRedessine DEF Registre!Next
<1>5. CASE AnnuelSociete
  <2>1. \E s \in Societes : reecrites' = reecrites \cup {s}
    BY <1>5 DEF AnnuelSociete, TypeInv, TypeOK
  <2> QED
    BY <1>5, <2>1 DEF AnnuelSociete, base, Registre!Next, Registre!Reprend
<1>6. ASSUME UNCHANGED codesPin, ~ AnnuelSociete
      PROVE  UNCHANGED <<codesPin, reecrites>>
  BY <1>6, ReecritesIntactes
<1> QED
  BY <1>1, <1>2, <1>3, <1>4, <1>5, <1>6, TableIntacte

\* Whatever fails, stops or interleaves, the readers of CodesPIN see whole
\* years and whole companies appear and disappear.
THEOREM RegistreTenuCorrect == Spec => RegistreTenu
<1>1. Init => Registre!Init
  BY DEF Init, Registre!Init
<1>2. Init => Reecriture /\ CleUnique
  BY DEF Init, Reecriture, CleUnique, NonValidees
<1>3. Spec => []Inv
  BY <1>2, TypeInit, TypeSuivant, TransactionsInit, TransactionsSuivant,
     ReecritureSuivant, CleUniqueSuivant, NeuvesInit, NeuvesSuivant, PTL
     DEF Spec, Inv
<1> QED
  BY <1>1, <1>3, PasDuRegistre, PTL DEF Spec, RegistreTenu, Registre!Spec

-----------------------------------------------------------------------------
(***************************************************************************)
(* The clock and the calls.                                                *)
(***************************************************************************)

\* What is at work has crossed one change of instant at most.
Horloge ==
  /\ \A a \in Appels :
       EnCours(a) => debut[a] <= instant /\ instant <= debut[a] + 1
  /\ TacheActive(annuel) =>
       /\ annuelDebut <= instant /\ instant <= annuelDebut + 1
       /\ annuelDebut > 1 /\ "annuel" \in Calendrier[annuelDebut].taches

Validee(a) == etat[a] \in {"accuse", "200"}

\* A step begins a creation, goes on with it, commits it or ends it.
LEMMA CreationAvant ==
  ASSUME TypeInv, [Next]_vars, NEW a \in Creations
  PROVE  /\ EnCours(a)' => \/ EnCours(a) /\ debut'[a] = debut[a]
                           \/ debut'[a] = instant /\ instant' = instant
         /\ Validee(a)' => \/ Commit(a)
                           \/ Validee(a) /\ debut'[a] = debut[a]
         /\ societe' = societe
<1> USE DEF TypeInv, TypeOK, Appels
<1>1. CASE Creation(a)
  <2>1. CASE RecoitCreation(a)
    BY <2>1 DEF RecoitCreation, EnCours, Validee, Finis, Reponses, horloge
  <2>2. CASE Begin(a) \/ LiftValide(a) \/ Tirage(a) \/ Message(a)
    BY <2>2 DEF Begin, LiftValide, Tirage, Message, EnCours, Validee, Finis,
         Reponses
  <2>3. CASE Insertion(a)
    BY <2>3 DEF Insertion, SemaineSuivante, EnCours, Validee, Finis, Reponses
  <2>4. CASE Commit(a) \/ Accuse(a)
    BY <2>4 DEF Commit, Accuse, EnCours, Validee, Finis, Reponses
  <2>5. ASSUME \E r \in {"400", "500"} : Annule(a, r)
        PROVE  /\ etat'[a] \in {"400", "500"} /\ societe' = societe
    BY <2>5 DEF Annule
  <2>6. CASE LiftInvalide(a) \/ InsertionRefusee(a) \/ SansPinActuel(a)
             \/ FinAttenteCreation(a) \/ AccusePerdu(a) \/ EchecCreation(a)
    BY <2>5, <2>6 DEF LiftInvalide, InsertionRefusee, SansPinActuel,
         FinAttenteCreation, AccusePerdu, EchecCreation, EnCours, Validee,
         Finis, Reponses
  <2> QED
    BY <1>1, <2>1, <2>2, <2>3, <2>4, <2>6 DEF Creation, EtapeCreation
<1>2. ASSUME NEW b \in Creations \ {a}, Creation(b)
      PROVE  etat'[a] = etat[a] /\ debut'[a] = debut[a] /\ societe' = societe
  BY <1>2, AutreCreation
<1>3. CASE Arret
  BY <1>3 DEF Arret, EnCours, Validee, Finis, Reponses
<1>4. ASSUME AutrePas
      PROVE  etat'[a] = etat[a] /\ debut'[a] = debut[a] /\ societe' = societe
  BY <1>4, CreationsIntactes
<1> QED
  BY <1>1, <1>2, <1>3, <1>4, PasDeNext DEF EnCours, Validee

\* The same of a deletion: once past its DELETE it never comes back before it.
LEMMA SuppressionAvant ==
  ASSUME TypeInv, [Next]_vars, NEW d \in Suppressions
  PROVE  /\ EnCours(d)' => \/ EnCours(d) /\ debut'[d] = debut[d]
                           \/ debut'[d] = instant /\ instant' = instant
         /\ SansEffet(d)' => SansEffet(d)
         /\ debut'[d] = debut[d] \/ SansEffet(d)
         /\ Supprime(d) => EnCours(d) /\ ~ SansEffet(d)'
         /\ societe' = societe
<1> USE DEF TypeInv, TypeOK, Appels
<1>0. d \notin Creations
  BY ConstantesAssumption
<1>1. ASSUME NEW a \in Creations, Creation(a)
      PROVE  etat'[d] = etat[d] /\ debut'[d] = debut[d] /\ societe' = societe
  BY <1>0, <1>1 DEF Creation, RecoitCreation, EtapeCreation, Begin, LiftValide,
       LiftInvalide, Annule, Tirage, Insertion, SemaineSuivante,
       InsertionRefusee, Message, SansPinActuel, Commit, Accuse, AccusePerdu,
       EchecCreation, FinAttenteCreation
<1>2. ASSUME NEW a \in Suppressions \ {d}, Suppression(a)
      PROVE  etat'[d] = etat[d] /\ debut'[d] = debut[d] /\ societe' = societe
  BY <1>2 DEF Suppression, RecoitSuppression, EtapeSuppression, Supprime,
       MessageSuppression, AccuseSuppression,
       EchecSuppression, FinAttenteSuppression
<1>3. ASSUME Suppression(d)
      PROVE  /\ \/ /\ RecoitSuppression(d) /\ etat'[d] = "delete"
                   /\ debut'[d] = instant /\ instant' = instant
                \/ /\ etat[d] \in EtatsSuppression /\ debut' = debut
                   /\ etat'[d] \notin {"libre", "delete"}
             /\ societe' = societe
  BY <1>3 DEF Suppression, RecoitSuppression, EtapeSuppression, Supprime,
       MessageSuppression, AccuseSuppression,
       EchecSuppression, FinAttenteSuppression,
       EtatsSuppression, horloge
<1>4. ASSUME Arret
      PROVE  /\ EnCours(d)' => EnCours(d)
             /\ SansEffet(d)' => SansEffet(d)
             /\ UNCHANGED <<debut, societe>>
  BY <1>4 DEF Arret, EnCours, SansEffet, Finis, Reponses
<1>5. ASSUME \/ EtapeHebdo \/ EchecHebdo \/ EtapeAnnuelle \/ EchecAnnuel
             \/ Redemarre \/ AvanceInstant \/ UNCHANGED vars
      PROVE  UNCHANGED <<etat, debut, societe>>
  <2>1. ASSUME EtapeHebdo \/ EchecHebdo PROVE UNCHANGED appels
    BY <2>1 DEF EtapeHebdo, HebdoLit, HebdoEnvoie, HebdoTermine, EchecHebdo,
         FinAttenteHebdo
  <2>2. ASSUME EtapeAnnuelle \/ EchecAnnuel PROVE UNCHANGED appels
    BY <2>2 DEF EtapeAnnuelle, AnnuelPurge, AnnuelListe, AnnuelSociete,
         AnnuelTirage, AnnuelMerge, AnnuelMessage, AnnuelTermine,
         FinAttenteAnnuel, EchecAnnuel
  <2> QED
    BY <1>5, <2>1, <2>2 DEF Redemarre, AvanceInstant, vars, appels
<1>6. Supprime(d) => etat[d] = "delete" /\ etat'[d] = "message"
  BY DEF Supprime
<1>7. ASSUME NEW a \in Suppressions, Suppression(a)
      PROVE  \/ a = d /\ Suppression(d)
             \/ etat'[d] = etat[d] /\ debut'[d] = debut[d] /\ societe' = societe
  BY <1>2, <1>7
<1>8. CASE Suppression(d)
  BY <1>3, <1>6, <1>8 DEF RecoitSuppression, EnCours, SansEffet,
     EtatsSuppression, Finis, Reponses
<1>9. ASSUME etat'[d] = etat[d], debut'[d] = debut[d], societe' = societe
      PROVE  ~ Supprime(d)
  BY <1>6, <1>9
<1> HIDE DEF TypeInv, TypeOK, Appels
<1>10. CASE /\ etat'[d] = etat[d] /\ debut'[d] = debut[d] /\ societe' = societe
  BY <1>9, <1>10 DEF EnCours, SansEffet
<1>11. CASE Arret
  <2>1. ~ Supprime(d)
    BY <1>11 DEF Arret, Supprime, horloge
  <2> QED
    BY <1>4, <1>11, <2>1 DEF Arret
<1> QED
  BY <1>1, <1>5, <1>7, <1>8, <1>10, <1>11 DEF Next

\* Only the clock moves the instant, and only it starts the yearly task.
LEMMA HorlogeIntacte ==
  ASSUME TypeInv, [Next]_vars, ~ AvanceInstant
  PROVE  /\ instant' = instant
         /\ TacheActive(annuel)' => TacheActive(annuel) /\ annuelDebut' = annuelDebut
<1>1. ASSUME NEW a \in Creations, Creation(a)
      PROVE  instant' = instant /\ UNCHANGED tacheAnnuel
  BY <1>1 DEF Creation, RecoitCreation, EtapeCreation, Begin, LiftValide,
       LiftInvalide, Annule, Tirage, Insertion, InsertionRefusee, Message,
       SansPinActuel, Commit, Accuse, AccusePerdu, EchecCreation,
       FinAttenteCreation, horloge
<1>2. ASSUME NEW a \in Suppressions, Suppression(a)
      PROVE  instant' = instant /\ UNCHANGED tacheAnnuel
  BY <1>2 DEF Suppression, RecoitSuppression, EtapeSuppression, Supprime,
       MessageSuppression, AccuseSuppression,
       EchecSuppression, FinAttenteSuppression, horloge
<1>3. ASSUME EtapeHebdo \/ EchecHebdo
      PROVE  instant' = instant /\ UNCHANGED tacheAnnuel
  BY <1>3 DEF EtapeHebdo, HebdoLit, HebdoEnvoie, HebdoTermine, EchecHebdo,
       FinAttenteHebdo, horloge
<1>4. ASSUME EtapeAnnuelle \/ EchecAnnuel
      PROVE  instant' = instant /\ TacheActive(annuel) /\ annuelDebut' = annuelDebut
  BY <1>4 DEF EtapeAnnuelle, AnnuelPurge, AnnuelListe, AnnuelSociete,
       AnnuelTirage, AnnuelMerge, AnnuelMessage, AnnuelTermine,
       FinAttenteAnnuel, EchecAnnuel, TacheActive, horloge
<1>5. ASSUME Arret \/ Redemarre \/ UNCHANGED vars
      PROVE  instant' = instant /\ (annuel' = "repos" \/ UNCHANGED tacheAnnuel)
  BY <1>5 DEF Arret, Redemarre, vars, horloge, tacheAnnuel
<1> QED
  BY <1>1, <1>2, <1>3, <1>4, <1>5 DEF Next, TacheActive, tacheAnnuel

LEMMA HorlogeSuivant == TypeInv /\ Horloge /\ [Next]_vars => Horloge'
<1> SUFFICES ASSUME TypeInv, Horloge, [Next]_vars PROVE Horloge'
  OBVIOUS
<1> USE DEF TypeInv, TypeOK
<1>0. instant \in Nat /\ annuelDebut \in Nat /\ \A a \in Appels : debut[a] \in Nat
  BY DEF Instants
<1>1. CASE AvanceInstant
  <2>1. instant' = instant + 1 /\ PeutAvancer(instant + 1)
    BY <1>1 DEF AvanceInstant
  <2>2. \A a \in Appels :
          EnCours(a)' => debut'[a] <= instant' /\ instant' <= debut'[a] + 1
    BY <1>0, <1>1, <2>1 DEF AvanceInstant, PeutAvancer, appels, EnCours
  <2>3. CASE Declenche("annuel", instant + 1)
    BY <1>0, <1>1, <2>1, <2>2, <2>3, LongueurCalendrier
       DEF AvanceInstant, Declenche, Horloge, Instants
  <2>4. CASE ~ Declenche("annuel", instant + 1)
    <3>1. annuel' = annuel /\ annuelDebut' = annuelDebut
      BY <1>1, <2>4 DEF AvanceInstant
    <3> QED
      BY <1>0, <2>1, <2>2, <3>1 DEF Horloge, PeutAvancer, TacheActive
  <2> QED
    BY <2>3, <2>4
<1>2. CASE ~ AvanceInstant
  <2>1. instant' = instant
    BY <1>2, HorlogeIntacte
  <2>2. \A a \in Appels :
          EnCours(a)' => debut'[a] <= instant' /\ instant' <= debut'[a] + 1
    BY <1>0, <2>1, CreationAvant, SuppressionAvant DEF Horloge, Appels
  <2> QED
    BY <1>2, <2>1, <2>2, HorlogeIntacte DEF Horloge
<1> QED
  BY <1>1, <1>2

\* A company that no deletion has reached beside the task was out of their reach
\* before the step too, and the step is not the DELETE of one of its deletions.
LEMMA EpargneeAvant ==
  ASSUME TypeInv, Horloge, [Next]_vars, TacheActive(annuel),
         UNCHANGED annuelDebut, NEW s, Epargnee(s)'
  PROVE  Epargnee(s) /\ \A d \in Suppressions : Supprime(d) => societe[d] # s
<1>1. ASSUME NEW d \in Suppressions, societe[d] = s
      PROVE  /\ SansEffet(d) \/ debut[d] + 1 < annuelDebut
             /\ ~ Supprime(d)
  <2>1. SansEffet(d)' \/ debut'[d] + 1 < annuelDebut
    BY <1>1, SuppressionAvant DEF Epargnee
  <2>2. debut[d] \in Nat /\ annuelDebut \in Nat /\ instant \in Nat
    BY DEF TypeInv, TypeOK, Appels, Instants
  <2>3. EnCours(d) => instant <= debut[d] + 1
    BY DEF Horloge, Appels
  <2>4. annuelDebut <= instant
    BY DEF Horloge
  <2>5. SansEffet(d) \/ debut[d] + 1 < annuelDebut
    BY <2>1, SuppressionAvant
  <2>6. ASSUME Supprime(d) PROVE FALSE
    <3>1. /\ EnCours(d) /\ debut'[d] + 1 < annuelDebut /\ debut' = debut
      BY <2>1, <2>6, SuppressionAvant DEF Supprime
    <3> QED
      BY <2>2, <2>3, <2>4, <3>1
  <2> QED
    BY <2>5, <2>6
<1> QED
  BY <1>1 DEF Epargnee

-----------------------------------------------------------------------------
(***************************************************************************)
(* What the yearly task and repeated creations guarantee a company whose   *)
(* deletions have not run.                                                 *)
(***************************************************************************)

\* A row of the table for this company, week and year.
Inscrite(s, w, y) ==
  \E t \in codesPin : t.societe = s /\ t.semaine = w /\ t.annee = y

\* Only the purge of its year and a deletion of its company take a row away.
LEMMA InscriteReste ==
  ASSUME TypeInv, [Next]_vars, NEW s, NEW w, NEW y, Inscrite(s, w, y),
         \A d \in Suppressions : Supprime(d) => societe[d] # s,
         ~ (AnnuelPurge /\ y + 1 = AnneeNouvelle)
  PROVE  Inscrite(s, w, y)'
<1>1. CASE UNCHANGED codesPin
  BY <1>1 DEF Inscrite
<1>2. ASSUME NEW a \in Creations, Commit(a) PROVE Inscrite(s, w, y)'
  BY <1>2 DEF Commit, Inscrite
<1>3. CASE AnnuelPurge
  BY <1>3 DEF AnnuelPurge, Inscrite
<1>4. CASE AnnuelMerge
  <2>1. PICK t \in codesPin : t.societe = s /\ t.semaine = w /\ t.annee = y
    BY DEF Inscrite
  <2>2. CASE MemeCle(t, LigneAnnuelle)
    <3>1. LigneAnnuelle \in codesPin'
      BY <1>4 DEF AnnuelMerge
    <3> QED
      BY <2>1, <2>2, <3>1 DEF MemeCle, Inscrite
  <2>3. CASE ~ MemeCle(t, LigneAnnuelle)
    BY <1>4, <2>1, <2>3 DEF AnnuelMerge, Inscrite
  <2> QED
    BY <2>2, <2>3
<1>5. ASSUME NEW d \in Suppressions, Supprime(d) PROVE Inscrite(s, w, y)'
  BY <1>5 DEF Supprime, Inscrite
<1> QED
  BY <1>1, <1>2, <1>3, <1>4, <1>5, TableIntacte

-----------------------------------------------------------------------------
(***************************************************************************)
(* The yearly task.                                                        *)
(***************************************************************************)

\* The weeks it has drawn for the company it is at, unless a deletion of that
\* company has run beside it.
Dessinees ==
  Epargnee(annuelSociete) =>
    /\ annuel \in {"tirage", "merge"} =>
         \A w \in Semaines : w < annuelSemaine =>
           Inscrite(annuelSociete, w, AnneeNouvelle)
    /\ annuel = "message" =>
         \A w \in Semaines : w <= annuelSemaine =>
           Inscrite(annuelSociete, w, AnneeNouvelle)

\* What is drawn when the task leaves a company.
Achevee ==
  annuel' = "societe" /\ annuel \in {"merge", "message"}
  /\ Epargnee(annuelSociete) =>
    \A w \in Semaines : Inscrite(annuelSociete, w, AnneeNouvelle)'

\* A merge or a message brings the loop one week further.
LEMMA SuiteDessinee ==
  ASSUME TypeInv, TypeInv', SuiteAnnuelle,
         UNCHANGED <<etat, societe, debut, annuelSociete, annuelDebut>>,
         Epargnee(annuelSociete) =>
           \A w \in Semaines : w <= annuelSemaine =>
             Inscrite(annuelSociete, w, AnneeNouvelle)'
  PROVE  Dessinees' /\ Achevee
<1>1. annuelSemaine \in Semaines /\ DerniereSemaine \in Nat
  BY ConstantesAssumption DEF TypeInv, TypeOK
<1>2. Epargnee(annuelSociete)' => Epargnee(annuelSociete)
  BY DEF Epargnee, SansEffet
<1>3. CASE annuelSemaine < DerniereSemaine
  <2>1. annuel' = "tirage" /\ annuelSemaine' = annuelSemaine + 1
    BY <1>3 DEF SuiteAnnuelle
  <2>2. \A w \in Semaines : w < annuelSemaine' => w <= annuelSemaine
    BY <1>1, <2>1 DEF Semaines
  <2> QED
    BY <1>2, <2>1, <2>2 DEF Dessinees, Achevee
<1>4. CASE ~ (annuelSemaine < DerniereSemaine)
  <2>1. annuel' = "societe"
    BY <1>4 DEF SuiteAnnuelle
  <2>2. \A w \in Semaines : w <= annuelSemaine
    BY <1>1, <1>4 DEF Semaines
  <2> QED
    BY <2>1, <2>2 DEF Dessinees, Achevee
<1> QED
  BY <1>3, <1>4

LEMMA DessineesSuivant ==
  ASSUME TypeInv, Horloge, Dessinees, [Next]_vars
  PROVE  Dessinees' /\ Achevee
<1>0. TypeInv'
  BY TypeSuivant
<1>1. ASSUME UNCHANGED <<tacheAnnuel, reecrites>> PROVE Dessinees' /\ Achevee
  <2>1. annuel' # "societe" \/ annuel \notin {"merge", "message"}
    BY <1>1 DEF tacheAnnuel
  <2>2. ASSUME annuel \in {"tirage", "merge", "message"},
               Epargnee(annuelSociete)', NEW w \in Semaines,
               Inscrite(annuelSociete, w, AnneeNouvelle)
        PROVE  Inscrite(annuelSociete, w, AnneeNouvelle)'
    <3> DEFINE s == annuelSociete
               y == AnneeNouvelle
    <3>1. AnneeNouvelle' = y /\ annuelSociete' = s
      BY <1>1 DEF tacheAnnuel, AnneeNouvelle
    <3>2. ~ AnnuelPurge
      BY <2>2 DEF AnnuelPurge
    <3>3. \A d \in Suppressions : Supprime(d) => societe[d] # s
      <4>1. PICK c : c = s
        OBVIOUS
      <4>2. Epargnee(c)'
        BY <2>2, <3>1, <4>1 DEF Epargnee
      <4>3. TacheActive(annuel) /\ UNCHANGED annuelDebut
        BY <1>1, <2>2 DEF TacheActive, tacheAnnuel
      <4> QED
        BY <4>1, <4>2, <4>3, EpargneeAvant
    <3>4. \E t \in codesPin' : t.societe = s /\ t.semaine = w /\ t.annee = y
      BY <2>2, <3>2, <3>3, InscriteReste DEF Inscrite
    <3> QED
      BY <3>1, <3>4 DEF Inscrite
  <2>3. ASSUME annuel \in {"tirage", "merge", "message"},
               Epargnee(annuelSociete)'
        PROVE  Epargnee(annuelSociete)
    <3> DEFINE s == annuelSociete
    <3>1. PICK c : c = s
      OBVIOUS
    <3>2. Epargnee(c)'
      BY <1>1, <2>3, <3>1 DEF Epargnee, tacheAnnuel
    <3>3. TacheActive(annuel) /\ UNCHANGED annuelDebut
      BY <1>1, <2>3 DEF TacheActive, tacheAnnuel
    <3> QED
      BY <3>1, <3>2, <3>3, EpargneeAvant
  <2> QED
    BY <1>1, <2>1, <2>2, <2>3 DEF Dessinees, Achevee, tacheAnnuel
<1>2. CASE AnnuelMerge
  <2>0. UNCHANGED <<etat, societe, debut, annuelSociete, annuelDebut>>
    BY <1>2 DEF AnnuelMerge, appels
  <2>1. ASSUME Epargnee(annuelSociete), NEW w \in Semaines, w <= annuelSemaine
        PROVE  Inscrite(annuelSociete, w, AnneeNouvelle)'
    <3>1. LigneAnnuelle \in codesPin' /\ UNCHANGED <<annuelSociete, annuelDebut>>
      BY <1>2 DEF AnnuelMerge
    <3>2. CASE w = annuelSemaine
      BY <3>1, <3>2 DEF LigneAnnuelle, Ligne, Inscrite, AnneeNouvelle
    <3>3. CASE w # annuelSemaine
      <4>1. w < annuelSemaine
        BY <2>1, <3>3 DEF Semaines, TypeInv, TypeOK
      <4>2. PICK t \in codesPin : /\ t.societe = annuelSociete /\ t.semaine = w
                                  /\ t.annee = AnneeNouvelle
        BY <1>2, <2>1, <4>1 DEF AnnuelMerge, Dessinees, Inscrite
      <4>3. ~ MemeCle(t, LigneAnnuelle)
        BY <3>3, <4>2 DEF MemeCle, LigneAnnuelle, Ligne
      <4> QED
        BY <1>2, <3>1, <4>2, <4>3 DEF AnnuelMerge, Inscrite, AnneeNouvelle
    <3> QED
      BY <3>2, <3>3
  <2>2. CASE annuelSemaine = 1
    <3>1. /\ annuel' = "message" /\ annuelSemaine' = annuelSemaine
          /\ Epargnee(annuelSociete)' => Epargnee(annuelSociete)
      BY <1>2, <2>0, <2>2 DEF AnnuelMerge, Epargnee, SansEffet
    <3> QED
      BY <2>1, <3>1 DEF Dessinees, Achevee
  <2>3. CASE annuelSemaine # 1
    BY <1>0, <1>2, <2>0, <2>1, <2>3, SuiteDessinee DEF AnnuelMerge
  <2> QED
    BY <2>2, <2>3
<1>3. CASE AnnuelMessage
  <2>0. UNCHANGED <<etat, societe, debut, annuelSociete, annuelDebut>>
    BY <1>3 DEF AnnuelMessage, appels
  <2>1. Epargnee(annuelSociete) =>
          \A w \in Semaines : w <= annuelSemaine =>
            Inscrite(annuelSociete, w, AnneeNouvelle)'
    BY <1>3 DEF AnnuelMessage, Dessinees, Inscrite, AnneeNouvelle
  <2> QED
    BY <1>0, <1>3, <2>0, <2>1, SuiteDessinee DEF AnnuelMessage
<1>4. CASE AnnuelSociete
  <2>1. annuel' = "tirage" /\ annuelSemaine' = 1 /\ annuel = "societe"
    BY <1>4 DEF AnnuelSociete
  <2>2. \A w \in Semaines : ~ (w < 1)
    BY DEF Semaines
  <2> QED
    BY <2>1, <2>2 DEF Dessinees, Achevee
<1>5. CASE AnnuelTirage
  <2>1. /\ annuel = "tirage" /\ annuel' = "merge"
        /\ annuelSociete' = annuelSociete /\ annuelSemaine' = annuelSemaine
        /\ codesPin' = codesPin /\ AnneeNouvelle' = AnneeNouvelle
        /\ Epargnee(annuelSociete)' => Epargnee(annuelSociete)
    BY <1>5 DEF AnnuelTirage, base, appels, AnneeNouvelle, Epargnee, SansEffet
  <2> QED
    BY <2>1 DEF Dessinees, Achevee, Inscrite
<1>6. ASSUME annuel' \in {"repos", "purge", "liste"} PROVE Dessinees' /\ Achevee
  BY <1>6 DEF Dessinees, Achevee
<1>7. CASE AnnuelListe
  BY <1>7 DEF AnnuelListe, Dessinees, Achevee
<1> QED
  BY <1>1, <1>2, <1>3, <1>4, <1>5, <1>6, <1>7, AnnuelIntact
     DEF EtapeAnnuelle, AnnuelPurge, AnnuelTermine, FinAttenteAnnuel, EchecAnnuel

\* Whatever creations and deletions run beside it, the yearly task leaves no
\* company with a week missing but those that one of the deletions took away.
THEOREM AnneeRenouveleeCorrect == Spec => AnneeRenouvelee
<1>1. Init => Horloge /\ Dessinees
  BY DEF Init, Horloge, Dessinees, EnCours, TacheActive
<1>2. TypeInv /\ Horloge /\ Dessinees /\ [Next]_vars => Dessinees'
  BY DessineesSuivant
<1>3. TypeInv /\ Horloge /\ Dessinees /\ [Next]_vars =>
        [annuel' = "societe" /\ annuel \in {"merge", "message"}
         /\ Epargnee(annuelSociete) =>
           \A w \in Semaines :
             \E t \in codesPin' :
               MemeCle(t, Ligne(annuelSociete, w, AnneeNouvelle, Aucun))]_vars
  <2> SUFFICES ASSUME TypeInv, Horloge, Dessinees, [Next]_vars,
                      annuel' = "societe", annuel \in {"merge", "message"},
                      Epargnee(annuelSociete), NEW w \in Semaines
               PROVE  \E t \in codesPin' :
                        MemeCle(t, Ligne(annuelSociete, w, AnneeNouvelle, Aucun))
    OBVIOUS
  <2>1. Inscrite(annuelSociete, w, AnneeNouvelle)'
    BY DessineesSuivant DEF Achevee
  <2>2. AnneeNouvelle' = AnneeNouvelle /\ annuelSociete' = annuelSociete
    <3>1. AnnuelMerge \/ AnnuelMessage
      BY AnnuelIntact
         DEF EtapeAnnuelle, AnnuelPurge, AnnuelListe, AnnuelSociete,
             AnnuelTirage, AnnuelTermine, FinAttenteAnnuel, EchecAnnuel,
             tacheAnnuel
    <3> QED
      BY <3>1 DEF AnnuelMerge, AnnuelMessage, AnneeNouvelle
  <2> QED
    BY <2>1, <2>2 DEF Inscrite, MemeCle, Ligne
<1> QED
  BY <1>1, <1>2, <1>3, TypeInit, TypeSuivant, HorlogeSuivant, PTL
     DEF Spec, AnneeRenouvelee

-----------------------------------------------------------------------------
(***************************************************************************)
(* Repeated creations.                                                     *)
(***************************************************************************)

\* No call will write a row of this year any more.
Passee(y) ==
  /\ y < Calendrier[instant].annee
  /\ \A a \in Creations : EnCours(a) => y < Annee(a)

\* What a creation has committed stays as long as its year, if no deletion of
\* its company has run.
Acquise(a) ==
  Validee(a) /\ JamaisSupprimee(societe[a]) =>
    \/ \A w \in Semaines : Inscrite(societe[a], w, Annee(a))
    \/ Passee(Annee(a))

Acquises == \A a \in Creations : Acquise(a)

UneSeule ==
  \A a, b \in Creations :
    /\ Validee(a) /\ Validee(b)
    /\ societe[a] = societe[b] /\ Annee(a) = Annee(b)
    /\ JamaisSupprimee(societe[a])
    => a = b

LEMMA JamaisSupprimeeAvant ==
  ASSUME TypeInv, [Next]_vars, NEW s, JamaisSupprimee(s)'
  PROVE  JamaisSupprimee(s) /\ \A d \in Suppressions : Supprime(d) => societe[d] # s
BY SuppressionAvant DEF JamaisSupprimee

\* Years do not go back from an instant to the next.
LEMMA AnneesCroissantes ==
  ASSUME NEW i \in Instants, i + 1 \in Instants
  PROVE  Calendrier[i].annee <= Calendrier[i + 1].annee
<1>1. i + 1 \in 2 .. Len(Calendrier) /\ (i + 1) - 1 = i
  BY LongueurCalendrier DEF Instants
<1> QED
  BY <1>1, CalendrierAssumption

\* A year that has passed has passed for good.
LEMMA PasseeReste ==
  ASSUME TypeInv, TypeInv', [Next]_vars, NEW y \in Nat, Passee(y)
  PROVE  Passee(y)'
<1>0. /\ instant \in Instants /\ instant' \in Instants
      /\ Calendrier[instant].annee \in Nat /\ Calendrier[instant'].annee \in Nat
  BY DateType DEF TypeInv, TypeOK
<1>1. Calendrier[instant].annee <= Calendrier[instant'].annee
  <2>1. CASE AvanceInstant
    BY <1>0, <2>1, AnneesCroissantes DEF AvanceInstant
  <2>2. CASE ~ AvanceInstant
    BY <1>0, <2>2, HorlogeIntacte
  <2> QED
    BY <2>1, <2>2
<1>2. y < Calendrier[instant'].annee
  BY <1>0, <1>1 DEF Passee
<1>3. ASSUME NEW a \in Creations, EnCours(a)' PROVE y < Annee(a)'
  <2>1. (EnCours(a) /\ debut'[a] = debut[a]) \/ debut'[a] = instant
    BY <1>3, CreationAvant
  <2> QED
    BY <2>1 DEF Passee, Annee
<1> QED
  BY <1>2, <1>3 DEF Passee

\* The purge takes a year that has passed: a creation still at work when the task
\* of January 1st runs began in the new year.
LEMMA PurgePassee ==
  ASSUME TypeInv, Horloge, AnnuelPurge, NEW y \in Nat, y + 1 = AnneeNouvelle
  PROVE  Passee(y)
<1> USE DEF TypeInv, TypeOK
<1>1. /\ instant \in Instants /\ annuelDebut \in Instants /\ annuelDebut > 1
      /\ "annuel" \in Calendrier[annuelDebut].taches
      /\ annuelDebut = instant \/ instant = annuelDebut + 1
  BY DEF AnnuelPurge, Horloge, TacheActive, Instants
<1> DEFINE d == annuelDebut
<1>2. /\ d \in 2 .. Len(Calendrier) /\ d - 1 \in Instants /\ d \in Nat
      /\ (d - 1) + 1 = d
  BY <1>1, LongueurCalendrier DEF Instants
<1>3. /\ Calendrier[d].annee \in Nat
      /\ Calendrier[d - 1].annee = Calendrier[d].annee
  BY <1>1, <1>2, DateType, CalendrierAssumption
<1>4. y < Calendrier[d].annee
  BY <1>3 DEF AnneeNouvelle
<1>5. ASSUME NEW i \in Instants, i = d - 1 \/ i = d \/ i = d + 1
      PROVE  y < Calendrier[i].annee
  <2>1. CASE i = d + 1
    <3>1. Calendrier[d].annee <= Calendrier[i].annee /\ Calendrier[i].annee \in Nat
      BY <1>1, <2>1, AnneesCroissantes, DateType
    <3> QED
      BY <1>3, <1>4, <3>1
  <2> QED
    BY <1>3, <1>4, <1>5, <2>1
<1>6. y < Calendrier[instant].annee
  BY <1>1, <1>5
<1>7. ASSUME NEW a \in Creations, EnCours(a) PROVE y < Annee(a)
  <2>1. debut[a] \in Instants
    BY DEF Appels
  <2>2. debut[a] <= instant /\ instant <= debut[a] + 1
    BY <1>7 DEF Horloge, Appels
  <2>3. debut[a] \in Nat /\ instant \in Nat
    BY <1>1, <2>1 DEF Instants
  <2>4. debut[a] = d - 1 \/ debut[a] = d \/ debut[a] = d + 1
    BY <1>1, <1>2, <2>2, <2>3
  <2> QED
    BY <1>5, <2>1, <2>4 DEF Annee
<1> QED
  BY <1>6, <1>7 DEF Passee

LEMMA AcquisesSuivant ==
  ASSUME TypeInv, TypeInv', Transactions, Horloge, Acquises, [Next]_vars
  PROVE  Acquises'
<1> SUFFICES ASSUME NEW a \in Creations, Validee(a)',
                    JamaisSupprimee(societe[a])'
             PROVE  \/ \A w \in Semaines : Inscrite(societe[a], w, Annee(a))'
                    \/ Passee(Annee(a))'
  BY DEF Acquises, Acquise
<1>1. CASE Commit(a)
  <2>1. /\ codesPin' = codesPin \cup ecrits[a] /\ etat[a] = "commit"
        /\ UNCHANGED <<societe, debut>>
    BY <1>1 DEF Commit
  <2>2. \A w \in Semaines : \E t \in ecrits[a] :
          t.semaine = w /\ t.societe = societe[a] /\ t.annee = Annee(a)
    BY <2>1 DEF Transactions, TransactionEnOrdre
  <2> QED
    BY <2>1, <2>2 DEF Inscrite, Annee
<1>2. CASE Validee(a) /\ debut'[a] = debut[a]
  <2> DEFINE s == societe[a]
             y == Annee(a)
  <2>0. societe'[a] = s /\ Annee(a)' = y
    BY <1>2, CreationAvant DEF Annee
  <2>5. JamaisSupprimee(s) /\ \A d \in Suppressions : Supprime(d) => societe[d] # s
    <3>1. PICK c : c = s
      OBVIOUS
    <3>2. JamaisSupprimee(c)'
      BY <2>0, <3>1 DEF JamaisSupprimee
    <3> QED
      BY <3>1, <3>2, JamaisSupprimeeAvant
  <2>1. y \in Nat
    BY DateType DEF Annee, TypeInv, TypeOK, Appels
  <2>2. ASSUME Passee(y) PROVE Passee(Annee(a))'
    <3>1. PICK n \in Nat : n = y
      BY <2>1
    <3>2. Passee(n) /\ Annee(a)' = n
      BY <2>0, <2>2, <3>1
    <3>3. Passee(n)'
      BY <3>2, PasseeReste
    <3> QED
      BY <3>2, <3>3 DEF Passee
  <2>3. CASE AnnuelPurge /\ y + 1 = AnneeNouvelle
    BY <2>1, <2>2, <2>3, PurgePassee
  <2>4. ASSUME ~ (AnnuelPurge /\ y + 1 = AnneeNouvelle),
               \A w \in Semaines : Inscrite(s, w, y), NEW w \in Semaines
        PROVE  Inscrite(societe[a], w, Annee(a))'
    <3> HIDE DEF s, y
    <3>1. Inscrite(s, w, y)
      BY <2>4
    <3>2. \E t \in codesPin' : t.societe = s /\ t.semaine = w /\ t.annee = y
      BY <2>4, <2>5, <3>1, InscriteReste DEF Inscrite
    <3> QED
      BY <2>0, <3>2 DEF Inscrite
  <2> QED
    BY <1>2, <2>2, <2>3, <2>4, <2>5 DEF Acquises, Acquise
<1> QED
  BY <1>1, <1>2, CreationAvant

\* A commit finds no other creation of its company and year committed: its first
\* week would be in the table, or its year would have passed.
LEMMA CommitNouveau ==
  ASSUME TypeInv, Transactions, Neuves, Acquises, NEW b \in Creations, Commit(b),
         NEW a \in Creations, Validee(a), societe[a] = societe[b],
         Annee(a) = Annee(b), JamaisSupprimee(societe[a])
  PROVE  FALSE
<1>1. etat[b] = "commit"
  BY DEF Commit
<1>2. CASE Passee(Annee(a))
  <2>1. EnCours(b)
    BY <1>1 DEF EnCours, Finis, Reponses
  <2>2. Annee(b) \in Nat
    BY DateType DEF Annee, TypeInv, TypeOK, Appels
  <2> QED
    BY <1>2, <2>1, <2>2 DEF Passee
<1>3. CASE \A w \in Semaines : Inscrite(societe[a], w, Annee(a))
  <2>1. 1 \in Semaines
    BY ConstantesAssumption DEF Semaines
  <2>2. PICK r \in codesPin : /\ r.societe = societe[a] /\ r.semaine = 1
                              /\ r.annee = Annee(a)
    BY <1>3, <2>1 DEF Inscrite
  <2>3. PICK t \in ecrits[b] : /\ t.societe = societe[b] /\ t.semaine = 1
                               /\ t.annee = Annee(b)
    BY <1>1, <2>1 DEF Transactions, TransactionEnOrdre
  <2> QED
    BY <2>2, <2>3 DEF Neuves, MemeCle
<1> QED
  BY <1>2, <1>3 DEF Acquises, Acquise

LEMMA UneSeuleSuivant ==
  ASSUME TypeInv, Transactions, Neuves, Acquises, UneSeule, [Next]_vars
  PROVE  UneSeule'
<1> SUFFICES ASSUME NEW a \in Creations, NEW b \in Creations, a # b,
                    Validee(a)', Validee(b)', societe'[a] = societe'[b],
                    Annee(a)' = Annee(b)', JamaisSupprimee(societe[a])'
             PROVE  FALSE
  BY DEF UneSeule
<1>0. societe' = societe /\ JamaisSupprimee(societe[a])
  <2>1. societe' = societe
    BY CreationAvant
  <2>2. PICK s : s = societe[a]
    OBVIOUS
  <2>3. JamaisSupprimee(s)'
    BY <2>1, <2>2 DEF JamaisSupprimee
  <2> QED
    BY <2>1, <2>2, <2>3, JamaisSupprimeeAvant
<1>1. ASSUME NEW c \in Creations, Commit(c), NEW d \in Creations, d # c,
             Validee(d)', societe[d] = societe[c], Annee(d)' = Annee(c)',
             JamaisSupprimee(societe[d])
      PROVE  FALSE
  <2>1. Validee(d) /\ UNCHANGED debut
    BY <1>1 DEF Commit, Validee, TypeInv, TypeOK
  <2>2. Annee(d) = Annee(c)
    BY <1>1, <2>1 DEF Annee
  <2> QED
    BY <1>1, <2>1, <2>2, CommitNouveau
<1>2. CASE Commit(a) \/ Commit(b)
  BY <1>0, <1>1, <1>2
<1>3. CASE ~ Commit(a) /\ ~ Commit(b)
  <2>1. /\ Validee(a) /\ debut'[a] = debut[a]
        /\ Validee(b) /\ debut'[b] = debut[b]
    BY <1>3, CreationAvant
  <2> QED
    BY <1>0, <2>1 DEF UneSeule, Annee
<1> QED
  BY <1>2, <1>3

\* A creation that is tried again, whatever the answer of the first, succeeds
\* once a year, unless a deletion of the company has run.
THEOREM UneSeuleCreationCorrect == Spec => []UneSeuleCreation
<1>1. Init => Horloge /\ Acquises /\ UneSeule
  BY DEF Init, Horloge, Acquises, Acquise, UneSeule, Validee, EnCours, Finis,
         TacheActive, Appels
<1>2. UneSeule => UneSeuleCreation
  BY DEF UneSeule, UneSeuleCreation, Validee
<1>3. /\ TypeInv /\ TypeInv' /\ Transactions /\ Neuves /\ Horloge /\ Acquises
      /\ UneSeule /\ [Next]_vars
      => Horloge' /\ Acquises' /\ UneSeule'
  BY HorlogeSuivant, AcquisesSuivant, UneSeuleSuivant
<1> QED
  BY <1>1, <1>2, <1>3, TypeInit, TypeSuivant, TransactionsInit,
     TransactionsSuivant, NeuvesInit, NeuvesSuivant, PTL DEF Spec

=============================================================================
