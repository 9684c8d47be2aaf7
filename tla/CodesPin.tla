------------------------------ MODULE CodesPin ------------------------------
(***************************************************************************)
(* The life of the companies' PIN codes in src/Server/DashNov_Server.js:   *)
(*                                                                         *)
(*   - POST   /creerSocieteAvecCodePin  (one transaction, a row a week)    *)
(*   - DELETE /supprimerSociete         (two autocommitted statements)     *)
(*   - the weekly cron task, Monday 04:00, that sends each company's PIN   *)
(*     of the week to the access-control system                            *)
(*   - the yearly cron task, January 1st 01:00, that purges and redraws    *)
(*                                                                         *)
(* All of them run in one Node process and interleave at each await, over  *)
(* the table CodesPIN (SQL Server) and the queue QueueMSGAPI.  One action  *)
(* is the code between two awaits, with the effect of the statement the    *)
(* first await waited for.  Any statement may fail, the process may stop   *)
(* between any two steps, and a commit may succeed while its               *)
(* acknowledgement is lost.                                                *)
(***************************************************************************)
EXTENDS Naturals, Sequences, FiniteSets

CONSTANTS
  Societes,            \* company names
  Pins,                \* what genererCodePin can draw ("1000".."9999")
  Aucun,               \* no PIN
  DerniereSemaine,     \* 52 in the code
  Creations,           \* slots of creation calls, each used at most once
  Suppressions,        \* slots of deletion calls, each used at most once
  Calendrier,          \* the instants of the run: [annee, semaine, taches]
  TaillePool,          \* config.pool.max: 10 in the code
  LecturesVerrouillees \* TRUE: READ COMMITTED with locks, FALSE: row versions

Semaines == 1 .. DerniereSemaine
Appels   == Creations \cup Suppressions
Instants == 1 .. Len(Calendrier)

ASSUME ConstantesAssumption ==
  /\ Aucun \notin Pins
  /\ DerniereSemaine \in Nat \ {0}
  /\ TaillePool \in Nat \ {0}
  /\ Creations \cap Suppressions = {}
  /\ IsFiniteSet(Creations)
  /\ LecturesVerrouillees \in BOOLEAN

(***************************************************************************)
(* An instant is a midnight or the hour of a cron task, with what          *)
(* new Date().getFullYear() and moment().isoWeek() answer from it on until *)
(* the next one.  A task's hour lies in the same day as the instant before *)
(* it, and years do not go back.                                           *)
(***************************************************************************)
ASSUME CalendrierAssumption ==
  /\ Calendrier \in Seq([annee : Nat, semaine : Nat \ {0},
                         taches : SUBSET {"hebdo", "annuel"}])
  /\ Len(Calendrier) > 0
  /\ \A i \in 2 .. Len(Calendrier) :
       /\ Calendrier[i - 1].annee <= Calendrier[i].annee
       /\ Calendrier[i].taches # {} =>
            /\ Calendrier[i].annee = Calendrier[i - 1].annee
            /\ Calendrier[i].semaine = Calendrier[i - 1].semaine

VARIABLES
  codesPin,      \* committed rows of CodesPIN
  carte,         \* what the messages of QueueMSGAPI leave on card <societe>_PIN
  instant,       \* index in Calendrier of the current instant
  serveur,       \* is the Node process running?
  etat,          \* of each call: the await it is at, or its HTTP answer
  societe,       \* of each call: req.body.nomSociete
  debut,         \* of each call: the instant it read the date
  semaine, pin,  \* of each creation: its local variables
  ecrits,        \* of each creation: the rows of its open transaction
  connexions,    \* the creations that hold a connection of the pool
  hebdo, hebdoDebut, hebdoReste,          \* the weekly task
  annuel, annuelDebut, annuelReste,       \* the yearly task
  annuelSociete, annuelSemaine, annuelPin,
  \* History: read by the properties only.
  attribues,     \* every row ever committed
  reecrites,     \* companies the yearly task has begun to rewrite
  perturbees,    \* companies a deletion or the yearly task touched this week
  chevauche,     \* have two writers of CodesPIN ever been active together?
  aJour          \* has a weekly run of the current week succeeded?

base        == <<codesPin, carte, attribues>>
horloge     == <<instant, serveur, aJour>>
appels      == <<etat, societe, debut, semaine, pin, ecrits, connexions>>
tacheHebdo  == <<hebdo, hebdoDebut, hebdoReste>>
tacheAnnuel == <<annuel, annuelDebut, annuelReste, annuelSociete,
                 annuelSemaine, annuelPin>>
temoins     == <<reecrites, perturbees, chevauche>>
vars == <<base, horloge, appels, tacheHebdo, tacheAnnuel, temoins>>

-----------------------------------------------------------------------------
Ligne(s, w, a, p) == [societe |-> s, semaine |-> w, annee |-> a, pin |-> p]

Lignes == [societe : Societes, semaine : Semaines, annee : Nat, pin : Pins]

\* UNIQUE (Societe, Semaine, Annee)
MemeCle(r, t) == /\ r.societe = t.societe
                 /\ r.semaine = t.semaine
                 /\ r.annee = t.annee

EtatsTransaction == {"lift", "tirage", "insertion", "file", "commit"}
EtatsSuppression == {"delete", "message", "accuse"}
Reponses == {"200", "400", "500"}
Finis    == Reponses \cup {"perdu"}
EnCours(a) == etat[a] \notin Finis \cup {"libre"}

\* The rows that transactions of the creations in C have not committed yet.
NonValidees(C) == UNION {ecrits[b] : b \in C}

\* A SELECT that scans CodesPIN waits for the uncommitted rows of others.
Lisible(autres) == LecturesVerrouillees => NonValidees(autres) = {}

\* A write waits for another transaction that holds the same key.
CleLibre(r, autres) == \A t \in NonValidees(autres) : ~ MemeCle(r, t)

\* Mutant: the collision query looks at the week after.
MutSansCollision(p, w, an, visibles) ==
  \A r \in visibles : ~ (r.semaine = w + 1 /\ r.annee = an /\ r.pin = p)

\* The loop of genererCodePin ends with a PIN that its SELECT COUNT(*) on
\* (Semaine, Annee, Pin) does not find.
SansCollision(p, w, an, visibles) ==
  \A r \in visibles : ~ (r.semaine = w /\ r.annee = an /\ r.pin = p)

ConnexionLibre == Cardinality(connexions) < TaillePool

TacheActive(t) == t # "repos"


Init ==
  /\ codesPin = {} /\ attribues = {}
  /\ carte = [s \in Societes |-> Aucun]
  /\ instant = 1 /\ serveur = "marche" /\ aJour = FALSE
  /\ etat = [a \in Appels |-> "libre"]
  /\ societe \in [Appels -> Societes]
  /\ debut = [a \in Appels |-> 1]
  /\ semaine = [a \in Creations |-> 1]
  /\ pin = [a \in Creations |-> Aucun]
  /\ ecrits = [a \in Creations |-> {}]
  /\ connexions = {}
  /\ hebdo = "repos" /\ hebdoDebut = 1 /\ hebdoReste = {}
  /\ annuel = "repos" /\ annuelDebut = 1 /\ annuelReste = {}
  /\ annuelSociete \in Societes /\ annuelSemaine = 1 /\ annuelPin = Aucun
  /\ reecrites = {} /\ perturbees = {} /\ chevauche = FALSE

-----------------------------------------------------------------------------
(***************************************************************************)
(* POST /creerSocieteAvecCodePin                                           *)
(***************************************************************************)

\* The handler reads the year and the week once, before its first await.
RecoitCreation(a) ==
  /\ serveur = "marche" /\ etat[a] = "libre"
  /\ etat' = [etat EXCEPT ![a] = "pool"]
  /\ debut' = [debut EXCEPT ![a] = instant]
  /\ UNCHANGED <<base, horloge, societe, semaine, pin, ecrits, connexions,
                 tacheHebdo, tacheAnnuel, temoins>>

\* The transaction keeps one connection of the pool from begin on.
Begin(a) ==
  /\ etat[a] = "pool" /\ ConnexionLibre
  /\ etat' = [etat EXCEPT ![a] = "lift"]
  /\ connexions' = connexions \cup {a}
  /\ chevauche' = (chevauche \/ connexions # {} \/ TacheActive(annuel))
  /\ UNCHANGED <<base, horloge, societe, debut, semaine, pin, ecrits,
                 tacheHebdo, tacheAnnuel, reecrites, perturbees>>

\* rollback, then the answer r.
Annule(a, r) ==
  /\ etat' = [etat EXCEPT ![a] = r]
  /\ ecrits' = [ecrits EXCEPT ![a] = {}]
  /\ connexions' = connexions \ {a}
  /\ UNCHANGED <<base, horloge, societe, debut, semaine, pin,
                 tacheHebdo, tacheAnnuel, temoins>>

LiftValide(a) ==
  /\ etat[a] = "lift"
  /\ etat' = [etat EXCEPT ![a] = "tirage"]
  /\ semaine' = [semaine EXCEPT ![a] = 1]
  /\ UNCHANGED <<base, horloge, societe, debut, pin, ecrits, connexions,
                 tacheHebdo, tacheAnnuel, temoins>>

\* Mutant: answers 400 without a rollback.
MutLiftInvalide(a) ==
  /\ etat[a] = "lift"
  /\ etat' = [etat EXCEPT ![a] = "400"]
  /\ UNCHANGED <<base, horloge, societe, debut, semaine, pin, ecrits,
                 connexions, tacheHebdo, tacheAnnuel, temoins>>

LiftInvalide(a) == etat[a] = "lift" /\ Annule(a, "400")

Annee(a) == Calendrier[debut[a]].annee

Tirage(a) ==
  /\ etat[a] = "tirage" /\ Lisible(Creations \ {a})
  /\ \E p \in Pins :
       /\ SansCollision(p, semaine[a], Annee(a), codesPin \cup ecrits[a])
       /\ pin' = [pin EXCEPT ![a] = p]
  /\ etat' = [etat EXCEPT ![a] = "insertion"]
  /\ UNCHANGED <<base, horloge, societe, debut, semaine, ecrits, connexions,
                 tacheHebdo, tacheAnnuel, temoins>>

LigneTiree(a) == Ligne(societe[a], semaine[a], Annee(a), pin[a])

\* The loop: the next week, or the message once the last week is written.
SemaineSuivante(a) ==
  IF semaine[a] < DerniereSemaine
  THEN /\ etat' = [etat EXCEPT ![a] = "tirage"]
       /\ semaine' = [semaine EXCEPT ![a] = @ + 1]
  ELSE /\ etat' = [etat EXCEPT ![a] = "file"]
       /\ UNCHANGED semaine

\* Mutant: one week too many, `semaine <= 52` tested after the increment.
MutInsertionDeTrop(a) ==
  /\ etat[a] = "insertion"
  /\ CleLibre(LigneTiree(a), Creations \ {a})
  /\ \A r \in codesPin : ~ MemeCle(r, LigneTiree(a))
  /\ ecrits' = [ecrits EXCEPT ![a] = @ \cup {LigneTiree(a)}]
  /\ etat' = [etat EXCEPT ![a] = IF semaine[a] <= DerniereSemaine
                                 THEN "tirage" ELSE "file"]
  /\ semaine' = [semaine EXCEPT ![a] = @ + 1]
  /\ UNCHANGED <<base, horloge, societe, debut, pin, connexions,
                 tacheHebdo, tacheAnnuel, temoins>>

\* Mutant: pool.request() for transaction.request(), committed at once.
MutInsertionHorsTransaction(a) ==
  /\ etat[a] = "insertion"
  /\ CleLibre(LigneTiree(a), Creations \ {a})
  /\ \A r \in codesPin : ~ MemeCle(r, LigneTiree(a))
  /\ codesPin' = codesPin \cup {LigneTiree(a)}
  /\ attribues' = attribues \cup {LigneTiree(a)}
  /\ ecrits' = [ecrits EXCEPT ![a] = @ \cup {LigneTiree(a)}]
  /\ SemaineSuivante(a)
  /\ UNCHANGED <<carte, horloge, societe, debut, pin, connexions,
                 tacheHebdo, tacheAnnuel, temoins>>

\* Mutant: the table without UNIQUE (Societe, Semaine, Annee).
MutInsertionSansCle(a) ==
  /\ etat[a] = "insertion"
  /\ ecrits' = [ecrits EXCEPT ![a] = @ \cup {LigneTiree(a)}]
  /\ SemaineSuivante(a)
  /\ UNCHANGED <<base, horloge, societe, debut, pin, connexions,
                 tacheHebdo, tacheAnnuel, temoins>>

Insertion(a) ==
  /\ etat[a] = "insertion"
  /\ CleLibre(LigneTiree(a), Creations \ {a})
  /\ \A r \in codesPin : ~ MemeCle(r, LigneTiree(a))
  /\ ecrits' = [ecrits EXCEPT ![a] = @ \cup {LigneTiree(a)}]
  /\ SemaineSuivante(a)
  /\ UNCHANGED <<base, horloge, societe, debut, pin, connexions,
                 tacheHebdo, tacheAnnuel, temoins>>

\* The company already has this week: the INSERT breaks the UNIQUE key.
InsertionRefusee(a) ==
  /\ etat[a] = "insertion"
  /\ \E r \in codesPin : MemeCle(r, LigneTiree(a))
  /\ Annule(a, "500")

\* Mutant: the message carries the first PIN drawn.
MutLigneActuelle(a) == {r \in ecrits[a] : r.semaine = 1}

\* codePinSemaineActuelle: the row of the week read on arrival, if any.
LigneActuelle(a) == {r \in ecrits[a] : r.semaine = Calendrier[debut[a]].semaine}

\* Mutant: pool.request() for transaction.request(), visible at once.
MutMessageHorsTransaction(a) ==
  /\ etat[a] = "file"
  /\ \E r \in LigneActuelle(a) : carte' = [carte EXCEPT ![societe[a]] = r.pin]
  /\ etat' = [etat EXCEPT ![a] = "commit"]
  /\ UNCHANGED <<codesPin, attribues, horloge, societe, debut, semaine, pin,
                 ecrits, connexions, tacheHebdo, tacheAnnuel, temoins>>

\* The message joins QueueMSGAPI inside the transaction: nobody sees it yet.
Message(a) ==
  /\ etat[a] = "file" /\ LigneActuelle(a) # {}
  /\ etat' = [etat EXCEPT ![a] = "commit"]
  /\ UNCHANGED <<base, horloge, societe, debut, semaine, pin, ecrits,
                 connexions, tacheHebdo, tacheAnnuel, temoins>>

\* `if (!codePinSemaineActuelle)`: the year has a week beyond the loop's last.
SansPinActuel(a) ==
  /\ etat[a] = "file" /\ LigneActuelle(a) = {}
  /\ Annule(a, "500")

\* The server commits; the handler still waits for the acknowledgement.
Commit(a) ==
  /\ etat[a] = "commit"
  /\ codesPin' = codesPin \cup ecrits[a]
  /\ attribues' = attribues \cup ecrits[a]
  /\ \E r \in LigneActuelle(a) : carte' = [carte EXCEPT ![societe[a]] = r.pin]
  /\ ecrits' = [ecrits EXCEPT ![a] = {}]
  /\ etat' = [etat EXCEPT ![a] = "accuse"]
  /\ UNCHANGED <<horloge, societe, debut, semaine, pin, connexions,
                 tacheHebdo, tacheAnnuel, temoins>>

Accuse(a) ==
  /\ etat[a] = "accuse"
  /\ etat' = [etat EXCEPT ![a] = "200"]
  /\ connexions' = connexions \ {a}
  /\ UNCHANGED <<base, horloge, societe, debut, semaine, pin, ecrits,
                 tacheHebdo, tacheAnnuel, temoins>>

\* The connection is lost after the commit: the catch blocks cannot tell.
AccusePerdu(a) == etat[a] = "accuse" /\ Annule(a, "500")

EchecCreation(a) ==
  /\ etat[a] \in EtatsTransaction \cup {"pool"}
  /\ Annule(a, "500")

\* Mutant: no requestTimeout and no deadlock victim, only the pool gives up.
MutCreationBloquee(a) == etat[a] = "pool" /\ ~ ConnexionLibre

CreationBloquee(a) ==
  \/ etat[a] = "pool" /\ ~ ConnexionLibre
  \/ etat[a] = "tirage" /\ ~ Lisible(Creations \ {a})
  \/ etat[a] = "insertion" /\ ~ CleLibre(LigneTiree(a), Creations \ {a})

\* A wait ends: acquire timeout, lock wait beyond requestTimeout, deadlock.
FinAttenteCreation(a) == CreationBloquee(a) /\ EchecCreation(a)

EtapeCreation(a) ==
  \/ Begin(a) \/ LiftValide(a) \/ Tirage(a) \/ Insertion(a) \/ Message(a)
  \/ Commit(a) \/ Accuse(a)
  \/ InsertionRefusee(a) \/ SansPinActuel(a) \/ FinAttenteCreation(a)

Creation(a) ==
  \/ RecoitCreation(a) \/ EtapeCreation(a)
  \/ LiftInvalide(a) \/ AccusePerdu(a) \/ EchecCreation(a)

-----------------------------------------------------------------------------
(***************************************************************************)
(* DELETE /supprimerSociete                                                *)
(***************************************************************************)
RecoitSuppression(a) ==
  /\ serveur = "marche" /\ etat[a] = "libre"
  /\ etat' = [etat EXCEPT ![a] = "delete"]
  /\ debut' = [debut EXCEPT ![a] = instant]
  /\ perturbees' = perturbees \cup {societe[a]}
  /\ UNCHANGED <<base, horloge, societe, semaine, pin, ecrits, connexions,
                 tacheHebdo, tacheAnnuel, reecrites, chevauche>>

SocieteLibre(s) == \A t \in NonValidees(Creations) : t.societe # s

\* DELETE FROM CodesPIN WHERE Societe = @nomSociete
Supprime(a) ==
  /\ etat[a] = "delete" /\ ConnexionLibre /\ SocieteLibre(societe[a])
  /\ codesPin' = {r \in codesPin : r.societe # societe[a]}
  /\ etat' = [etat EXCEPT ![a] = "message"]
  /\ UNCHANGED <<carte, attribues, horloge, societe, debut, semaine, pin,
                 ecrits, connexions, tacheHebdo, tacheAnnuel, temoins>>

\* The message of Type 3 removes the card holder <societe>_PIN; the handler
\* still waits for the acknowledgement of its INSERT.
MessageSuppression(a) ==
  /\ etat[a] = "message" /\ ConnexionLibre
  /\ carte' = [carte EXCEPT ![societe[a]] = Aucun]
  /\ etat' = [etat EXCEPT ![a] = "accuse"]
  /\ UNCHANGED <<codesPin, attribues, horloge, societe, debut, semaine, pin,
                 ecrits, connexions, tacheHebdo, tacheAnnuel, temoins>>

AccuseSuppression(a) ==
  /\ etat[a] = "accuse"
  /\ etat' = [etat EXCEPT ![a] = "200"]
  /\ UNCHANGED <<base, horloge, societe, debut, semaine, pin, ecrits,
                 connexions, tacheHebdo, tacheAnnuel, temoins>>

\* No transaction: rows already deleted stay deleted, and a message whose
\* acknowledgement is lost stays in the queue.
EchecSuppression(a) ==
  /\ etat[a] \in EtatsSuppression
  /\ etat' = [etat EXCEPT ![a] = "500"]
  /\ UNCHANGED <<base, horloge, societe, debut, semaine, pin, ecrits,
                 connexions, tacheHebdo, tacheAnnuel, temoins>>

FinAttenteSuppression(a) ==
  /\ \/ etat[a] \in {"delete", "message"} /\ ~ ConnexionLibre
     \/ etat[a] = "delete" /\ ~ SocieteLibre(societe[a])
  /\ EchecSuppression(a)

EtapeSuppression(a) ==
  \/ Supprime(a) \/ MessageSuppression(a) \/ AccuseSuppression(a)
  \/ FinAttenteSuppression(a)

\* Mutant: the message of Type 3 before the DELETE.
MutSuppression(a) ==
  \/ RecoitSuppression(a)
  \/ /\ etat[a] = "delete" /\ ConnexionLibre
     /\ carte' = [carte EXCEPT ![societe[a]] = Aucun]
     /\ etat' = [etat EXCEPT ![a] = "message"]
     /\ UNCHANGED <<codesPin, attribues, horloge, societe, debut, semaine, pin,
                    ecrits, connexions, tacheHebdo, tacheAnnuel, temoins>>
  \/ /\ etat[a] = "message" /\ ConnexionLibre /\ SocieteLibre(societe[a])
     /\ codesPin' = {r \in codesPin : r.societe # societe[a]}
     /\ etat' = [etat EXCEPT ![a] = "accuse"]
     /\ UNCHANGED <<carte, attribues, horloge, societe, debut, semaine, pin,
                    ecrits, connexions, tacheHebdo, tacheAnnuel, temoins>>
  \/ AccuseSuppression(a) \/ EchecSuppression(a)

Suppression(a) ==
  RecoitSuppression(a) \/ EtapeSuppression(a) \/ EchecSuppression(a)

-----------------------------------------------------------------------------
(***************************************************************************)
(* cron.schedule('0 4 * * 1'): the PIN of the week to every company        *)
(***************************************************************************)
HebdoLit ==
  /\ hebdo = "lit" /\ ConnexionLibre /\ Lisible(Creations)
  /\ hebdoReste' = {r \in codesPin :
                      /\ r.annee = Calendrier[hebdoDebut].annee
                      /\ r.semaine = Calendrier[hebdoDebut].semaine}
  /\ hebdo' = "envoi"
  /\ UNCHANGED <<base, horloge, appels, hebdoDebut, tacheAnnuel, temoins>>

\* One message; the SELECT has no ORDER BY.
HebdoEnvoie ==
  /\ hebdo = "envoi" /\ ConnexionLibre
  /\ \E r \in hebdoReste :
       /\ carte' = [carte EXCEPT ![r.societe] = r.pin]
       /\ hebdoReste' = hebdoReste \ {r}
  /\ UNCHANGED <<codesPin, attribues, horloge, appels, hebdo, hebdoDebut,
                 tacheAnnuel, temoins>>

MemeSemaine(i, j) == /\ Calendrier[i].annee = Calendrier[j].annee
                     /\ Calendrier[i].semaine = Calendrier[j].semaine

HebdoTermine ==
  /\ hebdo = "envoi" /\ hebdoReste = {}
  /\ hebdo' = "repos"
  /\ aJour' = (aJour \/ MemeSemaine(hebdoDebut, instant))
  /\ UNCHANGED <<base, instant, serveur, appels, hebdoDebut, hebdoReste,
                 tacheAnnuel, temoins>>

\* A failed statement ends the run: the companies left wait a week.
EchecHebdo ==
  /\ TacheActive(hebdo)
  /\ hebdo' = "repos" /\ hebdoReste' = {}
  /\ UNCHANGED <<base, horloge, appels, hebdoDebut, tacheAnnuel, temoins>>

FinAttenteHebdo ==
  /\ \/ ~ ConnexionLibre
     \/ hebdo = "lit" /\ ~ Lisible(Creations)
  /\ EchecHebdo

EtapeHebdo == HebdoLit \/ HebdoEnvoie \/ HebdoTermine \/ FinAttenteHebdo

-----------------------------------------------------------------------------
(***************************************************************************)
(* cron.schedule('0 1 1 1 *'): purge the old year, redraw the new one      *)
(***************************************************************************)
AnneeNouvelle == Calendrier[annuelDebut].annee

\* DELETE FROM CodesPIN WHERE Annee = anneePrecedente
AnnuelPurge ==
  /\ annuel = "purge" /\ ConnexionLibre /\ NonValidees(Creations) = {}
  /\ codesPin' = {r \in codesPin : r.annee + 1 # AnneeNouvelle}
  /\ annuel' = "liste"
  /\ UNCHANGED <<carte, attribues, horloge, appels, tacheHebdo, annuelDebut,
                 annuelReste, annuelSociete, annuelSemaine, annuelPin, temoins>>

\* SELECT DISTINCT Societe FROM CodesPIN
AnnuelListe ==
  /\ annuel = "liste" /\ ConnexionLibre /\ Lisible(Creations)
  /\ annuelReste' = {r.societe : r \in codesPin}
  /\ annuel' = "societe"
  /\ UNCHANGED <<base, horloge, appels, tacheHebdo, annuelDebut,
                 annuelSociete, annuelSemaine, annuelPin, temoins>>

AnnuelSociete ==
  /\ annuel = "societe"
  /\ \E s \in annuelReste :
       /\ annuelSociete' = s
       /\ annuelReste' = annuelReste \ {s}
       /\ reecrites' = reecrites \cup {s}
       /\ perturbees' = perturbees \cup {s}
  /\ annuelSemaine' = 1
  /\ annuel' = "tirage"
  /\ UNCHANGED <<base, horloge, appels, tacheHebdo, annuelDebut, annuelPin,
                 chevauche>>

AnnuelTirage ==
  /\ annuel = "tirage" /\ ConnexionLibre /\ Lisible(Creations)
  /\ \E p \in Pins :
       /\ SansCollision(p, annuelSemaine, AnneeNouvelle, codesPin)
       /\ annuelPin' = p
  /\ annuel' = "merge"
  /\ UNCHANGED <<base, horloge, appels, tacheHebdo, annuelDebut, annuelReste,
                 annuelSociete, annuelSemaine, temoins>>

LigneAnnuelle == Ligne(annuelSociete, annuelSemaine, AnneeNouvelle, annuelPin)

\* Mutant: the loop ends one week early.
MutSuiteAnnuelle ==
  IF annuelSemaine + 1 < DerniereSemaine
  THEN annuel' = "tirage" /\ annuelSemaine' = annuelSemaine + 1
  ELSE annuel' = "societe" /\ UNCHANGED annuelSemaine

\* Mutant: the loop without `semaine++`.
MutSuiteSansFin == annuel' = "tirage" /\ UNCHANGED annuelSemaine

\* `semaine++`, or the next company
SuiteAnnuelle ==
  IF annuelSemaine < DerniereSemaine
  THEN annuel' = "tirage" /\ annuelSemaine' = annuelSemaine + 1
  ELSE annuel' = "societe" /\ UNCHANGED annuelSemaine

\* MERGE: update the row of the key, or insert it.
AnnuelMerge ==
  /\ annuel = "merge" /\ ConnexionLibre /\ CleLibre(LigneAnnuelle, Creations)
  /\ codesPin' = {r \in codesPin : ~ MemeCle(r, LigneAnnuelle)}
                   \cup {LigneAnnuelle}
  /\ attribues' = attribues \cup {LigneAnnuelle}
  /\ IF annuelSemaine = 1
     THEN annuel' = "message" /\ UNCHANGED annuelSemaine
     ELSE SuiteAnnuelle
  /\ UNCHANGED <<carte, horloge, appels, tacheHebdo, annuelDebut, annuelReste,
                 annuelSociete, annuelPin, temoins>>

\* Only week 1 is sent to the access-control system.
AnnuelMessage ==
  /\ annuel = "message" /\ ConnexionLibre
  /\ carte' = [carte EXCEPT ![annuelSociete] = annuelPin]
  /\ SuiteAnnuelle
  /\ UNCHANGED <<codesPin, attribues, horloge, appels, tacheHebdo,
                 annuelDebut, annuelReste, annuelSociete, annuelPin, temoins>>

AnnuelTermine ==
  /\ annuel = "societe" /\ annuelReste = {}
  /\ annuel' = "repos"
  /\ UNCHANGED <<base, horloge, appels, tacheHebdo, annuelDebut, annuelReste,
                 annuelSociete, annuelSemaine, annuelPin, temoins>>

EchecAnnuel ==
  /\ TacheActive(annuel)
  /\ annuel' = "repos" /\ annuelReste' = {}
  /\ UNCHANGED <<base, horloge, appels, tacheHebdo, annuelDebut,
                 annuelSociete, annuelSemaine, annuelPin, temoins>>

FinAttenteAnnuel ==
  /\ \/ ~ ConnexionLibre
     \/ annuel = "purge" /\ NonValidees(Creations) # {}
     \/ annuel \in {"liste", "tirage"} /\ ~ Lisible(Creations)
     \/ annuel = "merge" /\ ~ CleLibre(LigneAnnuelle, Creations)
  /\ EchecAnnuel

EtapeAnnuelle ==
  \/ AnnuelPurge \/ AnnuelListe \/ AnnuelSociete \/ AnnuelTirage
  \/ AnnuelMerge \/ AnnuelMessage \/ AnnuelTermine \/ FinAttenteAnnuel

-----------------------------------------------------------------------------
(***************************************************************************)
(* The process and the clock                                               *)
(***************************************************************************)

\* The process stops (NSSM restarts it): SQL Server rolls open transactions
\* back, the calls get no answer, the tasks are forgotten.
Arret ==
  /\ serveur = "marche"
  /\ serveur' = "arret"
  /\ etat' = [a \in Appels |-> IF EnCours(a) THEN "perdu" ELSE etat[a]]
  /\ ecrits' = [a \in Creations |-> {}]
  /\ connexions' = {}
  /\ hebdo' = "repos" /\ hebdoReste' = {}
  /\ annuel' = "repos" /\ annuelReste' = {}
  /\ UNCHANGED <<base, instant, aJour, societe, debut, semaine, pin,
                 hebdoDebut, annuelDebut, annuelSociete, annuelSemaine,
                 annuelPin, temoins>>

Redemarre ==
  /\ serveur = "arret"
  /\ serveur' = "marche"
  /\ UNCHANGED <<base, instant, aJour, appels, tacheHebdo, tacheAnnuel, temoins>>

\* A call or a task lasts through one change of instant at most (an hour
\* between the closest two), and a task is over when its hour comes again.
PeutAvancer(prochain) ==
  /\ \A a \in Appels : EnCours(a) => debut[a] = instant
  /\ TacheActive(hebdo) =>
       hebdoDebut = instant /\ "hebdo" \notin Calendrier[prochain].taches
  /\ TacheActive(annuel) =>
       annuelDebut = instant /\ "annuel" \notin Calendrier[prochain].taches

\* node-cron fires in the running process only: a task missed is not made up.
Declenche(tache, prochain) ==
  serveur = "marche" /\ tache \in Calendrier[prochain].taches

AvanceInstant ==
  /\ instant < Len(Calendrier)
  /\ PeutAvancer(instant + 1)
  /\ instant' = instant + 1
  /\ IF MemeSemaine(instant, instant + 1)
     THEN UNCHANGED <<aJour, perturbees>>
     ELSE /\ aJour' = FALSE
          /\ perturbees' =
               {societe[a] : a \in {b \in Suppressions : EnCours(b)}}
               \cup (IF TacheActive(annuel) THEN perturbees ELSE {})
  /\ IF Declenche("hebdo", instant + 1)
     THEN hebdo' = "lit" /\ hebdoDebut' = instant + 1
     ELSE UNCHANGED <<hebdo, hebdoDebut>>
  /\ IF Declenche("annuel", instant + 1)
     THEN /\ annuel' = "purge" /\ annuelDebut' = instant + 1
          /\ chevauche' = (chevauche \/ connexions # {})
     ELSE UNCHANGED <<annuel, annuelDebut, chevauche>>
  /\ UNCHANGED <<base, serveur, appels, hebdoReste, annuelReste,
                 annuelSociete, annuelSemaine, annuelPin, reecrites>>

Next ==
  \/ \E a \in Creations : Creation(a)
  \/ \E a \in Suppressions : Suppression(a)
  \/ EtapeHebdo \/ EchecHebdo
  \/ EtapeAnnuelle \/ EchecAnnuel
  \/ Arret \/ Redemarre \/ AvanceInstant

Spec == Init /\ [][Next]_vars

(***************************************************************************)
(* The event loop keeps running handlers and tasks; every await of a       *)
(* statement ends (requestTimeout, acquire timeout).  Nothing obliges a    *)
(* client to call, the process to stop or the clock to reach an instant.   *)
(***************************************************************************)
Equite ==
  /\ \A a \in Creations : WF_vars(EtapeCreation(a))
  /\ \A a \in Suppressions : WF_vars(EtapeSuppression(a))
  /\ WF_vars(EtapeHebdo)
  /\ WF_vars(EtapeAnnuelle)

FairSpec == Spec /\ Equite

-----------------------------------------------------------------------------
(***************************************************************************)
(* What is required of it                                                  *)
(***************************************************************************)

\* Type correctness of the table, of the calls and of the two tasks.
TypeOK ==
  /\ codesPin \in SUBSET Lignes /\ attribues \in SUBSET Lignes
  /\ carte \in [Societes -> Pins \cup {Aucun}]
  /\ instant \in Instants /\ serveur \in {"marche", "arret"}
  /\ aJour \in BOOLEAN
  /\ etat \in [Appels -> EtatsTransaction \cup EtatsSuppression \cup Finis
                           \cup {"libre", "pool", "accuse"}]
  /\ societe \in [Appels -> Societes] /\ debut \in [Appels -> Instants]
  /\ semaine \in [Creations -> Semaines]
  /\ pin \in [Creations -> Pins \cup {Aucun}]
  /\ ecrits \in [Creations -> SUBSET Lignes]
  /\ connexions \in SUBSET Creations
  /\ hebdo \in {"repos", "lit", "envoi"} /\ hebdoDebut \in Instants
  /\ hebdoReste \in SUBSET Lignes
  /\ annuel \in {"repos", "purge", "liste", "societe", "tirage", "merge",
                 "message"}
  /\ annuelDebut \in Instants /\ annuelReste \in SUBSET Societes
  /\ annuelSociete \in Societes /\ annuelSemaine \in Semaines
  /\ annuelPin \in Pins \cup {Aucun}
  /\ reecrites \in SUBSET Societes /\ perturbees \in SUBSET Societes
  /\ chevauche \in BOOLEAN

\* A creation leaves a company all the weeks of its year or none of them,
\* whatever fails or stops between its statements, and a deletion takes them
\* all.  (The yearly task has no transaction: its companies are left out.)
ToutOuRien ==
  \A s \in Societes \ reecrites :
    \A r \in codesPin : r.societe = s =>
      \A w \in Semaines :
        \E t \in codesPin : MemeCle(t, Ligne(s, w, r.annee, r.pin))

\* One PIN a company, week and year, open transactions included, although
\* creations, deletions and MERGEs of the same company interleave.
CleUnique ==
  LET lignes == codesPin \cup NonValidees(Creations)
  IN  \A r, t \in lignes : MemeCle(r, t) => r = t

\* The card of a company never carries a PIN that CodesPIN did not give it:
\* the message of a creation is visible only with its rows, the tasks send
\* what they read or wrote.
BadgeAttribue ==
  \A s \in Societes : carte[s] # Aucun =>
    \E r \in attribues : r.societe = s /\ r.pin = carte[s]

\* As long as no two writers have overlapped, the loops on `collision` give
\* no two companies the same PIN, hence the same badge AA_<pin>, in a week.
UniciteDuPin ==
  ~ chevauche =>
    \A r, t \in codesPin :
      r.semaine = t.semaine /\ r.annee = t.annee /\ r.pin = t.pin => r = t

\* Once a weekly run has succeeded, and until the week ends, the card of each
\* company carries the PIN that /obtenirCodePin gives for today, creations
\* that committed before, during or after the run included; companies that a
\* deletion or the yearly task touched this week are left out.
BadgeDeLaSemaine ==
  aJour =>
    \A r \in codesPin :
      /\ r.annee = Calendrier[instant].annee
      /\ r.semaine = Calendrier[instant].semaine
      /\ r.societe \notin perturbees
      => carte[r.societe] = r.pin

\* A call that is answered, or lost with the process, has given its connection
\* of the pool back and left no open row behind, on every error path.
SansFuite ==
  \A a \in Creations :
    etat[a] \in Finis => a \notin connexions /\ ecrits[a] = {}

\* A deletion that has not gone past its DELETE has taken no row away.
SansEffet(d) == etat[d] \in {"libre", "delete"}

JamaisSupprimee(s) == \A d \in Suppressions : societe[d] = s => SansEffet(d)

\* Of all the creations of one company for one year, retries after a 500 or a
\* lost acknowledgement included, one at most is answered 200, unless a deletion
\* of that company has run: a purge never makes room for a second one.
UneSeuleCreation ==
  \A a, b \in Creations :
    /\ etat[a] = "200" /\ etat[b] = "200"
    /\ societe[a] = societe[b] /\ Annee(a) = Annee(b)
    /\ JamaisSupprimee(societe[a])
    => a = b

\* Every call ends: an answer, or lost with the process.
AppelsTermines ==
  \A a \in Appels : EnCours(a) ~> etat[a] \in Finis

\* Both tasks end, though creations may keep them waiting for locks.
TachesTerminees ==
  /\ TacheActive(hebdo) ~> hebdo = "repos"
  /\ TacheActive(annuel) ~> annuel = "repos"

\* The deletions of company s that may have run beside the yearly task: those
\* received long before it are over.
Epargnee(s) ==
  \A d \in Suppressions :
    societe[d] = s => SansEffet(d) \/ debut[d] + 1 < annuelDebut

\* When the yearly task leaves a company for the next one, the company has all
\* the weeks of the new year, whether it had rows of that year or only of a year
\* whose purge was missed, whatever creations the task waited for and whatever
\* deletions of other companies ran, unless one of this company ran beside it.
AnneeRenouvelee ==
  [][annuel' = "societe" /\ annuel \in {"merge", "message"}
     /\ Epargnee(annuelSociete) =>
       \A w \in Semaines :
         \E t \in codesPin' :
           MemeCle(t, Ligne(annuelSociete, w, AnneeNouvelle, Aucun))]_vars

\* `Mise a jour annuelle des codes PIN terminee`: a company that had PINs when
\* the yearly task began, and that nobody deletes, has PINs when it has ended.
RenouvellementAnnuel ==
  [][AnnuelTermine =>
       \A r \in attribues :
         r.annee + 1 = AnneeNouvelle =>
           \E t \in codesPin : t.societe = r.societe]_vars

\* No row is left of company s, and each deletion of it has not begun or has
\* put its message in the queue: none was cut between its two statements.
Disparue(s) ==
  /\ \A r \in codesPin : r.societe # s
  /\ \A d \in Suppressions :
       societe[d] = s => SansEffet(d) \/ etat[d] \in {"accuse", "200"}

\* `Societe supprimee avec succes`: the card of a company whose deletion is
\* answered 200 stays away as long as nobody creates the company again.
SuppressionEffective ==
  \A d \in Suppressions :
    etat[d] = "200" /\ Disparue(societe[d]) => carte[societe[d]] = Aucun

=============================================================================
