----------------------------- MODULE Detenteurs -----------------------------
(***************************************************************************)
(* Cardholders of src/Server/DashNov_Server.js: each route puts a message  *)
(* in QueueMSGAPI that Amadeus5 imports into CRDHLD later, in order, while *)
(* the routes look into CRDHLD as it is by then.                           *)
(*                                                                         *)
(* One action is the code between two awaits.  A card is its content; what *)
(* Amadeus5 does of a card of Type 3 is not in the repository: Init        *)
(* chooses whether CRDHLD and rptCardholders keep its row.                 *)
(***************************************************************************)
EXTENDS Naturals, Sequences, FiniteSets

CONSTANTS
  Numeros,       \* card numbers
  Fiches,        \* contents of a card
  AppelsFiches   \* slots of calls, each used at most once

VARIABLES
  crdhld,        \* of each number: its content, "absente" or "effacee"
  garde,         \* is the row of an erased card kept?
  file,          \* the messages of QueueMSGAPI not imported yet
  demandes,      \* of each call: [op, etape, numero, fiche]
  \* History: read by the properties only.
  ecrasees,      \* numbers whose card a creation has replaced
  melees,        \* numbers on which a call has begun before all was settled
  avant          \* of each call: those that were over when it was received

Demande(op, etape, n, f) == [op |-> op, etape |-> etape, numero |-> n, fiche |-> f]
AvantFile(a) == demandes[a].etape \in {"verifie", "lit", "file"}
EnCours(a) == AvantFile(a) \/ demandes[a].etape = "accuse"
Finie(a) == demandes[a].etape \in {"200", "400", "404", "500", "perdu"}
A(a, etape) == demandes[a].etape = etape
Repond(a, r) == demandes' = [demandes EXCEPT ![a].etape = r]

\* SELECT ... WHERE Num = @numero
Presente(n) == crdhld[n] # "absente" /\ (crdhld[n] = "effacee" => garde)

Importee(n) == \A k \in DOMAIN file : file[k].numero # n

\* Nothing on its way to CRDHLD that a check would not see.
Regle(n) ==
  /\ Importee(n)
  /\ \A a \in AppelsFiches : demandes[a].numero = n => ~ AvantFile(a)

InitDetenteurs ==
  /\ crdhld = [n \in Numeros |-> "absente"] /\ garde \in BOOLEAN
  /\ file = <<>>
  /\ demandes \in [AppelsFiches ->
                     {Demande("creer", "libre", n, f) : n \in Numeros, f \in Fiches}]
  /\ ecrasees = {} /\ melees = {}
  /\ avant = [a \in AppelsFiches |-> {}]

-----------------------------------------------------------------------------
\* The three routes, for the number and the content the slot was given.
RecoitFiche(a) ==
  /\ A(a, "libre")
  /\ \E op \in {"creer", "modifier", "supprimer"} :
       demandes' = [demandes EXCEPT ![a].op = op, ![a].etape =
                      CASE op = "creer" -> "verifie"
                        [] op = "modifier" -> "file"
                        [] op = "supprimer" -> "lit"]
  /\ melees' = melees \cup {n \in {demandes[a].numero} : ~ Regle(n)}
  /\ avant' = [avant EXCEPT ![a] = {b \in AppelsFiches : Finie(b)}]
  /\ UNCHANGED <<crdhld, garde, file, ecrasees>>

\* Mutant: existe read for existeDeja, undefined is never true.
MutVerifie(a) ==
  /\ A(a, "verifie")
  /\ Repond(a, "file")
  /\ UNCHANGED <<crdhld, garde, file, ecrasees, melees, avant>>

\* creerDetenteur: `Ce numero existe deja`
Verifie(a) ==
  /\ A(a, "verifie")
  /\ Repond(a, IF Presente(demandes[a].numero) THEN "400" ELSE "file")
  /\ UNCHANGED <<crdhld, garde, file, ecrasees, melees, avant>>

\* supprimer: what the message of Type 3 repeats of the card.
LitFiche(a) ==
  /\ A(a, "lit")
  /\ Repond(a, IF Presente(demandes[a].numero) THEN "file" ELSE "404")
  /\ UNCHANGED <<crdhld, garde, file, ecrasees, melees, avant>>

Effet(a) == IF demandes[a].op = "supprimer" THEN "effacee" ELSE demandes[a].fiche

Message(a) == [numero |-> demandes[a].numero, effet |-> Effet(a),
               creation |-> demandes[a].op = "creer"]

\* Mutant: the query without await, which may fail behind the answer.
MutFile(a) ==
  /\ A(a, "file")
  /\ file' = Append(file, Message(a)) \/ UNCHANGED file
  /\ Repond(a, "accuse")
  /\ UNCHANGED <<crdhld, garde, ecrasees, melees, avant>>

\* The INSERT into QueueMSGAPI; the handler still waits for its acknowledgement.
File(a) ==
  /\ A(a, "file")
  /\ file' = Append(file, Message(a))
  /\ Repond(a, "accuse")
  /\ UNCHANGED <<crdhld, garde, ecrasees, melees, avant>>

AccuseFiche(a) ==
  /\ A(a, "accuse")
  /\ Repond(a, "200")
  /\ UNCHANGED <<crdhld, garde, file, ecrasees, melees, avant>>

\* A statement fails, or only its acknowledgement is lost.
EchecFiche(a) ==
  /\ EnCours(a)
  /\ Repond(a, "500")
  /\ UNCHANGED <<crdhld, garde, file, ecrasees, melees, avant>>

SertFiche(a) ==
  Verifie(a) \/ LitFiche(a) \/ File(a) \/ AccuseFiche(a) \/ EchecFiche(a)

\* Amadeus5 imports the oldest message.
Importe ==
  /\ file # <<>>
  /\ crdhld' = [crdhld EXCEPT ![Head(file).numero] = Head(file).effet]
  /\ ecrasees' = ecrasees \cup {n \in {Head(file).numero} :
                                  Head(file).creation /\ Presente(n)}
  /\ file' = Tail(file)
  /\ UNCHANGED <<garde, demandes, melees, avant>>

\* The process stops with the calls in progress.
PerdFiches ==
  /\ demandes' = [a \in AppelsFiches |->
       IF EnCours(a) THEN [demandes[a] EXCEPT !.etape = "perdu"] ELSE demandes[a]]
  /\ UNCHANGED <<crdhld, garde, file, ecrasees, melees, avant>>

-----------------------------------------------------------------------------
\* `Ce numero existe deja. La creation du detenteur est bloquee.`: a creation
\* replaces no card, unless a call on this number began while another had yet to
\* queue its message, or while a message was still to be imported.
CreationBloquee == ecrasees \subseteq melees

\* A call that is over before another one is received, which then succeeds.
Depassee(c) ==
  \E a \in AppelsFiches :
    /\ demandes[a].numero = demandes[c].numero
    /\ A(a, "200") /\ c \in avant[a]

\* Once the messages on a card are imported, CRDHLD holds what a call asked for
\* that was answered 200, or whose outcome nobody was told, and never what a
\* call wanted that was over before a later one succeeded, whatever overlapped,
\* failed, stopped or lost its acknowledgement; it holds nothing only if no call
\* was answered 200.
FicheVoulue ==
  \A n \in Numeros : Importee(n) =>
    \/ /\ crdhld[n] = "absente"
       /\ \A a \in AppelsFiches : demandes[a].numero = n => ~ A(a, "200")
    \/ \E c \in AppelsFiches :
         /\ demandes[c].numero = n /\ crdhld[n] = Effet(c) /\ ~ Depassee(c)
         /\ demandes[c].etape \in {"accuse", "200", "500", "perdu"}

=============================================================================
