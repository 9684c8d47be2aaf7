------------------------ MODULE Serveur_fiches_proofs -------------------------
(***************************************************************************)
(* The cardholders' half of Serveur, for any number of cards and calls.    *)
(***************************************************************************)
EXTENDS Serveur_proofs

Effets == Fiches \cup {"effacee"}

EtatsFiche == {"libre", "verifie", "lit", "file", "accuse", "200", "400",
               "404", "500", "perdu"}

Fichiers == [op : {"creer", "modifier", "supprimer"}, etape : EtatsFiche,
             numero : Numeros, fiche : Fiches]

Messages == [numero : Numeros, effet : Effets, creation : BOOLEAN]

TypeFiches ==
  /\ crdhld \in [Numeros -> Effets \cup {"absente"}]
  /\ file \in Seq(Messages)
  /\ demandes \in [AppelsFiches -> Fichiers]
  /\ ecrasees \in SUBSET Numeros /\ melees \in SUBSET Numeros
  /\ avant \in [AppelsFiches -> SUBSET AppelsFiches]

\* The steps that can move the cards.
LEMMA FichesPas ==
  ASSUME [Next]_vars
  PROVE  \/ UNCHANGED varsFiches \/ D!PerdFiches \/ D!Importe
         \/ \E a \in AppelsFiches : D!RecoitFiche(a) \/ D!SertFiche(a)
BY DEF Next, Compte, Detenteur, RecoitDetenteur, Stoppe, vars

LEMMA TypeFichesInit == Init => TypeFiches
<1> SUFFICES ASSUME Init PROVE TypeFiches
  OBVIOUS
<1>1. demandes \in [AppelsFiches -> Fichiers]
  <2>1. demandes \in [AppelsFiches ->
          {D!Demande("creer", "libre", n, f) : n \in Numeros, f \in Fiches}]
    BY DEF Init, D!InitDetenteurs
  <2>2. \A n \in Numeros, f \in Fiches : D!Demande("creer", "libre", n, f) \in Fichiers
    BY DEF D!Demande, Fichiers, EtatsFiche
  <2> QED
    BY <2>1, <2>2
<1>2. file \in Seq(Messages)
  BY DEF Init, D!InitDetenteurs
<1> QED
  BY <1>1, <1>2 DEF Init, D!InitDetenteurs, TypeFiches

LEMMA FicheRepond ==
  ASSUME TypeFiches, NEW a \in AppelsFiches, NEW r \in EtatsFiche, D!Repond(a, r)
  PROVE  /\ demandes' \in [AppelsFiches -> Fichiers]
         /\ \A b \in AppelsFiches \ {a} : demandes'[b] = demandes[b]
         /\ demandes'[a].etape = r /\ demandes'[a].op = demandes[a].op
         /\ demandes'[a].numero = demandes[a].numero
         /\ demandes'[a].fiche = demandes[a].fiche
<1>1. demandes \in [AppelsFiches -> Fichiers] /\ demandes[a] \in Fichiers
  BY DEF TypeFiches
<1> DEFINE q == [demandes[a] EXCEPT !.etape = r]
<1>2. /\ q \in Fichiers /\ q.etape = r /\ q.op = demandes[a].op
      /\ q.numero = demandes[a].numero /\ q.fiche = demandes[a].fiche
  BY <1>1 DEF Fichiers
<1>3. demandes' = [demandes EXCEPT ![a] = q]
  BY <1>1 DEF D!Repond
<1> HIDE DEF q
<1> QED
  BY <1>1, <1>2, <1>3

LEMMA FicheRecoit ==
  ASSUME TypeFiches, NEW a \in AppelsFiches, D!RecoitFiche(a)
  PROVE  /\ demandes' \in [AppelsFiches -> Fichiers]
         /\ \A b \in AppelsFiches \ {a} : demandes'[b] = demandes[b]
         /\ demandes'[a].numero = demandes[a].numero
         /\ demandes'[a].etape \in {"verifie", "lit", "file"}
         /\ demandes'[a].etape \in {"lit", "file"} => demandes'[a].op # "creer"
         /\ demandes[a].etape = "libre"
<1>1. demandes \in [AppelsFiches -> Fichiers] /\ demandes[a] \in Fichiers
  BY DEF TypeFiches
<1>2. PICK op \in {"creer", "modifier", "supprimer"} :
        demandes' = [demandes EXCEPT ![a].op = op, ![a].etape =
                      CASE op = "creer" -> "verifie"
                        [] op = "modifier" -> "file"
                        [] op = "supprimer" -> "lit"]
  BY DEF D!RecoitFiche
<1> DEFINE e == CASE op = "creer" -> "verifie"
                  [] op = "modifier" -> "file"
                  [] op = "supprimer" -> "lit"
<1>3. /\ e \in {"verifie", "lit", "file"} /\ e \in EtatsFiche
      /\ e \in {"lit", "file"} => op # "creer"
  BY DEF EtatsFiche
<1> HIDE DEF e
<1> DEFINE q == [demandes[a] EXCEPT !.op = op, !.etape = e]
<1>4. /\ q \in Fichiers /\ q.etape = e /\ q.op = op
      /\ q.numero = demandes[a].numero
  BY <1>1, <1>3 DEF Fichiers
<1>5. demandes' = [demandes EXCEPT ![a] = q]
  BY <1>1, <1>2 DEF e
<1> HIDE DEF q
<1>6. demandes[a].etape = "libre"
  BY DEF D!RecoitFiche, D!A
<1> QED
  BY <1>1, <1>3, <1>4, <1>5, <1>6

LEMMA MessageType ==
  ASSUME TypeFiches, NEW a \in AppelsFiches
  PROVE  /\ D!Message(a) \in Messages /\ D!Effet(a) \in Effets
         /\ D!Message(a).numero = demandes[a].numero
         /\ D!Message(a).effet = D!Effet(a)
         /\ D!Message(a).creation = (demandes[a].op = "creer")
<1>1. demandes[a] \in Fichiers
  BY DEF TypeFiches
<1>2. D!Effet(a) \in Effets
  BY <1>1 DEF D!Effet, Effets, Fichiers
<1> QED
  BY <1>1, <1>2 DEF D!Message, Messages, Fichiers

LEMMA ImporteFile ==
  ASSUME TypeFiches, D!Importe
  PROVE  /\ Len(file) \in Nat /\ Len(file) >= 1
         /\ file[1] = Head(file) /\ file[1] \in Messages
         /\ file' \in Seq(Messages) /\ Len(file') = Len(file) - 1
         /\ \A k \in 1 .. Len(file') : file'[k] = file[k + 1]
         /\ \A k \in DOMAIN file : file[k] \in Messages
BY DEF TypeFiches, D!Importe

LEMMA TypeFichesSuivant == TypeFiches /\ [Next]_vars => TypeFiches'
<1> SUFFICES ASSUME TypeFiches, [Next]_vars PROVE TypeFiches'
  OBVIOUS
<1>1. CASE UNCHANGED varsFiches
  BY <1>1 DEF varsFiches, TypeFiches
<1>2. CASE D!PerdFiches
  <2>1. \A a \in AppelsFiches :
          [demandes[a] EXCEPT !.etape = "perdu"] \in Fichiers
    BY DEF TypeFiches, Fichiers, EtatsFiche
  <2>2. demandes' \in [AppelsFiches -> Fichiers]
    BY <1>2, <2>1 DEF D!PerdFiches, TypeFiches
  <2> QED
    BY <1>2, <2>2 DEF D!PerdFiches, TypeFiches
<1>3. CASE D!Importe
  <2>1. Head(file).numero \in Numeros /\ Head(file).effet \in Effets
    BY <1>3, ImporteFile DEF Messages
  <2>2. file' \in Seq(Messages)
    BY <1>3, ImporteFile
  <2> QED
    BY <1>3, <2>1, <2>2 DEF D!Importe, TypeFiches
<1>4. ASSUME NEW a \in AppelsFiches, D!RecoitFiche(a) PROVE TypeFiches'
  <2>1. demandes' \in [AppelsFiches -> Fichiers] /\ demandes[a].numero \in Numeros
    BY <1>4, FicheRecoit DEF TypeFiches, Fichiers
  <2>2. avant' \in [AppelsFiches -> SUBSET AppelsFiches]
    BY <1>4 DEF D!RecoitFiche, TypeFiches
  <2> QED
    BY <1>4, <2>1, <2>2 DEF D!RecoitFiche, TypeFiches
<1>5. ASSUME NEW a \in AppelsFiches, D!SertFiche(a) PROVE TypeFiches'
  <2>1. demandes[a].numero \in Numeros
    BY DEF TypeFiches, Fichiers
  <2>2. CASE D!File(a)
    <3>1. file' \in Seq(Messages)
      BY <2>2, MessageType DEF D!File, TypeFiches
    <3>2. demandes' \in [AppelsFiches -> Fichiers]
      BY <2>2, FicheRepond DEF D!File, EtatsFiche
    <3> QED
      BY <2>2, <3>1, <3>2 DEF D!File, TypeFiches
  <2>3. CASE ~ D!File(a)
    <3>1. demandes' \in [AppelsFiches -> Fichiers]
      BY <1>5, <2>3, FicheRepond
         DEF D!SertFiche, D!Verifie, D!LitFiche, D!AccuseFiche, D!EchecFiche,
             EtatsFiche
    <3> QED
      BY <1>5, <2>3, <3>1
         DEF D!SertFiche, D!Verifie, D!LitFiche, D!AccuseFiche, D!EchecFiche,
             TypeFiches
  <2> QED
    BY <2>2, <2>3
<1> QED
  BY <1>1, <1>2, <1>3, <1>4, <1>5, FichesPas

\* The types hold in every reachable state.
THEOREM TypeCorrect == Spec => []TypeOK
<1>1. TypeInv /\ TypeFiches => TypeOK
  <2> SUFFICES ASSUME TypeInv, TypeFiches PROVE TypeOK
    OBVIOUS
  <2>1. /\ \A u \in utilisateurs : /\ u.id \in 1 .. identites.utilisateurs
                                   /\ u.nom \in Noms /\ u.mdp \in Mdp
        /\ \A u, v \in utilisateurs : u.id = v.id => u = v
        /\ profils \subseteq 1 .. identites.profils
    BY DEF TypeInv, TypeTables
  <2>2. \A j \in jetons : j.id \in 1 .. identites.utilisateurs /\ j.nom \in Noms
    BY DEF TypeInv, TypeTables, TypeJetons
  <2>3. \A a \in Appels :
          appels[a].etape \in Etapes \cup Reponses \cup {"libre", "perdu"}
    BY DEF TypeInv, TypeAppels, EtatsAppel
  <2>4. /\ crdhld \in [Numeros -> Fiches \cup {"absente", "effacee"}]
        /\ file \in Seq([numero : Numeros, effet : Fiches \cup {"effacee"},
                         creation : BOOLEAN])
    BY DEF TypeFiches, Effets, Messages
  <2> QED
    BY <2>1, <2>2, <2>3, <2>4 DEF TypeOK, TypeInv, TypeProcess
<1> QED
  BY <1>1, TypeInit, TypeSuivant, TypeFichesInit, TypeFichesSuivant, PTL
     DEF Spec

-----------------------------------------------------------------------------
(***************************************************************************)
(* A number on which calls do not overlap.                                 *)
(***************************************************************************)
\* The one call that has yet to queue finds nothing on its way; then its one
\* message waits for Amadeus5.
EnOrdre(n) ==
  /\ \A j, k \in DOMAIN file :
       file[j].numero = n /\ file[k].numero = n => j = k
  /\ \A a \in AppelsFiches : demandes[a].numero = n /\ D!AvantFile(a) =>
       /\ D!Importee(n)
       /\ \A b \in AppelsFiches : demandes[b].numero = n /\ D!AvantFile(b) => b = a
       /\ demandes[a].etape = "lit" => demandes[a].op # "creer"
       /\ demandes[a].etape = "file" /\ demandes[a].op = "creer" => ~ D!Presente(n)
  /\ \A k \in DOMAIN file : file[k].numero = n /\ file[k].creation => ~ D!Presente(n)

Ordre == \A n \in Numeros \ melees : EnOrdre(n)

LEMMA OrdreInit == Init => Ordre
<1> SUFFICES ASSUME Init, NEW n \in Numeros PROVE EnOrdre(n)
  BY DEF Ordre
<1> USE DEF Init, D!InitDetenteurs
<1>1. DOMAIN file = {}
  OBVIOUS
<1>2. \A a \in AppelsFiches : demandes[a].etape = "libre"
  BY DEF D!Demande
<1>3. \A a \in AppelsFiches : ~ D!AvantFile(a)
  BY <1>2 DEF D!AvantFile
<1> QED
  BY <1>1, <1>3 DEF EnOrdre

\* A step about another number; d is 1 if the oldest message leaves the queue.
LEMMA Ailleurs ==
  ASSUME TypeFiches, TypeFiches', NEW n \in Numeros, EnOrdre(n), NEW d \in {0, 1},
         \A b \in AppelsFiches : /\ demandes'[b].numero = demandes[b].numero
                                 /\ demandes[b].numero = n => demandes'[b] = demandes[b],
         crdhld'[n] = crdhld[n], garde' = garde,
         \A k \in DOMAIN file' : file'[k].numero = n =>
           k + d \in DOMAIN file /\ file[k + d] = file'[k]
  PROVE  EnOrdre(n)'
<1>1. \A b \in AppelsFiches :
        demandes[b].numero = n => (D!AvantFile(b)' <=> D!AvantFile(b))
  BY DEF D!AvantFile
<1>2. D!Presente(n)' <=> D!Presente(n)
  BY DEF D!Presente
<1>3. D!Importee(n) => D!Importee(n)'
  BY DEF D!Importee
<1>4. \A j, k \in DOMAIN file' :
        file'[j].numero = n /\ file'[k].numero = n => j = k
  <2> SUFFICES ASSUME NEW j \in DOMAIN file', NEW k \in DOMAIN file',
                      file'[j].numero = n, file'[k].numero = n
               PROVE  j = k
    OBVIOUS
  <2>1. j + d = k + d
    BY DEF EnOrdre
  <2>2. j \in Nat /\ k \in Nat
    <3>1. file' \in Seq(Messages)
      BY DEF TypeFiches
    <3>2. DOMAIN file' = 1 .. Len(file') /\ Len(file') \in Nat
      BY <3>1, LenProperties
    <3> QED
      BY SMTT(40), <3>2
  <2> QED
    BY <2>1, <2>2
<1>5. \A k \in DOMAIN file' :
        file'[k].numero = n /\ file'[k].creation => ~ D!Presente(n)
  BY DEF EnOrdre
<1> QED
  BY <1>1, <1>2, <1>3, <1>4, <1>5 DEF EnOrdre

\* A step of call a that leaves the queue and CRDHLD alone, and after which a
\* has nothing to queue on n, or still has and no card is in its way.
LEMMA AppelEnOrdre ==
  ASSUME TypeFiches, NEW n \in Numeros, EnOrdre(n), NEW a \in AppelsFiches,
         \A b \in AppelsFiches \ {a} : demandes'[b] = demandes[b],
         demandes'[a].numero = demandes[a].numero,
         demandes'[a].op = demandes[a].op,
         UNCHANGED <<file, crdhld, garde>>,
         demandes[a].numero = n /\ D!AvantFile(a)' =>
           /\ D!AvantFile(a) /\ demandes'[a].etape = "file"
           /\ demandes[a].op = "creer" => ~ D!Presente(n)
  PROVE  EnOrdre(n)'
<1>1. \A b \in AppelsFiches \ {a} : D!AvantFile(b)' <=> D!AvantFile(b)
  BY DEF D!AvantFile
<1>2. /\ D!Presente(n)' <=> D!Presente(n)
      /\ D!Importee(n)' <=> D!Importee(n)
  BY DEF D!Presente, D!Importee
<1>3. \A b \in AppelsFiches :
        demandes'[b].numero = n /\ D!AvantFile(b)' =>
          demandes[b].numero = n /\ D!AvantFile(b)
  BY <1>1
<1>4. ASSUME NEW b \in AppelsFiches, demandes'[b].numero = n, D!AvantFile(b)'
      PROVE  /\ D!Importee(n)'
             /\ \A c \in AppelsFiches :
                  demandes'[c].numero = n /\ D!AvantFile(c)' => c = b
             /\ demandes'[b].etape = "lit" => demandes'[b].op # "creer"
             /\ demandes'[b].etape = "file" /\ demandes'[b].op = "creer"
                  => ~ D!Presente(n)'
  <2>1. demandes[b].numero = n /\ D!AvantFile(b)
    BY <1>3, <1>4
  <2>2. /\ D!Importee(n)'
        /\ \A c \in AppelsFiches :
             demandes'[c].numero = n /\ D!AvantFile(c)' => c = b
    BY <1>2, <1>3, <2>1 DEF EnOrdre
  <2>3. CASE b = a
    BY <1>2, <1>4, <2>1, <2>2, <2>3
  <2>4. CASE b # a
    BY <1>2, <2>1, <2>2, <2>4 DEF EnOrdre
  <2> QED
    BY <2>3, <2>4
<1> QED
  BY <1>2, <1>4 DEF EnOrdre

LEMMA RecoitEnOrdre ==
  ASSUME TypeFiches, NEW n \in Numeros \ melees', EnOrdre(n),
         NEW a \in AppelsFiches, D!RecoitFiche(a)
  PROVE  EnOrdre(n)'
<1>1. /\ \A b \in AppelsFiches \ {a} : demandes'[b] = demandes[b]
      /\ demandes'[a].numero = demandes[a].numero
      /\ demandes'[a].etape \in {"lit", "file"} => demandes'[a].op # "creer"
  BY FicheRecoit
<1>2. UNCHANGED <<file, crdhld, garde>>
  BY DEF D!RecoitFiche
<1>3. /\ \A b \in AppelsFiches \ {a} : D!AvantFile(b)' <=> D!AvantFile(b)
      /\ D!Presente(n)' <=> D!Presente(n)
      /\ D!Importee(n)' <=> D!Importee(n)
  BY <1>1, <1>2 DEF D!AvantFile, D!Presente, D!Importee
<1>4. CASE demandes[a].numero # n
  BY <1>1, <1>2, <1>3, <1>4 DEF EnOrdre
<1>5. CASE demandes[a].numero = n
  <2>1. D!Regle(n)
    BY <1>5 DEF D!RecoitFiche
  <2>2. \A b \in AppelsFiches : demandes'[b].numero = n /\ D!AvantFile(b)' => b = a
    BY <1>1, <1>3, <2>1 DEF D!Regle
  <2> QED
    BY <1>1, <1>2, <1>3, <2>1, <2>2 DEF EnOrdre, D!Regle
<1> QED
  BY <1>4, <1>5

\* What File does to the queue and to the call.
LEMMA FileFile ==
  ASSUME TypeFiches, NEW a \in AppelsFiches, D!File(a)
  PROVE  /\ DOMAIN file = 1 .. Len(file) /\ DOMAIN file' = 1 .. Len(file) + 1
         /\ Len(file) \in Nat
         /\ \A k \in DOMAIN file : file'[k] = file[k]
         /\ file'[Len(file) + 1].numero = demandes[a].numero
         /\ file'[Len(file) + 1].effet = D!Effet(a)
         /\ file'[Len(file) + 1].creation = (demandes[a].op = "creer")
         /\ \A b \in AppelsFiches \ {a} : demandes'[b] = demandes[b]
         /\ demandes'[a].etape = "accuse" /\ demandes[a].etape = "file"
         /\ demandes'[a].numero = demandes[a].numero
         /\ demandes'[a].op = demandes[a].op
         /\ demandes'[a].fiche = demandes[a].fiche
         /\ UNCHANGED <<crdhld, garde, avant, melees>>
<1> DEFINE m == D!Message(a)
<1>1. /\ m \in Messages /\ m.numero = demandes[a].numero
      /\ m.effet = D!Effet(a) /\ m.creation = (demandes[a].op = "creer")
  BY MessageType
<1>2. file \in Seq(Messages) /\ file' = Append(file, m)
  BY DEF TypeFiches, D!File
<1> HIDE DEF m
<1>3. /\ DOMAIN file = 1 .. Len(file) /\ DOMAIN file' = 1 .. Len(file) + 1
      /\ Len(file) \in Nat
      /\ \A k \in DOMAIN file : file'[k] = file[k]
      /\ file'[Len(file) + 1] = m
  BY <1>1, <1>2, AppendProperties, LenProperties
<1>4. /\ \A b \in AppelsFiches \ {a} : demandes'[b] = demandes[b]
      /\ demandes'[a].etape = "accuse"
      /\ demandes'[a].numero = demandes[a].numero
      /\ demandes'[a].op = demandes[a].op
      /\ demandes'[a].fiche = demandes[a].fiche
  BY FicheRepond DEF D!File, EtatsFiche
<1> QED
  BY <1>1, <1>3, <1>4 DEF D!File, D!A

LEMMA FileEnOrdre ==
  ASSUME TypeFiches, TypeFiches', NEW n \in Numeros, EnOrdre(n),
         NEW a \in AppelsFiches, D!File(a)
  PROVE  EnOrdre(n)'
<1> DEFINE i == Len(file) + 1
<1>1. /\ DOMAIN file = 1 .. Len(file) /\ DOMAIN file' = 1 .. i
      /\ Len(file) \in Nat
      /\ \A k \in DOMAIN file : file'[k] = file[k]
      /\ file'[i].numero = demandes[a].numero
      /\ file'[i].creation = (demandes[a].op = "creer")
  BY FileFile
<1>2. /\ \A b \in AppelsFiches \ {a} : demandes'[b] = demandes[b]
      /\ demandes'[a].etape = "accuse" /\ demandes[a].etape = "file"
      /\ demandes'[a].numero = demandes[a].numero
      /\ UNCHANGED <<crdhld, garde>>
  BY FileFile
<1>3. \A k \in DOMAIN file' : k \in DOMAIN file \/ k = i
  BY <1>1
<1>4. \A k \in DOMAIN file : k + 0 = k
  BY <1>1
<1> HIDE DEF i
<1>5. CASE demandes[a].numero # n
  <2>1. \A k \in DOMAIN file' : file'[k].numero = n =>
          k + 0 \in DOMAIN file /\ file[k + 0] = file'[k]
    BY <1>1, <1>3, <1>4, <1>5
  <2>2. \A b \in AppelsFiches : /\ demandes'[b].numero = demandes[b].numero
                                /\ demandes[b].numero = n => demandes'[b] = demandes[b]
    BY <1>2, <1>5
  <2> QED
    BY <1>2, <2>1, <2>2, Ailleurs
<1>6. CASE demandes[a].numero = n
  <2>1. D!AvantFile(a)
    BY <1>2 DEF D!AvantFile
  <2>2. /\ \A k \in DOMAIN file : file[k].numero # n
        /\ \A b \in AppelsFiches : demandes[b].numero = n /\ D!AvantFile(b) => b = a
        /\ demandes[a].op = "creer" => ~ D!Presente(n)
    BY <1>2, <1>6, <2>1 DEF EnOrdre, D!Importee
  <2>3. \A k \in DOMAIN file' : file'[k].numero = n => k = i
    BY <1>1, <1>3, <2>2
  <2>4. \A b \in AppelsFiches : demandes'[b].numero = n => ~ D!AvantFile(b)'
    BY <1>2, <2>2 DEF D!AvantFile
  <2>5. D!Presente(n)' <=> D!Presente(n)
    BY <1>2 DEF D!Presente
  <2> QED
    BY <1>1, <2>2, <2>3, <2>4, <2>5 DEF EnOrdre
<1> QED
  BY <1>5, <1>6

\* What Importe does to the queue.
LEMMA ImporteTete ==
  ASSUME TypeFiches, TypeFiches', D!Importe
  PROVE  /\ 1 \in DOMAIN file /\ file[1] = Head(file)
         /\ \A k \in DOMAIN file : k \in Nat /\ k >= 1
         /\ \A k \in DOMAIN file' :
              k \in Nat /\ k + 1 \in DOMAIN file /\ file'[k] = file[k + 1]
         /\ \A k \in DOMAIN file : k # 1 =>
              k - 1 \in DOMAIN file' /\ file'[k - 1] = file[k]
<1>1. file \in Seq(Messages) /\ file' \in Seq(Messages)
  BY DEF TypeFiches
<1>2. DOMAIN file = 1 .. Len(file) /\ DOMAIN file' = 1 .. Len(file')
  BY <1>1, LenProperties
<1>3. /\ Len(file) \in Nat /\ Len(file) >= 1 /\ Len(file') = Len(file) - 1
      /\ file[1] = Head(file)
      /\ \A k \in DOMAIN file' : file'[k] = file[k + 1]
  BY <1>2, ImporteFile
<1>4. ASSUME NEW k \in DOMAIN file, k # 1
      PROVE  k - 1 \in DOMAIN file' /\ (k - 1) + 1 = k
  BY <1>2, <1>3, <1>4
<1> QED
  BY <1>2, <1>3, <1>4

LEMMA ImporteEnOrdre ==
  ASSUME TypeFiches, TypeFiches', NEW n \in Numeros, EnOrdre(n), D!Importe
  PROVE  EnOrdre(n)'
<1>1. UNCHANGED <<demandes, garde>>
  BY DEF D!Importe
<1>2. CASE Head(file).numero # n
  <2>1. crdhld'[n] = crdhld[n]
    BY <1>2 DEF D!Importe, TypeFiches
  <2>2. \A k \in DOMAIN file' : file'[k].numero = n =>
          k + 1 \in DOMAIN file /\ file[k + 1] = file'[k]
    BY ImporteTete
  <2> QED
    BY <1>1, <2>1, <2>2, Ailleurs
<1>3. CASE Head(file).numero = n
  <2>1. 1 \in DOMAIN file /\ file[1].numero = n
    BY <1>3, ImporteTete
  <2>2. \A k \in DOMAIN file' : file'[k].numero # n
    <3> SUFFICES ASSUME NEW k \in DOMAIN file', file'[k].numero = n PROVE FALSE
      OBVIOUS
    <3>1. k \in Nat /\ k + 1 \in DOMAIN file /\ file[k + 1].numero = n
      BY ImporteTete
    <3>2. k + 1 = 1 /\ 1 <= k
      <4>1. k + 1 = 1
        BY <2>1, <3>1 DEF EnOrdre
      <4>2. file' \in Seq(Messages)
        BY DEF TypeFiches
      <4>3. DOMAIN file' = 1 .. Len(file')
        BY <4>2, LenProperties
      <4> QED
        BY <3>1, <4>1, <4>3
    <3> QED
      BY <3>1, <3>2
  <2>3. \A b \in AppelsFiches : demandes[b].numero = n => ~ D!AvantFile(b)
    BY <2>1 DEF EnOrdre, D!Importee
  <2>4. \A b \in AppelsFiches : demandes'[b].numero = n => ~ D!AvantFile(b)'
    BY <1>1, <2>3 DEF D!AvantFile
  <2> QED
    BY <2>2, <2>4 DEF EnOrdre
<1> QED
  BY <1>2, <1>3

LEMMA PerdEnOrdre ==
  ASSUME TypeFiches, NEW n \in Numeros, EnOrdre(n), D!PerdFiches
  PROVE  EnOrdre(n)'
<1>1. \A b \in AppelsFiches : ~ D!EnCours(b) \/ demandes'[b].etape = "perdu"
  BY DEF D!PerdFiches, TypeFiches, Fichiers
<1>2. \A b \in AppelsFiches : ~ D!EnCours(b) => demandes'[b] = demandes[b]
  BY DEF D!PerdFiches, TypeFiches
<1>3. \A b \in AppelsFiches : ~ D!AvantFile(b)'
  BY <1>1, <1>2 DEF D!AvantFile, D!EnCours
<1>4. UNCHANGED <<file, crdhld, garde>>
  BY DEF D!PerdFiches
<1>5. D!Presente(n)' <=> D!Presente(n)
  BY <1>4 DEF D!Presente
<1> QED
  BY <1>3, <1>4, <1>5 DEF EnOrdre

LEMMA MeleesCroit ==
  ASSUME [Next]_vars PROVE melees \subseteq melees'
BY FichesPas
   DEF varsFiches, D!PerdFiches, D!Importe, D!RecoitFiche, D!SertFiche,
       D!Verifie, D!LitFiche, D!File, D!AccuseFiche, D!EchecFiche

\* The steps of a call but File: an answer, or the INSERT comes next.
LEMMA RepondPas ==
  ASSUME TypeFiches, NEW a \in AppelsFiches, D!SertFiche(a), ~ D!File(a)
  PROVE  /\ \A b \in AppelsFiches \ {a} : demandes'[b] = demandes[b]
         /\ demandes'[a].numero = demandes[a].numero
         /\ demandes'[a].op = demandes[a].op
         /\ demandes'[a].fiche = demandes[a].fiche
         /\ \/ /\ demandes'[a].etape \in {"400", "404"}
               /\ demandes[a].etape \in {"verifie", "lit"}
            \/ demandes'[a].etape = "500" /\ D!EnCours(a)
            \/ demandes'[a].etape = "200" /\ demandes[a].etape = "accuse"
            \/ /\ demandes'[a].etape = "file"
               /\ \/ demandes[a].etape = "lit"
                  \/ /\ demandes[a].etape = "verifie"
                     /\ ~ D!Presente(demandes[a].numero)
         /\ UNCHANGED <<file, crdhld, garde, avant, melees>>
<1>1. ASSUME NEW r \in {"400", "404", "500", "200", "file"}, D!Repond(a, r)
      PROVE  /\ \A b \in AppelsFiches \ {a} : demandes'[b] = demandes[b]
             /\ demandes'[a].numero = demandes[a].numero
             /\ demandes'[a].op = demandes[a].op
             /\ demandes'[a].fiche = demandes[a].fiche
             /\ demandes'[a].etape = r
  BY <1>1, FicheRepond DEF EtatsFiche
<1>2. CASE D!Verifie(a)
  BY <1>1, <1>2 DEF D!Verifie, D!A, D!EnCours, D!AvantFile
<1>3. CASE D!LitFiche(a)
  BY <1>1, <1>3 DEF D!LitFiche, D!A, D!EnCours, D!AvantFile
<1>4. CASE D!AccuseFiche(a)
  BY <1>1, <1>4 DEF D!AccuseFiche, D!A
<1>5. CASE D!EchecFiche(a)
  BY <1>1, <1>5 DEF D!EchecFiche
<1> QED
  BY <1>2, <1>3, <1>4, <1>5 DEF D!SertFiche

LEMMA OrdreSuivant == TypeFiches /\ Ordre /\ [Next]_vars => Ordre'
<1> SUFFICES ASSUME TypeFiches, Ordre, [Next]_vars,
                    NEW n \in Numeros \ melees'
             PROVE  EnOrdre(n)'
  BY DEF Ordre
<1>0. EnOrdre(n) /\ TypeFiches'
  BY MeleesCroit, TypeFichesSuivant DEF Ordre
<1>1. CASE UNCHANGED varsFiches
  BY <1>0, <1>1
     DEF varsFiches, EnOrdre, D!AvantFile, D!Presente, D!Importee
<1>2. CASE D!PerdFiches
  BY <1>0, <1>2, PerdEnOrdre
<1>3. CASE D!Importe
  BY <1>0, <1>3, ImporteEnOrdre
<1>4. ASSUME NEW a \in AppelsFiches, D!RecoitFiche(a) PROVE EnOrdre(n)'
  BY <1>0, <1>4, RecoitEnOrdre
<1>5. ASSUME NEW a \in AppelsFiches, D!SertFiche(a) PROVE EnOrdre(n)'
  <2>1. CASE D!File(a)
    BY <1>0, <2>1, FileEnOrdre
  <2>2. CASE ~ D!File(a)
    <3>1. demandes[a].numero = n /\ D!AvantFile(a)' =>
            /\ D!AvantFile(a) /\ demandes'[a].etape = "file"
            /\ demandes[a].op = "creer" => ~ D!Presente(n)
      BY <1>0, <1>5, <2>2, RepondPas DEF D!AvantFile, EnOrdre
    <3> QED
      BY <1>0, <1>5, <2>2, <3>1, RepondPas, AppelEnOrdre
  <2> QED
    BY <2>1, <2>2
<1> QED
  BY <1>1, <1>2, <1>3, <1>4, <1>5, FichesPas

-----------------------------------------------------------------------------
(***************************************************************************)
(* Who wrote a card, whatever overlapped.                                  *)
(***************************************************************************)

\* What CRDHLD holds of n once all that waits is imported.
Dernier(n, e) ==
  \/ D!Importee(n) /\ crdhld[n] = e
  \/ \E k \in DOMAIN file :
       /\ file[k].numero = n /\ file[k].effet = e
       /\ \A j \in DOMAIN file : file[j].numero = n => j <= k

\* The calls that have queued their message, or may have, and those of them that
\* are or will be answered 200.
Sortie(c) == demandes[c].etape \in {"accuse", "200", "500", "perdu"}
Sure(c)   == demandes[c].etape \in {"accuse", "200"}

\* Call c is the last that has queued a message on n.
DernierAppel(n, c) ==
  /\ demandes[c].numero = n /\ Sortie(c) /\ Dernier(n, D!Effet(c))
  /\ \A b \in AppelsFiches : demandes[b].numero = n /\ Sure(b) => c \notin avant[b]

Intacte(n) ==
  /\ D!Importee(n) /\ crdhld[n] = "absente"
  /\ \A b \in AppelsFiches : demandes[b].numero = n => ~ Sure(b)

Auteur(n) == Intacte(n) \/ \E c \in AppelsFiches : DernierAppel(n, c)

\* What was over when a call came is over for good.
Passe == \A b \in AppelsFiches : \A c \in avant[b] : D!Finie(c)

Auteurs == Passe /\ \A n \in Numeros : Auteur(n)

LEMMA AuteursInit == Init => Auteurs
<1> SUFFICES ASSUME Init PROVE Auteurs
  OBVIOUS
<1> USE DEF Init, D!InitDetenteurs
<1>1. DOMAIN file = {}
  OBVIOUS
<1>2. \A a \in AppelsFiches : demandes[a].etape = "libre"
  BY DEF D!Demande
<1>3. \A n \in Numeros : Intacte(n)
  BY <1>1, <1>2 DEF Intacte, D!Importee, Sure
<1> QED
  BY <1>3 DEF Auteurs, Auteur, Passe

LEMMA EffetIntact ==
  ASSUME NEW c, demandes'[c].op = demandes[c].op,
         demandes'[c].fiche = demandes[c].fiche
  PROVE  D!Effet(c)' = D!Effet(c)
BY DEF D!Effet

LEMMA PasseSuivant ==
  ASSUME TypeFiches, Passe,
         \A b \in AppelsFiches : D!Finie(b) => demandes'[b] = demandes[b],
         \A b \in AppelsFiches :
           avant'[b] \subseteq avant[b] \cup {c \in AppelsFiches : D!Finie(c)}
  PROVE  Passe'
<1> SUFFICES ASSUME NEW b \in AppelsFiches, NEW c \in avant'[b] PROVE D!Finie(c)'
  BY DEF Passe
<1>1. c \in AppelsFiches /\ D!Finie(c)
  BY DEF Passe, TypeFiches
<1> QED
  BY <1>1 DEF D!Finie

\* A step that leaves the queue and CRDHLD alone.
LEMMA AuteurImmobile ==
  ASSUME NEW n \in Numeros, Auteur(n), UNCHANGED <<file, crdhld>>,
         \A c \in AppelsFiches : demandes'[c].numero = demandes[c].numero,
         \A c \in AppelsFiches : Sortie(c) =>
           Sortie(c)' /\ D!Effet(c)' = D!Effet(c),
         \A b \in AppelsFiches : Sure(b)' => Sure(b) /\ avant'[b] = avant[b]
  PROVE  Auteur(n)'
<1>1. CASE Intacte(n)
  BY <1>1 DEF Intacte, D!Importee, Auteur
<1>2. ASSUME NEW c \in AppelsFiches, DernierAppel(n, c) PROVE DernierAppel(n, c)'
  <2>1. D!Effet(c)' = D!Effet(c)
    BY <1>2 DEF DernierAppel
  <2>2. Dernier(n, D!Effet(c))'
    BY <1>2, <2>1 DEF DernierAppel, Dernier, D!Importee
  <2> QED
    BY <1>2, <2>2 DEF DernierAppel
<1> QED
  BY <1>1, <1>2 DEF Auteur

LEMMA FileAuteur ==
  ASSUME TypeFiches, Passe, NEW n \in Numeros, Auteur(n),
         NEW a \in AppelsFiches, D!File(a)
  PROVE  Auteur(n)'
<1> DEFINE i == Len(file) + 1
<1>1. /\ DOMAIN file = 1 .. Len(file) /\ DOMAIN file' = 1 .. i
      /\ Len(file) \in Nat
      /\ \A k \in DOMAIN file : file'[k] = file[k]
      /\ file'[i].numero = demandes[a].numero
      /\ file'[i].effet = D!Effet(a)
  BY FileFile
<1>2. /\ \A b \in AppelsFiches \ {a} : demandes'[b] = demandes[b]
      /\ demandes'[a].etape = "accuse" /\ demandes[a].etape = "file"
      /\ demandes'[a].numero = demandes[a].numero
      /\ D!Effet(a)' = D!Effet(a) /\ UNCHANGED <<crdhld, avant>>
  BY FileFile, EffetIntact
<1>3. /\ i \in DOMAIN file' /\ \A j \in DOMAIN file' : j <= i
      /\ \A j \in DOMAIN file' : j \in DOMAIN file \/ j = i
      /\ \A j \in DOMAIN file : j \in DOMAIN file'
  BY <1>1
<1> HIDE DEF i
<1>4. CASE demandes[a].numero = n
  <2>1. Dernier(n, D!Effet(a))'
    BY <1>1, <1>2, <1>3, <1>4 DEF Dernier
  <2>2. \A b \in AppelsFiches : a \notin avant'[b]
    BY <1>2 DEF Passe, D!Finie
  <2> QED
    BY <1>2, <1>4, <2>1, <2>2 DEF Auteur, DernierAppel, Sortie
<1>5. CASE demandes[a].numero # n
  <2>1. D!Importee(n) => D!Importee(n)'
    BY <1>1, <1>3, <1>5 DEF D!Importee
  <2>2. CASE Intacte(n)
    BY <1>2, <1>5, <2>1, <2>2 DEF Intacte, Auteur, Sure
  <2>3. ASSUME NEW c \in AppelsFiches, DernierAppel(n, c) PROVE DernierAppel(n, c)'
    <3>1. demandes'[c] = demandes[c]
      BY <1>2, <1>5, <2>3 DEF DernierAppel
    <3>2. D!Effet(c)' = D!Effet(c)
      BY <3>1, EffetIntact
    <3>3. CASE D!Importee(n) /\ crdhld[n] = D!Effet(c)
      BY <1>2, <1>5, <2>1, <2>3, <3>1, <3>2, <3>3
         DEF DernierAppel, Dernier, Sortie, Sure
    <3>4. ASSUME NEW k \in DOMAIN file,
                 file[k].numero = n, file[k].effet = D!Effet(c),
                 \A j \in DOMAIN file : file[j].numero = n => j <= k
          PROVE  DernierAppel(n, c)'
      <4>1. Dernier(n, D!Effet(c))'
        BY <1>1, <1>3, <1>5, <3>2, <3>4 DEF Dernier
      <4> QED
        BY <1>2, <1>5, <2>3, <3>1, <4>1 DEF DernierAppel, Sortie, Sure
    <3> QED
      BY <2>3, <3>3, <3>4 DEF DernierAppel, Dernier
  <2> QED
    BY <2>2, <2>3 DEF Auteur
<1> QED
  BY <1>4, <1>5

LEMMA ImporteAuteur ==
  ASSUME TypeFiches, TypeFiches', NEW n \in Numeros, Auteur(n), D!Importe
  PROVE  Auteur(n)'
<1>1. UNCHANGED <<demandes, avant>>
  BY DEF D!Importe
<1>2. /\ Head(file).numero = n => crdhld'[n] = file[1].effet
      /\ Head(file).numero # n => crdhld'[n] = crdhld[n]
  BY ImporteTete DEF D!Importe, TypeFiches
<1>3. D!Importee(n) => D!Importee(n)' /\ Head(file).numero # n
  BY ImporteTete DEF D!Importee
<1>4. CASE Intacte(n)
  BY <1>1, <1>2, <1>3, <1>4 DEF Intacte, Auteur, Sure
<1>5. ASSUME NEW c \in AppelsFiches, DernierAppel(n, c) PROVE DernierAppel(n, c)'
  <2>1. D!Effet(c)' = D!Effet(c)
    BY <1>1, EffetIntact
  <2>2. ASSUME NEW k \in DOMAIN file,
               file[k].numero = n, file[k].effet = D!Effet(c),
               \A j \in DOMAIN file : file[j].numero = n => j <= k
        PROVE  Dernier(n, D!Effet(c))'
    <3>1. CASE k = 1
      <4>1. D!Importee(n)'
        <5> SUFFICES ASSUME NEW j \in DOMAIN file', file'[j].numero = n PROVE FALSE
          BY DEF D!Importee
        <5>1. j \in Nat /\ j + 1 \in DOMAIN file /\ file[j + 1].numero = n
          BY ImporteTete
        <5>2. j + 1 <= 1
          BY <2>2, <3>1, <5>1
        <5>3. j >= 1
          <6>1. file' \in Seq(Messages)
            BY DEF TypeFiches
          <6>2. DOMAIN file' = 1 .. Len(file')
            BY <6>1, LenProperties
          <6> QED
            BY <6>2
        <5> QED
          BY <5>1, <5>2, <5>3
      <4> QED
        BY <1>2, <2>1, <2>2, <3>1, <4>1, ImporteTete DEF Dernier
    <3>2. CASE k # 1
      <4>1. k - 1 \in DOMAIN file' /\ file'[k - 1] = file[k] /\ k \in Nat
        BY <2>2, <3>2, ImporteTete
      <4>2. ASSUME NEW j \in DOMAIN file', file'[j].numero = n PROVE j <= k - 1
        <5>1. j \in Nat /\ j + 1 \in DOMAIN file /\ file[j + 1].numero = n
          BY <4>2, ImporteTete
        <5>2. j + 1 <= k
          BY <2>2, <5>1
        <5> QED
          BY <4>1, <5>1, <5>2
      <4> QED
        BY <2>1, <2>2, <4>1, <4>2 DEF Dernier
    <3> QED
      BY <3>1, <3>2
  <2>3. Dernier(n, D!Effet(c))'
    BY <1>2, <1>3, <1>5, <2>1, <2>2 DEF DernierAppel, Dernier
  <2> QED
    BY <1>1, <1>5, <2>3 DEF DernierAppel, Sortie, Sure
<1> QED
  BY <1>4, <1>5 DEF Auteur

LEMMA AuteursSuivant == TypeFiches /\ Auteurs /\ [Next]_vars => Auteurs'
<1> SUFFICES ASSUME TypeFiches, Auteurs, [Next]_vars PROVE Auteurs'
  OBVIOUS
<1>0. TypeFiches' /\ Passe /\ \A n \in Numeros : Auteur(n)
  BY TypeFichesSuivant DEF Auteurs
<1>1. ASSUME UNCHANGED <<file, crdhld>>,
             \A c \in AppelsFiches : demandes'[c].numero = demandes[c].numero,
             \A c \in AppelsFiches : Sortie(c) =>
               Sortie(c)' /\ D!Effet(c)' = D!Effet(c),
             \A b \in AppelsFiches : Sure(b)' => Sure(b) /\ avant'[b] = avant[b],
             \A b \in AppelsFiches : D!Finie(b) => demandes'[b] = demandes[b],
             \A b \in AppelsFiches :
               avant'[b] \subseteq avant[b] \cup {c \in AppelsFiches : D!Finie(c)}
      PROVE  Auteurs'
  BY <1>0, <1>1, AuteurImmobile, PasseSuivant DEF Auteurs
<1>2. CASE UNCHANGED varsFiches
  BY <1>1, <1>2 DEF varsFiches, Sortie, Sure, D!Effet
<1>3. CASE D!PerdFiches
  <2>1. /\ \A b \in AppelsFiches : ~ D!EnCours(b) => demandes'[b] = demandes[b]
        /\ \A b \in AppelsFiches : D!EnCours(b) => demandes'[b].etape = "perdu"
        /\ \A b \in AppelsFiches : /\ demandes'[b].numero = demandes[b].numero
                                   /\ demandes'[b].op = demandes[b].op
                                   /\ demandes'[b].fiche = demandes[b].fiche
    BY <1>3 DEF D!PerdFiches, TypeFiches, Fichiers
  <2>2. \A b \in AppelsFiches : D!Effet(b)' = D!Effet(b)
    BY <2>1, EffetIntact
  <2>3. \A b \in AppelsFiches :
          /\ Sortie(b) => Sortie(b)'
          /\ Sure(b)' => Sure(b)
          /\ D!Finie(b) => demandes'[b] = demandes[b]
    BY <2>1 DEF Sortie, Sure, D!Finie, D!EnCours, D!AvantFile
  <2> QED
    BY <1>1, <1>3, <2>1, <2>2, <2>3 DEF D!PerdFiches
<1>4. CASE D!Importe
  <2>1. Passe'
    BY <1>0, <1>4, PasseSuivant DEF D!Importe
  <2> QED
    BY <1>0, <1>4, <2>1, ImporteAuteur DEF Auteurs
<1>5. ASSUME NEW a \in AppelsFiches, D!RecoitFiche(a) PROVE Auteurs'
  <2>1. /\ \A b \in AppelsFiches \ {a} : demandes'[b] = demandes[b]
        /\ demandes'[a].numero = demandes[a].numero
        /\ demandes'[a].etape \in {"verifie", "lit", "file"}
        /\ demandes[a].etape = "libre"
    BY <1>5, FicheRecoit
  <2>2. /\ UNCHANGED <<file, crdhld>>
        /\ \A b \in AppelsFiches \ {a} : avant'[b] = avant[b]
        /\ avant'[a] \subseteq {c \in AppelsFiches : D!Finie(c)}
    BY <1>5 DEF D!RecoitFiche, TypeFiches
  <2>3. \A b \in AppelsFiches \ {a} : D!Effet(b)' = D!Effet(b)
    BY <2>1, EffetIntact
  <2>4. ~ Sortie(a) /\ ~ Sure(a)' /\ ~ D!Finie(a)
    BY <2>1 DEF Sortie, Sure, D!Finie
  <2>5. \A b \in AppelsFiches \ {a} :
          (Sortie(b) => Sortie(b)') /\ (Sure(b)' => Sure(b))
    BY <2>1 DEF Sortie, Sure
  <2> QED
    BY <1>1, <2>1, <2>2, <2>3, <2>4, <2>5
<1>6. ASSUME NEW a \in AppelsFiches, D!SertFiche(a) PROVE Auteurs'
  <2>1. CASE D!File(a)
    <3>1. Passe'
      BY <1>0, <2>1, FileFile, PasseSuivant DEF D!Finie
    <3> QED
      BY <1>0, <2>1, <3>1, FileAuteur DEF Auteurs
  <2>2. CASE ~ D!File(a)
    <3>1. \A b \in AppelsFiches : D!Effet(b)' = D!Effet(b)
      BY <1>6, <2>2, RepondPas, EffetIntact
    <3>2. \A b \in AppelsFiches :
            /\ Sortie(b) => Sortie(b)'
            /\ Sure(b)' => Sure(b)
            /\ D!Finie(b) => demandes'[b] = demandes[b]
      <4>1. \A b \in AppelsFiches \ {a} : demandes'[b] = demandes[b]
        BY <1>6, <2>2, RepondPas
      <4>2. ~ D!Finie(a)
        BY <1>6, <2>2, RepondPas DEF D!Finie, D!EnCours, D!AvantFile
      <4>3. (Sortie(a) => Sortie(a)') /\ (Sure(a)' => Sure(a))
        BY <1>6, <2>2, RepondPas DEF Sortie, Sure
      <4> QED
        BY <4>1, <4>2, <4>3 DEF Sortie, Sure
    <3> QED
      BY <1>1, <1>6, <2>2, <3>1, <3>2, RepondPas
  <2> QED
    BY <2>1, <2>2
<1> QED
  BY <1>2, <1>3, <1>4, <1>5, <1>6, FichesPas

\* Once its messages are imported, CRDHLD holds of a card what a call asked for
\* that no later success has overtaken.
THEOREM FicheVoulueCorrect == Spec => []FicheVoulue
<1>1. Auteurs => FicheVoulue
  <2> SUFFICES ASSUME Auteurs, NEW n \in Numeros, D!Importee(n)
               PROVE  \/ /\ crdhld[n] = "absente"
                         /\ \A a \in AppelsFiches :
                              demandes[a].numero = n => ~ D!A(a, "200")
                      \/ \E c \in AppelsFiches :
                           /\ demandes[c].numero = n /\ crdhld[n] = D!Effet(c)
                           /\ ~ D!Depassee(c) /\ Sortie(c)
    BY DEF FicheVoulue, D!FicheVoulue, Sortie
  <2>1. CASE Intacte(n)
    BY <2>1 DEF Intacte, Sure, D!A
  <2>2. ASSUME NEW c \in AppelsFiches, DernierAppel(n, c)
        PROVE  crdhld[n] = D!Effet(c) /\ ~ D!Depassee(c)
    BY <2>2 DEF DernierAppel, Dernier, D!Importee, D!Depassee, D!A, Sure
  <2> QED
    BY <2>1, <2>2 DEF Auteurs, Auteur, DernierAppel
<1> QED
  BY <1>1, TypeFichesInit, TypeFichesSuivant, AuteursInit, AuteursSuivant, PTL
     DEF Spec

LEMMA CreationBloqueeSuivante ==
  TypeFiches /\ Ordre /\ CreationBloquee /\ [Next]_vars => CreationBloquee'
<1> SUFFICES ASSUME TypeFiches, Ordre, CreationBloquee, [Next]_vars,
                    NEW n \in ecrasees', n \notin melees'
             PROVE  FALSE
  BY DEF CreationBloquee, D!CreationBloquee
<1>1. n \notin ecrasees
  BY MeleesCroit DEF CreationBloquee, D!CreationBloquee
<1>2. D!Importe
  BY <1>1, FichesPas
     DEF varsFiches, D!PerdFiches, D!RecoitFiche, D!SertFiche, D!Verifie,
         D!LitFiche, D!File, D!AccuseFiche, D!EchecFiche
<1>3. n = Head(file).numero /\ Head(file).creation /\ D!Presente(n)
  BY <1>1, <1>2 DEF D!Importe
<1>4. 1 \in DOMAIN file /\ file[1] = Head(file) /\ n \in Numeros
  <2>1. DOMAIN file = 1 .. Len(file)
    BY LenProperties DEF TypeFiches
  <2> QED
    BY <1>2, <1>3, <2>1, ImporteFile DEF Messages
<1>5. EnOrdre(n)
  BY <1>4, MeleesCroit DEF Ordre
<1> QED
  BY <1>3, <1>4, <1>5 DEF EnOrdre

\* A creation never replaces a card, unless calls overlapped on its number.
THEOREM CreationBloqueeCorrect == Spec => []CreationBloquee
<1>1. Init => CreationBloquee
  BY DEF Init, D!InitDetenteurs, CreationBloquee, D!CreationBloquee
<1> QED
  BY <1>1, TypeFichesInit, TypeFichesSuivant, OrdreInit, OrdreSuivant,
     CreationBloqueeSuivante, PTL DEF Spec

=============================================================================
