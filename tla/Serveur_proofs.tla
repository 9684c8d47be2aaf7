--------------------------- MODULE Serveur_proofs ----------------------------
(***************************************************************************)
(* What Serveur guarantees for any number of users, passwords, calls,      *)
(* cards and starts of the process.                                        *)
(***************************************************************************)
EXTENDS Serveur, SequenceTheorems, TLAPS

Lignes == [id : Nat, nom : Noms, mdp : Mdp \cup {Aucun}, profil : Nat]

Operations == {"login", "changePassword", "creerUtilisateur", "updateUser",
               "deleteProfile", "deleteUser", "createProfile"}

Demandes == [op : Operations, id : Nat, nom : Noms, mdp : Mdp \cup {Aucun},
             nouveau : Mdp \cup {Aucun}, profil : Nat]

EtatsAppel == Etapes \cup Reponses \cup {"libre", "perdu"}

\* The rows, and their numbers: below the last value of their column, and
\* each given once.
TypeTables ==
  /\ utilisateurs \in SUBSET [id : Nat, nom : Noms, mdp : Mdp, profil : Nat]
  /\ profils \in SUBSET Nat
  /\ identites \in [utilisateurs : Nat, profils : Nat]
  /\ \A u \in utilisateurs : 1 <= u.id /\ u.id <= identites.utilisateurs
  /\ \A u, v \in utilisateurs : u.id = v.id => u = v
  /\ \A p \in profils : 1 <= p /\ p <= identites.profils

TypeJetons ==
  /\ jetons \in SUBSET [id : Nat, nom : Noms]
  /\ \A j \in jetons : 1 <= j.id /\ j.id <= identites.utilisateurs

TypeProcess ==
  /\ serveur \in {"marche", "arret"} /\ demarrages \in 1 .. MaxDemarrages
  /\ amorce \in {"compte", "profil", "utilisateur", "fini", "echec", "arret"}
  /\ amorceProfil \in Nat

\* What a call at each of its awaits holds.
TypeAppel(a) ==
  /\ appels[a].etape \in {"lit", "compare"} =>
       appels[a].req.op \in {"login", "changePassword"}
  /\ appels[a].etape \in {"lit", "compare"} /\ appels[a].req.op # "login" =>
       appels[a].req.nouveau \in Mdp
  /\ appels[a].etape \in {"ecrit", "insere", "mdp"} => appels[a].req.nouveau \in Mdp
  /\ appels[a].etape \in {"mdp", "profil"} => appels[a].req.op = "updateUser"
  /\ appels[a].etape = "compare" =>
       1 <= appels[a].lu.id /\ appels[a].lu.id <= identites.utilisateurs

TypeAppels ==
  /\ appels \in [Appels -> [req : Demandes, etape : EtatsAppel, lu : Lignes]]
  /\ \A a \in Appels : TypeAppel(a)

TypeInv == TypeTables /\ TypeJetons /\ TypeProcess /\ TypeAppels

-----------------------------------------------------------------------------
(***************************************************************************)
(* The tables.                                                             *)
(***************************************************************************)

\* The number of a row stays its user's: a row of now is one of before, perhaps
\* with another password or profile, or has a new number.
Fideles ==
  /\ identites.utilisateurs <= identites'.utilisateurs
  /\ \A u \in utilisateurs' :
       \/ \E v \in utilisateurs : v.id = u.id /\ v.nom = u.nom
       \/ identites.utilisateurs < u.id

LEMMA InsereTables ==
  ASSUME TypeTables, NEW n \in Noms, NEW m \in Mdp, NEW p, Insere(n, m, p)
  PROVE  TypeTables' /\ Fideles
<1> DEFINE i == identites.utilisateurs
           l == Utilisateur(NouvelId, n, m, p)
<1>1. i \in Nat /\ identites.profils \in Nat /\ p \in Nat
  BY DEF TypeTables, Insere, CleEtrangere
<1>2. /\ l \in [id : Nat, nom : Noms, mdp : Mdp, profil : Nat]
      /\ l.id = i + 1
  BY <1>1 DEF Utilisateur, NouvelId
<1>3. /\ identites' \in [utilisateurs : Nat, profils : Nat]
      /\ identites'.utilisateurs = i + 1
      /\ identites'.profils = identites.profils
  BY <1>1 DEF Insere, TypeTables
<1>4. utilisateurs' = utilisateurs \cup {l} /\ profils' = profils
  BY DEF Insere
<1>5. \A u \in utilisateurs : u.id \in Nat /\ 1 <= u.id /\ u.id <= i
  BY DEF TypeTables
<1> HIDE DEF l, i
<1>6. \A u \in utilisateurs' : 1 <= u.id /\ u.id <= identites'.utilisateurs
  BY <1>1, <1>2, <1>3, <1>4, <1>5
<1>7. \A u, v \in utilisateurs' : u.id = v.id => u = v
  <2>1. \A u \in utilisateurs : u.id # l.id
    BY <1>1, <1>2, <1>5
  <2> QED
    BY <1>4, <2>1 DEF TypeTables
<1>8. TypeTables'
  BY <1>2, <1>3, <1>4, <1>6, <1>7 DEF TypeTables
<1>9. Fideles
  BY <1>1, <1>2, <1>3, <1>4 DEF Fideles, i
<1> QED
  BY <1>8, <1>9

LEMMA InsereProfilTables ==
  ASSUME TypeTables, InsereProfil
  PROVE  TypeTables' /\ Fideles /\ identites.profils + 1 \in Nat
<1>1. identites.utilisateurs \in Nat /\ identites.profils \in Nat
  BY DEF TypeTables
<1>2. /\ identites' \in [utilisateurs : Nat, profils : Nat]
      /\ identites'.utilisateurs = identites.utilisateurs
      /\ identites'.profils = identites.profils + 1
  BY <1>1 DEF InsereProfil, TypeTables
<1>3. /\ profils' = profils \cup {identites.profils + 1}
      /\ utilisateurs' = utilisateurs
  BY DEF InsereProfil
<1>4. \A p \in profils' : p \in Nat /\ 1 <= p /\ p <= identites'.profils
  BY <1>1, <1>2, <1>3 DEF TypeTables
<1>5. TypeTables'
  BY <1>2, <1>3, <1>4 DEF TypeTables
<1>6. Fideles
  BY <1>1, <1>2, <1>3 DEF Fideles
<1> QED
  BY <1>1, <1>5, <1>6

\* An UPDATE that keeps numbers and names.
LEMMA MajTables ==
  ASSUME TypeTables, UNCHANGED <<profils, identites>>,
         NEW Nouveau,
         \A u \in utilisateurs :
           /\ Nouveau[u] \in [id : Nat, nom : Noms, mdp : Mdp, profil : Nat]
           /\ Nouveau[u].id = u.id /\ Nouveau[u].nom = u.nom,
         utilisateurs' = {Nouveau[u] : u \in utilisateurs}
  PROVE  TypeTables' /\ Fideles
<1>1. \A u \in utilisateurs' : \E v \in utilisateurs :
        u = Nouveau[v] /\ v.id = u.id /\ v.nom = u.nom
  OBVIOUS
<1>2. \A u, v \in utilisateurs' : u.id = v.id => u = v
  BY <1>1 DEF TypeTables
<1>3. TypeTables'
  BY <1>1, <1>2 DEF TypeTables
<1>4. identites.utilisateurs <= identites'.utilisateurs
  BY DEF TypeTables
<1> QED
  BY <1>1, <1>3, <1>4 DEF Fideles

LEMMA MajMdpTables ==
  ASSUME TypeTables, NEW i, NEW m \in Mdp,
         Maj(i, LAMBDA u : [u EXCEPT !.mdp = m])
  PROVE  /\ TypeTables' /\ Fideles
         /\ \A u \in utilisateurs' : \E v \in utilisateurs : v.profil = u.profil
<1> DEFINE N == [u \in utilisateurs |->
                   IF u.id = i THEN [u EXCEPT !.mdp = m] ELSE u]
<1>1. /\ utilisateurs' = {N[u] : u \in utilisateurs}
      /\ UNCHANGED <<profils, identites>>
  BY DEF Maj
<1>2. \A u \in utilisateurs :
        /\ N[u] \in [id : Nat, nom : Noms, mdp : Mdp, profil : Nat]
        /\ N[u].id = u.id /\ N[u].nom = u.nom /\ N[u].profil = u.profil
  BY DEF TypeTables
<1> HIDE DEF N
<1>3. TypeTables' /\ Fideles
  BY <1>1, <1>2, MajTables
<1> QED
  BY <1>1, <1>2, <1>3

LEMMA MajProfilTables ==
  ASSUME TypeTables, NEW i, NEW p \in Nat,
         Maj(i, LAMBDA u : [u EXCEPT !.profil = p])
  PROVE  /\ TypeTables' /\ Fideles
         /\ \A u \in utilisateurs' :
              \/ u \in utilisateurs
              \/ u.profil = p /\ \E v \in utilisateurs : v.id = i
<1> DEFINE N == [u \in utilisateurs |->
                   IF u.id = i THEN [u EXCEPT !.profil = p] ELSE u]
<1>1. /\ utilisateurs' = {N[u] : u \in utilisateurs}
      /\ UNCHANGED <<profils, identites>>
  BY DEF Maj
<1>2. \A u \in utilisateurs :
        /\ N[u] \in [id : Nat, nom : Noms, mdp : Mdp, profil : Nat]
        /\ N[u].id = u.id /\ N[u].nom = u.nom
        /\ N[u] = u \/ (N[u].profil = p /\ u.id = i)
  BY DEF TypeTables
<1> HIDE DEF N
<1>3. TypeTables' /\ Fideles
  BY <1>1, <1>2, MajTables
<1> QED
  BY <1>1, <1>2, <1>3

\* A DELETE.
LEMMA RetraitTables ==
  ASSUME TypeTables, utilisateurs' \in SUBSET utilisateurs,
         profils' \in SUBSET profils, UNCHANGED identites
  PROVE  TypeTables' /\ Fideles
BY DEF TypeTables, Fideles

-----------------------------------------------------------------------------
(***************************************************************************)
(* The calls.                                                              *)
(***************************************************************************)
LEMMA RequeteType ==
  ASSUME TypeTables, TypeJetons, NEW r \in Requetes
  PROVE  /\ r \in Demandes /\ Premier(r) \in Etapes
         /\ Premier(r) # "compare" /\ Premier(r) # "ecrit"
         /\ Premier(r) = "lit" => r.op \in {"login", "changePassword"}
         /\ Premier(r) = "lit" /\ r.op # "login" => r.nouveau \in Mdp
         /\ Premier(r) \in {"insere", "mdp"} => r.nouveau \in Mdp
         /\ Premier(r) \in {"mdp", "profil"} => r.op = "updateUser"
<1>1. \A i \in Ids("utilisateurs") \cup Ids("profils") : i \in Nat
  BY DEF Ids, TypeTables
<1>2. \A j \in jetons : j.id \in Nat
  BY DEF TypeJetons
<1>3. NomAdmin \in Noms
  BY ComptesAssumption
<1>4. CASE r \in Requete("login", {0}, Noms, Mdp, {Aucun}, {0})
  BY <1>4 DEF Requete, Demandes, Operations, Premier, Etapes
<1>5. CASE r \in Requete("changePassword", {j.id : j \in jetons}, {NomAdmin},
                         Mdp, Mdp, {0})
  BY <1>2, <1>3, <1>5 DEF Requete, Demandes, Operations, Premier, Etapes
<1>6. CASE r \in Requete("creerUtilisateur", {0}, Noms, {Aucun}, Mdp,
                         Ids("profils"))
  BY <1>1, <1>6 DEF Requete, Demandes, Operations, Premier, Etapes
<1>7. CASE r \in Requete("updateUser", Ids("utilisateurs"), {NomAdmin}, {Aucun},
                         Mdp \cup {Aucun}, Ids("profils"))
  BY <1>1, <1>3, <1>7 DEF Requete, Demandes, Operations, Premier, Etapes
<1>8. CASE r \in Requete("deleteProfile", {0}, {NomAdmin}, {Aucun}, {Aucun},
                         Ids("profils"))
  BY <1>1, <1>3, <1>8 DEF Requete, Demandes, Operations, Premier, Etapes
<1>9. CASE r \in Requete("deleteUser", Ids("utilisateurs"), {NomAdmin}, {Aucun},
                         {Aucun}, {0})
  BY <1>1, <1>3, <1>9 DEF Requete, Demandes, Operations, Premier, Etapes
<1>10. CASE r \in Requete("createProfile", {0}, {NomAdmin}, {Aucun}, {Aucun}, {0})
  BY <1>3, <1>10 DEF Requete, Demandes, Operations, Premier, Etapes
<1> QED
  BY <1>4, <1>5, <1>6, <1>7, <1>8, <1>9, <1>10 DEF Requetes

LEMMA VideType == /\ Vide \in Demandes
                  /\ Personne \in Lignes
BY ComptesAssumption
   DEF Vide, Demandes, Operations, Personne, Utilisateur, Lignes

\* What Repond leaves of a call, and of the others.
LEMMA RepondAppels ==
  ASSUME TypeAppels, NEW a \in Appels, NEW r \in EtatsAppel, Repond(a, r)
  PROVE  /\ appels' \in [Appels -> [req : Demandes, etape : EtatsAppel, lu : Lignes]]
         /\ \A b \in Appels \ {a} : appels'[b] = appels[b]
         /\ appels'[a].etape = r
         /\ r \notin Reponses =>
              appels'[a].req = appels[a].req /\ appels'[a].lu = appels[a].lu
<1>1. /\ appels \in [Appels -> [req : Demandes, etape : EtatsAppel, lu : Lignes]]
      /\ appels[a] \in [req : Demandes, etape : EtatsAppel, lu : Lignes]
  BY DEF TypeAppels
<1>2. CASE r \in Reponses
  <2>1. appels' = [appels EXCEPT ![a] = Appel(Vide, r)]
    BY <1>2 DEF Repond
  <2>2. /\ Appel(Vide, r) \in [req : Demandes, etape : EtatsAppel, lu : Lignes]
        /\ Appel(Vide, r).etape = r
    BY VideType DEF Appel
  <2> QED
    BY <1>1, <1>2, <2>1, <2>2
<1>3. CASE r \notin Reponses
  <2>1. appels' = [appels EXCEPT ![a] = [@ EXCEPT !.etape = r]]
    BY <1>3 DEF Repond
  <2> HIDE DEF EtatsAppel
  <2> QED
    BY <1>1, <2>1
<1> QED
  BY <1>2, <1>3

LEMMA RepondType ==
  ASSUME TypeAppels, NEW a \in Appels, NEW r \in EtatsAppel, Repond(a, r),
         r \notin {"lit", "compare", "insere", "mdp"},
         r = "ecrit" => appels[a].req.nouveau \in Mdp,
         r = "profil" => appels[a].req.op = "updateUser",
         identites.utilisateurs \in Nat, identites'.utilisateurs \in Nat,
         identites.utilisateurs <= identites'.utilisateurs
  PROVE  TypeAppels'
<1>1. TypeAppel(a)'
  BY RepondAppels DEF TypeAppel, Reponses
<1>2. ASSUME NEW b \in Appels, b # a PROVE TypeAppel(b)'
  <2>1. appels'[b] = appels[b] /\ TypeAppel(b)
    BY <1>2, RepondAppels DEF TypeAppels
  <2>2. appels[b].lu.id \in Nat
    BY <1>2 DEF TypeAppels, Lignes
  <2> QED
    BY <2>1, <2>2 DEF TypeAppel
<1> QED
  BY <1>1, <1>2, RepondAppels DEF TypeAppels

\* The calls keep their types when they stand still.
LEMMA AppelsImmobiles ==
  ASSUME TypeAppels, UNCHANGED appels,
         identites.utilisateurs \in Nat, identites'.utilisateurs \in Nat,
         identites.utilisateurs <= identites'.utilisateurs
  PROVE  TypeAppels'
<1>1. \A a \in Appels : appels[a].lu.id \in Nat /\ TypeAppel(a)
  BY DEF TypeAppels, Lignes
<1>2. \A a \in Appels : TypeAppel(a)'
  BY <1>1 DEF TypeAppel
<1> QED
  BY <1>2 DEF TypeAppels

-----------------------------------------------------------------------------
(***************************************************************************)
(* The steps.                                                              *)
(***************************************************************************)
LEMMA TypeInit == Init => TypeInv
<1> SUFFICES ASSUME Init PROVE TypeInv
  OBVIOUS
<1> USE DEF Init, InitComptes
<1>1. TypeTables /\ TypeJetons
  BY DEF TypeTables, TypeJetons
<1>2. TypeProcess
  BY ComptesAssumption DEF TypeProcess
<1>3. TypeAppels
  <2>1. Appel(Vide, "libre") \in [req : Demandes, etape : EtatsAppel, lu : Lignes]
    BY VideType DEF Appel, EtatsAppel
  <2>2. Appel(Vide, "libre").etape = "libre"
    BY DEF Appel
  <2> QED
    BY <2>1, <2>2 DEF TypeAppels, TypeAppel
<1> QED
  BY <1>1, <1>2, <1>3 DEF TypeInv

\* The numbers a step compares.
LEMMA IdentitesType ==
  ASSUME TypeTables
  PROVE  identites.utilisateurs \in Nat /\ identites.profils \in Nat
BY DEF TypeTables

LEMMA TablesImmobiles ==
  ASSUME TypeTables, UNCHANGED tables
  PROVE  TypeTables' /\ Fideles
BY DEF TypeTables, Fideles, tables

\* What a step of each kind keeps.
Suite == TypeTables' /\ TypeJetons' /\ TypeProcess' /\ TypeAppels' /\ Fideles

LEMMA JetonsImmobiles ==
  ASSUME TypeTables, TypeTables', TypeJetons, Fideles,
         jetons' \in SUBSET jetons
  PROVE  TypeJetons'
<1>1. /\ identites.utilisateurs \in Nat /\ identites'.utilisateurs \in Nat
      /\ identites.utilisateurs <= identites'.utilisateurs
  BY DEF TypeTables, Fideles
<1>2. \A j \in jetons : j.id \in Nat
  BY DEF TypeJetons
<1> QED
  BY <1>1, <1>2 DEF TypeJetons

LEMMA AmorceSuite == ASSUME TypeInv, Amorce PROVE Suite
<1> USE DEF TypeInv
<1>1. TypeTables' /\ Fideles
  <2>1. CASE AmorceProfil
    BY <2>1, InsereProfilTables DEF AmorceProfil
  <2>2. CASE AmorceUtilisateur
    BY <2>2, InsereTables, ComptesAssumption DEF AmorceUtilisateur
  <2>3. CASE AmorceCompte \/ AmorceEchec
    BY <2>3, TablesImmobiles DEF AmorceCompte, AmorceEchec
  <2> QED
    BY <2>1, <2>2, <2>3 DEF Amorce
<1>2. jetons' = jetons /\ appels' = appels
  BY DEF Amorce, AmorceCompte, AmorceProfil, AmorceUtilisateur, AmorceEchec
<1>3. TypeJetons'
  BY <1>1, <1>2, JetonsImmobiles
<1>4. TypeProcess'
  <2>1. identites.profils + 1 \in Nat
    BY IdentitesType
  <2> QED
    BY <2>1 DEF Amorce, AmorceCompte, AmorceProfil, AmorceUtilisateur,
         AmorceEchec, TypeProcess
<1>5. TypeAppels'
  BY <1>1, <1>2, AppelsImmobiles DEF TypeTables, Fideles
<1> QED
  BY <1>1, <1>3, <1>4, <1>5 DEF Suite

LEMMA RecoitSuite == ASSUME TypeInv, NEW a \in Appels, Recoit(a) PROVE Suite
<1> USE DEF TypeInv
<1>1. TypeTables' /\ Fideles
  BY TablesImmobiles DEF Recoit
<1>2. TypeJetons' /\ TypeProcess'
  BY <1>1, JetonsImmobiles DEF Recoit, process, TypeProcess
<1>3. PICK r \in Requetes : appels' = [appels EXCEPT ![a] = Appel(r, Premier(r))]
  BY DEF Recoit
<1> DEFINE p == Premier(r)
           q == Appel(r, p)
<1>4. /\ q \in [req : Demandes, etape : EtatsAppel, lu : Lignes]
      /\ q.req = r /\ q.etape = p
  BY RequeteType, VideType DEF Appel, EtatsAppel
<1>5. /\ p \in Etapes /\ p # "compare" /\ p # "ecrit"
      /\ p = "lit" => r.op \in {"login", "changePassword"}
      /\ p = "lit" /\ r.op # "login" => r.nouveau \in Mdp
      /\ p \in {"insere", "mdp"} => r.nouveau \in Mdp
      /\ p \in {"mdp", "profil"} => r.op = "updateUser"
  BY RequeteType
<1> HIDE DEF q, p
<1>6. appels' = [appels EXCEPT ![a] = q]
  BY <1>3 DEF q, p
<1>7. appels' \in [Appels -> [req : Demandes, etape : EtatsAppel, lu : Lignes]]
  BY <1>4, <1>6 DEF TypeAppels
<1>8. appels'[a] = q /\ \A b \in Appels \ {a} : appels'[b] = appels[b]
  BY <1>6 DEF TypeAppels
<1>9. identites' = identites
  BY DEF Recoit, tables
<1>10. TypeAppels'
  BY <1>4, <1>5, <1>7, <1>8, <1>9 DEF TypeAppels, TypeAppel
<1> QED
  BY <1>1, <1>2, <1>10 DEF Suite

\* A step of a call that only answers or goes on, with the tables as TypeTables
\* wants them.
LEMMA RepondSuite ==
  ASSUME TypeInv, NEW a \in Appels,
         NEW r \in Reponses \cup {"ecrit", "retire", "profil"}, Repond(a, r),
         r = "ecrit" => appels[a].req.nouveau \in Mdp,
         r = "profil" => appels[a].req.op = "updateUser",
         TypeTables', Fideles, jetons' = jetons, UNCHANGED process
  PROVE  Suite
<1> USE DEF TypeInv
<1>1. TypeJetons' /\ TypeProcess'
  BY JetonsImmobiles DEF process, TypeProcess
<1>2. r \in EtatsAppel /\ r \notin {"lit", "compare", "insere", "mdp"}
  BY DEF EtatsAppel, Etapes, Reponses
<1>3. /\ identites.utilisateurs \in Nat /\ identites'.utilisateurs \in Nat
      /\ identites.utilisateurs <= identites'.utilisateurs
  BY DEF TypeTables, Fideles
<1>4. TypeAppels'
  BY <1>2, <1>3, RepondType
<1> QED
  BY <1>1, <1>4 DEF Suite

LEMMA LitSuite == ASSUME TypeInv, NEW a \in Appels, Lit(a) PROVE Suite
<1> USE DEF TypeInv
<1>1. TypeTables' /\ Fideles /\ identites' = identites
  BY TablesImmobiles DEF Lit, tables
<1>2. jetons' = jetons /\ UNCHANGED process
  BY DEF Lit
<1>3. CASE \E r \in {"401", "404"} : Repond(a, r)
  BY <1>1, <1>2, <1>3, RepondSuite DEF Reponses
<1>4. ASSUME NEW u \in Trouves(appels[a].req),
             appels' = [appels EXCEPT ![a].etape = "compare", ![a].lu = u]
      PROVE  Suite
  <2>1. u \in utilisateurs
    BY DEF Trouves
  <2>2. /\ u \in Lignes /\ 1 <= u.id /\ u.id <= identites.utilisateurs
    BY <2>1 DEF TypeTables, Lignes
  <2>3. /\ appels \in [Appels -> [req : Demandes, etape : EtatsAppel, lu : Lignes]]
        /\ appels[a] \in [req : Demandes, etape : EtatsAppel, lu : Lignes]
        /\ \A b \in Appels : TypeAppel(b)
    BY DEF TypeAppels
  <2>4. "compare" \in EtatsAppel
    BY DEF EtatsAppel, Etapes
  <2> DEFINE q == [appels[a] EXCEPT !.etape = "compare", !.lu = u]
  <2>5. /\ q \in [req : Demandes, etape : EtatsAppel, lu : Lignes]
        /\ q.req = appels[a].req /\ q.etape = "compare" /\ q.lu = u
    BY <2>2, <2>3, <2>4
  <2>6. appels' = [appels EXCEPT ![a] = q]
    BY <1>4, <2>3
  <2> HIDE DEF q
  <2>7. appels' \in [Appels -> [req : Demandes, etape : EtatsAppel, lu : Lignes]]
    BY <2>3, <2>5, <2>6
  <2>8. appels'[a] = q /\ \A b \in Appels \ {a} : appels'[b] = appels[b]
    BY <2>3, <2>6
  <2>9. appels[a].etape = "lit"
    BY DEF Lit, A
  <2>10. TypeAppel(a)'
    BY <1>1, <2>2, <2>3, <2>5, <2>8, <2>9 DEF TypeAppel
  <2>11. TypeAppels'
    BY <1>1, <2>3, <2>7, <2>8, <2>10 DEF TypeAppels, TypeAppel
  <2> QED
    BY <1>1, <1>2, <2>11, JetonsImmobiles DEF Suite, process, TypeProcess
<1> QED
  BY <1>3, <1>4 DEF Lit

LEMMA CompareSuite == ASSUME TypeInv, NEW a \in Appels, Compare(a) PROVE Suite
<1> USE DEF TypeInv
<1>1. TypeTables' /\ Fideles /\ identites' = identites
  BY TablesImmobiles DEF Compare, tables
<1>2. UNCHANGED process /\ appels[a].etape = "compare"
  BY DEF Compare, A
<1>3. TypeAppel(a)
  BY DEF TypeAppels
<1>4. CASE Repond(a, "401") /\ UNCHANGED jetons
  BY <1>1, <1>2, <1>4, RepondSuite DEF Reponses
<1>5. CASE appels[a].req.op # "login" /\ Repond(a, "ecrit") /\ UNCHANGED jetons
  BY <1>1, <1>2, <1>3, <1>5, RepondSuite DEF TypeAppel
<1>6. ASSUME jetons' = jetons \cup
                        {[id |-> appels[a].lu.id, nom |-> appels[a].req.nom]},
             Repond(a, "200")
      PROVE  Suite
  <2> DEFINE j == [id |-> appels[a].lu.id, nom |-> appels[a].req.nom]
  <2>1. j \in [id : Nat, nom : Noms]
    BY DEF TypeAppels, Lignes, Demandes
  <2>2. 1 <= j.id /\ j.id <= identites.utilisateurs
    BY <1>2, <1>3 DEF TypeAppel
  <2>3. TypeJetons'
    BY <1>1, <1>6, <2>1, <2>2 DEF TypeJetons
  <2>4. TypeAppels'
    BY <1>1, <1>6, RepondType, IdentitesType
       DEF EtatsAppel, Reponses, Fideles
  <2>5. TypeProcess'
    BY <1>2 DEF process, TypeProcess
  <2> QED
    BY <1>1, <2>3, <2>4, <2>5 DEF Suite
<1> QED
  BY <1>4, <1>5, <1>6 DEF Compare

LEMMA SertSuite == ASSUME TypeInv, NEW a \in Appels, Sert(a) PROVE Suite
<1> USE DEF TypeInv
<1>0. /\ appels[a] \in [req : Demandes, etape : EtatsAppel, lu : Lignes]
      /\ TypeAppel(a)
  BY DEF TypeAppels
<1>1. CASE Ecrit(a) \/ MajMdp(a)
  <2>1. appels[a].req.nouveau \in Mdp
    BY <1>0, <1>1 DEF Ecrit, MajMdp, A, TypeAppel
  <2>2. Maj(appels[a].req.id, LAMBDA u : [u EXCEPT !.mdp = appels[a].req.nouveau])
    BY <1>1 DEF Ecrit, MajMdp
  <2>3. TypeTables' /\ Fideles
    BY <2>1, <2>2, MajMdpTables
  <2>4. MajMdp(a) => appels[a].req.op = "updateUser"
    BY <1>0 DEF MajMdp, A, TypeAppel
  <2> QED
    BY <1>1, <2>3, <2>4, RepondSuite DEF Ecrit, MajMdp, Accuse, Reponses
<1>2. CASE CreeUtilisateur(a)
  <2>1. appels[a].req.nouveau \in Mdp /\ appels[a].req.nom \in Noms
    BY <1>0, <1>2 DEF CreeUtilisateur, A, TypeAppel, Demandes
  <2>2. TypeTables' /\ Fideles
    BY <1>2, <2>1, InsereTables DEF CreeUtilisateur
  <2> QED
    BY <1>2, <2>2, RepondSuite DEF CreeUtilisateur, Accuse, Reponses
<1>3. CASE MajProfil(a)
  <2>1. appels[a].req.profil \in Nat
    BY <1>0 DEF Demandes
  <2>2. Maj(appels[a].req.id, LAMBDA u : [u EXCEPT !.profil = appels[a].req.profil])
    BY <1>3 DEF MajProfil
  <2>3. TypeTables' /\ Fideles
    BY <2>1, <2>2, MajProfilTables
  <2> QED
    BY <1>3, <2>3, RepondSuite DEF MajProfil, Accuse, Reponses
<1>4. CASE CompteProfil(a) \/ Echec(a)
  <2>1. TypeTables' /\ Fideles
    BY <1>4, TablesImmobiles DEF CompteProfil, Echec
  <2> QED
    BY <1>4, <2>1, RepondSuite DEF CompteProfil, Echec, Reponses
<1>5. CASE RetireProfil(a)
  <2>1. TypeTables' /\ Fideles
    BY <1>5, RetraitTables DEF RetireProfil
  <2> QED
    BY <1>5, <2>1, RepondSuite DEF RetireProfil, Accuse, Reponses
<1>6. CASE SupprimeUtilisateur(a)
  <2>1. TypeTables' /\ Fideles
    BY <1>6, RetraitTables DEF SupprimeUtilisateur
  <2> QED
    BY <1>6, <2>1, RepondSuite DEF SupprimeUtilisateur, Accuse, Reponses
<1>7. CASE CreeProfil(a)
  <2>1. TypeTables' /\ Fideles
    BY <1>7, InsereProfilTables DEF CreeProfil
  <2> QED
    BY <1>7, <2>1, RepondSuite DEF CreeProfil, Accuse, Reponses
<1> QED
  BY <1>1, <1>2, <1>3, <1>4, <1>5, <1>6, <1>7, LitSuite, CompareSuite DEF Sert

LEMMA ResteSuite ==
  ASSUME TypeInv, Expire \/ Redemarre \/ Arret \/ UNCHANGED varsComptes
  PROVE  Suite
<1> USE DEF TypeInv
<1>1. TypeTables' /\ Fideles /\ identites' = identites /\ jetons' \in SUBSET jetons
  BY TablesImmobiles DEF Expire, Redemarre, Arret, varsComptes, tables
<1>2. TypeJetons'
  BY <1>1, JetonsImmobiles
<1>3. TypeProcess'
  <2>1. CASE Redemarre
    BY <2>1, ComptesAssumption DEF Redemarre, TypeProcess
  <2> QED
    BY <2>1 DEF Expire, Arret, varsComptes, process, TypeProcess
<1>4. TypeAppels'
  <2>1. CASE Arret
    <3>1. \A a \in Appels : appels'[a] \in {appels[a], Appel(Vide, "perdu")}
      BY <2>1 DEF Arret
    <3>2. /\ Appel(Vide, "perdu") \in [req : Demandes, etape : EtatsAppel, lu : Lignes]
          /\ Appel(Vide, "perdu").etape = "perdu"
      BY VideType DEF Appel, EtatsAppel
    <3>3. appels' \in [Appels -> [req : Demandes, etape : EtatsAppel, lu : Lignes]]
      <4>1. appels' = [a \in Appels |-> IF EnCours(a) THEN Appel(Vide, "perdu")
                                        ELSE appels[a]]
        BY <2>1 DEF Arret
      <4> QED
        BY <3>2, <4>1 DEF TypeAppels
    <3>4. ASSUME NEW a \in Appels PROVE TypeAppel(a)'
      <4>1. TypeAppel(a)
        BY DEF TypeAppels
      <4> QED
        BY <1>1, <3>1, <3>2, <4>1 DEF TypeAppel
    <3> QED
      BY <3>3, <3>4 DEF TypeAppels
  <2>2. CASE UNCHANGED appels
    BY <1>1, <2>2, IdentitesType, AppelsImmobiles DEF Fideles
  <2> QED
    BY <2>1, <2>2 DEF Expire, Redemarre, varsComptes
<1> QED
  BY <1>1, <1>2, <1>3, <1>4 DEF Suite

LEMMA ComptesSuite == ASSUME TypeInv, [Next]_vars PROVE Suite
BY AmorceSuite, RecoitSuite, SertSuite, ResteSuite
   DEF Next, Compte, Detenteur, Stoppe, vars

LEMMA TypeSuivant == TypeInv /\ [Next]_vars => TypeInv'
BY ComptesSuite DEF Suite, TypeInv

-----------------------------------------------------------------------------
(***************************************************************************)
(* The foreign key.                                                        *)
(***************************************************************************)
LEMMA OrphelinSuivant ==
  TypeInv /\ AucunOrphelin /\ [Next]_vars => AucunOrphelin'
<1> SUFFICES ASSUME TypeInv, AucunOrphelin, [Next]_vars PROVE AucunOrphelin'
  OBVIOUS
<1> USE DEF TypeInv, AucunOrphelin
<1>1. ASSUME UNCHANGED tables PROVE AucunOrphelin'
  BY <1>1 DEF tables
<1>2. ASSUME NEW n, NEW m, NEW p, Insere(n, m, p) PROVE AucunOrphelin'
  BY <1>2 DEF Insere, CleEtrangere, Utilisateur
<1>3. ASSUME InsereProfil PROVE AucunOrphelin'
  BY <1>3 DEF InsereProfil
<1>4. CASE Amorce
  BY <1>1, <1>2, <1>3, <1>4
     DEF Amorce, AmorceCompte, AmorceProfil, AmorceUtilisateur, AmorceEchec
<1>5. ASSUME NEW a \in Appels, Sert(a) PROVE AucunOrphelin'
  <2>0. /\ appels[a] \in [req : Demandes, etape : EtatsAppel, lu : Lignes]
        /\ TypeAppel(a)
    BY DEF TypeAppels
  <2>1. CASE Ecrit(a) \/ MajMdp(a)
    <3>1. appels[a].req.nouveau \in Mdp
      BY <2>0, <2>1 DEF Ecrit, MajMdp, A, TypeAppel
    <3>2. /\ Maj(appels[a].req.id,
                 LAMBDA u : [u EXCEPT !.mdp = appels[a].req.nouveau])
      BY <2>1 DEF Ecrit, MajMdp
    <3>3. profils' = profils
      BY <3>2 DEF Maj
    <3> QED
      BY <3>1, <3>2, <3>3, MajMdpTables
  <2>2. CASE MajProfil(a)
    <3> DEFINE i == appels[a].req.id
               p == appels[a].req.profil
    <3>1. p \in Nat
      BY <2>0 DEF Demandes
    <3>2. Maj(i, LAMBDA u : [u EXCEPT !.profil = p])
      BY <2>2 DEF MajProfil
    <3>3. \A u \in utilisateurs' :
            u \in utilisateurs \/ (u.profil = p /\ \E v \in utilisateurs : v.id = i)
      BY <3>1, <3>2, MajProfilTables
    <3>4. (\E v \in utilisateurs : v.id = i) => p \in profils
      <4>1. appels[a].req.op # "login"
            => Trouves(appels[a].req) = {v \in utilisateurs : v.id = i}
        BY DEF Trouves
      <4>2. appels[a].req.op # "login"
        BY <2>0, <2>2 DEF MajProfil, A, TypeAppel
      <4> QED
        BY <2>2, <4>1, <4>2 DEF MajProfil, CleEtrangere
    <3>5. profils' = profils
      BY <3>2 DEF Maj
    <3> QED
      BY <3>3, <3>4, <3>5
  <2>3. CASE RetireProfil(a)
    BY <2>3 DEF RetireProfil, EncoreCite, Titulaires
  <2>4. CASE SupprimeUtilisateur(a)
    BY <2>4 DEF SupprimeUtilisateur
  <2> QED
    BY <1>1, <1>2, <1>3, <1>5, <2>1, <2>2, <2>3, <2>4
       DEF Sert, Lit, Compare, CreeUtilisateur, CompteProfil, CreeProfil, Echec
<1> QED
  BY <1>1, <1>4, <1>5
     DEF Next, Compte, Detenteur, Stoppe, vars, varsComptes, Recoit, Expire,
         Redemarre, Arret

\* No user is without a profile, however calls and starts interleave.
THEOREM AucunOrphelinCorrect == Spec => []AucunOrphelin
<1>1. Init => AucunOrphelin
  BY DEF Init, InitComptes, AucunOrphelin
<1> QED
  BY <1>1, TypeInit, TypeSuivant, OrphelinSuivant, PTL DEF Spec

-----------------------------------------------------------------------------
(***************************************************************************)
(* Which steps lead a call to the two awaits that the properties watch.    *)
(***************************************************************************)
LEMMA AutreAppel ==
  ASSUME TypeInv, NEW b \in Appels, Recoit(b) \/ Sert(b),
         NEW a \in Appels, a # b
  PROVE  appels'[a] = appels[a]
<1> USE DEF TypeInv
<1>1. ASSUME NEW r \in EtatsAppel, Repond(b, r) PROVE appels'[a] = appels[a]
  BY <1>1, RepondAppels
<1>2. CASE Recoit(b)
  BY <1>2 DEF Recoit, TypeAppels
<1>3. CASE Lit(b)
  BY <1>1, <1>3 DEF Lit, TypeAppels, EtatsAppel, Reponses
<1> QED
  BY <1>1, <1>2, <1>3
     DEF Sert, Compare, Ecrit, CreeUtilisateur, MajMdp, MajProfil,
         CompteProfil, RetireProfil, SupprimeUtilisateur, CreeProfil, Echec,
         Accuse, EtatsAppel, Etapes, Reponses

LEMMA VersCompare ==
  ASSUME TypeInv, [Next]_vars, NEW a \in Appels,
         appels'[a].etape \in {"compare", "ecrit"}
  PROVE  \/ appels'[a] = appels[a]
         \/ Lit(a) /\ Suit
         \/ Compare(a) /\ Suit /\ appels'[a].etape = "ecrit"
<1> USE DEF TypeInv
<1>1. ASSUME NEW r \in EtatsAppel, Repond(a, r) PROVE appels'[a].etape = r
  BY <1>1, RepondAppels
<1>2. CASE Recoit(a)
  <2>1. PICK r \in Requetes :
          appels' = [appels EXCEPT ![a] = Appel(r, Premier(r))]
    BY <1>2 DEF Recoit
  <2>2. appels'[a].etape = Premier(r)
    BY <2>1 DEF TypeAppels, Appel
  <2> QED
    BY <2>2, RequeteType
<1>3. ASSUME Sert(a), ~ Lit(a) PROVE Compare(a) /\ appels'[a].etape = "ecrit"
  BY <1>1, <1>3
     DEF Sert, Compare, Ecrit, CreeUtilisateur, MajMdp, MajProfil,
         CompteProfil, RetireProfil, SupprimeUtilisateur, CreeProfil, Echec,
         Accuse, EtatsAppel, Etapes, Reponses
<1>4. ASSUME Arret PROVE appels'[a] = appels[a]
  BY <1>4 DEF Arret, Appel
<1> QED
  BY <1>2, <1>3, <1>4, AutreAppel
     DEF Next, Compte, Detenteur, Stoppe, vars, varsComptes, Amorce,
         AmorceCompte, AmorceProfil, AmorceUtilisateur, AmorceEchec, Expire,
         Redemarre

\* The row a SELECT returns.
LEMMA LitLigne ==
  ASSUME TypeInv, NEW a \in Appels, Lit(a), appels'[a].etape \in {"compare", "ecrit"}
  PROVE  /\ appels'[a].etape = "compare" /\ appels'[a].req = appels[a].req
         /\ appels'[a].lu \in Trouves(appels[a].req)
         /\ UNCHANGED utilisateurs /\ A(a, "lit")
<1> USE DEF TypeInv
<1>1. ASSUME NEW r \in {"401", "404"}, Repond(a, r) PROVE FALSE
  BY <1>1, RepondAppels DEF EtatsAppel, Reponses
<1>2. PICK u \in Trouves(appels[a].req) :
        appels' = [appels EXCEPT ![a].etape = "compare", ![a].lu = u]
  BY <1>1 DEF Lit
<1>3. appels[a] \in [req : Demandes, etape : EtatsAppel, lu : Lignes]
  BY DEF TypeAppels
<1>4. appels'[a] = [appels[a] EXCEPT !.etape = "compare", !.lu = u]
  BY <1>2 DEF TypeAppels
<1>5. /\ appels'[a].etape = "compare" /\ appels'[a].lu = u
      /\ appels'[a].req = appels[a].req
  BY <1>3, <1>4
<1>6. UNCHANGED utilisateurs /\ A(a, "lit")
  BY DEF Lit, tables
<1> QED
  BY <1>5, <1>6

LEMMA CompareEcrit ==
  ASSUME TypeInv, NEW a \in Appels, Compare(a), appels'[a].etape = "ecrit"
  PROVE  /\ appels[a].req.op # "login" /\ Convient(a) /\ A(a, "compare")
         /\ appels'[a].req = appels[a].req /\ UNCHANGED utilisateurs
<1>1. ASSUME NEW r \in {"401", "200"}, Repond(a, r) PROVE FALSE
  BY <1>1, RepondAppels DEF EtatsAppel, Reponses, TypeInv
<1>2. appels[a].req.op # "login" /\ Convient(a) /\ Repond(a, "ecrit")
  BY <1>1 DEF Compare
<1>3. "ecrit" \in EtatsAppel /\ "ecrit" \notin Reponses
  BY DEF EtatsAppel, Etapes, Reponses
<1>4. appels'[a].req = appels[a].req
  BY <1>2, <1>3, RepondAppels DEF TypeInv
<1> QED
  BY <1>2, <1>4 DEF Compare, tables

-----------------------------------------------------------------------------
(***************************************************************************)
(* Tokens.                                                                 *)
(***************************************************************************)

\* A login that compares holds a row of the name it was asked for, whose number
\* nobody else has.
LuPropre ==
  \A a \in Appels :
    appels[a].etape = "compare" /\ appels[a].req.op = "login" =>
      /\ appels[a].lu.nom = appels[a].req.nom
      /\ \A u \in utilisateurs : u.id = appels[a].lu.id => u.nom = appels[a].lu.nom

LEMMA NumeroFidele ==
  ASSUME TypeTables, TypeTables', Fideles, NEW i \in Nat,
         i <= identites.utilisateurs, NEW n,
         \A u \in utilisateurs : u.id = i => u.nom = n
  PROVE  \A u \in utilisateurs' : u.id = i => u.nom = n
<1> SUFFICES ASSUME NEW u \in utilisateurs', u.id = i PROVE u.nom = n
  OBVIOUS
<1>1. identites.utilisateurs \in Nat
  BY DEF TypeTables
<1>2. PICK v \in utilisateurs : v.id = u.id /\ v.nom = u.nom
  BY <1>1 DEF Fideles
<1> QED
  BY <1>2

LEMMA LuPropreSuivant == TypeInv /\ LuPropre /\ [Next]_vars => LuPropre'
<1> SUFFICES ASSUME TypeInv, LuPropre, [Next]_vars, NEW a \in Appels,
                    appels'[a].etape = "compare", appels'[a].req.op = "login"
             PROVE  /\ appels'[a].lu.nom = appels'[a].req.nom
                    /\ \A u \in utilisateurs' :
                         u.id = appels'[a].lu.id => u.nom = appels'[a].lu.nom
  BY DEF LuPropre
<1>1. TypeTables' /\ Fideles
  BY ComptesSuite DEF Suite
<1>2. CASE appels'[a] = appels[a]
  <2>1. /\ appels[a].lu.id \in Nat
        /\ appels[a].lu.id <= identites.utilisateurs
    BY <1>2 DEF TypeInv, TypeAppels, TypeAppel, Lignes
  <2> QED
    BY <1>1, <1>2, <2>1, NumeroFidele DEF LuPropre, TypeInv
<1>3. CASE Lit(a)
  <2>1. /\ appels'[a].lu \in utilisateurs
        /\ appels'[a].lu.nom = appels'[a].req.nom
    BY <1>3, LitLigne DEF Trouves
  <2> QED
    BY <1>3, <2>1, LitLigne DEF TypeInv, TypeTables
<1> QED
  BY <1>2, <1>3, VersCompare

LEMMA JetonPropreSuivant ==
  TypeInv /\ LuPropre /\ JetonPropre /\ [Next]_vars => JetonPropre'
<1> SUFFICES ASSUME TypeInv, LuPropre, JetonPropre, [Next]_vars,
                    NEW j \in jetons', NEW u \in utilisateurs', u.id = j.id
             PROVE  u.nom = j.nom
  BY DEF JetonPropre
<1>1. TypeTables' /\ Fideles
  BY ComptesSuite DEF Suite
<1>2. CASE j \in jetons
  <2>1. j.id \in Nat /\ j.id <= identites.utilisateurs
    BY <1>2 DEF TypeInv, TypeJetons
  <2>2. \A v \in utilisateurs : v.id = j.id => v.nom = j.nom
    BY <1>2 DEF JetonPropre
  <2> QED
    BY <1>1, <2>1, <2>2, NumeroFidele DEF TypeInv
<1>3. CASE j \notin jetons
  <2>1. PICK a \in Appels : Compare(a)
    BY <1>3 DEF Next, Compte, Detenteur, Stoppe, vars, varsComptes, Amorce,
         AmorceCompte, AmorceProfil, AmorceUtilisateur, AmorceEchec, Expire,
         Redemarre, Arret, Recoit, Sert, Lit, Ecrit, CreeUtilisateur, MajMdp,
         MajProfil, CompteProfil, RetireProfil, SupprimeUtilisateur,
         CreeProfil, Echec
  <2>2. /\ appels[a].etape = "compare" /\ appels[a].req.op = "login"
        /\ j = [id |-> appels[a].lu.id, nom |-> appels[a].req.nom]
        /\ utilisateurs' = utilisateurs
    BY <1>3, <2>1 DEF Compare, A, tables
  <2> QED
    BY <2>2 DEF LuPropre
<1> QED
  BY <1>2, <1>3

\* A token never opens the account of another user, whoever was deleted and
\* created since it was issued.
THEOREM JetonPropreCorrect == Spec => []JetonPropre
<1>1. Init => LuPropre /\ JetonPropre
  BY DEF Init, InitComptes, LuPropre, JetonPropre, Appel
<1> QED
  BY <1>1, TypeInit, TypeSuivant, LuPropreSuivant, JetonPropreSuivant, PTL
     DEF Spec

-----------------------------------------------------------------------------
(***************************************************************************)
(* Passwords.                                                              *)
(***************************************************************************)

\* A login compares with a row that was in the table while it was in progress.
LuVu ==
  \A a \in Appels :
    appels[a].etape = "compare" =>
      /\ appels[a].lu \in vus[a]
      /\ appels[a].req.op = "login" => appels[a].lu.nom = appels[a].req.nom

LEMMA VusCroit ==
  ASSUME TypeInv, [Next]_vars, NEW a \in Appels, appels'[a].etape \in Etapes
  PROVE  vus[a] \subseteq vus'[a]
BY DEF Next, Compte, Detenteur, Stoppe, vars, varsComptes, Suit

LEMMA LuVuSuivant == TypeInv /\ LuVu /\ [Next]_vars => LuVu'
<1> SUFFICES ASSUME TypeInv, LuVu, [Next]_vars, NEW a \in Appels,
                    appels'[a].etape = "compare"
             PROVE  /\ appels'[a].lu \in vus'[a]
                    /\ appels'[a].req.op = "login" =>
                         appels'[a].lu.nom = appels'[a].req.nom
  BY DEF LuVu
<1>0. appels'[a].etape \in Etapes
  BY DEF Etapes
<1>1. CASE appels'[a] = appels[a]
  BY <1>0, <1>1, VusCroit DEF LuVu
<1>2. CASE Lit(a) /\ Suit
  <2>1. utilisateurs \subseteq vus'[a]
    BY <1>0, <1>2 DEF Suit
  <2> QED
    BY <1>2, <2>1, LitLigne DEF Trouves
<1> QED
  BY <1>1, <1>2, VersCompare

LEMMA JetonMeriteSuivant ==
  TypeInv /\ LuVu /\ [Next]_vars =>
    \A a \in Appels :
      A(a, "compare") /\ appels[a].req.op = "login" /\ appels'[a].etape = "200" =>
        \E u \in vus[a] : u.nom = appels[a].req.nom /\ u.mdp = appels[a].req.mdp
<1> SUFFICES ASSUME TypeInv, LuVu, [Next]_vars, NEW a \in Appels,
                    A(a, "compare"), appels[a].req.op = "login",
                    appels'[a].etape = "200"
             PROVE  \E u \in vus[a] :
                      u.nom = appels[a].req.nom /\ u.mdp = appels[a].req.mdp
  OBVIOUS
<1>1. ASSUME NEW r \in {"401", "ecrit", "500"}, Repond(a, r) PROVE FALSE
  BY <1>1, RepondAppels DEF EtatsAppel, Reponses, Etapes, TypeInv
<1>2. Compare(a)
  <2>1. \E b \in Appels : Sert(b)
    BY DEF Next, Compte, Detenteur, Stoppe, vars, varsComptes, Amorce,
         AmorceCompte, AmorceProfil, AmorceUtilisateur, AmorceEchec, Expire,
         Redemarre, Arret, Recoit, A, Appel, TypeInv, TypeAppels
  <2>2. Sert(a)
    BY <2>1, AutreAppel DEF A
  <2> QED
    BY <1>1, <2>2 DEF Sert, A, Lit, Ecrit, CreeUtilisateur, MajMdp, MajProfil,
         CompteProfil, RetireProfil, SupprimeUtilisateur, CreeProfil, Echec
<1>3. Convient(a)
  BY <1>1, <1>2 DEF Compare
<1> QED
  BY <1>3 DEF LuVu, Convient, A

\* No login is granted for a password that nobody of this name had meanwhile.
THEOREM JetonMeriteCorrect == Spec => JetonMerite
<1>1. Init => LuVu
  BY DEF Init, InitComptes, LuVu, Appel
<1>2. TypeInv /\ LuVu /\ [Next]_vars =>
        [\A a \in Appels :
           A(a, "compare") /\ appels[a].req.op = "login"
             /\ appels'[a].etape = "200" =>
             \E u \in vus[a] : u.nom = appels[a].req.nom
                                 /\ u.mdp = appels[a].req.mdp]_varsComptes
  BY JetonMeriteSuivant
<1> QED
  BY <1>1, <1>2, TypeInit, TypeSuivant, LuVuSuivant, PTL DEF Spec, JetonMerite

\* While nobody writes its user, what a changePassword has read stays true.
Suivi ==
  \A a \in Appels : ~ touche[a] =>
    /\ appels[a].etape = "compare" /\ appels[a].req.op # "login" =>
         \A u \in Cible(a, utilisateurs) : u.mdp = appels[a].lu.mdp
    /\ appels[a].etape = "ecrit" =>
         \A u \in Cible(a, utilisateurs) : u.mdp = appels[a].req.mdp

\* A call that stands at its await is not touched as long as touche says so.
LEMMA CibleIntacte ==
  ASSUME TypeInv, [Next]_vars, NEW a \in Appels,
         appels'[a].etape \in {"compare", "ecrit"}, ~ A(a, "lit"),
         ~ touche'[a]
  PROVE  /\ ~ touche[a]
         /\ Cible(a, utilisateurs) = {u \in utilisateurs' : u.id = appels[a].req.id}
BY DEF Next, Compte, Detenteur, Stoppe, vars, varsComptes, Suit, Cible, tables

LEMMA SuiviSuivant == TypeInv /\ Suivi /\ [Next]_vars => Suivi'
<1> SUFFICES ASSUME TypeInv, Suivi, [Next]_vars, NEW a \in Appels, ~ touche'[a],
                    appels'[a].etape \in {"compare", "ecrit"},
                    NEW u \in utilisateurs', u.id = appels'[a].req.id
             PROVE  /\ appels'[a].etape = "compare" /\ appels'[a].req.op # "login"
                         => u.mdp = appels'[a].lu.mdp
                    /\ appels'[a].etape = "ecrit" => u.mdp = appels'[a].req.mdp
  BY DEF Suivi, Cible
<1>1. CASE appels'[a] = appels[a]
  <2>1. ~ A(a, "lit")
    BY <1>1 DEF A
  <2>2. ~ touche[a] /\ u \in Cible(a, utilisateurs)
    BY <1>1, <2>1, CibleIntacte
  <2> QED
    BY <1>1, <2>2 DEF Suivi
<1>2. CASE Lit(a)
  <2>1. /\ appels'[a].etape = "compare" /\ appels'[a].req = appels[a].req
        /\ appels'[a].lu \in Trouves(appels[a].req) /\ u \in utilisateurs
    BY <1>2, LitLigne
  <2>2. ASSUME appels[a].req.op # "login" PROVE u = appels'[a].lu
    BY <2>1, <2>2 DEF Trouves, TypeInv, TypeTables
  <2> QED
    BY <2>1, <2>2
<1>3. CASE Compare(a) /\ appels'[a].etape = "ecrit"
  <2>1. /\ appels[a].req.op # "login" /\ Convient(a) /\ A(a, "compare")
        /\ appels'[a].req = appels[a].req
    BY <1>3, CompareEcrit
  <2>2. ~ A(a, "lit")
    BY <2>1 DEF A
  <2>3. ~ touche[a] /\ u \in Cible(a, utilisateurs)
    BY <2>1, <2>2, CibleIntacte
  <2>4. u.mdp = appels[a].lu.mdp
    BY <2>1, <2>3 DEF Suivi, A
  <2> QED
    BY <1>3, <2>1, <2>4 DEF Convient
<1> QED
  BY <1>1, <1>2, <1>3, VersCompare

\* changePassword overwrites no password but the one it checked, as long as
\* no other call writes its user.
THEOREM AncienMotDePasseCorrect == Spec => []AncienMotDePasse
<1>1. Init => Suivi
  BY DEF Init, InitComptes, Suivi, Appel
<1>2. Suivi => AncienMotDePasse
  BY DEF Suivi, AncienMotDePasse, A
<1> QED
  BY <1>1, <1>2, TypeInit, TypeSuivant, SuiviSuivant, PTL DEF Spec

-----------------------------------------------------------------------------
(***************************************************************************)
(* The first administrator.                                                *)
(***************************************************************************)

\* A step that empties the table of the users is a deletion.
LEMMA ResteQuelquUn ==
  ASSUME TypeInv, [Next]_vars, utilisateurs # {}, ~ supprime'
  PROVE  utilisateurs' # {}
<1>1. ASSUME NEW a \in Appels, Sert(a) PROVE utilisateurs' # {}
  <2>1. CASE SupprimeUtilisateur(a)
    BY <1>1, <2>1 DEF SupprimeUtilisateur
  <2> QED
    BY ZenonT(60), <1>1, <2>1 DEF Sert, Lit, Compare, Ecrit, CreeUtilisateur, MajMdp,
         MajProfil, CompteProfil, RetireProfil, CreeProfil, Echec, Maj, Insere,
         InsereProfil, tables
<1> QED
  BY <1>1 DEF Next, Compte, Detenteur, Stoppe, vars, varsComptes, Amorce,
       AmorceCompte, AmorceProfil, AmorceUtilisateur, AmorceEchec, Expire,
       Redemarre, Arret, Recoit, Insere, InsereProfil, tables

LEMMA SupprimeReste ==
  ASSUME [Next]_vars, supprime PROVE supprime'
BY DEF Next, Compte, Detenteur, Stoppe, vars, varsComptes, Amorce,
     AmorceCompte, AmorceProfil, AmorceUtilisateur, AmorceEchec, Expire,
     Redemarre, Arret, Recoit, Sert, Lit, Compare, Ecrit, CreeUtilisateur,
     MajMdp, MajProfil, CompteProfil, RetireProfil, SupprimeUtilisateur,
     CreeProfil, Echec

LEMMA AdminAmorceSuivant == TypeInv /\ AdminAmorce /\ [Next]_vars => AdminAmorce'
<1> SUFFICES ASSUME TypeInv, AdminAmorce, [Next]_vars, amorce' = "fini",
                    ~ supprime'
             PROVE  utilisateurs' # {}
  BY DEF AdminAmorce
<1>1. CASE amorce = "fini"
  BY <1>1, SupprimeReste, ResteQuelquUn DEF AdminAmorce
<1>2. CASE amorce # "fini"
  <2>1. AmorceCompte \/ AmorceUtilisateur
    BY <1>2 DEF Next, Compte, Detenteur, Stoppe, vars, varsComptes, Amorce,
         AmorceProfil, AmorceEchec, Expire, Redemarre, Arret, Recoit, Sert,
         Lit, Compare, Ecrit, CreeUtilisateur, MajMdp, MajProfil,
         CompteProfil, RetireProfil, SupprimeUtilisateur, CreeProfil, Echec,
         process
  <2> QED
    BY <2>1 DEF AmorceCompte, AmorceUtilisateur, Insere, tables
<1> QED
  BY <1>1, <1>2

\* A start that has gone through verifierEtCreerAdmin leaves somebody able to
\* log in, whatever cut the earlier starts short.
THEOREM AdminAmorceCorrect == Spec => []AdminAmorce
<1>1. Init => AdminAmorce
  BY DEF Init, InitComptes, AdminAmorce
<1> QED
  BY <1>1, TypeInit, TypeSuivant, AdminAmorceSuivant, PTL DEF Spec

=============================================================================
