------------------------------ MODULE Comptes ------------------------------
(***************************************************************************)
(* Users, profiles and tokens of src/Server/DashNov_Server.js: /login and  *)
(* the routes that authenticateToken protects, over the tables             *)
(* Utilisateurs and Profils, beside verifierEtCreerAdmin(), which each     *)
(* start of the process runs while requests already come.                  *)
(*                                                                         *)
(* One action is the code between two awaits, with the effect of the       *)
(* statement the first await waited for.  A statement may fail, or succeed *)
(* while its acknowledgement is lost; the process may stop between any two *)
(* steps.  The hash of a password is the password; of a profile, its ID    *)
(* counts.  A token may expire at any time.                                *)
(***************************************************************************)
EXTENDS Naturals, FiniteSets

CONSTANTS
  Noms, Mdp,        \* user names and passwords
  NomAdmin, MdpAdmin, \* 'admin', 'admin'
  Aucun,            \* no password in the body
  Appels,           \* slots of calls, each used at most once
  MaxDemarrages     \* bound on the starts of the process

ASSUME ComptesAssumption ==
  NomAdmin \in Noms /\ MdpAdmin \in Mdp /\ Aucun \notin Mdp /\ MaxDemarrages \in Nat \ {0}

VARIABLES
  utilisateurs,  \* rows [id, nom, mdp, profil] of Utilisateurs
  profils,       \* ProfilID of the rows of Profils
  identites,     \* the last values of the two IDENTITY columns
  jetons,        \* valid tokens: [id, nom]
  serveur,       \* is the Node process running?
  demarrages,
  amorce,        \* where verifierEtCreerAdmin() is
  amorceProfil,  \* its profilAdminID
  appels,        \* of each call: its request, its await or answer, the row read
  \* History: read by the properties only.
  vus,           \* of each call in progress: the users since it came
  touche,        \* of each call: has its user been written since its SELECT?
  supprime       \* has a user ever been deleted?

tables  == <<utilisateurs, profils, identites>>
process == <<serveur, demarrages, amorce, amorceProfil>>
varsComptes == <<tables, jetons, process, appels, vus, touche, supprime>>

-----------------------------------------------------------------------------
Utilisateur(i, n, m, p) == [id |-> i, nom |-> n, mdp |-> m, profil |-> p]
Personne == Utilisateur(0, NomAdmin, Aucun, 0)

Ids(t) == 0 .. identites[t]

\* A request and what a call keeps of it: mdp is the password presented, nouveau
\* the one to store.
Requete(o, ids, noms, mdps, nouveaux, profs) ==
  [op : {o}, id : ids, nom : noms, mdp : mdps, nouveau : nouveaux, profil : profs]

Requetes ==
  Requete("login", {0}, Noms, Mdp, {Aucun}, {0}) \cup
  (IF jetons = {} THEN {} ELSE
     Requete("changePassword", {j.id : j \in jetons}, {NomAdmin}, Mdp, Mdp, {0}) \cup
     Requete("creerUtilisateur", {0}, Noms, {Aucun}, Mdp, Ids("profils")) \cup
     Requete("updateUser", Ids("utilisateurs"), {NomAdmin}, {Aucun},
             Mdp \cup {Aucun}, Ids("profils")) \cup
     Requete("deleteProfile", {0}, {NomAdmin}, {Aucun}, {Aucun}, Ids("profils")) \cup
     Requete("deleteUser", Ids("utilisateurs"), {NomAdmin}, {Aucun}, {Aucun}, {0}) \cup
     Requete("createProfile", {0}, {NomAdmin}, {Aucun}, {Aucun}, {0}))

Premier(r) ==
  CASE r.op \in {"login", "changePassword"} -> "lit"
    [] r.op = "creerUtilisateur" -> "insere"
    [] r.op = "updateUser" -> IF r.nouveau = Aucun THEN "profil" ELSE "mdp"
    [] r.op = "deleteProfile" -> "compte"
    [] r.op = "deleteUser" -> "supprime"
    [] r.op = "createProfile" -> "cree"

Etapes   == {"lit", "compare", "ecrit", "insere", "mdp", "profil", "compte",
             "retire", "supprime", "cree"}
Reponses == {"200", "400", "401", "404", "500"}
EnCours(a) == appels[a].etape \in Etapes
A(a, etape) == appels[a].etape = etape

Vide == [op |-> "login", id |-> 0, nom |-> NomAdmin, mdp |-> Aucun,
         nouveau |-> Aucun, profil |-> 0]

Appel(r, etape) == [req |-> r, etape |-> etape, lu |-> Personne]

\* What a call keeps ends with its answer.
Repond(a, r) ==
  appels' = [appels EXCEPT ![a] = IF r \in Reponses THEN Appel(Vide, r)
                                  ELSE [@ EXCEPT !.etape = r]]

\* The statement is done; its acknowledgement may be lost.
Accuse(a) == \E r \in {"200", "500"} : Repond(a, r)

InitComptes ==
  /\ utilisateurs = {} /\ profils = {} /\ jetons = {}
  /\ identites = [utilisateurs |-> 0, profils |-> 0]
  /\ serveur = "marche" /\ demarrages = 1
  /\ amorce = "compte" /\ amorceProfil = 0
  /\ appels = [a \in Appels |-> Appel(Vide, "libre")]
  /\ vus = [a \in Appels |-> {}] /\ touche = [a \in Appels |-> FALSE]
  /\ supprime = FALSE

-----------------------------------------------------------------------------
(* The statements on the two tables *)

\* CONSTRAINT FK_Utilisateurs_Profils
CleEtrangere(p) == p \in profils

\* Mutant: MAX(UtilisateurID) + 1 instead of IDENTITY.
MutNouvelId == LET ids == {u.id : u \in utilisateurs}
               IN  IF ids = {} THEN 1 ELSE 1 + CHOOSE i \in ids : \A j \in ids : j <= i

\* Mutant: IDENTITY(0,1).
MutNouvelIdZero == identites.utilisateurs

\* IDENTITY(1,1): the number of a deleted row is not given again.
NouvelId == identites.utilisateurs + 1

Insere(n, m, p) ==
  /\ CleEtrangere(p)
  /\ utilisateurs' = utilisateurs \cup {Utilisateur(NouvelId, n, m, p)}
  /\ identites' = [identites EXCEPT !.utilisateurs = @ + 1]
  /\ UNCHANGED profils

InsereProfil ==
  /\ profils' = profils \cup {identites.profils + 1}
  /\ identites' = [identites EXCEPT !.profils = @ + 1]
  /\ UNCHANGED utilisateurs

Maj(i, Nouveau(_)) ==
  /\ utilisateurs' = {IF u.id = i THEN Nouveau(u) ELSE u : u \in utilisateurs}
  /\ UNCHANGED <<profils, identites>>

-----------------------------------------------------------------------------
(* verifierEtCreerAdmin() *)

\* Mutant: counts the profiles.
MutAmorceCompte ==
  /\ amorce = "compte"
  /\ amorce' = IF profils = {} THEN "profil" ELSE "fini"
  /\ UNCHANGED <<tables, jetons, serveur, demarrages, amorceProfil, appels, supprime>>

AmorceCompte ==
  /\ amorce = "compte"
  /\ amorce' = IF utilisateurs = {} THEN "profil" ELSE "fini"
  /\ UNCHANGED <<tables, jetons, serveur, demarrages, amorceProfil, appels, supprime>>

AmorceProfil ==
  /\ amorce = "profil"
  /\ InsereProfil
  /\ amorceProfil' = identites.profils + 1
  /\ amorce' = "utilisateur"
  /\ UNCHANGED <<jetons, serveur, demarrages, appels, supprime>>

\* Its acknowledgement may be lost.
AmorceUtilisateur ==
  /\ amorce = "utilisateur"
  /\ Insere(NomAdmin, MdpAdmin, amorceProfil)
  /\ amorce' \in {"fini", "echec"}
  /\ UNCHANGED <<jetons, serveur, demarrages, amorceProfil, appels, supprime>>

\* A statement fails (a profile deleted meanwhile breaks the foreign key).
AmorceEchec ==
  /\ amorce \in {"compte", "profil", "utilisateur"}
  /\ amorce' = "echec"
  /\ UNCHANGED <<tables, jetons, serveur, demarrages, amorceProfil, appels, supprime>>

Amorce == AmorceCompte \/ AmorceProfil \/ AmorceUtilisateur \/ AmorceEchec

-----------------------------------------------------------------------------
(* The calls *)

\* authenticateToken lets the call in if it carries a valid token.
Recoit(a) ==
  /\ serveur = "marche" /\ A(a, "libre")
  /\ \E r \in Requetes : appels' = [appels EXCEPT ![a] = Appel(r, Premier(r))]
  /\ UNCHANGED <<tables, jetons, process, supprime>>

\* Mutant: the WHERE clause is lost.
MutTrouves(r) == IF r.op = "login" THEN {u \in utilisateurs : u.profil \in profils}
                 ELSE {u \in utilisateurs : u.id = r.id}

\* The rows the SELECT finds: by name, with its profile, or by ID.
Trouves(r) ==
  IF r.op = "login"
  THEN {u \in utilisateurs : u.nom = r.nom /\ u.profil \in profils}
  ELSE {u \in utilisateurs : u.id = r.id}

\* recordset[0]: NomUtilisateur is not unique.
Lit(a) ==
  /\ A(a, "lit")
  /\ LET lignes == Trouves(appels[a].req)
     IN  \/ \E u \in lignes :
              appels' = [appels EXCEPT ![a].etape = "compare", ![a].lu = u]
         \/ /\ lignes = {}
            /\ Repond(a, IF appels[a].req.op = "login" THEN "401" ELSE "404")
  /\ UNCHANGED <<tables, jetons, process, supprime>>

\* Mutant: bcrypt.compare without await, a promise is always true.
MutConvient(a) == TRUE

Convient(a) == appels[a].req.mdp = appels[a].lu.mdp

\* bcrypt.compare(); a login then signs the token.
Compare(a) ==
  /\ A(a, "compare")
  /\ IF ~ Convient(a) THEN Repond(a, "401") /\ UNCHANGED jetons
     ELSE IF appels[a].req.op = "login"
     THEN /\ jetons' = jetons \cup {[id |-> appels[a].lu.id, nom |-> appels[a].req.nom]}
          /\ Repond(a, "200")
     ELSE Repond(a, "ecrit") /\ UNCHANGED jetons
  /\ UNCHANGED <<tables, process, supprime>>

\* The UPDATE of changePassword.
Ecrit(a) ==
  /\ A(a, "ecrit")
  /\ Maj(appels[a].req.id, LAMBDA u : [u EXCEPT !.mdp = appels[a].req.nouveau])
  /\ Accuse(a)
  /\ UNCHANGED <<jetons, process, supprime>>

CreeUtilisateur(a) ==
  /\ A(a, "insere")
  /\ Insere(appels[a].req.nom, appels[a].req.nouveau, appels[a].req.profil)
  /\ Accuse(a)
  /\ UNCHANGED <<jetons, process, supprime>>

\* updateUser: the password if one is given, then the profile.
MajMdp(a) ==
  /\ A(a, "mdp")
  /\ Maj(appels[a].req.id, LAMBDA u : [u EXCEPT !.mdp = appels[a].req.nouveau])
  /\ \E r \in {"profil", "500"} : Repond(a, r)
  /\ UNCHANGED <<jetons, process, supprime>>

MajProfil(a) ==
  /\ A(a, "profil")
  /\ CleEtrangere(appels[a].req.profil) \/ Trouves(appels[a].req) = {}
  /\ Maj(appels[a].req.id, LAMBDA u : [u EXCEPT !.profil = appels[a].req.profil])
  /\ Accuse(a)
  /\ UNCHANGED <<jetons, process, supprime>>

Titulaires(p) == {u \in utilisateurs : u.profil = p}

CompteProfil(a) ==
  /\ A(a, "compte")
  /\ Repond(a, IF Titulaires(appels[a].req.profil) = {} THEN "retire" ELSE "400")
  /\ UNCHANGED <<tables, jetons, process, supprime>>

\* Mutant: no foreign key, only the count before protects the profile.
MutEncoreCite(p) == FALSE

EncoreCite(p) == Titulaires(p) # {}

RetireProfil(a) ==
  /\ A(a, "retire") /\ ~ EncoreCite(appels[a].req.profil)
  /\ IF appels[a].req.profil \in profils
     THEN profils' = profils \ {appels[a].req.profil} /\ Accuse(a)
     ELSE UNCHANGED profils /\ Repond(a, "404")
  /\ UNCHANGED <<utilisateurs, identites, jetons, process, supprime>>

SupprimeUtilisateur(a) ==
  /\ A(a, "supprime")
  /\ utilisateurs' = {u \in utilisateurs : u.id # appels[a].req.id}
  /\ supprime' = (supprime \/ utilisateurs' # utilisateurs)
  /\ Accuse(a)
  /\ UNCHANGED <<profils, identites, jetons, process>>

CreeProfil(a) ==
  /\ A(a, "cree")
  /\ InsereProfil
  /\ Accuse(a)
  /\ UNCHANGED <<jetons, process, supprime>>

\* A statement fails, on the foreign key among others.
Echec(a) ==
  /\ EnCours(a)
  /\ Repond(a, "500")
  /\ UNCHANGED <<tables, jetons, process, supprime>>

Sert(a) ==
  \/ Lit(a) \/ Compare(a) \/ Ecrit(a) \/ CreeUtilisateur(a) \/ MajMdp(a)
  \/ MajProfil(a) \/ CompteProfil(a) \/ RetireProfil(a)
  \/ SupprimeUtilisateur(a) \/ CreeProfil(a) \/ Echec(a)

-----------------------------------------------------------------------------
Expire ==
  /\ \E j \in jetons : jetons' = jetons \ {j}
  /\ UNCHANGED <<tables, process, appels, supprime>>

Arret ==
  /\ serveur = "marche"
  /\ serveur' = "arret" /\ amorce' = "arret"
  /\ appels' = [a \in Appels |->
                  IF EnCours(a) THEN Appel(Vide, "perdu") ELSE appels[a]]
  /\ UNCHANGED <<tables, jetons, demarrages, amorceProfil, supprime>>

\* The key that signs the tokens is in the source: tokens outlive the process.
Redemarre ==
  /\ serveur = "arret" /\ demarrages < MaxDemarrages
  /\ serveur' = "marche" /\ amorce' = "compte" /\ demarrages' = demarrages + 1
  /\ UNCHANGED <<tables, jetons, amorceProfil, appels, supprime>>

ArretOuReprise == Arret \/ Redemarre

Cible(a, lignes) == {u \in lignes : u.id = appels[a].req.id}

\* The history: what each call in progress could have seen, and whether its user
\* changed behind it.
Suit ==
  /\ vus' = [a \in Appels |-> IF appels'[a].etape \in Etapes
                              THEN vus[a] \cup utilisateurs \cup utilisateurs' ELSE {}]
  /\ touche' = [a \in Appels |->
                  /\ appels'[a].etape \in {"compare", "ecrit"} /\ ~ A(a, "lit")
                  /\ touche[a] \/ Cible(a, utilisateurs) # Cible(a, utilisateurs')]

-----------------------------------------------------------------------------
(***************************************************************************)
(* What is required of it                                                  *)
(***************************************************************************)

\* No user is ever left without a profile: the JOIN of /login would not find it
\* again.  deleteProfile counts, then deletes, while users are created and
\* change profile; only the foreign key keeps them apart.
AucunOrphelin == \A u \in utilisateurs : u.profil \in profils

\* `Utilisateur administrateur cree avec succes` or `Des utilisateurs existent
\* deja`: when a start has gone through verifierEtCreerAdmin, whatever failures
\* and stops cut the earlier starts short, there is a user, unless one was
\* deleted.
AdminAmorce == amorce = "fini" /\ ~ supprime => utilisateurs # {}

\* A token outlives its user, but never opens the account of another one.
JetonPropre ==
  \A j \in jetons : \A u \in utilisateurs : u.id = j.id => u.nom = j.nom

\* A login is answered with a token only if the password was that of a user of
\* this name at some time since the request came, whatever changePassword,
\* updateUser and deleteUser do between its two awaits.
JetonMerite ==
  [][\A a \in Appels :
       A(a, "compare") /\ appels[a].req.op = "login" /\ appels'[a].etape = "200" =>
         \E u \in vus[a] : u.nom = appels[a].req.nom /\ u.mdp = appels[a].req.mdp
    ]_varsComptes

\* changePassword replaces the password it was given, unless another call wrote
\* the user between its SELECT and its UPDATE.
AncienMotDePasse ==
  \A a \in Appels : A(a, "ecrit") /\ ~ touche[a] =>
    \A u \in Cible(a, utilisateurs) : u.mdp = appels[a].req.mdp

=============================================================================
