------------------------------ MODULE Serveur ------------------------------
(***************************************************************************)
(* The routes of the accounts and those of the cardholders in one process: *)
(* a cardholder's route wants a token of Comptes, and a stop of the        *)
(* process loses the calls of both.                                        *)
(***************************************************************************)
EXTENDS Comptes, Sequences

CONSTANTS
  Numeros, Fiches, AppelsFiches,
  MaxAppels      \* bound on the calls of both kinds together

ASSUME ServeurAssumption == MaxAppels \in Nat

VARIABLES crdhld, garde, file, demandes, ecrasees, melees, avant

D == INSTANCE Detenteurs

varsFiches == <<crdhld, garde, file, demandes, ecrasees, melees, avant>>

vars == <<varsComptes, varsFiches>>

Recus == {a \in Appels : ~ A(a, "libre")}
         \cup {a \in AppelsFiches : ~ D!A(a, "libre")}

EncoreUn == Cardinality(Recus) < MaxAppels

Init == InitComptes /\ D!InitDetenteurs

\* The accounts move, the cards do not.
Compte ==
  /\ \/ Amorce
     \/ \E a \in Appels : (EncoreUn /\ Recoit(a)) \/ Sert(a)
     \/ Expire \/ Redemarre
  /\ Suit
  /\ UNCHANGED varsFiches

\* authenticateToken
RecoitDetenteur(a) == serveur = "marche" /\ jetons # {} /\ EncoreUn /\ D!RecoitFiche(a)

\* The cards move, the accounts do not.
Detenteur ==
  /\ \/ \E a \in AppelsFiches : RecoitDetenteur(a) \/ D!SertFiche(a)
     \/ D!Importe
  /\ UNCHANGED varsComptes

Stoppe == Arret /\ Suit /\ D!PerdFiches

Next == Compte \/ Detenteur \/ Stoppe

Spec == Init /\ [][Next]_vars

\* Type correctness of the tables, of the calls and of the queue.
TypeOK ==
  /\ \A u \in utilisateurs : /\ u.id \in 1 .. identites.utilisateurs
                             /\ u.nom \in Noms /\ u.mdp \in Mdp
  /\ \A u, v \in utilisateurs : u.id = v.id => u = v
  /\ profils \subseteq 1 .. identites.profils
  /\ \A j \in jetons : j.id \in 1 .. identites.utilisateurs /\ j.nom \in Noms
  /\ serveur \in {"marche", "arret"} /\ demarrages \in 1 .. MaxDemarrages
  /\ amorce \in {"compte", "profil", "utilisateur", "fini", "echec", "arret"}
  /\ \A a \in Appels : appels[a].etape \in Etapes \cup Reponses \cup {"libre", "perdu"}
  /\ crdhld \in [Numeros -> Fiches \cup {"absente", "effacee"}]
  /\ file \in Seq([numero : Numeros, effet : Fiches \cup {"effacee"},
                   creation : BOOLEAN])

CreationBloquee == D!CreationBloquee
FicheVoulue     == D!FicheVoulue

=============================================================================
