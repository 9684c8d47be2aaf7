----------------------------- MODULE MCServeur -----------------------------
(***************************************************************************)
(* Instances of Serveur for TLC.                                           *)
(***************************************************************************)
EXTENDS Serveur, TLC

\* The slots of calls are alike.
Symetrie == Permutations(Appels)

=============================================================================
