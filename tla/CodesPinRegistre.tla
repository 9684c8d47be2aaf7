-------------------------- MODULE CodesPinRegistre --------------------------
(***************************************************************************)
(* CodesPin implements RegistrePin: the committed rows are the register,   *)
(* and all the steps between them stutter.                                 *)
(***************************************************************************)
EXTENDS CodesPin

Registre == INSTANCE RegistrePin WITH codes <- codesPin

\* The readers of CodesPIN (/obtenirCodePin, /societes, the weekly task) never
\* see a creation, a deletion or a purge half done.
RegistreTenu == Registre!Spec

=============================================================================
