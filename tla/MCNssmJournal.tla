--------------------------- MODULE MCNssmJournal ---------------------------
(***************************************************************************)
(* Instances of NssmJournal for TLC.                                       *)
(***************************************************************************)
EXTENDS NssmJournal

=============================================================================
