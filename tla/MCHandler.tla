----------------------------- MODULE MCHandler -----------------------------
(***************************************************************************)
(* Instances of Handler for TLC.  Deadlock is not checked: the clients are *)
(* finitely many, and a proxy all of whose clients have come may have      *)
(* nothing left to do.                                                     *)
(***************************************************************************)
EXTENDS Handler
=============================================================================
