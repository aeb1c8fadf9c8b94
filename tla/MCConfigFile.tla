---------------------------- MODULE MCConfigFile ----------------------------
(***************************************************************************)
(* Instances of ConfigFile for TLC: two good configurations and one of     *)
(* each kind of bad one.  Deadlock is not checked: a process that failed   *)
(* to start has ended.                                                     *)
(***************************************************************************)
EXTENDS ConfigFile
=============================================================================
