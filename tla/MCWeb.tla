------------------------------- MODULE MCWeb -------------------------------
(***************************************************************************)
(* An instance of Web, and with it of ConfigFile, for TLC: two good        *)
(* configurations, one of them the default, and one of each kind of bad    *)
(* one.  Deadlock is not checked: a process that failed to start has       *)
(* ended.                                                                  *)
(***************************************************************************)
EXTENDS Web
=============================================================================
