---------------------------- MODULE MCBlacklist ----------------------------
(***************************************************************************)
(* Instances of Blacklist for TLC: a host that both lists match, one that  *)
(* only one of them matches, a disabled list, and lists with a malformed   *)
(* flag and a malformed pattern.                                           *)
(***************************************************************************)
EXTENDS Blacklist, TLC

CONSTANTS h1, h2

MCConfigs ==
  {[enabled |-> TRUE,  patterns |-> <<{h2}, {h1}>>],
   [enabled |-> TRUE,  patterns |-> <<{h1}>>],
   [enabled |-> FALSE, patterns |-> <<{h1}>>],
   [enabled |-> NoFlag, patterns |-> <<{h1}>>],
   [enabled |-> TRUE,  patterns |-> <<{h2}, Malformed, {h1}>>]}

Interchangeable == Permutations(Workers)
=============================================================================
