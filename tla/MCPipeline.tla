----------------------------- MODULE MCPipeline -----------------------------
(***************************************************************************)
(* Instances of Pipeline for TLC.  Deadlock is not checked: the clients    *)
(* are finitely many, and when all are done the workers are idle.          *)
(***************************************************************************)
EXTENDS Pipeline, TLC

\* One destroys every object, in use or not; the other makes one, or fails to.
MCLimits == {<<0, 1>>, <<2, 2>>}

Interchangeable ==
  Permutations(Workers) \cup Permutations(Conns) \cup Permutations(Addr)
=============================================================================
