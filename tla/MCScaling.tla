----------------------------- MODULE MCScaling -----------------------------
(***************************************************************************)
(* Instances of Scaling for TLC, and with it of PoolUse: every step of     *)
(* Scaling is one of PoolUse.  The loads fall on both sides of every       *)
(* threshold of the decision: utilization undefined, infinite, 0, above a  *)
(* half and above nine tenths of the peak.                                 *)
(***************************************************************************)
EXTENDS Scaling, TLC

Load(q, p, a, n) == [queue |-> q, peak |-> p, avg |-> a, processed |-> n]

MCLoads ==
  {Load(0, 0, 5, 0), Load(0, 0, 70, 51), Load(0, 10, 5, 51), Load(0, 10, 200, 0),
   Load(6, 0, 5, 0), Load(6, 10, 70, 51), Load(6, 10, 200, 0), Load(10, 10, 5, 51),
   Load(51, 0, 70, 0), Load(51, 10, 200, 0)}

\* initial <= max, as validateConfigurationFile demands.
ValidLimits == {<<0, 1>>, <<1, 3>>, <<2, 4>>, <<3, 3>>}

\* The start-up file is not validated.
AnyLimits == {<<2, 4>>, <<4, 2>>}

\* More objects than the constructor makes, and room for more.
Generous == {<<3, 4>>}

Interchangeable == Permutations(Threads) \cup Permutations(Addr)
=============================================================================
