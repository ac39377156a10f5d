----------------------------- MODULE MCReports -----------------------------
(***************************************************************************)
(* A fleet for TLC: a site of two devices, one in another country that the *)
(* sun does not always reach, and one without device, size or place.       *)
(***************************************************************************)
EXTENDS Reports, TLC

CONSTANTS d1, d2, d3, home, abroad, empty, NG, GB, pilot

\* The two devices of a site are alike.
Alike == Permutations({d1, d2})

MCSiteOf == d1 :> home @@ d2 :> home @@ d3 :> abroad
MCCountryOf == home :> NG @@ abroad :> GB @@ empty :> NG
MCCohortOf == home :> pilot @@ abroad :> Nil @@ empty :> pilot
MCSizeOf == home :> 1 @@ abroad :> 2 @@ empty :> 0
MCCreatedOn == home :> 1 @@ abroad :> 1 @@ empty :> 2
MCIrradiance ==
  home :> [day \in Day |-> 1] @@ abroad :> [day \in Day |-> day - 1] @@ empty :> [day \in Day |-> 0]
=============================================================================
