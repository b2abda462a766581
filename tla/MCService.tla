----------------------------- MODULE MCService ------------------------------
(***************************************************************************)
(* The requests of MCPreflight over several processes, behind a reverse    *)
(* proxy of either mode.                                                   *)
(***************************************************************************)
EXTENDS Service, MCPreflight

ProxyGate == [PreflightGate EXCEPT !.mode = "proxy", !.statusValid = 204]

BothGates == {PreflightGate, ProxyGate}

RestartServices ==
  {S(Harsh, "preflight", 200, {}), S(Mild, "preflight", 200, {p2}),
   S(Other, "preflight", 200, {}),
   S(Harsh, "proxy", 204, {}), S(Mild, "proxy", 204, {p2})}

OneIdSymmetry == Permutations(Ids)
=============================================================================
