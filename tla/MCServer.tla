------------------------------ MODULE MCServer ------------------------------
(***************************************************************************)
(* Small instances of Server.  The configurations differ in every way the  *)
(* code looks at: C moves to a Unix socket and drops the metrics, D only   *)
(* persists elsewhere, E only puts the metrics where the socket of C is.   *)
(***************************************************************************)
EXTENDS Server, TLC

CONSTANTS t1, t2, u1, p, q, c1, c2

A == [listen |-> t1, metricsListen |-> t2,     persistPath |-> p]
C == [listen |-> u1, metricsListen |-> NoAddr, persistPath |-> NoPath]
D == [listen |-> t1, metricsListen |-> t2,     persistPath |-> q]
E == [listen |-> t1, metricsListen |-> u1,     persistPath |-> p]

PersistConfigs == {A, C, D}
ReloadConfigs  == {A, C, E}

ConnSymmetry == Permutations(Conns)
=============================================================================
