----------------------------- MODULE MCMetrics -----------------------------
(***************************************************************************)
(* Hosts with and without a comma; Accept headers of two types and their   *)
(* parameters.                                                             *)
(***************************************************************************)
EXTENDS Scrape

MCHosts == {<<"a">>, <<"a", ",", "a">>}

MCAccepts == {AcceptStr(h) : h \in {<<"a", ";", ",", "a">>, <<"a", ",", "a", ";", ";">>}}
=============================================================================
