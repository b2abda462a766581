------------------------------ MODULE Terminal -------------------------------
(***************************************************************************)
(* What the operator is told by main(): the program is started on a        *)
(* configuration; when it is refused its error is explained and the        *)
(* program is over, otherwise it runs and its log lines are stamped for as *)
(* long as it does.                                                        *)
(***************************************************************************)
EXTENDS CalendarTime, SpanExplain

vars == <<calendarVars, explainVars>>

\* A configuration that nothing is wrong with; its text does not matter.
Accepted == source = <<>> /\ span = <<0, 0>> /\ output = None

TerminalInit == CalendarInit /\ (ExplainInit \/ Accepted)

Refuse == ~Accepted /\ Start /\ UNCHANGED calendarVars

Run == Accepted /\ CalendarNext /\ UNCHANGED explainVars

Next == Refuse \/ Run

Spec == TerminalInit /\ [][Next]_vars
=============================================================================
