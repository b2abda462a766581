--------------------------- MODULE ServiceContract ---------------------------
(***************************************************************************)
(* What the process promises to the person who operates it, with nothing   *)
(* of how main.rs keeps the promise:                                       *)
(*                                                                         *)
(*   - a reload replaces the configuration and both listening addresses    *)
(*     together or not at all, and only with a configuration that a SIGHUP *)
(*     of this run asked for;                                              *)
(*   - a reload costs no request count: the totals go on from where they   *)
(*     were;                                                               *)
(*   - an orderly stop leaves in the persisted file what was loaded at     *)
(*     start plus every request counted since.                             *)
(*                                                                         *)
(* Module Server, the event loop itself, is shown to implement this.       *)
(***************************************************************************)
EXTENDS Integers

CONSTANTS Configs,   \* configurations: [listen, metricsListen, persistPath, ...]
          NoConfig,  \* no process is serving
          NoAddr,    \* nothing is listened on
          Paths,     \* files that counts are persisted to
          NoPath     \* counts are not persisted

VARIABLES config,    \* the configuration in force
          ears,      \* the two addresses answered on
          home,      \* where this run persists its counts
          wanted,    \* configurations asked for and not settled yet
          base,      \* requests already counted when this run started
          served,    \* requests counted by this run
          saved      \* requests in each persisted file, 0 when there is none

vars == <<config, ears, home, wanted, base, served, saved>>

Up == config # NoConfig

EarsOf(c) == [main |-> c.listen, metrics |-> c.metricsListen]

Deaf == [main |-> NoAddr, metrics |-> NoAddr]

Init ==
  /\ config = NoConfig /\ ears = Deaf /\ home = NoPath /\ wanted = {}
  /\ base = 0 /\ served = 0
  /\ saved = [p \in Paths |-> 0]

\* An unreadable file is taken for an empty one.
Start(c) ==
  /\ ~Up
  /\ config' = c /\ ears' = EarsOf(c) /\ home' = c.persistPath
  /\ base' \in {0} \cup {saved[p] : p \in Paths \cap {c.persistPath}}
  /\ served' = 0 /\ wanted' = {}
  /\ UNCHANGED saved

Serve ==
  /\ Up
  /\ served' = served + 1
  /\ UNCHANGED <<config, ears, home, wanted, base, saved>>

Ask(c) ==
  /\ Up
  /\ wanted' = wanted \cup {c}
  /\ UNCHANGED <<config, ears, home, base, served, saved>>

Refuse(c) ==
  /\ Up /\ c \in wanted
  /\ wanted' = wanted \ {c}
  /\ UNCHANGED <<config, ears, home, base, served, saved>>

\* c stays wanted when it was asked for more than once.
Reload(c) ==
  /\ Up /\ c \in wanted
  /\ config' = c /\ ears' = EarsOf(c)
  /\ wanted' \in {wanted, wanted \ {c}}
  /\ UNCHANGED <<home, base, served, saved>>

Over ==
  /\ config' = NoConfig /\ ears' = Deaf /\ home' = NoPath /\ wanted' = {}
  /\ base' = 0 /\ served' = 0

Stop ==
  /\ Up /\ home \in Paths
  /\ saved' = [saved EXCEPT ![home] = base + served]
  /\ Over

\* The end of a run that persists nothing: no path, a failed write, a crash.
Vanish ==
  /\ Up
  /\ Over
  /\ UNCHANGED saved

Next ==
  \/ \E c \in Configs : Start(c) \/ Ask(c) \/ Refuse(c) \/ Reload(c)
  \/ Serve
  \/ Stop
  \/ Vanish

Spec == Init /\ [][Next]_vars
=============================================================================
