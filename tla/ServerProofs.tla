---------------------------- MODULE ServerProofs ----------------------------
(***************************************************************************)
(* What holds of Server for every set of configurations, addresses and     *)
(* connections, and every value of the two bounds.                         *)
(*                                                                         *)
(* EarsMatchConfig, OneTally and SerialReloadsAreFresh are not inductive.  *)
(* IInv adds what they lean on: what boot has established when the loop    *)
(* starts, where a build may be between its SIGHUP and its commit, and     *)
(* what swap_configs holds between its two awaits.                         *)
(***************************************************************************)
EXTENDS Server, TLAPS

\* Nothing survives a process, and a process has a configuration and counters
\* from its first step.  Until the loop starts nothing else has happened.
Lifecycle ==
  /\ phase = "down" => NoProcess
  /\ phase # "down" =>
       config \in Configs /\ metrics \in 1..born /\ builtFrom[metrics] \in Configs
  /\ phase \in Booting =>
       /\ builtFrom[metrics] = config
       /\ tally[metrics] \in LoadedCounts(config)
       /\ served = 0 /\ InFlight = {}
       /\ \A c \in Conns : conns[c] = Closed
       /\ asked = config
  /\ phase = "bootMetrics" => listener = config.listen

\* A build in flight is a past from_config call, never the one whose Metrics
\* are in use, and swap_configs has one exactly while it runs.
Pipeline ==
  /\ \A b \in InFlight :
       b \in 1..born /\ b # metrics /\ builtFrom[b] \in Configs
  /\ incoming # NoBuild <=> phase \in Swapping

\* Between its awaits swap_configs holds the new listener exactly when the
\* address changes.
EarsInv ==
  /\ EarsMatchConfig
  /\ newListener # NoAddr => phase = "swapMetrics" /\ newListener = NewConfig.listen
  /\ phase = "swapMetrics" /\ newListener = NoAddr => NewConfig.listen = config.listen

\* While the last SIGHUP is undisturbed, every build in flight is its own.
Freshness ==
  ~tangled /\ asked # NoConfig =>
    /\ \A b \in InFlight : builtFrom[b] = asked
    /\ InFlight = {} => config = asked

IInv == TypeOK /\ Lifecycle /\ Pipeline /\ EarsInv /\ OneTally /\ Freshness

-----------------------------------------------------------------------------
LEMMA ClosedType == Closed \in ConnStates
  BY DEF ConnStates

LEMMA NoLaunchType == NoLaunch \in Launches
  BY DEF NoLaunch, Launches

LEMMA FlagsStep == ASSUME FlagsOK, [Next]_vars PROVE FlagsOK'
BY Zenon DEF FlagsOK, Next, Launch, BootListen, BootListenMetrics, HandleHup, ReceiveConfig,
  SwapListen, SwapMetrics, BuildFinishes, Send, Accept, Serve, Close, SignalArrives,
  BeginShutdown, GraceExpires, Exit, Crash, CleanSocket, ProcessEnds, vars, histVars

LEMMA EndsType ==
  ASSUME ProcessEnds, FlagsOK',
         sockFiles' \in SUBSET UnixAddrs, saved' \in [Paths -> Nat]
  PROVE  TypeOK'
  BY ClosedType, NoLaunchType, BoundsAssumption DEF TypeOK, ProcessEnds, NoBuild

LEMMA BindsType ==
  ASSUME TypeOK, NEW x, Binds(x) \/ BindFails(x)
  PROVE  sockFiles' \in SUBSET UnixAddrs
  BY DEF TypeOK, Binds, BindFails

LEMMA LoadedType == ASSUME TypeOK, NEW c PROVE LoadedCounts(c) \subseteq Nat
  BY DEF TypeOK, LoadedCounts

LEMMA TypeStep == ASSUME TypeOK, Lifecycle, Pipeline, [Next]_vars PROVE TypeOK'
<1>0. FlagsOK'
  BY FlagsStep DEF TypeOK
<1>1. ASSUME Launch PROVE TypeOK'
  <2> PICK c \in Configs :
        /\ phase' = "bootListen"
        /\ config' = c /\ metrics' = 1 /\ born' = 1
        /\ builtFrom' = [builtFrom EXCEPT ![1] = c]
        /\ \E n \in LoadedCounts(c) :
             /\ tally' = [tally EXCEPT ![1] = n]
             /\ launched' = [path |-> c.persistPath, count |-> n]
        /\ asked' = c
    BY <1>1 DEF Launch
  <2>1. tally' \in [Builds -> Nat] /\ launched' \in Launches
    <3> PICK n \in LoadedCounts(c) :
          tally' = [tally EXCEPT ![1] = n] /\ launched' = [path |-> c.persistPath, count |-> n]
      OBVIOUS
    <3>1. n \in Nat /\ c.persistPath \in Paths \cup {NoPath}
      BY LoadedType, ConfigsAssumption
    <3> QED
      BY <3>1 DEF TypeOK, Launches
  <2>2. metrics' \in Builds /\ born' \in 0..MaxBuilds
    BY BoundsAssumption DEF Builds
  <2>3. phase' \in Booting
    BY DEF Booting
  <2>4. UNCHANGED <<listener, metricsListener, newListener, incoming, channel, thread,
                    conns, sockFiles, saved, served>>
    BY <1>1 DEF Launch, earVars, diskVars
  <2> QED
    BY <2>1, <2>2, <2>3, <2>4, <1>0 DEF TypeOK
<1>2. ASSUME BootListen PROVE TypeOK'
  <2>1. sockFiles' \in SUBSET UnixAddrs /\ saved' \in [Paths -> Nat]
    BY <1>2, BindsType DEF BootListen, TypeOK
  <2>2. CASE ProcessEnds
    BY <2>1, <2>2, <1>0, EndsType
  <2>3. CASE phase' = "bootMetrics"
    <3>1. config \in Configs
      BY <1>2 DEF Lifecycle, BootListen
    <3>2. config.listen \in Addrs
      BY <3>1, ConfigsAssumption
    <3> QED
      BY <1>2, <2>1, <2>3, <3>2, <1>0
      DEF TypeOK, BootListen, ProcessEnds, Booting, appVars, earVars, buildVars, countVars,
          histVars, diskVars
  <2> QED
    BY <1>2, <2>2, <2>3 DEF BootListen
<1>3. ASSUME BootListenMetrics PROVE TypeOK'
  <2>1. sockFiles' \in SUBSET UnixAddrs /\ saved' \in [Paths -> Nat]
    BY <1>3, BindsType DEF BootListenMetrics, TypeOK
  <2>2. CASE ProcessEnds
    BY <2>1, <2>2, <1>0, EndsType
  <2>3. CASE phase' = "select"
    <3>1. config \in Configs
      BY <1>3 DEF Lifecycle, BootListenMetrics
    <3>2. config.metricsListen \in Addrs \cup {NoAddr}
      BY <3>1, ConfigsAssumption
    <3> QED
      BY <1>3, <2>1, <2>3, <3>2, <1>0
      DEF TypeOK, BootListenMetrics, ProcessEnds, Running, appVars, earVars, buildVars,
          countVars, histVars, diskVars
  <2> QED
    BY <1>3, <2>2, <2>3 DEF BootListenMetrics
<1>4. ASSUME HandleHup PROVE TypeOK'
  <2>1. /\ asked' \in Configs \cup {NoConfig}
        /\ thread' \in [Builds -> {"none", "building", "sending"}]
        /\ builtFrom' \in [Builds -> Configs \cup {NoConfig}]
        /\ born' \in 0..MaxBuilds
    <3>1. CASE UNCHANGED <<buildVars, histVars>>
      BY <3>1 DEF TypeOK, buildVars, histVars
    <3>2. CASE ~UNCHANGED <<buildVars, histVars>>
      <4> PICK c \in Configs :
            /\ asked' = c
            /\ \/ UNCHANGED buildVars
               \/ /\ born < MaxBuilds
                  /\ born' = born + 1
                  /\ thread' = [thread EXCEPT ![born'] = "building"]
                  /\ builtFrom' = [builtFrom EXCEPT ![born'] = c]
        BY <1>4, <3>2 DEF HandleHup
      <4> QED
        BY BoundsAssumption DEF TypeOK, buildVars
    <3> QED
      BY <3>1, <3>2
  <2> QED
    BY <1>4, <2>1, <1>0 DEF TypeOK, HandleHup, appVars, earVars, countVars, diskVars
<1>5. ASSUME ReceiveConfig PROVE TypeOK'
  BY <1>5, <1>0
  DEF TypeOK, ReceiveConfig, Swapping, Running, NoBuild, appVars, earVars, buildVars,
      countVars, histVars, diskVars
<1>6. ASSUME SwapListen PROVE TypeOK'
  BY <1>6, <1>0, ConfigsAssumption
  DEF TypeOK, SwapListen, Binds, BindFails, Abandon, NewConfig, Lifecycle, Pipeline,
      InFlight, Swapping, Booting, Running, NoBuild, Builds, appVars, buildVars, countVars
<1>7. ASSUME SwapMetrics PROVE TypeOK'
  BY <1>7, <1>0, ConfigsAssumption
  DEF TypeOK, SwapMetrics, Binds, BindFails, Abandon, Commit, NewConfig, MetricsAfterSwap,
      Lifecycle, Pipeline, InFlight, Swapping, Booting, Running, NoBuild, Builds, appVars,
      buildVars, countVars
<1>8. ASSUME NEW b \in Builds, BuildFinishes(b) PROVE TypeOK'
  BY <1>8, <1>0 DEF TypeOK, BuildFinishes, LoadedCounts, appVars, earVars, diskVars
<1>9. ASSUME NEW b \in Builds, Send(b) PROVE TypeOK'
  BY <1>9, <1>0 DEF TypeOK, Send, appVars, earVars, countVars, histVars, diskVars
<1>10. ASSUME NEW c \in Conns, Accept(c) PROVE TypeOK'
  <2>1. metrics \in Builds
    BY <1>10, BoundsAssumption DEF TypeOK, Lifecycle, Accept, Builds
  <2>2. \A s \in {"psl", "metrics"} : [svc |-> s, metrics |-> metrics] \in ConnStates
    BY <2>1 DEF ConnStates
  <2>3. conns' \in [Conns -> ConnStates]
    BY <1>10, <2>2 DEF TypeOK, Accept
  <2> QED
    BY <1>10, <2>3, <1>0 DEF TypeOK, Accept, appVars, earVars, buildVars, countVars,
        histVars, diskVars
<1>11. ASSUME NEW c \in Conns, Serve(c) PROVE TypeOK'
  BY <1>11, <1>0, ClosedType
  DEF TypeOK, Serve, ConnStates, Running, Closed, appVars, earVars, buildVars, histVars,
      diskVars
<1>12. ASSUME NEW c \in Conns, Close(c) PROVE TypeOK'
  BY <1>12, <1>0, ClosedType
  DEF TypeOK, Close, appVars, earVars, buildVars, countVars, histVars, diskVars
<1>13. ASSUME SignalArrives PROVE TypeOK'
  BY <1>13, <1>0
  DEF TypeOK, SignalArrives, appVars, earVars, buildVars, countVars, histVars, diskVars
<1>14. ASSUME BeginShutdown PROVE TypeOK'
  BY <1>14, <1>0
  DEF TypeOK, BeginShutdown, Running, appVars, earVars, buildVars, countVars, histVars,
      diskVars
<1>15. ASSUME GraceExpires PROVE TypeOK'
  BY <1>15, <1>0
  DEF TypeOK, GraceExpires, appVars, earVars, buildVars, countVars, histVars, diskVars
<1>16. ASSUME Exit PROVE TypeOK'
  BY <1>16, <1>0, ClosedType, NoLaunchType, BoundsAssumption
  DEF TypeOK, Exit, ProcessEnds, Persisted, Home, NoBuild, Lifecycle, Booting
<1>17. ASSUME Crash PROVE TypeOK'
  BY <1>17, <1>0, ClosedType, NoLaunchType, BoundsAssumption
  DEF TypeOK, Crash, ProcessEnds, NoBuild, diskVars
<1>18. ASSUME NEW a \in UnixAddrs, CleanSocket(a) PROVE TypeOK'
  BY <1>18, <1>0 DEF TypeOK, CleanSocket, appVars, earVars, buildVars, countVars, histVars
<1>19. ASSUME UNCHANGED vars PROVE TypeOK'
  BY <1>19, <1>0
  DEF TypeOK, vars, appVars, earVars, buildVars, countVars, histVars, diskVars
<1> QED
  BY <1>1, <1>2, <1>3, <1>4, <1>5, <1>6, <1>7, <1>8, <1>9, <1>10, <1>11, <1>12, <1>13,
      <1>14, <1>15, <1>16, <1>17, <1>18, <1>19 DEF Next

\* Steps that touch neither the configurations nor the listeners.
Idle ==
  \/ \E c \in Conns : Accept(c) \/ Serve(c) \/ Close(c)
  \/ SignalArrives \/ BeginShutdown \/ GraceExpires
  \/ \E a \in UnixAddrs : CleanSocket(a)
  \/ UNCHANGED vars

LEMMA IdleFrame ==
  ASSUME Idle
  PROVE  /\ UNCHANGED <<config, metrics, listener, metricsListener, newListener, incoming,
                         channel, thread, builtFrom, born, asked, tangled, saved, launched>>
         /\ \/ UNCHANGED <<phase, tally, served, conns, hup, term, graceOver>>
            \/ /\ phase \in Running /\ UNCHANGED phase
            \/ phase = "select" /\ phase' = "drain"
BY DEF Idle, Accept, Serve, Close, SignalArrives, BeginShutdown, GraceExpires, CleanSocket,
  vars, appVars, earVars, buildVars, countVars, histVars, diskVars, Running, Swapping

LEMMA PipelineStep == ASSUME IInv, [Next]_vars PROVE Pipeline'
<1>1. ASSUME Launch PROVE Pipeline'
  BY <1>1, BoundsAssumption
  DEF IInv, TypeOK, Pipeline, Lifecycle, InFlight, Builds, NoProcess, Booting, Swapping,
      Running, NoBuild, Launch, appVars, earVars, buildVars, countVars, histVars, diskVars
<1>2. ASSUME BootListen PROVE Pipeline'
  BY <1>2
  DEF IInv, Pipeline, InFlight, Booting, Swapping, Running, NoBuild, BootListen, Binds,
      BindFails, ProcessEnds, appVars, buildVars, countVars, histVars
<1>3. ASSUME BootListenMetrics PROVE Pipeline'
  BY <1>3
  DEF IInv, Pipeline, InFlight, Booting, Swapping, Running, NoBuild, BootListenMetrics,
      Binds, BindFails, ProcessEnds, appVars, buildVars, countVars, histVars
<1>4. ASSUME HandleHup PROVE Pipeline'
  BY <1>4, BoundsAssumption, SMTT(60)
  DEF IInv, Pipeline, InFlight, Booting, Swapping, Running, HandleHup, SameAs, appVars,
      earVars, buildVars, countVars, histVars, diskVars, TypeOK, Lifecycle, Builds, NoBuild
<1>5. ASSUME ReceiveConfig PROVE Pipeline'
  BY <1>5
  DEF IInv, Pipeline, InFlight, Booting, Swapping, Running, NoBuild, ReceiveConfig,
      appVars, earVars, buildVars, countVars, histVars, diskVars
<1>6. ASSUME SwapListen PROVE Pipeline'
  BY <1>6
  DEF IInv, Pipeline, InFlight, Booting, Swapping, Running, NoBuild, SwapListen, Binds,
      BindFails, Abandon, NewConfig, appVars, buildVars, countVars
<1>7. ASSUME SwapMetrics PROVE Pipeline'
  BY <1>7
  DEF IInv, Pipeline, InFlight, Booting, Swapping, Running, NoBuild, SwapMetrics, Binds,
      BindFails, Abandon, Commit, NewConfig, MetricsAfterSwap, appVars, buildVars,
      countVars
<1>8. ASSUME NEW b \in Builds, BuildFinishes(b) PROVE Pipeline'
  BY <1>8, BoundsAssumption
  DEF IInv, Pipeline, InFlight, Booting, Swapping, Running, BuildFinishes, appVars,
      earVars, diskVars, TypeOK, Lifecycle, Builds, NoBuild
<1>9. ASSUME NEW b \in Builds, Send(b) PROVE Pipeline'
  BY <1>9
  DEF IInv, Pipeline, InFlight, Booting, Swapping, Running, Send, appVars, earVars,
      countVars, histVars, diskVars
<1>10. ASSUME Idle PROVE Pipeline'
  BY <1>10, IdleFrame
  DEF IInv, Pipeline, InFlight, Running, Swapping
<1>11. ASSUME Exit PROVE Pipeline'
  BY <1>11
  DEF IInv, Pipeline, InFlight, Booting, Swapping, Running, NoBuild, Exit, ProcessEnds
<1>12. ASSUME Crash PROVE Pipeline'
  BY <1>12
  DEF IInv, Pipeline, InFlight, Booting, Swapping, Running, NoBuild, Crash, ProcessEnds,
      diskVars
<1> QED
  BY <1>1, <1>2, <1>3, <1>4, <1>5, <1>6, <1>7, <1>8, <1>9, <1>10, <1>11, <1>12 DEF Next, Idle

LEMMA EndsLifecycle == ASSUME ProcessEnds PROVE Lifecycle'
<1>1. NoProcess'
  BY DEF ProcessEnds, NoProcess
<1> QED
  BY <1>1 DEF ProcessEnds, Lifecycle, Booting

LEMMA LifecycleStep == ASSUME IInv, [Next]_vars PROVE Lifecycle'
<1>1. ASSUME Launch PROVE Lifecycle'
  BY <1>1, BoundsAssumption
  DEF IInv, TypeOK, Lifecycle, Pipeline, InFlight, Builds, NoProcess, LoadedCounts,
      Booting, Swapping, Running, NoBuild, Launch, appVars, earVars, buildVars, countVars,
      histVars, diskVars
<1>2. ASSUME BootListen PROVE Lifecycle'
  <2>1. CASE ~ProcessEnds
    BY <1>2, <2>1
    DEF IInv, Lifecycle, InFlight, LoadedCounts, Booting, BootListen, appVars, buildVars,
        countVars, histVars
  <2> QED
    BY <2>1, EndsLifecycle
<1>3. ASSUME BootListenMetrics PROVE Lifecycle'
  <2>1. CASE ~ProcessEnds
    BY <1>3, <2>1
    DEF IInv, Lifecycle, Booting, BootListenMetrics, appVars, buildVars
  <2> QED
    BY <2>1, EndsLifecycle
<1>4. ASSUME HandleHup PROVE Lifecycle'
  <2>1. /\ phase = "select" /\ phase' = "select" /\ UNCHANGED appVars
        /\ config \in Configs /\ metrics \in 1..born /\ builtFrom[metrics] \in Configs
    BY <1>4 DEF IInv, Lifecycle, HandleHup
  <2>2. metrics \in 1..born' /\ builtFrom'[metrics] = builtFrom[metrics]
    <3>1. CASE UNCHANGED buildVars
      BY <2>1, <3>1 DEF buildVars
    <3>2. CASE born' = born + 1 /\ \E c \in Configs : builtFrom' = [builtFrom EXCEPT ![born'] = c]
      BY <2>1, <3>2 DEF IInv, TypeOK, Builds
    <3> QED
      BY <1>4, <3>1, <3>2 DEF HandleHup
  <2> QED
    BY <2>1, <2>2 DEF Lifecycle, Booting, appVars
<1>5. ASSUME ReceiveConfig PROVE Lifecycle'
  BY <1>5
  DEF IInv, Lifecycle, InFlight, LoadedCounts, Booting, Swapping, Running, NoBuild,
      ReceiveConfig, appVars, earVars, buildVars, countVars, histVars, diskVars
<1>6. ASSUME SwapListen PROVE Lifecycle'
  BY <1>6
  DEF IInv, Lifecycle, InFlight, LoadedCounts, Booting, Swapping, Running, NoBuild,
      SwapListen, Binds, BindFails, Abandon, NewConfig, appVars, buildVars, countVars
<1>7. ASSUME SwapMetrics PROVE Lifecycle'
  BY <1>7, BoundsAssumption
  DEF IInv, TypeOK, Lifecycle, Pipeline, InFlight, Builds, NoProcess, LoadedCounts,
      Booting, Swapping, Running, NoBuild, SwapMetrics, Binds, BindFails, Abandon, Commit,
      NewConfig, MetricsAfterSwap, appVars, earVars, buildVars, countVars, histVars,
      diskVars
<1>8. ASSUME NEW b \in Builds, BuildFinishes(b) PROVE Lifecycle'
  BY <1>8, BoundsAssumption
  DEF IInv, TypeOK, Lifecycle, Pipeline, InFlight, Builds, NoProcess, LoadedCounts,
      Booting, Swapping, Running, NoBuild, BuildFinishes, appVars, earVars, buildVars,
      countVars, histVars, diskVars
<1>9. ASSUME NEW b \in Builds, Send(b) PROVE Lifecycle'
  BY <1>9, BoundsAssumption
  DEF IInv, TypeOK, Lifecycle, Pipeline, InFlight, Builds, NoProcess, LoadedCounts,
      Booting, Swapping, Running, NoBuild, Send, appVars, earVars, buildVars, countVars,
      histVars, diskVars
<1>10. ASSUME Idle PROVE Lifecycle'
  BY <1>10, IdleFrame
  DEF IInv, Lifecycle, NoProcess, InFlight, LoadedCounts, Booting, Running, Swapping
<1>11. ASSUME Exit PROVE Lifecycle'
  BY <1>11, EndsLifecycle DEF Exit
<1>12. ASSUME Crash PROVE Lifecycle'
  BY <1>12, EndsLifecycle DEF Crash
<1> QED
  BY <1>1, <1>2, <1>3, <1>4, <1>5, <1>6, <1>7, <1>8, <1>9, <1>10, <1>11, <1>12 DEF Next, Idle

LEMMA EarsStep == ASSUME IInv, [Next]_vars PROVE EarsInv'
<1>1. ASSUME Launch PROVE EarsInv'
  BY <1>1
  DEF IInv, EarsInv, EarsMatchConfig, NewConfig, Booting, Swapping, Running, NoBuild,
      Launch, earVars, diskVars
<1>2. ASSUME BootListen PROVE EarsInv'
  BY <1>2
  DEF IInv, EarsInv, EarsMatchConfig, NewConfig, Booting, Swapping, Running, NoBuild,
      BootListen, Binds, BindFails, ProcessEnds, appVars, buildVars, countVars, histVars
<1>3. ASSUME BootListenMetrics PROVE EarsInv'
  BY <1>3, BoundsAssumption
  DEF IInv, EarsInv, EarsMatchConfig, NewConfig, Booting, Swapping, Running, NoBuild,
      BootListenMetrics, Binds, BindFails, ProcessEnds, appVars, buildVars, countVars,
      histVars, TypeOK, Lifecycle, InFlight, Builds
<1>4. ASSUME HandleHup PROVE EarsInv'
  BY <1>4
  DEF IInv, EarsInv, EarsMatchConfig, NewConfig, Booting, Swapping, Running, HandleHup,
      SameAs, appVars, earVars, buildVars, countVars, histVars, diskVars
<1>5. ASSUME ReceiveConfig PROVE EarsInv'
  BY <1>5
  DEF IInv, EarsInv, EarsMatchConfig, NewConfig, Booting, Swapping, Running, NoBuild,
      ReceiveConfig, appVars, earVars, buildVars, countVars, histVars, diskVars
<1>6. ASSUME SwapListen PROVE EarsInv'
  <2>1. /\ newListener = NoAddr
        /\ incoming \in InFlight /\ NewConfig \in Configs
    BY <1>6 DEF IInv, EarsInv, Pipeline, SwapListen, Swapping, InFlight, NewConfig
  <2>2. NewConfig.listen # NoAddr
    BY <2>1, ConfigsAssumption, AddrsAssumption
  <2>3. listener = config.listen /\ metricsListener = config.metricsListen
    BY <1>6 DEF IInv, EarsInv, EarsMatchConfig, SwapListen, Running, Swapping
  <2>4. UNCHANGED <<config, listener, metricsListener, builtFrom>>
    BY <1>6 DEF SwapListen, Abandon, appVars, buildVars
  <2>5. CASE Abandon
    BY <2>3, <2>4, <2>5 DEF Abandon, EarsInv, EarsMatchConfig
  <2>6. CASE phase' = "swapMetrics" /\ UNCHANGED incoming
    BY <1>6, <2>1, <2>2, <2>3, <2>4, <2>6
    DEF SwapListen, Abandon, EarsInv, EarsMatchConfig, NewConfig
  <2> QED
    BY <1>6, <2>5, <2>6 DEF SwapListen
<1>7. ASSUME SwapMetrics PROVE EarsInv'
  BY <1>7
  DEF IInv, EarsInv, EarsMatchConfig, NewConfig, Booting, Swapping, Running, NoBuild,
      SwapMetrics, Binds, BindFails, Abandon, Commit, MetricsAfterSwap, appVars, buildVars,
      countVars
<1>8. ASSUME NEW b \in Builds, BuildFinishes(b) PROVE EarsInv'
  BY <1>8
  DEF IInv, EarsInv, EarsMatchConfig, NewConfig, Booting, Swapping, Running, BuildFinishes,
      appVars, earVars, diskVars
<1>9. ASSUME NEW b \in Builds, Send(b) PROVE EarsInv'
  BY <1>9
  DEF IInv, EarsInv, EarsMatchConfig, NewConfig, Booting, Swapping, Running, Send, appVars,
      earVars, countVars, histVars, diskVars
<1>10. ASSUME Idle PROVE EarsInv'
  BY <1>10, IdleFrame
  DEF IInv, EarsInv, EarsMatchConfig, NewConfig, Running, Swapping
<1>11. ASSUME Exit PROVE EarsInv'
  BY <1>11
  DEF IInv, EarsInv, EarsMatchConfig, NewConfig, Booting, Swapping, Running, NoBuild, Exit,
      ProcessEnds
<1>12. ASSUME Crash PROVE EarsInv'
  BY <1>12
  DEF IInv, EarsInv, EarsMatchConfig, NewConfig, Booting, Swapping, Running, NoBuild,
      Crash, ProcessEnds, diskVars
<1> QED
  BY <1>1, <1>2, <1>3, <1>4, <1>5, <1>6, <1>7, <1>8, <1>9, <1>10, <1>11, <1>12 DEF Next, Idle

LEMMA TallyStep == ASSUME IInv, [Next]_vars PROVE OneTally'
<1>1. ASSUME Launch PROVE OneTally'
  <2>1. conns' = [c \in Conns |-> Closed]
    BY <1>1 DEF IInv, Lifecycle, NoProcess, Launch
  <2> QED
    BY <2>1 DEF OneTally
<1>2. ASSUME BootListen PROVE OneTally'
  BY <1>2
  DEF IInv, OneTally, NoBuild, BootListen, Binds, BindFails, ProcessEnds, appVars,
      buildVars, countVars, histVars
<1>3. ASSUME BootListenMetrics PROVE OneTally'
  BY <1>3
  DEF IInv, OneTally, NoBuild, BootListenMetrics, Binds, BindFails, ProcessEnds, appVars,
      buildVars, countVars, histVars
<1>4. ASSUME HandleHup PROVE OneTally'
  BY <1>4
  DEF IInv, OneTally, HandleHup, SameAs, appVars, earVars, buildVars, countVars, histVars,
      diskVars
<1>5. ASSUME ReceiveConfig PROVE OneTally'
  BY <1>5
  DEF IInv, OneTally, NoBuild, ReceiveConfig, appVars, earVars, buildVars, countVars,
      histVars, diskVars
<1>6. ASSUME SwapListen PROVE OneTally'
  BY <1>6
  DEF IInv, OneTally, NoBuild, SwapListen, Binds, BindFails, Abandon, NewConfig, appVars,
      buildVars, countVars
<1>7. ASSUME SwapMetrics PROVE OneTally'
  BY <1>7
  DEF IInv, OneTally, NoBuild, SwapMetrics, Binds, BindFails, Abandon, Commit, NewConfig,
      MetricsAfterSwap, appVars, buildVars, countVars
<1>8. ASSUME NEW b \in Builds, BuildFinishes(b) PROVE OneTally'
  BY <1>8 DEF IInv, OneTally, BuildFinishes, appVars, earVars, diskVars
<1>9. ASSUME NEW b \in Builds, Send(b) PROVE OneTally'
  BY <1>9 DEF IInv, OneTally, Send, appVars, earVars, countVars, histVars, diskVars
<1>10. ASSUME NEW c \in Conns, Accept(c) PROVE OneTally'
  BY <1>10, BoundsAssumption
  DEF IInv, OneTally, Closed, Accept, appVars, earVars, buildVars, countVars, histVars,
      diskVars, TypeOK, Lifecycle, NoBuild
<1>11. ASSUME NEW c \in Conns, Serve(c) PROVE OneTally'
  BY <1>11
  DEF IInv, OneTally, Closed, Serve, appVars, earVars, buildVars, histVars, diskVars
<1>12. ASSUME NEW c \in Conns, Close(c) PROVE OneTally'
  BY <1>12
  DEF IInv, OneTally, Closed, Close, appVars, earVars, buildVars, countVars, histVars,
      diskVars
<1>13. ASSUME SignalArrives PROVE OneTally'
  BY <1>13
  DEF IInv, OneTally, SignalArrives, appVars, earVars, buildVars, countVars, histVars,
      diskVars
<1>14. ASSUME BeginShutdown PROVE OneTally'
  BY <1>14
  DEF IInv, OneTally, BeginShutdown, appVars, earVars, buildVars, countVars, histVars,
      diskVars
<1>15. ASSUME GraceExpires PROVE OneTally'
  BY <1>15
  DEF IInv, OneTally, GraceExpires, appVars, earVars, buildVars, countVars, histVars,
      diskVars
<1>16. ASSUME Exit PROVE OneTally'
  BY <1>16 DEF IInv, OneTally, NoBuild, Exit, ProcessEnds
<1>17. ASSUME Crash PROVE OneTally'
  BY <1>17 DEF IInv, OneTally, NoBuild, Crash, ProcessEnds, diskVars
<1>18. ASSUME NEW a \in UnixAddrs, CleanSocket(a) PROVE OneTally'
  BY <1>18 DEF IInv, OneTally, CleanSocket, appVars, earVars, buildVars, countVars, histVars
<1>19. ASSUME UNCHANGED vars PROVE OneTally'
  BY <1>19
  DEF IInv, OneTally, vars, appVars, earVars, buildVars, countVars, histVars, diskVars
<1> QED
  BY <1>1, <1>2, <1>3, <1>4, <1>5, <1>6, <1>7, <1>8, <1>9, <1>10, <1>11, <1>12, <1>13,
      <1>14, <1>15, <1>16, <1>17, <1>18, <1>19 DEF Next

LEMMA FreshStep == ASSUME IInv, [Next]_vars PROVE Freshness'
<1>1. ASSUME Launch PROVE Freshness'
  <2>1. NoProcess
    BY <1>1 DEF IInv, Lifecycle, Launch
  <2>2. InFlight' = {}
    BY <1>1, <2>1 DEF NoProcess, InFlight, Launch, Builds, NoBuild
  <2>3. asked' = config'
    BY <1>1 DEF Launch
  <2> QED
    BY <2>2, <2>3 DEF Freshness
<1>2. ASSUME BootListen PROVE Freshness'
  BY <1>2
  DEF IInv, Freshness, InFlight, NoBuild, BootListen, Binds, BindFails, ProcessEnds,
      appVars, buildVars, countVars, histVars
<1>3. ASSUME BootListenMetrics PROVE Freshness'
  BY <1>3
  DEF IInv, Freshness, InFlight, NoBuild, BootListenMetrics, Binds, BindFails, ProcessEnds,
      appVars, buildVars, countVars, histVars
<1>4. ASSUME HandleHup PROVE Freshness'
  <2>1. CASE UNCHANGED <<buildVars, histVars>>
    BY <1>4, <2>1 DEF IInv, Freshness, HandleHup, InFlight, appVars, buildVars, histVars
  <2>2. CASE ~UNCHANGED <<buildVars, histVars>>
    <3> PICK c \in Configs :
          /\ asked' = c /\ tangled' = (InFlight # {})
          /\ \/ SameAs(c) /\ UNCHANGED buildVars
             \/ /\ ~SameAs(c) /\ born < MaxBuilds
                /\ born' = born + 1
                /\ thread' = [thread EXCEPT ![born'] = "building"]
                /\ builtFrom' = [builtFrom EXCEPT ![born'] = c]
      BY <1>4, <2>2 DEF HandleHup
    <3>1. CASE InFlight # {}
      BY <3>1 DEF Freshness
    <3>2. CASE InFlight = {} /\ SameAs(c) /\ UNCHANGED buildVars
      BY <1>4, <3>2 DEF HandleHup, SameAs, Freshness, InFlight, appVars, buildVars
    <3>3. CASE /\ InFlight = {} /\ born < MaxBuilds
               /\ born' = born + 1
               /\ thread' = [thread EXCEPT ![born'] = "building"]
               /\ builtFrom' = [builtFrom EXCEPT ![born'] = c]
      <4>1. born' \in Builds
        BY <3>3, BoundsAssumption DEF IInv, TypeOK, Builds
      <4>2. InFlight' = {born'} /\ builtFrom'[born'] = c
        BY <1>4, <3>3, <4>1 DEF HandleHup, InFlight, IInv, TypeOK
      <4> QED
        BY <4>2 DEF Freshness
    <3> QED
      BY <3>1, <3>2, <3>3
  <2> QED
    BY <2>1, <2>2
<1>5. ASSUME ReceiveConfig PROVE Freshness'
  BY <1>5
  DEF IInv, Freshness, InFlight, NoBuild, ReceiveConfig, appVars, earVars, buildVars,
      countVars, histVars, diskVars
<1>6. ASSUME SwapListen PROVE Freshness'
  BY <1>6
  DEF IInv, Freshness, InFlight, NoBuild, SwapListen, Binds, BindFails, Abandon, NewConfig,
      appVars, buildVars, countVars
<1>7. ASSUME SwapMetrics PROVE Freshness'
  BY <1>7, BoundsAssumption
  DEF IInv, TypeOK, Freshness, Lifecycle, Pipeline, InFlight, Builds, Booting, Swapping,
      Running, NoBuild, SwapMetrics, Binds, BindFails, Abandon, Commit, NewConfig,
      MetricsAfterSwap, appVars, earVars, buildVars, countVars, histVars, diskVars
<1>8. ASSUME NEW b \in Builds, BuildFinishes(b) PROVE Freshness'
  BY <1>8, BoundsAssumption
  DEF IInv, Freshness, InFlight, BuildFinishes, appVars, earVars, diskVars, TypeOK,
      Lifecycle, Builds, NoBuild
<1>9. ASSUME NEW b \in Builds, Send(b) PROVE Freshness'
  BY <1>9, BoundsAssumption
  DEF IInv, Freshness, InFlight, Send, appVars, earVars, countVars, histVars, diskVars,
      TypeOK, Lifecycle, Builds, NoBuild
<1>10. ASSUME Idle PROVE Freshness'
  BY <1>10, IdleFrame
  DEF IInv, Freshness, InFlight
<1>11. ASSUME Exit PROVE Freshness'
  BY <1>11 DEF IInv, Freshness, InFlight, NoBuild, Exit, ProcessEnds
<1>12. ASSUME Crash PROVE Freshness'
  BY <1>12 DEF IInv, Freshness, InFlight, NoBuild, Crash, ProcessEnds, diskVars
<1> QED
  BY <1>1, <1>2, <1>3, <1>4, <1>5, <1>6, <1>7, <1>8, <1>9, <1>10, <1>11, <1>12 DEF Next, Idle

-----------------------------------------------------------------------------
LEMMA InitInv == ASSUME Init PROVE IInv
<1>1. TypeOK
  <2>1. FlagsOK
    BY DEF Init, NoProcess, FlagsOK
  <2> QED
    BY <2>1, ClosedType, NoLaunchType, BoundsAssumption DEF Init, NoProcess, TypeOK, NoBuild
<1>2. InFlight = {}
  BY DEF Init, NoProcess, InFlight, NoBuild
<1> QED
  BY <1>1, <1>2 DEF IInv, Init, NoProcess, Lifecycle, Pipeline, EarsInv, EarsMatchConfig,
    OneTally, Freshness, Booting, Swapping, Running

LEMMA StepInv == ASSUME IInv, [Next]_vars PROVE IInv'
  BY TypeStep, LifecycleStep, PipelineStep, EarsStep, TallyStep, FreshStep DEF IInv

\* The invariant of the event loop, in every reachable state.
THEOREM Invariance == Spec => []IInv
  BY InitInv, StepInv, PTL DEF Spec

\* Every variable stays in its domain.
THEOREM TypeCorrect == Spec => []TypeOK
  BY Invariance, PTL DEF IInv

\* A reload that fails half way leaves both listeners as they were.
THEOREM EarsCorrect == Spec => []EarsMatchConfig
<1>1. IInv => EarsMatchConfig
  BY DEF IInv, EarsInv
<1> QED
  BY <1>1, Invariance, PTL

\* All connections of a process count in the same place, whatever was reloaded.
THEOREM OneTallyCorrect == Spec => []OneTally
<1>1. IInv => OneTally
  BY DEF IInv
<1> QED
  BY <1>1, Invariance, PTL

\* A reload nothing interferes with ends with the configuration it read.
THEOREM FreshCorrect == Spec => []SerialReloadsAreFresh
<1>1. IInv => SerialReloadsAreFresh
  BY DEF IInv, Freshness, SerialReloadsAreFresh
<1> QED
  BY <1>1, Invariance, PTL

-----------------------------------------------------------------------------
\* Persisted files are written by Exit alone.
LEMMA SavedStep ==
  ASSUME Next, ~Exit
  PROVE  UNCHANGED saved
BY DEF Next, Launch, BootListen, BootListenMetrics, HandleHup, ReceiveConfig, SwapListen,
  SwapMetrics, BuildFinishes, Send, Accept, Serve, Close, SignalArrives, BeginShutdown,
  GraceExpires, Crash, CleanSocket, diskVars

\* What the Metrics in use have counted is what launch read and what was served
\* since, wherever reloads have moved the rest, and the file it was read from is
\* still as it was.
LaunchInv ==
  phase # "down" =>
    /\ Home = launched.path
    /\ tally[metrics] = launched.count + served
    /\ \A p \in Paths : p = launched.path => launched.count \in {0, saved[p]}

\* A step that leaves alone the Metrics in use.
LEMMA LaunchFrame ==
  ASSUME LaunchInv, phase # "down",
         UNCHANGED <<metrics, launched, served, saved>>,
         builtFrom'[metrics] = builtFrom[metrics], tally'[metrics] = tally[metrics]
  PROVE  LaunchInv'
BY DEF LaunchInv, Home

LEMMA LaunchStep == ASSUME IInv, LaunchInv, [Next]_vars PROVE LaunchInv'
<1>1. ASSUME Launch PROVE LaunchInv'
  <2> PICK c \in Configs :
        /\ metrics' = 1
        /\ builtFrom' = [builtFrom EXCEPT ![1] = c]
        /\ \E n \in LoadedCounts(c) :
             /\ tally' = [tally EXCEPT ![1] = n]
             /\ launched' = [path |-> c.persistPath, count |-> n]
    BY <1>1 DEF Launch
  <2> PICK n \in LoadedCounts(c) :
        /\ tally' = [tally EXCEPT ![1] = n]
        /\ launched' = [path |-> c.persistPath, count |-> n]
    OBVIOUS
  <2>1. served' = 0 /\ UNCHANGED saved /\ n \in Nat
    BY <1>1, LoadedType DEF Launch, diskVars, IInv, TypeOK, Lifecycle, NoProcess
  <2>2. builtFrom'[1] = c /\ tally'[1] = n
    BY BoundsAssumption DEF IInv, TypeOK, Builds
  <2>3. \A p \in Paths : p = c.persistPath => n \in {0, saved[p]}
    BY DEF LoadedCounts
  <2> QED
    BY <2>1, <2>2, <2>3 DEF LaunchInv, Home
<1>2. ASSUME ProcessEnds PROVE LaunchInv'
  BY <1>2 DEF ProcessEnds, LaunchInv
<1>3. ASSUME BootListen \/ BootListenMetrics, ~ProcessEnds PROVE LaunchInv'
  BY <1>3, LaunchFrame DEF BootListen, BootListenMetrics, Booting, appVars, buildVars, countVars
<1>4. ASSUME HandleHup PROVE LaunchInv'
  <2>1. metrics \in 1..born /\ UNCHANGED <<metrics, launched, served, saved, tally>>
    BY <1>4 DEF HandleHup, IInv, Lifecycle, appVars, countVars, diskVars
  <2>2. builtFrom'[metrics] = builtFrom[metrics]
    <3>1. CASE UNCHANGED buildVars
      BY <3>1 DEF buildVars
    <3>2. CASE born' = born + 1 /\ \E c \in Configs : builtFrom' = [builtFrom EXCEPT ![born'] = c]
      BY <2>1, <3>2 DEF IInv, TypeOK, Builds
    <3> QED
      BY <1>4, <3>1, <3>2 DEF HandleHup
  <2> QED
    BY <1>4, <2>1, <2>2, LaunchFrame DEF HandleHup
<1>5. ASSUME ReceiveConfig PROVE LaunchInv'
  BY <1>5, LaunchFrame DEF ReceiveConfig, appVars, buildVars, countVars, diskVars
<1>6. ASSUME SwapListen PROVE LaunchInv'
  BY <1>6, LaunchFrame DEF SwapListen, Abandon, appVars, buildVars, countVars
<1>7. ASSUME SwapMetrics PROVE LaunchInv'
  BY <1>7, LaunchFrame
  DEF SwapMetrics, Abandon, Commit, MetricsAfterSwap, appVars, buildVars, countVars
<1>8. ASSUME NEW b \in Builds, BuildFinishes(b) PROVE LaunchInv'
  <2>1. b # metrics
    BY <1>8 DEF BuildFinishes, InFlight, IInv, Pipeline
  <2>2. tally'[metrics] = tally[metrics]
    <3>1. tally' = tally \/ \E n \in Nat : tally' = [tally EXCEPT ![b] = n]
      BY <1>8, LoadedType DEF BuildFinishes, IInv
    <3>2. metrics \in Builds
      BY <1>8, BoundsAssumption DEF BuildFinishes, IInv, TypeOK, Lifecycle, NoProcess, Builds
    <3> QED
      BY <2>1, <3>1, <3>2 DEF IInv, TypeOK
  <2>3. phase # "down"
    BY <1>8 DEF BuildFinishes, IInv, Lifecycle, NoProcess
  <2> QED
    BY <1>8, <2>2, <2>3, LaunchFrame DEF BuildFinishes, appVars, diskVars
<1>9. ASSUME NEW b \in Builds, Send(b) PROVE LaunchInv'
  <2>1. phase # "down"
    BY <1>9 DEF Send, IInv, Lifecycle, NoProcess
  <2> QED
    BY <1>9, <2>1, LaunchFrame DEF Send, appVars, countVars, diskVars
<1>10. ASSUME NEW c \in Conns, Serve(c) PROVE LaunchInv'
  <2>1. conns[c].metrics = metrics
    BY <1>10 DEF Serve, Closed, IInv, OneTally
  <2>2. metrics \in Builds /\ phase # "down"
    BY <1>10, BoundsAssumption DEF Serve, Running, Swapping, IInv, TypeOK, Lifecycle, Builds
  <2>3. tally'[metrics] = tally[metrics] + 1 /\ served' = served + 1
    BY <1>10, <2>1, <2>2 DEF Serve, IInv, TypeOK
  <2>4. UNCHANGED <<metrics, builtFrom, launched, saved>>
    BY <1>10 DEF Serve, appVars, buildVars, diskVars
  <2>5. launched.count \in Nat /\ served \in Nat
    BY DEF IInv, TypeOK, Launches
  <2> QED
    BY <2>2, <2>3, <2>4, <2>5 DEF LaunchInv, Home
<1>11. ASSUME NEW c \in Conns, Accept(c) \/ Close(c) PROVE LaunchInv'
  BY <1>11, LaunchFrame
  DEF Accept, Close, Running, Swapping, appVars, buildVars, countVars, diskVars
<1>12. ASSUME SignalArrives \/ BeginShutdown \/ GraceExpires PROVE LaunchInv'
  BY <1>12, LaunchFrame
  DEF SignalArrives, BeginShutdown, GraceExpires, Running, Swapping, appVars, buildVars,
      countVars, diskVars
<1>13. ASSUME UNCHANGED <<phase, appVars, buildVars, countVars, saved>> PROVE LaunchInv'
  BY <1>13 DEF LaunchInv, Home, appVars, buildVars, countVars
<1>14. ASSUME NEW a \in UnixAddrs, CleanSocket(a) PROVE LaunchInv'
  BY <1>13, <1>14 DEF CleanSocket
<1>15. ASSUME UNCHANGED vars PROVE LaunchInv'
  BY <1>13, <1>15 DEF vars, diskVars
<1> QED
  BY <1>1, <1>2, <1>3, <1>4, <1>5, <1>6, <1>7, <1>8, <1>9, <1>10, <1>11, <1>12, <1>14, <1>15
  DEF Next, Exit, Crash

\* A file changes only at an orderly stop, and then holds what was read at the
\* start and every request since.
THEOREM CountsKeptCorrect == Spec => CountsAreKept
<1>1. Init => LaunchInv
  BY DEF Init, NoProcess, LaunchInv
<1>2. Spec => []LaunchInv
  BY <1>1, LaunchStep, Invariance, PTL DEF Spec
<1>3. ASSUME IInv, LaunchInv, [Next]_vars
      PROVE  KeepsCounts
  <2> SUFFICES ASSUME NEW p \in Paths, saved'[p] # saved[p]
               PROVE  /\ p = launched.path /\ launched.count \in {0, saved[p]}
                      /\ saved'[p] = launched.count + served
    BY DEF KeepsCounts
  <2>1. Exit
    BY <1>3, SavedStep DEF IInv, TypeOK, vars, diskVars
  <2>2. p = Home /\ saved'[p] = tally[metrics]
    BY <1>3, <2>1 DEF Exit, Persisted, IInv, TypeOK
  <2> QED
    BY <1>3, <2>1, <2>2 DEF LaunchInv, Exit
<1> QED
  BY <1>2, <1>3, Invariance, PTL DEF Spec, CountsAreKept

-----------------------------------------------------------------------------
(* The event loop implements the contract.                                 *)

Wanted == {builtFrom[b] : b \in InFlight}

\* A step the operator cannot see.
Quiet ==
  /\ UNCHANGED <<served, saved, Wanted>>
  /\ \/ /\ phase \in Running /\ phase' \in Running
        /\ UNCHANGED <<config, listener, metricsListener, Home, Base>>
     \/ phase \notin Running /\ phase' \notin Running

LEMMA QuietStutters == ASSUME Quiet PROVE UNCHANGED Contract!vars
  BY DEF Quiet, Wanted, Contract!vars

\* A configuration that leaves the pipeline is wanted no more, unless another
\* build of it is still in flight.
LEMMA OneLess ==
  ASSUME NEW f, NEW S, NEW T, NEW b \in S, T \subseteq S, S \subseteq T \cup {b}
  PROVE  {f[x] : x \in T} \in {{f[x] : x \in S}, {f[x] : x \in S} \ {f[b]}}
<1>1. CASE \E x \in T : f[x] = f[b]
  <2>1. {f[x] : x \in T} = {f[x] : x \in S}
    BY <1>1
  <2> QED
    BY <2>1
<1>2. CASE \A x \in T : f[x] # f[b]
  <2>1. {f[x] : x \in T} = {f[x] : x \in S} \ {f[b]}
    BY <1>2
  <2> QED
    BY <2>1
<1> QED
  BY <1>1, <1>2

\* One build less in the pipeline.
LEMMA ReleaseImplements ==
  ASSUME NEW b \in InFlight, UNCHANGED builtFrom,
         InFlight' \subseteq InFlight, InFlight \subseteq InFlight' \cup {b}
  PROVE  Wanted' \in {Wanted, Wanted \ {builtFrom[b]}}
<1>1. Wanted' = {builtFrom[x] : x \in InFlight'}
  BY DEF Wanted
<1> QED
  BY <1>1, OneLess DEF Wanted

\* A build that ends without effect is a refusal.
LEMMA RefusalImplements ==
  ASSUME IInv, phase \in Running, phase' \in Running, NEW b \in InFlight,
         UNCHANGED <<config, listener, metricsListener, Home, Base, served, saved, builtFrom>>,
         InFlight' \subseteq InFlight, InFlight \subseteq InFlight' \cup {b}
  PROVE  Quiet \/ Contract!Next
<1>1. CASE Wanted' = Wanted
  BY <1>1 DEF Quiet
<1>2. CASE Wanted' = Wanted \ {builtFrom[b]}
  <2> PICK c \in Configs : c = builtFrom[b]
    BY DEF IInv, Pipeline
  <2>1. Contract!Up
    BY ConfigsAssumption DEF IInv, Lifecycle, Contract!Up, Running, Swapping
  <2>2. c \in Wanted
    BY DEF Wanted
  <2>3. Contract!Refuse(c)
    BY <1>2, <2>1, <2>2 DEF Contract!Refuse, Wanted
  <2> QED
    BY <2>3 DEF Contract!Next
<1> QED
  BY <1>1, <1>2, ReleaseImplements

LEMMA AbandonImplements ==
  ASSUME IInv, phase \in Swapping, phase' \in Running,
         incoming' = NoBuild, UNCHANGED <<thread, channel>>,
         UNCHANGED <<config, listener, metricsListener, Home, Base, served, saved, builtFrom>>
  PROVE  Quiet \/ Contract!Next
<1>1. incoming \in InFlight
  BY DEF IInv, Pipeline, InFlight
<1>2. InFlight' \subseteq InFlight /\ InFlight \subseteq InFlight' \cup {incoming}
  BY DEF InFlight
<1>3. phase \in Running
  BY DEF Running
<1> QED
  BY <1>1, <1>2, <1>3, RefusalImplements

LEMMA InitImplements == ASSUME Init PROVE Contract!Init
<1>1. InFlight = {}
  BY DEF Init, NoProcess, InFlight, NoBuild
<1> QED
  BY <1>1 DEF Init, NoProcess, Running, Swapping, Contract!Init, Contract!Deaf

LEMMA EndImplements ==
  ASSUME IInv, ProcessEnds, phase \in Running,
         \/ UNCHANGED saved
         \/ Home \in Paths /\ saved' = [saved EXCEPT ![Home] = Persisted]
  PROVE  Contract!Next
<1>1. InFlight' = {} /\ phase' \notin Running
  BY DEF ProcessEnds, InFlight, NoBuild, Running, Swapping
<1>2. Contract!Over
  BY <1>1 DEF ProcessEnds, Contract!Over, Contract!Deaf
<1>3. Contract!Up
  BY ConfigsAssumption DEF IInv, Lifecycle, Contract!Up, Running, Swapping
<1>4. CASE UNCHANGED saved
  BY <1>2, <1>3, <1>4 DEF Contract!Next, Contract!Vanish
<1>5. CASE Home \in Paths /\ saved' = [saved EXCEPT ![Home] = Persisted]
  <2>1. Base + served = Persisted
    <3>1. metrics \in Builds
      BY BoundsAssumption DEF IInv, TypeOK, Lifecycle, Running, Swapping, Builds
    <3> QED
      BY <3>1 DEF Base, Persisted, IInv, TypeOK
  <2> QED
    BY <1>2, <1>3, <1>5, <2>1 DEF Contract!Next, Contract!Stop
<1> QED
  BY <1>4, <1>5

LEMMA StepImplements ==
  ASSUME IInv, [Next]_vars
  PROVE  [Contract!Next]_(Contract!vars)
<1>1. ASSUME Launch PROVE Quiet
  <2>1. NoProcess
    BY <1>1 DEF IInv, Lifecycle, Launch
  <2>2. InFlight = {} /\ InFlight' = {}
    BY <1>1, <2>1 DEF NoProcess, InFlight, Launch, NoBuild
  <2>3. Wanted = {} /\ Wanted' = {}
    BY <2>2 DEF Wanted
  <2> QED
    BY <1>1, <2>3 DEF Quiet, Launch, Running, Swapping, diskVars
<1>2. ASSUME BootListen PROVE Quiet
  <2>1. InFlight = {} /\ served = 0
    BY <1>2 DEF IInv, Lifecycle, BootListen, Booting
  <2>2. InFlight' = {} /\ served' = 0
    BY <1>2, <2>1 DEF BootListen, ProcessEnds, InFlight, NoBuild, appVars, earVars,
        buildVars, countVars, histVars, diskVars
  <2>3. Wanted = {} /\ Wanted' = {}
    BY <2>1, <2>2 DEF Wanted
  <2> QED
    BY <1>2, <2>1, <2>2, <2>3 DEF Quiet, BootListen, ProcessEnds, Running, Swapping
<1>3. ASSUME BootListenMetrics PROVE Quiet \/ Contract!Next
  <2>1. /\ InFlight = {} /\ served = 0 /\ config \in Configs /\ builtFrom[metrics] = config
        /\ listener = config.listen /\ tally[metrics] \in LoadedCounts(config)
        /\ phase \notin Running
    BY <1>3 DEF IInv, Lifecycle, BootListenMetrics, Booting, Running, Swapping
  <2>2. InFlight' = {} /\ served' = 0 /\ UNCHANGED saved
    BY <1>3, <2>1 DEF BootListenMetrics, ProcessEnds, InFlight, NoBuild, appVars, earVars,
        buildVars, countVars, histVars, diskVars
  <2>3. CASE phase' # "select"
    <3>1. Wanted = {} /\ Wanted' = {}
      BY <2>1, <2>2 DEF Wanted
    <3> QED
      BY <1>3, <2>1, <2>2, <2>3, <3>1
      DEF Quiet, BootListenMetrics, ProcessEnds, Running, Swapping
  <2>4. CASE phase' = "select"
    <3>1. /\ UNCHANGED <<appVars, listener, buildVars, countVars>>
          /\ metricsListener' = config.metricsListen
      BY <1>3, <2>4 DEF BootListenMetrics, ProcessEnds
    <3>2. phase' \in Running
      BY <2>4 DEF Running
    <3>3. Base' \in {0} \cup {saved[p] : p \in Paths \cap {config.persistPath}}
      <4>1. metrics \in Builds
        BY <1>3, BoundsAssumption DEF BootListenMetrics, IInv, TypeOK, Lifecycle, Builds
      <4>2. Base' = tally[metrics]
        BY <2>1, <3>1, <4>1 DEF Base, appVars, countVars, IInv, TypeOK
      <4> QED
        BY <2>1, <4>2 DEF LoadedCounts
    <3>4. Home' = config.persistPath
      BY <2>1, <3>1 DEF Home, appVars, buildVars
    <3> PICK c \in Configs : c = config
      BY <2>1
    <3>5. Wanted' = {}
      BY <2>2 DEF Wanted
    <3>6. Contract!Start(c)
      BY <2>1, <2>2, <3>1, <3>2, <3>3, <3>4, <3>5
      DEF Contract!Start, Contract!Up, Contract!EarsOf, appVars, Wanted
    <3> QED
      BY <3>6 DEF Contract!Next
  <2> QED
    BY <2>3, <2>4
<1>4. ASSUME HandleHup PROVE Quiet \/ Contract!Next
  <2>1. /\ phase = "select" /\ phase' = "select"
        /\ UNCHANGED <<appVars, earVars, incoming, channel, countVars, saved>>
    BY <1>4 DEF HandleHup, diskVars
  <2>2. CASE UNCHANGED buildVars
    BY <2>1, <2>2 DEF Quiet, Wanted, InFlight, Running, Home, Base, appVars, earVars,
        buildVars, countVars, histVars, diskVars
  <2>3. CASE ~UNCHANGED buildVars
    <3> PICK c \in Configs :
          /\ born < MaxBuilds
          /\ born' = born + 1
          /\ thread' = [thread EXCEPT ![born'] = "building"]
          /\ builtFrom' = [builtFrom EXCEPT ![born'] = c]
      BY <1>4, <2>3 DEF HandleHup
    <3>1. born' \in Builds /\ metrics \in 1..born /\ \A b \in InFlight : b \in 1..born
      BY <2>1, BoundsAssumption DEF IInv, TypeOK, Lifecycle, Pipeline, Builds
    <3>2. InFlight' = InFlight \cup {born'}
      BY <2>1, <3>1 DEF InFlight, IInv, TypeOK
    <3>3. /\ builtFrom'[born'] = c
          /\ \A b \in InFlight \cup {metrics} : builtFrom'[b] = builtFrom[b]
      BY <3>1 DEF IInv, TypeOK, Builds
    <3>4. Wanted' = Wanted \cup {c}
      BY <3>2, <3>3 DEF Wanted
    <3>5. UNCHANGED <<Home, Base, config, listener, metricsListener, served>>
      BY <2>1, <3>3 DEF Home, Base, appVars, earVars, countVars
    <3>6. Contract!Up
      BY <2>1, ConfigsAssumption DEF IInv, Lifecycle, Contract!Up, Running
    <3>7. Contract!Ask(c)
      BY <2>1, <3>4, <3>5, <3>6 DEF Contract!Ask, Wanted, Running, diskVars
    <3> QED
      BY <3>7 DEF Contract!Next
  <2> QED
    BY <2>2, <2>3
<1>5. ASSUME ReceiveConfig PROVE Quiet
  <2>1. InFlight' = InFlight
    BY <1>5 DEF ReceiveConfig, InFlight, buildVars, IInv, Pipeline, Swapping
  <2> QED
    BY <1>5, <2>1 DEF Quiet, ReceiveConfig, Wanted, Running, Swapping, Home, Base, appVars,
        earVars, buildVars, countVars, histVars, diskVars
<1>6. ASSUME SwapListen PROVE Quiet \/ Contract!Next
  <2>1. /\ phase \in Swapping /\ phase' \in Running
        /\ UNCHANGED <<config, listener, metricsListener, Home, Base, served, saved,
                        builtFrom, thread, channel>>
    BY <1>6 DEF SwapListen, Abandon, Running, Swapping, Home, Base, appVars, earVars,
        buildVars, countVars, histVars, diskVars
  <2>2. CASE UNCHANGED incoming
    BY <2>1, <2>2 DEF Quiet, Wanted, InFlight, Running
  <2>3. CASE Abandon
    BY <2>1, <2>3, AbandonImplements DEF Abandon
  <2> QED
    BY <1>6, <2>2, <2>3 DEF SwapListen
<1>7. ASSUME SwapMetrics PROVE Quiet \/ Contract!Next
  <2>1. /\ phase \in Swapping /\ phase' = "select"
        /\ UNCHANGED <<Home, Base, served, saved, builtFrom, thread, channel>>
        /\ incoming' = NoBuild
    BY <1>7 DEF SwapMetrics, Abandon, Commit, MetricsAfterSwap, Swapping, Home, Base,
        appVars, earVars, buildVars, countVars, histVars, diskVars
  <2>2. CASE Abandon
    BY <2>1, <2>2, AbandonImplements DEF Abandon, Running, appVars
  <2>3. CASE Commit
    <3>1. incoming \in InFlight /\ NewConfig \in Configs
      BY <2>1 DEF IInv, Pipeline, InFlight, NewConfig
    <3>2. InFlight' \subseteq InFlight /\ InFlight \subseteq InFlight' \cup {incoming}
      BY <2>1 DEF InFlight
    <3>3. Wanted' \in {Wanted, Wanted \ {NewConfig}} /\ NewConfig \in Wanted
      BY <2>1, <3>1, <3>2, ReleaseImplements DEF NewConfig, Wanted
    <3>4. listener' = NewConfig.listen /\ metricsListener' = NewConfig.metricsListen
      BY <1>7, <2>3
      DEF SwapMetrics, Commit, IInv, EarsInv, EarsMatchConfig, Running, Swapping
    <3>5. Contract!Up
      BY <2>1, ConfigsAssumption DEF IInv, Lifecycle, Contract!Up, Running, Swapping
    <3> PICK c \in Configs : c = NewConfig
      BY <3>1
    <3>6. config' = c
      BY <2>3 DEF Commit
    <3>7. Contract!Reload(c)
      BY <2>1, <3>3, <3>4, <3>5, <3>6 DEF Contract!Reload, Contract!EarsOf, Wanted, Running
    <3> QED
      BY <3>7 DEF Contract!Next
  <2> QED
    BY <1>7, <2>2, <2>3 DEF SwapMetrics
<1>8. ASSUME NEW b \in Builds, BuildFinishes(b) PROVE Quiet \/ Contract!Next
  <2>1. /\ b \in InFlight /\ b # metrics
        /\ phase # "down" /\ phase \notin Booting
    BY <1>8 DEF BuildFinishes, InFlight, IInv, Pipeline, Lifecycle, NoProcess
  <2>2. /\ phase \in Running /\ phase' \in Running
        /\ UNCHANGED <<config, listener, metricsListener, metrics, builtFrom, served, saved>>
    BY <1>8, <2>1 DEF BuildFinishes, IInv, TypeOK, appVars, earVars, diskVars
  <2>3. UNCHANGED Base /\ UNCHANGED Home
    <3>1. metrics \in Builds
      BY <2>1, BoundsAssumption DEF IInv, TypeOK, Lifecycle, Builds
    <3>2. tally'[metrics] = tally[metrics]
      BY <1>8, <2>1, <3>1 DEF BuildFinishes, IInv, TypeOK
    <3> QED
      BY <2>2, <3>2 DEF Base, Home
  <2>4. CASE thread' = [thread EXCEPT ![b] = "sending"]
    <3>1. InFlight' = InFlight
      BY <1>8, <2>4 DEF BuildFinishes, InFlight, IInv, TypeOK
    <3> QED
      BY <2>2, <2>3, <3>1 DEF Quiet, Wanted
  <2>5. CASE thread' = [thread EXCEPT ![b] = "none"]
    <3>1. InFlight' \subseteq InFlight /\ InFlight \subseteq InFlight' \cup {b}
      BY <1>8, <2>5 DEF BuildFinishes, InFlight, IInv, TypeOK
    <3> QED
      BY <2>1, <2>2, <2>3, <3>1, RefusalImplements
  <2> QED
    BY <1>8, <2>4, <2>5 DEF BuildFinishes
<1>9. ASSUME NEW b \in Builds, Send(b) PROVE Quiet
  <2>1. InFlight' = InFlight
    BY <1>9 DEF Send, InFlight, IInv, TypeOK, NoBuild, Builds
  <2>2. phase # "down" /\ phase \notin Booting
    BY <1>9 DEF Send, InFlight, IInv, Lifecycle, NoProcess
  <2> QED
    BY <1>9, <2>1, <2>2 DEF Quiet, Send, Wanted, IInv, TypeOK, Home, Base, appVars,
        earVars, buildVars, countVars, histVars, diskVars
<1>10. ASSUME NEW c \in Conns, Accept(c) PROVE Quiet
  BY <1>10 DEF Quiet, Wanted, Accept, InFlight, Running, Home, Base, appVars, earVars,
      buildVars, countVars, histVars, diskVars
<1>11. ASSUME NEW c \in Conns, Serve(c) PROVE Contract!Next
  <2>1. phase \in Running /\ UNCHANGED phase /\ metrics \in Builds
    BY <1>11, BoundsAssumption DEF Serve, IInv, TypeOK, Lifecycle, Builds, Running, Swapping
  <2>2. tally' = [tally EXCEPT ![metrics] = @ + 1] /\ served' = served + 1
    <3>1. conns[c] # Closed
      BY <1>11 DEF Serve, Closed
    <3>2. conns[c].metrics = metrics
      BY <3>1 DEF IInv, OneTally
    <3> QED
      BY <1>11, <3>2 DEF Serve
  <2>3. UNCHANGED Base
    BY <1>11, <2>1, <2>2 DEF Serve, Base, appVars, IInv, TypeOK
  <2>4. UNCHANGED <<config, listener, metricsListener, Home, Wanted, saved>>
    BY <1>11 DEF Serve, Home, Wanted, InFlight, appVars, earVars, buildVars, countVars,
        histVars, diskVars
  <2>5. Contract!Up
    BY <2>1, ConfigsAssumption DEF IInv, Lifecycle, Contract!Up, Running, Swapping
  <2>6. Contract!Serve
    BY <2>1, <2>2, <2>3, <2>4, <2>5 DEF Contract!Serve, Wanted
  <2> QED
    BY <2>6 DEF Contract!Next
<1>12. ASSUME NEW c \in Conns, Close(c) PROVE Quiet
  BY <1>12 DEF Quiet, Wanted, Close, InFlight, Running, Home, Base, appVars, earVars,
      buildVars, countVars, histVars, diskVars
<1>13. ASSUME SignalArrives PROVE Quiet
  BY <1>13 DEF Quiet, Wanted, SignalArrives, InFlight, Running, Home, Base, appVars,
      earVars, buildVars, countVars, histVars, diskVars
<1>14. ASSUME BeginShutdown PROVE Quiet
  BY <1>14 DEF Quiet, Wanted, BeginShutdown, InFlight, Running, Home, Base, appVars,
      earVars, buildVars, countVars, histVars, diskVars
<1>15. ASSUME GraceExpires PROVE Quiet
  BY <1>15 DEF Quiet, Wanted, GraceExpires, InFlight, Running, Home, Base, appVars,
      earVars, buildVars, countVars, histVars, diskVars
<1>16. ASSUME Exit PROVE Contract!Next
  BY <1>16, EndImplements DEF Exit, Running
<1>17. ASSUME Crash PROVE Quiet \/ Contract!Next
  <2>1. CASE phase \in Running
    BY <1>17, <2>1, EndImplements DEF Crash, diskVars
  <2>2. CASE phase \in Booting
    <3>1. InFlight = {} /\ InFlight' = {} /\ served = 0 /\ served' = 0
      BY <1>17, <2>2 DEF Crash, ProcessEnds, InFlight, NoBuild, IInv, Lifecycle
    <3>2. Wanted = {} /\ Wanted' = {}
      BY <3>1 DEF Wanted
    <3> QED
      BY <1>17, <2>2, <3>1, <3>2
      DEF Quiet, Crash, ProcessEnds, Booting, Running, Swapping, diskVars
  <2> QED
    BY <1>17, <2>1, <2>2 DEF Crash, IInv, TypeOK
<1>18. ASSUME NEW a \in UnixAddrs, CleanSocket(a) PROVE Quiet
  BY <1>18 DEF Quiet, Wanted, CleanSocket, InFlight, Home, Base, appVars, earVars,
      buildVars, countVars, histVars, diskVars
<1>19. ASSUME UNCHANGED vars PROVE Quiet
  BY <1>19 DEF Quiet, Wanted, vars, InFlight, Home, Base, appVars, earVars, buildVars,
      countVars, histVars, diskVars
<1> QED
  BY QuietStutters, <1>1, <1>2, <1>3, <1>4, <1>5, <1>6, <1>7, <1>8, <1>9, <1>10, <1>11,
      <1>12, <1>13, <1>14, <1>15, <1>16, <1>17, <1>18, <1>19 DEF Next

\* Reloads are all or nothing, lose no request, and an orderly stop persists
\* what was loaded and counted: the whole contract, for every instance.
THEOREM ContractImplemented == Spec => ImplementsContract
<1>1. IInv /\ [Next]_vars => [Contract!Next]_(Contract!vars)
  BY StepImplements
<1>2. Init => Contract!Init
  BY InitImplements
<1> QED
  BY <1>1, <1>2, Invariance, PTL DEF Spec, ImplementsContract, Contract!Spec
=============================================================================
