------------------------------- MODULE Server -------------------------------
(***************************************************************************)
(* The process of main.rs: start-up, the select loop, reloading on SIGHUP  *)
(* through builder threads and a channel of capacity one, the two awaits   *)
(* of swap_configs, connections that keep the Arc<Mutex<Metrics>> they     *)
(* were accepted with, graceful shutdown, persisting the counts, crash and *)
(* restart.                                                                *)
(*                                                                         *)
(* The runtime has one thread, so everything between two awaits of the     *)
(* main task or of a connection is one step; builder threads and the       *)
(* operating system interleave anywhere.  An AppConfig is known by the     *)
(* number of the from_config call that made it, and so is the Metrics      *)
(* value that call allocates: metrics of one build can end up inside the   *)
(* AppConfig of another.  All the counters of a Metrics value are one      *)
(* number here, the requests it counted (module Metrics has the counters). *)
(***************************************************************************)
EXTENDS Integers

CONSTANTS Configs,        \* contents of the config file that parse
          NoConfig,       \* no configuration
          TcpAddrs,       \* addresses SocketAddr parses
          UnixAddrs,      \* "unix:" addresses, each a path of a socket file
          NoAddr,         \* not listening
          Paths,          \* persist-path values
          NoPath,         \* persist-path not configured
          Conns,          \* connections
          MaxBuilds,      \* bound: from_config calls of one process
          MaxTally        \* bound: requests a Metrics value counts

Addrs == TcpAddrs \cup UnixAddrs

ASSUME AddrsAssumption ==
  /\ NoAddr \notin Addrs
  /\ TcpAddrs \cap UnixAddrs = {}

ASSUME ConfigsAssumption ==
  /\ NoConfig \notin Configs
  /\ NoPath \notin Paths
  /\ \A c \in Configs : /\ c.listen \in Addrs
                        /\ c.metricsListen \in Addrs \cup {NoAddr}
                        /\ c.persistPath \in Paths \cup {NoPath}

ASSUME BoundsAssumption == MaxBuilds \in Nat \ {0} /\ MaxTally \in Nat

Builds  == 1..MaxBuilds
NoBuild == 0

VARIABLES
  phase,           \* where main() is
  config,          \* app_config.config
  metrics,         \* app_config.metrics: the build that allocated it
  listener,        \* address bound by listener
  metricsListener, \* address bound by metrics_listener, NoAddr for None
  newListener,     \* swap_configs: new_listener, NoAddr for None
  incoming,        \* swap_configs: new_app_config
  channel,         \* the config_reload channel, of capacity one
  thread,          \* per build: the builder thread
  builtFrom,       \* per build: the Config given to from_config
  tally,           \* per build: requests counted by the Metrics it allocated
  born,            \* from_config calls of this process
  conns,           \* per connection: the service it was given
  hup, term,       \* a pending SIGHUP; a pending SIGTERM or ctrl-c
  graceOver,       \* the five seconds of the shutdown have passed
  sockFiles,       \* Unix socket files that exist on disk
  saved,           \* requests in each persisted file, 0 when there is none
  served,          \* history: requests counted by this process
  launched,        \* history: the persist-path it was started with, and what it read there
  asked,           \* history: config of the last readable SIGHUP, NoConfig once refused
  tangled          \* history: that SIGHUP came while another reload was in flight

appVars   == <<config, metrics>>
earVars   == <<listener, metricsListener, newListener>>
buildVars == <<thread, builtFrom, born>>
countVars == <<tally, served, launched>>
histVars  == <<asked, tangled>>
diskVars  == <<sockFiles, saved>>
vars == <<phase, appVars, earVars, incoming, channel, buildVars, countVars,
          conns, hup, term, graceOver, diskVars, histVars>>

Booting  == {"bootListen", "bootMetrics"}
Swapping == {"swapListen", "swapMetrics"}
Running  == {"select", "drain"} \cup Swapping

Closed == [svc |-> "closed", metrics |-> NoBuild]
ConnStates ==
  {Closed} \cup [svc : {"psl", "metrics"}, metrics : Builds]

Launches == [path : Paths \cup {NoPath}, count : Nat]
NoLaunch == [path |-> NoPath, count |-> 0]

FlagsOK ==
  /\ hup \in BOOLEAN /\ term \in BOOLEAN
  /\ graceOver \in BOOLEAN /\ tangled \in BOOLEAN

TypeOK ==
  /\ phase \in {"down"} \cup Booting \cup Running
  /\ config \in Configs \cup {NoConfig}
  /\ metrics \in Builds \cup {NoBuild}
  /\ listener \in Addrs \cup {NoAddr}
  /\ metricsListener \in Addrs \cup {NoAddr}
  /\ newListener \in Addrs \cup {NoAddr}
  /\ incoming \in Builds \cup {NoBuild}
  /\ channel \in Builds \cup {NoBuild}
  /\ thread \in [Builds -> {"none", "building", "sending"}]
  /\ builtFrom \in [Builds -> Configs \cup {NoConfig}]
  /\ tally \in [Builds -> Nat]
  /\ born \in 0..MaxBuilds
  /\ conns \in [Conns -> ConnStates]
  /\ FlagsOK
  /\ sockFiles \in SUBSET UnixAddrs
  /\ saved \in [Paths -> Nat]
  /\ served \in Nat
  /\ launched \in Launches
  /\ asked \in Configs \cup {NoConfig}

NoProcess ==
  /\ phase = "down"
  /\ config = NoConfig /\ metrics = NoBuild
  /\ listener = NoAddr /\ metricsListener = NoAddr /\ newListener = NoAddr
  /\ incoming = NoBuild /\ channel = NoBuild
  /\ thread = [b \in Builds |-> "none"]
  /\ builtFrom = [b \in Builds |-> NoConfig]
  /\ tally = [b \in Builds |-> 0]
  /\ born = 0
  /\ conns = [c \in Conns |-> Closed]
  /\ hup = FALSE /\ term = FALSE /\ graceOver = FALSE
  /\ served = 0 /\ launched = NoLaunch
  /\ asked = NoConfig /\ tangled = FALSE

Init ==
  /\ NoProcess
  /\ sockFiles = {}
  /\ saved = [p \in Paths |-> 0]

\* The process is gone: memory, threads, connections and bound ports go with
\* it; socket files and persisted files stay.
ProcessEnds ==
  /\ phase' = "down"
  /\ config' = NoConfig /\ metrics' = NoBuild
  /\ listener' = NoAddr /\ metricsListener' = NoAddr /\ newListener' = NoAddr
  /\ incoming' = NoBuild /\ channel' = NoBuild
  /\ thread' = [b \in Builds |-> "none"]
  /\ builtFrom' = [b \in Builds |-> NoConfig]
  /\ tally' = [b \in Builds |-> 0]
  /\ born' = 0
  /\ conns' = [c \in Conns |-> Closed]
  /\ hup' = FALSE /\ term' = FALSE /\ graceOver' = FALSE
  /\ served' = 0 /\ launched' = NoLaunch
  /\ asked' = NoConfig /\ tangled' = FALSE

-----------------------------------------------------------------------------
(* Binding an address (listeners.rs).                                      *)

Held == {listener, metricsListener, newListener}

\* A port is taken while a listener of this process has it; a socket path is
\* taken while the file exists, whoever made it: nothing in the code unlinks.
CanBind(a) == IF a \in UnixAddrs THEN a \notin sockFiles ELSE a \notin Held

Binds(a) ==
  /\ CanBind(a)
  /\ sockFiles' = sockFiles \cup ({a} \cap UnixAddrs)

\* bind may fail for any reason of the operating system; for a socket path
\* set_permissions may also fail after bind made the file, which then stays.
BindFails(a) ==
  sockFiles' \in {sockFiles} \cup
    (IF CanBind(a) THEN {sockFiles \cup ({a} \cap UnixAddrs)} ELSE {})

-----------------------------------------------------------------------------
(* Metrics::init_metrics: the count a new Metrics value starts from.  A    *)
(* file that cannot be read or parsed is logged and counts as empty.       *)

LoadedCounts(c) ==
  {0} \cup {saved[p] : p \in Paths \cap {c.persistPath}}

-----------------------------------------------------------------------------
(* Start-up.                                                               *)

\* Read the config file and build the first AppConfig.  When either fails the
\* process exits before it changed anything.
Launch ==
  /\ phase = "down"
  /\ \E c \in Configs :
       /\ phase' = "bootListen"
       /\ config' = c /\ metrics' = 1 /\ born' = 1
       /\ builtFrom' = [builtFrom EXCEPT ![1] = c]
       /\ \E n \in LoadedCounts(c) :
            /\ tally' = [tally EXCEPT ![1] = n]
            /\ launched' = [path |-> c.persistPath, count |-> n]
       /\ asked' = c
  /\ UNCHANGED <<earVars, incoming, channel, thread, conns, hup, term,
                 graceOver, diskVars, served, tangled>>

BootListen ==
  /\ phase = "bootListen"
  /\ UNCHANGED saved
  /\ \/ /\ Binds(config.listen)
        /\ listener' = config.listen
        /\ phase' = "bootMetrics"
        /\ UNCHANGED <<appVars, metricsListener, newListener, incoming, channel,
                       buildVars, countVars, conns, hup, term, graceOver, histVars>>
     \/ BindFails(config.listen) /\ ProcessEnds

BootListenMetrics ==
  /\ phase = "bootMetrics"
  /\ UNCHANGED saved
  /\ \/ /\ \/ config.metricsListen = NoAddr /\ UNCHANGED sockFiles
           \/ config.metricsListen # NoAddr /\ Binds(config.metricsListen)
        /\ metricsListener' = config.metricsListen
        /\ phase' = "select"
        /\ UNCHANGED <<appVars, listener, newListener, incoming, channel,
                       buildVars, countVars, conns, hup, term, graceOver, histVars>>
     \/ /\ config.metricsListen # NoAddr
        /\ BindFails(config.metricsListen)
        /\ ProcessEnds

-----------------------------------------------------------------------------
(* Reloading.                                                              *)

\* from_config calls whose outcome this process has not settled yet.
InFlight ==
  {b \in Builds : thread[b] # "none"} \cup ({channel, incoming} \ {NoBuild})

SameAddress(c) == config.listen = c.listen

\* AppConfig::same_as: against the configuration in force, not against one
\* that is on its way.
SameAs(c) == config = c

\* reload_config in the select loop: read the file, whatever it holds now.
HandleHup ==
  /\ phase = "select" /\ hup
  /\ hup' = FALSE
  /\ \/ UNCHANGED <<buildVars, histVars>>            \* does not read or parse
     \/ \E c \in Configs :
          /\ asked' = c /\ tangled' = (InFlight # {})
          /\ \/ SameAs(c) /\ UNCHANGED buildVars
             \/ /\ ~SameAs(c) /\ born < MaxBuilds
                /\ born' = born + 1
                /\ thread' = [thread EXCEPT ![born'] = "building"]
                /\ builtFrom' = [builtFrom EXCEPT ![born'] = c]
  /\ UNCHANGED <<phase, appVars, earVars, incoming, channel, countVars, conns,
                 term, graceOver, diskVars>>

\* from_config in its thread; the classifier's or the garbage's files may be
\* missing or malformed.
BuildFinishes(b) ==
  /\ thread[b] = "building"
  /\ \/ /\ thread' = [thread EXCEPT ![b] = "sending"]
        /\ \E n \in LoadedCounts(builtFrom[b]) : tally' = [tally EXCEPT ![b] = n]
        /\ UNCHANGED asked
     \/ /\ thread' = [thread EXCEPT ![b] = "none"]
        /\ asked' = NoConfig
        /\ UNCHANGED tally
  /\ UNCHANGED <<phase, appVars, earVars, incoming, channel, builtFrom, born,
                 conns, hup, term, graceOver, diskVars, served, launched, tangled>>

\* tx.blocking_send: waits while the channel is full.
Send(b) ==
  /\ thread[b] = "sending" /\ channel = NoBuild
  /\ channel' = b
  /\ thread' = [thread EXCEPT ![b] = "none"]
  /\ UNCHANGED <<phase, appVars, earVars, incoming, builtFrom, born, countVars,
                 conns, hup, term, graceOver, diskVars, histVars>>

\* Waiting for the builder threads to end before their configurations are
\* taken.
ReceiveAfterJoin ==
  /\ phase = "select" /\ channel # NoBuild
  /\ \A b \in Builds : thread[b] = "none"
  /\ incoming' = channel /\ channel' = NoBuild
  /\ phase' = "swapListen"
  /\ UNCHANGED <<appVars, earVars, buildVars, countVars, conns, hup, term,
                 graceOver, diskVars, histVars>>

ReceiveConfig ==
  /\ phase = "select" /\ channel # NoBuild
  /\ incoming' = channel /\ channel' = NoBuild
  /\ phase' = "swapListen"
  /\ UNCHANGED <<appVars, earVars, buildVars, countVars, conns, hup, term,
                 graceOver, diskVars, histVars>>

NewConfig == builtFrom[incoming]

\* What an early return would do if the listener were replaced as soon as it
\* is bound.
AbandonHalfway ==
  /\ phase' = "select"
  /\ incoming' = NoBuild
  /\ newListener' = NoAddr
  /\ asked' = NoConfig
  /\ listener' = IF newListener = NoAddr THEN listener ELSE newListener
  /\ UNCHANGED <<appVars, metricsListener>>

\* What an early return would do if the bind were tried again until it works.
RetryForever ==
  /\ UNCHANGED <<phase, incoming, newListener>>
  /\ asked' = NoConfig
  /\ UNCHANGED <<appVars, listener, metricsListener>>

\* swap_configs returns early: the new AppConfig and a new listener, if there
\* is one already, are dropped.
Abandon ==
  /\ phase' = "select"
  /\ incoming' = NoBuild
  /\ newListener' = NoAddr
  /\ asked' = NoConfig
  /\ UNCHANGED <<appVars, listener, metricsListener>>

OwnMetrics == incoming

\* replace_metrics: the new AppConfig takes over the Metrics in use.
MetricsAfterSwap == metrics

Commit ==
  /\ listener' = IF newListener = NoAddr THEN listener ELSE newListener
  /\ metricsListener' = IF NewConfig.metricsListen = config.metricsListen
                        THEN metricsListener ELSE NewConfig.metricsListen
  /\ metrics' = MetricsAfterSwap
  /\ config' = NewConfig
  /\ phase' = "select"
  /\ incoming' = NoBuild
  /\ newListener' = NoAddr
  /\ UNCHANGED asked

\* Up to and including the first await of swap_configs.
SwapListen ==
  /\ phase = "swapListen"
  /\ \/ /\ \/ NewConfig.listen = config.listen /\ UNCHANGED <<newListener, sockFiles>>
           \/ /\ NewConfig.listen # config.listen
              /\ Binds(NewConfig.listen)
              /\ newListener' = NewConfig.listen
        /\ phase' = "swapMetrics"
        /\ UNCHANGED <<appVars, listener, metricsListener, incoming, asked>>
     \/ /\ NewConfig.listen # config.listen
        /\ BindFails(NewConfig.listen)
        /\ Abandon
  /\ UNCHANGED <<channel, buildVars, countVars, conns, hup, term, graceOver,
                 saved, tangled>>

\* The second await and the rest of swap_configs.
SwapMetrics ==
  /\ phase = "swapMetrics"
  /\ \/ /\ \/ /\ NewConfig.metricsListen \in {config.metricsListen, NoAddr}
              /\ UNCHANGED sockFiles
           \/ /\ NewConfig.metricsListen \notin {config.metricsListen, NoAddr}
              /\ Binds(NewConfig.metricsListen)
        /\ Commit
     \/ /\ NewConfig.metricsListen \notin {config.metricsListen, NoAddr}
        /\ BindFails(NewConfig.metricsListen)
        /\ Abandon
  /\ UNCHANGED <<channel, buildVars, countVars, conns, hup, term, graceOver,
                 saved, tangled>>

-----------------------------------------------------------------------------
(* Connections, each a task that holds the service it was accepted with.   *)

\* handle_connection and handle_metrics.
Accept(c) ==
  /\ phase = "select" /\ conns[c] = Closed
  /\ \/ conns' = [conns EXCEPT ![c] = [svc |-> "psl", metrics |-> metrics]]
     \/ /\ metricsListener # NoAddr
        /\ conns' = [conns EXCEPT ![c] = [svc |-> "metrics", metrics |-> metrics]]
  /\ UNCHANGED <<phase, appVars, earVars, incoming, channel, buildVars, countVars,
                 hup, term, graceOver, diskVars, histVars>>

\* A request that PslHandler counts.  A connection that is being shut down
\* gracefully ends with the request it was serving.
Serve(c) ==
  /\ phase \in Running /\ conns[c].svc = "psl"
  /\ tally[conns[c].metrics] < MaxTally
  /\ tally' = [tally EXCEPT ![conns[c].metrics] = @ + 1]
  /\ served' = served + 1
  /\ conns' = IF phase = "drain" THEN [conns EXCEPT ![c] = Closed] ELSE conns
  /\ UNCHANGED <<phase, appVars, earVars, incoming, channel, buildVars, hup, term,
                 graceOver, diskVars, launched, histVars>>

Close(c) ==
  /\ phase \in Running /\ conns[c] # Closed
  /\ conns' = [conns EXCEPT ![c] = Closed]
  /\ UNCHANGED <<phase, appVars, earVars, incoming, channel, buildVars, countVars,
                 hup, term, graceOver, diskVars, histVars>>

-----------------------------------------------------------------------------
(* Signals, shutdown, crash.                                               *)

\* Signals of one kind that are not received yet count as one.  Before the
\* handlers are installed a signal kills the process: Crash.
SignalArrives ==
  /\ phase \in Running
  /\ \/ ~hup /\ hup' = TRUE /\ UNCHANGED term
     \/ ~term /\ term' = TRUE /\ UNCHANGED hup
  /\ UNCHANGED <<phase, appVars, earVars, incoming, channel, buildVars, countVars,
                 conns, graceOver, diskVars, histVars>>

BeginShutdown ==
  /\ phase = "select" /\ term
  /\ phase' = "drain"
  /\ UNCHANGED <<appVars, earVars, incoming, channel, buildVars, countVars, conns,
                 hup, term, graceOver, diskVars, histVars>>

GraceExpires ==
  /\ phase = "drain" /\ ~graceOver
  /\ graceOver' = TRUE
  /\ UNCHANGED <<phase, appVars, earVars, incoming, channel, buildVars, countVars,
                 conns, hup, term, diskVars, histVars>>

ConfiguredHome == config.persistPath

\* Metrics.persist_path, set by the from_config call that made the Metrics.
Home == builtFrom[metrics].persistPath

OneTooFew == tally[metrics] - 1

Persisted == tally[metrics]

AllClosed == \A c \in Conns : conns[c] = Closed

\* The last select!: graceful.shutdown() or the timer.
DrainOver == graceOver \/ AllClosed

\* persist_metrics, then main returns.  The file is replaced whole or, when the
\* temporary file cannot be written or renamed, stays as it was.
Exit ==
  /\ phase = "drain"
  /\ DrainOver
  /\ \/ Home \in Paths /\ saved' = [saved EXCEPT ![Home] = Persisted]
     \/ UNCHANGED saved
  /\ ProcessEnds
  /\ UNCHANGED sockFiles

Crash ==
  /\ phase # "down"
  /\ ProcessEnds
  /\ UNCHANGED diskVars

\* The operator removes a socket file nobody listens on.
CleanSocket(a) ==
  /\ a \in sockFiles \ Held
  /\ sockFiles' = sockFiles \ {a}
  /\ UNCHANGED <<phase, appVars, earVars, incoming, channel, buildVars, countVars,
                 conns, hup, term, graceOver, saved, histVars>>

-----------------------------------------------------------------------------
Next ==
  \/ Launch \/ BootListen \/ BootListenMetrics
  \/ HandleHup \/ ReceiveConfig \/ SwapListen \/ SwapMetrics
  \/ \E b \in Builds : BuildFinishes(b) \/ Send(b)
  \/ \E c \in Conns : Accept(c) \/ Serve(c) \/ Close(c)
  \/ SignalArrives \/ BeginShutdown \/ GraceExpires \/ Exit
  \/ Crash
  \/ \E a \in UnixAddrs : CleanSocket(a)

Spec == Init /\ [][Next]_vars

\* tokio::select! polls its branches in random order, so a branch that is ready
\* again and again is taken in the end; senders wait for the channel's one
\* permit in turn; threads, binds and the timer are run by the operating system.
\* Clients, the operator, signals and crashes owe nothing.
Fairness ==
  /\ SF_vars(BeginShutdown) /\ SF_vars(HandleHup) /\ SF_vars(ReceiveConfig)
  /\ WF_vars(SwapListen) /\ WF_vars(SwapMetrics)
  /\ \A b \in Builds : WF_vars(BuildFinishes(b)) /\ SF_vars(Send(b))
  /\ WF_vars(GraceExpires) /\ WF_vars(Exit)

FairSpec == Spec /\ Fairness

-----------------------------------------------------------------------------
(* Properties.                                                             *)

\* Whatever binds failed on the way, the process listens exactly on the two
\* addresses of the configuration in force: swap_configs replaces both
\* listeners and the configuration, or none of them.
EarsMatchConfig ==
  phase \in Running =>
    /\ listener = config.listen
    /\ metricsListener = config.metricsListen

\* Requests are counted in one place.  A connection accepted before a reload
\* keeps the Arc it was given, and replace_metrics makes the new AppConfig use
\* the same one, so no request goes to counters nobody scrapes or persists.
OneTally == \A c \in Conns : conns[c] # Closed => conns[c].metrics = metrics

\* A SIGHUP that found no other reload in flight and was not refused ends with
\* the configuration it read.  When reloads overlap this does not hold: the
\* threads race for the channel, and same_as compares with a configuration that
\* is about to be replaced.
SerialReloadsAreFresh ==
  (phase = "select" /\ InFlight = {} /\ ~tangled /\ asked # NoConfig)
    => config = asked

KeepsCounts ==
  \A p \in Paths : saved'[p] # saved[p] =>
    /\ p = launched.path /\ launched.count \in {0, saved[p]}
    /\ saved'[p] = launched.count + served

\* Whatever was reloaded, swapped or moved to another persist-path since, and
\* however many connections the grace period cut off, a process that stops in
\* good order leaves in the file it was started with what it read there plus
\* every request it counted, on connections from before a reload too.  It leaves
\* every other file alone, and a crash leaves all.  Only a file that could not
\* be read at the start loses what it held.
CountsAreKept == [][KeepsCounts]_vars

Base == tally[metrics] - served

\* The event loop keeps the operator's promise.
Contract == INSTANCE ServiceContract WITH
  config <- IF phase \in Running THEN config ELSE NoConfig,
  ears   <- IF phase \in Running
            THEN [main |-> listener, metrics |-> metricsListener]
            ELSE [main |-> NoAddr, metrics |-> NoAddr],
  home   <- IF phase \in Running THEN Home ELSE NoPath,
  wanted <- {builtFrom[b] : b \in InFlight},
  base   <- IF phase \in Running THEN Base ELSE 0

\* Every step of the process is a step the contract allows, or none.
ImplementsContract == Contract!Spec

\* A process asked to stop does: a reload in progress ends first, then
\* connections have five seconds.
ShutdownCompletes == term ~> phase = "down"

\* A SIGHUP is not forgotten while the loop is busy with other events.
HupHandled == hup ~> ~hup

\* A builder thread that has an AppConfig to deliver is not blocked for ever
\* on the full channel.
SendersGetThrough == \A b \in Builds : thread[b] = "sending" ~> thread[b] # "sending"
=============================================================================
