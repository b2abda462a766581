# Verification of poison_swamp_level

poison_swamp_level stands behind a reverse proxy. It tells crawlers from
visitors and feeds the crawlers pages of generated nonsense. This directory
holds TLA+ models of it, the TLC configurations that check them, and proofs that
TLAPS checks. Paths such as `main.rs` are relative to `src/src/`.

## 1. The system

| component | state | operations | talks to |
|---|---|---|---|
| event loop, `main.rs` | `app_config`, `listener`, `metrics_listener`, the channel `config_reload` of capacity one, pending signals | start-up, `select!` loop, `reload_config`, `swap_configs`, grace period, persist | operating system, builder threads, connection tasks |
| `AppConfig`, `service/app_config.rs` | `config`, `classifier`, `garbage`, `handler`, `metrics` (an `Arc<Mutex<Metrics>>`) | `from_config`, `same_as`, `replace_metrics`, `listen`, `handle_connection` | created by the loop and by builder threads, gives every connection a service |
| listeners, `service/listeners.rs` | a bound TCP port or Unix socket file | `bind`, `accept`; a listener that is `None` is never ready | operating system |
| request handler, `service/handler.rs` | none of its own; holds `Arc`s | `call`, `proxy`, `preflight`, `garbage_response` | classifier, garbage, metrics; the reverse proxy on the other side |
| classifier, `classifier/classifier.rs` | rules, ASN database | `classify`, `trusted_decision` | read by the handler |
| metrics, `metrics/*.rs` | seven counter maps, the persist-path, the file | `record_request`, `init_metrics`, `persist`, `to_prometheus` | connections (under a mutex), the disk |
| corpus reader, `garbage/read_text.rs` | `ParseState`, the three-word window and its slot | `read`, `finish` | run by `Garbage::new` in `from_config` |
| Markov generator, `garbage/generator.rs` | `Generator.state`, the random numbers | `next`, `generate`, `paragraphs` | one per page, seeded with the path |
| garbage page, `garbage/garbage.rs` | word list, template, poisons | `render`, links | the generator; a page's links lead crawlers to poisoned paths |
| configuration, `config/*.rs` | none | parsing KDL, explaining errors, dates in log lines | start-up and reload |

How they interact. The runtime has one thread: the loop, the connections and
the timer take turns at awaits. Only the builder threads of `reload_config` run
beside it, and hand their `AppConfig` over through the channel. A connection
keeps the services it was accepted with, so after a reload old and new rules
answer side by side, while `replace_metrics` makes them all count in one
`Metrics` value. That value is read from a file by every `from_config` and
written back only when the process stops in good order.

What is hard:

- two awaits in `swap_configs`, either of which can fail;
- reloads that overlap: threads race for the channel, and `same_as` compares
  with a configuration that is about to be replaced;
- counts that must survive reloads, changed paths, an impatient shutdown, a
  failed load, a crash while the file is written;
- preflight mode, where one request of a client is two requests here, possibly
  over connections from before and after a reload;
- a panic between choosing an answer and counting it;
- a restart between the two passes, with counts that come back from the file;
- a ring buffer whose beginning rotates; a random walk with dead ends, and with
  loops that a walk which skips words may never leave;
- pages whose links must be recognised when they come back as requests, after
  they have been joined, followed, cut at a query, and perhaps after a reload;
- offsets, limits and ranges: the ends of words in a text, of spans in a file, of
  months, of integer types.

PROJECT.json lists each of these under "hazards" with its line and the
properties that would catch it.

## 2. Modules

| module | models | kind |
|---|---|---|
| `ServiceContract` | what the operator is promised | abstract specification |
| `Server` | `main.rs`, `app_config.rs`, `Listener::bind`, start values of `init_metrics` | implements `ServiceContract` |
| `Metrics` | `metrics/mod.rs`, `persistence.rs` | counters and their file |
| `Scrape` | `to_prometheus`, `format.rs`, `procfs.rs`; EXTENDS `Metrics` | counters as text |
| `Classifier` | `classifier.rs` | operators only |
| `RuleEdits` | the same rules, edited one at a time | compares verdicts |
| `Preflight` | `handler.rs` and the reverse proxy; EXTENDS `Classifier` | two passes, reloads |
| `Service` | `Preflight` and `Metrics` over several processes | composition, implements `Metrics` |
| `Crawl` | `garbage.rs`, `lib.rs`, `resource_type`; EXTENDS `Classifier` | pages, a crawler, reloads |
| `Corpus` | `ParseState` and `Generator` on whole words | reading, then walking |
| `Reader` | `Substrings`, `Capitalized`, `intern` | characters to words |
| `Prose` | `generate`: spacing, capitals, closing; EXTENDS `Reader` | words to characters |
| `ConfigParse` | `parse.rs`, defaults of `config.rs` | a file that is edited |
| `SpanExplain` | `parse_error.rs` | one explanation |
| `CalendarTime` | `time.rs` | a clock and a calendar |
| `Terminal` | `main()` with the two above | composition |
| `MCServer`, `MCMetrics`, `MCRuleEdits`, `MCPreflight`, `MCService`, `MCCrawl`, `MCCorpus`, `MCConfig` | constants for TLC | |
| `ServerProofs`, `MetricsProofs`, `ServiceProofs` (with `Preflight`), `CrawlProofs` (with `RuleEdits`), `CorpusProofs`, `ProseProofs` (with `Reader`), `ConfigProofs`, `TerminalProofs` (with `CalendarTime` and `SpanExplain`) | theorems, see 4 | |

Operators whose comment says what would go wrong with them (such as
`AbandonHalfway` or `CountedAgain`) are not used by any specification. Each is
the definition below it with a plausible mistake; PROJECT.json names the
property that TLC finds violated when the one takes the place of the other.

### Server and ServiceContract

`phase` is the place of `main()`: `down`, `bootListen`, `bootMetrics`, `select`,
`swapListen`, `swapMetrics`, `drain`. One action stands for everything between
two awaits. `config` and `metrics` are the two fields of `app_config` that
matter; an `AppConfig` is known by the number of the `from_config` call that made
it, and so is the `Metrics` value allocated by that call, because
`replace_metrics` puts the one of an old build into a new one. `builtFrom` and
`tally` say what each build was made from and how much it counted. `thread[b]`,
`channel` and `incoming` follow an `AppConfig` from its thread to
`swap_configs`; `newListener` is the local of that name. `sockFiles` are the
Unix socket files on disk, which outlive the process as nothing unlinks them.
Binding can always fail; for a socket path `set_permissions` can also fail after
the file was made. `served`, `asked`, `tangled` and `launched` are history:
requests this run counted, the configuration asked for last, whether reloads
overlapped, and the file the process was started with and what it read there.
`CountsAreKept` is about the last one: it compares what a process leaves behind
with what it found and served, without looking at `tally` or at the persist-path
of any build.

Binding a parsed address does not really wait, so that the two awaits of a swap
are more interleaving than the runtime shows: what holds in the model holds in
the program. `CleanSocket`, the operator's `rm` of a socket nobody listens on,
and `Crash` are the environment's. `LoadedCounts` includes 0 for a file that
cannot be read.

`ServiceContract` knows neither threads nor channel nor awaits. A configuration,
both its addresses and the home of the counts change in one step; `wanted` are
the configurations a SIGHUP asked for. `Contract` in `Server` is the refinement
mapping: a process that is still booting or is gone is not up, `home` is the
persist-path of the configuration from which the `Metrics` in use was made (not
that of the configuration in force: a reload does not move the file), and `base`
is what has been counted minus what this run served.

### Metrics

`mem` holds the five maps that `write_persisted_metrics` writes;
`trustedAgents` and `acceptHeader` are the two that it does not. Persisting is
three steps (temporary file, contents, rename), and the process can end between
any two of them. `RecordSpam` and `RecordValid` are the arms of
`record_request`, under the lock and thus one step each. The two arms for
`TrustedDecision` are not reached: `preflight` never returns such a
classification, which `Service` checks.

### Scrape

`output_buffer` is the field of that name, `scraped` is history. The module adds
to `Metrics` the labels under which each counter is kept and `Scrape`, which is
`MetricsHandler::call` under the lock. A line of output is a record, but its
labels are a sequence of characters, in which a host or an Accept header may
have a comma; the properties read that sequence the way a scraper does.
Quotation marks in values are left out, because the code does not escape them
(see 5). `ProcfsMetrics` may be empty, as `/proc` may be unreadable; the numbers
in it stand for any.

### Classifier, RuleEdits, Preflight

A path that contains a poison and an agent that a pattern matches are members of
`poisonedPaths`, `trustedAgents`, `unwantedAgents`; the early returns of
`classify`, in their order, and the conditions for an AS to be known are kept. `RuleEdits` adds a
rule in each step and compares the verdicts before and after it on every
request.

In `Preflight`, `conns` holds the service each connection was accepted with and
`current` the one a reload put in force. `FirstPass` and `SecondPass` are whole
calls of `PslHandler::call`: classification, answer, and the count unless
`render` panics first. `Extension` and `RemoteIp` are the address on its way
through the request's extensions. The reverse proxy (`Onward`, `Fated`) is not in
the repository; it is modelled from what the handler and `trusted_decision`
expect of it: it strips its own header from clients, sends valid requests to the
site, and in preflight mode sends the others again with the header. The
properties are about setups in which both sides agree on mode, header and
statuses (`Agrees`) all along the request's way; the rules may change on the way.
`gate` is the reverse proxy's own setup, which no reload of this program changes.

### Service

A step of `Service` is a step of `Preflight`, of `Metrics`, or of both: `Call` is
`PslHandler::call` up to and with `record_request`, given the classification that
`proxy` or `preflight` returned. `RecordRequest` has all arms, those for trusted
decisions too, and `MetricsAsModelled` (the specification of `Metrics` as a
property) shows that the two that `Metrics` leaves out are not needed. The
process can persist and exit, or crash, while requests are between their passes;
the next one starts with any configuration and with what the file holds. `lost`
is history: a crash, or a failed read or write, has cost counts.

### Crawl

A path is a sequence of tokens, so that poisons, separators and words can have
slashes and dots in them and a poison can come about where two of them meet.
`Page` is `Garbage::render`, and `References` what is in it; `Ahead` is what a
crawler can ask for next, a script being good for one fixed fetch. `Judged`
hands the path to `Classifier` without its query, while `Page` gets it with the
query, as in the code. `via` is history: the configuration of the page whose
reference was followed. The template engine is left out but for the two lists of
references it is given. A page of which a range is empty is lost, that of a
paragraph's words only if the page has a paragraph; so may any page be that has
one (`MayPanic`, see `corpus_panic`). Words are a set: a word file with the same
word on two lines would give it twice to one link, which no property tells apart.

### Corpus

A text is its sequence of words. `window` and `slot` are `SubstringsWindows`,
`at` the position of the iterator, `map` the transitions, `state` the pair of the
`Generator`. `JoinBefore` and `Endings` are the two classes of words that the
code asks for by their characters. A sentence's end is recognised by the last
non-empty word put out; the code looks at the end of the output, where the
characters of two words can meet (a full stop and a quotation mark that the text
had apart). `capitalized` is modelled by its panic. `trail` is history: the
last three words put out.

`SkipCanEnd` is about `skip_while`, which drops words that join what stands
before them and never gives up. It says that from every pair the walk can stand
on there is a way to a word that ends the skipping, unless the corpus has three
such words in a row. The generator is random, so a way there is one that is
taken.

### Reader and Prose

`Reader` has one character of each class that the code tells apart, among them a
small letter and a capital outside of ASCII: the reader makes small letters of
capitals by the rules of Unicode, the generator capitals of small letters in
ASCII only. `ReadWord` is
`Substrings::next` with the `intern` that follows: white space, the end of a
word, the guess whether its capital is only that of a sentence, its place in the
buffer. `Prose` puts the words of a text, from the first, through the loop of
`Generator::generate`. Words in any order are the words of another text, so that
walking at random gains only one thing, and that is `TakeEmpty`: a walk that goes
on from the empty words in front of a text yields them like others, at any point
and more than once. The first word of a paragraph, or of a sentence, cannot be
empty without a panic (`panicked`). `gaps` is history: the places of white space
that an empty word left behind. Walks are in `Corpus`.

### ConfigParse

`doc` is the tree of nodes as the kdl crate yields it, `config` what
`load_config` makes of it, or `Refused`. Each `*Line` operator is the body of one
loop over children. The environment inserts one node at a time, anywhere, so that
the properties can compare the file before and after. Strings are told apart by
whether `from_str` takes them and by their first character. An argument is an
entry without a name: `Arguments` and `FirstValue` are `entry(0)` of the kdl
crate, which passes over properties. `MaxU32` and
`MaxUsize` are small in the run.

### CalendarTime, SpanExplain, Terminal

`CalendarTime` runs the arithmetic of `Time::from` beside a calendar that counts
days one by one. `SpanExplain` has every file that can be told apart by where its
newlines, its tabs and its characters outside of ASCII are, and every span on one
line of it. It counts in bytes, as the code does: a character outside of ASCII is
a byte that begins it and up to three that continue it. `Column` counts the
characters, which is what the properties compare with. The slice that goes past
the end of the text is an outcome of its own. `Terminal` is the part of `main()` in which
they come together: a file is refused and explained, or accepted, and then log
lines are written for as long as the program runs.

## 3. Runs

All runs that must pass finish within two minutes.

| run | checks | instance and why it is enough |
|---|---|---|
| `server_persist` | `TypeOK`, `OneTally`, `CountsAreKept`, `ImplementsContract` | configurations that persist to p, to q, and not at all (and move to a socket); two connections, one from before and one from after a reload; two builds, the least with which a reload replaces an `AppConfig`; two requests, so that one can be counted before and one after |
| `server_reload` | `EarsMatchConfig`, `SerialReloadsAreFresh`, `ShutdownCompletes`, `HupHandled`, `SendersGetThrough` | three configurations: two ports, a Unix socket and no metrics, and metrics on that socket; three builds, so that two reloads overlap while one is in force and a thread waits for a full channel; one connection that may stay open for ever |
| `metrics` | `EveryRequestClassified`, `FileIsWhole`, `SessionMapsAgree`, `AsnsMatchReasons`, `ScrapeReadsBack` | two hosts, one with a comma, one agent, one AS, an Accept header of two types; two requests over all runs, on either side of a restart or not, and scrapes between them |
| `rule_edits` | `PoisonIsFinal`, `RulesPullOneWay` | every combination of rules over two paths, two agents, one address, one AS |
| `service` | `CountedOnce`, `VerdictIsFinal`, `CountsAreVerdicts`, `MetricsAsModelled` | two requests, a connection that is closed and opened again, a reverse proxy in either mode, five services: harsher and milder rules, another header, another mode, a page that panics; any number of processes. `MaxRequests` is four because two requests that meet the wrong header are counted twice each |
| `corpus` | `MapIsTrigrams`, `QuotesCorpus`, `NeverStarved`, `SkipCanEnd` | all texts of up to five plain words, or three with punctuation, followed by a second text; the slot comes round once and a half, chains loop and end |
| `prose` | `NothingLost`, `OnlySentenceCapitalsAreLost`, `InternedWordsAreWords`, `WellSet`, `OrderlyTextComesBack`, `ParagraphEndsWithSentence` | all texts of up to five characters of eight classes: two sentences with a name, a letter outside of ASCII, a bracket or a quotation mark between them; paragraphs of every length, with any number of empty words as long as no more than `MaxEmpty` words are wanted beyond those of the text |
| `config` | `NumbersAsWritten`, `ParserDoesNotPanic`, `EditsAreLocal`, `RefusalIsFinal` | files of up to four nodes of all five sections, with every kind of wrong argument; four nodes are two blocks with a line each, or a block with a line of its own lines before and after the one inserted |
| `crawl` | `ReferencesLeadToSpam`, `PagesBehindLinksAreLeaves`, `ResourcesKeepTheirType` | eleven configurations, each with one thing that is odd; eight entry paths; `MaxPath` is long enough for the longest reference of an entry page and for what may follow on it |
| `terminal` | `StampIsCalendar`, `CaretsUnderSpan`, `ShowsTheLinesAround` | every file of up to nine bytes, so that there are three newlines on either side of a span that does not begin its line, and up to two tabs or continued bytes; 810 years, two cycles of four hundred, running through fourteen of them: leap years, century years of both kinds, the epoch, the code's own origin in 2000 |
| `preflight_asns` | `UnwantedAsnsAreSpam`, violated | see 5 |
| `corpus_panic` | `WordsHaveCharacters`, violated | see 5 |

Bounds: `MaxBuilds` (from_config calls of one process), `MaxTally` and
`MaxRequests` (requests counted), `WordCounts` and `ParaCounts` (lengths of
pages), `MaxNodes`, `MaxLength`, `MaxOdd`, `MaxEmpty`, `MaxPath`, `FirstYear` and `LastYear`. The parts
of a day are two hours of three minutes and so on, since what the code does with
them does not depend on how many there are. Symmetry is used for connections and
request identities, in runs that check safety only. Deadlock checking is off
where the model comes to an end as the program does: `prose` (a paragraph is
done), `terminal` (a file was refused), `config` (the operator stops at
`MaxNodes`).

Fairness (`FairSpec`, only in `server_reload`). `select!` polls its branches in
random order, so a branch that is ready again and again is taken: strong
fairness for `BeginShutdown`, `HandleHup`, `ReceiveConfig`. Senders that wait for
the channel's permit are served in turn: strong fairness for `Send`. A swap, a
builder thread, the timer and the exit only need the runtime or the operating
system to go on: weak fairness. Clients, signals, the operator and crashes owe
nothing.

## 4. Proofs

TLAPS checks these for every value of the constants that meets the named
assumptions. Each paragraph says what the inductive invariant adds to the
property, and why the property is not inductive without it.

- `ServerProofs`: `TypeCorrect`, `EarsCorrect`, `OneTallyCorrect`,
  `FreshCorrect`, `CountsKeptCorrect`, `ContractImplemented`. The invariant
  `IInv` adds two parts to the invariants the runs check. `Lifecycle`
  says what each phase implies (no connections or builds while booting, a swap
  has something to swap, a process that is down has nothing). `Pipeline` says
  where a build can be: numbered up to `born`, not at once in a thread, in the
  channel and being swapped, made from a configuration. Without it the swap
  could put a build in force that was never made, and
  `SerialReloadsAreFresh` is not inductive: it speaks only of moments when
  nothing is in flight, so `Freshness` says for the rest that an untangled reload
  in flight is the one asked for. For `CountsAreKept` it takes `LaunchInv` too: the
  `Metrics` in use were made from a configuration with the persist-path of the
  launch, and hold what was read there and what was served since; the step that
  could break it is the swap. The refinement takes each action to its step of
  `ServiceContract`.
- `MetricsProofs`: `ClassifiedCorrect`, `FileWholeCorrect`, `SessionCorrect`,
  `AsnsCorrect`. Each equation between counters is carried by `mem`, the
  temporary file and the file together, as each is copied into the next, and by
  `base` for those that are about one run. A sum of a map is the number of its
  units (`Total`), so that a count of one more is a set with one more element;
  that the set is finite is a part of the invariant, so that no set of hosts,
  agents or systems need be.
- `ServiceProofs`: `CountedOnceCorrect` and `VerdictCorrect` from an invariant of
  each request (`RequestInv`: what a request that waits for its second pass has
  behind it) and the lemma that a request is decided in exactly one way
  (`Decided`). `CountsCorrect`
  adds `CountInv`: every `Metrics` value there is, in memory or on its way to the
  file, holds no more than was judged, and exactly that if nothing was lost. It
  needs to know that nobody counts while the file is written (`OnItsWay`): in
  `main()` that comes after the last request. `MetricsImplemented` is the
  refinement: each step of `Service` is one of `Metrics` or a stutter, because a
  request whose decision is trusted was counted in its first pass and is not
  counted again. `CountersInService` draws the conclusion: what
  `MetricsProofs` shows of the counters is true of them in the service. (Two
  instances of `Metrics` stand for the same module; `SameSpec` says so.)
  `BoundAssumption` gives the counters room for two passes of each request; there
  may be any finite number of those.
- `CrawlProofs`: of `RuleEdits`, `PoisonFinal` and the action property
  `OneWayEdits`, from the lemma that the verdict is "valid" exactly for a request
  that is trusted or has nothing against it. The first needs no invariant: it
  holds of every set of rules. Of `Crawl`, `LeavesCorrect`, `ReferencesCorrect`,
  `ResourcesCorrect`. The invariant says that the page behind a reference has a
  poison of the page before in its path. The rest is about sequences of tokens: the poison that went in is
  found again, no question mark comes in with it, and what stands behind the last
  dot of a reference is the extension, wherever else dots and slashes are.
  `ConfigsAssumption` keeps question marks out of poisons and words: with them
  the classifier would not see the rest of a link. Nothing else is assumed of
  them.
- `CorpusProofs`: `TypeCorrect`, `NeverStarvedCorrect`, `QuotesCorrect`,
  `SkipCanEndCorrect`, `MapCorrect`. While a
  text is read, the two slots not written next hold the two words before the next
  one (`ReadingInv`), wherever the slot is; so each transition is a trigram
  (`MapInv`); the last words put out and the pair to come are a chain of them
  (`ChainInv`). Every text begins with the two empty words, which is why there
  is always a state to jump to. For `SkipCanEnd`: a pair of the walk is a pair of
  the text, each step out of it a trigram, so that three joined words put out in
  a row are three in a text. For `MapIsTrigrams` each word read adds one place to
  one list of followers, and one position to the trigrams of the same three
  words (`CountInv`).
- `ProseProofs`: `ReaderTypeCorrect`, `NothingLostCorrect`, `InternedCorrect`,
  `CapitalsCorrect`; `ProseTypeCorrect`, `WellSetCorrect`, `EndsCorrect`,
  `ComesBackCorrect`, for texts of any length. The invariants
  speak of the part of the text that was read: its characters without white space
  are those of the words; what was interned stands where its offsets say,
  whatever was added behind it; the sentence that the reader thinks it is in is
  the one that the characters so far end. For the generator they speak of the
  output so far (`SetWell`), in which an empty word is a gap that the rest of the
  output keeps its distance from, and `ComesBack` puts the two together: the
  output is what was read, up to the words that were passed on. That a sentence
  ends in the same place in both needs only the case of letters to differ
  (`EndsSame`), and that an empty word changes nothing of it needs that white
  space is trimmed before one asks (`EndsKept`). `Orderly` asks for whole
  sentences, each of which begins with a word and a capital; it does not mention
  the generator.
- `ConfigProofs`: `TypeCorrect`, `NumbersCorrect`, `NoPanicCorrect`, and the
  action properties `RefusalFinal` and `EditsLocal`. Each reader
  of a line is shown to make, of a section of its type, one of the same type or
  an error, where the type of a number is its default and the numbers `W` that
  are written in the file. `DocInv` says that every node of the file is one the
  operator may write; whatever they are, the parser is then a sequence of such
  readings (`ReadsTyped`).
  The two action properties compare the readings of two files, the second with
  one node more. For `RefusalFinal` each line is shown to be refused or not
  whatever its section holds, so that the line that was refused is refused in the
  longer file too. For `EditsLocal` the two files are read side by side: up to
  the new line both sections are equal, from there on they agree outside the
  settings that the line names (`Agree`), because each setting after a line
  depends on the line and on the same setting before it; a block that starts over
  (`user-agents`, `links`) keeps that true. For a line within a
  line, the two readings of the outer one are compared in the same way
  (`NestedIsLocal`).
  `NodesAssumption` is what the kdl crate makes of entries, `PanicAssumption` that
  the outcome of a panic is not a character, `RefusedAssumption` that an error is
  not a number, a section or a configuration; which nodes may stand where is
  left open.
- `TerminalProofs`: `ShowsCorrect`, `CaretsCorrect`, `StampCorrect`, for files of
  any length, any instant, and any length of hour, minute and second.
  A line is known by the number of newlines before it (`TrueLine`), which never
  falls and grows by one where a line begins. Three newlines back and three
  on from the span is a slice from the line two before to the end of the line two
  behind, or less at the beginning of the file (`Around`). Its rows are lines that
  follow one another (`RowsFollow`), and `Line` is the span's own line unless the
  span begins it (`LineIs`). A row has as many characters before a byte as it has
  bytes that begin one, which is at most their number and exactly that in ASCII
  (`ColumnIs`). `ExplainInv` says that there is an explanation only of a span of
  the file and without the panic.
  For the date, `DayInv` says that `now` is the instant of `date`: days since the
  code's origin (`DayOf`), then hours, minutes, seconds and nanoseconds. It is
  kept because a carry into the next field is one nanosecond more (`Carries`)
  and because the first of a month follows the last of the one before
  (`MonthFollows`). What the code makes of an instant is then its date
  (`FromIs`): a year is put together from cycles of 400, 100 and 4 years in one
  way (`Parted`), `Capped` finds these again although the last cycle of each is a
  day longer, and the table of months fits the calendar's months but for the
  leap day, which ends the year that begins in March (`TableFits`). The bounds
  `FirstYear`, `LastYear` and `Watched` play no part in it.

Sequences and functions that are computed by recursion (`FlattenSeq`, `Children`,
`Printed`) are reasoned about by induction over a set: of the numbers up to the
length, or of the sequences, that have the property (`InductionTo`,
`SequenceInduction`). The set is well-founded under `<`, which the library
states without an operator as parameter.

Only model-checked:

- liveness (`ShutdownCompletes`, `HupHandled`, `SendersGetThrough`), which needs
  `ENABLED` under fairness;
- `ScrapeReadsBack`: the text is put together from sets and maps in an order
  that is not known (`SetToSeq`), and read back by selecting from its lines with
  an operator as argument, which none of the provers can expand.

## 5. Where the code departs from what it says

- `preflight_asns`: `handler.rs:67` inserts an `Option<IpAddr>` into the request's
  extensions, `classifier.rs:159` and `:181` look for an `IpAddr`. No address is
  ever found, so unwanted systems and trusted addresses have no effect. The
  warning at `classifier.rs:49` says that it is a missing database that prevents
  detection; the run has one.
- `corpus_panic`: `capitalized` expects a word to have a character
  (`generator.rs:229`), but `finish` keeps the pairs that begin with an empty
  word among the states a page may start from. For those paths the task panics
  before it answers or counts.

These have no run of their own. The models have what the code does, and the
properties are stated so that they hold:

- The month of a log line counts from 0 (`time.rs:134`, as in the C structure the
  file was transliterated from) but is printed in a form in which January is 01.
  `StampIsCalendar` has it one less than the calendar's.
- `explain()` slices one past what it found (`parse_error.rs:133`). With fewer
  than three newlines behind the span that is past the end of the text: it panics
  (`SpanExplain.Panic`).
- The line number counts the lines of the text before the span
  (`parse_error.rs:108`); a span that begins its line is said to be on the line
  before. `CaretsUnderSpan` leaves those spans out.
- A line of which the message says that it must have one argument is accepted
  with two (`parse.rs:337`); the second is dropped.
- The word list must have as many words as the longest link (`garbage.rs:52`);
  the message names the minimum (`garbage.rs:233`).
- `must_capitalize` is computed and reset in the same turn (`generator.rs:192`),
  so that a capital due behind an opening bracket is spent on the bracket.
- A sentence that began with a capital outside of ASCII comes back with a small
  letter: `read_text.rs:96` lowers it by the rules of Unicode, and
  `generator.rs:230` makes capitals of ASCII letters only. `OrderlyTextComesBack`
  names the letters for which that is so, `WellSet` speaks of letters of ASCII.
- A walk that goes on from the front of a text yields empty words
  (`generator.rs:117`), and the generator sets white space before each of them
  (`generator.rs:200`): a page can have several blanks in a row, one at the end of
  a paragraph, or one before a comma. `WellSet` allows white space in these
  places, and says where else it stands.
- The row of carets is indented by bytes (`parse_error.rs:109`, `:171`): a
  character outside of ASCII before the span, or in it, moves the carets or their
  end to the right of it, and a tab is counted as one blank. `CaretsUnderSpan`
  has the carets exactly under the span only in lines without either.
- Label values are not escaped (`format.rs:63`), though hosts and Accept headers
  are the client's words.
- The logger is set up once (`main.rs:31`): a reload that changes the logging
  section is accepted and changes neither level nor target.

## 6. Not modelled, and why

- The third-party parsers of KDL, JSON and templates, the Aho-Corasick automaton
  and the ASN database format: outside this code. With them go the agent matcher,
  which is only a wrapper, and `robots.json`.
- The AsyncRead and AsyncWrite forwarding of `Stream`, the logger's set-up, the
  benchmark: pure I/O without state of their own.
- The wording and layout of messages, the HTML around a page, the values of the
  `/proc` gauges.
- Which of three sources the client's address is taken from (`handler.rs:66`): no
  later step ever finds it, see `preflight_asns`.
- Spans over several lines, which only a string with a newline in it has, and the
  span of a name with quotation marks or a type annotation, which is not the one
  that stands in the file.
- Small letters that Unicode writes with more characters than the capital, or
  differently at the end of a word.
- Power loss: what was renamed is taken to be on the disk.
- A limit whose minimum is above its maximum: read as written, it panics in
  every page that draws from it; no property forbids it.
- Connections as TCP sees them (keep-alive, half-closed, HTTP framing): the hyper
  crate's.

## 7. Plan

Done, in this order: `ServiceContract` and `Server` with proofs; `Metrics` with
proofs; `Classifier`, `RuleEdits`; `Preflight` with proofs; `Corpus` with proofs;
`CalendarTime`, `SpanExplain` and `Terminal`; `ConfigParse`; `Crawl`; `Reader` and
`Prose`; `Scrape`; `Service`.

Proved: every invariant that a run checks but `ScrapeReadsBack`, every action
property, that `Server` implements `ServiceContract`, and that `Service`
implements `Metrics`.

What would come next, should the code grow: a way to read a label back that is a
fold over its characters, so that `ScrapeReadsBack` can be proved; and the source
of the client's address, once a later step makes use of it.
