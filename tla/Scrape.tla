------------------------------- MODULE Scrape -------------------------------
(***************************************************************************)
(* What a scraper reads from the metrics listener while requests are       *)
(* counted: the seven maps of Metrics as text (to_prometheus, format.rs),  *)
(* followed by what /proc says of the process (procfs.rs), in a buffer     *)
(* that one scrape leaves for the next.                                    *)
(*                                                                         *)
(* A line of the output is a record, but the labels in it are text, for a  *)
(* scraper has to find their ends.  Scraping holds the lock of the         *)
(* metrics, as counting does, so it is one step.                           *)
(***************************************************************************)
EXTENDS Metrics, SequencesExt

ASSUME HostsAreText == \A h \in Hosts : h \in Seq({"a", ","})
ASSUME AcceptsAreText == \A a \in Accepts : a \in Seq({"a", ",", ";"})

VARIABLES
  output_buffer, \* the text of the last scrape
  scraped        \* history: the counters that it was made of

scrapeVars == <<vars, output_buffer, scraped>>

-----------------------------------------------------------------------------
(* The counters and their labels.                                          *)

Positions(s, c) == SelectSeq([i \in DOMAIN s |-> i], LAMBDA i : s[i] = c)

\* The pieces of s between the characters c: always one more than there are c.
Split(s, c) ==
  LET cuts == <<0>> \o Positions(s, c) \o <<Len(s) + 1>>
  IN  [i \in 1..(Len(cuts) - 1) |-> SubSeq(s, cuts[i] + 1, cuts[i + 1] - 1)]

Joined(pieces) ==
  FlattenSeq([i \in DOMAIN pieces |-> (IF i > 1 THEN <<",">> ELSE <<>>) \o pieces[i]])

\* increment_accept: each MIME type of the header without its parameters.
AcceptStr(header) ==
  LET types == Split(header, ",")
  IN  Joined([i \in DOMAIN types |-> Split(types[i], ";")[1]])

\* The order of to_prometheus.
Families == <<"requests", "classifications_spam", "classifications_valid",
              "trusted_agents", "asns_known", "asns_hidden", "accept_header">>

Label(name, value) == [name |-> name, value |-> value]

Host(h) == Label("host", h)

\* The entries of a map: the labels of each key that was counted, its value.
Entries(map, LabelsOf(_)) ==
  {<<LabelsOf(k), map[k]>> : k \in {x \in DOMAIN map : map[x] > 0}}

ByReason(map) == Entries(map, LAMBDA k : <<Host(k[1]), Label("reason", <<k[2]>>)>>)
ByAsn(map)    == Entries(map, LAMBDA n : <<Label("asn", <<n>>)>>)

Counters ==
  [requests              |-> Entries(mem.requests, LAMBDA h : <<Host(h)>>),
   classifications_spam  |-> ByReason(mem.spam),
   classifications_valid |-> ByReason(mem.valid),
   trusted_agents        |-> Entries(trustedAgents,
                               LAMBDA k : <<Host(k[1]), Label("agent", <<k[2]>>)>>),
   asns_known            |-> ByAsn(mem.asnKnown),
   asns_hidden           |-> ByAsn(mem.asnHidden),
   accept_header         |-> Entries(acceptHeader,
                               LAMBDA k : <<Label("type", <<k[1]>>), Label("accept", k[2])>>)]

NoCounters == [f \in Range(Families) |-> {}]

-----------------------------------------------------------------------------
(* The text.                                                               *)

LabelText(labels) ==
  IF labels = <<>> THEN <<>>
  ELSE LET Quoted(l) == <<l.name, "=", "quote">> \o l.value \o <<"quote">>
       IN  <<"{">> \o Joined([i \in DOMAIN labels |-> Quoted(labels[i])]) \o <<"}">>

\* append_metric_label: the HELP and TYPE lines.
Header(f, kind) ==
  <<[line |-> "help", family |-> f], [line |-> "type", family |-> f, kind |-> kind]>>

\* append_metric_value.
Sample(f, labels, value) ==
  [line |-> "sample", family |-> f, labels |-> LabelText(labels), value |-> value]

\* append_metric: nothing of an empty map; else its entries, in some order.
Appended(f, entries) ==
  IF entries = {} THEN <<>>
  ELSE LET s == SetToSeq(entries)
       IN  Header(f, "counter") \o [i \in DOMAIN s |-> Sample(f, s[i][1], s[i][2])]

\* Writing behind the text of the last scrape.
NotCleared == output_buffer

\* take(), clear().
Cleared == <<>>

Gauges == <<"threads", "vss_bytes", "rss_bytes", "cpu_time_seconds">>

\* append_procfs_metrics: four gauges, or nothing when /proc cannot be read.
ProcfsMetrics ==
  {<<>>, FlattenSeq([i \in DOMAIN Gauges |->
                       Header(Gauges[i], "gauge") \o <<Sample(Gauges[i], <<>>, i)>>])}

\* to_prometheus: one map after the other.
ToPrometheus ==
  FlattenSeq([i \in DOMAIN Families |-> Appended(Families[i], Counters[Families[i]])])

Serves == up /\ ~persisting

\* MetricsHandler::call.
Scrape ==
  /\ Serves
  /\ output_buffer' \in {Cleared \o ToPrometheus \o gauges : gauges \in ProcfsMetrics}
  /\ scraped' = Counters
  /\ UNCHANGED vars

-----------------------------------------------------------------------------

ScrapeInit == Init /\ output_buffer = <<>> /\ scraped = NoCounters

\* The buffer belongs to the process, and nobody asks for it during persist().
ScrapeNext ==
  \/ Scrape
  \/ Next /\ Serves' /\ Serves /\ UNCHANGED <<output_buffer, scraped>>
  \/ Next /\ ~(Serves' /\ Serves) /\ output_buffer' = <<>> /\ scraped' = NoCounters

ScrapeSpec == ScrapeInit /\ [][ScrapeNext]_scrapeVars

-----------------------------------------------------------------------------
(* Properties.                                                             *)

\* How a scraper finds the labels: what stands between two quotation marks is a
\* value, and what stands before it and its sign is a name.
ReadLabels(text) ==
  LET q == Positions(text, "quote")
  IN  [n \in 1..(Len(q) \div 2) |->
         Label(text[q[2 * n - 1] - 2], SubSeq(text, q[2 * n - 1] + 1, q[2 * n] - 1))]

\* The lines of a family stand together, behind its one HELP and its one TYPE,
\* and no two have the same labels.
WellFormed(text) ==
  \A i \in DOMAIN text :
    LET earlier == {j \in 1..(i - 1) : text[j].family = text[i].family}
    IN  CASE text[i].line = "help" -> earlier = {}
          [] text[i].line = "type" -> earlier = {i - 1}
          [] OTHER -> /\ i - 1 \in earlier /\ Cardinality(earlier) >= 2
                      /\ \A j \in earlier : text[j].line = "sample" =>
                           text[j].labels # text[i].labels

ReadBack(text, f) ==
  {<<ReadLabels(text[i].labels), text[i].value>> :
     i \in {j \in DOMAIN text : text[j].line = "sample" /\ text[j].family = f}}

\* A scraper reads what was counted when it asked, and nothing else: nothing is
\* left of the scrape before, no series comes twice, a comma in a value does not
\* part labels.  (A quotation mark in a value would: values are not escaped.)
ScrapeReadsBack ==
  /\ WellFormed(output_buffer)
  /\ \A f \in Range(Families) : ReadBack(output_buffer, f) = scraped[f]
=============================================================================
