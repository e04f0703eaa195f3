---------------------------- MODULE BatchHarvest ----------------------------
(***************************************************************************)
(* The batch sources of sentilyzer-harvest: one pass of RSSHarvester.Run   *)
(* (api/internal/harvest/rss.go) over the feeds or of GDELTHarvester.Run   *)
(* (gdelt.go) over the queries, and how main (cmd/sentilyzer-harvest) ends *)
(* the process, on the corpus writer it EXTENDS.  Rows are numbered in the *)
(* order of the items; an item is whether its title and its summary hold   *)
(* words.                                                                  *)
(***************************************************************************)
EXTENDS CorpusWriter, FiniteSets

CONSTANTS
    Listed,      \* the -feeds or -queries flag, cut at its commas, "" blank
    Curated,     \* DefaultRSSFeeds or DefaultGDELTQueries
    Answers      \* what a feed or a query may answer: a sequence of items

Item == [title : BOOLEAN, summary : BOOLEAN]

ASSUME BatchAssumption ==
    /\ Answers \subseteq Seq(Item)
    /\ Row = 1..Cardinality(Row)
    /\ Len(Curated) > 0

VARIABLES
    source,      \* the -source flag
    phase,       \* "running", "failed": Run returned an error, "exit 0", "exit 1"
    asked,       \* how many feeds or queries Run has asked
    items,       \* those of the present answer still to be written
    stats,       \* the counters docs, skipped, failed
    interrupted, \* SIGTERM, SIGINT, or -duration is over
    owed         \* history: the rows with words in them of all answers

batchVars == <<phase, asked, items, stats, interrupted, owed>>

splitCSV(parts) == SelectSeq(parts, LAMBDA name : name # "")

Feeds == IF splitCSV(Listed) = <<>> THEN Curated ELSE splitCSV(Listed)

(* rssDocument takes title or summary, harvestQuery the title alone. *)
HasText(item) == item.title \/ (source = "rss" /\ item.summary)

Seen == stats.docs + stats.skipped

BatchInit ==
    /\ phase = "running"
    /\ asked = 0
    /\ items = <<>>
    /\ stats = [docs |-> 0, skipped |-> 0, failed |-> 0]
    /\ interrupted = FALSE
    /\ owed = {}

-----------------------------------------------------------------------------
Interrupt ==
    /\ phase = "running" /\ ~interrupted
    /\ interrupted' = TRUE
    /\ UNCHANGED <<writerVars, phase, asked, items, stats, owed>>

(* RSS looks at the context before each feed.  GDELT waits for its tick or  *)
(* for the context, and may take the tick when both are there.              *)
MayAsk ==
    /\ phase = "running"
    /\ items = <<>> /\ asked < Len(Feeds)
    /\ source = "rss" => ~interrupted

(* An outage, a refusal or the cancelled context: counted, and the pass     *)
(* goes on.                                                                 *)
Fails ==
    /\ MayAsk
    /\ asked' = asked + 1
    /\ stats' = [stats EXCEPT !.failed = @ + 1]
    /\ UNCHANGED <<writerVars, phase, items, interrupted, owed>>

Answered(answer) ==
    /\ MayAsk /\ ~interrupted
    /\ Seen + Len(answer) <= Cardinality(Row)
    /\ asked' = asked + 1
    /\ items' = answer
    /\ owed' = owed \cup {Seen + i : i \in {j \in DOMAIN answer : HasText(answer[j])}}
    /\ UNCHANGED <<writerVars, phase, stats, interrupted>>

Skip ==
    /\ items # <<>> /\ ~HasText(Head(items))
    /\ stats' = [stats EXCEPT !.skipped = @ + 1]
    /\ items' = Tail(items)
    /\ UNCHANGED <<writerVars, phase>>

(* Seeded bug: a row that could not be written is left out. *)
OnWriteErrorGoOn == items' = Tail(items) /\ UNCHANGED phase

(* A writer error ends the pass. *)
OnWriteError == items' = <<>> /\ phase' = "failed"

Write ==
    /\ items # <<>> /\ HasText(Head(items))
    /\ stats' = [stats EXCEPT !.docs = @ + 1]
    /\ WriteDocument(Seen + 1)
    /\ \/ ret' = "ok" /\ items' = Tail(items) /\ UNCHANGED phase
       \/ ret' = "error" /\ OnWriteError

(* Run returns the context's error when it has not come to its last feed.   *)
StopShort ==
    /\ phase = "running" /\ interrupted
    /\ items = <<>> /\ asked < Len(Feeds)
    /\ phase' = "failed"
    /\ ret' = "error"
    /\ UNCHANGED <<day, fault, part, disk, accepted, asked, items, stats, interrupted, owed>>

(* main returns, through the deferred Close, whose error is only logged.    *)
ExitZero ==
    /\ phase = "running"
    /\ items = <<>> /\ asked = Len(Feeds)
    /\ Close
    /\ phase' = "exit 0"
    /\ UNCHANGED <<asked, items, stats, interrupted, owed>>

(* os.Exit(1) runs no deferred Close: what is in the streams is gone.       *)
ExitOne ==
    /\ phase = "failed"
    /\ WriterCrash
    /\ phase' = "exit 1"
    /\ UNCHANGED <<asked, items, stats, interrupted, owed>>

BatchEnvironment ==
    /\ NextDay \/ DiskFaults \/ DiskHeals
    /\ UNCHANGED batchVars

BatchNext ==
    \/ Interrupt
    \/ Fails
    \/ \E answer \in Answers : Answered(answer)
    \/ (Skip \/ Write) /\ UNCHANGED <<asked, interrupted, owed>>
    \/ StopShort
    \/ ExitZero \/ ExitOne
    \/ BatchEnvironment

-----------------------------------------------------------------------------
(***************************************************************************)
(* "Feed outages are routine and must not cost the rest of the batch.      *)
(* Writer errors abort" (harvest/rss.go:75-77), gdelt.go:73-75 likewise:   *)
(* a pass that exits with 0 asked everybody, and unless its Close reported *)
(* an error, the files hold exactly the items with words of all who        *)
(* answered, which is what it counted; it exits with 1, and so loses what   *)
(* it had buffered (main.go:62-66, 87), only when it was interrupted or    *)
(* the writer refused a row, never because a feed failed.                  *)
(***************************************************************************)
PassIsAccountedFor ==
    source # "bluesky" =>
      /\ phase = "exit 0" =>
           /\ asked = Len(Feeds)
           /\ stats.docs = Cardinality(owed)
           /\ ret = "ok" => disk["documents"] = owed
      /\ phase = "exit 1" => interrupted \/ ~(owed \subseteq accepted["documents"])
=============================================================================
