------------------------------- MODULE Harvest -------------------------------
(***************************************************************************)
(* The Bluesky harvester: BlueskyHarvester.Run and handle (bluesky.go),    *)
(* JetstreamClient.Stream (jetstream.go), the cursor file (corpus.go) and  *)
(* the process around them (cmd/sentilyzer-harvest/main.go), writing into  *)
(* the corpus writer it EXTENDS.                                           *)
(*                                                                         *)
(* The firehose is an append-only log of events; the position of an event  *)
(* in it stands for its time_us, and a corpus row is named by the position *)
(* of the event it was made from.  A cursor is a position, 0 when there is *)
(* none.  The stream redelivers from Rewind positions before the cursor,   *)
(* or from the live end when no cursor is sent.                            *)
(***************************************************************************)
EXTENDS CorpusWriter

CONSTANTS
    Docs,        \* post ids
    AuthorOf,    \* AuthorOf[d]: the account that wrote d
    Firehose,    \* the events the stream may carry
    Rewind,      \* the 5 s of overlap, in positions
    MaxEvents,   \* bound: length of the firehose
    MaxBreaks,   \* bound: streams that end, or never open, uncancelled
    Crashes      \* whether the process may be killed

VARIABLES
    log,         \* the firehose
    mode,        \* "stopped", "dialing", "reading", "backoff", "closing"
    pos,         \* the next event of the connection
    last,        \* Stream: the time of the last event read
    cursor,      \* Run: where the next connection resumes
    cursorFile,  \* the cursor on disk
    stop,        \* the context is cancelled
    live,        \* history: where the last stream without a cursor began
    breaks       \* counts what MaxBreaks bounds

stream == <<pos, last>>
resume == <<cursor, cursorFile>>
harvestVars ==
    <<writerVars, log, mode, stream, resume, stop, live, breaks>>

Authors == {AuthorOf[d] : d \in Docs}

(* "other" is all that handle() writes nothing for: identity events,        *)
(* reactivations, and posts the filter skips.  The filter's sample is a     *)
(* hash of the post id, so a redelivered event gets the same verdict.       *)
Event == [op : {"create", "delete"}, doc : Docs]
         \cup [op : {"deactivate"}, author : Authors]
         \cup [op : {"other"}]

ASSUME HarvestAssumption ==
    /\ Row = 1..MaxEvents
    /\ Firehose \subseteq Event
    /\ Rewind \in Nat
    /\ MaxEvents \in Nat
    /\ MaxBreaks \in Nat
    /\ Crashes \in BOOLEAN

Kept(ev) == ev.op # "other"

KindOf(ev) == IF ev.op = "create" THEN "documents" ELSE "tombstones"

HarvestTypeOK ==
    /\ WriterTypeOK
    /\ log \in Seq(Firehose)
    /\ Len(log) <= MaxEvents
    /\ mode \in {"stopped", "dialing", "reading", "backoff", "closing"}
    /\ pos \in 0..MaxEvents + 1
    /\ last \in 0..MaxEvents
    /\ cursor \in 0..MaxEvents
    /\ cursorFile \in 0..MaxEvents
    /\ stop \in BOOLEAN
    /\ live \in 1..MaxEvents + 1
    /\ breaks \in 0..MaxBreaks

HarvestInit ==
    /\ WriterInit
    /\ log = <<>>
    /\ mode = "stopped"
    /\ pos = 0 /\ last = 0
    /\ cursor = 0 /\ cursorFile = 0
    /\ stop = FALSE
    /\ live = 1
    /\ breaks = 0

-----------------------------------------------------------------------------
(* The firehose grows on its own. *)
Publish(ev) ==
    /\ Len(log) < MaxEvents
    /\ log' = Append(log, ev)
    /\ UNCHANGED <<writerVars, mode, stream, resume, stop, live, breaks>>

(* A new process loads the cursor file. *)
Start ==
    /\ mode = "stopped"
    /\ mode' = "dialing"
    /\ cursor' = cursorFile
    /\ UNCHANGED <<writerVars, log, stream, cursorFile, stop, live, breaks>>

(* SIGTERM, SIGINT or the end of -duration. *)
Cancel ==
    /\ mode \in {"dialing", "reading", "backoff"}
    /\ ~stop
    /\ stop' = TRUE
    /\ UNCHANGED <<writerVars, log, mode, stream, resume, live, breaks>>

(* Seeded bug: the stream resumes after the event its cursor names. *)
ResumeAfter(c) == c + 1

(* Where a connection opened with cursor c begins (subscribeURL). *)
ResumeAt(c) == IF c > Rewind THEN c - Rewind ELSE 1

Dial ==
    /\ mode = "dialing"
    /\ ~stop
    /\ mode' = "reading"
    /\ pos' = IF cursor > 0 THEN ResumeAt(cursor) ELSE Len(log) + 1
    /\ last' = cursor
    /\ live' = IF cursor > 0 THEN live ELSE Len(log) + 1
    /\ UNCHANGED <<writerVars, log, resume, stop, breaks>>

(* The locals of Stream are gone once it returned. *)
NoStream == pos' = 0 /\ last' = 0

(* Seeded bug: a broken stream ends the harvest instead of a backoff. *)
EndStreamForGood(l) ==
    /\ cursor' = IF l > cursor THEN l ELSE cursor
    /\ cursorFile' \in IF l > cursor THEN {l, cursorFile} ELSE {cursorFile}
    /\ NoStream
    /\ mode' = "closing"

(* After Stream returned l: the cursor only moves forward, its file is      *)
(* written (a failure is only logged), and a cancelled run returns.         *)
EndStream(l) ==
    /\ cursor' = IF l > cursor THEN l ELSE cursor
    /\ cursorFile' \in IF l > cursor THEN {l, cursorFile} ELSE {cursorFile}
    /\ NoStream
    /\ mode' = IF stop THEN "closing" ELSE "backoff"

(* MaxBreaks bounds the breaks that are not due to the cancelled context. *)
CountBreak ==
    /\ stop \/ breaks < MaxBreaks
    /\ breaks' = IF stop THEN breaks ELSE breaks + 1

DialFails ==
    /\ mode = "dialing"
    /\ EndStream(cursor)
    /\ CountBreak
    /\ UNCHANGED <<writerVars, log, stop, live>>

ConnectionDrops ==
    /\ mode = "reading"
    /\ EndStream(last)
    /\ CountBreak
    /\ UNCHANGED <<writerVars, log, stop, live>>

(* Seeded bug: the saved cursor is the next event's time. *)
AdvancePast ==
    /\ pos' = pos + 1
    /\ last' = pos
    /\ cursorFile' \in {cursorFile, pos + 1}
    /\ UNCHANGED <<mode, cursor>>

(* The handler of Run returned nil: every CursorEvery it saves the event's  *)
(* time, also while it replays events from before the saved cursor.         *)
Advance ==
    /\ pos' = pos + 1
    /\ last' = pos
    /\ cursorFile' \in {cursorFile, pos}
    /\ UNCHANGED <<mode, cursor>>

(* One event: last moves before the handler runs, and a writer error ends   *)
(* the stream.                                                              *)
Deliver ==
    /\ mode = "reading"
    /\ pos <= Len(log)
    /\ \/ /\ ~Kept(log[pos])
          /\ Advance
          /\ UNCHANGED <<writerVars, breaks>>
       \/ /\ Kept(log[pos])
          /\ WriteRow(KindOf(log[pos]), pos)
          /\ \/ ret' = "ok" /\ Advance /\ UNCHANGED breaks
             \/ ret' = "error" /\ EndStream(pos) /\ CountBreak
    /\ UNCHANGED <<log, stop, live>>

Reconnect ==
    /\ mode = "backoff"
    /\ mode' = "dialing"
    /\ UNCHANGED <<writerVars, log, stream, resume, stop, live, breaks>>

StopInBackoff ==
    /\ mode = "backoff"
    /\ stop
    /\ mode' = "closing"
    /\ UNCHANGED <<writerVars, log, stream, resume, stop, live, breaks>>

(* main's deferred writer.Close, after Run returned nil. *)
Exit ==
    /\ mode = "closing"
    /\ Close
    /\ mode' = "stopped"
    /\ stop' = FALSE
    /\ cursor' = 0
    /\ UNCHANGED <<log, stream, cursorFile, live, breaks>>

Crash ==
    /\ Crashes
    /\ mode # "stopped"
    /\ WriterCrash
    /\ mode' = "stopped"
    /\ stop' = FALSE
    /\ NoStream
    /\ cursor' = 0
    /\ UNCHANGED <<log, cursorFile, live, breaks>>

(* The date and the disk change under the process. *)
Environment ==
    /\ NextDay \/ DiskFaults \/ DiskHeals
    /\ UNCHANGED <<log, mode, stream, resume, stop, live, breaks>>

HarvestNext ==
    \/ \E ev \in Firehose : Publish(ev)
    \/ Start \/ Cancel
    \/ Dial \/ DialFails \/ ConnectionDrops \/ Deliver
    \/ Reconnect \/ StopInBackoff
    \/ Exit \/ Crash
    \/ Environment

HarvestSpec == HarvestInit /\ [][HarvestNext]_harvestVars

(* What a running process does by itself; an operator's Start and Cancel,   *)
(* the firehose and the disk owe nothing.                                   *)
HarvestFairness ==
    /\ WF_harvestVars(Dial) /\ WF_harvestVars(Deliver)
    /\ WF_harvestVars(Reconnect) /\ WF_harvestVars(Exit)

FairHarvest == HarvestSpec /\ HarvestFairness

-----------------------------------------------------------------------------
(* The positions a resume from c never delivers again. *)
Passed(c) == {i \in live..Len(log) : i + Rewind < c /\ Kept(log[i])}

(***************************************************************************)
(* Whatever breaks - connection, disk, process - the harvester never       *)
(* resumes past an event the writer has not accepted: every event since    *)
(* the stream began that neither cursor will bring back was given to the   *)
(* writer, which returned nil for it.  (jetstream.go:54-56)                *)
(***************************************************************************)
ResumeNeverSkips ==
    \A i \in Passed(cursorFile) \cup Passed(cursor) :
      i \in accepted[KindOf(log[i])]

(***************************************************************************)
(* A process that was stopped, not killed, on a disk that took its writes  *)
(* leaves in the part files every row its cursor file has passed.          *)
(***************************************************************************)
CleanStopIsDurable ==
    (~Crashes /\ "write" \notin Faults /\ mode = "stopped") =>
      \A i \in Passed(cursorFile) : i \in disk[KindOf(log[i])]

(***************************************************************************)
(* Rows leave the writer's hands only in a call that says so: short of the *)
(* process being killed, a step that returns nil, whatever the disk does,  *)
(* keeps every row the writer held.  Run and main act on that error alone. *)
(* (bluesky.go:155, main.go:62-66)                                         *)
(***************************************************************************)
LossIsReported ==
    [][(\A k \in Kinds : Held(k) \subseteq Held(k)') \/ ret' = "error" \/ Crash]_harvestVars

(***************************************************************************)
(* "Files rotate when the UTC date changes" (corpus.go:86): on a healthy   *)
(* disk, a write on a later date than the open part's leaves the writer    *)
(* with a part of today.                                                   *)
(***************************************************************************)
RotatesOnDateChange ==
    [][\A k \in Kinds, row \in Row :
         /\ WriteRow(k, row)
         /\ fault = "none"
         /\ part[k] # NoPart
         /\ part[k].date # day
         => part'[k].date = day]_harvestVars

Due(i) == \E j \in live..Len(log) : j = i /\ Kept(log[j])
Written(i) == \E k \in Kinds : i \in accepted[k]

(***************************************************************************)
(* While the process runs on a working disk, every event of the firehose   *)
(* that its stream covers is written, however its connections break.       *)
(***************************************************************************)
EventuallyHarvested ==
    \A i \in Row :
      (Due(i) /\ mode = "reading") ~> (i < live \/ Written(i) \/ stop)

=============================================================================
