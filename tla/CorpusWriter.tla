---------------------------- MODULE CorpusWriter ----------------------------
(***************************************************************************)
(* The corpus writer of api/internal/harvest/corpus.go: rows are encoded   *)
(* through a gzip stream into one part file per kind and UTC date.  What   *)
(* matters here is where a row is: still inside the gzip writer of the     *)
(* open part, or in the bytes of a part file.  Only Close and the rotation *)
(* at a date change flush a part; in between, the compressor emits a block *)
(* whenever it pleases.                                                    *)
(*                                                                         *)
(* A row is an opaque value of Row.  The calls are atomic: every public    *)
(* method holds the writer's mutex from its first line to its last.        *)
(***************************************************************************)
EXTENDS Naturals, Sequences

CONSTANTS
    Row,        \* what is written: one value per call
    Faults,     \* the disk conditions that may occur
    MaxDay      \* bound: the last UTC date of a behaviour

ASSUME WriterAssumption ==
    /\ Faults \subseteq {"write", "open"}
    /\ MaxDay \in Nat \ {0}

Kinds == {"documents", "tombstones"}

VARIABLES
    day,        \* the UTC date
    fault,      \* "none", "write": writing file bytes fails,
                \* "open": MkdirAll or OpenFile fails
    part,       \* part[k]: the field docs or tomb of the writer
    disk,       \* disk[k]: the rows a reader finds in the part files
    ret,        \* what the last call returned
    accepted    \* history: the rows of the calls that returned nil

writerVars == <<day, fault, part, disk, ret, accepted>>

(***************************************************************************)
(* A part file: the date of its directory, the rows its gzip stream still  *)
(* holds, and what the stream can do.  "closed": gzip and file are closed. *)
(* "broken": a write failed, and compress/gzip returns that error to every *)
(* later Write and Close.                                                  *)
(***************************************************************************)
Part == [date : Nat, buf : Seq(Row), io : {"open", "closed", "broken"}]
NoPart == [date |-> 0, buf |-> <<>>, io |-> "none"]
NewPart == [date |-> day, buf |-> <<>>, io |-> "open"]

Buffered(k) == {part[k].buf[i] : i \in 1..Len(part[k].buf)}

Broken(p) == [date |-> p.date, buf |-> <<>>, io |-> "broken"]
Closed(p) == [date |-> p.date, buf |-> <<>>, io |-> "closed"]

WriterTypeOK ==
    /\ day \in 1..MaxDay
    /\ fault \in Faults \cup {"none"}
    /\ part \in [Kinds -> Part \cup {NoPart}]
    /\ disk \in [Kinds -> SUBSET Row]
    /\ ret \in {"ok", "error"}
    /\ accepted \in [Kinds -> SUBSET Row]

WriterInit ==
    /\ day = 1
    /\ fault = "none"
    /\ part = [k \in Kinds |-> NoPart]
    /\ disk = [k \in Kinds |-> {}]
    /\ ret = "ok"
    /\ accepted = [k \in Kinds |-> {}]

-----------------------------------------------------------------------------
(* part() keeps the current part only while its date is today's. *)
Current(k) == part[k] # NoPart /\ part[k].date = day

(* closePart() succeeds on a part that still works: a second Close of the  *)
(* file, or a gzip stream with an error, fails.                            *)
CanClose(p) == p.io = "open" /\ fault # "write"

(* The first n rows of a sequence. *)
First(rows, n) == {rows[i] : i \in 1..n}

(* A call that fails without touching a file leaves p in the writer. *)
Fail(k, p) ==
    /\ part' = [part EXCEPT ![k] = p]
    /\ ret' = "error"
    /\ UNCHANGED <<disk, accepted>>

(* A failing file write: part of the pending rows may have got through, the *)
(* rest of the stream is gone.                                              *)
BreakPart(k, p, rows) ==
    /\ \E n \in 0..Len(rows) : disk' = [disk EXCEPT ![k] = @ \cup First(rows, n)]
    /\ part' = [part EXCEPT ![k] = Broken(p)]
    /\ ret' = "error"
    /\ UNCHANGED accepted

(***************************************************************************)
(* enc.Encode(row) on part p, with flushed the rows that the close of the  *)
(* previous part put on disk.  The compressor hands any number of the      *)
(* oldest rows to the file; a new stream writes its header at once, an     *)
(* older one may or may not touch the file in this call.                   *)
(***************************************************************************)
Encode(k, p, fresh, flushed, row) ==
    LET rows == Append(p.buf, row)
    IN  \/ /\ p.io = "open"
           /\ \E n \in 0..Len(rows) :
                /\ fault = "write" => n = 0 /\ ~fresh
                /\ part' = [part EXCEPT
                              ![k] = [p EXCEPT !.buf = SubSeq(rows, n + 1, Len(rows))]]
                /\ disk' = [disk EXCEPT ![k] = @ \cup flushed \cup First(rows, n)]
           /\ ret' = "ok"
           /\ accepted' = [accepted EXCEPT ![k] = @ \cup {row}]
        \/ /\ p.io = "open"
           /\ fault = "write"
           /\ BreakPart(k, p, rows)
        \/ /\ p.io # "open"
           /\ Fail(k, p)

(* Rotation: close yesterday's part, make the directory, open today's. *)
Rotate(k, row) ==
    \/ /\ part[k] = NoPart
       /\ fault # "open"
       /\ Encode(k, NewPart, TRUE, {}, row)
    \/ /\ part[k] = NoPart
       /\ fault = "open"
       /\ Fail(k, NoPart)
    \/ /\ part[k] # NoPart
       /\ CanClose(part[k])
       /\ fault # "open"
       /\ Encode(k, NewPart, TRUE, Buffered(k), row)
    \/ /\ part[k] # NoPart
       /\ CanClose(part[k])
       /\ fault = "open"
       /\ part' = [part EXCEPT ![k] = Closed(@)]
       /\ disk' = [disk EXCEPT ![k] = @ \cup Buffered(k)]
       /\ ret' = "error"
       /\ UNCHANGED accepted
    \/ /\ part[k] # NoPart
       /\ ~CanClose(part[k])
       /\ IF part[k].io = "open" THEN BreakPart(k, part[k], part[k].buf)
                                 ELSE Fail(k, part[k])

(* WriteDocument and WriteTombstone differ only in the field they use. *)
WriteRow(k, row) ==
    /\ IF Current(k) THEN Encode(k, part[k], FALSE, {}, row) ELSE Rotate(k, row)
    /\ UNCHANGED <<day, fault>>

WriteDocument(row) == WriteRow("documents", row)
WriteTombstone(row) == WriteRow("tombstones", row)

(* Seeded bug: the file is closed and the gzip stream is not. *)
FileOnlyOutcomes(k) == {First(part[k].buf, n) : n \in 0..Len(part[k].buf)}

(* What closing the part of kind k may put on disk. *)
FlushOutcomes(k) ==
    IF CanClose(part[k]) THEN {Buffered(k)}
    ELSE {First(part[k].buf, n) : n \in 0..Len(part[k].buf)}

(* Seeded bug: Close drops the error of the tombstone part. *)
CloseDocsError ==
    /\ \E docs \in FlushOutcomes("documents"), tombs \in FlushOutcomes("tombstones") :
         disk' = [k \in Kinds |-> disk[k] \cup (IF k = "documents" THEN docs ELSE tombs)]
    /\ ret' = IF part["documents"] = NoPart \/ CanClose(part["documents"])
              THEN "ok" ELSE "error"
    /\ part' = [k \in Kinds |-> NoPart]
    /\ UNCHANGED <<day, fault, accepted>>

(* Close tries both parts and forgets them whatever happened. *)
Close ==
    /\ \E docs \in FlushOutcomes("documents"), tombs \in FlushOutcomes("tombstones") :
         disk' = [k \in Kinds |-> disk[k] \cup (IF k = "documents" THEN docs ELSE tombs)]
    /\ ret' = IF \A k \in Kinds : part[k] = NoPart \/ CanClose(part[k])
              THEN "ok" ELSE "error"
    /\ part' = [k \in Kinds |-> NoPart]
    /\ UNCHANGED <<day, fault, accepted>>

(* The process dies: its memory goes, the bytes handed to the files stay. *)
WriterCrash ==
    /\ part' = [k \in Kinds |-> NoPart]
    /\ UNCHANGED <<day, fault, disk, ret, accepted>>

NextDay ==
    /\ day < MaxDay
    /\ day' = day + 1
    /\ UNCHANGED <<fault, part, disk, ret, accepted>>

DiskFaults ==
    /\ fault = "none"
    /\ fault' \in Faults
    /\ UNCHANGED <<day, part, disk, ret, accepted>>

DiskHeals ==
    /\ fault # "none"
    /\ fault' = "none"
    /\ UNCHANGED <<day, part, disk, ret, accepted>>

-----------------------------------------------------------------------------
(* The rows the writer still answers for: on disk, or in an open part. *)
Held(k) == disk[k] \cup Buffered(k)
=============================================================================
