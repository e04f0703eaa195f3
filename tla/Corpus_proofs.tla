---------------------------- MODULE Corpus_proofs ----------------------------
(***************************************************************************)
(* Proofs about the corpus: the harvester of the firehose, for every       *)
(* firehose, overlap, set of disk faults and bound, and then its users,    *)
(* the batch sources and the training sets that are built from it.         *)
(***************************************************************************)
EXTENDS Corpus, Harvesters, FiniteSetTheorems, TLAPS

(* What a call may do to accepted: nothing, or record its row. *)
Records(k, row) ==
    \/ ret' = "ok" /\ accepted' = [accepted EXCEPT ![k] = @ \cup {row}]
    \/ ret' = "error" /\ UNCHANGED accepted

(***************************************************************************)
(* Rows handed to the file and rows kept back make up the pending rows.    *)
(***************************************************************************)
LEMMA SplitRows ==
    ASSUME NEW rows \in Seq(Row), NEW n \in 0..Len(rows)
    PROVE  /\ First(rows, n) \subseteq Row
           /\ SubSeq(rows, n + 1, Len(rows)) \in Seq(Row)
           /\ {rows[i] : i \in 1..Len(rows)} \subseteq
                First(rows, n) \cup
                {SubSeq(rows, n + 1, Len(rows))[i] :
                   i \in 1..Len(SubSeq(rows, n + 1, Len(rows)))}
<1> DEFINE rest == SubSeq(rows, n + 1, Len(rows))
<1>1. First(rows, n) \subseteq Row
  BY DEF First
<1>2. rest \in Seq(Row) /\ Len(rest) = Len(rows) - n
      /\ \A i \in 1..Len(rest) : rest[i] = rows[n + i]
  OBVIOUS
<1>3. ASSUME NEW j \in 1..Len(rows), j > n
      PROVE  j - n \in 1..Len(rest) /\ rows[j] = rest[j - n]
  BY <1>2, <1>3
<1>4. ASSUME NEW j \in 1..Len(rows), ~(j > n)
      PROVE  rows[j] \in First(rows, n)
  BY <1>4 DEF First
<1> QED
  BY <1>1, <1>2, <1>3, <1>4

(* Emptying a part that broke or was closed leaves a part. *)
LEMMA EmptiedParts ==
    ASSUME NEW p \in Part
    PROVE  Broken(p) \in Part /\ Closed(p) \in Part
<1>1. p.date \in Nat /\ <<>> \in Seq(Row)
  BY DEF Part
<1> QED
  BY <1>1 DEF Part, Broken, Closed

(***************************************************************************)
(* One Encode keeps the writer's types and loses no row it reports nil for. *)
(***************************************************************************)
LEMMA EncodeStep ==
    ASSUME WriterTypeOK, NEW k \in Kinds, NEW p \in Part \cup {NoPart},
           NEW fresh \in BOOLEAN, NEW flushed \in SUBSET Row, NEW row \in Row,
           Encode(k, p, fresh, flushed, row)
    PROVE  /\ part' \in [Kinds -> Part \cup {NoPart}]
           /\ disk' \in [Kinds -> SUBSET Row]
           /\ accepted' \in [Kinds -> SUBSET Row]
           /\ Records(k, row)
           /\ disk[k] \subseteq disk'[k]
           /\ ret' = "ok" =>
                /\ flushed \subseteq disk'[k]
                /\ {p.buf[i] : i \in 1..Len(p.buf)} \subseteq disk'[k] \cup Buffered(k)'
           /\ \A other \in Kinds \ {k} :
                disk'[other] = disk[other] /\ part'[other] = part[other]
<1> DEFINE rows == Append(p.buf, row)
<1>0. /\ part \in [Kinds -> Part \cup {NoPart}]
      /\ disk \in [Kinds -> SUBSET Row]
      /\ accepted \in [Kinds -> SUBSET Row]
  BY DEF WriterTypeOK
<1>1. CASE p.io # "open"
  BY <1>0, <1>1 DEF Encode, Fail, Records
<1>2. CASE p.io = "open"
  <2>1. p \in Part /\ p.buf \in Seq(Row) /\ rows \in Seq(Row)
    BY <1>2 DEF Part, NoPart
  <2>2. Len(rows) = Len(p.buf) + 1
        /\ \A i \in 1..Len(p.buf) : rows[i] = p.buf[i]
    BY <2>1
  <2>3. ASSUME BreakPart(k, p, rows)
        PROVE  /\ part' \in [Kinds -> Part \cup {NoPart}]
               /\ disk' \in [Kinds -> SUBSET Row]
               /\ ret' = "error" /\ UNCHANGED accepted
               /\ disk[k] \subseteq disk'[k]
               /\ \A other \in Kinds \ {k} :
                    disk'[other] = disk[other] /\ part'[other] = part[other]
    <3>1. PICK n \in 0..Len(rows) : disk' = [disk EXCEPT ![k] = @ \cup First(rows, n)]
      BY <2>3 DEF BreakPart
    <3>2. First(rows, n) \subseteq Row
      BY <2>1, SplitRows
    <3>3. Broken(p) \in Part
      BY <2>1, EmptiedParts
    <3> QED
      BY <1>0, <2>3, <3>1, <3>2, <3>3 DEF BreakPart
  <2>4. ASSUME NEW n \in 0..Len(rows),
               part' = [part EXCEPT
                          ![k] = [p EXCEPT !.buf = SubSeq(rows, n + 1, Len(rows))]],
               disk' = [disk EXCEPT ![k] = @ \cup flushed \cup First(rows, n)],
               ret' = "ok",
               accepted' = [accepted EXCEPT ![k] = @ \cup {row}]
        PROVE  /\ part' \in [Kinds -> Part \cup {NoPart}]
               /\ disk' \in [Kinds -> SUBSET Row]
               /\ disk[k] \subseteq disk'[k]
               /\ flushed \subseteq disk'[k]
               /\ {p.buf[i] : i \in 1..Len(p.buf)} \subseteq disk'[k] \cup Buffered(k)'
               /\ \A other \in Kinds \ {k} :
                    disk'[other] = disk[other] /\ part'[other] = part[other]
    <3> DEFINE rest == SubSeq(rows, n + 1, Len(rows))
    <3>1. /\ First(rows, n) \subseteq Row
          /\ rest \in Seq(Row)
          /\ {rows[i] : i \in 1..Len(rows)} \subseteq
               First(rows, n) \cup {rest[i] : i \in 1..Len(rest)}
      BY <2>1, SplitRows
    <3>2. [p EXCEPT !.buf = rest] \in Part /\ [p EXCEPT !.buf = rest].buf = rest
      BY <2>1, <3>1 DEF Part
    <3>3. part'[k].buf = rest /\ disk'[k] = disk[k] \cup flushed \cup First(rows, n)
      BY <1>0, <2>4, <3>2
    <3>4. Buffered(k)' = {rest[i] : i \in 1..Len(rest)}
      BY <3>3 DEF Buffered
    <3>5. {p.buf[i] : i \in 1..Len(p.buf)} \subseteq {rows[i] : i \in 1..Len(rows)}
      <4> HIDE DEF rows
      <4> QED  BY <2>1, <2>2
    <3>6. part' \in [Kinds -> Part \cup {NoPart}] /\ disk' \in [Kinds -> SUBSET Row]
      BY <1>0, <2>4, <3>1, <3>2
    <3> HIDE DEF rest, rows
    <3> QED
      BY <1>0, <2>4, <3>1, <3>3, <3>4, <3>5, <3>6
  <2>5. accepted' \in [Kinds -> SUBSET Row] /\ Records(k, row)
    BY <1>0, <1>2 DEF Encode, BreakPart, Records
  <2>6. CASE ret' = "error"
    <3>1. BreakPart(k, p, rows)
      BY <1>2, <2>6 DEF Encode
    <3> QED
      BY <2>3, <2>5, <2>6, <3>1
  <2>7. CASE ret' = "ok"
    <3>1. PICK n \in 0..Len(rows) :
            /\ part' = [part EXCEPT
                          ![k] = [p EXCEPT !.buf = SubSeq(rows, n + 1, Len(rows))]]
            /\ disk' = [disk EXCEPT ![k] = @ \cup flushed \cup First(rows, n)]
            /\ accepted' = [accepted EXCEPT ![k] = @ \cup {row}]
      BY <1>2, <2>7 DEF Encode, BreakPart
    <3> QED
      BY <2>4, <2>5, <2>7, <3>1
  <2> QED
    BY <2>5, <2>6, <2>7 DEF Records
<1> QED
  BY <1>1, <1>2

(* A write keeps the writer's types, records its row exactly when it returns *)
(* nil, and then the writer still holds everything it held.                  *)
LEMMA WriteRowStep ==
    ASSUME WriterTypeOK, NEW k \in Kinds, NEW row \in Row, WriteRow(k, row)
    PROVE  /\ WriterTypeOK'
           /\ Records(k, row)
           /\ ret' = "ok" => \A kind \in Kinds : Held(kind) \subseteq Held(kind)'
<1>0. /\ day \in 1..MaxDay /\ MaxDay \in Nat
      /\ fault \in Faults \cup {"none"}
      /\ part \in [Kinds -> Part \cup {NoPart}]
      /\ disk \in [Kinds -> SUBSET Row]
      /\ accepted \in [Kinds -> SUBSET Row]
      /\ UNCHANGED <<day, fault>>
  BY WriterAssumption DEF WriterTypeOK, WriteRow
<1> DEFINE Good ==
      /\ part' \in [Kinds -> Part \cup {NoPart}]
      /\ disk' \in [Kinds -> SUBSET Row]
      /\ accepted' \in [Kinds -> SUBSET Row]
      /\ Records(k, row)
      /\ ret' = "ok" =>
           /\ disk[k] \subseteq disk'[k]
           /\ Buffered(k) \subseteq disk'[k] \cup Buffered(k)'
           /\ \A other \in Kinds \ {k} :
                disk'[other] = disk[other] /\ part'[other] = part[other]
<1>1. NewPart \in Part
  <2>1. day \in Nat /\ <<>> \in Seq(Row)
    BY <1>0
  <2> QED
    BY <2>1 DEF NewPart, Part
<1>2. Buffered(k) \subseteq Row
  <2>1. CASE part[k] \in Part
    <3>1. part[k].buf \in Seq(Row)
      BY <2>1 DEF Part
    <3> QED
      BY <3>1 DEF Buffered
  <2>2. CASE part[k] = NoPart
    <3>1. part[k].buf = <<>> /\ Len(part[k].buf) = 0
      BY <2>2 DEF NoPart
    <3> QED
      BY <3>1 DEF Buffered
  <2> QED
    BY <1>0, <2>1, <2>2
<1>3. ASSUME NEW p \in Part \cup {NoPart}, Fail(k, p)
      PROVE  Good
  BY <1>0, <1>3 DEF Fail, Records
<1>4. ASSUME Current(k) PROVE Good
  <2>1. Encode(k, part[k], FALSE, {}, row)
    BY <1>4 DEF WriteRow
  <2>2. part[k] \in Part \cup {NoPart} /\ {} \in SUBSET Row
    BY <1>0
  <2>3. /\ part' \in [Kinds -> Part \cup {NoPart}]
        /\ disk' \in [Kinds -> SUBSET Row]
        /\ accepted' \in [Kinds -> SUBSET Row]
        /\ Records(k, row)
        /\ disk[k] \subseteq disk'[k]
        /\ ret' = "ok" => {part[k].buf[i] : i \in 1..Len(part[k].buf)}
                             \subseteq disk'[k] \cup Buffered(k)'
        /\ \A other \in Kinds \ {k} :
             disk'[other] = disk[other] /\ part'[other] = part[other]
    BY <2>1, <2>2, EncodeStep
  <2>4. Buffered(k) = {part[k].buf[i] : i \in 1..Len(part[k].buf)}
    BY DEF Buffered
  <2> QED
    BY <2>3, <2>4
<1>5. ASSUME ~Current(k) PROVE Good
  <2>1. Rotate(k, row)
    BY <1>5 DEF WriteRow
  <2>2. CASE part[k] = NoPart
    <3>1. CASE Encode(k, NewPart, TRUE, {}, row)
      <4>1. Buffered(k) = {}
        BY <2>2 DEF Buffered, NoPart
      <4> QED
        BY <1>0, <1>1, <3>1, <4>1, EncodeStep
    <3>2. CASE Fail(k, NoPart)
      BY <1>3, <3>2
    <3> QED
      BY <2>1, <2>2, <3>1, <3>2 DEF Rotate
  <2>3. CASE part[k] # NoPart
    <3>0. part[k] \in Part
      BY <1>0, <2>3
    <3>1. CASE Encode(k, NewPart, TRUE, Buffered(k), row)
      BY <1>0, <1>1, <1>2, <3>1, EncodeStep
    <3>2. CASE /\ part' = [part EXCEPT ![k] = Closed(@)]
               /\ disk' = [disk EXCEPT ![k] = @ \cup Buffered(k)]
               /\ ret' = "error"
               /\ UNCHANGED accepted
      BY <1>0, <1>2, <3>0, <3>2, EmptiedParts DEF Records
    <3>3. CASE BreakPart(k, part[k], part[k].buf)
      <4>1. part[k].buf \in Seq(Row) /\ Broken(part[k]) \in Part
        BY <3>0, EmptiedParts DEF Part
      <4>2. PICK n \in 0..Len(part[k].buf) :
              disk' = [disk EXCEPT ![k] = @ \cup First(part[k].buf, n)]
        BY <3>3 DEF BreakPart
      <4>3. First(part[k].buf, n) \subseteq Row
        BY <4>1, <4>2, SplitRows
      <4> QED
        BY <1>0, <3>3, <4>1, <4>2, <4>3 DEF BreakPart, Records
    <3>4. CASE Fail(k, part[k])
      BY <1>3, <3>0, <3>4
    <3> QED
      BY <2>1, <2>3, <3>1, <3>2, <3>3, <3>4 DEF Rotate
  <2> QED
    BY <2>2, <2>3
<1>6. Good
  BY <1>4, <1>5
<1>7. ASSUME ret' = "ok", NEW kind \in Kinds
      PROVE  Held(kind) \subseteq Held(kind)'
  <2>1. CASE kind = k
    BY <1>6, <1>7, <2>1 DEF Held
  <2>2. CASE kind # k
    BY <1>6, <1>7, <2>2 DEF Held, Buffered
  <2> QED
    BY <2>1, <2>2
<1>8. WriterTypeOK'
  BY <1>0, <1>6 DEF WriterTypeOK, Records
<1> QED
  BY <1>6, <1>7, <1>8

(* Close keeps the types, and returns nil only with every buffered row on   *)
(* disk.                                                                    *)
LEMMA CloseStep ==
    ASSUME WriterTypeOK, Close
    PROVE  /\ WriterTypeOK'
           /\ UNCHANGED accepted
           /\ ret' = "ok" => \A kind \in Kinds : Held(kind) \subseteq Held(kind)'
<1>0. /\ part \in [Kinds -> Part \cup {NoPart}]
      /\ disk \in [Kinds -> SUBSET Row]
  BY DEF WriterTypeOK
<1>1. ASSUME NEW k \in Kinds, NEW rows \in FlushOutcomes(k)
      PROVE  /\ rows \subseteq Row
             /\ part[k] = NoPart \/ CanClose(part[k]) => Buffered(k) \subseteq rows
  <2>1. part[k].buf \in Seq(Row)
    <3>1. CASE part[k] = NoPart
      <4>1. part[k].buf = <<>> /\ <<>> \in Seq(Row)
        BY <3>1 DEF NoPart
      <4> QED
        BY <4>1
    <3>2. CASE part[k] \in Part
      BY <3>2 DEF Part
    <3> QED
      BY <1>0, <3>1, <3>2
  <2>2. Buffered(k) \subseteq Row
    BY <2>1 DEF Buffered
  <2>3. part[k] = NoPart => Buffered(k) = {}
    BY DEF Buffered, NoPart
  <2>4. CASE CanClose(part[k])
    BY <1>1, <2>2, <2>4 DEF FlushOutcomes
  <2>5. CASE ~CanClose(part[k])
    BY <1>1, <2>1, <2>3, <2>5, SplitRows DEF FlushOutcomes
  <2> QED
    BY <2>4, <2>5
<1>2. PICK docs \in FlushOutcomes("documents"), tombs \in FlushOutcomes("tombstones") :
        disk' = [k \in Kinds |-> disk[k] \cup (IF k = "documents" THEN docs ELSE tombs)]
  BY DEF Close
<1>3. docs \subseteq Row /\ tombs \subseteq Row
  BY <1>1 DEF Kinds
<1>4. \A k \in Kinds : Buffered(k)' = {}
  BY DEF Close, Buffered, NoPart
<1>5. WriterTypeOK'
  <2>1. disk' \in [Kinds -> SUBSET Row]
    BY <1>0, <1>2, <1>3
  <2>2. part' \in [Kinds -> Part \cup {NoPart}] /\ ret' \in {"ok", "error"}
    BY DEF Close
  <2> QED
    BY <2>1, <2>2 DEF WriterTypeOK, Close
<1>6. ASSUME ret' = "ok", NEW kind \in Kinds
      PROVE  Held(kind) \subseteq Held(kind)'
  <2>1. part[kind] = NoPart \/ CanClose(part[kind])
    BY <1>6 DEF Close
  <2>2. kind = "documents" => Buffered(kind) \subseteq docs
    BY <1>1, <2>1
  <2>3. kind = "tombstones" => Buffered(kind) \subseteq tombs
    BY <1>1, <2>1
  <2> QED
    BY <1>2, <2>2, <2>3 DEF Held, Kinds
<1> QED
  BY <1>5, <1>6 DEF Close

-----------------------------------------------------------------------------
(***************************************************************************)
(* The inductive invariant.  ResumeNeverSkips is not inductive: nothing in *)
(* it says that a cursor about to be taken from the stream - the last      *)
(* event read, or the one whose handler just failed - covers only accepted *)
(* events.  That follows from the stream being read in order, which        *)
(* Reading states; Bounded keeps the events still to come out of reach.    *)
(***************************************************************************)
Given(i) == Kept(log[i]) => i \in accepted[KindOf(log[i])]
Covers(c) == \A i \in live..Len(log) : i + Rewind < c => Given(i)

Bounded == cursor <= Len(log) /\ cursorFile <= Len(log)

Reading ==
    mode = "reading" =>
      /\ pos \in 1..Len(log) + 1
      /\ last <= Len(log)
      /\ Covers(last)
      /\ \A i \in live..Len(log) : i < pos => Given(i)

HarvestInv ==
    HarvestTypeOK /\ Bounded /\ Reading /\ Covers(cursor) /\ Covers(cursorFile)

(* What HarvestTypeOK says of the integers in it. *)
LEMMA HarvestTypes ==
    ASSUME HarvestTypeOK
    PROVE  /\ log \in Seq(Firehose) /\ Len(log) \in 0..MaxEvents
           /\ MaxEvents \in Nat /\ Rewind \in Nat /\ MaxBreaks \in Nat
           /\ \A i \in 1..Len(log) : log[i] \in Firehose
           /\ accepted \in [Kinds -> SUBSET Row]
           /\ \A ev : KindOf(ev) \in Kinds
           /\ pos \in Nat /\ last \in Nat /\ cursor \in Nat /\ cursorFile \in Nat
           /\ live \in Nat \ {0}
  BY HarvestAssumption DEF HarvestTypeOK, WriterTypeOK, KindOf, Kinds

(* Growing accepted, on the same log and stream, uncovers nothing. *)
LEMMA CoversStays ==
    ASSUME HarvestTypeOK, UNCHANGED <<log, live>>,
           \A k \in Kinds : accepted[k] \subseteq accepted'[k]
    PROVE  /\ \A i : Given(i) => Given(i)'
           /\ \A c : Covers(c) => \A i \in live'..Len(log') : i + Rewind < c => Given(i)'
<1>1. \A i : Given(i) => Given(i)'
  BY HarvestTypes DEF Given
<1> QED
  BY <1>1 DEF Covers

(* EndStream(l) is safe wherever l covers only accepted events. *)
LEMMA EndStreamStep ==
    ASSUME HarvestInv, NEW l \in 0..MaxEvents, EndStream(l),
           UNCHANGED <<log, live>>, stop \in BOOLEAN,
           \A k \in Kinds : accepted[k] \subseteq accepted'[k],
           l <= Len(log), Covers(l)
    PROVE  /\ mode' \in {"closing", "backoff"}
           /\ pos' = 0 /\ last' = 0
           /\ cursor' \in 0..MaxEvents /\ cursorFile' \in 0..MaxEvents
           /\ Bounded' /\ Reading' /\ Covers(cursor)' /\ Covers(cursorFile)'
<1>1. mode' \in {"closing", "backoff"} /\ pos' = 0 /\ last' = 0
  BY DEF EndStream, NoStream
<1>2. cursor' \in {l, cursor} /\ cursorFile' \in {l, cursorFile}
  BY DEF EndStream
<1>3. cursor \in 0..MaxEvents /\ cursorFile \in 0..MaxEvents
  BY DEF HarvestInv, HarvestTypeOK
<1>4. Covers(cursor)' /\ Covers(cursorFile)'
  BY <1>2, CoversStays DEF HarvestInv, Covers
<1> QED
  BY <1>1, <1>2, <1>3, <1>4 DEF HarvestInv, Bounded, Reading

LEMMA HarvestInvInit == HarvestInit => HarvestInv
<1> SUFFICES ASSUME HarvestInit PROVE HarvestInv
  OBVIOUS
<1>1. MaxEvents \in Nat /\ MaxDay \in Nat \ {0} /\ MaxBreaks \in Nat
  BY HarvestAssumption, WriterAssumption
<1>2. log = <<>> /\ Len(log) = 0 /\ log \in Seq(Firehose)
  BY DEF HarvestInit
<1>3. WriterTypeOK
  BY <1>1 DEF HarvestInit, WriterInit, WriterTypeOK
<1>4. HarvestTypeOK
  <2>1. 0 \in 0..MaxEvents /\ 0 \in 0..MaxEvents + 1 /\ 1 \in 1..MaxEvents + 1
        /\ 0 \in 0..MaxBreaks /\ 0 <= MaxEvents
    BY <1>1
  <2> QED
    BY <1>2, <1>3, <2>1 DEF HarvestInit, HarvestTypeOK
<1> QED
  BY <1>2, <1>4 DEF HarvestInit, HarvestInv, Bounded, Reading, Covers

(* The writer's own steps that the harvester shares with its environment. *)
LEMMA WriterQuietStep ==
    ASSUME WriterTypeOK,
           WriterCrash \/ NextDay \/ DiskFaults \/ DiskHeals \/ UNCHANGED writerVars
    PROVE  WriterTypeOK' /\ UNCHANGED accepted
<1> USE WriterAssumption DEF WriterTypeOK
<1>1. CASE WriterCrash
  BY <1>1 DEF WriterCrash
<1>2. CASE NextDay
  BY <1>2 DEF NextDay
<1>3. CASE DiskFaults
  BY <1>3 DEF DiskFaults
<1>4. CASE DiskHeals
  BY <1>4 DEF DiskHeals
<1>5. CASE UNCHANGED writerVars
  BY <1>5 DEF writerVars, Part
<1> QED
  BY <1>1, <1>2, <1>3, <1>4, <1>5

(* A new event at the end of the firehose is beyond every cursor. *)
LEMMA PublishStep ==
    ASSUME HarvestInv, NEW ev \in Firehose, Publish(ev)
    PROVE  HarvestInv'
<1>0. HarvestTypeOK
  BY DEF HarvestInv
<1>1. /\ log' \in Seq(Firehose) /\ Len(log') = Len(log) + 1
      /\ \A i \in 1..Len(log) : log'[i] = log[i]
      /\ Len(log') <= MaxEvents
  BY <1>0, HarvestTypes DEF Publish
<1>2. UNCHANGED <<writerVars, mode, stream, resume, stop, live, breaks>>
  BY DEF Publish
<1>3. WriterTypeOK' /\ UNCHANGED accepted
  BY <1>0, <1>2, WriterQuietStep DEF HarvestTypeOK
<1>4. HarvestTypeOK'
  BY <1>0, <1>1, <1>2, <1>3 DEF HarvestTypeOK, stream, resume
<1>5. \A i \in 1..Len(log) : Given(i) => Given(i)'
  BY <1>1, <1>3 DEF Given
<1>6. ASSUME NEW c \in Nat, c <= Len(log), Covers(c),
             NEW i \in live..Len(log'), i + Rewind < c
      PROVE  Given(i)'
  <2>1. i \in live..Len(log) /\ i \in 1..Len(log)
    BY <1>0, <1>1, <1>6, HarvestTypes
  <2> QED
    BY <1>5, <1>6, <2>1 DEF Covers
<1>7. Covers(cursor)' /\ Covers(cursorFile)' /\ Bounded'
  <2>1. /\ cursor' = cursor /\ cursorFile' = cursorFile /\ live' = live
        /\ cursor \in Nat /\ cursorFile \in Nat /\ Len(log) \in Nat
        /\ cursor <= Len(log) /\ cursorFile <= Len(log)
        /\ Covers(cursor) /\ Covers(cursorFile)
    BY <1>0, <1>2, HarvestTypes DEF HarvestInv, Bounded, resume
  <2>2. \A i \in live..Len(log') : i + Rewind < cursor => Given(i)'
    BY <1>6, <2>1
  <2>3. \A i \in live..Len(log') : i + Rewind < cursorFile => Given(i)'
    BY <1>6, <2>1
  <2>4. Covers(cursor)' /\ Covers(cursorFile)'
    BY <2>1, <2>2, <2>3 DEF Covers
  <2> QED
    BY <1>1, <2>1, <2>4 DEF Bounded
<1>8. Reading'
  <2> SUFFICES ASSUME mode' = "reading"
               PROVE  /\ pos' \in 1..Len(log') + 1
                      /\ last' <= Len(log')
                      /\ Covers(last)'
                      /\ \A i \in live'..Len(log') : i < pos' => Given(i)'
    BY DEF Reading
  <2>1. /\ pos \in 1..Len(log) + 1 /\ last <= Len(log) /\ Covers(last)
        /\ \A i \in live..Len(log) : i < pos => Given(i)
    BY <1>2 DEF HarvestInv, Reading
  <2>2. pos' = pos /\ last' = last /\ live' = live
    BY <1>2 DEF stream
  <2>3. Covers(last)'
    <3>1. \A i \in live..Len(log') : i + Rewind < last => Given(i)'
      BY <1>0, <1>6, <2>1, HarvestTypes
    <3> QED
      BY <2>2, <3>1 DEF Covers
  <2>4. ASSUME NEW i \in live..Len(log'), i < pos
        PROVE  Given(i)'
    <3>1. i \in live..Len(log) /\ i \in 1..Len(log)
      BY <1>0, <1>1, <2>1, <2>4, HarvestTypes
    <3> QED
      BY <1>5, <2>1, <2>4, <3>1
  <2>5. pos' \in 1..Len(log') + 1 /\ last' <= Len(log')
    BY <1>0, <1>1, <2>1, <2>2, HarvestTypes
  <2> QED
    BY <2>2, <2>3, <2>4, <2>5
<1> QED
  BY <1>4, <1>7, <1>8 DEF HarvestInv

(* A stream opens where its cursor covers everything it leaves out; without *)
(* a cursor it opens at the end of the firehose and nothing is covered.      *)
LEMMA DialStep == ASSUME HarvestInv, Dial PROVE HarvestInv'
<1>0. HarvestTypeOK /\ UNCHANGED <<writerVars, log, cursor, cursorFile, stop, breaks>>
  BY DEF HarvestInv, Dial, resume
<1>1. WriterTypeOK' /\ UNCHANGED accepted
  BY <1>0, WriterQuietStep DEF HarvestTypeOK
<1>2. /\ cursor \in 0..MaxEvents /\ cursor <= Len(log) /\ cursorFile <= Len(log)
      /\ Len(log) \in 0..MaxEvents /\ MaxEvents \in Nat /\ Rewind \in Nat
      /\ live \in 1..MaxEvents + 1
      /\ cursorFile \in 0..MaxEvents
  BY <1>0, HarvestTypes DEF HarvestInv, HarvestTypeOK, Bounded
<1>3. pos' \in 1..Len(log) + 1 /\ live' \in 1..MaxEvents + 1
      /\ last' = cursor /\ mode' = "reading"
  BY <1>2 DEF Dial, ResumeAt
<1>4. HarvestTypeOK'
  <2>1. pos' \in 0..MaxEvents + 1
    BY <1>2, <1>3
  <2> QED
    BY <1>0, <1>1, <1>2, <1>3, <2>1 DEF HarvestTypeOK
<1>5. \A i : Given(i) => Given(i)'
  BY <1>0, <1>1 DEF Given
<1>6. CASE cursor > 0
  <2>1. live' = live
    BY <1>6 DEF Dial
  <2>2. Covers(cursor)' /\ Covers(cursorFile)' /\ Covers(last)'
    BY <1>0, <1>3, <1>5, <2>1 DEF HarvestInv, Covers
  <2>3. ASSUME NEW i \in live..Len(log), i < pos'
        PROVE  Given(i)'
    <3>1. i + Rewind < cursor
      BY <1>2, <1>6, <2>3 DEF Dial, ResumeAt
    <3> QED
      BY <1>5, <3>1 DEF HarvestInv, Covers
  <2> QED
    BY <1>0, <1>2, <1>3, <1>4, <2>1, <2>2, <2>3 DEF HarvestInv, Bounded, Reading
<1>7. CASE ~(cursor > 0)
  <2>1. live' = Len(log) + 1 /\ live'..Len(log) = {} /\ log' = log
    BY <1>0, <1>2, <1>7 DEF Dial
  <2>2. Covers(cursor)' /\ Covers(cursorFile)' /\ Covers(last)'
    BY <2>1 DEF Covers
  <2> QED
    BY <1>0, <1>2, <1>3, <1>4, <2>1, <2>2 DEF HarvestInv, Bounded, Reading
<1> QED
  BY <1>2, <1>6, <1>7

(* A stream that ends leaves the cursor on an event it covers. *)
LEMMA StreamEndsStep ==
    ASSUME HarvestInv, DialFails \/ ConnectionDrops
    PROVE  HarvestInv'
<1>0. HarvestTypeOK /\ UNCHANGED <<writerVars, log, stop, live>>
  BY DEF HarvestInv, DialFails, ConnectionDrops
<1>1. WriterTypeOK' /\ UNCHANGED accepted
  BY <1>0, WriterQuietStep DEF HarvestTypeOK
<1>2. PICK l \in 0..MaxEvents :
        EndStream(l) /\ CountBreak /\ l <= Len(log) /\ Covers(l)
  <2>1. CASE DialFails
    BY <2>1 DEF DialFails, HarvestInv, HarvestTypeOK, Bounded
  <2>2. CASE ConnectionDrops
    BY <2>2 DEF ConnectionDrops, HarvestInv, HarvestTypeOK, Reading
  <2> QED
    BY <2>1, <2>2
<1>3. /\ mode' \in {"closing", "backoff"}
      /\ pos' = 0 /\ last' = 0
      /\ cursor' \in 0..MaxEvents /\ cursorFile' \in 0..MaxEvents
      /\ Bounded' /\ Reading' /\ Covers(cursor)' /\ Covers(cursorFile)'
  BY <1>0, <1>1, <1>2, EndStreamStep DEF HarvestTypeOK
<1>4. breaks' \in 0..MaxBreaks
  BY <1>0, <1>2, HarvestAssumption DEF CountBreak, HarvestTypeOK
<1>5. HarvestTypeOK'
  BY <1>0, <1>1, <1>3, <1>4, HarvestAssumption DEF HarvestTypeOK
<1> QED
  BY <1>3, <1>5 DEF HarvestInv

(* An event moves the stream on only when it is written or not kept, and    *)
(* ends it at a position all of whose predecessors are covered otherwise.   *)
LEMMA DeliverStep == ASSUME HarvestInv, Deliver PROVE HarvestInv'
<1>0. HarvestTypeOK /\ UNCHANGED <<log, stop, live>>
  BY DEF HarvestInv, Deliver
<1>1. /\ mode = "reading" /\ pos \in 1..Len(log)
      /\ Len(log) \in 0..MaxEvents /\ MaxEvents \in Nat /\ Rewind \in Nat
      /\ live \in Nat \ {0} /\ live \in 1..MaxEvents + 1
      /\ cursor \in 0..MaxEvents /\ cursorFile \in 0..MaxEvents
      /\ cursor <= Len(log) /\ cursorFile <= Len(log)
      /\ \A i \in live..Len(log) : i < pos => Given(i)
  BY <1>0, HarvestTypes
     DEF HarvestInv, HarvestTypeOK, Bounded, Reading, Deliver
<1>2. pos \in Row /\ KindOf(log[pos]) \in Kinds
  BY <1>0, <1>1, HarvestTypes, HarvestAssumption
<1>3. Covers(pos)
  BY <1>1 DEF Covers
<1>at. PICK at \in 1..Len(log) : at = pos
  BY <1>1
<1>4. ASSUME WriterTypeOK', \A k \in Kinds : accepted[k] \subseteq accepted'[k],
             Advance, UNCHANGED breaks, Given(at)'
      PROVE  HarvestInv'
  <2>1. /\ pos' = pos + 1 /\ last' = pos /\ mode' = "reading"
        /\ cursor' = cursor /\ cursorFile' \in {cursorFile, pos}
    BY <1>1, <1>4 DEF Advance
  <2>2. HarvestTypeOK'
    <3>1. pos' \in 0..MaxEvents + 1 /\ last' \in 0..MaxEvents
          /\ cursorFile' \in 0..MaxEvents
      BY <1>1, <2>1
    <3> QED
      BY <1>0, <1>4, <2>1, <3>1 DEF HarvestTypeOK
  <2>3. \A i : Given(i) => Given(i)'
    BY <1>0, <1>4, CoversStays
  <2>4. Covers(cursor)' /\ Covers(last)' /\ Covers(cursorFile)'
    BY <1>0, <1>3, <2>1, <2>3 DEF HarvestInv, Covers
  <2>5. \A i \in live..Len(log) : i < pos + 1 => Given(i)'
    BY <1>1, <1>4, <1>at, <2>3
  <2>6. Reading' /\ Bounded'
    BY <1>0, <1>1, <2>1, <2>4, <2>5 DEF Reading, Bounded
  <2> QED
    BY <2>2, <2>4, <2>6 DEF HarvestInv
<1>5. CASE ~Kept(log[pos]) /\ Advance /\ UNCHANGED <<writerVars, breaks>>
  <2>1. WriterTypeOK' /\ UNCHANGED accepted
    BY <1>0, <1>5, WriterQuietStep DEF HarvestTypeOK
  <2>2. Given(at)'
    BY <1>0, <1>5, <1>at DEF Given
  <2> QED
    BY <1>4, <1>5, <2>1, <2>2
<1>6. CASE Kept(log[pos]) /\ WriteRow(KindOf(log[pos]), pos)
  <2> DEFINE kind == KindOf(log[pos])
  <2>1. WriterTypeOK' /\ Records(kind, pos)
    BY <1>0, <1>2, <1>6, WriteRowStep DEF HarvestTypeOK
  <2>2. \A k \in Kinds : accepted[k] \subseteq accepted'[k]
    BY <1>0, <1>2, <2>1, HarvestTypes DEF Records
  <2>3. CASE ret' = "ok" /\ Advance /\ UNCHANGED breaks
    <3>1. pos \in accepted'[kind]
      BY <1>0, <1>2, <2>1, <2>3, HarvestTypes DEF Records
    <3>2. pos \in accepted'[KindOf(log'[pos])]
      BY <1>0, <3>1
    <3>3. Given(at)'
      BY <1>at, <3>2 DEF Given
    <3> QED
      BY <1>4, <2>1, <2>2, <2>3, <3>3
  <2>4. CASE ret' = "error" /\ EndStream(pos) /\ CountBreak
    <3>1. /\ mode' \in {"closing", "backoff"}
          /\ pos' = 0 /\ last' = 0
          /\ cursor' \in 0..MaxEvents /\ cursorFile' \in 0..MaxEvents
          /\ Bounded' /\ Reading' /\ Covers(cursor)' /\ Covers(cursorFile)'
      <4>1. pos \in 0..MaxEvents /\ pos <= Len(log) /\ stop \in BOOLEAN
        BY <1>0, <1>1 DEF HarvestTypeOK
      <4> QED
        BY <1>0, <1>3, <2>2, <2>4, <4>1, EndStreamStep
    <3>2. breaks' \in 0..MaxBreaks
      BY <1>0, <2>4, HarvestAssumption DEF CountBreak, HarvestTypeOK
    <3>3. HarvestTypeOK'
      BY <1>0, <2>1, <3>1, <3>2, HarvestAssumption DEF HarvestTypeOK
    <3> QED
      BY <3>1, <3>3 DEF HarvestInv
  <2> QED
    BY <1>6, <2>3, <2>4 DEF Deliver
<1> QED
  BY <1>5, <1>6 DEF Deliver

(* The steps that leave the firehose and the accepted rows alone, and stop  *)
(* or start streams without moving a cursor past its file.                  *)
LEMMA QuietStep ==
    ASSUME HarvestInv,
           \/ Start \/ Cancel \/ Reconnect \/ StopInBackoff
           \/ Exit \/ Crash \/ Environment \/ UNCHANGED harvestVars
    PROVE  HarvestInv'
<1>0. HarvestTypeOK
  BY DEF HarvestInv
<1>1. WriterTypeOK' /\ UNCHANGED accepted
  <2>1. CASE Exit
    BY <1>0, <2>1, CloseStep DEF Exit, HarvestTypeOK
  <2>2. CASE ~Exit
    BY <1>0, <2>2, WriterQuietStep
       DEF HarvestTypeOK, Start, Cancel, Reconnect, StopInBackoff, Crash,
           Environment, harvestVars
  <2> QED
    BY <2>1, <2>2
<1>2. UNCHANGED <<log, live, cursorFile, breaks>>
  BY DEF Start, Cancel, Reconnect, StopInBackoff, Exit, Crash, Environment,
         harvestVars, stream, resume
<1>3. cursor' \in {cursor, cursorFile, 0}
  BY DEF Start, Cancel, Reconnect, StopInBackoff, Exit, Crash, Environment,
         harvestVars, stream, resume
<1>4. /\ pos' \in {pos, 0} /\ last' \in {last, 0} /\ stop' \in BOOLEAN
      /\ mode' \in {"stopped", "dialing", "reading", "backoff", "closing"}
      /\ mode' = "reading" => mode = "reading" /\ pos' = pos /\ last' = last
  BY <1>0 DEF Start, Cancel, Reconnect, StopInBackoff, Exit, Crash, Environment,
              harvestVars, stream, resume, NoStream, HarvestTypeOK
<1>5. /\ Len(log) \in 0..MaxEvents /\ MaxEvents \in Nat /\ Rewind \in Nat
      /\ live \in Nat \ {0}
  BY <1>0, HarvestTypes
<1>6. HarvestTypeOK'
  BY <1>0, <1>1, <1>2, <1>3, <1>4, <1>5 DEF HarvestTypeOK
<1>7. \A c : Covers(c) => \A i \in live'..Len(log') : i + Rewind < c => Given(i)'
  BY <1>0, <1>1, <1>2, CoversStays
<1>8. Covers(0)
  BY <1>5 DEF Covers
<1>9. Covers(cursor)' /\ Covers(cursorFile)'
  BY <1>2, <1>3, <1>7, <1>8 DEF HarvestInv, Covers
<1>10. Bounded'
  BY <1>2, <1>3, <1>5 DEF HarvestInv, Bounded
<1>11. Reading'
  <2> SUFFICES ASSUME mode' = "reading"
               PROVE  /\ pos \in 1..Len(log) + 1
                      /\ last <= Len(log)
                      /\ Covers(last)'
                      /\ \A i \in live..Len(log) : i < pos => Given(i)'
    BY <1>2, <1>4 DEF Reading
  <2>1. \A i : Given(i) => Given(i)'
    BY <1>0, <1>1, <1>2, CoversStays
  <2>2. Covers(last)'
    BY <1>2, <1>4, <1>7 DEF HarvestInv, Reading, Covers
  <2> QED
    BY <1>4, <2>1, <2>2 DEF HarvestInv, Reading
<1> QED
  BY <1>6, <1>9, <1>10, <1>11 DEF HarvestInv

LEMMA HarvestInvStep == HarvestInv /\ [HarvestNext]_harvestVars => HarvestInv'
<1> SUFFICES ASSUME HarvestInv, [HarvestNext]_harvestVars PROVE HarvestInv'
  OBVIOUS
<1>1. CASE \E ev \in Firehose : Publish(ev)
  BY <1>1, PublishStep
<1>2. CASE Dial
  BY <1>2, DialStep
<1>3. CASE DialFails \/ ConnectionDrops
  BY <1>3, StreamEndsStep
<1>4. CASE Deliver
  BY <1>4, DeliverStep
<1>5. CASE \/ Start \/ Cancel \/ Reconnect \/ StopInBackoff
           \/ Exit \/ Crash \/ Environment \/ UNCHANGED harvestVars
  BY <1>5, QuietStep
<1> QED
  BY <1>1, <1>2, <1>3, <1>4, <1>5 DEF HarvestNext

(***************************************************************************)
(* The invariant holds of every behaviour of the harvester.                *)
(***************************************************************************)
THEOREM HarvestInvariant == HarvestSpec => []HarvestInv
<1>1. HarvestInit => HarvestInv
  BY HarvestInvInit
<1>2. HarvestInv /\ [HarvestNext]_harvestVars => HarvestInv'
  BY HarvestInvStep
<1> QED
  BY <1>1, <1>2, PTL DEF HarvestSpec

(***************************************************************************)
(* Every variable of the harvester and its writer keeps its type, at any   *)
(* length of the firehose and any overlap.                                 *)
(***************************************************************************)
THEOREM HarvestTypeCorrect == HarvestSpec => []HarvestTypeOK
<1>1. HarvestInv => HarvestTypeOK
  BY DEF HarvestInv
<1> QED
  BY <1>1, HarvestInvariant, PTL

(***************************************************************************)
(* No resume, from memory or from the cursor file, passes an event that    *)
(* the writer has not accepted (Stream and Run).                           *)
(***************************************************************************)
THEOREM HarvestNeverSkips == HarvestSpec => []ResumeNeverSkips
<1>1. HarvestInv => ResumeNeverSkips
  BY DEF HarvestInv, ResumeNeverSkips, Passed, Covers, Given
<1> QED
  BY <1>1, HarvestInvariant, PTL

(* What LossIsReported says of one step. *)
Reported == (\A k \in Kinds : Held(k) \subseteq Held(k)') \/ ret' = "error" \/ Crash

LEMMA ReportedStep ==
    ASSUME HarvestInv, [HarvestNext]_harvestVars
    PROVE  [Reported]_harvestVars
<1>0. WriterTypeOK /\ HarvestTypeOK
  BY DEF HarvestInv, HarvestTypeOK
<1>1. CASE Crash
  BY <1>1 DEF Reported
<1>2. CASE Exit
  <2>1. ret' = "ok" => Reported
    BY <1>0, <1>2, CloseStep DEF Exit, Reported
  <2>2. ret' \in {"ok", "error"}
    BY <1>2 DEF Exit, Close
  <2> QED
    BY <2>1, <2>2 DEF Reported
<1>3. CASE Deliver /\ Kept(log[pos])
  <2>1. pos \in Row /\ KindOf(log[pos]) \in Kinds
    BY <1>0, <1>3, HarvestTypes, HarvestAssumption DEF Deliver, HarvestInv, Reading
  <2>2. WriteRow(KindOf(log[pos]), pos)
    BY <1>3 DEF Deliver
  <2>3. (ret' = "ok" => Reported) /\ ret' \in {"ok", "error"}
    BY <1>0, <2>1, <2>2, WriteRowStep DEF Records, Reported
  <2> QED
    BY <2>3 DEF Reported
<1>4. CASE UNCHANGED <<part, disk>>
  BY <1>4 DEF Held, Buffered, Reported
<1> QED
  BY <1>1, <1>2, <1>3, <1>4
     DEF HarvestNext, Publish, Start, Cancel, Dial, DialFails, ConnectionDrops,
         Deliver, Reconnect, StopInBackoff, Environment, NextDay, DiskFaults,
         DiskHeals, harvestVars, writerVars

(***************************************************************************)
(* Only a call that returns an error, or the death of the process, loses a *)
(* row the writer held (WriteDocument, WriteTombstone and Close).          *)
(***************************************************************************)
THEOREM HarvestReportsLoss == HarvestSpec => LossIsReported
<1>1. HarvestInv /\ [HarvestNext]_harvestVars => [Reported]_harvestVars
  BY ReportedStep
<1> QED
  BY <1>1, HarvestInvariant, PTL DEF HarvestSpec, LossIsReported, Reported

-----------------------------------------------------------------------------
(***************************************************************************)
(* What a clean stop leaves.  CleanStopIsDurable speaks of a stopped       *)
(* harvester only; while it runs, on a disk that takes its writes, every   *)
(* accepted row is in the files or in a part that can still be closed, and *)
(* a part that cannot holds none.                                          *)
(***************************************************************************)
KindKept(k) ==
    /\ part[k].io # "open" => part[k].buf = <<>>
    /\ accepted[k] \subseteq Held(k)

RowsKept == \A k \in Kinds : KindKept(k)

Sound == ~Crashes /\ "write" \notin Faults

DurableInv ==
    Sound => RowsKept /\ (mode = "stopped" => \A k \in Kinds : part[k] = NoPart)

(* A kind goes with its own part, files and history. *)
LEMMA SameKind ==
    ASSUME NEW k \in Kinds, KindKept(k),
           part'[k] = part[k], disk'[k] = disk[k], accepted'[k] = accepted[k]
    PROVE  KindKept(k)'
BY DEF KindKept, Held, Buffered

(* An Encode on a disk that takes it keeps the rows of its part, those the  *)
(* rotation flushed, and its own.                                           *)
LEMMA EncodeHolds ==
    ASSUME WriterTypeOK, fault # "write", NEW k \in Kinds, NEW p \in Part \cup {NoPart},
           NEW fresh \in BOOLEAN, NEW flushed \in SUBSET Row, NEW row \in Row,
           Encode(k, p, fresh, flushed, row)
    PROVE  \/ /\ part'[k].io = "open"
              /\ disk[k] \cup flushed \cup {p.buf[i] : i \in 1..Len(p.buf)} \cup {row}
                   \subseteq Held(k)'
              /\ accepted'[k] = accepted[k] \cup {row}
              /\ \A other \in Kinds \ {k} : /\ part'[other] = part[other]
                                            /\ disk'[other] = disk[other]
                                            /\ accepted'[other] = accepted[other]
           \/ /\ p.io # "open"
              /\ part' = [part EXCEPT ![k] = p]
              /\ UNCHANGED <<disk, accepted>>
<1> DEFINE rows == Append(p.buf, row)
<1>0. /\ part \in [Kinds -> Part \cup {NoPart}]
      /\ disk \in [Kinds -> SUBSET Row]
      /\ accepted \in [Kinds -> SUBSET Row]
  BY DEF WriterTypeOK
<1>1. CASE p.io # "open"
  BY <1>1 DEF Encode, Fail
<1>2. CASE p.io = "open"
  <2>1. PICK n \in 0..Len(rows) :
          /\ part' = [part EXCEPT ![k] = [p EXCEPT !.buf = SubSeq(rows, n + 1, Len(rows))]]
          /\ disk' = [disk EXCEPT ![k] = @ \cup flushed \cup First(rows, n)]
          /\ accepted' = [accepted EXCEPT ![k] = @ \cup {row}]
    BY <1>2 DEF Encode
  <2>2. p \in Part
    BY <1>2 DEF NoPart
  <2>3. p.buf \in Seq(Row) /\ rows \in Seq(Row)
    BY <2>2 DEF Part
  <2>4. /\ Len(rows) = Len(p.buf) + 1
        /\ rows[Len(p.buf) + 1] = row
        /\ \A i \in 1..Len(p.buf) : rows[i] = p.buf[i]
    BY <2>3
  <2>5. {p.buf[i] : i \in 1..Len(p.buf)} \cup {row} \subseteq {rows[i] : i \in 1..Len(rows)}
    <3>1. Len(p.buf) \in Nat
      BY <2>3
    <3>2. row \in {rows[i] : i \in 1..Len(rows)}
      BY <2>4, <3>1
    <3>3. \A i \in 1..Len(p.buf) : i \in 1..Len(rows) /\ p.buf[i] = rows[i]
      BY <2>4, <3>1
    <3> HIDE DEF rows
    <3> QED
      BY <3>2, <3>3
  <2> HIDE DEF rows
  <2> DEFINE rest == SubSeq(rows, n + 1, Len(rows))
  <2>6. {rows[i] : i \in 1..Len(rows)} \subseteq
          First(rows, n) \cup {rest[i] : i \in 1..Len(rest)}
    BY <2>3, SplitRows
  <2>7. part'[k].io = "open" /\ part'[k].buf = rest
    BY <1>0, <1>2, <2>1, <2>2 DEF Part
  <2>8. disk'[k] = disk[k] \cup flushed \cup First(rows, n)
    BY <1>0, <2>1
  <2>9. Held(k)' = disk[k] \cup flushed \cup First(rows, n) \cup {rest[i] : i \in 1..Len(rest)}
    BY <2>7, <2>8 DEF Held, Buffered
  <2>10. \A other \in Kinds \ {k} : /\ part'[other] = part[other]
                                    /\ disk'[other] = disk[other]
                                    /\ accepted'[other] = accepted[other]
    BY <1>0, <2>1
  <2>11. accepted'[k] = accepted[k] \cup {row}
    BY <1>0, <2>1
  <2> QED
    BY <2>5, <2>6, <2>7, <2>9, <2>10, <2>11
<1> QED
  BY <1>1, <1>2

(* So does a write, whether or not it has to rotate. *)
LEMMA WriteRowHolds ==
    ASSUME WriterTypeOK, fault # "write", RowsKept,
           NEW k \in Kinds, NEW row \in Row, WriteRow(k, row)
    PROVE  RowsKept'
<1>0. /\ part \in [Kinds -> Part \cup {NoPart}]
      /\ disk \in [Kinds -> SUBSET Row]
      /\ accepted \in [Kinds -> SUBSET Row]
      /\ KindKept(k)
  BY DEF WriterTypeOK, RowsKept
<1>1. NewPart \in Part /\ NewPart.io = "open"
  <2>1. day \in Nat /\ <<>> \in Seq(Row)
    BY WriterAssumption DEF WriterTypeOK
  <2> QED
    BY <2>1 DEF NewPart, Part
<1>2. Buffered(k) \in SUBSET Row /\ (part[k] = NoPart => Buffered(k) = {})
  <2>1. part[k].buf \in Seq(Row)
    <3>1. part[k] = NoPart => part[k].buf = <<>>
      BY DEF NoPart
    <3>2. part[k] \in Part => part[k].buf \in Seq(Row)
      BY DEF Part
    <3>3. <<>> \in Seq(Row)
      OBVIOUS
    <3> QED
      BY <1>0, <3>1, <3>2, <3>3
  <2> QED
    BY <2>1 DEF Buffered, NoPart
<1>3. ASSUME NEW p \in Part \cup {NoPart}, NEW flushed \in SUBSET Row, NEW fresh \in BOOLEAN,
             Encode(k, p, fresh, flushed, row),
             Buffered(k) \subseteq flushed \cup {p.buf[i] : i \in 1..Len(p.buf)},
             p.io = "open" \/ p = part[k]
      PROVE  RowsKept'
  <2>1. CASE p.io # "open"
    <3>1. part' = part /\ UNCHANGED <<disk, accepted>>
      BY <1>0, <1>3, <2>1 DEF Encode, Fail
    <3> QED
      BY <3>1, SameKind DEF RowsKept
  <2>2. CASE p.io = "open"
    <3>1. /\ part'[k].io = "open"
          /\ disk[k] \cup flushed \cup {p.buf[i] : i \in 1..Len(p.buf)} \cup {row}
               \subseteq Held(k)'
          /\ accepted'[k] = accepted[k] \cup {row}
          /\ \A other \in Kinds \ {k} : /\ part'[other] = part[other]
                                        /\ disk'[other] = disk[other]
                                        /\ accepted'[other] = accepted[other]
      BY <1>3, <2>2, EncodeHolds
    <3>2. accepted[k] \subseteq disk[k] \cup Buffered(k)
      BY <1>0 DEF KindKept, Held
    <3>3. accepted'[k] \subseteq Held(k)'
      BY <1>3, <3>1, <3>2
    <3>4. KindKept(k)'
      BY <3>1, <3>3 DEF KindKept
    <3>5. \A other \in Kinds \ {k} : KindKept(other)'
      BY <3>1, SameKind DEF RowsKept
    <3> QED
      BY <3>4, <3>5 DEF RowsKept
  <2> QED
    BY <2>1, <2>2
<1>4. CASE Current(k)
  <2>1. Encode(k, part[k], FALSE, {}, row)
    BY <1>4 DEF WriteRow
  <2>2. Buffered(k) \subseteq {} \cup {part[k].buf[i] : i \in 1..Len(part[k].buf)}
    BY DEF Buffered
  <2> QED
    BY <1>0, <1>3, <2>1, <2>2
<1>5. CASE ~Current(k)
  <2>0. Rotate(k, row)
    BY <1>5 DEF WriteRow
  <2>1. CASE part[k] = NoPart /\ Encode(k, NewPart, TRUE, {}, row)
    BY <1>1, <1>2, <1>3, <2>1
  <2>2. CASE Encode(k, NewPart, TRUE, Buffered(k), row)
    BY <1>1, <1>2, <1>3, <2>2
  <2>3. CASE \/ part[k] = NoPart /\ Fail(k, NoPart)
             \/ Fail(k, part[k])
    <3>1. part' = part /\ UNCHANGED <<disk, accepted>>
      BY <1>0, <2>3 DEF Fail
    <3> QED
      BY <3>1, SameKind DEF RowsKept
  <2>4. CASE /\ part' = [part EXCEPT ![k] = Closed(@)]
             /\ disk' = [disk EXCEPT ![k] = @ \cup Buffered(k)]
             /\ UNCHANGED accepted
    <3>1. part'[k].buf = <<>> /\ disk'[k] = disk[k] \cup Buffered(k)
      BY <1>0, <2>4 DEF Closed
    <3>2. KindKept(k)'
      BY <1>0, <2>4, <3>1 DEF KindKept, Held
    <3>3. \A other \in Kinds \ {k} : KindKept(other)'
      BY <1>0, <2>4, SameKind DEF RowsKept
    <3> QED
      BY <3>2, <3>3 DEF RowsKept
  <2> QED
    BY <2>0, <2>1, <2>2, <2>3, <2>4 DEF Rotate, CanClose
<1> QED
  BY <1>4, <1>5

(* Close leaves nothing behind in the parts. *)
LEMMA CloseHolds ==
    ASSUME WriterTypeOK, fault # "write", RowsKept, Close
    PROVE  RowsKept' /\ \A k \in Kinds : part'[k] = NoPart
<1>1. PICK docs \in FlushOutcomes("documents"), tombs \in FlushOutcomes("tombstones") :
        disk' = [k \in Kinds |-> disk[k] \cup (IF k = "documents" THEN docs ELSE tombs)]
  BY DEF Close
<1>2. ASSUME NEW k \in Kinds, NEW rows \in FlushOutcomes(k)
      PROVE  accepted[k] \subseteq disk[k] \cup rows
  <2>1. accepted[k] \subseteq disk[k] \cup Buffered(k)
    BY DEF RowsKept, KindKept, Held
  <2>2. CASE part[k].io = "open"
    BY <1>2, <2>1, <2>2 DEF FlushOutcomes, CanClose
  <2>3. CASE part[k].io # "open"
    <3>1. part[k].buf = <<>>
      BY <2>3 DEF RowsKept, KindKept
    <3>2. Buffered(k) = {}
      BY <3>1 DEF Buffered
    <3> QED
      BY <2>1, <3>2
  <2> QED
    BY <2>2, <2>3
<1>3. "documents" \in Kinds /\ "tombstones" \in Kinds
  BY DEF Kinds
<1>4. \A k \in Kinds : accepted[k] \subseteq disk'[k]
  BY <1>1, <1>2, <1>3 DEF Kinds
<1>5. \A k \in Kinds : part'[k] = NoPart /\ accepted'[k] = accepted[k]
  BY DEF Close
<1>6. RowsKept'
  BY <1>4, <1>5 DEF RowsKept, KindKept, Held, NoPart
<1> QED
  BY <1>5, <1>6

LEMMA DurableStep ==
    ASSUME HarvestInv, DurableInv, [HarvestNext]_harvestVars PROVE DurableInv'
<1> SUFFICES ASSUME Sound
             PROVE  RowsKept' /\ (mode' = "stopped" => \A k \in Kinds : part'[k] = NoPart)
  BY DEF DurableInv, Sound
<1>0. /\ HarvestTypeOK /\ WriterTypeOK /\ fault # "write" /\ RowsKept
      /\ mode = "stopped" => \A k \in Kinds : part[k] = NoPart
  BY DEF HarvestInv, HarvestTypeOK, WriterTypeOK, DurableInv, Sound
<1>1. CASE Deliver /\ Kept(log[pos])
  <2>1. pos \in Row /\ KindOf(log[pos]) \in Kinds
    BY <1>0, <1>1, HarvestTypes, HarvestAssumption DEF Deliver, HarvestInv, Reading
  <2>2. WriteRow(KindOf(log[pos]), pos)
    BY <1>1 DEF Deliver
  <2>3. RowsKept'
    BY <1>0, <2>1, <2>2, WriteRowHolds
  <2>4. mode' # "stopped"
    BY <1>1 DEF Deliver, Advance, EndStream
  <2> QED
    BY <2>3, <2>4
<1>2. CASE Exit
  BY <1>0, <1>2, CloseHolds DEF Exit
<1>3. CASE Crash
  BY <1>3 DEF Crash, Sound
<1>4. CASE UNCHANGED <<part, disk, accepted>> /\ (mode' = "stopped" => mode = "stopped")
  BY <1>0, <1>4, SameKind DEF RowsKept
<1> QED
  BY <1>1, <1>2, <1>3, <1>4
     DEF HarvestNext, Publish, Start, Cancel, Dial, DialFails, ConnectionDrops, Deliver,
         Advance, EndStream, Reconnect, StopInBackoff, Environment, NextDay, DiskFaults,
         DiskHeals, harvestVars, writerVars

(***************************************************************************)
(* On a disk that takes its writes, a harvester that was stopped and not   *)
(* killed has every row its cursor file has passed in its part files       *)
(* (Run's last save of the cursor, main's deferred Close).                 *)
(***************************************************************************)
THEOREM CleanStopKeepsAll == HarvestSpec => []CleanStopIsDurable
<1>1. HarvestInit => DurableInv
  BY DEF HarvestInit, WriterInit, DurableInv, RowsKept, KindKept, NoPart
<1>2. HarvestInv /\ DurableInv => CleanStopIsDurable
  <2> SUFFICES ASSUME HarvestInv, DurableInv, Sound, mode = "stopped",
                      NEW i \in Passed(cursorFile)
               PROVE  i \in disk[KindOf(log[i])]
    BY DEF CleanStopIsDurable, Sound
  <2>1. i \in accepted[KindOf(log[i])]
    BY DEF HarvestInv, Passed, Covers, Given
  <2>2. KindOf(log[i]) \in Kinds
    BY DEF KindOf, Kinds
  <2>3. part[KindOf(log[i])] = NoPart /\ KindKept(KindOf(log[i]))
    BY <2>2 DEF DurableInv, RowsKept
  <2>4. Buffered(KindOf(log[i])) = {}
    BY <2>3 DEF Buffered, NoPart
  <2> QED
    BY <2>1, <2>3, <2>4 DEF KindKept, Held
<1>3. HarvestInv /\ DurableInv /\ [HarvestNext]_harvestVars => DurableInv'
  BY DurableStep
<1> QED
  BY <1>1, <1>2, <1>3, HarvestInvariant, PTL DEF HarvestSpec

-----------------------------------------------------------------------------
(* The users of the corpus.                                                *)

LEMMA Rows == Row = 1..MaxEvents /\ MaxEvents \in Nat
  BY HarvestAssumption

(* Cutting a sequence of rows in two loses and adds none. *)
LEMMA CutRows ==
    ASSUME NEW rows \in Seq(Row), NEW n \in 0..Len(rows)
    PROVE  {rows[i] : i \in 1..Len(rows)} =
             First(rows, n) \cup
             {SubSeq(rows, n + 1, Len(rows))[i] :
                i \in 1..Len(SubSeq(rows, n + 1, Len(rows)))}
<1> DEFINE rest == SubSeq(rows, n + 1, Len(rows))
<1>1. Len(rest) = Len(rows) - n /\ \A i \in 1..Len(rest) : rest[i] = rows[n + i]
  OBVIOUS
<1>2. \A i \in 1..Len(rest) : n + i \in 1..Len(rows)
  BY <1>1
<1>3. {rest[i] : i \in 1..Len(rest)} \subseteq {rows[i] : i \in 1..Len(rows)}
  BY <1>1, <1>2
<1>4. First(rows, n) \subseteq {rows[i] : i \in 1..Len(rows)}
  BY DEF First
<1> QED
  BY <1>3, <1>4, SplitRows

(* The rows still inside the gzip stream of a part. *)
InStream(p) == {p.buf[i] : i \in 1..Len(p.buf)}

(* What a call that returns nil makes of the rows the writer answers for: *)
(* exactly these, in an open part, its own row among the accepted ones.   *)
Takes(k, rows, row) ==
    /\ part'[k].io = "open"
    /\ Held(k)' = rows \cup {row}
    /\ accepted'[k] = accepted[k] \cup {row}

(* An Encode that returns nil leaves an open part, and the writer holds what *)
(* the stream held, what the rotation flushed and the row: no more, no less.  *)
LEMMA EncodeIsExact ==
    ASSUME WriterTypeOK, NEW k \in Kinds, NEW p \in Part \cup {NoPart},
           NEW fresh \in BOOLEAN, NEW flushed \in SUBSET Row, NEW row \in Row,
           Encode(k, p, fresh, flushed, row), ret' = "ok"
    PROVE  Takes(k, disk[k] \cup flushed \cup InStream(p), row)
<1> DEFINE rows == Append(p.buf, row)
<1>0. /\ part \in [Kinds -> Part \cup {NoPart}]
      /\ disk \in [Kinds -> SUBSET Row]
      /\ accepted \in [Kinds -> SUBSET Row]
  BY DEF WriterTypeOK
<1>1. p.io = "open"
  BY DEF Encode, Fail
<1>2. PICK n \in 0..Len(rows) :
        /\ part' = [part EXCEPT ![k] = [p EXCEPT !.buf = SubSeq(rows, n + 1, Len(rows))]]
        /\ disk' = [disk EXCEPT ![k] = @ \cup flushed \cup First(rows, n)]
        /\ accepted' = [accepted EXCEPT ![k] = @ \cup {row}]
  BY <1>1 DEF Encode, BreakPart
<1>3. p \in Part
  BY <1>1 DEF NoPart
<1>4. p.buf \in Seq(Row) /\ rows \in Seq(Row)
  BY <1>3 DEF Part
<1>5. /\ Len(rows) = Len(p.buf) + 1 /\ Len(p.buf) \in Nat
      /\ rows[Len(p.buf) + 1] = row
      /\ \A i \in 1..Len(p.buf) : rows[i] = p.buf[i]
  BY <1>4
<1> HIDE DEF rows
<1>6. {rows[i] : i \in 1..Len(rows)} = InStream(p) \cup {row}
  <2>1. \A i \in 1..Len(rows) : i \in 1..Len(p.buf) \/ i = Len(p.buf) + 1
    BY <1>5
  <2>2. {rows[i] : i \in 1..Len(rows)} \subseteq InStream(p) \cup {row}
    BY <1>5, <2>1 DEF InStream
  <2>3. \A i \in 1..Len(p.buf) : i \in 1..Len(rows) /\ p.buf[i] = rows[i]
    BY <1>5
  <2>4. row \in {rows[i] : i \in 1..Len(rows)}
    BY <1>5
  <2> QED
    BY <2>2, <2>3, <2>4 DEF InStream
<1> DEFINE rest == SubSeq(rows, n + 1, Len(rows))
<1>7. {rows[i] : i \in 1..Len(rows)} = First(rows, n) \cup {rest[i] : i \in 1..Len(rest)}
  BY <1>4, CutRows
<1>8. part'[k].io = "open" /\ part'[k].buf = rest
  BY <1>0, <1>1, <1>2, <1>3 DEF Part
<1>9. disk'[k] = disk[k] \cup flushed \cup First(rows, n)
  BY <1>0, <1>2
<1>10. Held(k)' = disk[k] \cup flushed \cup First(rows, n) \cup {rest[i] : i \in 1..Len(rest)}
  BY <1>8, <1>9 DEF Held, Buffered
<1> QED
  BY <1>0, <1>2, <1>6, <1>7, <1>8, <1>10 DEF Takes

(* A write that returns nil adds its row to what the writer holds, whatever  *)
(* the disk does and whether or not it rotates.                              *)
LEMMA WriteRowIsExact ==
    ASSUME WriterTypeOK, NEW k \in Kinds, NEW row \in Row, WriteRow(k, row), ret' = "ok"
    PROVE  Takes(k, Held(k), row)
<1>0. /\ part \in [Kinds -> Part \cup {NoPart}]
      /\ accepted \in [Kinds -> SUBSET Row]
  BY DEF WriterTypeOK
<1>1. NewPart \in Part /\ InStream(NewPart) = {}
  <2>1. day \in Nat /\ <<>> \in Seq(Row)
    BY WriterAssumption DEF WriterTypeOK
  <2> QED
    BY <2>1 DEF NewPart, Part, InStream
<1>2. Buffered(k) \in SUBSET Row /\ (part[k] = NoPart => Buffered(k) = {})
  <2>1. part[k].buf \in Seq(Row)
    <3>1. part[k] = NoPart => part[k].buf = <<>>
      BY DEF NoPart
    <3>2. part[k] \in Part => part[k].buf \in Seq(Row)
      BY DEF Part
    <3>3. <<>> \in Seq(Row)
      OBVIOUS
    <3> QED
      BY <1>0, <3>1, <3>2, <3>3
  <2> QED
    BY <2>1 DEF Buffered, NoPart
<1>e. {} \in SUBSET Row /\ part[k] \in Part \cup {NoPart}
  BY <1>0
<1>h. Held(k) = disk[k] \cup Buffered(k)
      /\ Buffered(k) = InStream(part[k])
  BY DEF Held, Buffered, InStream
<1>3. CASE Current(k)
  <2>1. Encode(k, part[k], FALSE, {}, row)
    BY <1>3 DEF WriteRow
  <2>2. Takes(k, disk[k] \cup {} \cup InStream(part[k]), row)
    BY <1>e, <2>1, EncodeIsExact
  <2> QED
    BY <1>h, <2>2
<1>4. CASE ~Current(k)
  <2>0. Rotate(k, row)
    BY <1>4 DEF WriteRow
  <2>1. CASE part[k] = NoPart /\ Encode(k, NewPart, TRUE, {}, row)
    <3>1. Takes(k, disk[k] \cup {} \cup InStream(NewPart), row)
      BY <1>1, <1>e, <2>1, EncodeIsExact
    <3> QED
      BY <1>1, <1>2, <1>h, <2>1, <3>1
  <2>2. CASE Encode(k, NewPart, TRUE, Buffered(k), row)
    <3>1. Takes(k, disk[k] \cup Buffered(k) \cup InStream(NewPart), row)
      BY <1>1, <1>2, <1>e, <2>2, EncodeIsExact
    <3> QED
      BY <1>1, <1>h, <3>1
  <2> QED
    BY <2>0, <2>1, <2>2 DEF Rotate, Fail, BreakPart
<1> QED
  BY <1>3, <1>4

(* A Close that returns nil leaves every row the writer held in the files,  *)
(* and no other.                                                            *)
LEMMA CloseIsExact ==
    ASSUME WriterTypeOK, Close, ret' = "ok", NEW k \in Kinds
    PROVE  disk'[k] = Held(k)
<1>1. PICK docs \in FlushOutcomes("documents"), tombs \in FlushOutcomes("tombstones") :
        disk' = [kind \in Kinds |-> disk[kind] \cup (IF kind = "documents" THEN docs ELSE tombs)]
  BY DEF Close
<1>2. \A kind \in Kinds : part[kind] = NoPart \/ CanClose(part[kind])
  BY DEF Close
<1>3. ASSUME NEW kind \in Kinds, NEW rows \in FlushOutcomes(kind)
      PROVE  rows = Buffered(kind)
  <2>1. CASE CanClose(part[kind])
    BY <1>3, <2>1 DEF FlushOutcomes
  <2>2. CASE part[kind] = NoPart /\ ~CanClose(part[kind])
    BY <1>3, <2>2 DEF FlushOutcomes, First, Buffered, NoPart
  <2> QED
    BY <1>2, <2>1, <2>2
<1>4. docs = Buffered("documents") /\ tombs = Buffered("tombstones")
  BY <1>3 DEF Kinds
<1> QED
  BY <1>1, <1>4 DEF Held, Kinds

-----------------------------------------------------------------------------
(***************************************************************************)
(* The inductive invariant of a batch pass.  PassIsAccountedFor speaks of  *)
(* the end of the pass only.  Until then: Numbered keeps the row of every  *)
(* item within the rows and the accepted rows below the next one, so that  *)
(* a count goes up by one with each; Owes says that what the answers hold  *)
(* is what was accepted and what is still to be written, and Holds that    *)
(* the writer has exactly the accepted rows as long as no call failed.     *)
(***************************************************************************)
Owing == {Seen + i : i \in {j \in DOMAIN items : HasText(items[j])}}

BatchTypeOK ==
    /\ WriterTypeOK
    /\ phase \in {"running", "failed", "exit 0", "exit 1"}
    /\ asked \in Nat
    /\ items \in Seq(Item)
    /\ stats \in [docs : Nat, skipped : Nat, failed : Nat]
    /\ interrupted \in BOOLEAN

Numbered ==
    /\ Seen + Len(items) <= MaxEvents
    /\ accepted["documents"] \subseteq 1..Seen
    /\ phase # "running" => items = <<>>

Owes ==
    phase \in {"running", "exit 0"} =>
      /\ stats.docs = Cardinality(accepted["documents"])
      /\ owed = accepted["documents"] \cup Owing

Holds == phase = "running" => Held("documents") = accepted["documents"]

Ended ==
    /\ phase = "exit 0" =>
         asked = Len(Feeds) /\ (ret = "ok" => disk["documents"] = owed)
    /\ phase \in {"failed", "exit 1"} =>
         interrupted \/ ~(owed \subseteq accepted["documents"])
    /\ phase = "failed" => ret = "error"

BatchInv == BatchTypeOK /\ Numbered /\ Owes /\ Holds /\ Ended

(* What the invariant says of the counters and the row a write would take. *)
LEMMA BatchTypes ==
    ASSUME BatchTypeOK
    PROVE  /\ Seen \in Nat /\ stats.docs \in Nat /\ stats.skipped \in Nat
           /\ Len(items) \in Nat /\ DOMAIN items = 1..Len(items)
           /\ \A i \in 1..Len(items) : items[i] \in Item
           /\ accepted \in [Kinds -> SUBSET Row]
           /\ "documents" \in Kinds /\ "tombstones" \in Kinds
<1>1. items \in Seq(Item) /\ stats.docs \in Nat /\ stats.skipped \in Nat
  BY DEF BatchTypeOK
<1>2. accepted \in [Kinds -> SUBSET Row]
  BY DEF BatchTypeOK, WriterTypeOK
<1> QED
  BY <1>1, <1>2 DEF Seen, Kinds

(* Nothing is owed for an answer that has been written. *)
LEMMA NothingOwing == ASSUME items = <<>> PROVE Owing = {}
<1>1. DOMAIN items = {}
  OBVIOUS
<1> QED
  BY <1>1 DEF Owing

(* Taking the first item off the answer takes its row, if it has one, off    *)
(* what is still to be written.                                              *)
LEMMA OwingStep ==
    ASSUME BatchTypeOK, items # <<>>, items' = Tail(items), Seen' = Seen + 1,
           UNCHANGED source
    PROVE  Owing = Owing' \cup (IF HasText(Head(items)) THEN {Seen + 1} ELSE {})
<1>1. /\ Len(items') = Len(items) - 1 /\ Len(items) \in Nat \ {0}
      /\ DOMAIN items = 1..Len(items) /\ DOMAIN items' = 1..Len(items')
      /\ \A i \in 1..Len(items') : items'[i] = items[i + 1]
      /\ Head(items) = items[1]
      /\ Seen \in Nat
  <2>1. items \in Seq(Item) /\ Seen \in Nat
    BY BatchTypes DEF BatchTypeOK
  <2> QED
    BY <2>1
<1>2. \A item : HasText(item)' <=> HasText(item)
  BY DEF HasText
<1>3. ASSUME NEW i \in DOMAIN items', HasText(items'[i])
      PROVE  Seen' + i \in Owing
  <2>1. i + 1 \in DOMAIN items /\ items'[i] = items[i + 1] /\ Seen' + i = Seen + (i + 1)
    BY <1>1, <1>3
  <2>2. HasText(items[i + 1])
    BY <1>3, <2>1
  <2> QED
    BY <2>1, <2>2 DEF Owing
<1>4. ASSUME NEW i \in DOMAIN items, HasText(items[i]), i # 1
      PROVE  Seen + i \in Owing'
  <2>1. i - 1 \in DOMAIN items' /\ items'[i - 1] = items[i] /\ Seen + i = Seen' + (i - 1)
    BY <1>1, <1>4
  <2>2. i - 1 \in {j \in DOMAIN items' : HasText(items[j])'}
    BY <1>2, <1>4, <2>1
  <2>3. Owing' = {Seen' + j : j \in {j \in DOMAIN items' : HasText(items[j])'}}
    BY DEF Owing
  <2> QED
    BY <2>1, <2>2, <2>3
<1>5. 1 \in DOMAIN items
  BY <1>1
<1>6. Owing' \subseteq Owing
  BY <1>2, <1>3 DEF Owing
<1>7. HasText(Head(items)) => Seen + 1 \in Owing
  BY <1>1, <1>5 DEF Owing
<1>8. \A n \in Owing : n \in Owing' \/ (n = Seen + 1 /\ HasText(Head(items)))
  BY <1>1, <1>4 DEF Owing
<1> QED
  BY <1>6, <1>7, <1>8

LEMMA BatchInvInit == WriterInit /\ BatchInit => BatchInv
<1> SUFFICES ASSUME WriterInit, BatchInit PROVE BatchInv
  OBVIOUS
<1>1. MaxEvents \in Nat /\ MaxDay \in Nat \ {0}
  BY HarvestAssumption, WriterAssumption
<1>2. WriterTypeOK
  BY <1>1 DEF WriterInit, WriterTypeOK
<1>3. items = <<>> /\ Len(items) = 0 /\ items \in Seq(Item) /\ Seen = 0 /\ Owing = {}
  BY NothingOwing DEF BatchInit, Seen
<1>4. accepted["documents"] = {} /\ Held("documents") = {}
  BY DEF WriterInit, Held, Buffered, NoPart, Kinds
<1>5. Cardinality(accepted["documents"]) = 0
  BY <1>4, FS_EmptySet
<1>6. BatchTypeOK
  BY <1>2, <1>3 DEF BatchInit, BatchTypeOK
<1> QED
  BY <1>1, <1>3, <1>4, <1>5, <1>6
     DEF BatchInit, BatchInv, Numbered, Owes, Holds, Ended

(* The steps that leave the writer and what it accepted alone. *)
LEMMA BatchQuietStep ==
    ASSUME BatchInv, UNCHANGED <<source, asked, items, stats, owed, accepted, part, disk>>,
           WriterTypeOK', interrupted' \in BOOLEAN, interrupted => interrupted',
           UNCHANGED <<phase, ret>>
    PROVE  BatchInv'
<1>1. \A item : HasText(item)' <=> HasText(item)
  BY DEF HasText
<1>2. Seen' = Seen /\ Owing' = Owing /\ Held("documents")' = Held("documents")
  BY <1>1 DEF Seen, Owing, Held, Buffered
<1> QED
  BY <1>2 DEF BatchInv, BatchTypeOK, Numbered, Owes, Holds, Ended

(* A feed or a query that fails is counted and owes nothing. *)
LEMMA FailsStep ==
    ASSUME BatchInv, Fails, UNCHANGED source PROVE BatchInv'
<1>0. BatchTypeOK /\ phase = "running" /\ phase' = phase /\ items' = items
      /\ UNCHANGED <<writerVars, interrupted, owed>>
  BY DEF BatchInv, Fails, MayAsk
<1>1. \A item : HasText(item)' <=> HasText(item)
  BY DEF HasText
<1>2. /\ stats' \in [docs : Nat, skipped : Nat, failed : Nat]
      /\ stats'.docs = stats.docs /\ stats'.skipped = stats.skipped
      /\ asked' \in Nat
  BY <1>0 DEF Fails, BatchTypeOK
<1>3. Seen' = Seen /\ Owing' = Owing
  BY <1>0, <1>1, <1>2 DEF Seen, Owing
<1>4. Held("documents")' = Held("documents") /\ accepted' = accepted
  BY <1>0 DEF Held, Buffered, writerVars
<1>5. BatchTypeOK'
  BY <1>0, <1>2, WriterQuietStep DEF BatchTypeOK
<1> QED
  BY <1>0, <1>2, <1>3, <1>4, <1>5 DEF BatchInv, Numbered, Owes, Holds, Ended

(* An answer owes a row for each item with words in it. *)
LEMMA AnsweredStep ==
    ASSUME BatchInv, NEW answer \in Answers, Answered(answer), UNCHANGED source
    PROVE  BatchInv'
<1>0. BatchTypeOK /\ phase = "running" /\ phase' = phase /\ items = <<>>
      /\ items' = answer /\ UNCHANGED <<writerVars, interrupted, stats>>
  BY DEF BatchInv, Answered, MayAsk
<1>1. \A item : HasText(item)' <=> HasText(item)
  BY DEF HasText
<1>2. Seen' = Seen
  BY <1>0 DEF Seen
<1>3. Held("documents")' = Held("documents") /\ accepted' = accepted
  BY <1>0 DEF Held, Buffered, writerVars
<1>4. owed' = accepted'["documents"] \cup Owing'
  <2>1. owed = accepted["documents"]
    BY <1>0, NothingOwing DEF BatchInv, Owes
  <2>2. Owing' = {Seen + i : i \in {j \in DOMAIN answer : HasText(answer[j])}}
    BY <1>0, <1>1, <1>2 DEF Owing
  <2> QED
    BY <1>3, <2>1, <2>2 DEF Answered
<1>5. Seen' + Len(items') <= MaxEvents
  <2>1. Cardinality(Row) = MaxEvents
    BY Rows, FS_Interval
  <2> QED
    BY <1>0, <1>2, <2>1 DEF Answered
<1>6. BatchTypeOK'
  <2>1. answer \in Seq(Item) /\ asked' \in Nat
    BY BatchAssumption, <1>0 DEF Answered, BatchTypeOK
  <2> QED
    BY <1>0, <2>1, WriterQuietStep DEF BatchTypeOK
<1> QED
  BY <1>0, <1>2, <1>3, <1>4, <1>5, <1>6 DEF BatchInv, Numbered, Owes, Holds, Ended

(* An item without words is counted, and its row stays free. *)
LEMMA SkipStep ==
    ASSUME BatchInv, Skip, UNCHANGED <<source, asked, interrupted, owed>>
    PROVE  BatchInv'
<1>0. BatchTypeOK /\ phase = "running" /\ phase' = phase
      /\ items # <<>> /\ items' = Tail(items) /\ ~HasText(Head(items))
      /\ UNCHANGED writerVars
  BY DEF BatchInv, Numbered, Skip
<1>1. /\ stats' \in [docs : Nat, skipped : Nat, failed : Nat]
      /\ stats'.docs = stats.docs /\ stats'.skipped = stats.skipped + 1
  BY <1>0 DEF Skip, BatchTypeOK
<1>2. Seen' = Seen + 1 /\ Seen \in Nat
  BY <1>0, <1>1, BatchTypes DEF Seen
<1>3. /\ items \in Seq(Item) /\ items' \in Seq(Item)
      /\ Len(items') = Len(items) - 1 /\ Len(items) \in Nat
  BY <1>0 DEF BatchTypeOK
<1>4. Owing = Owing'
  BY <1>0, <1>2, OwingStep
<1>5. Held("documents")' = Held("documents") /\ accepted' = accepted
  BY <1>0 DEF Held, Buffered, writerVars
<1>6. BatchTypeOK'
  BY <1>0, <1>1, <1>3, WriterQuietStep DEF BatchTypeOK
<1>7. Numbered'
  <2>1. 1..Seen \subseteq 1..Seen' /\ Seen' + Len(items') = Seen + Len(items)
    BY <1>2, <1>3
  <2> QED
    BY <1>0, <1>5, <2>1 DEF BatchInv, Numbered
<1> QED
  BY <1>0, <1>1, <1>4, <1>5, <1>6, <1>7 DEF BatchInv, Owes, Holds, Ended

(* An item with words goes to the writer.  Accepted, its row joins those     *)
(* before it, and the count goes up with them; refused, it stays owed.       *)
LEMMA WriteStep ==
    ASSUME BatchInv, Write, UNCHANGED <<source, asked, interrupted, owed>>
    PROVE  BatchInv'
<1>0. /\ BatchTypeOK /\ WriterTypeOK /\ phase = "running"
      /\ items # <<>> /\ HasText(Head(items)) /\ WriteRow("documents", Seen + 1)
  BY DEF BatchInv, BatchTypeOK, Numbered, Write, WriteDocument
<1>1. /\ items \in Seq(Item) /\ Len(items) \in Nat \ {0} /\ Seen \in Nat
      /\ stats.docs \in Nat /\ stats.skipped \in Nat /\ "documents" \in Kinds
  BY <1>0, BatchTypes DEF BatchTypeOK
<1>2. Seen + 1 \in Row /\ Seen + 1 <= MaxEvents
  BY <1>1, Rows DEF BatchInv, Numbered
<1>3. /\ stats' \in [docs : Nat, skipped : Nat, failed : Nat]
      /\ stats'.docs = stats.docs + 1 /\ stats'.skipped = stats.skipped
  BY <1>0 DEF Write, BatchTypeOK
<1>4. Seen' = Seen + 1
  BY <1>1, <1>3 DEF Seen
<1>5. WriterTypeOK' /\ Records("documents", Seen + 1)
  BY <1>0, <1>1, <1>2, WriteRowStep
<1>6. accepted["documents"] \subseteq 1..Seen /\ accepted \in [Kinds -> SUBSET Row]
  BY <1>0, BatchTypes DEF BatchInv, Numbered
<1>7. /\ stats.docs = Cardinality(accepted["documents"])
      /\ owed = accepted["documents"] \cup Owing
  BY <1>0 DEF BatchInv, Owes
<1>8. CASE ret' = "ok"
  <2>1. items' = Tail(items) /\ phase' = phase
    BY <1>8 DEF Write
  <2>2. items' \in Seq(Item) /\ Len(items') = Len(items) - 1
    BY <1>0, <1>1, <2>1
  <2>3. Takes("documents", Held("documents"), Seen + 1)
    BY <1>0, <1>1, <1>2, <1>8, WriteRowIsExact
  <2>4. Held("documents")' = accepted'["documents"]
    BY <1>0, <2>3 DEF Takes, BatchInv, Holds
  <2>5. accepted'["documents"] = accepted["documents"] \cup {Seen + 1}
    BY <2>3 DEF Takes
  <2>6. Cardinality(accepted'["documents"]) = stats.docs + 1
    <3>1. IsFiniteSet(accepted["documents"])
      <4>1. IsFiniteSet(1..Seen)
        BY <1>1, FS_Interval
      <4> QED
        BY <1>6, <4>1, FS_Subset
    <3>2. Seen + 1 \notin accepted["documents"]
      BY <1>1, <1>6
    <3> QED
      BY <1>7, <2>5, <3>1, <3>2, FS_AddElement
  <2>7. owed' = accepted'["documents"] \cup Owing'
    <3>1. Owing = Owing' \cup {Seen + 1}
      BY <1>0, <1>4, <2>1, OwingStep
    <3> QED
      BY <1>7, <2>5, <3>1
  <2>8. Numbered'
    <3>1. Seen' + Len(items') = Seen + Len(items)
      BY <1>1, <1>4, <2>2
    <3>2. accepted'["documents"] \subseteq 1..Seen'
      BY <1>1, <1>4, <1>6, <2>5
    <3> QED
      BY <1>0, <2>1, <3>1, <3>2 DEF BatchInv, Numbered
  <2>9. BatchTypeOK'
    BY <1>0, <1>3, <1>5, <2>1, <2>2 DEF BatchTypeOK
  <2> QED
    BY <1>0, <1>3, <2>1, <2>4, <2>6, <2>7, <2>8, <2>9 DEF BatchInv, Owes, Holds, Ended
<1>9. CASE ret' = "error"
  <2>1. items' = <<>> /\ phase' = "failed"
    BY <1>9 DEF Write, OnWriteError
  <2>2. accepted' = accepted
    BY <1>5, <1>9 DEF Records
  <2>3. Seen + 1 \in Owing
    <3>1. 1 \in DOMAIN items /\ Head(items) = items[1]
      BY <1>1
    <3> QED
      BY <1>0, <3>1 DEF Owing
  <2>4. ~(owed' \subseteq accepted'["documents"])
    <3>1. Seen + 1 \in owed' /\ Seen + 1 \notin accepted["documents"]
      BY <1>1, <1>6, <1>7, <2>3
    <3> QED
      BY <2>2, <3>1
  <2>5. Numbered'
    <3>1. Len(items') = 0 /\ 1..Seen \subseteq 1..Seen' /\ Seen' <= MaxEvents
      BY <1>1, <1>2, <1>4, <2>1
    <3> QED
      BY <1>1, <1>4, <1>6, <2>1, <2>2, <3>1 DEF Numbered
  <2>6. BatchTypeOK'
    BY <1>0, <1>3, <1>5, <2>1 DEF BatchTypeOK
  <2> QED
    BY <1>9, <2>1, <2>4, <2>5, <2>6 DEF BatchInv, Owes, Holds, Ended
<1> QED
  BY <1>5, <1>8, <1>9 DEF Records

(* Run returns, and main ends the process. *)
LEMMA BatchEndsStep ==
    ASSUME BatchInv, StopShort \/ ExitZero \/ ExitOne, UNCHANGED source
    PROVE  BatchInv'
<1>0. /\ BatchTypeOK /\ WriterTypeOK /\ items = <<>>
      /\ UNCHANGED <<asked, items, stats, interrupted, owed, accepted>>
      /\ "documents" \in Kinds
  BY BatchTypes DEF BatchInv, BatchTypeOK, Numbered, StopShort, ExitZero, ExitOne, Close, WriterCrash
<1>1. WriterTypeOK'
  <2>1. CASE StopShort
    BY <1>0, <2>1 DEF StopShort, WriterTypeOK
  <2>2. CASE ExitZero
    BY <1>0, <2>2, CloseStep DEF ExitZero
  <2>3. CASE ExitOne
    BY <1>0, <2>3, WriterQuietStep DEF ExitOne
  <2> QED
    BY <2>1, <2>2, <2>3
<1>2. Seen' = Seen /\ Owing = {} /\ Owing' = {}
  BY <1>0, NothingOwing DEF Seen, Owing
<1>3. phase' \in {"failed", "exit 0", "exit 1"}
  BY DEF StopShort, ExitZero, ExitOne
<1>4. BatchTypeOK' /\ Numbered'
  BY <1>0, <1>1, <1>2, <1>3 DEF BatchInv, BatchTypeOK, Numbered
<1>5. CASE StopShort \/ ExitOne
  BY <1>0, <1>4, <1>5 DEF BatchInv, Owes, Holds, Ended, StopShort, ExitOne
<1>6. CASE ExitZero
  <2>1. phase = "running" /\ phase' = "exit 0" /\ asked = Len(Feeds) /\ Close
    BY <1>6 DEF ExitZero
  <2>2. owed = accepted["documents"] /\ Held("documents") = accepted["documents"]
    BY <1>2, <2>1 DEF BatchInv, Owes, Holds
  <2>3. ret' = "ok" => disk'["documents"] = owed'
    BY <1>0, <2>1, <2>2, CloseIsExact
  <2> QED
    BY <1>0, <1>2, <1>4, <2>1, <2>2, <2>3 DEF BatchInv, Owes, Holds, Ended
<1> QED
  BY <1>5, <1>6

LEMMA BatchInvStep == BatchInv /\ BatchNext /\ UNCHANGED source => BatchInv'
<1> SUFFICES ASSUME BatchInv, BatchNext, UNCHANGED source PROVE BatchInv'
  OBVIOUS
<1>0. WriterTypeOK /\ interrupted \in BOOLEAN
  BY DEF BatchInv, BatchTypeOK
<1>1. CASE Interrupt
  BY <1>0, <1>1, WriterQuietStep, BatchQuietStep DEF Interrupt, writerVars
<1>2. CASE Fails
  BY <1>2, FailsStep
<1>3. CASE \E answer \in Answers : Answered(answer)
  BY <1>3, AnsweredStep
<1>4. CASE Skip /\ UNCHANGED <<asked, interrupted, owed>>
  BY <1>4, SkipStep
<1>5. CASE Write /\ UNCHANGED <<asked, interrupted, owed>>
  BY <1>5, WriteStep
<1>6. CASE StopShort \/ ExitZero \/ ExitOne
  BY <1>6, BatchEndsStep
<1>7. CASE BatchEnvironment
  <2>1. UNCHANGED <<part, disk, ret, accepted>> /\ UNCHANGED batchVars
    BY <1>7 DEF BatchEnvironment, NextDay, DiskFaults, DiskHeals
  <2>2. WriterTypeOK'
    BY <1>0, <1>7, WriterQuietStep DEF BatchEnvironment
  <2> QED
    BY <1>0, <2>1, <2>2, BatchQuietStep DEF batchVars
<1> QED
  BY <1>1, <1>2, <1>3, <1>4, <1>5, <1>6, <1>7 DEF BatchNext

(***************************************************************************)
(* The invariant holds of every pass over the feeds or the queries.        *)
(***************************************************************************)
THEOREM BatchInvariant == HarvestersSpec => [](source # "bluesky" => BatchInv)
<1>1. HarvestersInit => (source # "bluesky" => BatchInv)
  BY BatchInvInit DEF HarvestersInit, HarvestInit
<1>2. ASSUME source # "bluesky" => BatchInv,
             [HarvestersNext]_<<harvestVars, batchVars, source>>
      PROVE  (source # "bluesky" => BatchInv)'
  <2> SUFFICES ASSUME source' # "bluesky" PROVE BatchInv'
    OBVIOUS
  <2>1. CASE HarvestersNext
    <3>1. source' = source /\ BatchNext
      BY <2>1 DEF HarvestersNext
    <3> QED
      BY <1>2, <3>1, BatchInvStep
  <2>2. CASE UNCHANGED <<harvestVars, batchVars, source>>
    <3>1. BatchInv /\ UNCHANGED <<writerVars, batchVars, source>>
      BY <1>2, <2>2 DEF harvestVars
    <3>2. WriterTypeOK' /\ interrupted' \in BOOLEAN
      BY <3>1, WriterQuietStep DEF BatchInv, BatchTypeOK, batchVars
    <3> QED
      BY <3>1, <3>2, BatchQuietStep DEF writerVars, batchVars
  <2> QED
    BY <1>2, <2>1, <2>2
<1> QED
  BY <1>1, <1>2, PTL DEF HarvestersSpec

(***************************************************************************)
(* A pass that exits with 0 asked every feed, counted and wrote exactly    *)
(* the items with words in them, and one that exits with 1 was interrupted *)
(* or refused a row by its writer (RSSHarvester.Run, GDELTHarvester.Run,   *)
(* main), whatever the feeds answer and the disk does.                     *)
(***************************************************************************)
THEOREM BatchPassIsAccountedFor == HarvestersSpec => []PassIsAccountedFor
<1>1. ASSUME source # "bluesky" => BatchInv PROVE PassIsAccountedFor
  <2> SUFFICES ASSUME BatchInv, phase \in {"exit 0", "exit 1"} PROVE PassIsAccountedFor
    BY <1>1 DEF PassIsAccountedFor
  <2>1. items = <<>> /\ Owing = {}
    BY NothingOwing DEF BatchInv, Numbered
  <2> QED
    BY <2>1 DEF BatchInv, Owes, Ended, PassIsAccountedFor
<1> QED
  BY <1>1, BatchInvariant, PTL

(***************************************************************************)
(* Whatever the source, only a call that returns an error, or the death of *)
(* the process, loses a row the writer held.                               *)
(***************************************************************************)
THEOREM HarvestersReportLoss == HarvestersSpec => LossIsReported
<1> DEFINE allVars == <<harvestVars, batchVars, source>>
           Firehosed == source = "bluesky" => HarvestInv
           Batched == source # "bluesky" => BatchInv
<1>1. HarvestersInit => Firehosed
  BY HarvestInvInit DEF HarvestersInit
<1>2. Firehosed /\ [HarvestersNext]_allVars => Firehosed'
  BY HarvestInvStep DEF HarvestersNext
<1>3. ASSUME BatchInv, BatchNext, UNCHANGED source
      PROVE  Reported
  <2>0. WriterTypeOK /\ "documents" \in Kinds
    BY <1>3 DEF BatchInv, BatchTypeOK, Kinds
  <2>1. CASE Write
    <3>1. WriteRow("documents", Seen + 1) /\ Seen + 1 \in Row
      <4>0. BatchTypeOK /\ Seen + Len(items) <= MaxEvents /\ items # <<>>
        BY <1>3, <2>1 DEF BatchInv, Numbered, Write
      <4>1. items \in Seq(Item) /\ Seen \in Nat
        BY <4>0, BatchTypes DEF BatchTypeOK
      <4>2. Len(items) \in Nat \ {0}
        BY <4>0, <4>1
      <4> QED
        BY <2>1, <4>0, <4>1, <4>2, Rows DEF Write, WriteDocument
    <3> QED
      BY <2>0, <3>1, WriteRowStep DEF Records, Reported
  <2>2. CASE ExitZero
    BY <2>0, <2>2, CloseStep DEF ExitZero, Close, Reported
  <2>3. CASE ExitOne
    BY <1>3, <2>3 DEF BatchInv, Ended, ExitOne, WriterCrash, Reported
  <2>4. CASE UNCHANGED <<part, disk>>
    BY <2>4 DEF Held, Buffered, Reported
  <2> QED
    BY <1>3, <2>1, <2>2, <2>3, <2>4
       DEF BatchNext, Interrupt, Fails, Answered, Skip, StopShort, BatchEnvironment,
           NextDay, DiskFaults, DiskHeals, writerVars
<1>4. Firehosed /\ Batched /\ [HarvestersNext]_allVars => [Reported]_harvestVars
  <2>1. ASSUME source = "bluesky", HarvestInv, HarvestersNext
        PROVE  [Reported]_harvestVars
    BY <2>1, ReportedStep DEF HarvestersNext
  <2>2. ASSUME source # "bluesky", BatchInv, HarvestersNext
        PROVE  [Reported]_harvestVars
    BY <1>3, <2>2 DEF HarvestersNext
  <2>3. UNCHANGED allVars => UNCHANGED harvestVars
    OBVIOUS
  <2> QED
    BY <2>1, <2>2, <2>3
<1> QED
  BY <1>1, <1>2, <1>4, BatchInvariant, PTL DEF HarvestersSpec, LossIsReported, Reported

-----------------------------------------------------------------------------
(***************************************************************************)
(* What a training set is built from.  DeletesAreHonored needs the clean   *)
(* stop alone: a revocation the cursor has passed is in the files.         *)
(* OnlyRevokedAreMissing needs its converse too: nothing gets into a file, *)
(* or into the stream before it, but an event of its kind.                 *)
(***************************************************************************)
IsEventRow(k, i) == i \in 1..Len(log) /\ Kept(log[i]) /\ KindOf(log[i]) = k

HeldAreEvents == \A k \in Kinds : \A i \in Held(k) : IsEventRow(k, i)

(* An Encode, whatever comes of it, adds no row but its own to those of the *)
(* stream and those the rotation flushed.                                   *)
LEMMA EncodeAddsOnly ==
    ASSUME WriterTypeOK, NEW k \in Kinds, NEW p \in Part \cup {NoPart},
           NEW fresh \in BOOLEAN, NEW flushed \in SUBSET Row, NEW row \in Row,
           Encode(k, p, fresh, flushed, row)
    PROVE  Held(k)' \subseteq disk[k] \cup flushed \cup InStream(p) \cup {row}
<1> DEFINE rows == Append(p.buf, row)
<1>0. /\ part \in [Kinds -> Part \cup {NoPart}]
      /\ disk \in [Kinds -> SUBSET Row]
  BY DEF WriterTypeOK
<1>1. CASE ret' = "ok"
  <2>1. Takes(k, disk[k] \cup flushed \cup InStream(p), row)
    BY <1>1, EncodeIsExact
  <2> QED
    BY <2>1 DEF Takes
<1>2. CASE Fail(k, p)
  <2>1. part'[k] = p /\ disk'[k] = disk[k]
    BY <1>0, <1>2 DEF Fail
  <2> QED
    BY <2>1 DEF Held, Buffered, InStream
<1>3. CASE p.io = "open" /\ BreakPart(k, p, rows)
  <2>1. p.buf \in Seq(Row) /\ rows \in Seq(Row)
    <3>1. p \in Part
      BY <1>3 DEF NoPart
    <3> QED
      BY <3>1 DEF Part
  <2>2. Len(rows) = Len(p.buf) + 1 /\ Len(p.buf) \in Nat
        /\ rows[Len(p.buf) + 1] = row
        /\ \A i \in 1..Len(p.buf) : rows[i] = p.buf[i]
    BY <2>1
  <2>3. PICK n \in 0..Len(rows) : disk' = [disk EXCEPT ![k] = @ \cup First(rows, n)]
    BY <1>3 DEF BreakPart
  <2>4. part'[k].buf = <<>>
    BY <1>0, <1>3 DEF BreakPart, Broken
  <2>5. Buffered(k)' = {}
    BY <2>4 DEF Buffered
  <2> HIDE DEF rows
  <2>6. First(rows, n) \subseteq InStream(p) \cup {row}
    <3>1. \A i \in 1..n : i \in 1..Len(p.buf) \/ i = Len(p.buf) + 1
      BY <2>2, <2>3
    <3> QED
      BY <2>2, <3>1 DEF First, InStream
  <2>7. disk'[k] = disk[k] \cup First(rows, n)
    BY <1>0, <2>3
  <2> QED
    BY <2>5, <2>6, <2>7 DEF Held
<1> QED
  BY <1>1, <1>2, <1>3 DEF Encode

(* So does a write, and it leaves the other kind alone. *)
LEMMA WriteRowAddsOnly ==
    ASSUME WriterTypeOK, NEW k \in Kinds, NEW row \in Row, WriteRow(k, row),
           NEW kind \in Kinds
    PROVE  Held(kind)' \subseteq Held(kind) \cup (IF kind = k THEN {row} ELSE {})
<1>0. /\ part \in [Kinds -> Part \cup {NoPart}]
      /\ disk \in [Kinds -> SUBSET Row]
  BY DEF WriterTypeOK
<1>1. CASE kind # k
  <2>1. part'[kind] = part[kind] /\ disk'[kind] = disk[kind]
    BY <1>0, <1>1 DEF WriteRow, Rotate, Encode, Fail, BreakPart
  <2> QED
    BY <2>1 DEF Held, Buffered
<1>2. CASE kind = k
  <2>1. NewPart \in Part /\ InStream(NewPart) = {}
    <3>1. day \in Nat /\ <<>> \in Seq(Row)
      BY WriterAssumption DEF WriterTypeOK
    <3> QED
      BY <3>1 DEF NewPart, Part, InStream
  <2>2. /\ part[k] \in Part \cup {NoPart} /\ part[k].buf \in Seq(Row)
        /\ Buffered(k) \in SUBSET Row /\ {} \in SUBSET Row
    <3>1. part[k] = NoPart => part[k].buf = <<>>
      BY DEF NoPart
    <3>2. part[k] \in Part => part[k].buf \in Seq(Row)
      BY DEF Part
    <3>3. <<>> \in Seq(Row)
      OBVIOUS
    <3>4. part[k].buf \in Seq(Row)
      BY <1>0, <3>1, <3>2, <3>3
    <3> QED
      BY <1>0, <3>4 DEF Buffered
  <2>3. Held(k) = disk[k] \cup Buffered(k) /\ Buffered(k) = InStream(part[k])
    BY DEF Held, Buffered, InStream
  <2>4. CASE Encode(k, part[k], FALSE, {}, row)
    <3>1. Held(k)' \subseteq disk[k] \cup {} \cup InStream(part[k]) \cup {row}
      BY <2>2, <2>4, EncodeAddsOnly
    <3> QED
      BY <1>2, <2>3, <3>1
  <2>5. CASE Encode(k, NewPart, TRUE, {}, row)
    <3>1. Held(k)' \subseteq disk[k] \cup {} \cup InStream(NewPart) \cup {row}
      BY <2>1, <2>2, <2>5, EncodeAddsOnly
    <3> QED
      BY <1>2, <2>1, <2>3, <3>1
  <2>6. CASE Encode(k, NewPart, TRUE, Buffered(k), row)
    <3>1. Held(k)' \subseteq disk[k] \cup Buffered(k) \cup InStream(NewPart) \cup {row}
      BY <2>1, <2>2, <2>6, EncodeAddsOnly
    <3> QED
      BY <1>2, <2>1, <2>3, <3>1
  <2>7. CASE Fail(k, part[k]) \/ (part[k] = NoPart /\ Fail(k, NoPart))
    <3>1. part'[k] = part[k] /\ disk'[k] = disk[k]
      BY <1>0, <2>7 DEF Fail
    <3> QED
      BY <1>2, <3>1 DEF Held, Buffered
  <2>8. CASE /\ part' = [part EXCEPT ![k] = Closed(@)]
             /\ disk' = [disk EXCEPT ![k] = @ \cup Buffered(k)]
    <3>1. part'[k].buf = <<>> /\ disk'[k] = disk[k] \cup Buffered(k)
      BY <1>0, <2>8 DEF Closed
    <3>2. Buffered(k)' = {}
      BY <3>1 DEF Buffered
    <3>3. Held(k)' = disk[k] \cup Buffered(k)
      BY <3>1, <3>2 DEF Held
    <3> QED
      BY <1>2, <2>3, <3>3
  <2>9. CASE BreakPart(k, part[k], part[k].buf)
    <3>1. PICK n \in 0..Len(part[k].buf) :
            disk' = [disk EXCEPT ![k] = @ \cup First(part[k].buf, n)]
      BY <2>9 DEF BreakPart
    <3>2. part'[k].buf = <<>> /\ disk'[k] = disk[k] \cup First(part[k].buf, n)
      BY <1>0, <2>9, <3>1 DEF BreakPart, Broken
    <3>3. First(part[k].buf, n) \subseteq Buffered(k)
      BY <2>2, <3>1 DEF First, Buffered
    <3>4. Buffered(k)' = {}
      BY <3>2 DEF Buffered
    <3>5. Held(k)' = disk[k] \cup First(part[k].buf, n)
      BY <3>2, <3>4 DEF Held
    <3> QED
      BY <1>2, <2>3, <3>3, <3>5
  <2> QED
    BY <2>4, <2>5, <2>6, <2>7, <2>8, <2>9 DEF WriteRow, Rotate
<1> QED
  BY <1>1, <1>2

(* Close and the death of the process add no row to the files but those the *)
(* writer held.                                                             *)
LEMMA ForgettingAddsNothing ==
    ASSUME WriterTypeOK, Close \/ WriterCrash, NEW kind \in Kinds
    PROVE  Held(kind)' \subseteq Held(kind)
<1>1. Buffered(kind)' = {}
  BY DEF Close, WriterCrash, Buffered, NoPart
<1>2. CASE WriterCrash
  BY <1>1, <1>2 DEF WriterCrash, Held
<1>3. CASE Close
  <2>1. PICK docs \in FlushOutcomes("documents"), tombs \in FlushOutcomes("tombstones") :
          disk' = [k \in Kinds |-> disk[k] \cup (IF k = "documents" THEN docs ELSE tombs)]
    BY <1>3 DEF Close
  <2>2. ASSUME NEW k \in Kinds, NEW rows \in FlushOutcomes(k)
        PROVE  rows \subseteq Buffered(k)
    <3>1. CASE CanClose(part[k])
      BY <2>2, <3>1 DEF FlushOutcomes
    <3>2. CASE ~CanClose(part[k])
      <4>1. PICK n \in 0..Len(part[k].buf) : rows = First(part[k].buf, n)
        BY <2>2, <3>2 DEF FlushOutcomes
      <4>2. Len(part[k].buf) \in Nat
        <5>1. part[k] \in Part \cup {NoPart}
          BY DEF WriterTypeOK
        <5>2. part[k] = NoPart => part[k].buf = <<>>
          BY DEF NoPart
        <5>3. part[k] \in Part => part[k].buf \in Seq(Row)
          BY DEF Part
        <5> QED
          BY <5>1, <5>2, <5>3
      <4> QED
        BY <4>1, <4>2 DEF First, Buffered
    <3> QED
      BY <3>1, <3>2
  <2>3. docs \subseteq Buffered("documents") /\ tombs \subseteq Buffered("tombstones")
    BY <2>2 DEF Kinds
  <2>4. disk'[kind] \subseteq disk[kind] \cup Buffered(kind)
    BY <2>1, <2>3 DEF Kinds
  <2>5. Held(kind)' = disk'[kind] /\ Held(kind) = disk[kind] \cup Buffered(kind)
    BY <1>1 DEF Held
  <2> QED
    BY <2>4, <2>5
<1> QED
  BY <1>2, <1>3

LEMMA HeldAreEventsInit == HarvestInit => HeldAreEvents
  BY DEF HarvestInit, WriterInit, HeldAreEvents, Held, Buffered, NoPart

(* Rows and events stay what they are. *)
LEMMA EventsStay ==
    ASSUME HeldAreEvents, UNCHANGED log, \A k \in Kinds : Held(k)' \subseteq Held(k)
    PROVE  HeldAreEvents'
  BY DEF HeldAreEvents, IsEventRow

LEMMA HeldAreEventsStep ==
    HarvestInv /\ HeldAreEvents /\ [HarvestNext]_harvestVars => HeldAreEvents'
<1> SUFFICES ASSUME HarvestInv, HeldAreEvents, [HarvestNext]_harvestVars
             PROVE  HeldAreEvents'
  OBVIOUS
<1>0. HarvestTypeOK /\ WriterTypeOK
  BY DEF HarvestInv, HarvestTypeOK
<1>1. CASE \E ev \in Firehose : Publish(ev)
  <2>1. PICK ev \in Firehose : Publish(ev)
    BY <1>1
  <2>2. /\ Len(log') = Len(log) + 1 /\ Len(log) \in Nat
        /\ \A i \in 1..Len(log) : i \in 1..Len(log') /\ log'[i] = log[i]
    BY <1>0, <2>1, HarvestTypes DEF Publish
  <2>3. \A k \in Kinds : Held(k)' = Held(k)
    BY <2>1 DEF Publish, writerVars, Held, Buffered
  <2> QED
    BY <2>2, <2>3 DEF HeldAreEvents, IsEventRow
<1>2. CASE Deliver /\ Kept(log[pos])
  <2>1. /\ WriteRow(KindOf(log[pos]), pos) /\ UNCHANGED log
        /\ pos \in 1..Len(log) /\ pos \in Row /\ KindOf(log[pos]) \in Kinds
    <3>1. pos \in 1..Len(log) + 1 /\ pos <= Len(log) /\ Len(log) \in 0..MaxEvents
      BY <1>0, <1>2, HarvestTypes DEF Deliver, HarvestInv, Reading
    <3> QED
      BY <1>2, <3>1, Rows DEF Deliver, KindOf, Kinds
  <2>2. \A k \in Kinds :
          Held(k)' \subseteq Held(k) \cup (IF k = KindOf(log[pos]) THEN {pos} ELSE {})
    BY <1>0, <2>1, WriteRowAddsOnly
  <2>3. IsEventRow(KindOf(log[pos]), pos)
    BY <1>2, <2>1 DEF IsEventRow
  <2>4. ASSUME NEW k \in Kinds, NEW i \in Held(k)' PROVE IsEventRow(k, i)
    BY <2>2, <2>3, <2>4 DEF HeldAreEvents
  <2> QED
    BY <2>1, <2>4 DEF HeldAreEvents, IsEventRow
<1>3. CASE Exit \/ Crash
  <2>1. (Close \/ WriterCrash) /\ UNCHANGED log
    BY <1>3 DEF Exit, Crash
  <2>2. \A k \in Kinds : Held(k)' \subseteq Held(k)
    BY <1>0, <2>1, ForgettingAddsNothing
  <2> QED
    BY <2>1, <2>2, EventsStay
<1>4. CASE UNCHANGED <<log, part, disk>>
  <2>1. \A k \in Kinds : Held(k)' = Held(k)
    BY <1>4 DEF Held, Buffered
  <2> QED
    BY <1>4, <2>1, EventsStay
<1> QED
  BY <1>1, <1>2, <1>3, <1>4
     DEF HarvestNext, Start, Cancel, Dial, DialFails, ConnectionDrops, Deliver,
         Reconnect, StopInBackoff, Environment, NextDay, DiskFaults, DiskHeals,
         harvestVars, writerVars

(***************************************************************************)
(* The part files, and the streams before them, hold nothing but events of *)
(* their kind that the filter kept (handle, WriteDocument,                 *)
(* WriteTombstone), however often they were delivered and whatever broke.  *)
(***************************************************************************)
THEOREM FilesHoldEvents == HarvestSpec => []HeldAreEvents
<1>1. HarvestInit => HeldAreEvents
  BY HeldAreEventsInit
<1>2. HarvestInv /\ HeldAreEvents /\ [HarvestNext]_harvestVars => HeldAreEvents'
  BY HeldAreEventsStep
<1> QED
  BY <1>1, <1>2, HarvestInvariant, PTL DEF HarvestSpec

(***************************************************************************)
(* The composition leaves the harvester as it is: preparing a training set *)
(* only reads its files.                                                   *)
(***************************************************************************)
THEOREM CorpusIsAHarvest == CorpusSpec => HarvestSpec
<1>1. CorpusInit => HarvestInit
  BY DEF CorpusInit
<1>2. [CorpusNext]_corpusVars => [HarvestNext]_harvestVars
  BY DEF CorpusNext, corpusVars, Harvesting, Prep
<1> QED
  BY <1>1, <1>2, PTL DEF CorpusSpec, HarvestSpec

(* The events of the firehose, by what they do. *)
LEMMA EventsOfTheLog ==
    ASSUME HarvestTypeOK, NEW i \in 1..Len(log)
    PROVE  /\ log[i].op = "create" => AuthorOf[log[i].doc] \in Authors
           /\ log[i].op \in {"create", "delete", "deactivate", "other"}
<1>1. log[i] \in Event
  BY HarvestTypes, HarvestAssumption
<1>2. log[i].op = "create" => log[i].doc \in Docs
  BY <1>1 DEF Event
<1> QED
  BY <1>1, <1>2 DEF Event, Authors

(***************************************************************************)
(* On a disk that takes its writes, a training set prepared while the      *)
(* harvester is stopped, and never was killed, has no post that was        *)
(* deleted, or whose author was deactivated, before the cursor: the rest   *)
(* of the harvest and the query together honor deletes.                    *)
(***************************************************************************)
THEOREM CorpusHonorsDeletes == ASSUME Sound PROVE CorpusSpec => DeletesAreHonored
<1>1. ASSUME HarvestInv, CleanStopIsDurable, [CorpusNext]_corpusVars
      PROVE  [HonoredDeletes]_corpusVars
  <2> SUFFICES ASSUME Prep, mode = "stopped", NEW i \in Passed(cursorFile),
                      NEW j \in trained', j \in RevokedBy(i)
               PROVE  FALSE
    BY DEF HonoredDeletes
  <2>1. i \in disk[KindOf(log[i])]
    BY <1>1 DEF CleanStopIsDurable, Sound
  <2>2. log[i].op \in {"delete", "deactivate"} /\ KindOf(log[i]) = "tombstones"
    BY DEF RevokedBy, KindOf
  <2> DEFINE docs == {DocumentRow(n) : n \in disk["documents"]}
             tombs == {TombstoneRow(n) : n \in disk["tombstones"]}
  <2>3. TombstoneRow(i) \in tombs
    BY <2>1, <2>2
  <2>4. PICK row \in Query!Alive(docs, tombs) : j = row.content
    BY DEF Prep
  <2>5. row \in docs /\ ~Query!Revokes(TombstoneRow(i), row)
    BY <2>3, <2>4 DEF Query!Alive
  <2>6. row = DocumentRow(j)
    BY <2>4, <2>5 DEF DocumentRow
  <2>7. AuthorOf[log[j].doc] # NULL
    BY <1>1, EventsOfTheLog, CorpusAssumption DEF HarvestInv, RevokedBy
  <2>8. Query!Revokes(TombstoneRow(i), DocumentRow(j))
    BY <2>2, <2>7 DEF Query!Revokes, TombstoneRow, DocumentRow, RevokedBy
  <2> QED
    BY <2>5, <2>6, <2>8
<1> QED
  BY <1>1, CorpusIsAHarvest, HarvestInvariant, CleanStopKeepsAll, PTL DEF CorpusSpec, DeletesAreHonored

(***************************************************************************)
(* Prepared at such a stop, a training set has every post the cursor has   *)
(* passed that no event of the firehose revokes: the tombstones in the     *)
(* files are events, and no event takes a post of another author or id.    *)
(***************************************************************************)
THEOREM CorpusKeepsTheRest == ASSUME Sound PROVE CorpusSpec => OnlyRevokedAreMissing
<1> DEFINE Complete ==
      Prep /\ mode = "stopped" =>
        \A i \in Passed(cursorFile) :
          log[i].op = "create" /\ (\A j \in 1..Len(log) : i \notin RevokedBy(j))
            => i \in trained'
<1>1. ASSUME HarvestInv, HeldAreEvents, CleanStopIsDurable, [CorpusNext]_corpusVars
      PROVE  [Complete]_corpusVars
  <2> SUFFICES ASSUME Prep, mode = "stopped", NEW i \in Passed(cursorFile),
                      log[i].op = "create",
                      \A j \in 1..Len(log) : i \notin RevokedBy(j)
               PROVE  i \in trained'
    OBVIOUS
  <2> DEFINE docs == {DocumentRow(n) : n \in disk["documents"]}
             tombs == {TombstoneRow(n) : n \in disk["tombstones"]}
  <2>0. HarvestTypeOK /\ i \in 1..Len(log)
    <3>1. HarvestTypeOK
      BY <1>1 DEF HarvestInv
    <3> QED
      BY <3>1, HarvestTypes DEF Passed
  <2>1. DocumentRow(i) \in docs
    BY <1>1 DEF CleanStopIsDurable, Sound, KindOf
  <2>2. ASSUME NEW j \in disk["tombstones"]
        PROVE  ~Query!Revokes(TombstoneRow(j), DocumentRow(i))
    <3>1. IsEventRow("tombstones", j)
      BY <1>1 DEF HeldAreEvents, Held, Kinds
    <3>2. j \in 1..Len(log) /\ log[j].op \in {"delete", "deactivate"}
      BY <2>0, <3>1, EventsOfTheLog DEF IsEventRow, KindOf, Kept
    <3>3. i \notin RevokedBy(j)
      BY <3>2
    <3> QED
      BY <2>0, <3>2, <3>3 DEF Query!Revokes, TombstoneRow, DocumentRow, RevokedBy
  <2>3. DocumentRow(i) \in Query!Alive(docs, tombs)
    BY <2>1, <2>2 DEF Query!Alive
  <2>4. DocumentRow(i).content = i
    BY DEF DocumentRow
  <2>5. trained' = {row.content : row \in Query!Alive(docs, tombs)}
    BY DEF Prep
  <2> QED
    BY <2>3, <2>4, <2>5
<1> QED
  BY <1>1, CorpusIsAHarvest, HarvestInvariant, FilesHoldEvents, CleanStopKeepsAll, PTL
     DEF CorpusSpec, OnlyRevokedAreMissing
=============================================================================
