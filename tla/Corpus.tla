-------------------------------- MODULE Corpus --------------------------------
(***************************************************************************)
(* The corpus between its two users: the harvester appends to it, and      *)
(* build_training_set reads whatever its files hold when a training run    *)
(* prepares its data.  The composition is over the variable disk.          *)
(***************************************************************************)
EXTENDS Harvest, FiniteSets

CONSTANT NULL

(* A post of the firehose carries its author (handle, bluesky.go). *)
ASSUME CorpusAssumption == NULL \notin Authors

VARIABLE trained    \* the documents of the last training set, as positions

corpusVars == <<harvestVars, trained>>

(* No length bound, no cap: the harvester's rows all fit here. *)
Query == INSTANCE TrainingSet
           WITH MinChars <- 1, MaxChars <- 1, MaxSequences <- MaxEvents,
                Order <- [p \in {"bluesky"}, i \in 1..MaxEvents |-> i]

(* What handle() writes for event i.  Positions are distinct, so they stand *)
(* for the texts of the posts as well as for created_at.                    *)
DocumentRow(i) ==
    [platform |-> "bluesky", doc |-> log[i].doc, author |-> AuthorOf[log[i].doc],
     content |-> i, chars |-> 1, created |-> i]

TombstoneRow(i) ==
    IF log[i].op = "delete"
    THEN [platform |-> "bluesky", scope |-> "doc", doc |-> log[i].doc,
          author |-> AuthorOf[log[i].doc]]
    ELSE [platform |-> "bluesky", scope |-> "account", doc |-> NULL,
          author |-> log[i].author]

CorpusInit ==
    /\ HarvestInit
    /\ trained = {}

Harvesting ==
    /\ HarvestNext
    /\ UNCHANGED trained

(* Every row has its own content, so nothing is a duplicate and nothing is  *)
(* capped: the query comes down to the anti-join.                           *)
Prep ==
    /\ disk["documents"] # {}
    /\ LET docs == {DocumentRow(i) : i \in disk["documents"]}
           tombs == {TombstoneRow(i) : i \in disk["tombstones"]}
       IN  trained' = {row.content : row \in Query!Alive(docs, tombs)}
    /\ UNCHANGED harvestVars

CorpusNext == Harvesting \/ Prep

CorpusSpec == CorpusInit /\ [][CorpusNext]_corpusVars

FairCorpus == CorpusSpec /\ HarvestFairness

-----------------------------------------------------------------------------
(* The documents an event revokes. *)
RevokedBy(i) ==
    {j \in 1..Len(log) :
       /\ log[j].op = "create"
       /\ \/ log[i].op = "delete" /\ log[i].doc = log[j].doc
          \/ log[i].op = "deactivate" /\ log[i].author = AuthorOf[log[j].doc]}

(* The revocations a stopped harvester has consumed for good. *)
HonoredDeletes ==
    Prep /\ mode = "stopped" =>
      \A i \in Passed(cursorFile) : trained' \cap RevokedBy(i) \cap 1..i = {}

(***************************************************************************)
(* "honor delete events from the firehose" (docs/corpus-policy.md:24): a   *)
(* training set prepared while the harvester is stopped holds no post      *)
(* whose deletion, or whose author's deactivation, the cursor has passed.  *)
(* This is the same claim with and without crashes; it holds without.      *)
(***************************************************************************)
DeletesAreHonored == [][HonoredDeletes]_corpusVars

(***************************************************************************)
(* The other half: prepared at a clean stop, the set loses no document the *)
(* firehose never revoked.                                                 *)
(***************************************************************************)
OnlyRevokedAreMissing ==
    [][Prep /\ mode = "stopped" =>
         \A i \in Passed(cursorFile) :
           log[i].op = "create" /\ (\A j \in 1..Len(log) : i \notin RevokedBy(j))
             => i \in trained']_corpusVars
=============================================================================
