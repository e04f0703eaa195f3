----------------------------- MODULE Preparation -----------------------------
(***************************************************************************)
(* Preparations of a corpus that grows meanwhile: harvesters append rows   *)
(* and tombstones in any order (api/internal/harvest/corpus.go), and       *)
(* ml/sentilyzer_ml/pipeline/prep.py runs over whatever there is.          *)
(***************************************************************************)
EXTENDS TrainingSet, FiniteSetsExt

CONSTANTS
    CorpusRows, CorpusTombstones,  \* what harvesters write
    MaxRows, MaxTombstones         \* bounds on how much of it

(* An account tombstone names its author (harvest/bluesky.go:80-87). *)
ASSUME PreparationAssumption ==
    /\ MinChars \in Nat /\ MaxChars \in Nat /\ MaxSequences \in Nat
    /\ MaxRows \in Nat /\ MaxTombstones \in Nat
    /\ \A r \in CorpusRows : r.chars \in Nat
    /\ \A t \in CorpusTombstones :
         /\ t.scope \in {"doc", "account"}
         /\ t.scope = "account" => t.author # NULL

VARIABLES rows, tombs, kept

prepVars == <<rows, tombs, kept>>

PrepInit == rows = {} /\ tombs = {} /\ kept = {}

(* The corpus is append-only; what was kept belonged to an earlier one. *)
AddRow ==
    /\ Cardinality(rows) < MaxRows
    /\ \E row \in CorpusRows \ rows : rows' = rows \cup {row}
    /\ kept' = {}
    /\ UNCHANGED tombs

AddTombstone ==
    /\ Cardinality(tombs) < MaxTombstones
    /\ \E t \in CorpusTombstones \ tombs : tombs' = tombs \cup {t}
    /\ kept' = {}
    /\ UNCHANGED rows

(* Without a row there is no training set, but an error. *)
Prep ==
    /\ rows # {}
    /\ kept' \in TrainingSets(rows, tombs)
    /\ UNCHANGED <<rows, tombs>>

PrepNext == AddRow \/ AddTombstone \/ Prep

PrepSpec == PrepInit /\ [][PrepNext]_prepVars

-----------------------------------------------------------------------------
TextsOf(S) == {r.content : r \in S}

RevokedPosts == {<<t.platform, t.doc>> : t \in {u \in tombs : u.scope = "doc"}}
RevokedAccounts == {<<t.platform, t.author>> : t \in {u \in tombs : u.scope = "account"}}

Live ==
    {r \in rows : /\ r.chars >= MinChars /\ r.chars <= MaxChars
                  /\ <<r.platform, r.doc>> \notin RevokedPosts
                  /\ <<r.platform, r.author>> \notin RevokedAccounts}

(***************************************************************************)
(* The reference: what a training set is, said of texts instead of query   *)
(* stages, for every order in which rows and tombstones arrived.  A text   *)
(* is trained on only if some row of it is neither revoked nor out of      *)
(* bounds, and then exactly once, as far as the cap allows.  So a          *)
(* revocation reaches every row of its post or account and none of another *)
(* platform, and does not take a text away from another author who posted  *)
(* it too (prep.py:107-135).                                               *)
(***************************************************************************)
TextsAreTheLiveTexts ==
    [][Prep =>
         /\ TextsOf(kept') \subseteq TextsOf(Live)
         /\ Cardinality(kept') = Cardinality(TextsOf(kept'))
         /\ Cardinality(kept') =
              Min({MaxSequences, Cardinality(TextsOf(Live))})]_prepVars
=============================================================================
