----------------------------- MODULE TrainingSet -----------------------------
(***************************************************************************)
(* build_training_set of ml/sentilyzer_ml/pipeline/prep.py: the query that *)
(* turns the corpus files into the rows a student is trained on.  A corpus *)
(* row is [platform, doc, author, content, chars, created], content being  *)
(* its content_sha256; a tombstone is [platform, scope, doc, author].      *)
(* NULL stands for SQL's.                                                  *)
(***************************************************************************)
EXTENDS Integers, FiniteSets

CONSTANTS
    NULL,
    MinChars, MaxChars,  \* PrepConfig bounds on the length of a text
    MaxSequences,        \* PrepConfig.max_sequences
    Order                \* Order[platform, doc]: the md5 the cap sorts by

(* Seeded bugs: account tombstones do nothing, or act on every author. *)
RevokesPosts(t, row) == t.platform = row.platform /\ t.scope = "doc" /\ t.doc = row.doc
RevokesAuthors(t, row) ==
    t.platform = row.platform /\ (t.scope = "doc" => t.doc = row.doc)

(* The anti-join: a tombstone acts on its own platform only, and an account *)
(* tombstone only on rows that carry an author.                             *)
Revokes(t, row) ==
    /\ t.platform = row.platform
    /\ \/ t.scope = "doc" /\ t.doc = row.doc
       \/ t.scope = "account" /\ row.author # NULL /\ t.author = row.author

Alive(rows, tombs) == {row \in rows : ~ \E t \in tombs : Revokes(t, row)}

Sized(rows) == {row \in rows : row.chars \in MinChars..MaxChars}

(* ORDER BY created_at NULLS LAST, doc_id; Doc ids are integers here. *)
Earlier(r, s) ==
    \/ r.created # NULL /\ s.created = NULL
    \/ r.created # NULL /\ s.created # NULL /\ r.created < s.created
    \/ r.created = s.created /\ r.doc < s.doc

(* row_number() = 1: one row of each content, none earlier than it.  Rows   *)
(* that tie are told apart by nothing, so the choice is the engine's.       *)
IsDeduped(kept, rows) ==
    /\ kept \subseteq rows
    /\ \A row \in rows : Cardinality({k \in kept : k.content = row.content}) = 1
    /\ \A k \in kept : \A row \in rows :
         row.content = k.content => ~Earlier(row, k)

(* ORDER BY md5 LIMIT max_sequences. *)
IsCapped(kept, rows) ==
    /\ kept \subseteq rows
    /\ Cardinality(kept) = IF Cardinality(rows) < MaxSequences
                           THEN Cardinality(rows) ELSE MaxSequences
    /\ \A k \in kept, row \in rows \ kept :
         Order[k.platform, k.doc] <= Order[row.platform, row.doc]

(* Seeded bug: duplicates go before revoked rows do. *)
DedupedFirst(rows, tombs) ==
    {kept \in SUBSET rows :
       \E deduped \in SUBSET rows :
         IsDeduped(deduped, rows) /\ IsCapped(kept, Sized(Alive(deduped, tombs)))}

(* Every training set the query may return for these files. *)
TrainingSets(rows, tombs) ==
    LET candidates == Sized(Alive(rows, tombs))
    IN  {kept \in SUBSET candidates :
           \E deduped \in SUBSET candidates :
             IsDeduped(deduped, candidates) /\ IsCapped(kept, deduped)}

=============================================================================
