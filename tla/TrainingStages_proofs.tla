----------------------- MODULE TrainingStages_proofs -----------------------
(***************************************************************************)
(* Proofs about TrainingStages, for every number of runs, containers and   *)
(* documents, with one labelling stage or two, and whatever dies, times    *)
(* out, overlaps or is overwritten.                                        *)
(***************************************************************************)
EXTENDS TrainingStages, TLAPS

(* The parts of the volume, read off its type. *)
LEMMA VolumeParts ==
    ASSUME NEW v \in Volume
    PROVE  /\ v.corpus \in SUBSET Items
           /\ v.train \in [Runs -> (SUBSET Items) \cup {NULL}]
           /\ v.labels \in [Labelers -> [Items -> Nat]]
           /\ v.ckpt \in [Runs -> Model]
           /\ v.model \in [Runs -> Model \cup {NULL}]
           /\ v.report \in [Runs -> Report \cup {NULL}]
  BY DEF Volume

LEMMA FirstVolumeType == FirstVolume \in Volume
  BY StagesAssumption DEF FirstVolume, Volume, Model

(* Each kind of file may be replaced by one of its type. *)
LEMMA CommitTypes ==
    ASSUME NEW v \in Volume
    PROVE  /\ \A r \in Runs, x \in SUBSET Items : [v EXCEPT !["train"][r] = x] \in Volume
           /\ \A s \in Labelers, x \in [Items -> Nat] :
                /\ [v EXCEPT !["labels"][s] = x] \in Volume
                /\ [v EXCEPT !["labels"][s] = x].labels = [v.labels EXCEPT ![s] = x]
           /\ \A r \in Runs, x \in Model : [v EXCEPT !["ckpt"][r] = x] \in Volume
           /\ \A r \in Runs, x \in Model : [v EXCEPT !["model"][r] = x] \in Volume
           /\ \A r \in Runs, x \in Report : [v EXCEPT !["report"][r] = x] \in Volume
  BY VolumeParts DEF Volume

LEMMA StageKinds ==
    /\ Labelers \subseteq Stages /\ "label" \in Labelers
    /\ Stages \subseteq Steps /\ {"returned", "raised", "dead", "prep"} \subseteq Steps
    /\ \A s \in Stages : After(s) \in Steps
<1>1. Labelers \subseteq {"label", "label_aspects"} /\ "label" \in Labelers
  BY StagesAssumption
<1>2. \A s \in Stages : After(s) \in Steps
  BY <1>1 DEF Stages, Steps, After
<1> QED
  BY <1>1, <1>2 DEF Stages, Steps

(* A busy container executes a stage of a run. *)
LEMMA Busy ==
    ASSUME StagesTypeOK, NEW c \in Containers, ~Idle(c)
    PROVE  work[c].stage \in Stages /\ work[c].run \in Runs
  BY DEF StagesTypeOK, Idle

(***************************************************************************)
(* What is trained on and what is held out are rows.                       *)
(***************************************************************************)
LEMMA RowsOfAJoin ==
    ASSUME NEW v \in Volume, NEW r \in Runs, v.train[r] # NULL
    PROVE  Held(v, r) \in SUBSET Row /\ Trained(v, r) \in SUBSET Row
<1>1. v.train[r] \in SUBSET Items
  BY VolumeParts
<1>2. ASSUME NEW s \in Labelers, NEW x \in Joined(v, r, s)
      PROVE  <<s, x[1]>> \in Row
  <2>1. PICK i \in v.train[r] : x \in {i} \X (1..v.labels[s][i])
    BY <1>2 DEF Joined
  <2>2. x[1] = i
    BY <2>1
  <2> QED
    BY <1>1, <2>2 DEF Row
<1>3. \A s \in Labelers : Tail(Joined(v, r, s)) \subseteq Joined(v, r, s)
  BY DEF Tail
<1>4. Held(v, r) \subseteq Row
  BY <1>2, <1>3 DEF Held
<1>5. Trained(v, r) \subseteq Row
  BY <1>2 DEF Trained
<1> QED
  BY <1>4, <1>5

-----------------------------------------------------------------------------
(***************************************************************************)
(* A call that is over leaves types in place, whatever the orchestrator    *)
(* does next.                                                              *)
(***************************************************************************)
LEMMA AnswerStep ==
    ASSUME StagesTypeOK, NEW c \in Containers, ~Idle(c),
           NEW step \in Steps, NEW retry \in BOOLEAN, Answer(c, step, retry)
    PROVE  /\ view' \in [Containers -> Volume]
           /\ work' \in [Containers -> [stage : Stages, run : Runs] \cup {NULL}]
           /\ todo' \in [Containers -> SUBSET Items]
           /\ orch' \in [Runs -> Steps]
           /\ again' \in [Runs -> BOOLEAN]
           /\ waits' \in [Runs -> Containers \cup {NULL}]
           /\ holder' \in Runs \cup {NULL}
<1>1. FirstVolume \in Volume
  BY FirstVolumeType
<1>2. work[c].run \in Runs
  BY Busy
<1> QED
  BY <1>1, <1>2 DEF Answer, StagesTypeOK

LEMMA EnterStep ==
    ASSUME StagesTypeOK, NEW c \in Containers, NEW s \in Stages, NEW r \in Runs,
           Enter(c, s, r)
    PROVE  /\ view' \in [Containers -> Volume]
           /\ work' \in [Containers -> [stage : Stages, run : Runs] \cup {NULL}]
           /\ todo' \in [Containers -> SUBSET Items]
<1>1. vol \in Volume /\ vol.train[r] \in (SUBSET Items) \cup {NULL}
  <2>1. vol \in Volume
    BY DEF StagesTypeOK
  <2> QED
    BY <2>1, VolumeParts
<1>2. (IF s \in Labelers /\ vol.train[r] # NULL
       THEN vol.train[r] \ Labeled(vol, s) ELSE {}) \in SUBSET Items
  BY <1>1
<1> QED
  BY <1>1, <1>2 DEF Enter, Reloaded, StagesTypeOK

(* One window: the file grows by one label, the view with it. *)
LEMMA LabelWindowTypes ==
    ASSUME StagesTypeOK, NEW c \in Containers, LabelWindow(c)
    PROVE  StagesTypeOK'
<1> DEFINE s == work[c].stage
           file(i) == Flushed(c, s, i)
<1>1. s \in Labelers /\ vol \in Volume /\ view[c] \in Volume
  BY DEF LabelWindow, StagesTypeOK
<1>2. PICK i \in todo[c] :
        /\ Commit(c, "labels", s, file(i))
        /\ Keep(c, "labels", s, file(i))
        /\ todo' = [todo EXCEPT ![c] = @ \ {i}]
  BY DEF LabelWindow
<1>3. file(i) \in [Items -> Nat]
  <2>1. i \in Items
    BY DEF StagesTypeOK
  <2>2. view[c].labels[s] \in [Items -> Nat]
    BY <1>1, VolumeParts
  <2> QED
    BY <2>1, <2>2 DEF Flushed
<1>4. vol' \in Volume
  BY <1>1, <1>2, <1>3, CommitTypes DEF Commit
<1>5. view' \in [Containers -> Volume]
  <2>1. [view[c] EXCEPT !["labels"][s] = file(i)] \in Volume
    BY <1>1, <1>3, CommitTypes
  <2> QED
    BY <1>2, <2>1 DEF Keep, StagesTypeOK
<1>6. clobbered' \subseteq {"train", "labels", "ckpt", "model", "report"}
  BY <1>2 DEF Commit, StagesTypeOK
<1>7. todo' \in [Containers -> SUBSET Items]
  BY <1>2 DEF StagesTypeOK
<1>8. UNCHANGED <<work, orch, again, waits, holder, counts, crowded>>
  BY DEF LabelWindow
<1> QED
  BY <1>4, <1>5, <1>6, <1>7, <1>8 DEF StagesTypeOK, counts

(* A checkpoint: the same, for the file of a run. *)
LEMMA TrainSavesTypes ==
    ASSUME StagesTypeOK, NEW c \in Containers, TrainSaves(c)
    PROVE  StagesTypeOK'
<1> DEFINE r == work[c].run
           file == Student(view[c], r)
<1>1. r \in Runs /\ vol \in Volume /\ view[c] \in Volume
  BY Busy DEF TrainSaves, At, StagesTypeOK
<1>2. Commit(c, "ckpt", r, file) /\ Keep(c, "ckpt", r, file)
  BY DEF TrainSaves
<1>3. file \in Model
  <2>1. Trained(view[c], r) \in SUBSET Row
    BY <1>1, RowsOfAJoin DEF TrainSaves, Enough
  <2>2. view[c].ckpt[r] \in SUBSET Row
    BY <1>1, VolumeParts DEF Model
  <2> QED
    BY <2>1, <2>2 DEF Student, Model
<1>4. vol' \in Volume
  BY <1>1, <1>2, <1>3, CommitTypes DEF Commit
<1>5. view' \in [Containers -> Volume]
  <2>1. [view[c] EXCEPT !["ckpt"][r] = file] \in Volume
    BY <1>1, <1>3, CommitTypes
  <2> QED
    BY <1>2, <2>1 DEF Keep, StagesTypeOK
<1>6. clobbered' \subseteq {"train", "labels", "ckpt", "model", "report"}
  BY <1>2 DEF Commit, StagesTypeOK
<1>7. UNCHANGED <<work, todo, orch, again, waits, holder, counts, crowded>>
  BY DEF TrainSaves
<1> QED
  BY <1>4, <1>5, <1>6, <1>7 DEF StagesTypeOK, counts

(* The last commit of a stage. *)
LEMMA FinalCommitTypes ==
    ASSUME StagesTypeOK, NEW c \in Containers, Prep(c) \/ TrainEnds(c) \/ Evaluate(c)
    PROVE  /\ vol' \in Volume
           /\ clobbered' \subseteq {"train", "labels", "ckpt", "model", "report"}
<1> DEFINE r == work[c].run
<1>1. r \in Runs /\ vol \in Volume /\ view[c] \in Volume
  BY Busy DEF Prep, TrainEnds, Evaluate, At, StagesTypeOK
<1>2. CASE Prep(c)
  <2>1. CASE NoCommit
    BY <1>1, <2>1 DEF NoCommit, StagesTypeOK
  <2>2. CASE Commit(c, "train", r, view[c].corpus)
    <3>1. view[c].corpus \in SUBSET Items
      BY <1>1, VolumeParts
    <3> QED
      BY <1>1, <2>2, <3>1, CommitTypes DEF Commit, StagesTypeOK
  <2> QED
    BY <1>2, <2>1, <2>2 DEF Prep
<1>3. CASE TrainEnds(c)
  <2>1. Trained(view[c], r) \in SUBSET Row
    BY <1>1, <1>3, RowsOfAJoin DEF TrainEnds, Enough
  <2>2. view[c].ckpt[r] \in SUBSET Row
    BY <1>1, VolumeParts DEF Model
  <2>3. Student(view[c], r) \in Model
    BY <2>1, <2>2 DEF Student, Model
  <2>4. Commit(c, "model", r, Student(view[c], r))
    BY <1>3 DEF TrainEnds
  <2> QED
    BY <1>1, <2>3, <2>4, CommitTypes DEF Commit, StagesTypeOK
<1>4. CASE Evaluate(c)
  <2> DEFINE file == [held |-> Held(view[c], r), model |-> view[c].model[r]]
  <2>1. Held(view[c], r) \in SUBSET Row
    BY <1>1, <1>4, RowsOfAJoin DEF Evaluate, Enough
  <2>2. view[c].model[r] \in Model
    BY <1>1, <1>4, VolumeParts DEF Evaluate
  <2>3. file \in Report
    BY <2>1, <2>2 DEF Report
  <2>4. Commit(c, "report", r, file)
    BY <1>4 DEF Evaluate
  <2> QED
    BY <1>1, <2>3, <2>4, CommitTypes DEF Commit, StagesTypeOK
<1> QED
  BY <1>2, <1>3, <1>4

-----------------------------------------------------------------------------
LEMMA TypesInit == Init => StagesTypeOK
<1>1. FirstVolume \in Volume
  BY FirstVolumeType
<1> SUFFICES ASSUME Init PROVE StagesTypeOK
  OBVIOUS
<1>2. vol \in Volume /\ view \in [Containers -> Volume]
  BY <1>1 DEF Init
<1>3. /\ work \in [Containers -> [stage : Stages, run : Runs] \cup {NULL}]
      /\ todo \in [Containers -> SUBSET Items]
  BY DEF Init
<1>4. orch \in [Runs -> Steps] /\ again \in [Runs -> BOOLEAN]
  BY DEF Init, Steps
<1>5. waits \in [Runs -> Containers \cup {NULL}] /\ holder \in Runs \cup {NULL}
  BY DEF Init
<1>6. deaths \in 0..MaxDeaths /\ failures \in 0..MaxFailures
  BY StagesAssumption DEF Init
<1>7. crowded \in BOOLEAN /\ clobbered \subseteq {"train", "labels", "ckpt", "model", "report"}
  BY DEF Init
<1> QED
  BY <1>2, <1>3, <1>4, <1>5, <1>6, <1>7 DEF StagesTypeOK

(***************************************************************************)
(* Every step keeps the types.                                             *)
(***************************************************************************)
LEMMA TypesStep == StagesTypeOK /\ [Next]_vars => StagesTypeOK'
<1> SUFFICES ASSUME StagesTypeOK, [Next]_vars PROVE StagesTypeOK'
  OBVIOUS
<1> USE StagesAssumption
<1>1. ASSUME NEW r \in Runs, Begin(r) PROVE StagesTypeOK'
  BY <1>1, StageKinds DEF Begin, StagesTypeOK, counts
<1>2. ASSUME NEW r \in Runs, Dies(r) PROVE StagesTypeOK'
  BY <1>2, StageKinds DEF Dies, StagesTypeOK
<1>3. ASSUME NEW r \in Runs, Resume(r) PROVE StagesTypeOK'
  BY <1>3, StageKinds DEF Resume, StagesTypeOK, counts
<1>4. ASSUME NEW r \in Runs, NEW c \in Containers, Call(r, c) PROVE StagesTypeOK'
  <2>1. orch[r] \in Stages /\ Enter(c, orch[r], r)
    BY <1>4 DEF Call, Alive
  <2>2. /\ view' \in [Containers -> Volume]
        /\ work' \in [Containers -> [stage : Stages, run : Runs] \cup {NULL}]
        /\ todo' \in [Containers -> SUBSET Items]
    BY <2>1, EnterStep
  <2> QED
    BY <1>4, <2>2 DEF Call, StagesTypeOK, counts
<1>5. ASSUME NEW c \in Containers, Prep(c) \/ TrainEnds(c) \/ Evaluate(c)
      PROVE  StagesTypeOK'
  <2>1. ~Idle(c) /\ Return(c) /\ UNCHANGED <<counts, crowded>>
    BY <1>5 DEF Prep, TrainEnds, Evaluate, At
  <2>2. After(work[c].stage) \in Steps
    BY <2>1, Busy, StageKinds
  <2>3. Answer(c, After(work[c].stage), FALSE)
    BY <2>1 DEF Return
  <2> HIDE DEF Answer
  <2> QED
    BY <1>5, <2>1, <2>2, <2>3, AnswerStep, FinalCommitTypes DEF StagesTypeOK, counts
<1>6. ASSUME NEW c \in Containers, LabelWindow(c) PROVE StagesTypeOK'
  BY <1>6, LabelWindowTypes
<1>7. ASSUME NEW c \in Containers, TrainSaves(c) PROVE StagesTypeOK'
  BY <1>7, TrainSavesTypes
<1>8. ASSUME NEW c \in Containers, ~Idle(c), NEW step \in Steps, NEW retry \in BOOLEAN,
             Answer(c, step, retry), NoCommit, UNCHANGED crowded,
             UNCHANGED counts \/ CountFailure
      PROVE  StagesTypeOK'
  <2>1. deaths' \in 0..MaxDeaths /\ failures' \in 0..MaxFailures
    BY <1>8 DEF StagesTypeOK, CountFailure, counts
  <2> QED
    BY <1>8, <2>1, AnswerStep DEF NoCommit, StagesTypeOK
<1>9. ASSUME NEW c \in Containers, LabelEnds(c) PROVE StagesTypeOK'
  <2>1. After(work[c].stage) \in Steps
    BY <1>9, Busy, StageKinds DEF LabelEnds
  <2> QED
    BY <1>8, <1>9, <2>1 DEF LabelEnds, Return
<1>10. ASSUME NEW c \in Containers, Unfit(c) PROVE StagesTypeOK'
  BY <1>8, <1>10, StageKinds DEF Unfit
<1>11. ASSUME NEW c \in Containers, Raises(c) PROVE StagesTypeOK'
  BY <1>8, <1>11, StageKinds DEF Raises
<1>12. ASSUME NEW c \in Containers, TimesOut(c) PROVE StagesTypeOK'
  <2>1. work[c].stage \in Steps
    BY <1>12, Busy, StageKinds DEF TimesOut
  <2> QED
    BY <1>8, <1>12, <2>1, StageKinds DEF TimesOut, OnTimeout
<1>13. ASSUME NEW c \in Containers, Preempted(c) PROVE StagesTypeOK'
  <2>1. work[c].stage \in Stages /\ work[c].run \in Runs
        /\ Enter(c, work[c].stage, work[c].run)
    BY <1>13, Busy DEF Preempted
  <2>2. deaths' \in 0..MaxDeaths /\ failures' \in 0..MaxFailures
    BY <1>13 DEF Preempted, StagesTypeOK, CountFailure
  <2> QED
    BY <1>13, <2>1, <2>2, EnterStep DEF Preempted, StagesTypeOK
<1>14. ASSUME NEW i \in Items, Ingest(i) PROVE StagesTypeOK'
  <2>1. vol' \in Volume
    BY <1>14 DEF Ingest, StagesTypeOK, Volume
  <2> QED
    BY <1>14, <2>1 DEF Ingest, StagesTypeOK, counts
<1>15. CASE UNCHANGED vars
  BY <1>15 DEF vars, counts, StagesTypeOK
<1> QED
  BY <1>1, <1>2, <1>3, <1>4, <1>5, <1>6, <1>7, <1>9, <1>10, <1>11, <1>12, <1>13, <1>14,
     <1>15 DEF Next

(***************************************************************************)
(* The state has its types, for every number of runs, containers and       *)
(* documents, whatever dies, times out or overlaps.                        *)
(***************************************************************************)
THEOREM StagesTypeCorrect == Spec => []StagesTypeOK
<1>1. Init => StagesTypeOK
  BY TypesInit
<1>2. StagesTypeOK /\ [Next]_vars => StagesTypeOK'
  BY TypesStep
<1> QED
  BY <1>1, <1>2, PTL DEF Spec

-----------------------------------------------------------------------------
(***************************************************************************)
(* The labels.  A file grows by items that its writer lists as unlabelled, *)
(* and what a container lists has no label in the file as it sees it: that *)
(* file is its own snapshot and what it flushed since.  That others        *)
(* overwrite the committed file meanwhile, or are overwritten, only        *)
(* replaces one file without duplicates by another.                        *)
(***************************************************************************)
Unique(v) == \A s \in Labelers, i \in Items : v.labels[s][i] <= 1

Listed(c) ==
    ~Idle(c) /\ work[c].stage \in Labelers =>
      \A i \in todo[c] : view[c].labels[work[c].stage][i] = 0

LabelsInv ==
    /\ StagesTypeOK
    /\ Unique(vol)
    /\ \A c \in Containers : Unique(view[c]) /\ Listed(c)

LEMMA FirstLabels == Unique(FirstVolume)
  BY DEF Unique, FirstVolume

LEMMA LabelsInit == Init => LabelsInv
<1> SUFFICES ASSUME Init PROVE LabelsInv
  OBVIOUS
<1>1. StagesTypeOK
  BY TypesInit
<1>2. Unique(vol) /\ \A c \in Containers : Unique(view[c])
  BY FirstLabels DEF Init
<1>3. \A c \in Containers : Listed(c)
  BY DEF Init, Listed, Idle
<1> QED
  BY <1>1, <1>2, <1>3 DEF LabelsInv

(* A volume keeps its labels when another kind of file is committed. *)
LEMMA OtherCommits ==
    ASSUME NEW v \in Volume, NEW w, NEW key, NEW file,
           \/ w = [v EXCEPT !["train"][key] = file]
           \/ w = [v EXCEPT !["ckpt"][key] = file]
           \/ w = [v EXCEPT !["model"][key] = file]
           \/ w = [v EXCEPT !["report"][key] = file]
    PROVE  w.labels = v.labels
  BY DEF Volume

(* Where the labels stay as they are, and lists as they were, all is well. *)
LEMMA LabelsStay ==
    ASSUME LabelsInv, StagesTypeOK', vol'.labels = vol.labels,
           \A c \in Containers :
             \/ work'[c] = NULL /\ view'[c] = FirstVolume
             \/ /\ work'[c] = work[c] /\ todo'[c] = todo[c]
                /\ view'[c].labels = view[c].labels
    PROVE  LabelsInv'
<1>1. Unique(vol)'
  BY DEF LabelsInv, Unique
<1>2. ASSUME NEW c \in Containers PROVE Unique(view[c])' /\ Listed(c)'
  <2>1. CASE work'[c] = NULL /\ view'[c] = FirstVolume
    BY <2>1, FirstLabels DEF Listed, Idle, Unique
  <2>2. CASE /\ work'[c] = work[c] /\ todo'[c] = todo[c]
             /\ view'[c].labels = view[c].labels
    BY <2>2 DEF LabelsInv, Listed, Idle, Unique
  <2> QED
    BY <2>1, <2>2
<1> QED
  BY <1>1, <1>2 DEF LabelsInv

(* A call that is over: its container forgets, the others go on. *)
LEMMA AnswerLabels ==
    ASSUME StagesTypeOK, NEW c \in Containers, NEW step, NEW retry, Answer(c, step, retry)
    PROVE  \A d \in Containers :
             \/ work'[d] = NULL /\ view'[d] = FirstVolume
             \/ /\ work'[d] = work[d] /\ todo'[d] = todo[d]
                /\ view'[d].labels = view[d].labels
  BY DEF Answer, StagesTypeOK

(* A stage that begins lists what its fresh view has no label for. *)
LEMMA EnterLabels ==
    ASSUME LabelsInv, StagesTypeOK', NEW c \in Containers, NEW s \in Stages, NEW r \in Runs,
           Enter(c, s, r), UNCHANGED vol
    PROVE  LabelsInv'
<1>1. Unique(vol)'
  BY DEF LabelsInv, Unique
<1>2. view'[c] = vol /\ work'[c] = [stage |-> s, run |-> r]
      /\ todo'[c] = IF s \in Labelers /\ vol.train[r] # NULL
                    THEN vol.train[r] \ Labeled(vol, s) ELSE {}
  BY DEF Enter, Reloaded, LabelsInv, StagesTypeOK
<1>3. ASSUME NEW d \in Containers, d # c
      PROVE  view'[d] = view[d] /\ work'[d] = work[d] /\ todo'[d] = todo[d]
  BY <1>3 DEF Enter, LabelsInv, StagesTypeOK
<1>4. Unique(view[c])'
  BY <1>2 DEF LabelsInv, Unique
<1>5. Listed(c)'
  <2>1. ASSUME s \in Labelers, NEW i \in todo'[c] PROVE vol.labels[s][i] = 0
    <3>1. vol.train[r] # NULL /\ i \in vol.train[r] /\ i \notin Labeled(vol, s)
      BY <1>2, <2>1
    <3>2. vol \in Volume
      BY DEF LabelsInv, StagesTypeOK
    <3>3. i \in Items /\ vol.labels[s][i] \in Nat
      BY <2>1, <3>1, <3>2, VolumeParts
    <3> QED
      BY <3>1, <3>3 DEF Labeled
  <2> QED
    BY <1>2, <2>1 DEF Listed
<1>6. ASSUME NEW d \in Containers, d # c PROVE Unique(view[d])' /\ Listed(d)'
  BY <1>3, <1>6 DEF LabelsInv, Unique, Listed, Idle
<1> QED
  BY <1>1, <1>4, <1>5, <1>6 DEF LabelsInv

(* A window adds one label to an item that had none. *)
LEMMA WindowLabels ==
    ASSUME LabelsInv, StagesTypeOK', NEW c \in Containers, LabelWindow(c)
    PROVE  LabelsInv'
<1> DEFINE s == work[c].stage
<1>1. s \in Labelers /\ ~Idle(c) /\ work' = work
  BY DEF LabelWindow
<1>2. PICK i \in todo[c] :
        /\ Commit(c, "labels", s, Flushed(c, s, i))
        /\ Keep(c, "labels", s, Flushed(c, s, i))
        /\ todo' = [todo EXCEPT ![c] = @ \ {i}]
  BY DEF LabelWindow
<1> DEFINE file == Flushed(c, s, i)
<1>3. vol \in Volume /\ view[c] \in Volume /\ i \in Items
  BY DEF LabelsInv, StagesTypeOK
<1>4. view[c].labels[s] \in [Items -> Nat] /\ view[c].labels[s][i] = 0
  BY <1>1, <1>3, VolumeParts DEF LabelsInv, Listed
<1>5. /\ file \in [Items -> Nat]
      /\ file[i] = 1
      /\ \A j \in Items \ {i} : file[j] = view[c].labels[s][j]
  BY <1>3, <1>4 DEF Flushed
<1>6. \A j \in Items : file[j] <= 1
  BY <1>1, <1>5 DEF LabelsInv, Unique
<1>7. vol'.labels = [vol.labels EXCEPT ![s] = file]
  BY <1>1, <1>2, <1>3, <1>5, CommitTypes DEF Commit
<1>8. view' = [view EXCEPT ![c] = [view[c] EXCEPT !["labels"][s] = file]]
  BY <1>2 DEF Keep, LabelsInv, StagesTypeOK
<1>9. view'[c].labels = [view[c].labels EXCEPT ![s] = file]
  <2>1. view[c].labels \in [Labelers -> [Items -> Nat]]
    BY <1>3, VolumeParts
  <2>2. [view[c] EXCEPT !["labels"][s] = file].labels = [view[c].labels EXCEPT ![s] = file]
    BY <1>1, <1>3, <1>5, CommitTypes
  <2>3. view'[c] = [view[c] EXCEPT !["labels"][s] = file]
    BY <1>8 DEF LabelsInv, StagesTypeOK
  <2> QED
    BY <2>2, <2>3
<1> HIDE DEF file
<1>10. Unique(vol)'
  <2>1. vol.labels \in [Labelers -> [Items -> Nat]]
    BY <1>3, VolumeParts
  <2> QED
    BY <1>1, <1>6, <1>7, <2>1 DEF Unique, LabelsInv
<1>11. Unique(view[c])'
  <2>1. view[c].labels \in [Labelers -> [Items -> Nat]]
    BY <1>3, VolumeParts
  <2> QED
    BY <1>1, <1>6, <1>9, <2>1 DEF Unique, LabelsInv
<1>12. Listed(c)'
  <2>1. \A j \in todo'[c] : j \in todo[c] /\ j # i /\ j \in Items
    BY <1>2 DEF LabelsInv, StagesTypeOK
  <2>2. view'[c].labels[s] = file
    BY <1>1, <1>3, <1>9, VolumeParts
  <2>3. \A j \in todo[c] : view[c].labels[s][j] = 0
    BY <1>1 DEF LabelsInv, Listed
  <2> QED
    BY <1>1, <1>5, <2>1, <2>2, <2>3 DEF Listed
<1>13. ASSUME NEW d \in Containers, d # c PROVE Unique(view[d])' /\ Listed(d)'
  <2>1. view'[d] = view[d] /\ todo'[d] = todo[d] /\ work'[d] = work[d]
    BY <1>1, <1>2, <1>8, <1>13 DEF LabelsInv, StagesTypeOK
  <2> QED
    BY <1>13, <2>1 DEF LabelsInv, Unique, Listed, Idle
<1> QED
  BY <1>10, <1>11, <1>12, <1>13 DEF LabelsInv

LEMMA LabelsStep == LabelsInv /\ [Next]_vars => LabelsInv'
<1> SUFFICES ASSUME LabelsInv, [Next]_vars PROVE LabelsInv'
  OBVIOUS
<1>0. StagesTypeOK /\ StagesTypeOK'
  BY TypesStep DEF LabelsInv
<1>1. ASSUME UNCHANGED <<vol, view, work, todo>> PROVE LabelsInv'
  BY <1>0, <1>1, LabelsStay
<1>2. ASSUME NEW r \in Runs, Begin(r) \/ Dies(r) \/ Resume(r) PROVE LabelsInv'
  BY <1>1, <1>2 DEF Begin, Dies, Resume
<1>3. ASSUME NEW r \in Runs, NEW c \in Containers, Call(r, c) PROVE LabelsInv'
  <2>1. orch[r] \in Stages /\ Enter(c, orch[r], r) /\ UNCHANGED vol
    BY <1>3 DEF Call, Alive
  <2> QED
    BY <1>0, <2>1, EnterLabels
<1>4. ASSUME NEW c \in Containers, NEW step, NEW retry, Answer(c, step, retry),
             vol'.labels = vol.labels
      PROVE  LabelsInv'
  BY <1>0, <1>4, AnswerLabels, LabelsStay
<1>5. ASSUME NEW c \in Containers, Prep(c) \/ TrainEnds(c) \/ Evaluate(c) PROVE LabelsInv'
  <2>1. Answer(c, After(work[c].stage), FALSE)
    BY <1>5 DEF Prep, TrainEnds, Evaluate, Return
  <2>2. vol'.labels = vol.labels
    <3>1. vol \in Volume
      BY <1>0 DEF StagesTypeOK
    <3>2. ASSUME NEW kind \in {"train", "ckpt", "model", "report"}, NEW key, NEW file,
                 Commit(c, kind, key, file)
          PROVE  vol'.labels = vol.labels
      BY <3>1, <3>2, OtherCommits DEF Commit
    <3>3. CASE Prep(c)
      <4>1. \/ NoCommit
            \/ Commit(c, "train", work[c].run, view[c].corpus)
        BY <3>3 DEF Prep
      <4> QED
        BY <3>2, <4>1 DEF NoCommit
    <3>4. CASE TrainEnds(c)
      <4>1. Commit(c, "model", work[c].run, Student(view[c], work[c].run))
        BY <3>4 DEF TrainEnds
      <4> QED
        BY <3>2, <4>1
    <3>5. CASE Evaluate(c)
      <4>1. PICK file : Commit(c, "report", work[c].run, file)
        BY <3>5 DEF Evaluate
      <4> QED
        BY <3>2, <4>1
    <3> QED
      BY <1>5, <3>3, <3>4, <3>5
  <2> QED
    BY <1>4, <2>1, <2>2
<1>6. ASSUME NEW c \in Containers, LabelWindow(c) PROVE LabelsInv'
  BY <1>0, <1>6, WindowLabels
<1>7. ASSUME NEW c \in Containers, TrainSaves(c) PROVE LabelsInv'
  <2> DEFINE r == work[c].run
             file == Student(view[c], r)
  <2>1. vol \in Volume /\ view[c] \in Volume
    BY <1>0 DEF StagesTypeOK
  <2>2. vol'.labels = vol.labels
    BY <1>7, <2>1, OtherCommits DEF TrainSaves, Commit
  <2>3. view' = [view EXCEPT ![c] = [view[c] EXCEPT !["ckpt"][r] = file]]
    BY <1>0, <1>7 DEF TrainSaves, Keep, StagesTypeOK
  <2>4. \A d \in Containers : view'[d].labels = view[d].labels
    <3>1. [view[c] EXCEPT !["ckpt"][r] = file].labels = view[c].labels
      BY <2>1, OtherCommits
    <3> QED
      BY <1>0, <2>3, <3>1 DEF StagesTypeOK
  <2>5. work' = work /\ todo' = todo
    BY <1>7 DEF TrainSaves
  <2> QED
    BY <1>0, <2>2, <2>4, <2>5, LabelsStay
<1>8. ASSUME NEW c \in Containers, LabelEnds(c) \/ Unfit(c) \/ Raises(c) PROVE LabelsInv'
  BY <1>4, <1>8 DEF LabelEnds, Unfit, Raises, NoCommit, Return
<1>9. ASSUME NEW c \in Containers, TimesOut(c) PROVE LabelsInv'
  BY <1>4, <1>9 DEF TimesOut, OnTimeout, NoCommit
<1>10. ASSUME NEW c \in Containers, Preempted(c) PROVE LabelsInv'
  BY <1>0, <1>10, Busy, EnterLabels DEF Preempted
<1>11. ASSUME NEW i \in Items, Ingest(i) PROVE LabelsInv'
  <2>1. vol'.labels = vol.labels
    BY <1>0, <1>11 DEF Ingest, StagesTypeOK, Volume
  <2> QED
    BY <1>0, <1>11, <2>1, LabelsStay DEF Ingest
<1>12. CASE UNCHANGED vars
  BY <1>1, <1>12 DEF vars
<1> QED
  BY <1>2, <1>3, <1>5, <1>6, <1>7, <1>8, <1>9, <1>10, <1>11, <1>12 DEF Next

(***************************************************************************)
(* No item is ever labelled twice in a file, however the labelling stages  *)
(* of orphans, successors and other runs overlap and overwrite each other. *)
(***************************************************************************)
THEOREM StagesLabelOnce == Spec => []LabelsAreUnique
<1>1. Init => LabelsInv
  BY LabelsInit
<1>2. LabelsInv /\ [Next]_vars => LabelsInv'
  BY LabelsStep
<1>3. LabelsInv => LabelsAreUnique
  BY DEF LabelsInv, Unique, LabelsAreUnique
<1> QED
  BY <1>1, <1>2, <1>3, PTL DEF Spec

-----------------------------------------------------------------------------
(***************************************************************************)
(* What no commit loses.  A commit replaces a version its writer has not   *)
(* seen only if somebody committed that kind of file since the writer      *)
(* reloaded.  For checkpoints and students there is nobody else, because   *)
(* one call of train runs at a time; for all kinds there is nobody as long *)
(* as stages run one at a time.                                            *)
(***************************************************************************)
SeesStudents(c) == view[c].ckpt = vol.ckpt /\ view[c].model = vol.model

SeesFiles(c) ==
    /\ SeesStudents(c)
    /\ view[c].train = vol.train /\ view[c].labels = vol.labels /\ view[c].report = vol.report

Students ==
    /\ \A b, c \in Containers : At(b, "train") /\ At(c, "train") => b = c
    /\ \A c \in Containers : At(c, "train") => SeesStudents(c)
    /\ StudentsAreNotLost

InTurn ==
    crowded \/
      /\ \A b, c \in Containers : ~Idle(b) /\ ~Idle(c) => b = c
      /\ \A c \in Containers : ~Idle(c) => SeesFiles(c)
      /\ clobbered = {}

SeenInv == StagesTypeOK /\ Students /\ InTurn

(* w is v, but for its files of a kind. *)
SameBut(kind, v, w) ==
    /\ kind # "train" => w.train = v.train
    /\ kind # "labels" => w.labels = v.labels
    /\ kind # "ckpt" => w.ckpt = v.ckpt
    /\ kind # "model" => w.model = v.model
    /\ kind # "report" => w.report = v.report

SameFiles == SameBut("none", vol, vol')

(* A commit replaces files of one kind. *)
LEMMA Replaced ==
    ASSUME NEW v \in Volume, NEW w, NEW key, NEW file
    PROVE  /\ w = [v EXCEPT !["train"][key] = file] => SameBut("train", v, w)
           /\ w = [v EXCEPT !["labels"][key] = file] => SameBut("labels", v, w)
           /\ w = [v EXCEPT !["ckpt"][key] = file] => SameBut("ckpt", v, w)
           /\ w = [v EXCEPT !["model"][key] = file] => SameBut("model", v, w)
           /\ w = [v EXCEPT !["report"][key] = file] => SameBut("report", v, w)
  BY DEF Volume, SameBut

(* Only c was at work, or is no longer as it was. *)
OthersGoOn(c) ==
    \A d \in Containers : d # c => work'[d] = work[d] /\ view'[d] = view[d]

(* A step that commits nothing and begins nothing. *)
LEMMA NothingLost ==
    ASSUME SeenInv, StagesTypeOK', SameFiles, UNCHANGED <<clobbered, crowded>>,
           \A c \in Containers :
             work'[c] = NULL \/ (work'[c] = work[c] /\ view'[c] = view[c])
    PROVE  SeenInv'
<1>1. \A c \in Containers : ~Idle(c)' => ~Idle(c) /\ work'[c] = work[c] /\ view'[c] = view[c]
  BY DEF Idle
<1>2. \A c \in Containers : At(c, "train")' => At(c, "train")
  BY <1>1 DEF At
<1>3. \A c \in Containers : ~Idle(c)' /\ SeesStudents(c) => SeesStudents(c)'
  BY <1>1 DEF SeesStudents, SameFiles, SameBut
<1>4. \A c \in Containers : ~Idle(c)' /\ SeesFiles(c) => SeesFiles(c)'
  BY <1>1, <1>3 DEF SeesFiles, SameFiles, SameBut
<1>5. Students'
  BY <1>2, <1>3 DEF SeenInv, Students, StudentsAreNotLost, At
<1>6. InTurn'
  BY <1>1, <1>4 DEF SeenInv, InTurn
<1> QED
  BY <1>5, <1>6 DEF SeenInv

(* A stage that begins sees everything. *)
LEMMA BegunSeesAll ==
    ASSUME SeenInv, StagesTypeOK', NEW c \in Containers, NEW s \in Stages, NEW r \in Runs,
           Enter(c, s, r), UNCHANGED <<vol, clobbered>>,
           s = "train" => HasRoom(s) \/ At(c, "train"),
           \/ ~Idle(c) /\ UNCHANGED crowded
           \/ crowded' = (crowded \/ \E b \in Containers : ~Idle(b))
    PROVE  SeenInv'
<1>1. /\ work'[c] = [stage |-> s, run |-> r] /\ view'[c] = vol
      /\ OthersGoOn(c)
  BY DEF Enter, Reloaded, SeenInv, StagesTypeOK, OthersGoOn
<1>2. SeesFiles(c)' /\ SeesStudents(c)'
  BY <1>1 DEF SeesFiles, SeesStudents
<1>3. \A d \in Containers : d # c =>
        /\ Idle(d)' <=> Idle(d)
        /\ At(d, "train")' <=> At(d, "train")
        /\ SeesFiles(d) => SeesFiles(d)'
        /\ SeesStudents(d) => SeesStudents(d)'
  BY <1>1 DEF OthersGoOn, Idle, At, SeesFiles, SeesStudents
<1>4. At(c, "train")' => s = "train"
  BY <1>1 DEF At
<1>5. s = "train" => \A d \in Containers : d # c => ~At(d, "train")
  BY DEF HasRoom, At, SeenInv, Students
<1>6. Students'
  <2>1. \A a, b \in Containers : At(a, "train")' /\ At(b, "train")' => a = b
    BY <1>3, <1>4, <1>5 DEF SeenInv, Students
  <2>2. \A d \in Containers : At(d, "train")' => SeesStudents(d)'
    BY <1>2, <1>3 DEF SeenInv, Students
  <2> QED
    BY <2>1, <2>2 DEF SeenInv, Students, StudentsAreNotLost
<1>7. InTurn'
  <2> SUFFICES ASSUME ~crowded'
               PROVE  /\ \A a, b \in Containers : ~Idle(a)' /\ ~Idle(b)' => a = b
                      /\ \A d \in Containers : ~Idle(d)' => SeesFiles(d)'
                      /\ clobbered' = {}
    BY DEF InTurn
  <2>1. ~crowded /\ \A d \in Containers : d # c => Idle(d)
    <3>1. CASE ~Idle(c) /\ UNCHANGED crowded
      BY <3>1 DEF SeenInv, InTurn
    <3>2. CASE crowded' = (crowded \/ \E b \in Containers : ~Idle(b))
      BY <3>2, Zenon
    <3> QED
      BY <3>1, <3>2
  <2> QED
    BY <1>2, <1>3, <2>1 DEF SeenInv, InTurn
<1> QED
  BY <1>6, <1>7 DEF SeenInv

-----------------------------------------------------------------------------
(* A commit that replaces what its writer has seen, or a kind of file that  *)
(* is no student, by a container that is done or sees its own file.         *)
LEMMA CommitLosesNothing ==
    ASSUME SeenInv, StagesTypeOK', NEW c \in Containers, ~Idle(c),
           NEW kind \in {"train", "labels", "ckpt", "model", "report"},
           SameBut(kind, vol, vol'),
           \/ clobbered' = clobbered
           \/ kind \notin {"ckpt", "model"} /\ clobbered' = clobbered \cup {kind},
           SeesFiles(c) => clobbered' = clobbered,
           kind \in {"ckpt", "model"} => At(c, "train"),
           UNCHANGED crowded, OthersGoOn(c),
           \/ work'[c] = NULL
           \/ /\ work'[c] = work[c]
              /\ SeesStudents(c) => SeesStudents(c)'
              /\ SeesFiles(c) => SeesFiles(c)'
    PROVE  SeenInv'
<1>1. \A d \in Containers : ~Idle(d)' => ~Idle(d) /\ work'[d] = work[d]
  BY DEF OthersGoOn, Idle
<1>2. \A d \in Containers : At(d, "train")' => At(d, "train")
  BY <1>1 DEF At
<1>3. ASSUME NEW d \in Containers, At(d, "train")' PROVE SeesStudents(d)'
  <2>1. SeesStudents(d) /\ At(d, "train")
    BY <1>2, <1>3 DEF SeenInv, Students
  <2>2. CASE d = c
    BY <1>3, <2>1, <2>2 DEF At, Idle
  <2>3. CASE d # c
    <3>1. kind \notin {"ckpt", "model"}
      BY <2>1, <2>3 DEF SeenInv, Students
    <3>2. vol'.ckpt = vol.ckpt /\ vol'.model = vol.model
      BY <3>1 DEF SameBut
    <3> QED
      BY <2>1, <2>3, <3>2 DEF SeesStudents, OthersGoOn
  <2> QED
    BY <2>2, <2>3
<1>4. Students'
  <2>1. StudentsAreNotLost'
    BY DEF SeenInv, Students, StudentsAreNotLost
  <2> QED
    BY <1>2, <1>3, <2>1 DEF SeenInv, Students
<1>5. InTurn'
  <2> SUFFICES ASSUME ~crowded'
               PROVE  /\ \A a, b \in Containers : ~Idle(a)' /\ ~Idle(b)' => a = b
                      /\ \A d \in Containers : ~Idle(d)' => SeesFiles(d)'
                      /\ clobbered' = {}
    BY DEF InTurn
  <2>1. ~crowded /\ SeesFiles(c) /\ clobbered = {} /\ \A d \in Containers : ~Idle(d) => d = c
    BY DEF SeenInv, InTurn
  <2>2. clobbered' = {}
    BY <2>1
  <2>3. \A d \in Containers : ~Idle(d)' => d = c /\ SeesFiles(d)'
    BY <1>1, <2>1 DEF Idle
  <2> QED
    BY <2>2, <2>3
<1> QED
  BY <1>4, <1>5 DEF SeenInv

LEMMA AnswerGoesOn ==
    ASSUME StagesTypeOK, NEW c \in Containers, NEW step, NEW retry, Answer(c, step, retry)
    PROVE  work'[c] = NULL /\ OthersGoOn(c)
  BY DEF Answer, StagesTypeOK, OthersGoOn

(* The commits, by kind. *)
LEMMA FinalCommitKeeps ==
    ASSUME SeenInv, StagesTypeOK', NEW c \in Containers, Prep(c) \/ TrainEnds(c) \/ Evaluate(c)
    PROVE  SeenInv'
<1> DEFINE r == work[c].run
<1>1. /\ StagesTypeOK /\ vol \in Volume /\ ~Idle(c)
      /\ Answer(c, After(work[c].stage), FALSE) /\ UNCHANGED crowded
  BY DEF SeenInv, StagesTypeOK, Prep, TrainEnds, Evaluate, At, Return
<1>2. work'[c] = NULL /\ OthersGoOn(c)
  BY <1>1, AnswerGoesOn
<1>3. CASE Prep(c) /\ NoCommit
  <2>1. SameFiles /\ UNCHANGED clobbered
    BY <1>3 DEF NoCommit, SameFiles, SameBut
  <2> QED
    BY <1>1, <1>2, <2>1, NothingLost DEF OthersGoOn
<1>4. CASE Commit(c, "train", r, view[c].corpus)
  <2>1. SameBut("train", vol, vol')
    BY <1>1, <1>4, Replaced DEF Commit
  <2>2. /\ clobbered' = clobbered \/ clobbered' = clobbered \cup {"train"}
        /\ SeesFiles(c) => clobbered' = clobbered
    BY <1>4 DEF Commit, SeesFiles
  <2> QED
    BY <1>1, <1>2, <2>1, <2>2, CommitLosesNothing
<1>5. CASE TrainEnds(c)
  <2> DEFINE file == Student(view[c], r)
  <2>1. Commit(c, "model", r, file) /\ At(c, "train")
    BY <1>5 DEF TrainEnds
  <2>2. SameBut("model", vol, vol')
    BY <1>1, <2>1, Replaced DEF Commit
  <2>3. SeesStudents(c)
    BY <2>1 DEF SeenInv, Students
  <2>4. clobbered' = clobbered
    BY <2>1, <2>3 DEF Commit, SeesStudents
  <2> QED
    BY <1>1, <1>2, <2>1, <2>2, <2>4, CommitLosesNothing
<1>6. CASE Evaluate(c)
  <2>1. PICK file : Commit(c, "report", r, file)
    BY <1>6 DEF Evaluate
  <2>2. SameBut("report", vol, vol')
    BY <1>1, <2>1, Replaced DEF Commit
  <2>3. /\ clobbered' = clobbered \/ clobbered' = clobbered \cup {"report"}
        /\ SeesFiles(c) => clobbered' = clobbered
    BY <2>1 DEF Commit, SeesFiles
  <2> QED
    BY <1>1, <1>2, <2>2, <2>3, CommitLosesNothing
<1> QED
  BY <1>3, <1>4, <1>5, <1>6 DEF Prep

LEMMA LabelWindowKeeps ==
    ASSUME SeenInv, StagesTypeOK', NEW c \in Containers, LabelWindow(c)
    PROVE  SeenInv'
<1> DEFINE s == work[c].stage
<1>1. /\ StagesTypeOK /\ vol \in Volume /\ view[c] \in Volume /\ ~Idle(c)
      /\ work' = work /\ UNCHANGED crowded
  BY DEF SeenInv, StagesTypeOK, LabelWindow
<1>2. PICK file : Commit(c, "labels", s, file) /\ Keep(c, "labels", s, file)
  BY DEF LabelWindow
<1>3. vol' = [vol EXCEPT !["labels"][s] = file] /\ SameBut("labels", vol, vol')
  BY <1>1, <1>2, Replaced DEF Commit
<1>4. view' = [view EXCEPT ![c] = [view[c] EXCEPT !["labels"][s] = file]]
  BY <1>1, <1>2 DEF Keep, StagesTypeOK
<1>5. view'[c] = [view[c] EXCEPT !["labels"][s] = file] /\ OthersGoOn(c)
  BY <1>1, <1>4 DEF StagesTypeOK, OthersGoOn
<1>6. /\ SameBut("labels", view[c], view'[c])
      /\ view[c].labels = vol.labels => view'[c].labels = vol'.labels
  <2>1. SameBut("labels", view[c], view'[c])
    BY <1>1, <1>5, Replaced
  <2>2. view[c].labels = vol.labels => view'[c].labels = vol'.labels
    BY <1>1, <1>3, <1>5 DEF Volume
  <2> QED
    BY <2>1, <2>2
<1>7. /\ SeesStudents(c) => SeesStudents(c)'
      /\ SeesFiles(c) => SeesFiles(c)'
  BY <1>3, <1>6 DEF SeesStudents, SeesFiles, SameBut
<1>8. /\ clobbered' = clobbered \/ clobbered' = clobbered \cup {"labels"}
      /\ SeesFiles(c) => clobbered' = clobbered
  BY <1>2 DEF Commit, SeesFiles
<1> QED
  BY <1>1, <1>3, <1>5, <1>7, <1>8, CommitLosesNothing

LEMMA TrainSavesKeeps ==
    ASSUME SeenInv, StagesTypeOK', NEW c \in Containers, TrainSaves(c)
    PROVE  SeenInv'
<1> DEFINE r == work[c].run
<1>1. /\ StagesTypeOK /\ vol \in Volume /\ view[c] \in Volume /\ ~Idle(c)
      /\ At(c, "train") /\ work' = work /\ UNCHANGED crowded
  BY DEF SeenInv, StagesTypeOK, TrainSaves, At
<1>2. PICK file : Commit(c, "ckpt", r, file) /\ Keep(c, "ckpt", r, file)
  BY DEF TrainSaves
<1>3. vol' = [vol EXCEPT !["ckpt"][r] = file] /\ SameBut("ckpt", vol, vol')
  BY <1>1, <1>2, Replaced DEF Commit
<1>4. view' = [view EXCEPT ![c] = [view[c] EXCEPT !["ckpt"][r] = file]]
  BY <1>1, <1>2 DEF Keep, StagesTypeOK
<1>5. view'[c] = [view[c] EXCEPT !["ckpt"][r] = file] /\ OthersGoOn(c)
  BY <1>1, <1>4 DEF StagesTypeOK, OthersGoOn
<1>6. /\ SameBut("ckpt", view[c], view'[c])
      /\ view[c].ckpt = vol.ckpt => view'[c].ckpt = vol'.ckpt
  <2>1. SameBut("ckpt", view[c], view'[c])
    BY <1>1, <1>5, Replaced
  <2>2. view[c].ckpt = vol.ckpt => view'[c].ckpt = vol'.ckpt
    BY <1>1, <1>3, <1>5 DEF Volume
  <2> QED
    BY <2>1, <2>2
<1>7. /\ SeesStudents(c) => SeesStudents(c)'
      /\ SeesFiles(c) => SeesFiles(c)'
  BY <1>3, <1>6 DEF SeesStudents, SeesFiles, SameBut
<1>8. SeesStudents(c)
  BY <1>1 DEF SeenInv, Students
<1>9. clobbered' = clobbered
  BY <1>2, <1>8 DEF Commit, SeesStudents
<1> QED
  BY <1>1, <1>3, <1>5, <1>7, <1>9, CommitLosesNothing

-----------------------------------------------------------------------------
LEMMA SeenInit == Init => SeenInv
<1> SUFFICES ASSUME Init PROVE SeenInv
  OBVIOUS
<1>1. \A c \in Containers : Idle(c)
  BY DEF Init, Idle
<1>2. Students /\ InTurn
  BY <1>1 DEF Init, Students, InTurn, At, StudentsAreNotLost
<1> QED
  BY <1>2, TypesInit DEF SeenInv

LEMMA SeenStep == SeenInv /\ [Next]_vars => SeenInv'
<1> SUFFICES ASSUME SeenInv, [Next]_vars PROVE SeenInv'
  OBVIOUS
<1>0. StagesTypeOK /\ StagesTypeOK'
  BY TypesStep DEF SeenInv
<1>1. ASSUME UNCHANGED <<vol, view, work, clobbered, crowded>> PROVE SeenInv'
  BY <1>0, <1>1, NothingLost DEF SameFiles, SameBut
<1>2. ASSUME NEW r \in Runs, Begin(r) \/ Dies(r) \/ Resume(r) PROVE SeenInv'
  BY <1>1, <1>2 DEF Begin, Dies, Resume
<1>3. ASSUME NEW r \in Runs, NEW c \in Containers, Call(r, c) PROVE SeenInv'
  <2>1. /\ orch[r] \in Stages /\ Enter(c, orch[r], r) /\ UNCHANGED <<vol, clobbered>>
        /\ HasRoom(orch[r])
        /\ crowded' = (crowded \/ \E b \in Containers : ~Idle(b))
    BY <1>3 DEF Call, Alive
  <2> QED
    BY <1>0, <2>1, BegunSeesAll
<1>4. ASSUME NEW c \in Containers, NEW step, NEW retry, Answer(c, step, retry), NoCommit,
             UNCHANGED crowded
      PROVE  SeenInv'
  <2>1. work'[c] = NULL /\ OthersGoOn(c)
    BY <1>0, <1>4, AnswerGoesOn
  <2> QED
    BY <1>0, <1>4, <2>1, NothingLost DEF OthersGoOn, NoCommit, SameFiles, SameBut
<1>5. ASSUME NEW c \in Containers, Prep(c) \/ TrainEnds(c) \/ Evaluate(c) PROVE SeenInv'
  BY <1>0, <1>5, FinalCommitKeeps
<1>6. ASSUME NEW c \in Containers, LabelWindow(c) \/ TrainSaves(c) PROVE SeenInv'
  BY <1>0, <1>6, LabelWindowKeeps, TrainSavesKeeps
<1>7. ASSUME NEW c \in Containers, LabelEnds(c) \/ Unfit(c) \/ Raises(c) PROVE SeenInv'
  BY <1>4, <1>7 DEF LabelEnds, Unfit, Raises, Return
<1>8. ASSUME NEW c \in Containers, TimesOut(c) PROVE SeenInv'
  BY <1>4, <1>8 DEF TimesOut, OnTimeout
<1>9. ASSUME NEW c \in Containers, Preempted(c) PROVE SeenInv'
  <2>1. /\ work[c].stage \in Stages /\ work[c].run \in Runs /\ ~Idle(c)
        /\ Enter(c, work[c].stage, work[c].run)
        /\ UNCHANGED <<vol, clobbered, crowded>>
        /\ work[c].stage = "train" => At(c, "train")
    BY <1>0, <1>9, Busy DEF Preempted, At
  <2> QED
    BY <1>0, <2>1, BegunSeesAll
<1>10. ASSUME NEW i \in Items, Ingest(i) PROVE SeenInv'
  <2>1. SameFiles
    BY <1>0, <1>10 DEF Ingest, StagesTypeOK, Volume, SameFiles, SameBut
  <2> QED
    BY <1>0, <1>10, <2>1, NothingLost DEF Ingest
<1>11. CASE UNCHANGED vars
  BY <1>1, <1>11 DEF vars
<1> QED
  BY <1>2, <1>3, <1>5, <1>6, <1>7, <1>8, <1>9, <1>10, <1>11 DEF Next

(***************************************************************************)
(* The one call of train sees all checkpoints and students there are, and  *)
(* while stages run one at a time, the one at work sees all files.         *)
(***************************************************************************)
THEOREM SeenInvariant == Spec => []SeenInv
<1> QED
  BY SeenInit, SeenStep, PTL DEF Spec

(***************************************************************************)
(* No checkpoint and no student is overwritten unseen, whatever dies, is   *)
(* taken over or overlaps: max_containers=1 is enough                      *)
(* (modal_app.py:373-374).                                                 *)
(***************************************************************************)
THEOREM StagesKeepStudents == Spec => []StudentsAreNotLost
<1>1. SeenInv => StudentsAreNotLost
  BY DEF SeenInv, Students
<1> QED
  BY <1>1, SeenInvariant, PTL

(***************************************************************************)
(* While stages run one at a time, in whatever containers and after        *)
(* whatever deaths, no commit replaces what its writer has not seen: that  *)
(* is what reloading at the beginning of each stage does                   *)
(* (modal_app.py:261-262).                                                 *)
(***************************************************************************)
THEOREM StagesInTurn == Spec => []StagesInTurnLoseNothing
<1>1. SeenInv => StagesInTurnLoseNothing
  BY DEF SeenInv, InTurn, StagesInTurnLoseNothing
<1> QED
  BY <1>1, SeenInvariant, PTL
-----------------------------------------------------------------------------
(***************************************************************************)
(* What the gate scores.  Unless a labels file or a training set was lost, *)
(* both only grow: every container's view of them is an earlier one        *)
(* (Before).  Once all of a run's training set is labelled (Full) its      *)
(* joins, and so its holdout, are the same in every later view; and        *)
(* run_pipeline calls train and evaluate only then (ReadyFor).             *)
(***************************************************************************)
Lost == clobbered \cap {"train", "labels"} # {}

Before(v, w) ==
    /\ \A r \in Runs : v.train[r] # NULL => w.train[r] = v.train[r]
    /\ \A s \in Labelers, i \in Items : v.labels[s][i] <= w.labels[s][i]

AllLabeled(v, r, s) == v.train[r] # NULL /\ v.train[r] \subseteq Labeled(v, s)
Full(v, r) == \A s \in Labelers : AllLabeled(v, r, s)

(* The call an orchestrator waits for is the one it is at. *)
Called(r) ==
    waits[r] # NULL =>
      orch[r] \in Stages /\ work[waits[r]] = [stage |-> orch[r], run |-> r]

ReadyFor(w, r, step) ==
    /\ step \in Labelers \cup {"train", "evaluate"} => w.train[r] # NULL
    /\ step = "label_aspects" => AllLabeled(w, r, "label")
    /\ step \in {"train", "evaluate"} => Full(w, r)

(* What a container sees and lists suffices for its stage. *)
Knows(c) ==
    ~Idle(c) =>
      /\ work[c].stage \in Labelers /\ view[c].train[work[c].run] # NULL =>
           view[c].train[work[c].run] \ Labeled(view[c], work[c].stage) \subseteq todo[c]
      /\ work[c].stage \in {"train", "evaluate"} => Full(view[c], work[c].run)

(* Some of the rows that a run is trained on, now and later. *)
Learned(w, rows, r) == rows # {} => Full(w, r) /\ rows \subseteq Trained(w, r)

(* The students on v have learned no more than the volume w is for. *)
Taught(w, v) ==
    \A r \in Runs :
      Learned(w, v.ckpt[r], r) /\ (v.model[r] # NULL => Learned(w, v.model[r], r))

Scored(w) ==
    \A r \in Runs : w.report[r] # NULL =>
      /\ Full(w, r) /\ w.report[r].held = Held(w, r)
      /\ Learned(w, w.report[r].model, r)

Follows(c) == Before(view[c], vol) /\ Taught(vol, view[c]) /\ Knows(c)

Gate ==
    /\ \A c \in Containers : Follows(c)
    /\ Taught(vol, vol) /\ Scored(vol)
    /\ \A r \in Runs : ReadyFor(vol, r, orch[r])

GateInv == LabelsInv /\ (\A r \in Runs : Called(r)) /\ (Lost \/ Gate)

-----------------------------------------------------------------------------
LEMMA LabelersAre ==
    /\ "label" \in Labelers /\ Labelers \subseteq {"label", "label_aspects"}
    /\ Labelers \cap {"train", "evaluate", "prep"} = {}
  BY StagesAssumption

LEMMA BeforeIsTransitive ==
    ASSUME NEW u \in Volume, NEW v \in Volume, NEW w \in Volume, Before(u, v), Before(v, w)
    PROVE  Before(u, w)
<1>1. ASSUME NEW s \in Labelers, NEW i \in Items PROVE u.labels[s][i] <= w.labels[s][i]
  <2>1. u.labels[s][i] \in Nat /\ v.labels[s][i] \in Nat /\ w.labels[s][i] \in Nat
    BY <1>1, VolumeParts
  <2>2. u.labels[s][i] <= v.labels[s][i] /\ v.labels[s][i] <= w.labels[s][i]
    BY DEF Before
  <2> QED
    BY <2>1, <2>2
<1>2. \A r \in Runs : u.train[r] # NULL => w.train[r] = u.train[r]
  BY DEF Before
<1> QED
  BY <1>1, <1>2 DEF Before

LEMMA FirstIsBefore ==
    ASSUME NEW v \in Volume PROVE Before(FirstVolume, v)
<1>1. ASSUME NEW s \in Labelers, NEW i \in Items PROVE FirstVolume.labels[s][i] <= v.labels[s][i]
  <2>1. v.labels[s][i] \in Nat
    BY VolumeParts
  <2>2. FirstVolume.labels[s][i] = 0
    BY DEF FirstVolume
  <2> QED
    BY <2>1, <2>2
<1>2. \A r \in Runs : FirstVolume.train[r] = NULL
  BY DEF FirstVolume
<1> QED
  BY <1>1, <1>2 DEF Before

(***************************************************************************)
(* A training set that is all labelled stays so, with the same joins: no   *)
(* later label can add a row to them.                                      *)
(***************************************************************************)
LEMMA SameRows ==
    ASSUME NEW v \in Volume, NEW w \in Volume, Before(v, w), Unique(w), NEW r \in Runs
    PROVE  /\ \A s \in Labelers : AllLabeled(v, r, s) => AllLabeled(w, r, s)
           /\ Full(v, r) => /\ Full(w, r)
                            /\ Trained(w, r) = Trained(v, r) /\ Held(w, r) = Held(v, r)
<1>1. ASSUME NEW s \in Labelers, AllLabeled(v, r, s)
      PROVE  AllLabeled(w, r, s) /\ Joined(w, r, s) = Joined(v, r, s)
  <2>1. v.train[r] # NULL /\ w.train[r] = v.train[r] /\ v.train[r] \subseteq Items
    BY <1>1, VolumeParts DEF AllLabeled, Before
  <2>2. ASSUME NEW i \in v.train[r] PROVE v.labels[s][i] = 1 /\ w.labels[s][i] = 1
    <3>1. i \in Items /\ v.labels[s][i] > 0
      BY <1>1, <2>1, <2>2 DEF AllLabeled, Labeled
    <3>2. v.labels[s][i] \in Nat /\ w.labels[s][i] \in Nat
      BY <3>1, VolumeParts
    <3>3. v.labels[s][i] <= w.labels[s][i] /\ w.labels[s][i] <= 1
      BY <3>1 DEF Before, Unique
    <3> QED
      BY <3>1, <3>2, <3>3
  <2>3. AllLabeled(w, r, s)
    BY <2>1, <2>2 DEF AllLabeled, Labeled
  <2>4. Joined(w, r, s) = Joined(v, r, s)
    <3>1. \A i \in v.train[r] : {i} \X (1..w.labels[s][i]) = {i} \X (1..v.labels[s][i])
      BY <2>2
    <3> QED
      BY <2>1, <3>1 DEF Joined
  <2> QED
    BY <2>3, <2>4
<1>2. ASSUME Full(v, r)
      PROVE  Full(w, r) /\ Trained(w, r) = Trained(v, r) /\ Held(w, r) = Held(v, r)
  <2>1. \A s \in Labelers : AllLabeled(w, r, s) /\ Joined(w, r, s) = Joined(v, r, s)
    BY <1>1, <1>2 DEF Full
  <2>2. Full(w, r)
    BY <2>1 DEF Full
  <2>3. Trained(w, r) = Trained(v, r)
    BY <2>1 DEF Trained
  <2>4. Held(w, r) = Held(v, r)
    BY <2>1 DEF Held
  <2> QED
    BY <2>2, <2>3, <2>4
<1> QED
  BY <1>1, <1>2

(* With one label each, no document is on both sides of a join. *)
LEMMA HeldApart ==
    ASSUME NEW v \in Volume, Unique(v), NEW r \in Runs, v.train[r] # NULL
    PROVE  Held(v, r) \cap Trained(v, r) = {}
<1>1. ASSUME NEW s \in Labelers, NEW x \in Joined(v, r, s) PROVE x = <<x[1], 1>>
  <2>1. v.train[r] \subseteq Items
    BY VolumeParts
  <2>2. PICK i \in v.train[r] : x \in {i} \X (1..v.labels[s][i])
    BY <1>1 DEF Joined
  <2>3. v.labels[s][i] \in Nat /\ v.labels[s][i] <= 1
    BY <2>1, VolumeParts DEF Unique
  <2>4. x[2] \in 1..v.labels[s][i] /\ x = <<x[1], x[2]>>
    BY <2>2
  <2> QED
    BY <2>3, <2>4
<1> SUFFICES ASSUME NEW s \in Labelers, NEW x \in Tail(Joined(v, r, s)),
                    NEW t \in Labelers, NEW y \in Joined(v, r, t) \ Tail(Joined(v, r, t)),
                    <<s, x[1]>> = <<t, y[1]>>
             PROVE  FALSE
  BY DEF Held, Trained
<1>2. x \in Joined(v, r, s)
  BY DEF Tail
<1>3. s = t /\ x[1] = y[1]
  OBVIOUS
<1>4. x = y
  BY <1>1, <1>2, <1>3
<1> QED
  BY <1>3, <1>4

-----------------------------------------------------------------------------
(* While files only grow, nothing that was learned, scored or ready is lost. *)
LEMMA Kept ==
    ASSUME NEW v \in Volume, NEW w \in Volume, Before(v, w), Unique(w)
    PROVE  /\ \A r \in Runs : \A rows : Learned(v, rows, r) => Learned(w, rows, r)
           /\ \A x : Taught(v, x) => Taught(w, x)
           /\ w.report = v.report => (Scored(v) => Scored(w))
           /\ \A r \in Runs : \A step : ReadyFor(v, r, step) => ReadyFor(w, r, step)
<1>1. \A r \in Runs : \A rows : Learned(v, rows, r) => Learned(w, rows, r)
  BY SameRows DEF Learned
<1>2. \A x : Taught(v, x) => Taught(w, x)
  BY <1>1 DEF Taught
<1>3. w.report = v.report => (Scored(v) => Scored(w))
  <2> SUFFICES ASSUME w.report = v.report, Scored(v), NEW r \in Runs, w.report[r] # NULL
               PROVE  /\ Full(w, r) /\ w.report[r].held = Held(w, r)
                      /\ Learned(w, w.report[r].model, r)
    BY DEF Scored
  <2>1. /\ Full(v, r) /\ v.report[r].held = Held(v, r)
        /\ Learned(v, v.report[r].model, r)
    BY DEF Scored
  <2> QED
    BY <1>1, <2>1, SameRows
<1>4. ASSUME NEW r \in Runs, NEW step, ReadyFor(v, r, step) PROVE ReadyFor(w, r, step)
  <2>1. v.train[r] # NULL => w.train[r] # NULL
    BY DEF Before
  <2>2. AllLabeled(v, r, "label") => AllLabeled(w, r, "label")
    BY SameRows, LabelersAre
  <2>3. Full(v, r) => Full(w, r)
    BY SameRows
  <2> QED
    BY <1>4, <2>1, <2>2, <2>3 DEF ReadyFor
<1> QED
  BY <1>1, <1>2, <1>3, <1>4

(* Where run_pipeline calls nothing that needs a label, nothing is needed. *)
LEMMA NothingNeeded ==
    ASSUME NEW w, NEW r, NEW step \in {"none", "prep", "returned", "raised", "dead"}
    PROVE  ReadyFor(w, r, step)
  BY LabelersAre DEF ReadyFor

(* And after a stage that did its work, the next can begin. *)
LEMMA ReadyForNext ==
    ASSUME NEW s \in Stages, NEW w, NEW r, ReadyFor(w, r, s),
           s = "prep" => w.train[r] # NULL,
           s \in Labelers => AllLabeled(w, r, s)
    PROVE  ReadyFor(w, r, After(s))
<1>1. CASE s = "prep"
  BY <1>1, LabelersAre DEF ReadyFor, After
<1>2. CASE s = "label"
  <2>1. AllLabeled(w, r, "label") /\ w.train[r] # NULL
    BY <1>2, LabelersAre DEF AllLabeled
  <2>2. CASE "label_aspects" \in Labelers
    <3>1. After(s) = "label_aspects"
      BY <1>2, <2>2 DEF After
    <3> QED
      BY <2>1, <3>1 DEF ReadyFor
  <2>3. CASE "label_aspects" \notin Labelers
    <3>1. After(s) = "train"
      BY <1>2, <2>3 DEF After
    <3>2. Full(w, r)
      BY <2>1, <2>3, LabelersAre DEF Full
    <3> QED
      BY <2>1, <3>1, <3>2 DEF ReadyFor
  <2> QED
    BY <2>2, <2>3
<1>3. CASE s = "label_aspects"
  <2>1. After(s) = "train"
    BY <1>3 DEF After
  <2>2. s \in Labelers
    BY <1>3 DEF Stages
  <2>3. Full(w, r) /\ w.train[r] # NULL
    BY <1>3, <2>2, LabelersAre DEF Full, ReadyFor
  <2> QED
    BY <2>1, <2>3 DEF ReadyFor
<1>4. CASE s = "train"
  <2>1. After(s) = "evaluate"
    BY <1>4 DEF After
  <2> QED
    BY <1>4, <2>1 DEF ReadyFor
<1>5. CASE s = "evaluate"
  <2>1. After(s) = "returned"
    BY <1>5 DEF After
  <2> QED
    BY <2>1, NothingNeeded
<1> QED
  BY <1>1, <1>2, <1>3, <1>4, <1>5, LabelersAre DEF Stages

(***************************************************************************)
(* An idle container knows nothing, and nothing of it is wrong.            *)
(***************************************************************************)
LEMMA Fresh ==
    ASSUME NEW w \in Volume
    PROVE  Before(FirstVolume, w) /\ Taught(w, FirstVolume)
<1>1. Taught(w, FirstVolume)
  BY DEF Taught, Learned, FirstVolume
<1> QED
  BY <1>1, FirstIsBefore

(* Files that only grow, containers that go on or stop, or are shown to     *)
(* follow: the gate holds if what was committed is right and no             *)
(* orchestrator went too far.                                               *)
LEMMA Progress ==
    ASSUME LabelsInv, LabelsInv', Gate, Before(vol, vol'),
           \A c \in Containers :
             \/ work'[c] = NULL /\ view'[c] = FirstVolume
             \/ work'[c] = work[c] /\ view'[c] = view[c] /\ todo'[c] = todo[c]
             \/ Follows(c)',
           Taught(vol', vol'), Scored(vol'),
           \A r \in Runs : ReadyFor(vol', r, orch'[r])
    PROVE  Gate'
<1>1. vol \in Volume /\ vol' \in Volume /\ Unique(vol')
  BY DEF LabelsInv, StagesTypeOK
<1>2. ASSUME NEW c \in Containers PROVE Follows(c)'
  <2>1. CASE work'[c] = NULL /\ view'[c] = FirstVolume
    BY <1>1, <2>1, Fresh DEF Follows, Knows, Idle
  <2>2. CASE work'[c] = work[c] /\ view'[c] = view[c] /\ todo'[c] = todo[c]
    <3>1. view[c] \in Volume /\ Before(view[c], vol) /\ Taught(vol, view[c]) /\ Knows(c)
      BY DEF Gate, Follows, LabelsInv, StagesTypeOK
    <3>2. Before(view[c], vol')
      BY <1>1, <3>1, BeforeIsTransitive
    <3>3. Taught(vol', view[c])
      BY <1>1, <3>1, Kept
    <3>4. Knows(c)'
      BY <2>2, <3>1 DEF Knows, Idle
    <3> QED
      BY <2>2, <3>2, <3>3, <3>4 DEF Follows
  <2> QED
    BY <2>1, <2>2
<1> QED
  BY <1>2 DEF Gate

-----------------------------------------------------------------------------
(* A call that is over, while files only grow. *)
LEMMA AnswerGate ==
    ASSUME LabelsInv, LabelsInv', Gate, NEW c \in Containers, ~Idle(c),
           NEW step, NEW retry, Answer(c, step, retry),
           Before(vol, vol'), Taught(vol', vol'), Scored(vol'),
           waits[work[c].run] = c => ReadyFor(vol', work[c].run, step)
    PROVE  Gate'
<1>1. StagesTypeOK /\ vol \in Volume /\ vol' \in Volume /\ Unique(vol')
  BY DEF LabelsInv, StagesTypeOK
<1>2. \A d \in Containers :
        \/ work'[d] = NULL /\ view'[d] = FirstVolume
        \/ work'[d] = work[d] /\ view'[d] = view[d] /\ todo'[d] = todo[d]
  BY <1>1 DEF Answer, StagesTypeOK
<1>3. ASSUME NEW r \in Runs PROVE ReadyFor(vol', r, orch'[r])
  <2>1. ReadyFor(vol', r, orch[r])
    BY <1>1, Kept DEF Gate
  <2>2. \/ orch'[r] = orch[r]
        \/ r = work[c].run /\ waits[r] = c /\ orch'[r] = step
    BY <1>1 DEF Answer, StagesTypeOK
  <2> QED
    BY <2>1, <2>2
<1> QED
  BY <1>2, <1>3, Progress

(* A commit of another kind leaves training sets and labels as they are. *)
LEMMA OtherFiles ==
    ASSUME NEW v \in Volume, NEW w \in Volume, w.train = v.train, w.labels = v.labels
    PROVE  Before(v, w)
<1>1. \A s \in Labelers, i \in Items : v.labels[s][i] <= v.labels[s][i]
  BY VolumeParts
<1> QED
  BY <1>1 DEF Before

(* And one that commits nothing: the stage raised, timed out or is done. *)
LEMMA NoCommitGate ==
    ASSUME LabelsInv, LabelsInv', Gate, NEW c \in Containers, ~Idle(c), NoCommit,
           NEW step, NEW retry, Answer(c, step, retry),
           waits[work[c].run] = c => ReadyFor(vol, work[c].run, step)
    PROVE  Gate'
<1>1. vol' = vol /\ vol \in Volume
  BY DEF NoCommit, LabelsInv, StagesTypeOK
<1>2. Before(vol, vol')
  BY <1>1, OtherFiles
<1>3. Taught(vol', vol') /\ Scored(vol')
  BY <1>1 DEF Gate
<1> QED
  BY <1>1, <1>2, <1>3, AnswerGate

(* The orchestrator that waits for c is where it called c. *)
LEMMA WaitsWhereItIs ==
    ASSUME Gate, NEW c \in Containers, ~Idle(c), Called(work[c].run), work[c].run \in Runs,
           waits[work[c].run] = c
    PROVE  work[c].stage \in Stages /\ ReadyFor(vol, work[c].run, work[c].stage)
<1>1. orch[work[c].run] \in Stages /\ work[c].stage = orch[work[c].run]
  BY StagesAssumption DEF Called
<1> QED
  BY <1>1 DEF Gate

-----------------------------------------------------------------------------
LEMMA PrepGate ==
    ASSUME LabelsInv, LabelsInv', Gate, NEW c \in Containers, Prep(c), ~Lost',
           Called(work[c].run)
    PROVE  Gate'
<1> DEFINE r == work[c].run
<1>1. /\ ~Idle(c) /\ work[c].stage = "prep" /\ r \in Runs
      /\ vol \in Volume /\ vol' \in Volume /\ view[c] \in Volume /\ Unique(vol')
      /\ Answer(c, After("prep"), FALSE)
  BY Busy DEF Prep, At, Return, LabelsInv, StagesTypeOK
<1>2. Follows(c)
  BY DEF Gate
<1>3. CASE Built(view[c], r) /\ NoCommit
  <2>1. vol.train[r] # NULL
    BY <1>1, <1>2, <1>3 DEF Follows, Before, Built
  <2>2. waits[r] = c => ReadyFor(vol, r, After("prep"))
    <3>1. "prep" \in Stages /\ "prep" \notin Labelers /\ ReadyFor(vol, r, "prep")
      BY LabelersAre, NothingNeeded DEF Stages
    <3> QED
      BY <2>1, <3>1, ReadyForNext
  <2> QED
    BY <1>1, <1>3, <2>2, NoCommitGate
<1>4. CASE ~Built(view[c], r) /\ Commit(c, "train", r, view[c].corpus)
  <2>1. vol' = [vol EXCEPT !["train"][r] = view[c].corpus] /\ SameBut("train", vol, vol')
    BY <1>1, <1>4, Replaced DEF Commit
  <2>2. vol.train[r] = NULL
    BY <1>4 DEF Lost, Commit, Built
  <2>3. vol'.train = [vol.train EXCEPT ![r] = view[c].corpus]
    BY <1>1, <2>1 DEF Volume
  <2>4. vol'.train[r] # NULL /\ \A q \in Runs : vol.train[q] # NULL => vol'.train[q] = vol.train[q]
    <3>1. vol.train \in [Runs -> (SUBSET Items) \cup {NULL}] /\ view[c].corpus \in SUBSET Items
      BY <1>1, VolumeParts
    <3>2. view[c].corpus # NULL
      BY <3>1, NullAssumption
    <3> QED
      BY <1>1, <2>2, <2>3, <3>1, <3>2
  <2>5. Before(vol, vol')
    <3>1. Before(vol, vol)
      BY <1>1, OtherFiles
    <3> QED
      BY <2>1, <2>4, <3>1 DEF Before, SameBut
  <2>6. Taught(vol', vol') /\ Scored(vol')
    <3>1. Taught(vol', vol) /\ Scored(vol')
      BY <1>1, <2>1, <2>5, Kept DEF Gate, SameBut
    <3> QED
      BY <2>1, <3>1 DEF Taught, SameBut
  <2>7. ReadyFor(vol', r, After("prep"))
    <3>1. "prep" \in Stages /\ "prep" \notin Labelers /\ ReadyFor(vol', r, "prep")
      BY LabelersAre, NothingNeeded DEF Stages
    <3> QED
      BY <2>4, <3>1, ReadyForNext
  <2> QED
    BY <1>1, <2>5, <2>6, <2>7, AnswerGate
<1> QED
  BY <1>3, <1>4 DEF Prep

(* A labelling stage ends when all that it saw is labelled. *)
LEMMA LabelEndsGate ==
    ASSUME LabelsInv, LabelsInv', Gate, NEW c \in Containers, LabelEnds(c),
           Called(work[c].run)
    PROVE  Gate'
<1> DEFINE r == work[c].run
           s == work[c].stage
<1>1. /\ ~Idle(c) /\ r \in Runs /\ s \in Labelers /\ NoCommit
      /\ vol \in Volume /\ view[c] \in Volume /\ Unique(vol)
      /\ Answer(c, After(s), FALSE)
  BY Busy DEF LabelEnds, Return, LabelsInv, StagesTypeOK
<1>2. Follows(c)
  BY DEF Gate
<1>3. AllLabeled(view[c], r, s)
  BY <1>1, <1>2 DEF LabelEnds, Follows, Knows, AllLabeled
<1>4. AllLabeled(vol, r, s)
  BY <1>1, <1>2, <1>3, SameRows DEF Follows
<1>5. ASSUME waits[r] = c PROVE ReadyFor(vol, r, After(s))
  <2>1. s \in Stages /\ ReadyFor(vol, r, s)
    BY <1>1, <1>5, WaitsWhereItIs
  <2>2. s # "prep"
    BY <1>1, LabelersAre
  <2> QED
    BY <1>4, <2>1, <2>2, ReadyForNext
<1> QED
  BY <1>1, <1>5, NoCommitGate

(* The student of a call of train has learned rows of the training set. *)
LEMMA StudentLearns ==
    ASSUME LabelsInv, NEW c \in Containers, Follows(c), At(c, "train")
    PROVE  /\ Full(vol, work[c].run)
           /\ Learned(vol, Student(view[c], work[c].run), work[c].run)
<1> DEFINE r == work[c].run
<1>1. r \in Runs /\ vol \in Volume /\ view[c] \in Volume /\ Unique(vol)
  BY Busy DEF At, LabelsInv, StagesTypeOK
<1>2. Full(view[c], r) /\ Before(view[c], vol) /\ Learned(vol, view[c].ckpt[r], r)
  BY <1>1 DEF Follows, Knows, At, Taught
<1>3. Full(vol, r) /\ Trained(vol, r) = Trained(view[c], r)
  BY <1>1, <1>2, SameRows
<1> QED
  BY <1>2, <1>3 DEF Learned, Student

LEMMA TrainEndsGate ==
    ASSUME LabelsInv, LabelsInv', Gate, NEW c \in Containers, TrainEnds(c),
           Called(work[c].run)
    PROVE  Gate'
<1> DEFINE r == work[c].run
           file == Student(view[c], r)
<1>1. /\ ~Idle(c) /\ At(c, "train") /\ work[c].stage = "train" /\ r \in Runs
      /\ vol \in Volume /\ vol' \in Volume /\ Unique(vol')
      /\ Answer(c, After("train"), FALSE)
  BY Busy DEF TrainEnds, At, Return, LabelsInv, StagesTypeOK
<1>2. Learned(vol, file, r)
  BY <1>1, StudentLearns DEF Gate
<1>3. vol' = [vol EXCEPT !["model"][r] = file] /\ SameBut("model", vol, vol')
  BY <1>1, Replaced DEF TrainEnds, Commit
<1>4. vol'.model = [vol.model EXCEPT ![r] = file]
  BY <1>1, <1>3 DEF Volume
<1>5. Before(vol, vol')
  BY <1>1, <1>3, OtherFiles DEF SameBut
<1>6. Taught(vol', vol) /\ Scored(vol') /\ Learned(vol', file, r)
  <2>1. vol'.report = vol.report
    BY <1>3 DEF SameBut
  <2>2. Taught(vol, vol) /\ Scored(vol)
    BY DEF Gate
  <2> HIDE DEF file
  <2>3. Taught(vol', vol) /\ Scored(vol')
    BY <1>1, <1>5, <2>1, <2>2, Kept
  <2>4. Learned(vol', file, r)
    BY <1>1, <1>2, <1>5, Kept
  <2> QED
    BY <2>3, <2>4
<1>7. Taught(vol', vol')
  <2>1. vol'.ckpt = vol.ckpt
    BY <1>3 DEF SameBut
  <2>2. \A q \in Runs : vol'.model[q] = IF q = r THEN file ELSE vol.model[q]
    BY <1>1, <1>4, VolumeParts
  <2> QED
    BY <1>6, <2>1, <2>2 DEF Taught
<1>8. waits[r] = c => ReadyFor(vol', r, After("train"))
  <2> SUFFICES ASSUME waits[r] = c PROVE ReadyFor(vol', r, After("train"))
    OBVIOUS
  <2>1. "train" \in Stages /\ ReadyFor(vol', r, "train")
    BY <1>1, <1>5, WaitsWhereItIs, Kept
  <2> QED
    BY <2>1, LabelersAre, ReadyForNext
<1> QED
  BY <1>1, <1>5, <1>6, <1>7, <1>8, AnswerGate

LEMMA EvaluateGate ==
    ASSUME LabelsInv, LabelsInv', Gate, NEW c \in Containers, Evaluate(c),
           Called(work[c].run)
    PROVE  Gate'
<1> DEFINE r == work[c].run
           file == [held |-> Held(view[c], r), model |-> view[c].model[r]]
<1>1. /\ ~Idle(c) /\ work[c].stage = "evaluate" /\ r \in Runs
      /\ vol \in Volume /\ vol' \in Volume /\ view[c] \in Volume
      /\ Unique(vol) /\ Unique(vol')
      /\ view[c].model[r] # NULL /\ Commit(c, "report", r, file)
      /\ Answer(c, After("evaluate"), FALSE)
  BY Busy DEF Evaluate, At, Return, LabelsInv, StagesTypeOK
<1>2. Full(view[c], r) /\ Before(view[c], vol) /\ Learned(vol, view[c].model[r], r)
  BY <1>1 DEF Gate, Follows, Knows, Taught
<1>3. vol' = [vol EXCEPT !["report"][r] = file] /\ SameBut("report", vol, vol')
  BY <1>1, Replaced DEF Commit
<1>4. vol'.report = [vol.report EXCEPT ![r] = file]
  BY <1>1, <1>3 DEF Volume
<1>5. Before(vol, vol') /\ Before(view[c], vol')
  <2>1. Before(vol, vol')
    BY <1>1, <1>3, OtherFiles DEF SameBut
  <2> QED
    BY <1>1, <1>2, <2>1, BeforeIsTransitive
<1>6. Taught(vol', vol')
  <2>1. Taught(vol', vol)
    BY <1>1, <1>5, Kept DEF Gate
  <2> QED
    BY <1>3, <2>1 DEF Taught, SameBut
<1>7. Scored(vol')
  <2> SUFFICES ASSUME NEW q \in Runs, vol'.report[q] # NULL
               PROVE  /\ Full(vol', q) /\ vol'.report[q].held = Held(vol', q)
                      /\ Learned(vol', vol'.report[q].model, q)
    BY DEF Scored
  <2>1. vol'.report[q] = IF q = r THEN file ELSE vol.report[q]
    BY <1>1, <1>4, VolumeParts
  <2>2. CASE q = r
    <3>1. Full(vol', r) /\ Held(vol', r) = Held(view[c], r)
      BY <1>1, <1>2, <1>5, SameRows
    <3>2. Learned(vol', view[c].model[r], r)
      BY <1>1, <1>2, <1>5, Kept
    <3> QED
      BY <2>1, <2>2, <3>1, <3>2
  <2>3. CASE q # r
    <3>1. /\ Full(vol, q) /\ vol.report[q].held = Held(vol, q)
          /\ Learned(vol, vol.report[q].model, q)
      BY <2>1, <2>3 DEF Gate, Scored
    <3>2. Full(vol', q) /\ Held(vol', q) = Held(vol, q)
      BY <1>1, <1>5, <3>1, SameRows
    <3>3. Learned(vol', vol.report[q].model, q)
      BY <1>1, <1>5, <3>1, Kept
    <3> QED
      BY <2>1, <2>3, <3>1, <3>2, <3>3
  <2> QED
    BY <2>2, <2>3
<1>8. waits[r] = c => ReadyFor(vol', r, After("evaluate"))
  <2>1. After("evaluate") = "returned"
    BY DEF After
  <2> QED
    BY <2>1, NothingNeeded
<1> QED
  BY <1>1, <1>5, <1>6, <1>7, <1>8, AnswerGate

-----------------------------------------------------------------------------
(* A window is lost to nobody, and nobody's is lost to it: the file grows.  *)
LEMMA LabelWindowGate ==
    ASSUME LabelsInv, LabelsInv', Gate, NEW c \in Containers, LabelWindow(c), ~Lost'
    PROVE  Gate'
<1> DEFINE s == work[c].stage
           r == work[c].run
<1>1. /\ ~Idle(c) /\ s \in Labelers /\ r \in Runs /\ Follows(c)
      /\ vol \in Volume /\ vol' \in Volume /\ Unique(vol')
      /\ view[c] \in Volume /\ view'[c] \in Volume
      /\ work' = work /\ orch' = orch
  BY Busy DEF LabelWindow, Gate, LabelsInv, StagesTypeOK
<1>2. PICK i \in todo[c] :
        /\ Commit(c, "labels", s, Flushed(c, s, i))
        /\ Keep(c, "labels", s, Flushed(c, s, i))
        /\ todo' = [todo EXCEPT ![c] = @ \ {i}]
  BY DEF LabelWindow
<1> DEFINE file == Flushed(c, s, i)
<1>3. i \in Items /\ view[c].labels[s] \in [Items -> Nat] /\ vol.labels[s] = view[c].labels[s]
  <2>1. vol.labels[s] = view[c].labels[s]
    BY <1>2 DEF Lost, Commit
  <2> QED
    BY <1>1, <2>1, VolumeParts DEF LabelsInv, StagesTypeOK
<1>4. /\ file \in [Items -> Nat] /\ file[i] > 0
      /\ \A j \in Items : view[c].labels[s][j] <= file[j]
      /\ \A j \in Items \ {i} : file[j] = view[c].labels[s][j]
  BY <1>3 DEF Flushed
<1>5. /\ vol' = [vol EXCEPT !["labels"][s] = file] /\ SameBut("labels", vol, vol')
      /\ vol'.labels = [vol.labels EXCEPT ![s] = file]
  <2>1. vol' = [vol EXCEPT !["labels"][s] = file]
    BY <1>2 DEF Commit
  <2> HIDE DEF file
  <2>2. SameBut("labels", vol, vol')
    BY <1>1, <2>1, Replaced
  <2>3. vol'.labels = [vol.labels EXCEPT ![s] = file]
    BY <1>1, <1>4, <2>1, CommitTypes
  <2> QED
    BY <2>1, <2>2, <2>3
<1>6. /\ SameBut("labels", view[c], view'[c])
      /\ view'[c].labels = [view[c].labels EXCEPT ![s] = file]
      /\ \A d \in Containers : d # c => view'[d] = view[d] /\ todo'[d] = todo[d]
      /\ todo'[c] = todo[c] \ {i}
  <2>1. view' = [view EXCEPT ![c] = [view[c] EXCEPT !["labels"][s] = file]]
    BY <1>2 DEF Keep, LabelsInv, StagesTypeOK
  <2>2. view'[c] = [view[c] EXCEPT !["labels"][s] = file]
    BY <2>1 DEF LabelsInv, StagesTypeOK
  <2>3. \A d \in Containers : d # c => view'[d] = view[d] /\ todo'[d] = todo[d]
    BY <1>2, <2>1 DEF LabelsInv, StagesTypeOK
  <2>4. todo'[c] = todo[c] \ {i}
    BY <1>2 DEF LabelsInv, StagesTypeOK
  <2> HIDE DEF file
  <2>5. SameBut("labels", view[c], view'[c])
    BY <1>1, <2>2, Replaced
  <2>6. view'[c].labels = [view[c].labels EXCEPT ![s] = file]
    <3>1. ASSUME NEW v \in Volume, NEW t \in Labelers, NEW x \in [Items -> Nat]
          PROVE  [v EXCEPT !["labels"][t] = x].labels = [v.labels EXCEPT ![t] = x]
      BY CommitTypes
    <3>2. view[c] \in Volume /\ s \in Labelers /\ file \in [Items -> Nat]
      BY <1>1, <1>4
    <3> HIDE DEF s
    <3>3. [view[c] EXCEPT !["labels"][s] = file].labels = [view[c].labels EXCEPT ![s] = file]
      BY <3>1, <3>2
    <3> QED
      BY <2>2, <3>3
  <2> QED
    BY <2>3, <2>4, <2>5, <2>6
<1> HIDE DEF file
<1>7. \A t \in Labelers :
        /\ vol'.labels[t] = IF t = s THEN file ELSE vol.labels[t]
        /\ view'[c].labels[t] = IF t = s THEN file ELSE view[c].labels[t]
  BY <1>1, <1>5, <1>6, VolumeParts
<1>8. Before(vol, vol')
  <2>1. Before(vol, vol)
    BY <1>1, OtherFiles
  <2>2. ASSUME NEW t \in Labelers, NEW j \in Items PROVE vol.labels[t][j] <= vol'.labels[t][j]
    BY <1>3, <1>4, <1>7, <2>1 DEF Before
  <2> QED
    BY <1>5, <2>1, <2>2 DEF Before, SameBut
<1>9. Follows(c)'
  <2>1. Before(view'[c], vol')
    <3>1. ASSUME NEW t \in Labelers, NEW j \in Items
          PROVE  view'[c].labels[t][j] <= vol'.labels[t][j]
      <4>1. CASE t = s
        BY <1>4, <1>7, <4>1
      <4>2. CASE t # s
        BY <1>1, <1>7, <4>2 DEF Follows, Before
      <4> QED
        BY <4>1, <4>2
    <3>2. view'[c].train = view[c].train /\ vol'.train = vol.train
      BY <1>5, <1>6 DEF SameBut
    <3> QED
      BY <1>1, <3>1, <3>2 DEF Follows, Before
  <2>2. Taught(vol', view'[c])
    <3>1. Taught(vol', view[c])
      <4>1. Taught(vol, view[c])
        BY <1>1 DEF Follows
      <4> QED
        BY <1>1, <1>8, <4>1, Kept
    <3> QED
      BY <1>6, <3>1 DEF Taught, SameBut
  <2>3. Knows(c)'
    <3>1. view'[c].train = view[c].train
      BY <1>6 DEF SameBut
    <3>2. Labeled(view'[c], s) = Labeled(view[c], s) \cup {i}
      BY <1>1, <1>3, <1>4, <1>7 DEF Labeled
    <3>3. view[c].train[r] # NULL => view[c].train[r] \ Labeled(view[c], s) \subseteq todo[c]
      BY <1>1 DEF Follows, Knows
    <3> QED
      BY <1>1, <1>6, <3>1, <3>2, <3>3, LabelersAre DEF Knows
  <2> QED
    BY <2>1, <2>2, <2>3 DEF Follows
<1>10. Taught(vol', vol') /\ Scored(vol')
  <2>1. Taught(vol', vol) /\ Scored(vol')
    <3>1. vol'.report = vol.report
      BY <1>5 DEF SameBut
    <3> QED
      BY <1>1, <1>8, <3>1, Kept DEF Gate
  <2> QED
    BY <1>5, <2>1 DEF Taught, SameBut
<1>11. \A q \in Runs : ReadyFor(vol', q, orch'[q])
  BY <1>1, <1>8, Kept DEF Gate
<1> QED
  BY <1>1, <1>6, <1>8, <1>9, <1>10, <1>11, Progress

(* A checkpoint: the attempt that continues from it learns its rows too. *)
LEMMA TrainSavesGate ==
    ASSUME LabelsInv, LabelsInv', Gate, NEW c \in Containers, TrainSaves(c)
    PROVE  Gate'
<1> DEFINE r == work[c].run
           file == Student(view[c], r)
<1>1. /\ ~Idle(c) /\ At(c, "train") /\ work[c].stage = "train" /\ r \in Runs /\ Follows(c)
      /\ vol \in Volume /\ vol' \in Volume /\ Unique(vol')
      /\ view[c] \in Volume /\ view'[c] \in Volume
      /\ work' = work /\ orch' = orch /\ todo' = todo
  BY Busy DEF TrainSaves, At, Gate, LabelsInv, StagesTypeOK
<1>2. Commit(c, "ckpt", r, file) /\ Keep(c, "ckpt", r, file) /\ Learned(vol, file, r)
  BY <1>1, StudentLearns DEF TrainSaves
<1> HIDE DEF file
<1>3. vol' = [vol EXCEPT !["ckpt"][r] = file] /\ SameBut("ckpt", vol, vol')
  BY <1>1, <1>2, Replaced DEF Commit
<1>4. vol'.ckpt = [vol.ckpt EXCEPT ![r] = file]
  BY <1>1, <1>3 DEF Volume
<1>5. /\ view'[c] = [view[c] EXCEPT !["ckpt"][r] = file]
      /\ \A d \in Containers : d # c => view'[d] = view[d]
  <2>1. view' = [view EXCEPT ![c] = [view[c] EXCEPT !["ckpt"][r] = file]]
    BY <1>2 DEF Keep, LabelsInv, StagesTypeOK
  <2> QED
    BY <2>1 DEF LabelsInv, StagesTypeOK
<1>6. SameBut("ckpt", view[c], view'[c]) /\ view'[c].ckpt = [view[c].ckpt EXCEPT ![r] = file]
  <2>1. SameBut("ckpt", view[c], view'[c])
    BY <1>1, <1>5, Replaced
  <2>2. view'[c].ckpt = [view[c].ckpt EXCEPT ![r] = file]
    BY <1>1, <1>5 DEF Volume
  <2> QED
    BY <2>1, <2>2
<1>7. Before(vol, vol')
  BY <1>1, <1>3, OtherFiles DEF SameBut
<1>8. Taught(vol', vol) /\ Taught(vol', view[c]) /\ Scored(vol') /\ Learned(vol', file, r)
  <2>1. Taught(vol, vol) /\ Taught(vol, view[c]) /\ Scored(vol) /\ vol'.report = vol.report
    BY <1>1, <1>3 DEF Gate, Follows, SameBut
  <2> QED
    BY <1>1, <1>2, <1>7, <2>1, Kept
<1>9. Taught(vol', vol')
  <2>1. vol'.model = vol.model
    BY <1>3 DEF SameBut
  <2>2. \A q \in Runs : vol'.ckpt[q] = IF q = r THEN file ELSE vol.ckpt[q]
    BY <1>1, <1>4, VolumeParts
  <2> QED
    BY <1>8, <2>1, <2>2 DEF Taught
<1>10. Follows(c)'
  <2>1. Before(view'[c], vol')
    BY <1>1, <1>3, <1>6 DEF Follows, Before, SameBut
  <2>2. Taught(vol', view'[c])
    <3>1. view'[c].model = view[c].model
      BY <1>6 DEF SameBut
    <3>2. \A q \in Runs : view'[c].ckpt[q] = IF q = r THEN file ELSE view[c].ckpt[q]
      BY <1>1, <1>6, VolumeParts
    <3> QED
      BY <1>8, <3>1, <3>2 DEF Taught
  <2>3. Knows(c)'
    <3>1. Before(view[c], view'[c]) /\ Unique(view'[c])
      BY <1>1, <1>6, OtherFiles DEF SameBut, LabelsInv
    <3>2. Full(view[c], r)
      BY <1>1 DEF Follows, Knows
    <3>3. Full(view'[c], r)
      BY <1>1, <3>1, <3>2, SameRows
    <3> QED
      BY <1>1, <3>3, LabelersAre DEF Knows
  <2> QED
    BY <2>1, <2>2, <2>3 DEF Follows
<1>11. \A q \in Runs : ReadyFor(vol', q, orch'[q])
  BY <1>1, <1>7, Kept DEF Gate
<1> QED
  BY <1>1, <1>5, <1>7, <1>8, <1>9, <1>10, <1>11, Progress

(* A stage that begins, or begins again, sees all that there is. *)
LEMMA EnterGate ==
    ASSUME LabelsInv, LabelsInv', Gate, NEW c \in Containers, NEW s \in Stages, NEW r \in Runs,
           Enter(c, s, r), UNCHANGED <<vol, orch>>,
           s \in {"train", "evaluate"} => Full(vol, r)
    PROVE  Gate'
<1>1. /\ work'[c] = [stage |-> s, run |-> r] /\ view'[c] = vol
      /\ todo'[c] = IF s \in Labelers /\ vol.train[r] # NULL
                    THEN vol.train[r] \ Labeled(vol, s) ELSE {}
      /\ \A d \in Containers : d # c =>
           work'[d] = work[d] /\ view'[d] = view[d] /\ todo'[d] = todo[d]
  BY DEF Enter, Reloaded, LabelsInv, StagesTypeOK
<1>2. vol \in Volume /\ Before(vol, vol)
  BY OtherFiles DEF LabelsInv, StagesTypeOK
<1>3. Follows(c)'
  <2>1. Knows(c)'
    BY <1>1 DEF Knows
  <2> QED
    BY <1>1, <1>2, <2>1 DEF Follows, Gate
<1> QED
  BY <1>1, <1>2, <1>3, Progress DEF Gate

-----------------------------------------------------------------------------
(***************************************************************************)
(* The call an orchestrator waits for is executed where it was put, until  *)
(* it answers.                                                             *)
(***************************************************************************)
LEMMA CalledStep ==
    ASSUME StagesTypeOK, \A r \in Runs : Called(r), Next
    PROVE  \A r \in Runs : Called(r)'
<1>0. NULL \notin Containers
  BY StagesAssumption
<1>1. ASSUME NEW r \in Runs, Begin(r) \/ Resume(r) PROVE \A q \in Runs : Called(q)'
  <2> SUFFICES ASSUME NEW q \in Runs, waits'[q] # NULL
               PROVE  orch'[q] \in Stages /\ work'[waits'[q]] = [stage |-> orch'[q], run |-> q]
    BY DEF Called
  <2>1. waits' = waits /\ work' = work /\ orch[q] \in Stages
    BY <1>1 DEF Begin, Resume, Called
  <2>2. q # r
    <3>1. orch[r] \in {"none", "dead"}
      BY <1>1 DEF Begin, Resume
    <3> QED
      BY <2>1, <3>1, LabelersAre, StagesAssumption DEF Stages
  <2>3. orch'[q] = orch[q]
    BY <1>1, <2>2 DEF Begin, Resume, StagesTypeOK
  <2> QED
    BY <2>1, <2>3 DEF Called
<1>2. ASSUME NEW r \in Runs, Dies(r) PROVE \A q \in Runs : Called(q)'
  <2>1. /\ waits'[r] = NULL /\ work' = work
        /\ \A q \in Runs : q # r => waits'[q] = waits[q] /\ orch'[q] = orch[q]
    BY <1>2 DEF Dies, StagesTypeOK
  <2> QED
    BY <2>1 DEF Called
<1>3. ASSUME NEW r \in Runs, NEW c \in Containers, Call(r, c) PROVE \A q \in Runs : Called(q)'
  <2>1. /\ waits'[r] = c /\ work'[c] = [stage |-> orch[r], run |-> r] /\ orch' = orch
        /\ orch[r] \in Stages /\ work[c] = NULL
        /\ \A q \in Runs : q # r => waits'[q] = waits[q]
        /\ \A d \in Containers : d # c => work'[d] = work[d]
    BY <1>3 DEF Call, Enter, Alive, Idle, StagesTypeOK
  <2>2. ASSUME NEW q \in Runs, q # r, waits'[q] # NULL
        PROVE  orch'[q] \in Stages /\ work'[waits'[q]] = [stage |-> orch'[q], run |-> q]
    <3>1. /\ waits[q] \in Containers /\ orch[q] \in Stages
          /\ work[waits[q]] = [stage |-> orch[q], run |-> q]
      BY <2>1, <2>2 DEF Called, StagesTypeOK
    <3>2. waits[q] # c
      <4>1. work[waits[q]] # NULL
        BY <3>1, NullAssumption
      <4> QED
        BY <2>1, <4>1
    <3> QED
      BY <2>1, <2>2, <3>1, <3>2
  <2> QED
    BY <2>1, <2>2 DEF Called
<1>4. ASSUME NEW c \in Containers, ~Idle(c), NEW step, NEW retry, Answer(c, step, retry)
      PROVE  \A q \in Runs : Called(q)'
  <2>1. /\ \A d \in Containers : d # c => work'[d] = work[d]
        /\ work[c].run \in Runs
        /\ waits[work[c].run] = c => waits'[work[c].run] = NULL
        /\ \A q \in Runs : q # work[c].run \/ waits[q] # c =>
             waits'[q] = waits[q] /\ orch'[q] = orch[q]
    BY <1>4, Busy DEF Answer, StagesTypeOK
  <2>2. ASSUME NEW q \in Runs, waits[q] = c PROVE q = work[c].run
    <3>1. work[c] = [stage |-> orch[q], run |-> q]
      BY <1>0, <2>2 DEF Called
    <3> QED
      BY <3>1
  <2>3. ASSUME NEW q \in Runs, waits'[q] # NULL
        PROVE  orch'[q] \in Stages /\ work'[waits'[q]] = [stage |-> orch'[q], run |-> q]
    <3>1. waits[q] # c /\ waits'[q] = waits[q] /\ orch'[q] = orch[q]
      BY <2>1, <2>2, <2>3
    <3>2. waits[q] \in Containers
      BY <2>3, <3>1 DEF StagesTypeOK
    <3> QED
      BY <2>1, <2>3, <3>1, <3>2 DEF Called
  <2> QED
    BY <2>3 DEF Called
<1>5. ASSUME UNCHANGED <<work, orch, waits>> PROVE \A q \in Runs : Called(q)'
  BY <1>5 DEF Called
<1>6. ASSUME NEW c \in Containers, Preempted(c) PROVE \A q \in Runs : Called(q)'
  <2>1. work[c] \in [stage : Stages, run : Runs]
    BY <1>6 DEF Preempted, Idle, StagesTypeOK
  <2>2. work' = [work EXCEPT ![c] = work[c]] /\ UNCHANGED <<orch, waits>>
    BY <1>6, <2>1 DEF Preempted, Enter
  <2>3. work' = work
    BY <2>2 DEF StagesTypeOK
  <2> QED
    BY <1>5, <2>2, <2>3
<1>7. ASSUME NEW c \in Containers,
             \/ Prep(c) \/ LabelEnds(c) \/ TrainEnds(c) \/ Evaluate(c)
             \/ Unfit(c) \/ Raises(c) \/ TimesOut(c)
      PROVE  \A q \in Runs : Called(q)'
  <2>1. ~Idle(c) /\ \E step, retry : Answer(c, step, retry)
    BY <1>7 DEF Prep, LabelEnds, TrainEnds, Evaluate, Unfit, Raises, TimesOut, OnTimeout,
                Return, At
  <2> QED
    BY <1>4, <2>1
<1>8. ASSUME NEW c \in Containers, LabelWindow(c) \/ TrainSaves(c)
      PROVE  \A q \in Runs : Called(q)'
  BY <1>5, <1>8 DEF LabelWindow, TrainSaves
<1>9. ASSUME NEW i \in Items, Ingest(i) PROVE \A q \in Runs : Called(q)'
  BY <1>5, <1>9 DEF Ingest
<1> QED
  BY <1>1, <1>2, <1>3, <1>6, <1>7, <1>8, <1>9 DEF Next

LEMMA GateInit == Init => GateInv
<1> SUFFICES ASSUME Init PROVE GateInv
  OBVIOUS
<1>1. FirstVolume \in Volume
  BY FirstVolumeType
<1>2. \A c \in Containers : Follows(c)
  BY <1>1, Fresh DEF Init, Follows, Knows, Idle
<1>3. Taught(vol, vol) /\ Scored(vol)
  <2>1. Taught(FirstVolume, FirstVolume)
    BY <1>1, Fresh
  <2>2. Scored(FirstVolume)
    BY DEF Scored, FirstVolume
  <2> QED
    BY <2>1, <2>2 DEF Init
<1>4. \A r \in Runs : ReadyFor(vol, r, orch[r]) /\ Called(r)
  BY NothingNeeded DEF Init, Called
<1> QED
  BY <1>2, <1>3, <1>4, LabelsInit DEF GateInv, Gate

(* What was lost once stays lost. *)
LEMMA LossesStay ==
    ASSUME [Next]_vars
    PROVE  clobbered \subseteq clobbered'
<1>1. ASSUME NEW c \in Containers, NEW kind, NEW key, NEW file, Commit(c, kind, key, file)
      PROVE  clobbered \subseteq clobbered'
  BY <1>1 DEF Commit
<1>2. ASSUME NEW r \in Runs,
             Begin(r) \/ Dies(r) \/ Resume(r) \/ \E c \in Containers : Call(r, c)
      PROVE  clobbered \subseteq clobbered'
  BY <1>2 DEF Begin, Dies, Resume, Call
<1>3. ASSUME NEW c \in Containers, Prep(c) PROVE clobbered \subseteq clobbered'
  BY <1>1, <1>3 DEF Prep, NoCommit
<1>4. ASSUME NEW c \in Containers, LabelWindow(c) \/ TrainSaves(c) \/ TrainEnds(c) \/ Evaluate(c)
      PROVE  clobbered \subseteq clobbered'
  BY <1>1, <1>4 DEF LabelWindow, TrainSaves, TrainEnds, Evaluate
<1>5. ASSUME NEW c \in Containers,
             LabelEnds(c) \/ Unfit(c) \/ Raises(c) \/ TimesOut(c) \/ Preempted(c)
      PROVE  clobbered \subseteq clobbered'
  BY <1>5 DEF LabelEnds, Unfit, Raises, TimesOut, Preempted, NoCommit
<1>6. ASSUME NEW i \in Items, Ingest(i) PROVE clobbered \subseteq clobbered'
  BY <1>6 DEF Ingest
<1>7. CASE UNCHANGED vars
  BY <1>7 DEF vars
<1> QED
  BY <1>2, <1>3, <1>4, <1>5, <1>6, <1>7 DEF Next

LEMMA GateStep == GateInv /\ [Next]_vars => GateInv'
<1> SUFFICES ASSUME GateInv, [Next]_vars PROVE GateInv'
  OBVIOUS
<1>0. LabelsInv /\ LabelsInv' /\ StagesTypeOK /\ StagesTypeOK'
  BY LabelsStep DEF GateInv, LabelsInv
<1>1. \A r \in Runs : Called(r)'
  <2>1. CASE Next
    BY <1>0, <2>1, CalledStep DEF GateInv
  <2>2. CASE UNCHANGED vars
    BY <2>2 DEF vars, Called, GateInv
  <2> QED
    BY <2>1, <2>2
<1> SUFFICES ASSUME ~Lost' PROVE Gate'
  BY <1>0, <1>1 DEF GateInv
<1>2. Gate /\ \A r \in Runs : Called(r)
  <2>1. ~Lost
    BY LossesStay DEF Lost
  <2> QED
    BY <2>1 DEF GateInv
<1>3. vol \in Volume /\ Before(vol, vol)
  BY <1>0, OtherFiles DEF StagesTypeOK
<1>4. ASSUME NEW r \in Runs, Begin(r) \/ Dies(r) \/ Resume(r) PROVE Gate'
  <2>1. UNCHANGED <<vol, view, work, todo>>
    BY <1>4 DEF Begin, Dies, Resume
  <2>2. \A q \in Runs : ReadyFor(vol, q, orch'[q])
    <3>1. orch'[r] \in {"prep", "dead"} /\ \A q \in Runs : q # r => orch'[q] = orch[q]
      BY <1>0, <1>4 DEF Begin, Dies, Resume, StagesTypeOK
    <3> QED
      BY <1>2, <3>1, NothingNeeded DEF Gate
  <2>3. Taught(vol', vol') /\ Scored(vol') /\ \A q \in Runs : ReadyFor(vol', q, orch'[q])
    BY <1>2, <2>1, <2>2 DEF Gate
  <2> QED
    BY <1>0, <1>2, <1>3, <2>1, <2>3, Progress
<1>5. ASSUME NEW r \in Runs, NEW c \in Containers, Call(r, c) PROVE Gate'
  <2>1. orch[r] \in Stages /\ Enter(c, orch[r], r) /\ UNCHANGED <<vol, orch>>
    BY <1>5 DEF Call, Alive
  <2>2. orch[r] \in {"train", "evaluate"} => Full(vol, r)
    BY <1>2 DEF Gate, ReadyFor
  <2> QED
    BY <1>0, <1>2, <2>1, <2>2, EnterGate
<1>6. ASSUME NEW c \in Containers, ~Idle(c) PROVE work[c].stage \in Stages /\ Called(work[c].run)
  BY <1>0, <1>2, <1>6, Busy
<1>7. ASSUME NEW c \in Containers, Prep(c) \/ LabelEnds(c) \/ TrainEnds(c) \/ Evaluate(c)
      PROVE  Gate'
  <2>1. Called(work[c].run)
    BY <1>6, <1>7 DEF Prep, LabelEnds, TrainEnds, Evaluate, At
  <2> QED
    BY <1>0, <1>2, <1>7, <2>1, PrepGate, LabelEndsGate, TrainEndsGate, EvaluateGate
<1>8. ASSUME NEW c \in Containers, LabelWindow(c) \/ TrainSaves(c) PROVE Gate'
  BY <1>0, <1>2, <1>8, LabelWindowGate, TrainSavesGate
<1>9. ASSUME NEW c \in Containers, Unfit(c) \/ Raises(c) PROVE Gate'
  <2>1. ~Idle(c) /\ NoCommit /\ Answer(c, "raised", FALSE)
    BY <1>9 DEF Unfit, Raises
  <2> QED
    BY <1>0, <1>2, <2>1, NothingNeeded, NoCommitGate
<1>10. ASSUME NEW c \in Containers, TimesOut(c) PROVE Gate'
  <2>1. ~Idle(c) /\ NoCommit
    BY <1>10 DEF TimesOut
  <2>2. \/ Answer(c, "raised", FALSE)
        \/ Answer(c, work[c].stage, TRUE)
    BY <1>10 DEF TimesOut, OnTimeout
  <2>3. waits[work[c].run] = c => ReadyFor(vol, work[c].run, work[c].stage)
    BY <1>0, <1>2, <1>6, <2>1, Busy, WaitsWhereItIs
  <2> QED
    BY <1>0, <1>2, <2>1, <2>2, <2>3, NothingNeeded, NoCommitGate
<1>11. ASSUME NEW c \in Containers, Preempted(c) PROVE Gate'
  <2> DEFINE r == work[c].run
             s == work[c].stage
  <2>1. /\ ~Idle(c) /\ s \in Stages /\ r \in Runs
        /\ Enter(c, s, r) /\ UNCHANGED <<vol, orch>>
    BY <1>0, <1>11, Busy DEF Preempted
  <2>2. ASSUME s \in {"train", "evaluate"} PROVE Full(vol, r)
    <3>1. view[c] \in Volume /\ Unique(vol) /\ Before(view[c], vol) /\ Full(view[c], r)
      BY <1>0, <1>2, <2>1, <2>2 DEF Gate, Follows, Knows, LabelsInv, StagesTypeOK
    <3> QED
      BY <1>3, <2>1, <3>1, SameRows
  <2> QED
    BY <1>0, <1>2, <2>1, <2>2, EnterGate
<1>12. ASSUME NEW i \in Items, Ingest(i) PROVE Gate'
  <2>1. /\ vol' \in Volume /\ SameFiles
        /\ UNCHANGED <<view, work, todo, orch>>
    BY <1>0, <1>12 DEF Ingest, StagesTypeOK, Volume, SameFiles, SameBut
  <2>2. Before(vol, vol')
    BY <1>3, <2>1, OtherFiles DEF SameFiles, SameBut
  <2>3. vol'.report = vol.report /\ vol'.ckpt = vol.ckpt /\ vol'.model = vol.model
    BY <2>1 DEF SameFiles, SameBut
  <2>4. Unique(vol') /\ Taught(vol, vol) /\ Scored(vol) /\ \A r \in Runs : ReadyFor(vol, r, orch[r])
    BY <1>0, <1>2 DEF Gate, LabelsInv
  <2>5. /\ Taught(vol', vol) /\ Scored(vol')
        /\ \A r \in Runs : ReadyFor(vol', r, orch'[r])
    BY <1>3, <2>1, <2>2, <2>3, <2>4, Kept
  <2>6. Taught(vol', vol')
    BY <2>3, <2>5 DEF Taught
  <2> QED
    BY <1>0, <1>2, <2>1, <2>2, <2>5, <2>6, Progress
<1>13. CASE UNCHANGED vars
  BY <1>2, <1>13 DEF vars, Gate, Follows, Knows, Idle
<1> QED
  BY <1>4, <1>5, <1>7, <1>8, <1>9, <1>10, <1>11, <1>12, <1>13 DEF Next

(***************************************************************************)
(* While no labels file and no training set is lost, every container's     *)
(* files are an earlier version of the committed ones, students have       *)
(* learned nothing but rows of the training side of a finished join, and   *)
(* no orchestrator is ahead of the labels.                                 *)
(***************************************************************************)
THEOREM GateInvariant == Spec => []GateInv
<1> QED
  BY GateInit, GateStep, PTL DEF Spec

(***************************************************************************)
(* The gate never scores a model on a row that it, or an attempt whose     *)
(* checkpoint it continued, was trained on (modal_app.py:90-92), unless a  *)
(* labels file or a training set was overwritten unseen: for any number of *)
(* runs, documents, deaths, takeovers, timeouts and preemptions.           *)
(***************************************************************************)
THEOREM StagesScoreUnseen == Spec => []GateScoresUnseenUnlessLost
<1>1. GateInv => GateScoresUnseenUnlessLost
  <2> SUFFICES ASSUME GateInv, ~Lost, NEW r \in Runs, vol.report[r] # NULL
               PROVE  vol.report[r].held \cap vol.report[r].model = {}
    BY DEF GateScoresUnseenUnlessLost, GateScoresUnseen, Lost
  <2>1. vol \in Volume /\ Unique(vol)
    BY DEF GateInv, LabelsInv, StagesTypeOK
  <2>2. /\ Full(vol, r) /\ vol.report[r].held = Held(vol, r)
        /\ Learned(vol, vol.report[r].model, r)
    BY DEF GateInv, Gate, Scored
  <2>3. vol.train[r] # NULL
    BY <2>2, LabelersAre DEF Full, AllLabeled
  <2>4. Held(vol, r) \cap Trained(vol, r) = {}
    BY <2>1, <2>3, HeldApart
  <2> QED
    BY <2>2, <2>4 DEF Learned
<1> QED
  BY <1>1, GateInvariant, PTL

(***************************************************************************)
(* Training starts on all of the training set (modal_app.py:644-650): only *)
(* a call begins it, and run_pipeline calls it when every labelling stage  *)
(* returned.                                                               *)
(***************************************************************************)
THEOREM StagesTrainOnAll == Spec => TrainsOnAllOfIt
<1> DEFINE Starts(c) ==
             work[c] = NULL /\ work'[c] # NULL /\ work'[c].stage = "train" =>
               \/ clobbered \cap {"train", "labels"} # {}
               \/ /\ vol.train[work'[c].run] # NULL
                  /\ \A s \in Labelers : vol.train[work'[c].run] \subseteq Labeled(vol, s)
<1>1. ASSUME GateInv, [Next]_vars, NEW c \in Containers PROVE Starts(c)
  <2> SUFFICES ASSUME ~Lost, work[c] = NULL, work'[c] # NULL, work'[c].stage = "train"
               PROVE  /\ vol.train[work'[c].run] # NULL
                      /\ \A s \in Labelers : vol.train[work'[c].run] \subseteq Labeled(vol, s)
    BY DEF Lost
  <2>0. StagesTypeOK
    BY <1>1 DEF GateInv, LabelsInv
  <2>1. \E r \in Runs : Call(r, c)
    <3>1. work'[c] # work[c]
      OBVIOUS
    <3>2. ASSUME NEW r \in Runs, NEW d \in Containers, Call(r, d) PROVE d = c
      BY <2>0, <3>1, <3>2 DEF Call, Enter, StagesTypeOK
    <3>3. ASSUME NEW d \in Containers, NEW step, NEW retry, Answer(d, step, retry) PROVE FALSE
      BY <2>0, <3>1, <3>3 DEF Answer, StagesTypeOK
    <3>4. ASSUME NEW d \in Containers,
                 \/ Prep(d) \/ LabelEnds(d) \/ TrainEnds(d) \/ Evaluate(d)
                 \/ Unfit(d) \/ Raises(d) \/ TimesOut(d)
          PROVE  FALSE
      <4>1. \E step, retry : Answer(d, step, retry)
        BY <3>4 DEF Prep, LabelEnds, TrainEnds, Evaluate, Unfit, Raises, TimesOut, OnTimeout,
                    Return
      <4> QED
        BY <3>3, <4>1
    <3>5. ASSUME NEW d \in Containers, Preempted(d) PROVE FALSE
      <4>1. d # c
        BY <3>5 DEF Preempted, Idle
      <4> QED
        BY <2>0, <3>1, <3>5, <4>1 DEF Preempted, Enter, StagesTypeOK
    <3>6. work' # work
      BY <3>1
    <3>7. /\ \A r \in Runs : ~Begin(r) /\ ~Dies(r) /\ ~Resume(r)
          /\ \A d \in Containers : ~LabelWindow(d) /\ ~TrainSaves(d)
          /\ \A i \in Items : ~Ingest(i)
          /\ ~UNCHANGED vars
      BY <3>6 DEF Begin, Dies, Resume, LabelWindow, TrainSaves, Ingest, vars
    <3> QED
      BY <1>1, <3>2, <3>4, <3>5, <3>7 DEF Next
  <2>2. PICK r \in Runs : Call(r, c)
    BY <2>1
  <2>3. work'[c] = [stage |-> orch[r], run |-> r]
    BY <2>0, <2>2 DEF Call, Enter, StagesTypeOK
  <2>4. orch[r] = "train" /\ work'[c].run = r
    BY <2>3
  <2>5. ReadyFor(vol, r, "train")
    BY <1>1, <2>4 DEF GateInv, Gate
  <2> QED
    BY <2>4, <2>5 DEF ReadyFor, Full, AllLabeled
<1>2. GateInv /\ [Next]_vars => [\A c \in Containers : Starts(c)]_vars
  BY <1>1
<1>3. Spec => [][\A c \in Containers : Starts(c)]_vars
  BY <1>2, GateInvariant, PTL DEF Spec
<1> QED
  BY <1>3 DEF TrainsOnAllOfIt
=============================================================================
