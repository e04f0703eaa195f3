--------------------------- MODULE TrainingStages ---------------------------
(***************************************************************************)
(* The stages of a training run on the shared volume                       *)
(* (ml/sentilyzer_ml/pipeline/modal_app.py: prep, label,                   *)
(* label_aspects_stage, train, evaluate and the try block of run_pipeline  *)
(* that calls them; label.py, label_aspects.py: the flushes).              *)
(*                                                                         *)
(* A container works on a view of the volume: what was committed when it   *)
(* last reloaded, and its own writes.  A commit publishes the files it     *)
(* wrote, over whatever is there.  An orchestrator that dies leaves the    *)
(* stage it called at work; a successor takes the run over and calls every *)
(* stage again.                                                            *)
(***************************************************************************)
EXTENDS Naturals, FiniteSets

CONSTANTS
    Runs,          \* run ids
    Containers,
    Items,         \* documents, in the order of the md5 the joins sort by
    Ingested,      \* those in the corpus from the start
    Labelers,      \* the labelling stages a run has, of "label", "label_aspects"
    HoldoutRows,   \* HOLDOUT_ROWS and HOLDOUT_PAIRS
    Share,         \* a holdout is at most one in Share rows
    MinRows,       \* MIN_LABELED_ROWS
    Overruns,      \* whether a run may outlive the lock's cap and be displaced
    MaxDeaths,     \* bound: orchestrators that die
    MaxFailures,   \* bound: stages that raise, time out or are restarted
    NULL

ASSUME StagesAssumption ==
    /\ Items \subseteq Nat
    /\ IsFiniteSet(Items)
    /\ Ingested \subseteq Items
    /\ {"label"} \subseteq Labelers /\ Labelers \subseteq {"label", "label_aspects"}
    /\ HoldoutRows \in Nat \ {0}
    /\ Share \in Nat \ {0, 1}
    /\ MinRows \in Nat /\ MinRows >= Share   \* no rows[-0:]: some row is held out
    /\ Overruns \in BOOLEAN
    /\ MaxDeaths \in Nat /\ MaxFailures \in Nat
    /\ NULL \notin Runs \cup Containers

VARIABLES
    vol,         \* the committed files
    view,        \* view[c]: the files as container c sees them
    work,        \* work[c]: the stage and run c executes, or NULL
    todo,        \* todo[c]: the table of that name in a labelling container
    orch,        \* orch[r]: the stage the orchestrator of r is at, see Steps
    again,       \* again[r]: it is at the second call of a labelling stage
    waits,       \* waits[r]: the container whose result it waits for, or NULL
    holder,      \* the run in the lock, or NULL
    deaths, failures,   \* count what MaxDeaths and MaxFailures bound
    crowded,     \* history: two stages have been at work at once
    clobbered    \* history: the kinds of files whose commit replaced a
                 \* version its writer had not seen

counts == <<deaths, failures>>
vars == <<vol, view, work, todo, orch, again, waits, holder, counts, crowded, clobbered>>

Stages == {"prep", "train", "evaluate"} \cup Labelers
Steps == Stages \cup {"none", "returned", "raised", "dead"}

(* None of the values that stand next to it. *)
ASSUME NullAssumption ==
    /\ \A items \in SUBSET Items : items # NULL
    /\ \A call \in [stage : Stages, run : Runs] : call # NULL

(* The model is the set of rows that it, or an earlier attempt whose        *)
(* checkpoint it continued, was trained on; so is a checkpoint.  A report   *)
(* names the rows it scored and the model it scored.                        *)
Row == Labelers \X Items
Model == SUBSET Row
Report == [held : SUBSET Row, model : Model]

(* copies: how many rows of the labels file an item has. *)
Volume ==
    [corpus : SUBSET Items,
     train : [Runs -> (SUBSET Items) \cup {NULL}],
     labels : [Labelers -> [Items -> Nat]],
     ckpt : [Runs -> Model],
     model : [Runs -> Model \cup {NULL}],
     report : [Runs -> Report \cup {NULL}]]

StagesTypeOK ==
    /\ vol \in Volume
    /\ view \in [Containers -> Volume]
    /\ work \in [Containers -> [stage : Stages, run : Runs] \cup {NULL}]
    /\ todo \in [Containers -> SUBSET Items]
    /\ orch \in [Runs -> Steps]
    /\ again \in [Runs -> BOOLEAN]
    /\ waits \in [Runs -> Containers \cup {NULL}]
    /\ holder \in Runs \cup {NULL}
    /\ deaths \in 0..MaxDeaths /\ failures \in 0..MaxFailures
    /\ crowded \in BOOLEAN
    /\ clobbered \subseteq {"train", "labels", "ckpt", "model", "report"}

(* The volume before the first run.  An idle container sees this, the       *)
(* oldest of the views it may have kept.                                    *)
FirstVolume ==
    [corpus |-> Ingested, train |-> [r \in Runs |-> NULL],
     labels |-> [s \in Labelers |-> [i \in Items |-> 0]],
     ckpt |-> [r \in Runs |-> {}], model |-> [r \in Runs |-> NULL],
     report |-> [r \in Runs |-> NULL]]

Init ==
    /\ vol = FirstVolume
    /\ view = [c \in Containers |-> FirstVolume]
    /\ work = [c \in Containers |-> NULL]
    /\ todo = [c \in Containers |-> {}]
    /\ orch = [r \in Runs |-> "none"]
    /\ again = [r \in Runs |-> FALSE]
    /\ waits = [r \in Runs |-> NULL]
    /\ holder = NULL
    /\ deaths = 0 /\ failures = 0
    /\ crowded = FALSE /\ clobbered = {}

-----------------------------------------------------------------------------
Labeled(v, s) == {i \in Items : v.labels[s][i] > 0}

Smaller(m, n) == IF m < n THEN m ELSE n

(* The join of a training set with a labels file, one row per copy. *)
Joined(v, r, s) == UNION {{i} \X (1..v.labels[s][i]) : i \in v.train[r]}

(* holdout_rows and holdout_pairs. *)
HoldoutSize(n) == Smaller(HoldoutRows, n \div Share)

NotAfter(x, y) == x[1] < y[1] \/ (x[1] = y[1] /\ x[2] <= y[2])

(* The tail of the join's order: rows[-holdout_rows(len(rows)):]. *)
Tail(rows) ==
    {x \in rows : Cardinality({y \in rows : NotAfter(x, y)}) <= HoldoutSize(Cardinality(rows))}

Held(v, r) == UNION {{<<s, x[1]>> : x \in Tail(Joined(v, r, s))} : s \in Labelers}
Trained(v, r) ==
    UNION {{<<s, x[1]>> : x \in Joined(v, r, s) \ Tail(Joined(v, r, s))} : s \in Labelers}

(* The document labels are not optional, and not too few. *)
Enough(v, r) ==
    /\ v.train[r] # NULL
    /\ Cardinality(Joined(v, r, "label")) >= MinRows

-----------------------------------------------------------------------------
Alive(r) == orch[r] \in Stages
Idle(c) == work[c] = NULL

(* A fresh run: the lock is free, or beyond the cap. *)
Begin(r) ==
    /\ orch[r] = "none"
    /\ \A q \in Runs : Alive(q) => Overruns
    /\ orch' = [orch EXCEPT ![r] = "prep"]
    /\ holder' = r
    /\ UNCHANGED <<vol, view, work, todo, again, waits, counts, crowded, clobbered>>

(* The orchestrator's container goes; the stage it called does not. *)
Dies(r) ==
    /\ Alive(r)
    /\ deaths < MaxDeaths
    /\ deaths' = deaths + 1
    /\ orch' = [orch EXCEPT ![r] = "dead"]
    /\ again' = [again EXCEPT ![r] = FALSE]
    /\ waits' = [waits EXCEPT ![r] = NULL]
    /\ UNCHANGED <<vol, view, work, todo, holder, failures, crowded, clobbered>>

(* Its successor begins with the first stage again. *)
Resume(r) ==
    /\ orch[r] = "dead"
    /\ holder = r
    /\ orch' = [orch EXCEPT ![r] = "prep"]
    /\ UNCHANGED <<vol, view, work, todo, again, waits, holder, counts, crowded, clobbered>>

(* Seeded bug: a warm container keeps the view it has. *)
StaleView(c) == view[c]

(* volume.reload(). *)
Reloaded(c) == vol

(* Container c begins stage s of run r, or begins it again: it reloads, and *)
(* a labelling stage lists what has no label.                               *)
Enter(c, s, r) ==
    LET v == Reloaded(c)
    IN  /\ work' = [work EXCEPT ![c] = [stage |-> s, run |-> r]]
        /\ view' = [view EXCEPT ![c] = v]
        /\ todo' = [todo EXCEPT ![c] = IF s \in Labelers /\ v.train[r] # NULL
                                       THEN v.train[r] \ Labeled(v, s) ELSE {}]

(* Seeded bug: train has no max_containers. *)
AnyNumber(s) == TRUE

(* max_containers=1: a second call of train waits for the first. *)
HasRoom(s) == \A c \in Containers : ~(s = "train" /\ ~Idle(c) /\ work[c].stage = "train")

(* stage.remote(run_id), in a container that is warm or new. *)
Call(r, c) ==
    /\ Alive(r)
    /\ waits[r] = NULL
    /\ Idle(c)
    /\ HasRoom(orch[r])
    /\ Enter(c, orch[r], r)
    /\ waits' = [waits EXCEPT ![r] = c]
    /\ crowded' = (crowded \/ \E b \in Containers : ~Idle(b))
    /\ UNCHANGED <<vol, orch, again, holder, counts, clobbered>>

(* What run_pipeline does after stage s. *)
After(s) ==
    CASE s = "prep" -> "label"
      [] s = "label" -> IF "label_aspects" \in Labelers THEN "label_aspects" ELSE "train"
      [] s = "label_aspects" -> "train"
      [] s = "train" -> "evaluate"
      [] s = "evaluate" -> "returned"

(* The call on c is over, and the container idle.  The orchestrator that    *)
(* waits for it, if there still is one, goes to step; at the end its        *)
(* finally pops the lock, whoever's it is.                                  *)
Answer(c, step, retry) ==
    LET r == work[c].run
    IN  /\ work' = [work EXCEPT ![c] = NULL]
        /\ todo' = [todo EXCEPT ![c] = {}]
        /\ view' = [view EXCEPT ![c] = FirstVolume]
        /\ IF waits[r] = c
           THEN /\ orch' = [orch EXCEPT ![r] = step]
                /\ again' = [again EXCEPT ![r] = retry]
                /\ waits' = [waits EXCEPT ![r] = NULL]
                /\ holder' = IF step \in {"returned", "raised"} THEN NULL ELSE holder
           ELSE UNCHANGED <<orch, again, waits, holder>>

Return(c) == Answer(c, After(work[c].stage), FALSE)

At(c, s) == ~Idle(c) /\ work[c].stage = s

(* volume.commit() of one file of a kind, that of a run or of a labelling   *)
(* stage: it replaces the version that is there, seen or not.               *)
Commit(c, kind, key, file) ==
    /\ vol' = [vol EXCEPT ![kind][key] = file]
    /\ clobbered' = IF vol[kind][key] = view[c][kind][key] THEN clobbered
                    ELSE clobbered \cup {kind}

NoCommit == UNCHANGED <<vol, clobbered>>

(* A container that goes on after its commit sees its own file. *)
Keep(c, kind, key, file) == view' = [view EXCEPT ![c][kind][key] = file]

(* Seeded bug: prep builds whenever it is called. *)
NeverBuilt(v, r) == FALSE

(* out.exists() and manifest.exists(). *)
Built(v, r) == v.train[r] # NULL

(* prep hands back what is there, or builds the training set of the corpus *)
(* it sees: every document of it, revocations aside (see TrainingSet).      *)
Prep(c) ==
    /\ At(c, "prep")
    /\ \/ Built(view[c], work[c].run) /\ NoCommit
       \/ /\ ~Built(view[c], work[c].run)
          /\ view[c].corpus # {}
          /\ Commit(c, "train", work[c].run, view[c].corpus)
    /\ Return(c)
    /\ UNCHANGED <<counts, crowded>>

(* Seeded bug: flush appends to the labels file of the moment. *)
FlushedOnLatest(c, s, i) == [vol.labels[s] EXCEPT ![i] = @ + 1]

(* flush: the labels file as this container has it, and a window of one. *)
Flushed(c, s, i) == [view[c].labels[s] EXCEPT ![i] = @ + 1]

LabelWindow(c) ==
    /\ ~Idle(c)
    /\ work[c].stage \in Labelers
    /\ \E i \in todo[c] :
         /\ Commit(c, "labels", work[c].stage, Flushed(c, work[c].stage, i))
         /\ Keep(c, "labels", work[c].stage, Flushed(c, work[c].stage, i))
         /\ todo' = [todo EXCEPT ![c] = @ \ {i}]
    /\ UNCHANGED <<work, orch, again, waits, holder, counts, crowded>>

LabelEnds(c) ==
    /\ ~Idle(c)
    /\ work[c].stage \in Labelers
    /\ view[c].train[work[c].run] # NULL
    /\ todo[c] = {}
    /\ Return(c)
    /\ NoCommit
    /\ UNCHANGED <<counts, crowded>>

(* Seeded bug: the student has rows that are none. *)
NoStudent(v, r) == {NULL}

(* The student after this attempt: what the checkpoint it resumed had seen, *)
(* and its own rows.                                                        *)
Student(v, r) == v.ckpt[r] \cup Trained(v, r)

(* A checkpoint is saved, and Modal commits it in the background. *)
TrainSaves(c) ==
    /\ At(c, "train")
    /\ Enough(view[c], work[c].run)
    /\ view[c].ckpt[work[c].run] # Student(view[c], work[c].run)
    /\ Commit(c, "ckpt", work[c].run, Student(view[c], work[c].run))
    /\ Keep(c, "ckpt", work[c].run, Student(view[c], work[c].run))
    /\ UNCHANGED <<work, todo, orch, again, waits, holder, counts, crowded>>

TrainEnds(c) ==
    /\ At(c, "train")
    /\ Enough(view[c], work[c].run)
    /\ Commit(c, "model", work[c].run, Student(view[c], work[c].run))
    /\ Return(c)
    /\ UNCHANGED <<counts, crowded>>

Evaluate(c) ==
    LET r == work[c].run  v == view[c]
    IN  /\ At(c, "evaluate")
        /\ Enough(v, r)
        /\ v.model[r] # NULL
        /\ Commit(c, "report", r, [held |-> Held(v, r), model |-> v.model[r]])
        /\ Return(c)
        /\ UNCHANGED <<counts, crowded>>

(* What a stage needs is not there: it raises. *)
Unfit(c) ==
    LET r == work[c].run  v == view[c]
    IN  /\ ~Idle(c)
        /\ CASE At(c, "prep") -> ~Built(v, r) /\ v.corpus = {}
             [] work[c].stage \in Labelers -> v.train[r] = NULL
             [] At(c, "train") -> ~Enough(v, r)
             [] At(c, "evaluate") -> ~Enough(v, r) \/ v.model[r] = NULL
        /\ Answer(c, "raised", FALSE)
        /\ NoCommit
        /\ UNCHANGED <<counts, crowded>>

CountFailure ==
    /\ failures < MaxFailures
    /\ failures' = failures + 1
    /\ UNCHANGED deaths

(* Anything else that makes a stage raise. *)
Raises(c) ==
    /\ ~Idle(c)
    /\ Answer(c, "raised", FALSE)
    /\ CountFailure
    /\ NoCommit
    /\ UNCHANGED crowded

(* Seeded bug: a labelling stage that ran out of time is taken as done. *)
GoOn(c) == Answer(c, After(work[c].stage), FALSE)

(* except FunctionTimeoutError: the stage is called once more. *)
OnTimeout(c) ==
    IF again[work[c].run] THEN Answer(c, "raised", FALSE)
                          ELSE Answer(c, work[c].stage, TRUE)

TimesOut(c) ==
    /\ ~Idle(c)
    /\ work[c].stage \in Labelers
    /\ OnTimeout(c)
    /\ CountFailure
    /\ NoCommit
    /\ UNCHANGED crowded

(* Modal preempts the container and runs the same call in another. *)
Preempted(c) ==
    /\ ~Idle(c)
    /\ Enter(c, work[c].stage, work[c].run)
    /\ CountFailure
    /\ UNCHANGED <<vol, orch, again, waits, holder, crowded, clobbered>>

(* ingest_hn, or an upload, adds to the corpus under a running pipeline. *)
Ingest(i) ==
    /\ i \notin vol.corpus
    /\ vol' = [vol EXCEPT !.corpus = @ \cup {i}]
    /\ UNCHANGED <<view, work, todo, orch, again, waits, holder, counts, crowded, clobbered>>

Next ==
    \/ \E r \in Runs :
         \/ Begin(r) \/ Dies(r) \/ Resume(r)
         \/ \E c \in Containers : Call(r, c)
    \/ \E c \in Containers :
         \/ Prep(c) \/ LabelWindow(c) \/ LabelEnds(c)
         \/ TrainSaves(c) \/ TrainEnds(c) \/ Evaluate(c)
         \/ Unfit(c) \/ Raises(c) \/ TimesOut(c) \/ Preempted(c)
    \/ \E i \in Items : Ingest(i)

Spec == Init /\ [][Next]_vars

-----------------------------------------------------------------------------
(***************************************************************************)
(* "what keeps the gate scoring rows the trainer never saw"                *)
(* (modal_app.py:90-92): no report scores a model on a row that the model, *)
(* or an attempt it continued, was trained on.                             *)
(***************************************************************************)
GateScoresUnseen ==
    \A r \in Runs : vol.report[r] # NULL => vol.report[r].held \cap vol.report[r].model = {}

(***************************************************************************)
(* What does hold: only a lost labels file or training set can break it.   *)
(* Deaths, takeovers, timeouts, preemptions, a corpus that grows meanwhile *)
(* and stages that overlap without overwriting cannot.                     *)
(***************************************************************************)
GateScoresUnseenUnlessLost == clobbered \cap {"train", "labels"} # {} \/ GateScoresUnseen

(***************************************************************************)
(* "sync to the latest commit so a warm or preemption-restarted container  *)
(* can't read a stale view" (modal_app.py:261-262): as long as stages run  *)
(* one at a time, in whatever container, no commit loses another's.        *)
(***************************************************************************)
StagesInTurnLoseNothing == crowded \/ clobbered = {}

(***************************************************************************)
(* "The retry relabels only what never flushed" (label.py:46-48): even     *)
(* where labelling stages overlap and overwrite each other, no item has    *)
(* two labels in a file, which the join would make two rows.               *)
(***************************************************************************)
LabelsAreUnique ==
    \A s \in Labelers, i \in Items : vol.labels[s][i] <= 1

(***************************************************************************)
(* Training starts on all of the training set: whatever timed out, died or *)
(* was taken over before, the orchestrator calls train with every item     *)
(* labelled, short of an overwritten file.  The join drops silently what   *)
(* has no label.  (modal_app.py:644-650)                                   *)
(***************************************************************************)
TrainsOnAllOfIt ==
    [][\A c \in Containers :
         work[c] = NULL /\ work'[c] # NULL /\ work'[c].stage = "train" =>
           \/ clobbered \cap {"train", "labels"} # {}
           \/ /\ vol.train[work'[c].run] # NULL
              /\ \A s \in Labelers : vol.train[work'[c].run] \subseteq Labeled(vol, s)]_vars

(***************************************************************************)
(* No model and no checkpoint is ever lost to another attempt's, overlap   *)
(* or not: that is what max_containers=1 does for train.                   *)
(* (modal_app.py:373-374)                                                  *)
(***************************************************************************)
StudentsAreNotLost == clobbered \cap {"ckpt", "model"} = {}
=============================================================================
