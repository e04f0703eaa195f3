------------------------------- MODULE RunLock -------------------------------
(***************************************************************************)
(* The run lock of ml/sentilyzer_ml/pipeline/modal_app.py: lock_decision,  *)
(* run_pipeline's reads and writes of the shared modal.Dict around its     *)
(* stages, its heartbeat thread, and the unlock entrypoint.                *)
(*                                                                         *)
(* The Dict is a service: one get, put or pop is atomic, two of them are   *)
(* not.  A beat is in the Dict, and a pop done, within Late of being due;  *)
(* everything else an orchestrator does takes any time at all.             *)
(* Times are in units of the heartbeat's minute.                           *)
(***************************************************************************)
EXTENDS Naturals

CONSTANTS
    Execs,       \* executions of run_pipeline
    InputOf,     \* InputOf[e]: the Modal input e executes
    NULL,
    BeatEvery,   \* the wait of the beat thread
    BeatStale,   \* BEAT_STALE_SECONDS
    LockStale,   \* LOCK_STALE_SECONDS
    Late,        \* bound on the delay of a beat or a pop
    MaxTime      \* bound: the clock's last value

Time == 0..MaxTime
RunId == [at : Time, by : Execs]
Lock == [run : RunId, started : Time, beat : Time, input : {InputOf[e] : e \in Execs}]

ASSUME RunLockAssumption ==
    /\ BeatEvery \in Nat \ {0}
    /\ Late \in Nat
    /\ BeatEvery + 3 * Late < BeatStale
    /\ BeatStale < LockStale
    /\ LockStale \in Nat /\ BeatStale \in Nat /\ MaxTime \in Nat
    /\ NULL \notin Lock

VARIABLES
    now,         \* the clock
    lock,        \* run_lock["run"], or NULL
    pc,          \* where an execution is, see Steps
    run,         \* run_id of an execution: when it was drawn, and by whom
    started,     \* started_at of an execution
    beat,        \* its beat thread: "off", "waiting", "sending"
    due,         \* when the thread wakes up
    stamp,       \* the beat_at of the write that is on its way
    since,       \* history: when an execution began to let go, or ended
    overrun,     \* history: a lock has outlived the cap, see OverCap
    raced        \* history: an invocation decided between the get and the
                 \* put of another

history == <<overrun, raced>>
vars == <<now, lock, pc, run, started, beat, due, stamp, since, history>>

(* "idle": not invoked.  "resuming": decided to take a run over, before the *)
(* second get.  "writing": before write_lock.  "staging": the try block.    *)
(* "popping": after stop_beat.set().  "done", "skipped": returned.  "dead": *)
(* the container is gone, its beat thread with it.                          *)
Steps == {"idle", "resuming", "writing", "staging", "popping",
          "done", "skipped", "dead"}

RunLockTypeOK ==
    /\ now \in Time
    /\ lock \in Lock \cup {NULL}
    /\ pc \in [Execs -> Steps]
    /\ run \in [Execs -> RunId \cup {NULL}]
    /\ started \in [Execs -> Time]
    /\ beat \in [Execs -> {"off", "waiting", "sending"}]
    /\ due \in [Execs -> Nat]
    /\ stamp \in [Execs -> Time]
    /\ since \in [Execs -> Time]
    /\ overrun \in BOOLEAN /\ raced \in BOOLEAN

Init ==
    /\ now = 0
    /\ lock = NULL
    /\ pc = [e \in Execs |-> "idle"]
    /\ run = [e \in Execs |-> NULL]
    /\ started = [e \in Execs |-> 0]
    /\ beat = [e \in Execs |-> "off"]
    /\ due = [e \in Execs |-> 0]
    /\ stamp = [e \in Execs |-> 0]
    /\ since = [e \in Execs |-> 0]
    /\ overrun = FALSE /\ raced = FALSE

-----------------------------------------------------------------------------
(* Seeded bug: a lock is silent when it is old. *)
DecideByAge(e) ==
    IF lock = NULL \/ now - lock.started >= LockStale THEN "fresh"
    ELSE IF lock.input = InputOf[e] \/ now - lock.started >= BeatStale THEN "resume"
    ELSE "skip"

(* Seeded bug: a silent holder keeps its lock until the cap. *)
DecideByIdentity(e) ==
    IF lock = NULL \/ now - lock.started >= LockStale THEN "fresh"
    ELSE IF lock.input = InputOf[e] THEN "resume" ELSE "skip"

(* lock_decision, for the input of e at this moment. *)
lock_decision(e) ==
    IF lock = NULL \/ now - lock.started >= LockStale THEN "fresh"
    ELSE IF lock.input = InputOf[e] \/ now - lock.beat >= BeatStale THEN "resume"
    ELSE "skip"

Enter(e, step) ==
    /\ pc' = [pc EXCEPT ![e] = step]
    /\ since' = IF step \in {"popping", "done", "dead"}
                THEN [since EXCEPT ![e] = now] ELSE since

(* The beat thread is gone. *)
NoBeat(e) ==
    /\ beat' = [beat EXCEPT ![e] = "off"]
    /\ due' = [due EXCEPT ![e] = 0]
    /\ stamp' = [stamp EXCEPT ![e] = 0]

(* It waits for its next turn. *)
AwaitBeat(e) ==
    /\ beat' = [beat EXCEPT ![e] = "waiting"]
    /\ due' = [due EXCEPT ![e] = now + BeatEvery]
    /\ stamp' = [stamp EXCEPT ![e] = 0]

(* Modal runs one execution of an input at a time: the next one is a retry  *)
(* of an input whose container is gone.                                     *)
MayStart(e) ==
    /\ pc[e] = "idle"
    /\ \A f \in Execs \ {e} :
         InputOf[f] = InputOf[e] => pc[f] \in {"idle", "dead"}

(* run_id is the wall clock to the second, so executions that draw one in   *)
(* the same minute may draw the same.                                       *)
FreshRuns(e) ==
    {[at |-> now, by |-> e]} \cup
    {run[f] : f \in {g \in Execs : run[g] # NULL /\ run[g].at = now}}

(* The first get and the decision on what it returned. *)
Decide(e) ==
    /\ MayStart(e)
    /\ \/ /\ lock_decision(e) = "skip"
          /\ Enter(e, "skipped")
          /\ UNCHANGED <<run, started>>
       \/ /\ lock_decision(e) = "resume"
          /\ Enter(e, "resuming")
          /\ run' = [run EXCEPT ![e] = lock.run]
          /\ UNCHANGED started
       \/ /\ lock_decision(e) = "fresh"
          /\ Enter(e, "writing")
          /\ \E r \in FreshRuns(e) : run' = [run EXCEPT ![e] = r]
          /\ started' = [started EXCEPT ![e] = now]
    /\ raced' = (raced \/ \E f \in Execs : pc[f] \in {"resuming", "writing"})
    /\ UNCHANGED <<now, lock, beat, due, stamp, overrun>>

(* Seeded bug: a takeover starts the run's age anew. *)
KeepNoEpoch(e) ==
    /\ pc[e] = "resuming"
    /\ Enter(e, "writing")
    /\ started' = [started EXCEPT ![e] = now]
    /\ UNCHANGED <<now, lock, run, beat, due, stamp, history>>

(* The second get: the lock of the run taken over, if it is still there. *)
KeepEpoch(e) ==
    /\ pc[e] = "resuming"
    /\ Enter(e, "writing")
    /\ started' = [started EXCEPT ![e] = IF lock = NULL THEN now ELSE lock.started]
    /\ UNCHANGED <<now, lock, run, beat, due, stamp, history>>

LockOf(e, at) ==
    [run |-> run[e], started |-> started[e], beat |-> at, input |-> InputOf[e]]

(* write_lock, and the start of the beat thread. *)
WriteLock(e) ==
    /\ pc[e] = "writing"
    /\ lock' = LockOf(e, now)
    /\ Enter(e, "staging")
    /\ AwaitBeat(e)
    /\ UNCHANGED <<now, run, started, history>>

(* stop_beat.wait(60) ran out: the thread stamps a new record ... *)
BeatBegins(e) ==
    /\ beat[e] = "waiting"
    /\ now >= due[e]
    /\ pc[e] = "staging"
    /\ beat' = [beat EXCEPT ![e] = "sending"]
    /\ stamp' = [stamp EXCEPT ![e] = now]
    /\ UNCHANGED <<now, lock, pc, run, started, due, since, history>>

(* ... which lands whatever became of the main thread meanwhile. *)
BeatLands(e) ==
    /\ beat[e] = "sending"
    /\ lock' = LockOf(e, stamp[e])
    /\ IF pc[e] = "staging" THEN AwaitBeat(e) ELSE NoBeat(e)
    /\ UNCHANGED <<now, pc, run, started, since, history>>

(* The stages returned or raised; finally sets stop_beat ... *)
StagesEnd(e) ==
    /\ pc[e] = "staging"
    /\ Enter(e, "popping")
    /\ IF beat[e] = "waiting" THEN NoBeat(e) ELSE UNCHANGED <<beat, due, stamp>>
    /\ UNCHANGED <<now, lock, run, started, history>>

(* ... and pops whatever lock is there. *)
PopLock(e) ==
    /\ pc[e] = "popping"
    /\ lock' = NULL
    /\ Enter(e, "done")
    /\ UNCHANGED <<now, run, started, beat, due, stamp, history>>

Dies(e) ==
    /\ pc[e] \in {"resuming", "writing", "staging", "popping"}
    /\ Enter(e, "dead")
    /\ NoBeat(e)
    /\ UNCHANGED <<now, lock, run, started, history>>

(* The operator clears a stranded lock: no orchestrator is left. *)
Unlock ==
    /\ lock # NULL
    /\ \A e \in Execs : pc[e] \in {"idle", "done", "skipped", "dead"}
    /\ \A e \in Execs : beat[e] = "off"
    /\ lock' = NULL
    /\ UNCHANGED <<now, pc, run, started, beat, due, stamp, since, history>>

(* An orchestrator that has decided and not yet let go. *)
Holds(e) ==
    \/ pc[e] \in {"resuming", "writing", "staging", "popping"}
    \/ beat[e] = "sending"

(* A lock, in the Dict or in the hands of an orchestrator that will write   *)
(* it again, has outlived the cap while some orchestrator was busy.         *)
OverCap(time) ==
    \E e \in Execs :
      \/ /\ Holds(e) /\ pc[e] # "resuming"
         /\ time - started[e] >= LockStale
      \/ /\ pc[e] \in {"resuming", "staging", "popping"}
         /\ lock # NULL /\ time - lock.started >= LockStale

(* The clock does not outrun a beat or a pop by more than Late. *)
Tick ==
    /\ now < MaxTime
    /\ \A e \in Execs :
         /\ beat[e] # "off" => now < due[e] + Late
         /\ pc[e] = "popping" => now < since[e] + Late
    /\ now' = now + 1
    /\ overrun' = (overrun \/ OverCap(now'))
    /\ UNCHANGED <<lock, pc, run, started, beat, due, stamp, since, raced>>

Next ==
    \/ \E e \in Execs :
         \/ Decide(e) \/ KeepEpoch(e) \/ WriteLock(e)
         \/ BeatBegins(e) \/ BeatLands(e)
         \/ StagesEnd(e) \/ PopLock(e) \/ Dies(e)
    \/ Unlock
    \/ Tick

Spec == Init /\ [][Next]_vars

-----------------------------------------------------------------------------
(* An orchestrator at work on its run, heartbeat and all. *)
AtWork(e) == pc[e] = "staging"

(***************************************************************************)
(* "a run lock stops double-fires" (modal_app.py:50): unless a lock has    *)
(* outlived the cap, two orchestrators are never at work at once.  The     *)
(* first get and the put of an invocation are not one step, so that is not *)
(* so.                                                                     *)
(***************************************************************************)
DoubleFiresAreStopped ==
    overrun \/ \A e, f \in Execs : AtWork(e) /\ AtWork(f) => e = f

(***************************************************************************)
(* What does hold: where no invocation decided inside another's window     *)
(* between get and put, crashes, takeovers, late beats and pops of others' *)
(* locks never leave two orchestrators at work below the cap.  The lock    *)
(* that must be below it is also the one a finished orchestrator's last     *)
(* beat puts in the place of its successor's.                               *)
(***************************************************************************)
OneAtWork == raced \/ DoubleFiresAreStopped

(***************************************************************************)
(* Silence is death: a stranger to the lock's input that decides to resume *)
(* a run finds no orchestrator at work on it, even where invocations race, *)
(* beats land late and run ids collide.  This is what BEAT_STALE_SECONDS   *)
(* against the beat thread's minute has to ensure (modal_app.py:633-638).  *)
(***************************************************************************)
TakeoversAreOfTheDead ==
    [][\A e \in Execs :
         pc[e] = "idle" /\ pc'[e] = "resuming" /\ lock.input # InputOf[e] =>
           \A f \in Execs : AtWork(f) => run[f] # run'[e]]_vars

(***************************************************************************)
(* "a dead run is taken over automatically within five minutes"            *)
(* (docs/commands.md:50-52): an invocation is refused only when some       *)
(* orchestrator of the run that holds the lock is up, or was until less    *)
(* than the stale time ago.                                                 *)
(***************************************************************************)
RefusedOnlyByTheLiving ==
    [][\A e \in Execs :
         pc[e] = "idle" /\ pc'[e] = "skipped" =>
           \E f \in Execs :
             /\ run[f] = lock.run
             /\ \/ pc[f] \in {"staging", "popping"}
                \/ pc[f] \in {"done", "dead"} /\ now - since[f] < BeatStale]_vars

(***************************************************************************)
(* "the 3h cap is absolute" (modal_app.py:628): whoever carries a run on,  *)
(* its lock is never younger than the run, whose run_id is its birth -     *)
(* short of the races and the overrun that let one orchestrator pop the    *)
(* lock of another.                                                        *)
(***************************************************************************)
CapIsAbsolute == raced \/ overrun \/ lock = NULL \/ lock.started <= lock.run.at
=============================================================================
