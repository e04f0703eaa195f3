--------------------------- MODULE RunLock_proofs ---------------------------
(***************************************************************************)
(* Proofs about RunLock, for any executions and inputs and any times that  *)
(* RunLockAssumption allows.  What an orchestrator at work relies on is     *)
(* that the lock, whoever wrote it last, is fresh: every writer's record is *)
(* at most Late old when it lands, and its own next beat is never far.      *)
(***************************************************************************)
EXTENDS RunLock, TLAPS

Busy(e) == pc[e] \in {"resuming", "writing", "staging", "popping"}

(* Let go of the lock, with a last beat still under way. *)
Ghost(e) == pc[e] = "done" /\ beat[e] = "sending"

(* What an execution's steps and timers have to do with each other. *)
BeatOk(e) ==
    /\ pc[e] \notin {"idle", "skipped"} => run[e] \in RunId
    /\ pc[e] = "staging" => beat[e] # "off"
    /\ beat[e] = "waiting" => pc[e] = "staging"
    /\ beat[e] = "sending" =>
         /\ pc[e] \in {"staging", "popping", "done"}
         /\ due[e] <= stamp[e] /\ stamp[e] <= now
         /\ pc[e] # "staging" => stamp[e] <= since[e]
    /\ beat[e] # "off" => now <= due[e] + Late /\ due[e] <= now + BeatEvery
    /\ pc[e] = "popping" => now <= since[e] + Late
    /\ since[e] <= now /\ started[e] <= now
BeatInv == \A e \in Execs : BeatOk(e)

(* The lock is not much older than what the living still owe it. *)
FreshInv ==
    lock # NULL =>
      /\ lock.beat <= now /\ lock.started <= now
      /\ \A e \in Execs :
           /\ beat[e] # "off" => due[e] <= lock.beat + BeatEvery + Late
           /\ pc[e] = "popping" => since[e] <= lock.beat + BeatEvery + Late + Late

(* Somebody wrote it, and was at work no earlier than its last beat. *)
Wrote(g) ==
    /\ run[g] = lock.run /\ InputOf[g] = lock.input
    /\ \/ pc[g] \in {"staging", "popping"}
       \/ pc[g] \in {"done", "dead"} /\ lock.beat <= since[g]
WriterInv == lock # NULL => \E g \in Execs : Wrote(g)

LockInv == RunLockTypeOK /\ BeatInv /\ FreshInv /\ WriterInv

Young(start) == now - start < LockStale

(* An input that is done is not executed again. *)
DoneInput(input) == \E y \in Execs : pc[y] = "done" /\ InputOf[y] = input

(* What holds while no invocation has raced and no lock outlived the cap.   *)
OneBusy == \A e, f \in Execs : Busy(e) /\ Busy(f) => e = f

HeldOk(e) ==
    /\ pc[e] \in {"resuming", "staging", "popping"} => lock # NULL /\ Young(lock.started)
    /\ pc[e] \in {"staging", "popping"} => lock.input = InputOf[e] \/ DoneInput(lock.input)
    /\ pc[e] \in {"writing", "staging", "popping"} \/ Ghost(e) =>
         Young(started[e]) /\ started[e] <= run[e].at
    /\ pc[e] = "resuming" => lock.started <= run[e].at
HeldInv == \A e \in Execs : HeldOk(e)

EpochInv ==
    /\ lock # NULL => lock.started <= lock.run.at
    /\ \A x \in Execs : Ghost(x) =>
         /\ \A e \in Execs : Busy(e) => started[x] <= run[e].at
         /\ lock # NULL => started[x] <= lock.run.at \/ DoneInput(lock.input)

Ordered == OneBusy /\ HeldInv /\ EpochInv
OrderInv == raced \/ overrun \/ Ordered
-----------------------------------------------------------------------------
LEMMA DecisionCases ==
    ASSUME NEW e
    PROVE  /\ lock_decision(e) = "fresh" <=> lock = NULL \/ now - lock.started >= LockStale
           /\ lock_decision(e) = "resume" <=>
                /\ lock # NULL /\ ~ (now - lock.started >= LockStale)
                /\ lock.input = InputOf[e] \/ now - lock.beat >= BeatStale
           /\ lock_decision(e) = "skip" <=>
                /\ lock # NULL /\ ~ (now - lock.started >= LockStale)
                /\ ~ (lock.input = InputOf[e] \/ now - lock.beat >= BeatStale)
BY DEF lock_decision

(* Where a step takes an execution, and when. *)
LEMMA EnterIs ==
    ASSUME RunLockTypeOK, NEW e \in Execs, NEW step \in Steps, Enter(e, step)
    PROVE  /\ pc' \in [Execs -> Steps] /\ since' \in [Execs -> Time]
           /\ pc'[e] = step
           /\ since'[e] = IF step \in {"popping", "done", "dead"} THEN now ELSE since[e]
           /\ \A f \in Execs : f # e => pc'[f] = pc[f] /\ since'[f] = since[f]
BY DEF RunLockTypeOK, Enter, Steps

LEMMA BeatTimers ==
    ASSUME RunLockTypeOK, NEW e \in Execs
    PROVE  /\ NoBeat(e) =>
                /\ beat' \in [Execs -> {"off", "waiting", "sending"}]
                /\ due' \in [Execs -> Nat] /\ stamp' \in [Execs -> Time]
                /\ beat'[e] = "off"
                /\ \A f \in Execs : f # e =>
                     beat'[f] = beat[f] /\ due'[f] = due[f] /\ stamp'[f] = stamp[f]
           /\ AwaitBeat(e) =>
                /\ beat' \in [Execs -> {"off", "waiting", "sending"}]
                /\ due' \in [Execs -> Nat] /\ stamp' \in [Execs -> Time]
                /\ beat'[e] = "waiting" /\ due'[e] = now + BeatEvery
                /\ \A f \in Execs : f # e =>
                     beat'[f] = beat[f] /\ due'[f] = due[f] /\ stamp'[f] = stamp[f]
<1> USE RunLockAssumption
<1>1. 0 \in Time /\ now + BeatEvery \in Nat
  BY DEF RunLockTypeOK, Time
<1>2. NoBeat(e) =>
        /\ beat' \in [Execs -> {"off", "waiting", "sending"}]
        /\ due' \in [Execs -> Nat] /\ stamp' \in [Execs -> Time]
        /\ beat'[e] = "off"
        /\ \A f \in Execs : f # e =>
             beat'[f] = beat[f] /\ due'[f] = due[f] /\ stamp'[f] = stamp[f]
  BY <1>1 DEF RunLockTypeOK, NoBeat
<1>3. AwaitBeat(e) =>
        /\ beat' \in [Execs -> {"off", "waiting", "sending"}]
        /\ due' \in [Execs -> Nat] /\ stamp' \in [Execs -> Time]
        /\ beat'[e] = "waiting" /\ due'[e] = now + BeatEvery
        /\ \A f \in Execs : f # e =>
             beat'[f] = beat[f] /\ due'[f] = due[f] /\ stamp'[f] = stamp[f]
  BY <1>1 DEF RunLockTypeOK, AwaitBeat
<1> QED
  BY <1>2, <1>3

LEMMA LockInvInit == Init => LockInv
<1> SUFFICES ASSUME Init PROVE LockInv
  OBVIOUS
<1>1. 0 \in Time
  BY RunLockAssumption DEF Time
<1>2. RunLockTypeOK
  BY <1>1 DEF Init, RunLockTypeOK, Steps
<1>3. \A e \in Execs : /\ pc[e] = "idle" /\ beat[e] = "off"
                       /\ since[e] = 0 /\ started[e] = 0 /\ now = 0
  BY DEF Init
<1>4. BeatInv
  <2> SUFFICES ASSUME NEW e \in Execs PROVE BeatOk(e)
    BY DEF BeatInv
  <2>1. /\ pc[e] = "idle" /\ beat[e] = "off"
        /\ since[e] = 0 /\ started[e] = 0 /\ now = 0
    BY <1>3
  <2> QED
    BY <2>1 DEF BeatOk
<1> QED
  BY <1>2, <1>4 DEF Init, LockInv, FreshInv, WriterInv
(* Nothing of f changes. *)
Still(f) ==
    /\ pc'[f] = pc[f] /\ run'[f] = run[f] /\ started'[f] = started[f]
    /\ beat'[f] = beat[f] /\ due'[f] = due[f] /\ stamp'[f] = stamp[f]
    /\ since'[f] = since[f]

LEMMA StillKeeps ==
    ASSUME NEW f \in Execs, BeatOk(f), Still(f), now' = now PROVE BeatOk(f)'
BY DEF BeatOk, Still

LEMMA IdleIsOff ==
    ASSUME LockInv, NEW e \in Execs, pc[e] \in {"idle", "resuming", "writing", "skipped", "dead"}
    PROVE  beat[e] = "off"
<1>1. BeatOk(e) /\ beat[e] \in {"off", "waiting", "sending"}
  BY DEF LockInv, BeatInv, RunLockTypeOK
<1> QED
  BY <1>1 DEF BeatOk

(* What Decide does. *)
LEMMA DecideIs ==
    ASSUME LockInv, NEW e \in Execs, Decide(e)
    PROVE  /\ RunLockTypeOK'
           /\ pc[e] = "idle" /\ pc'[e] \in {"skipped", "resuming", "writing"}
           /\ pc'[e] = "skipped" <=> lock_decision(e) = "skip"
           /\ pc'[e] = "resuming" <=> lock_decision(e) = "resume"
           /\ pc'[e] = "writing" <=> lock_decision(e) = "fresh"
           /\ pc'[e] # "skipped" => run'[e] \in RunId
           /\ pc'[e] = "resuming" => run'[e] = lock.run
           /\ pc'[e] = "writing" => run'[e].at = now /\ started'[e] = now
           /\ pc'[e] # "writing" => started'[e] = started[e]
           /\ UNCHANGED <<now, lock, beat, due, stamp, since, overrun>>
           /\ \A f \in Execs : f # e => Still(f)
<1> USE DEF LockInv
<1>0. pc[e] = "idle" /\ UNCHANGED <<now, lock, beat, due, stamp, overrun>> /\ raced' \in BOOLEAN
  BY DEF Decide, MayStart, RunLockTypeOK
<1>1. CASE lock_decision(e) = "skip" /\ Enter(e, "skipped") /\ UNCHANGED <<run, started>>
  <2>1. pc'[e] = "skipped" /\ since' = since
    BY <1>1, EnterIs DEF Enter, Steps
  <2>2. RunLockTypeOK'
    BY <1>0, <1>1, EnterIs DEF RunLockTypeOK, Steps
  <2> QED
    BY <1>0, <1>1, <2>1, <2>2, EnterIs DEF Still, Steps
<1>2. CASE lock_decision(e) = "resume" /\ Enter(e, "resuming")
           /\ run' = [run EXCEPT ![e] = lock.run] /\ UNCHANGED started
  <2>1. pc'[e] = "resuming" /\ since' = since
    BY <1>2, EnterIs DEF Enter, Steps
  <2>2. lock # NULL /\ lock.run \in RunId
    BY <1>2, DecisionCases DEF RunLockTypeOK, Lock
  <2>3. run'[e] = lock.run /\ \A f \in Execs : f # e => run'[f] = run[f]
    BY <1>2 DEF RunLockTypeOK
  <2>4. RunLockTypeOK'
    BY <1>0, <1>2, <2>2, EnterIs DEF RunLockTypeOK, Steps
  <2> QED
    BY <1>0, <1>2, <2>1, <2>2, <2>3, <2>4, EnterIs DEF Still, Steps
<1>3. ASSUME lock_decision(e) = "fresh", Enter(e, "writing"),
             NEW r \in FreshRuns(e), run' = [run EXCEPT ![e] = r],
             started' = [started EXCEPT ![e] = now]
      PROVE  /\ RunLockTypeOK' /\ pc'[e] = "writing" /\ since' = since
             /\ run'[e] \in RunId /\ run'[e].at = now /\ started'[e] = now
             /\ \A f \in Execs : f # e => Still(f)
  <2>1. pc'[e] = "writing" /\ since' = since
    BY <1>3, EnterIs DEF Enter, Steps
  <2>2. r \in RunId /\ r.at = now
    BY <1>3 DEF FreshRuns, RunLockTypeOK, RunId
  <2>3. run'[e] = r /\ started'[e] = now
        /\ \A f \in Execs : f # e => run'[f] = run[f] /\ started'[f] = started[f]
    BY <1>3 DEF RunLockTypeOK
  <2>4. RunLockTypeOK'
    BY <1>0, <1>3, <2>2, EnterIs DEF RunLockTypeOK, Steps
  <2> QED
    BY <1>0, <1>3, <2>1, <2>2, <2>3, <2>4, EnterIs DEF Still, Steps
<1>4. CASE /\ lock_decision(e) = "fresh" /\ Enter(e, "writing")
           /\ \E r \in FreshRuns(e) : run' = [run EXCEPT ![e] = r]
           /\ started' = [started EXCEPT ![e] = now]
  BY <1>0, <1>3, <1>4
<1> QED
  BY <1>1, <1>2, <1>4 DEF Decide
LEMMA KeepEpochIs ==
    ASSUME LockInv, NEW e \in Execs, KeepEpoch(e)
    PROVE  /\ RunLockTypeOK'
           /\ pc[e] = "resuming" /\ pc'[e] = "writing"
           /\ started'[e] = IF lock = NULL THEN now ELSE lock.started
           /\ UNCHANGED <<now, lock, run, beat, due, stamp, since, history>>
           /\ \A f \in Execs : f # e => Still(f)
<1> USE DEF LockInv
<1>1. pc[e] = "resuming" /\ UNCHANGED <<now, lock, run, beat, due, stamp, history>>
      /\ pc'[e] = "writing" /\ since' = since
  BY EnterIs DEF KeepEpoch, Enter, Steps
<1>2. (IF lock = NULL THEN now ELSE lock.started) \in Time
  BY DEF RunLockTypeOK, Lock
<1>3. started' \in [Execs -> Time]
      /\ started'[e] = (IF lock = NULL THEN now ELSE lock.started)
      /\ \A f \in Execs : f # e => started'[f] = started[f]
  BY <1>2 DEF KeepEpoch, RunLockTypeOK
<1>4. pc' \in [Execs -> Steps] /\ \A f \in Execs : f # e => pc'[f] = pc[f]
  BY EnterIs DEF KeepEpoch, Steps
<1>5. RunLockTypeOK'
  BY <1>1, <1>3, <1>4 DEF RunLockTypeOK, history
<1> QED
  BY <1>1, <1>3, <1>4, <1>5 DEF Still, history

LEMMA LockOfIs ==
    ASSUME RunLockTypeOK, NEW e \in Execs, run[e] \in RunId, NEW at \in Time
    PROVE  /\ LockOf(e, at) \in Lock /\ LockOf(e, at) # NULL
           /\ LockOf(e, at).run = run[e] /\ LockOf(e, at).started = started[e]
           /\ LockOf(e, at).beat = at /\ LockOf(e, at).input = InputOf[e]
BY RunLockAssumption DEF RunLockTypeOK, LockOf, Lock

LEMMA WriteLockIs ==
    ASSUME LockInv, NEW e \in Execs, WriteLock(e)
    PROVE  /\ RunLockTypeOK'
           /\ pc[e] = "writing" /\ pc'[e] = "staging"
           /\ lock' = LockOf(e, now)
           /\ beat'[e] = "waiting" /\ due'[e] = now + BeatEvery
           /\ UNCHANGED <<now, run, started, since, history>>
           /\ \A f \in Execs : f # e => Still(f)
<1> USE DEF LockInv
<1>1. pc[e] = "writing" /\ UNCHANGED <<now, run, started, history>> /\ lock' = LockOf(e, now)
      /\ pc'[e] = "staging" /\ since' = since
  BY EnterIs DEF WriteLock, Enter, Steps
<1>2. run[e] \in RunId /\ now \in Time
  BY <1>1 DEF BeatInv, BeatOk, RunLockTypeOK
<1>3. lock' \in Lock
  BY <1>1, <1>2, LockOfIs
<1>4. pc' \in [Execs -> Steps] /\ \A f \in Execs : f # e => pc'[f] = pc[f]
  BY EnterIs DEF WriteLock, Steps
<1>5. /\ beat' \in [Execs -> {"off", "waiting", "sending"}]
      /\ due' \in [Execs -> Nat] /\ stamp' \in [Execs -> Time]
      /\ beat'[e] = "waiting" /\ due'[e] = now + BeatEvery
      /\ \A f \in Execs : f # e =>
           beat'[f] = beat[f] /\ due'[f] = due[f] /\ stamp'[f] = stamp[f]
  BY BeatTimers DEF WriteLock
<1>6. RunLockTypeOK'
  BY <1>1, <1>3, <1>4, <1>5 DEF RunLockTypeOK, history
<1> QED
  BY <1>1, <1>4, <1>5, <1>6 DEF Still, history

LEMMA BeatBeginsIs ==
    ASSUME LockInv, NEW e \in Execs, BeatBegins(e)
    PROVE  /\ RunLockTypeOK'
           /\ pc[e] = "staging" /\ beat[e] = "waiting" /\ now >= due[e]
           /\ beat'[e] = "sending" /\ stamp'[e] = now
           /\ UNCHANGED <<now, lock, pc, run, started, due, since, history>>
           /\ \A f \in Execs : f # e => Still(f)
<1> USE DEF LockInv
<1>1. /\ beat' \in [Execs -> {"off", "waiting", "sending"}]
      /\ stamp' \in [Execs -> Time]
      /\ beat'[e] = "sending" /\ stamp'[e] = now
      /\ \A f \in Execs : f # e => beat'[f] = beat[f] /\ stamp'[f] = stamp[f]
  BY DEF BeatBegins, RunLockTypeOK
<1>2. RunLockTypeOK'
  BY <1>1 DEF BeatBegins, RunLockTypeOK, history
<1> QED
  BY <1>1, <1>2 DEF BeatBegins, Still

LEMMA BeatLandsIs ==
    ASSUME LockInv, NEW e \in Execs, BeatLands(e)
    PROVE  /\ RunLockTypeOK'
           /\ beat[e] = "sending" /\ lock' = LockOf(e, stamp[e])
           /\ pc[e] = "staging" => beat'[e] = "waiting" /\ due'[e] = now + BeatEvery
           /\ pc[e] # "staging" => beat'[e] = "off"
           /\ UNCHANGED <<now, pc, run, started, since, history>>
           /\ \A f \in Execs : f # e => Still(f)
<1> USE DEF LockInv
<1>1. /\ beat' \in [Execs -> {"off", "waiting", "sending"}]
      /\ due' \in [Execs -> Nat] /\ stamp' \in [Execs -> Time]
      /\ pc[e] = "staging" => beat'[e] = "waiting" /\ due'[e] = now + BeatEvery
      /\ pc[e] # "staging" => beat'[e] = "off"
      /\ \A f \in Execs : f # e =>
           beat'[f] = beat[f] /\ due'[f] = due[f] /\ stamp'[f] = stamp[f]
  BY BeatTimers DEF BeatLands
<1>2. pc[e] \in {"staging", "popping", "done"}
  BY DEF BeatLands, BeatInv, BeatOk
<1>3. run[e] \in RunId /\ stamp[e] \in Time
  BY <1>2 DEF BeatInv, BeatOk, RunLockTypeOK
<1>4. lock' \in Lock
  BY <1>3, LockOfIs DEF BeatLands
<1>5. RunLockTypeOK'
  BY <1>1, <1>4 DEF BeatLands, RunLockTypeOK, history
<1> QED
  BY <1>1, <1>5 DEF BeatLands, Still

LEMMA StagesEndIs ==
    ASSUME LockInv, NEW e \in Execs, StagesEnd(e)
    PROVE  /\ RunLockTypeOK'
           /\ pc[e] = "staging" /\ pc'[e] = "popping" /\ since'[e] = now
           /\ beat[e] = "waiting" => beat'[e] = "off"
           /\ beat[e] # "waiting" => beat'[e] = beat[e] /\ due'[e] = due[e] /\ stamp'[e] = stamp[e]
           /\ UNCHANGED <<now, lock, run, started, history>>
           /\ \A f \in Execs : f # e => Still(f)
<1> USE DEF LockInv
<1>1. /\ pc' \in [Execs -> Steps] /\ since' \in [Execs -> Time]
      /\ pc'[e] = "popping" /\ since'[e] = now
      /\ \A f \in Execs : f # e => pc'[f] = pc[f] /\ since'[f] = since[f]
  BY EnterIs DEF StagesEnd, Steps
<1>2. CASE beat[e] = "waiting"
  <2>1. NoBeat(e)
    BY <1>2 DEF StagesEnd
  <2>2. RunLockTypeOK'
    BY <1>1, <2>1, BeatTimers DEF StagesEnd, RunLockTypeOK, history
  <2> QED
    BY <1>1, <1>2, <2>1, <2>2, BeatTimers DEF StagesEnd, Still
<1>3. CASE beat[e] # "waiting"
  <2>1. UNCHANGED <<beat, due, stamp>>
    BY <1>3 DEF StagesEnd
  <2>2. RunLockTypeOK'
    BY <1>1, <2>1 DEF StagesEnd, RunLockTypeOK, history
  <2> QED
    BY <1>1, <1>3, <2>1, <2>2 DEF StagesEnd, Still
<1> QED
  BY <1>2, <1>3

LEMMA PopLockIs ==
    ASSUME LockInv, NEW e \in Execs, PopLock(e)
    PROVE  /\ RunLockTypeOK'
           /\ pc[e] = "popping" /\ pc'[e] = "done" /\ since'[e] = now /\ lock' = NULL
           /\ UNCHANGED <<now, run, started, beat, due, stamp, history>>
           /\ \A f \in Execs : f # e => Still(f)
<1> USE DEF LockInv
<1>1. /\ pc' \in [Execs -> Steps] /\ since' \in [Execs -> Time]
      /\ pc'[e] = "done" /\ since'[e] = now
      /\ \A f \in Execs : f # e => pc'[f] = pc[f] /\ since'[f] = since[f]
  BY EnterIs DEF PopLock, Steps
<1>2. RunLockTypeOK'
  BY <1>1 DEF PopLock, RunLockTypeOK, history
<1> QED
  BY <1>1, <1>2 DEF PopLock, Still

LEMMA DiesIs ==
    ASSUME LockInv, NEW e \in Execs, Dies(e)
    PROVE  /\ RunLockTypeOK'
           /\ Busy(e) /\ pc'[e] = "dead" /\ since'[e] = now /\ beat'[e] = "off"
           /\ UNCHANGED <<now, lock, run, started, history>>
           /\ \A f \in Execs : f # e => Still(f)
<1> USE DEF LockInv
<1>1. /\ pc' \in [Execs -> Steps] /\ since' \in [Execs -> Time]
      /\ pc'[e] = "dead" /\ since'[e] = now
      /\ \A f \in Execs : f # e => pc'[f] = pc[f] /\ since'[f] = since[f]
  BY EnterIs DEF Dies, Steps
<1>2. NoBeat(e)
  BY DEF Dies
<1>3. RunLockTypeOK'
  BY <1>1, <1>2, BeatTimers DEF Dies, RunLockTypeOK, history
<1> QED
  BY <1>1, <1>2, <1>3, BeatTimers DEF Dies, Still, Busy
-----------------------------------------------------------------------------
(* One lemma per action: LockInv is kept. *)

(* Where only e moves, the others' beats are in order as before. *)
LEMMA OthersKeep ==
    ASSUME LockInv, NEW e \in Execs, BeatOk(e)', now' = now,
           \A f \in Execs : f # e => Still(f)
    PROVE  BeatInv'
<1> SUFFICES ASSUME NEW f \in Execs PROVE BeatOk(f)'
  BY DEF BeatInv
<1>1. CASE f = e
  BY <1>1
<1>2. CASE f # e
  BY <1>2, StillKeeps DEF LockInv, BeatInv
<1> QED
  BY <1>1, <1>2

(* Where the lock stays, so does its writer, unless it moved. *)
LEMMA WriterStays ==
    ASSUME LockInv, NEW e \in Execs, lock' = lock,
           \A f \in Execs : f # e => Still(f),
           lock # NULL /\ Wrote(e) => Wrote(e)'
    PROVE  WriterInv'
<1> SUFFICES ASSUME lock' # NULL PROVE \E g \in Execs : Wrote(g)'
  BY DEF WriterInv
<1>1. PICK g \in Execs : Wrote(g)
  BY DEF LockInv, WriterInv
<1>2. CASE g = e
  BY <1>1, <1>2
<1>3. CASE g # e
  BY <1>1, <1>3 DEF Wrote, Still
<1> QED
  BY <1>2, <1>3

LEMMA DecideKeeps == ASSUME LockInv, NEW e \in Execs, Decide(e) PROVE LockInv'
<1>1. beat[e] = "off" /\ BeatOk(e)
  BY DecideIs, IdleIsOff DEF LockInv, BeatInv
<1>2. BeatOk(e)'
  <2>1. started'[e] <= now
    BY <1>1, DecideIs DEF BeatOk, LockInv, RunLockTypeOK, Time
  <2> QED
    BY <1>1, <2>1, DecideIs DEF BeatOk
<1>3. BeatInv'
  BY <1>2, DecideIs, OthersKeep
<1>4. FreshInv'
  <2> SUFFICES ASSUME lock' # NULL, NEW f \in Execs
               PROVE (/\ lock.beat <= now /\ lock.started <= now
                      /\ beat[f] # "off" => due[f] <= lock.beat + BeatEvery + Late
                      /\ pc[f] = "popping" => since[f] <= lock.beat + BeatEvery + Late + Late)'
    BY DecideIs DEF FreshInv, LockInv
  <2>1. pc'[f] = "popping" => pc[f] = "popping"
    BY DecideIs DEF Still
  <2> QED
    BY <2>1, DecideIs DEF FreshInv, LockInv
<1>5. WriterInv'
  BY DecideIs, WriterStays DEF Wrote
<1> QED
  BY <1>3, <1>4, <1>5, DecideIs DEF LockInv

LEMMA KeepEpochKeeps == ASSUME LockInv, NEW e \in Execs, KeepEpoch(e) PROVE LockInv'
<1>1. beat[e] = "off" /\ BeatOk(e)
  BY KeepEpochIs, IdleIsOff DEF LockInv, BeatInv
<1>2. BeatOk(e)'
  <2>1. started'[e] <= now
    BY KeepEpochIs DEF LockInv, FreshInv, RunLockTypeOK, Time
  <2> QED
    BY <1>1, <2>1, KeepEpochIs DEF BeatOk
<1>3. BeatInv'
  BY <1>2, KeepEpochIs, OthersKeep
<1>4. FreshInv'
  BY KeepEpochIs DEF FreshInv, LockInv, Still
<1>5. WriterInv'
  BY KeepEpochIs, WriterStays DEF Wrote
<1> QED
  BY <1>3, <1>4, <1>5, KeepEpochIs DEF LockInv
(* A record that is no older than Late is fresh enough for everybody.       *)
LEMMA FreshWrite ==
    ASSUME LockInv, NEW at \in Time, at <= now, now <= at + Late, NEW f \in Execs
    PROVE  /\ beat[f] # "off" => due[f] <= at + BeatEvery + Late
           /\ pc[f] = "popping" => since[f] <= at + BeatEvery + Late + Late
<1>1. /\ BeatOk(f) /\ due[f] \in Nat /\ since[f] \in Nat /\ now \in Nat /\ at \in Nat
  BY DEF LockInv, BeatInv, RunLockTypeOK, Time
<1> QED
  BY <1>1, RunLockAssumption DEF BeatOk

LEMMA WriteLockKeeps == ASSUME LockInv, NEW e \in Execs, WriteLock(e) PROVE LockInv'
<1> USE RunLockAssumption
<1>0. now \in Nat /\ now \in Time /\ run[e] \in RunId
  BY WriteLockIs DEF LockInv, RunLockTypeOK, Time, BeatInv, BeatOk
<1>1. BeatOk(e) /\ beat[e] = "off"
  BY WriteLockIs, IdleIsOff DEF LockInv, BeatInv
<1>2. BeatOk(e)'
  <2>1. now <= due'[e] + Late /\ due'[e] <= now + BeatEvery
    BY <1>0, WriteLockIs
  <2> QED
    BY <1>1, <2>1, WriteLockIs DEF BeatOk
<1>3. BeatInv'
  BY <1>2, WriteLockIs, OthersKeep
<1>4. /\ lock' # NULL /\ lock'.run = run[e] /\ lock'.started = started[e]
      /\ lock'.beat = now /\ lock'.input = InputOf[e]
  BY <1>0, LockOfIs, WriteLockIs DEF LockInv
<1>5. FreshInv'
  <2>1. lock'.beat <= now' /\ lock'.started <= now'
    BY <1>0, <1>1, <1>4, WriteLockIs DEF BeatOk
  <2>2. ASSUME NEW f \in Execs
        PROVE (/\ beat[f] # "off" => due[f] <= lock.beat + BeatEvery + Late
               /\ pc[f] = "popping" => since[f] <= lock.beat + BeatEvery + Late + Late)'
    <3>1. CASE f = e
      <4>1. due'[e] = now + BeatEvery /\ pc'[e] = "staging"
        BY WriteLockIs
      <4> QED
        BY <1>0, <1>4, <3>1, <4>1
    <3>2. CASE f # e
      <4>1. /\ beat[f] # "off" => due[f] <= now + BeatEvery + Late
            /\ pc[f] = "popping" => since[f] <= now + BeatEvery + Late + Late
        BY <1>0, FreshWrite
      <4> QED
        BY <1>4, <3>2, <4>1, WriteLockIs DEF Still
    <3> QED
      BY <3>1, <3>2
  <2> QED
    BY <2>1, <2>2 DEF FreshInv
<1>6. WriterInv'
  <2>1. Wrote(e)'
    BY <1>4, WriteLockIs DEF Wrote
  <2> QED
    BY <2>1 DEF WriterInv
<1> QED
  BY <1>3, <1>5, <1>6, WriteLockIs DEF LockInv

LEMMA BeatBeginsKeeps == ASSUME LockInv, NEW e \in Execs, BeatBegins(e) PROVE LockInv'
<1>1. BeatOk(e)
  BY DEF LockInv, BeatInv
<1>2. now \in Nat /\ due[e] \in Nat
  BY DEF LockInv, RunLockTypeOK, Time
<1>3. BeatOk(e)'
  BY <1>1, <1>2, BeatBeginsIs DEF BeatOk
<1>4. BeatInv'
  BY <1>3, BeatBeginsIs, OthersKeep
<1>5. FreshInv'
  <2> SUFFICES ASSUME lock' # NULL, NEW f \in Execs
               PROVE (/\ lock.beat <= now /\ lock.started <= now
                      /\ beat[f] # "off" => due[f] <= lock.beat + BeatEvery + Late
                      /\ pc[f] = "popping" => since[f] <= lock.beat + BeatEvery + Late + Late)'
    BY BeatBeginsIs DEF FreshInv, LockInv
  <2>1. beat[e] # "off"
    BY BeatBeginsIs
  <2>2. beat'[f] # "off" => beat[f] # "off"
    BY <2>1, BeatBeginsIs DEF Still
  <2> QED
    BY <2>2, BeatBeginsIs DEF FreshInv, LockInv
<1>6. WriterInv'
  BY BeatBeginsIs, WriterStays DEF Wrote
<1> QED
  BY <1>4, <1>5, <1>6, BeatBeginsIs DEF LockInv

LEMMA BeatLandsKeeps == ASSUME LockInv, NEW e \in Execs, BeatLands(e) PROVE LockInv'
<1> USE RunLockAssumption
<1>0. /\ now \in Nat /\ stamp[e] \in Nat /\ stamp[e] \in Time /\ due[e] \in Nat
      /\ beat[e] \in {"off", "waiting", "sending"} /\ started[e] \in Nat /\ since[e] \in Nat
  BY DEF LockInv, RunLockTypeOK, Time
<1>1. BeatOk(e) /\ beat[e] = "sending"
  BY BeatLandsIs DEF LockInv, BeatInv
<1>2. /\ pc[e] \in {"staging", "popping", "done"} /\ run[e] \in RunId
      /\ due[e] <= stamp[e] /\ stamp[e] <= now /\ now <= stamp[e] + Late
      /\ pc[e] # "staging" => stamp[e] <= since[e]
  BY <1>0, <1>1 DEF BeatOk
<1>3. BeatOk(e)'
  <2>1. CASE pc[e] = "staging"
    <3>1. beat'[e] = "waiting" /\ now <= due'[e] + Late /\ due'[e] <= now + BeatEvery
      BY <1>0, <2>1, BeatLandsIs
    <3> QED
      BY <1>1, <2>1, <3>1, BeatLandsIs DEF BeatOk
  <2>2. CASE pc[e] # "staging"
    BY <1>1, <2>2, BeatLandsIs DEF BeatOk
  <2> QED
    BY <2>1, <2>2
<1>4. BeatInv'
  BY <1>3, BeatLandsIs, OthersKeep
<1>5. /\ lock' # NULL /\ lock'.run = run[e] /\ lock'.started = started[e]
      /\ lock'.beat = stamp[e] /\ lock'.input = InputOf[e]
  BY <1>0, <1>2, LockOfIs, BeatLandsIs DEF LockInv
<1>6. FreshInv'
  <2>1. lock'.beat <= now' /\ lock'.started <= now'
    BY <1>1, <1>2, <1>5, BeatLandsIs DEF BeatOk
  <2>2. ASSUME NEW f \in Execs
        PROVE (/\ beat[f] # "off" => due[f] <= lock.beat + BeatEvery + Late
               /\ pc[f] = "popping" => since[f] <= lock.beat + BeatEvery + Late + Late)'
    <3>0. /\ beat[f] # "off" => due[f] <= stamp[e] + BeatEvery + Late
          /\ pc[f] = "popping" => since[f] <= stamp[e] + BeatEvery + Late + Late
      BY <1>0, <1>2, FreshWrite
    <3>1. CASE f = e
      <4>1. beat'[e] # "off" => due'[e] <= stamp[e] + BeatEvery + Late
        BY <1>0, <1>2, BeatLandsIs
      <4> QED
        BY <1>5, <3>0, <3>1, <4>1, BeatLandsIs
    <3>2. CASE f # e
      BY <1>5, <3>0, <3>2, BeatLandsIs DEF Still
    <3> QED
      BY <3>1, <3>2
  <2> QED
    BY <2>1, <2>2 DEF FreshInv
<1>7. WriterInv'
  <2>1. Wrote(e)'
    BY <1>2, <1>5, BeatLandsIs DEF Wrote
  <2> QED
    BY <2>1 DEF WriterInv
<1> QED
  BY <1>4, <1>6, <1>7, BeatLandsIs DEF LockInv

LEMMA StagesEndKeeps == ASSUME LockInv, NEW e \in Execs, StagesEnd(e) PROVE LockInv'
<1> USE RunLockAssumption
<1>0. /\ now \in Nat /\ due[e] \in Nat /\ beat[e] \in {"off", "waiting", "sending"}
      /\ lock # NULL => lock.beat \in Nat
  BY DEF LockInv, RunLockTypeOK, Time, Lock
<1>1. BeatOk(e) /\ pc[e] = "staging" /\ beat[e] # "off"
  BY StagesEndIs DEF LockInv, BeatInv, BeatOk
<1>2. BeatOk(e)'
  <2>1. beat'[e] \in {"off", "sending"} /\ (beat'[e] = "sending" => beat[e] = "sending")
    BY <1>0, StagesEndIs
  <2> QED
    BY <1>0, <1>1, <2>1, StagesEndIs DEF BeatOk
<1>3. BeatInv'
  BY <1>2, StagesEndIs, OthersKeep
<1>4. FreshInv'
  <2> SUFFICES ASSUME lock' # NULL, NEW f \in Execs
               PROVE (/\ lock.beat <= now /\ lock.started <= now
                      /\ beat[f] # "off" => due[f] <= lock.beat + BeatEvery + Late
                      /\ pc[f] = "popping" => since[f] <= lock.beat + BeatEvery + Late + Late)'
    BY StagesEndIs DEF FreshInv, LockInv
  <2>1. CASE f = e
    <3>1. now <= due[e] + Late /\ due[e] <= lock.beat + BeatEvery + Late
      BY <1>1, StagesEndIs DEF BeatOk, FreshInv, LockInv
    <3>2. since'[e] <= lock.beat + BeatEvery + Late + Late
      BY <1>0, <3>1, StagesEndIs
    <3>3. beat'[e] # "off" => due'[e] = due[e]
      BY StagesEndIs
    <3> QED
      BY <2>1, <3>1, <3>2, <3>3, StagesEndIs DEF FreshInv, LockInv
  <2>2. CASE f # e
    BY <2>2, StagesEndIs DEF FreshInv, LockInv, Still
  <2> QED
    BY <2>1, <2>2
<1>5. WriterInv'
  BY StagesEndIs, WriterStays DEF Wrote
<1> QED
  BY <1>3, <1>4, <1>5, StagesEndIs DEF LockInv
LEMMA PopLockKeeps == ASSUME LockInv, NEW e \in Execs, PopLock(e) PROVE LockInv'
<1>0. /\ now \in Nat /\ since[e] \in Nat /\ stamp[e] \in Nat
      /\ beat[e] \in {"off", "waiting", "sending"}
  BY DEF LockInv, RunLockTypeOK, Time
<1>1. BeatOk(e)
  BY DEF LockInv, BeatInv
<1>2. BeatOk(e)'
  BY <1>0, <1>1, PopLockIs DEF BeatOk
<1>3. BeatInv'
  BY <1>2, PopLockIs, OthersKeep
<1> QED
  BY <1>3, PopLockIs DEF LockInv, FreshInv, WriterInv

LEMMA DiesKeeps == ASSUME LockInv, NEW e \in Execs, Dies(e) PROVE LockInv'
<1>0. /\ now \in Nat /\ since[e] \in Nat
      /\ lock # NULL => lock.beat \in Nat
  BY DEF LockInv, RunLockTypeOK, Time, Lock
<1>1. BeatOk(e)
  BY DEF LockInv, BeatInv
<1>2. BeatOk(e)'
  BY <1>0, <1>1, DiesIs DEF BeatOk, Busy
<1>3. BeatInv'
  BY <1>2, DiesIs, OthersKeep
<1>4. FreshInv'
  <2> SUFFICES ASSUME lock' # NULL, NEW f \in Execs
               PROVE (/\ lock.beat <= now /\ lock.started <= now
                      /\ beat[f] # "off" => due[f] <= lock.beat + BeatEvery + Late
                      /\ pc[f] = "popping" => since[f] <= lock.beat + BeatEvery + Late + Late)'
    BY DiesIs DEF FreshInv, LockInv
  <2>1. CASE f = e
    BY <2>1, DiesIs DEF FreshInv, LockInv
  <2>2. CASE f # e
    BY <2>2, DiesIs DEF FreshInv, LockInv, Still
  <2> QED
    BY <2>1, <2>2
<1>5. WriterInv'
  <2>1. lock # NULL /\ Wrote(e) => Wrote(e)'
    BY <1>0, DiesIs DEF Wrote, LockInv, FreshInv
  <2> QED
    BY <2>1, DiesIs, WriterStays
<1> QED
  BY <1>3, <1>4, <1>5, DiesIs DEF LockInv

LEMMA UnlockKeeps == ASSUME LockInv, Unlock PROVE LockInv'
<1>1. /\ lock' = NULL
      /\ UNCHANGED <<now, pc, run, started, beat, due, stamp, since, overrun, raced>>
  BY DEF Unlock, history
<1>2. RunLockTypeOK'
  BY <1>1 DEF LockInv, RunLockTypeOK
<1>3. BeatInv'
  BY <1>1 DEF LockInv, BeatInv, BeatOk
<1> QED
  BY <1>1, <1>2, <1>3 DEF LockInv, FreshInv, WriterInv

LEMMA TickIs ==
    ASSUME LockInv, Tick
    PROVE  /\ RunLockTypeOK'
           /\ now \in Nat /\ now' = now + 1
           /\ overrun' = (overrun \/ OverCap(now'))
           /\ UNCHANGED <<lock, pc, run, started, beat, due, stamp, since, raced>>
<1>1. overrun' \in BOOLEAN
  BY DEF Tick
<1>2. now \in Nat /\ now' = now + 1 /\ now' \in Time
  BY RunLockAssumption DEF Tick, LockInv, RunLockTypeOK, Time
<1> QED
  BY <1>1, <1>2 DEF Tick, LockInv, RunLockTypeOK

LEMMA TickKeeps == ASSUME LockInv, Tick PROVE LockInv'
<1> USE RunLockAssumption
<1>1. BeatInv'
  <2> SUFFICES ASSUME NEW e \in Execs PROVE BeatOk(e)'
    BY DEF BeatInv
  <2>1. /\ BeatOk(e) /\ due[e] \in Nat /\ stamp[e] \in Nat /\ since[e] \in Nat
        /\ started[e] \in Nat
    BY DEF LockInv, BeatInv, RunLockTypeOK, Time
  <2>2. /\ now \in Nat /\ now' = now + 1
        /\ beat[e] # "off" => now < due[e] + Late
        /\ pc[e] = "popping" => now < since[e] + Late
    BY DEF Tick, LockInv, RunLockTypeOK, Time
  <2>3. /\ beat[e] = "sending" => stamp[e] <= now'
        /\ since[e] <= now' /\ started[e] <= now'
    BY <2>1, <2>2 DEF BeatOk
  <2>4. beat[e] # "off" => now' <= due[e] + Late /\ due[e] <= now' + BeatEvery
    BY <2>1, <2>2 DEF BeatOk
  <2>5. pc[e] = "popping" => now' <= since[e] + Late
    BY <2>1, <2>2
  <2> QED
    BY <2>1, <2>3, <2>4, <2>5, TickIs DEF BeatOk
<1>2. FreshInv'
  <2>1. lock # NULL => lock.beat \in Nat /\ lock.started \in Nat
    BY DEF LockInv, RunLockTypeOK, Lock, Time
  <2>2. lock # NULL => lock.beat <= now' /\ lock.started <= now'
    BY <2>1, TickIs DEF LockInv, FreshInv
  <2> QED
    BY <2>2, TickIs DEF LockInv, FreshInv
<1>3. WriterInv'
  BY TickIs DEF LockInv, WriterInv, Wrote
<1> QED
  BY <1>1, <1>2, <1>3, TickIs DEF LockInv

LEMMA LockInvStep == LockInv /\ [Next]_vars => LockInv'
<1> SUFFICES ASSUME LockInv, [Next]_vars PROVE LockInv'
  OBVIOUS
<1>1. CASE Next
  BY <1>1, DecideKeeps, KeepEpochKeeps, WriteLockKeeps, BeatBeginsKeeps, BeatLandsKeeps,
     StagesEndKeeps, PopLockKeeps, DiesKeeps, UnlockKeeps, TickKeeps DEF Next
<1>2. CASE UNCHANGED vars
  <2>1. UNCHANGED <<now, lock, pc, run, started, beat, due, stamp, since, overrun, raced>>
    BY <1>2 DEF vars, history
  <2>2. RunLockTypeOK' /\ BeatInv'
    BY <2>1 DEF LockInv, RunLockTypeOK, BeatInv, BeatOk
  <2>3. FreshInv' /\ WriterInv'
    BY <2>1 DEF LockInv, FreshInv, WriterInv, Wrote
  <2> QED
    BY <2>2, <2>3 DEF LockInv
<1> QED
  BY <1>1, <1>2

THEOREM LockInvariant == Spec => []LockInv
BY LockInvInit, LockInvStep, PTL DEF Spec

(* The type invariant.                                                       *)
THEOREM RunLockTypeCorrect == Spec => []RunLockTypeOK
<1>1. LockInv => RunLockTypeOK
  BY DEF LockInv
<1> QED
  BY <1>1, LockInvariant, PTL

(* A lock that stands is fresh while anybody still has to write or pop it.  *)
LEMMA FreshWhileHeld ==
    ASSUME LockInv, lock # NULL, NEW e \in Execs, beat[e] # "off" \/ pc[e] = "popping"
    PROVE  ~ (now - lock.beat >= BeatStale)
<1>1. /\ now \in Nat /\ lock.beat \in Nat /\ due[e] \in Nat /\ since[e] \in Nat
  BY DEF LockInv, RunLockTypeOK, Lock, Time
<1>2. \/ now <= due[e] + Late /\ due[e] <= lock.beat + BeatEvery + Late
      \/ now <= since[e] + Late /\ since[e] <= lock.beat + BeatEvery + Late + Late
  BY DEF LockInv, BeatInv, BeatOk, FreshInv
<1>3. /\ BeatEvery \in Nat /\ Late \in Nat /\ BeatStale \in Nat
      /\ BeatEvery + Late + Late + Late < BeatStale
  BY RunLockAssumption
<1> QED
  BY <1>1, <1>2, <1>3

(* Only Decide takes an idle execution anywhere. *)
LEMMA OnlyDecideStarts ==
    ASSUME LockInv, Next, NEW e \in Execs, pc[e] = "idle", pc'[e] # "idle"
    PROVE  Decide(e)
<1>1. ASSUME NEW g \in Execs,
             Decide(g) \/ KeepEpoch(g) \/ WriteLock(g) \/ BeatBegins(g) \/ BeatLands(g)
             \/ StagesEnd(g) \/ PopLock(g) \/ Dies(g)
      PROVE  Decide(e)
  <2>1. CASE g # e
    <3>1. Still(e)
      BY <1>1, <2>1, DecideIs, KeepEpochIs, WriteLockIs, BeatBeginsIs, BeatLandsIs,
         StagesEndIs, PopLockIs, DiesIs
    <3> QED
      BY <3>1 DEF Still
  <2>2. CASE g = e
    <3>1. beat[e] = "off"
      BY IdleIsOff
    <3> QED
      BY <1>1, <2>2, <3>1 DEF KeepEpoch, WriteLock, BeatBegins, BeatLands, StagesEnd, PopLock, Dies
  <2> QED
    BY <2>1, <2>2
<1>2. Unlock \/ Tick => pc' = pc
  BY DEF Unlock, Tick
<1> QED
  BY <1>1, <1>2 DEF Next

(***************************************************************************)
(* TakeoversAreOfTheDead, for every run, race and delay: while anybody is  *)
(* at work, whatever lock stands is fresh, and a stranger resumes none.     *)
(***************************************************************************)
THEOREM TakeoversOfTheDead == Spec => TakeoversAreOfTheDead
<1>1. LockInv /\ [Next]_vars =>
        [\A e \in Execs :
           pc[e] = "idle" /\ pc'[e] = "resuming" /\ lock.input # InputOf[e] =>
             \A f \in Execs : AtWork(f) => run[f] # run'[e]]_vars
  <2> SUFFICES ASSUME LockInv, Next, NEW e \in Execs, pc[e] = "idle", pc'[e] = "resuming",
                      lock.input # InputOf[e], NEW f \in Execs, AtWork(f)
               PROVE  FALSE
    OBVIOUS
  <2>1. lock # NULL /\ now - lock.beat >= BeatStale
    BY OnlyDecideStarts, DecideIs, DecisionCases
  <2>2. beat[f] # "off"
    BY DEF AtWork, LockInv, BeatInv, BeatOk
  <2> QED
    BY <2>1, <2>2, FreshWhileHeld
<1> QED
  BY <1>1, LockInvariant, PTL DEF Spec, TakeoversAreOfTheDead

(***************************************************************************)
(* RefusedOnlyByTheLiving: the writer of the lock that refuses, which       *)
(* WriterInv names, was at work no earlier than the lock's last beat.       *)
(***************************************************************************)
THEOREM RefusedByTheLiving == Spec => RefusedOnlyByTheLiving
<1>1. LockInv /\ [Next]_vars =>
        [\A e \in Execs :
           pc[e] = "idle" /\ pc'[e] = "skipped" =>
             \E f \in Execs :
               /\ run[f] = lock.run
               /\ \/ pc[f] \in {"staging", "popping"}
                  \/ pc[f] \in {"done", "dead"} /\ now - since[f] < BeatStale]_vars
  <2> SUFFICES ASSUME LockInv, Next, NEW e \in Execs, pc[e] = "idle", pc'[e] = "skipped"
               PROVE  \E f \in Execs :
                        /\ run[f] = lock.run
                        /\ \/ pc[f] \in {"staging", "popping"}
                           \/ pc[f] \in {"done", "dead"} /\ now - since[f] < BeatStale
    OBVIOUS
  <2>1. lock # NULL /\ ~ (now - lock.beat >= BeatStale)
    BY OnlyDecideStarts, DecideIs, DecisionCases
  <2>2. PICK f \in Execs : Wrote(f)
    BY <2>1 DEF LockInv, WriterInv
  <2>3. now \in Nat /\ lock.beat \in Nat /\ since[f] \in Nat /\ BeatStale \in Nat
    BY <2>1, RunLockAssumption DEF LockInv, RunLockTypeOK, Lock, Time
  <2>4. lock.beat <= since[f] => now - since[f] < BeatStale
    BY <2>1, <2>3
  <2> QED
    BY <2>2, <2>4 DEF Wrote
<1> QED
  BY <1>1, LockInvariant, PTL DEF Spec, RefusedOnlyByTheLiving
-----------------------------------------------------------------------------
(* One lemma per action: Ordered is kept, short of a race or an overrun.    *)

(* Whoever is at work refuses an invocation that does not race. *)
LEMMA NobodyBusy ==
    ASSUME LockInv, Ordered, NEW e \in Execs, Decide(e), ~raced', pc'[e] # "skipped",
           NEW f \in Execs
    PROVE  ~Busy(f)
<1> SUFFICES ASSUME Busy(f) PROVE FALSE
  OBVIOUS
<1>1. pc[f] \in {"staging", "popping"} /\ f # e
  BY DecideIs DEF Decide, Busy
<1>2. HeldOk(f)
  BY DEF Ordered, HeldInv
<1>3. lock # NULL /\ Young(lock.started) /\ (lock.input = InputOf[f] \/ DoneInput(lock.input))
  BY <1>1, <1>2 DEF HeldOk
<1>4. ~ (now - lock.started >= LockStale)
  <2>1. now \in Nat /\ lock.started \in Nat /\ LockStale \in Nat
    BY <1>3, RunLockAssumption DEF LockInv, RunLockTypeOK, Lock, Time
  <2> QED
    BY <1>3, <2>1 DEF Young
<1>5. ~ (now - lock.beat >= BeatStale)
  <2>1. beat[f] # "off" \/ pc[f] = "popping"
    BY <1>1 DEF LockInv, BeatInv, BeatOk
  <2> QED
    BY <1>3, <2>1, FreshWhileHeld
<1>6. lock.input # InputOf[e]
  <2>1. \A g \in Execs : g # e /\ InputOf[g] = InputOf[e] => pc[g] \in {"idle", "dead"}
    BY DEF Decide, MayStart
  <2>2. \A g \in Execs : pc[g] = "done" => g # e
    BY DecideIs
  <2> QED
    BY <1>1, <1>3, <2>1, <2>2 DEF DoneInput
<1> QED
  BY <1>3, <1>4, <1>5, <1>6, DecideIs, DecisionCases

LEMMA DecideOrders ==
    ASSUME LockInv, Ordered, NEW e \in Execs, Decide(e), ~raced' PROVE Ordered'
<1>0. /\ now \in Nat /\ now' = now /\ lock' = lock /\ LockStale \in Nat \ {0}
      /\ pc[e] = "idle" /\ pc'[e] \in {"skipped", "resuming", "writing"}
      /\ \A f \in Execs : f # e => Still(f)
      /\ lock # NULL => lock.started \in Nat
      /\ \A f \in Execs : started[f] \in Nat
  BY DecideIs, RunLockAssumption DEF LockInv, RunLockTypeOK, Lock, Time
<1>1. /\ \A f \in Execs : Busy(f)' <=> Busy(f) \/ (f = e /\ pc'[e] # "skipped")
      /\ \A f \in Execs : Ghost(f)' <=> Ghost(f)
      /\ \A input : DoneInput(input)' <=> DoneInput(input)
  BY <1>0, DecideIs DEF Busy, Ghost, DoneInput, Still
<1>2. pc'[e] # "skipped" => \A f \in Execs : ~Busy(f)
  BY NobodyBusy
<1>3. OneBusy'
  BY <1>1, <1>2 DEF Ordered, OneBusy
<1>4. \A x \in Execs : Ghost(x) /\ pc'[e] # "skipped" => started[x] <= run'[e].at
  <2> SUFFICES ASSUME NEW x \in Execs, Ghost(x), pc'[e] # "skipped"
               PROVE  started[x] <= run'[e].at
    OBVIOUS
  <2>1. CASE pc'[e] = "writing"
    <3>1. started[x] <= now
      BY DEF LockInv, BeatInv, BeatOk
    <3> QED
      BY <2>1, <3>1, DecideIs
  <2>2. CASE pc'[e] = "resuming"
    <3>1. lock # NULL /\ (lock.input = InputOf[e] \/ now - lock.beat >= BeatStale)
          /\ run'[e] = lock.run
      BY <2>2, DecideIs, DecisionCases
    <3>2. beat[x] # "off"
      BY DEF Ghost
    <3>3. lock.input = InputOf[e]
      BY <3>1, <3>2, FreshWhileHeld
    <3>4. ~DoneInput(lock.input)
      BY <1>0, <3>3 DEF DoneInput, Decide, MayStart
    <3> QED
      BY <3>1, <3>4 DEF Ordered, EpochInv
  <2> QED
    BY <1>0, <2>1, <2>2
<1>5. HeldInv'
  <2> SUFFICES ASSUME NEW f \in Execs PROVE HeldOk(f)'
    BY DEF HeldInv
  <2>1. CASE f # e
    BY <1>0, <1>1, <2>1 DEF Ordered, HeldInv, HeldOk, Still, Young, Ghost
  <2>2. CASE f = e /\ pc'[e] = "skipped"
    BY <2>2 DEF HeldOk, Ghost
  <2>3. CASE f = e /\ pc'[e] = "resuming"
    <3>1. lock # NULL /\ ~ (now - lock.started >= LockStale) /\ run'[e] = lock.run
      BY <2>3, DecideIs, DecisionCases
    <3>2. Young(lock.started)
      BY <1>0, <3>1 DEF Young
    <3>3. lock.started <= run'[e].at
      BY <3>1 DEF Ordered, EpochInv
    <3> QED
      BY <1>0, <2>3, <3>1, <3>2, <3>3 DEF HeldOk, Young, Ghost
  <2>4. CASE f = e /\ pc'[e] = "writing"
    <3>1. started'[e] = now /\ run'[e].at = now
      BY <2>4, DecideIs
    <3>2. now - now < LockStale /\ now <= now
      BY <1>0
    <3> QED
      BY <1>0, <2>4, <3>1, <3>2 DEF HeldOk, Young, Ghost
  <2> QED
    BY <1>0, <2>1, <2>2, <2>3, <2>4
<1>6. EpochInv'
  <2>1. lock' # NULL => lock'.started <= lock'.run.at
    BY <1>0 DEF Ordered, EpochInv
  <2>2. ASSUME NEW x \in Execs, Ghost(x)'
        PROVE  (/\ \A f \in Execs : Busy(f) => started[x] <= run[f].at
                /\ lock # NULL => started[x] <= lock.run.at \/ DoneInput(lock.input))'
    <3>1. Ghost(x) /\ x # e
      BY <1>0, <1>1, <2>2 DEF Ghost
    <3>2. started'[x] = started[x]
      BY <1>0, <3>1 DEF Still
    <3>3. ASSUME NEW f \in Execs, Busy(f)' PROVE started[x] <= run'[f].at
      <4>1. CASE f = e
        BY <1>4, <3>1, <3>3, <4>1 DEF Busy
      <4>2. CASE f # e
        BY <1>0, <1>1, <3>1, <3>3, <4>2 DEF Still, Ordered, EpochInv
      <4> QED
        BY <4>1, <4>2
    <3>4. (lock # NULL => started[x] <= lock.run.at \/ DoneInput(lock.input))'
      <4>1. lock # NULL => started[x] <= lock.run.at \/ DoneInput(lock.input)
        BY <3>1 DEF Ordered, EpochInv
      <4>2. \A y \in Execs : pc[y] = "done" => pc'[y] = "done"
        BY <1>0 DEF Still
      <4> QED
        BY <1>0, <3>2, <4>1, <4>2 DEF DoneInput
    <3>5. (\A f \in Execs : Busy(f) => started[x] <= run[f].at)'
      BY <3>2, <3>3
    <3> QED
      BY <3>4, <3>5
  <2> QED
    BY <2>1, <2>2 DEF EpochInv
<1> QED
  BY <1>3, <1>5, <1>6 DEF Ordered
(* Where e moves and the lock stays, the others hold what they held.        *)
LEMMA OthersHold ==
    ASSUME Ordered, NEW e \in Execs, NEW f \in Execs, Still(f), lock' = lock, now' = now,
           \A g \in Execs : pc[g] = "done" => pc'[g] = "done"
    PROVE  HeldOk(f)'
<1>1. HeldOk(f)
  BY DEF Ordered, HeldInv
<1>2. lock' = lock /\ DoneInput(lock.input) => DoneInput(lock.input)'
  BY DEF DoneInput
<1> QED
  BY <1>1, <1>2 DEF HeldOk, Still, Young, Ghost

LEMMA KeepEpochOrders ==
    ASSUME LockInv, Ordered, NEW e \in Execs, KeepEpoch(e) PROVE Ordered'
<1>0. /\ lock' = lock /\ now' = now /\ pc[e] = "resuming" /\ pc'[e] = "writing"
      /\ run' = run /\ beat' = beat /\ \A f \in Execs : f # e => Still(f)
  BY KeepEpochIs
<1>1. /\ \A f \in Execs : Busy(f)' <=> Busy(f)
      /\ \A f \in Execs : Ghost(f)' <=> Ghost(f)
      /\ \A f \in Execs : Ghost(f) => started'[f] = started[f]
      /\ \A f \in Execs : pc[f] = "done" => pc'[f] = "done"
  BY <1>0 DEF Busy, Ghost, Still
<1>2. OneBusy'
  BY <1>1 DEF Ordered, OneBusy
<1>3. HeldOk(e)'
  <2>1. lock # NULL /\ Young(lock.started) /\ lock.started <= run[e].at
    BY <1>0 DEF Ordered, HeldInv, HeldOk
  <2>2. started'[e] = lock.started
    BY <2>1, KeepEpochIs
  <2> QED
    BY <1>0, <2>1, <2>2 DEF HeldOk, Young, Ghost
<1>4. HeldInv'
  BY <1>0, <1>1, <1>3, OthersHold DEF HeldInv
<1>5. EpochInv'
  BY <1>0, <1>1 DEF Ordered, EpochInv, DoneInput
<1> QED
  BY <1>2, <1>4, <1>5 DEF Ordered

(* A busy execution writes its own lock. *)
LEMMA OwnWriteOrders ==
    ASSUME LockInv, Ordered, NEW e \in Execs, pc[e] \in {"writing", "staging", "popping"},
           pc'[e] \in {"staging", "popping"}, now' = now,
           lock' # NULL, lock'.run = run[e], lock'.started = started[e], lock'.input = InputOf[e],
           run' = run, started' = started, \A f \in Execs : f # e => Still(f)
    PROVE  Ordered'
<1>1. /\ \A f \in Execs : Busy(f)' <=> Busy(f)
      /\ \A f \in Execs : Ghost(f)' <=> Ghost(f)
      /\ Busy(e)
      /\ \A f \in Execs : f # e => ~Busy(f)
  BY DEF Busy, Ghost, Still, Ordered, OneBusy
<1>2. OneBusy'
  BY <1>1 DEF Ordered, OneBusy
<1>3. Young(started[e]) /\ started[e] <= run[e].at
  BY DEF Ordered, HeldInv, HeldOk
<1>4. HeldInv'
  <2> SUFFICES ASSUME NEW f \in Execs PROVE HeldOk(f)'
    BY DEF HeldInv
  <2>1. CASE f = e
    BY <1>3, <2>1 DEF HeldOk, Young, Ghost
  <2>2. CASE f # e
    <3>1. HeldOk(f) /\ ~Busy(f) /\ ~Busy(f)'
      BY <1>1, <2>2 DEF Ordered, HeldInv
    <3> QED
      BY <2>2, <3>1 DEF HeldOk, Young, Ghost, Busy, Still
  <2> QED
    BY <2>1, <2>2
<1>5. EpochInv'
  <2>1. (lock # NULL => lock.started <= lock.run.at)'
    BY <1>3
  <2>2. ASSUME NEW x \in Execs, Ghost(x)'
        PROVE  (/\ \A f \in Execs : Busy(f) => started[x] <= run[f].at
                /\ lock # NULL => started[x] <= lock.run.at)'
    BY <1>1, <2>2 DEF Ordered, EpochInv
  <2> QED
    BY <2>1, <2>2 DEF EpochInv
<1> QED
  BY <1>2, <1>4, <1>5 DEF Ordered

LEMMA WriteLockOrders ==
    ASSUME LockInv, Ordered, NEW e \in Execs, WriteLock(e) PROVE Ordered'
<1>1. run[e] \in RunId /\ now \in Time
  BY WriteLockIs DEF LockInv, BeatInv, BeatOk, RunLockTypeOK
<1> QED
  BY <1>1, WriteLockIs, LockOfIs, OwnWriteOrders DEF LockInv

LEMMA BeatBeginsOrders ==
    ASSUME LockInv, Ordered, NEW e \in Execs, BeatBegins(e) PROVE Ordered'
<1>1. /\ lock' = lock /\ now' = now /\ pc' = pc /\ run' = run /\ started' = started
      /\ pc[e] = "staging" /\ \A f \in Execs : f # e => Still(f)
  BY BeatBeginsIs
<1>2. \A f \in Execs : Ghost(f)' <=> Ghost(f)
  BY <1>1 DEF Ghost, Still
<1>3. HeldInv'
  BY <1>1, <1>2 DEF Ordered, HeldInv, HeldOk, Young, DoneInput
<1> QED
  BY <1>1, <1>2, <1>3 DEF Ordered, OneBusy, EpochInv, Busy, DoneInput

LEMMA BeatLandsOrders ==
    ASSUME LockInv, Ordered, NEW e \in Execs, BeatLands(e) PROVE Ordered'
<1>0. pc[e] \in {"staging", "popping", "done"} /\ run[e] \in RunId /\ stamp[e] \in Time
  BY BeatLandsIs DEF LockInv, BeatInv, BeatOk, RunLockTypeOK
<1>1. /\ lock' # NULL /\ lock'.run = run[e] /\ lock'.started = started[e]
      /\ lock'.input = InputOf[e] /\ beat[e] = "sending"
      /\ now' = now /\ pc' = pc /\ run' = run /\ started' = started
      /\ \A f \in Execs : f # e => Still(f)
  BY <1>0, BeatLandsIs, LockOfIs DEF LockInv
<1>2. CASE pc[e] # "done"
  BY <1>0, <1>1, <1>2, OwnWriteOrders
<1>3. CASE pc[e] = "done"
  <2>1. /\ \A f \in Execs : Busy(f)' <=> Busy(f)
        /\ \A f \in Execs : Ghost(f)' => Ghost(f)
        /\ Ghost(e) /\ DoneInput(lock.input)'
    <3>1. beat'[e] = "off"
      BY <1>3, BeatLandsIs
    <3> QED
      BY <1>1, <1>3, <3>1 DEF Busy, Ghost, Still, DoneInput
  <2>2. OneBusy'
    BY <2>1 DEF Ordered, OneBusy
  <2>3. Young(started[e]) /\ started[e] <= run[e].at
    BY <2>1 DEF Ordered, HeldInv, HeldOk
  <2>4. HeldInv'
    <3> SUFFICES ASSUME NEW f \in Execs PROVE HeldOk(f)'
      BY DEF HeldInv
    <3>1. HeldOk(f) /\ (Busy(f) => started[e] <= run[f].at)
      BY <2>1 DEF Ordered, HeldInv, EpochInv
    <3> QED
      BY <1>1, <2>1, <2>3, <3>1 DEF HeldOk, Young, Busy
  <2>5. EpochInv'
    BY <1>1, <2>1, <2>3 DEF Ordered, EpochInv
  <2> QED
    BY <2>2, <2>4, <2>5 DEF Ordered
<1> QED
  BY <1>2, <1>3

LEMMA StagesEndOrders ==
    ASSUME LockInv, Ordered, NEW e \in Execs, StagesEnd(e) PROVE Ordered'
<1>1. /\ lock' = lock /\ now' = now /\ run' = run /\ started' = started
      /\ pc[e] = "staging" /\ pc'[e] = "popping" /\ \A f \in Execs : f # e => Still(f)
  BY StagesEndIs
<1>2. /\ \A f \in Execs : Busy(f)' <=> Busy(f)
      /\ \A f \in Execs : Ghost(f)' <=> Ghost(f)
      /\ \A f \in Execs : pc[f] = "done" => pc'[f] = "done"
  BY <1>1 DEF Busy, Ghost, Still
<1>3. HeldOk(e)'
  <2>1. HeldOk(e) /\ (DoneInput(lock.input) => DoneInput(lock.input)')
    BY <1>1, <1>2 DEF Ordered, HeldInv, DoneInput
  <2> QED
    BY <1>1, <2>1 DEF HeldOk, Young, Ghost
<1>4. HeldInv'
  BY <1>1, <1>2, <1>3, OthersHold DEF HeldInv
<1>5. EpochInv'
  BY <1>1, <1>2 DEF Ordered, EpochInv, DoneInput
<1> QED
  BY <1>2, <1>4, <1>5 DEF Ordered, OneBusy

LEMMA PopLockOrders ==
    ASSUME LockInv, Ordered, NEW e \in Execs, PopLock(e) PROVE Ordered'
<1>1. /\ lock' = NULL /\ now' = now /\ run' = run /\ started' = started
      /\ pc[e] = "popping" /\ pc'[e] = "done" /\ \A f \in Execs : f # e => Still(f)
  BY PopLockIs
<1>2. /\ \A f \in Execs : ~Busy(f)'
      /\ \A f \in Execs : f # e => (Ghost(f)' <=> Ghost(f))
  BY <1>1 DEF Busy, Ghost, Still, Ordered, OneBusy
<1>3. HeldInv'
  <2> SUFFICES ASSUME NEW f \in Execs PROVE HeldOk(f)'
    BY DEF HeldInv
  <2>1. HeldOk(f) /\ (Ghost(f)' => Ghost(f) \/ pc[f] = "popping")
    BY <1>1, <1>2 DEF Ordered, HeldInv
  <2> QED
    BY <1>1, <1>2, <2>1 DEF HeldOk, Young, Busy
<1>4. EpochInv'
  BY <1>1, <1>2 DEF EpochInv
<1> QED
  BY <1>2, <1>3, <1>4 DEF Ordered, OneBusy

LEMMA DiesOrders ==
    ASSUME LockInv, Ordered, NEW e \in Execs, Dies(e) PROVE Ordered'
<1>1. /\ lock' = lock /\ now' = now /\ run' = run /\ started' = started
      /\ Busy(e) /\ pc'[e] = "dead" /\ \A f \in Execs : f # e => Still(f)
  BY DiesIs
<1>2. /\ \A f \in Execs : Busy(f)' => Busy(f)
      /\ \A f \in Execs : Ghost(f)' <=> Ghost(f)
      /\ \A f \in Execs : pc[f] = "done" => pc'[f] = "done"
  BY <1>1 DEF Busy, Ghost, Still
<1>3. HeldOk(e)'
  BY <1>1 DEF HeldOk, Ghost
<1>4. HeldInv'
  BY <1>1, <1>2, <1>3, OthersHold DEF HeldInv
<1>5. EpochInv'
  BY <1>1, <1>2 DEF Ordered, EpochInv, DoneInput
<1> QED
  BY <1>2, <1>4, <1>5 DEF Ordered, OneBusy

LEMMA UnlockOrders == ASSUME Ordered, Unlock PROVE Ordered'
<1>1. /\ lock' = NULL /\ UNCHANGED <<now, pc, run, started, beat>>
      /\ \A f \in Execs : ~Busy(f) /\ ~Ghost(f)
  BY DEF Unlock, Busy, Ghost
<1> QED
  BY <1>1 DEF Ordered, OneBusy, HeldInv, HeldOk, EpochInv, Busy, Ghost

LEMMA TickOrders == ASSUME LockInv, Ordered, Tick, ~overrun' PROVE Ordered'
<1>1. /\ UNCHANGED <<lock, pc, run, started, beat>> /\ ~OverCap(now')
  BY TickIs
<1>2. HeldInv'
  <2> SUFFICES ASSUME NEW e \in Execs PROVE HeldOk(e)'
    BY DEF HeldInv
  <2>1. now' \in Nat /\ LockStale \in Nat /\ started[e] \in Nat
        /\ (lock # NULL => lock.started \in Nat)
    BY TickIs, RunLockAssumption DEF LockInv, RunLockTypeOK, Lock, Time
  <2>2. pc[e] \in {"writing", "staging", "popping"} \/ Ghost(e) => now' - started[e] < LockStale
    BY <1>1, <2>1 DEF OverCap, Holds, Ghost
  <2>3. pc[e] \in {"resuming", "staging", "popping"} /\ lock # NULL =>
          now' - lock.started < LockStale
    BY <1>1, <2>1 DEF OverCap
  <2>4. HeldOk(e)
    BY DEF Ordered, HeldInv
  <2> QED
    BY <1>1, <2>2, <2>3, <2>4 DEF HeldOk, Young, Ghost, DoneInput
<1> QED
  BY <1>1, <1>2 DEF Ordered, OneBusy, EpochInv, Busy, Ghost, DoneInput
LEMMA OrderInvInit == Init => OrderInv
<1> SUFFICES ASSUME Init PROVE Ordered
  BY DEF OrderInv
<1>1. lock = NULL /\ \A e \in Execs : pc[e] = "idle"
  BY DEF Init
<1> QED
  BY <1>1 DEF Ordered, OneBusy, HeldInv, HeldOk, EpochInv, Busy, Ghost

LEMMA OrderInvStep == LockInv /\ OrderInv /\ [Next]_vars => OrderInv'
<1> SUFFICES ASSUME LockInv, OrderInv, [Next]_vars, ~raced', ~overrun' PROVE Ordered'
  BY DEF OrderInv
<1>1. CASE Next
  <2>1. (raced => raced') /\ (overrun => overrun')
    <3>1. ASSUME NEW e \in Execs, Decide(e) PROVE (raced => raced') /\ overrun' = overrun
      BY <3>1 DEF Decide
    <3>2. ASSUME NEW e \in Execs,
                 KeepEpoch(e) \/ WriteLock(e) \/ BeatBegins(e) \/ BeatLands(e)
                 \/ StagesEnd(e) \/ PopLock(e) \/ Dies(e)
          PROVE  raced' = raced /\ overrun' = overrun
      BY <3>2 DEF KeepEpoch, WriteLock, BeatBegins, BeatLands, StagesEnd, PopLock, Dies, history
    <3>3. Unlock => raced' = raced /\ overrun' = overrun
      BY DEF Unlock, history
    <3>4. Tick => raced' = raced /\ (overrun => overrun')
      BY DEF Tick
    <3> QED
      BY <1>1, <3>1, <3>2, <3>3, <3>4 DEF Next
  <2>2. Ordered
    BY <2>1 DEF OrderInv
  <2> QED
    BY <1>1, <2>2, DecideOrders, KeepEpochOrders, WriteLockOrders, BeatBeginsOrders,
       BeatLandsOrders, StagesEndOrders, PopLockOrders, DiesOrders, UnlockOrders, TickOrders
       DEF Next
<1>2. CASE UNCHANGED vars
  <2>1. UNCHANGED <<now, lock, pc, run, started, beat, overrun, raced>>
    BY <1>2 DEF vars, history
  <2>2. Ordered
    BY <2>1 DEF OrderInv
  <2> QED
    BY <2>1, <2>2 DEF Ordered, OneBusy, HeldInv, HeldOk, EpochInv, Busy, Ghost, Young, DoneInput
<1> QED
  BY <1>1, <1>2

THEOREM OrderInvariant == Spec => [](LockInv /\ OrderInv)
<1>1. Init => LockInv /\ OrderInv
  BY LockInvInit, OrderInvInit
<1>2. LockInv /\ OrderInv /\ [Next]_vars => (LockInv /\ OrderInv)'
  BY LockInvStep, OrderInvStep
<1> QED
  BY <1>1, <1>2, PTL DEF Spec

(***************************************************************************)
(* OneAtWork: short of a race between the get and the put, and of a lock    *)
(* beyond the cap, two orchestrators are never at work at once.             *)
(***************************************************************************)
THEOREM OneIsAtWork == Spec => []OneAtWork
<1>1. OrderInv => OneAtWork
  BY DEF OrderInv, Ordered, OneBusy, Busy, OneAtWork, DoubleFiresAreStopped, AtWork
<1> QED
  BY <1>1, OrderInvariant, PTL

(* CapIsAbsolute: the lock of a run that is carried on is never younger than *)
(* the run, with the same two exceptions.                                     *)
THEOREM CapStaysAbsolute == Spec => []CapIsAbsolute
<1>1. OrderInv => CapIsAbsolute
  BY DEF OrderInv, Ordered, EpochInv, CapIsAbsolute
<1> QED
  BY <1>1, OrderInvariant, PTL
=============================================================================
