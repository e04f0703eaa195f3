------------------------------ MODULE ModelStore ------------------------------
(***************************************************************************)
(* Delivery and hot swap of the student (ml/sentilyzer_ml/model_store.py), *)
(* and what Ready says of it (onnx_backend.py, server.py).                 *)
(*                                                                         *)
(* A publisher puts artifacts into a bucket and points current.json at     *)
(* one.  A worker polls the pointer: it downloads the run into its cache   *)
(* directory unless it is there, checks the hash of the model, loads it,   *)
(* and assigns first the backend and then its name.                        *)
(***************************************************************************)
EXTENDS Naturals, FiniteSets

CONSTANTS
    Runs,          \* run ids
    Builds,        \* contents of a model file; a build stands for its sha256
    Loadable,      \* those of which the loader can make a session
    Threads,       \* callers of refresh()
    Poller,        \* the one start_polling starts
    MaxWrites,     \* bound: uploads and writes of the pointer
    MaxFaults,     \* bound: downloads and loads that break
    MaxRestarts,   \* bound: restarts of the worker
    NULL

ASSUME StoreAssumption ==
    /\ Loadable \subseteq Builds
    /\ Poller \in Threads
    /\ MaxWrites \in Nat /\ MaxFaults \in Nat /\ MaxRestarts \in Nat
    /\ NULL \notin Runs \cup Builds \cup Threads
    /\ NULL \notin [run : Runs, build : Builds]

VARIABLES
    bucket,      \* bucket[r]: the model under students/<r>/, or NULL
    pointer,     \* current.json, or NULL
    cache,       \* cache[r]: the files in the worker's directory for r
    current,     \* _current: the backend requests are answered by, or NULL
    runId,       \* _run_id
    lock,        \* the thread in refresh(), or NULL
    pc, cand,    \* pc[t], cand[t]: where in refresh() t is, and its pointer
    asked,       \* a Ready call is between its two reads
    named,       \* the run the last Ready named, or NULL
    promoted,    \* history: what the pointer has ever said
    served,      \* history: the runs that have been current in this life
    writes, faults, restarts

counts == <<writes, faults, restarts>>
worker == <<cache, current, runId, lock, pc, cand, asked, named, served>>
vars == <<bucket, pointer, promoted, worker, counts>>

Pointer == [run : Runs, build : Builds]
Steps == {"idle", "load", "tokenizer", "verify", "assign", "name"}

ModelTypeOK ==
    /\ bucket \in [Runs -> Builds \cup {NULL}]
    /\ pointer \in Pointer \cup {NULL}
    /\ cache \in [Runs -> [model : Builds \cup {NULL}, tokenizer : BOOLEAN]]
    /\ current \in Pointer \cup {NULL}
    /\ runId \in Runs \cup {NULL}
    /\ lock \in Threads \cup {NULL}
    /\ pc \in [Threads -> Steps]
    /\ cand \in [Threads -> Pointer \cup {NULL}]
    /\ asked \in BOOLEAN
    /\ named \in Runs \cup {NULL}
    /\ promoted \subseteq Pointer
    /\ served \subseteq Runs
    /\ writes \in 0..MaxWrites /\ faults \in 0..MaxFaults /\ restarts \in 0..MaxRestarts

Init ==
    /\ bucket = [r \in Runs |-> NULL]
    /\ pointer = NULL
    /\ cache = [r \in Runs |-> [model |-> NULL, tokenizer |-> FALSE]]
    /\ current = NULL /\ runId = NULL /\ lock = NULL
    /\ pc = [t \in Threads |-> "idle"] /\ cand = [t \in Threads |-> NULL]
    /\ asked = FALSE /\ named = NULL
    /\ promoted = {} /\ served = {}
    /\ writes = 0 /\ faults = 0 /\ restarts = 0

-----------------------------------------------------------------------------
(* The publisher.  A run may be uploaded again, and the pointer may name a  *)
(* hash that is not the artifact's.                                         *)
CountWrite ==
    /\ writes < MaxWrites
    /\ writes' = writes + 1
    /\ UNCHANGED <<faults, restarts>>

Upload(r, b) ==
    /\ CountWrite
    /\ bucket' = [bucket EXCEPT ![r] = b]
    /\ UNCHANGED <<pointer, promoted, worker>>

WritePointer(p) ==
    /\ CountWrite
    /\ pointer' = p
    /\ promoted' = promoted \cup {p}
    /\ UNCHANGED <<bucket, worker>>

-----------------------------------------------------------------------------
(* refresh().  Each action keeps what it does not name.                     *)
Run(t) == cand[t].run

GoTo(t, step) == pc' = [pc EXCEPT ![t] = step]

(* The end of refresh(), with a swap or without one. *)
Release(t) ==
    /\ GoTo(t, "idle")
    /\ lock' = NULL

(* Seeded bug: refresh() takes no lock. *)
TakesNone(t) == TRUE

(* with self._lock *)
Takes(t) == lock = NULL

(* Seeded bug: a pointer that was tried is not tried again. *)
Untried(t) == pointer # cand[t]

(* Whether the pointer names another run than the one that is served. *)
Moved(t) == pointer.run # runId

(* The pointer is read under the lock; a read that fails changes nothing. *)
Poll(t) ==
    /\ pc[t] = "idle"
    /\ Takes(t)
    /\ pointer # NULL
    /\ Moved(t)
    /\ lock' = t
    /\ cand' = [cand EXCEPT ![t] = pointer]
    /\ GoTo(t, "load")
    /\ UNCHANGED <<bucket, pointer, promoted, cache, current, runId, asked, named, served, counts>>

InCache(r) == cache[r].model # NULL

(* The download, in the order in which the bucket lists the files. *)
DownloadModel(t) ==
    /\ pc[t] = "load"
    /\ ~InCache(Run(t))
    /\ bucket[Run(t)] # NULL
    /\ cache' = [cache EXCEPT ![Run(t)].model = bucket[Run(t)]]
    /\ GoTo(t, "tokenizer")
    /\ UNCHANGED <<bucket, pointer, promoted, current, runId, lock, cand, asked, named, served, counts>>

DownloadTokenizer(t) ==
    /\ pc[t] = "tokenizer"
    /\ cache' = [cache EXCEPT ![Run(t)].tokenizer = TRUE]
    /\ GoTo(t, "verify")
    /\ UNCHANGED <<bucket, pointer, promoted, current, runId, lock, cand, asked, named, served, counts>>

(* The model is in the cache, or not in the bucket either. *)
NoDownload(t) ==
    /\ pc[t] = "load"
    /\ InCache(Run(t)) \/ bucket[Run(t)] = NULL
    /\ GoTo(t, "verify")
    /\ UNCHANGED <<bucket, pointer, promoted, cache, current, runId, lock, cand, asked, named, served, counts>>

(* Seeded bug: any model that is there will do. *)
Present(t) == cache[Run(t)].model # NULL

(* The bytes are those that were promoted. *)
Matches(t) == cache[Run(t)].model = cand[t].build

(* The loader finds its two files, and can read them. *)
Loads(t) == cache[Run(t)].tokenizer /\ cache[Run(t)].model \in Loadable

Verify(t) ==
    /\ pc[t] = "verify"
    /\ IF Matches(t) /\ Loads(t) THEN GoTo(t, "assign") /\ UNCHANGED lock
                                 ELSE Release(t)
    /\ UNCHANGED <<bucket, pointer, promoted, cache, current, runId, cand, asked, named, served, counts>>

(* Seeded bug: what the loader returns is lost. *)
NoBackend(t) == [run |-> Run(t), build |-> NULL]

(* The backend t has loaded, which knows no run but that of its directory. *)
Backend(t) == [run |-> Run(t), build |-> cache[Run(t)].model]

(* Seeded bug: the name first, then the backend. *)
NameFirst(t, first) ==
    IF first THEN runId' = Run(t) /\ UNCHANGED <<current, served>>
    ELSE current' = Backend(t) /\ served' = served \cup {Run(t)} /\ UNCHANGED runId

(* The two assignments of a swap. *)
Assign(t, first) ==
    IF first THEN current' = Backend(t) /\ served' = served \cup {Run(t)} /\ UNCHANGED runId
    ELSE runId' = Run(t) /\ UNCHANGED <<current, served>>

Swap(t) ==
    /\ pc[t] = "assign"
    /\ Assign(t, TRUE)
    /\ GoTo(t, "name")
    /\ UNCHANGED <<bucket, pointer, promoted, cache, lock, cand, asked, named, counts>>

Name(t) ==
    /\ pc[t] = "name"
    /\ Assign(t, FALSE)
    /\ Release(t)
    /\ UNCHANGED <<bucket, pointer, promoted, cache, cand, asked, named, counts>>

(* A file does not arrive, or the loader raises. *)
Breaks(t) ==
    /\ \/ pc[t] = "load" /\ ~InCache(Run(t))
       \/ pc[t] \in {"tokenizer", "verify"}
    /\ faults < MaxFaults
    /\ faults' = faults + 1
    /\ Release(t)
    /\ UNCHANGED <<bucket, pointer, promoted, cache, current, runId, cand, asked, named, served>>
    /\ UNCHANGED <<writes, restarts>>

Refresh(t) ==
    \/ Poll(t) \/ DownloadModel(t) \/ DownloadTokenizer(t) \/ NoDownload(t)
    \/ Verify(t) \/ Swap(t) \/ Name(t) \/ Breaks(t)

-----------------------------------------------------------------------------
(* served_run_id(): is there a student, and then: what is its name. *)
ReadyAsks ==
    /\ ~asked
    /\ current # NULL
    /\ asked' = TRUE
    /\ UNCHANGED <<bucket, pointer, promoted, cache, current, runId, lock, pc, cand, named, served, counts>>

ReadyAnswers ==
    /\ asked
    /\ asked' = FALSE
    /\ named' = runId
    /\ UNCHANGED <<bucket, pointer, promoted, cache, current, runId, lock, pc, cand, served, counts>>

(* The worker is stopped at any point; its cache directory stays. *)
Restart ==
    /\ restarts < MaxRestarts
    /\ restarts' = restarts + 1
    /\ current' = NULL /\ runId' = NULL /\ lock' = NULL
    /\ pc' = [t \in Threads |-> "idle"] /\ cand' = [t \in Threads |-> NULL]
    /\ asked' = FALSE /\ named' = NULL /\ served' = {}
    /\ UNCHANGED <<bucket, pointer, promoted, cache, writes, faults>>

Next ==
    \/ \E r \in Runs, b \in Builds : Upload(r, b)
    \/ \E p \in Pointer : WritePointer(p)
    \/ \E t \in Threads : Refresh(t)
    \/ ReadyAsks \/ ReadyAnswers \/ Restart

Spec == Init /\ [][Next]_vars

(* The poller's loop goes on, and so does whoever holds the lock. *)
FairSpec ==
    /\ Spec
    /\ WF_vars(Refresh(Poller))
    /\ \A t \in Threads : WF_vars(pc[t] # "idle" /\ Refresh(t))

-----------------------------------------------------------------------------
(***************************************************************************)
(* "promotion must degrade to keep serving the last good student"          *)
(* (model_store.py:106-110): of all that refresh() does, requests see what *)
(* ServedModel allows.  They never see a build that was not promoted under *)
(* that run, and never nothing once there was something.                   *)
(***************************************************************************)
Served == INSTANCE ServedModel WITH serving <- current, life <- restarts

ImplementsServedModel == Served!Spec

(***************************************************************************)
(* Ready "confirms which run is actually live" (server.py:92-94): it reads *)
(* the backend and its name apart, between any two steps of a swap, and    *)
(* may be late, but never names a run before that run has served.          *)
(***************************************************************************)
NamedOnlyOnceServed == named # NULL => named \in served

(***************************************************************************)
(* Between refreshes the name is that of the backend, whoever refreshed:   *)
(* otherwise a promotion back to the named run would be taken for no       *)
(* change, and the wrong model would stay.  (model_store.py:91, 118)       *)
(***************************************************************************)
NameIsTheBackends ==
    (\A t \in Threads : pc[t] # "name") =>
      runId = IF current = NULL THEN NULL ELSE current.run

(* What the pointer names is in the bucket, and whole. *)
Good(p) == bucket[p.run] = p.build /\ p.build \in Loadable

(* The worker's copy of the run is of another build, or half a download. *)
Spoiled(p) ==
    /\ InCache(p.run)
    /\ cache[p.run] # [model |-> p.build, tokenizer |-> TRUE]

(***************************************************************************)
(* A good promotion is served in the end, after transient failures and     *)
(* restarts too, unless an earlier download left the run's directory with  *)
(* a model and without the rest: exists() then takes it for complete, and  *)
(* no poll ever repairs it.  (model_store.py:118, 136)                     *)
(***************************************************************************)
PromotionsArrive ==
    <>[](\/ pointer = NULL \/ ~Good(pointer) \/ Spoiled(pointer)
         \/ runId = pointer.run)
=============================================================================
