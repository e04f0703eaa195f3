-------------------------- MODULE ModelStore_proofs --------------------------
(***************************************************************************)
(* Proofs about ModelStore, for every number of runs, builds and callers   *)
(* of refresh(), and whatever is uploaded, promoted, broken or restarted.  *)
(***************************************************************************)
EXTENDS ModelStore, TLAPS

LEMMA TypesInit == Init => ModelTypeOK
<1> SUFFICES ASSUME Init PROVE ModelTypeOK
  OBVIOUS
<1>1. writes \in 0..MaxWrites /\ faults \in 0..MaxFaults /\ restarts \in 0..MaxRestarts
  BY StoreAssumption DEF Init
<1>2. cache \in [Runs -> [model : Builds \cup {NULL}, tokenizer : BOOLEAN]]
  BY DEF Init
<1> QED
  BY <1>1, <1>2 DEF Init, ModelTypeOK, Steps

(* A thread that is not idle holds the lock, and has a pointer that was     *)
(* read: it names what was promoted.                                        *)
Holds(t) ==
    pc[t] # "idle" =>
      /\ lock = t
      /\ cand[t] \in promoted

(* What a thread is about to serve has been verified.  Nothing but the       *)
(* holder of the lock writes to the cache, so that it stays so.              *)
Proven(t) ==
    /\ pc[t] = "assign" => cache[cand[t].run].model = cand[t].build
    /\ pc[t] = "name" => current # NULL /\ current.run = cand[t].run

(***************************************************************************)
(* The invariant.  None of the properties is inductive: what becomes       *)
(* current comes out of the cache and of a pointer read several steps ago, *)
(* and its name is assigned by a step of its own.                          *)
(***************************************************************************)
StoreInv ==
    /\ ModelTypeOK
    /\ \A t \in Threads : Holds(t) /\ Proven(t)
    /\ pointer # NULL => pointer \in promoted
    /\ current # NULL => current \in promoted /\ current.run \in served
    /\ runId # NULL => runId \in served
    /\ NamedOnlyOnceServed
    /\ NameIsTheBackends

LEMMA StoreInit == Init => StoreInv
<1> SUFFICES ASSUME Init PROVE StoreInv
  OBVIOUS
<1>1. ModelTypeOK
  BY TypesInit
<1>2. \A t \in Threads : Holds(t) /\ Proven(t)
  BY DEF Init, Holds, Proven
<1>3. NamedOnlyOnceServed /\ NameIsTheBackends
  BY DEF Init, NamedOnlyOnceServed, NameIsTheBackends
<1> QED
  BY <1>1, <1>2, <1>3 DEF Init, StoreInv

-----------------------------------------------------------------------------
(* What a step of refresh() starts from: its thread alone is in there. *)
LEMMA Holder ==
    ASSUME StoreInv, NEW t \in Threads, pc[t] # "idle"
    PROVE  /\ cand[t] \in Pointer /\ cand[t] \in promoted
           /\ Run(t) \in Runs
           /\ lock = t
           /\ \A u \in Threads \ {t} : pc[u] = "idle"
<1>1. cand[t] \in promoted /\ lock = t
  BY DEF StoreInv, Holds
<1>2. cand[t] \in Pointer
  BY <1>1 DEF StoreInv, ModelTypeOK
<1>3. \A u \in Threads \ {t} : pc[u] = "idle"
  BY <1>1 DEF StoreInv, Holds
<1> QED
  BY <1>1, <1>2, <1>3 DEF Run, Pointer

(* Steps that leave what is served and how far each thread is. *)
LEMMA OutsideStep ==
    ASSUME StoreInv, ModelTypeOK', promoted \subseteq promoted', served' = served,
           UNCHANGED <<cache, current, runId, lock, pc, cand>>,
           pointer' # NULL => pointer' \in promoted',
           named' = named \/ named' = runId
    PROVE  StoreInv'
<1>1. \A t \in Threads : (Holds(t) /\ Proven(t))'
  BY DEF StoreInv, Holds, Proven
<1>2. NamedOnlyOnceServed'
  BY DEF StoreInv, NamedOnlyOnceServed
<1>3. NameIsTheBackends'
  BY DEF StoreInv, NameIsTheBackends
<1> QED
  BY <1>1, <1>2, <1>3 DEF StoreInv

(* Steps of refresh() before the swap: what is served stays, and the thread *)
(* that steps is the one that has the lock or gets it.                      *)
LEMMA BeforeSwapStep ==
    ASSUME StoreInv, ModelTypeOK', NEW t \in Threads,
           UNCHANGED <<pointer, promoted, current, runId, named, served>>,
           \A u \in Threads \ {t} : pc[u] = "idle" /\ pc'[u] = "idle",
           pc[t] # "name" /\ pc'[t] # "name",
           Holds(t)',
           pc'[t] = "assign" => cache'[cand'[t].run].model = cand'[t].build
    PROVE  StoreInv'
<1>1. \A u \in Threads : (Holds(u) /\ Proven(u))'
  BY DEF Holds, Proven
<1>2. NamedOnlyOnceServed'
  BY DEF StoreInv, NamedOnlyOnceServed
<1>3. NameIsTheBackends'
  <2>1. \A u \in Threads : pc[u] # "name"
    OBVIOUS
  <2> QED
    BY <2>1 DEF StoreInv, NameIsTheBackends
<1> QED
  BY <1>1, <1>2, <1>3 DEF StoreInv

-----------------------------------------------------------------------------
LEMMA PublisherTypes ==
    ASSUME ModelTypeOK,
           \/ \E r \in Runs, b \in Builds : Upload(r, b)
           \/ \E p \in Pointer : WritePointer(p)
    PROVE  ModelTypeOK'
<1>1. writes' \in 0..MaxWrites
  BY StoreAssumption DEF Upload, WritePointer, CountWrite, ModelTypeOK
<1>2. CASE \E r \in Runs, b \in Builds : Upload(r, b)
  BY <1>1, <1>2 DEF Upload, CountWrite, worker, ModelTypeOK
<1>3. CASE \E p \in Pointer : WritePointer(p)
  BY <1>1, <1>3 DEF WritePointer, CountWrite, worker, ModelTypeOK
<1> QED
  BY <1>2, <1>3

LEMMA RefreshTypes ==
    ASSUME StoreInv, NEW t \in Threads, Refresh(t)
    PROVE  ModelTypeOK'
<1> USE DEF counts
<1>0. ModelTypeOK
  BY DEF StoreInv
<1>1. CASE Poll(t)
  BY <1>0, <1>1 DEF Poll, GoTo, ModelTypeOK, Steps
<1>2. CASE DownloadModel(t)
  <2>1. Run(t) \in Runs
    BY <1>2, Holder DEF DownloadModel
  <2>2. bucket[Run(t)] \in Builds
    BY <1>0, <1>2, <2>1 DEF DownloadModel, ModelTypeOK
  <2>3. cache' \in [Runs -> [model : Builds \cup {NULL}, tokenizer : BOOLEAN]]
    BY <1>0, <1>2, <2>1, <2>2 DEF DownloadModel, ModelTypeOK
  <2> QED
    BY <1>0, <1>2, <2>3 DEF DownloadModel, GoTo, ModelTypeOK, Steps
<1>3. CASE DownloadTokenizer(t)
  <2>1. Run(t) \in Runs
    BY <1>3, Holder DEF DownloadTokenizer
  <2>2. cache' \in [Runs -> [model : Builds \cup {NULL}, tokenizer : BOOLEAN]]
    BY <1>0, <1>3, <2>1 DEF DownloadTokenizer, ModelTypeOK
  <2> QED
    BY <1>0, <1>3, <2>2 DEF DownloadTokenizer, GoTo, ModelTypeOK, Steps
<1>4. CASE NoDownload(t)
  BY <1>0, <1>4 DEF NoDownload, GoTo, ModelTypeOK, Steps
<1>5. CASE Verify(t)
  BY <1>0, <1>5 DEF Verify, Release, GoTo, ModelTypeOK, Steps
<1>6. CASE Swap(t)
  <2>1. cand[t] \in Pointer /\ Run(t) \in Runs /\ Backend(t) = cand[t]
    BY <1>6, Holder DEF Swap, StoreInv, Proven, Backend, Run, Pointer
  <2>2. current' \in Pointer /\ served' \subseteq Runs /\ runId' = runId
    BY <1>0, <1>6, <2>1 DEF Swap, Assign, ModelTypeOK
  <2> QED
    BY <1>0, <1>6, <2>2 DEF Swap, GoTo, ModelTypeOK, Steps
<1>7. CASE Name(t)
  <2>1. Run(t) \in Runs
    BY <1>7, Holder DEF Name
  <2> QED
    BY <1>0, <1>7, <2>1 DEF Name, Assign, Release, GoTo, ModelTypeOK, Steps
<1>8. CASE Breaks(t)
  <2>1. faults' \in 0..MaxFaults
    BY <1>0, <1>8, StoreAssumption DEF Breaks, ModelTypeOK
  <2> QED
    BY <1>0, <1>8, <2>1 DEF Breaks, Release, GoTo, ModelTypeOK, Steps
<1> QED
  BY <1>1, <1>2, <1>3, <1>4, <1>5, <1>6, <1>7, <1>8 DEF Refresh

(* One step of refresh(), by where it is in there. *)
LEMMA RefreshStep ==
    ASSUME StoreInv, NEW t \in Threads, Refresh(t)
    PROVE  StoreInv'
<1>0. ModelTypeOK /\ ModelTypeOK'
  BY RefreshTypes DEF StoreInv
<1>1. CASE Poll(t)
  <2>1. \A u \in Threads : pc[u] = "idle"
    BY <1>1, StoreAssumption DEF Poll, Takes, StoreInv, Holds
  <2>2. pc' = [pc EXCEPT ![t] = "load"] /\ cand' = [cand EXCEPT ![t] = pointer] /\ lock' = t
    BY <1>1 DEF Poll, GoTo
  <2>3. pointer \in promoted /\ UNCHANGED <<pointer, promoted, current, runId, named, served>>
    BY <1>1 DEF Poll, StoreInv
  <2>4. pc'[t] = "load" /\ cand'[t] = pointer /\ \A u \in Threads \ {t} : pc'[u] = "idle"
    BY <1>0, <2>1, <2>2 DEF ModelTypeOK
  <2> QED
    BY <1>0, <2>1, <2>2, <2>3, <2>4, BeforeSwapStep DEF Holds
<1>2. CASE DownloadModel(t) \/ DownloadTokenizer(t) \/ NoDownload(t)
  <2>1. pc[t] # "idle" /\ pc[t] # "name" /\ cand' = cand /\ lock' = lock
    BY <1>2 DEF DownloadModel, DownloadTokenizer, NoDownload
  <2>2. pc' = [pc EXCEPT ![t] = pc'[t]] /\ pc'[t] \in {"tokenizer", "verify"}
    BY <1>0, <1>2 DEF DownloadModel, DownloadTokenizer, NoDownload, GoTo, ModelTypeOK
  <2>3. UNCHANGED <<pointer, promoted, current, runId, named, served>>
    BY <1>2 DEF DownloadModel, DownloadTokenizer, NoDownload
  <2>4. Holds(t)'
    BY <2>1, <2>3 DEF StoreInv, Holds
  <2>5. \A u \in Threads \ {t} : pc[u] = "idle" /\ pc'[u] = "idle"
    BY <1>0, <2>1, <2>2, Holder DEF ModelTypeOK
  <2> QED
    BY <1>0, <2>1, <2>2, <2>3, <2>4, <2>5, BeforeSwapStep
<1>3. CASE Verify(t)
  <2>1. /\ pc[t] = "verify" /\ cand' = cand /\ cache' = cache
        /\ UNCHANGED <<pointer, promoted, current, runId, named, served>>
    BY <1>3 DEF Verify
  <2>2. \/ pc' = [pc EXCEPT ![t] = "assign"] /\ lock' = lock /\ Matches(t)
        \/ pc' = [pc EXCEPT ![t] = "idle"]
    BY <1>3 DEF Verify, GoTo, Release
  <2>3. \A u \in Threads \ {t} : pc[u] = "idle" /\ pc'[u] = "idle"
    BY <1>0, <2>1, <2>2, Holder DEF ModelTypeOK
  <2>4. Holds(t)'
    BY <1>0, <2>1, <2>2 DEF StoreInv, Holds, ModelTypeOK
  <2>5. pc'[t] # "name" /\ (pc'[t] = "assign" => cache'[cand'[t].run].model = cand'[t].build)
    BY <1>0, <2>1, <2>2 DEF Matches, Run, ModelTypeOK
  <2> QED
    BY <1>0, <2>1, <2>3, <2>4, <2>5, BeforeSwapStep
<1>4. CASE Swap(t)
  <2>1. /\ pc[t] = "assign" /\ lock' = lock /\ cand' = cand /\ cache' = cache
        /\ UNCHANGED <<pointer, promoted, named>>
        /\ pc' = [pc EXCEPT ![t] = "name"]
    BY <1>4 DEF Swap, GoTo
  <2>2. cand[t] \in Pointer /\ cand[t] \in promoted /\ lock = t
    BY <2>1, Holder
  <2>3. Backend(t) = cand[t]
    BY <2>1, <2>2 DEF StoreInv, Proven, Backend, Run, Pointer
  <2>4. current' = cand[t] /\ served' = served \cup {cand[t].run} /\ runId' = runId
    BY <1>4, <2>3 DEF Swap, Assign, Run
  <2>5. \A u \in Threads \ {t} : pc'[u] = "idle"
    BY <1>0, <2>1, Holder DEF ModelTypeOK
  <2>6. pc'[t] = "name"
    BY <1>0, <2>1 DEF ModelTypeOK
  <2>7. \A u \in Threads : (Holds(u) /\ Proven(u))'
    <3>1. current' # NULL
      BY <2>2, <2>4, StoreAssumption DEF Pointer
    <3> QED
      BY <2>1, <2>2, <2>4, <2>5, <2>6, <3>1 DEF Holds, Proven
  <2>8. NameIsTheBackends'
    BY <2>6 DEF NameIsTheBackends
  <2>9. NamedOnlyOnceServed'
    BY <2>1, <2>4 DEF StoreInv, NamedOnlyOnceServed
  <2> QED
    BY <1>0, <2>1, <2>2, <2>4, <2>7, <2>8, <2>9 DEF StoreInv
<1>5. CASE Name(t)
  <2>1. /\ pc[t] = "name" /\ runId' = Run(t) /\ pc' = [pc EXCEPT ![t] = "idle"]
        /\ UNCHANGED <<pointer, promoted, current, named, served>>
    BY <1>5 DEF Name, Assign, Release, GoTo
  <2>2. current # NULL /\ current.run = Run(t)
    BY <2>1 DEF StoreInv, Proven, Run
  <2>3. \A u \in Threads : pc'[u] = "idle"
    BY <1>0, <2>1, Holder DEF ModelTypeOK
  <2>4. \A u \in Threads : (Holds(u) /\ Proven(u))'
    BY <2>3 DEF Holds, Proven
  <2>5. NameIsTheBackends'
    BY <2>1, <2>2 DEF NameIsTheBackends
  <2>6. NamedOnlyOnceServed'
    BY <2>1 DEF StoreInv, NamedOnlyOnceServed
  <2> QED
    BY <1>0, <2>1, <2>2, <2>4, <2>5, <2>6 DEF StoreInv
<1>6. CASE Breaks(t)
  <2>1. /\ pc[t] # "idle" /\ pc[t] # "name" /\ pc' = [pc EXCEPT ![t] = "idle"]
        /\ UNCHANGED <<pointer, promoted, current, runId, named, served>>
    BY <1>6 DEF Breaks, Release, GoTo
  <2>2. \A u \in Threads : pc'[u] = "idle"
    BY <1>0, <2>1, Holder DEF ModelTypeOK
  <2> QED
    BY <1>0, <2>1, <2>2, Holder, BeforeSwapStep DEF Holds
<1> QED
  BY <1>1, <1>2, <1>3, <1>4, <1>5, <1>6 DEF Refresh

LEMMA RestartStep ==
    ASSUME StoreInv, Restart
    PROVE  StoreInv'
<1>1. restarts' \in 0..MaxRestarts
  BY StoreAssumption DEF Restart, StoreInv, ModelTypeOK
<1>2. ModelTypeOK'
  BY <1>1 DEF Restart, StoreInv, ModelTypeOK, Steps
<1>3. \A t \in Threads : (Holds(t) /\ Proven(t))'
  BY DEF Restart, Holds, Proven
<1>4. NamedOnlyOnceServed' /\ NameIsTheBackends'
  BY DEF Restart, NamedOnlyOnceServed, NameIsTheBackends
<1> QED
  BY <1>2, <1>3, <1>4 DEF Restart, StoreInv

LEMMA StoreStep == StoreInv /\ [Next]_vars => StoreInv'
<1> SUFFICES ASSUME StoreInv, [Next]_vars PROVE StoreInv'
  OBVIOUS
<1>0. ModelTypeOK
  BY DEF StoreInv
<1>1. ASSUME NEW r \in Runs, NEW b \in Builds, Upload(r, b) PROVE StoreInv'
  BY <1>0, <1>1, PublisherTypes, OutsideStep DEF Upload, worker, StoreInv
<1>2. ASSUME NEW p \in Pointer, WritePointer(p) PROVE StoreInv'
  BY <1>0, <1>2, PublisherTypes, OutsideStep DEF WritePointer, worker
<1>3. ASSUME NEW t \in Threads, Refresh(t) PROVE StoreInv'
  BY <1>3, RefreshStep
<1>4. CASE ReadyAsks \/ ReadyAnswers
  <2>1. ModelTypeOK'
    BY <1>0, <1>4 DEF ReadyAsks, ReadyAnswers, ModelTypeOK, counts
  <2> QED
    BY <1>4, <2>1, OutsideStep DEF ReadyAsks, ReadyAnswers, StoreInv
<1>5. CASE Restart
  BY <1>5, RestartStep
<1>6. CASE UNCHANGED vars
  <2>1. ModelTypeOK'
    BY <1>0, <1>6 DEF vars, worker, counts, ModelTypeOK
  <2> QED
    BY <1>6, <2>1, OutsideStep DEF vars, worker, StoreInv
<1> QED
  BY <1>1, <1>2, <1>3, <1>4, <1>5, <1>6 DEF Next

THEOREM StoreInvariant == Spec => []StoreInv
  BY StoreInit, StoreStep, PTL DEF Spec

(***************************************************************************)
(* The type invariant.                                                     *)
(***************************************************************************)
THEOREM ModelTypeCorrect == Spec => []ModelTypeOK
<1>1. StoreInv => ModelTypeOK
  BY DEF StoreInv
<1> QED
  BY <1>1, StoreInvariant, PTL

(***************************************************************************)
(* What Ready says: no run is named before it has served.                  *)
(***************************************************************************)
THEOREM StoreNamesOnlyServed == Spec => []NamedOnlyOnceServed
<1>1. StoreInv => NamedOnlyOnceServed
  BY DEF StoreInv
<1> QED
  BY <1>1, StoreInvariant, PTL

(***************************************************************************)
(* What the next refresh compares the pointer with: between refreshes the  *)
(* name is the backend's.                                                  *)
(***************************************************************************)
THEOREM StoreNamesTheBackend == Spec => []NameIsTheBackends
<1>1. StoreInv => NameIsTheBackends
  BY DEF StoreInv
<1> QED
  BY <1>1, StoreInvariant, PTL

-----------------------------------------------------------------------------
(* Each step is one of ServedModel's, or none. *)
LEMMA ServedStep ==
    ASSUME StoreInv, [Next]_vars
    PROVE  [Served!Next]_Served!vars
<1> USE DEF Served!vars
<1>1. ASSUME NEW r \in Runs, NEW b \in Builds, Upload(r, b) PROVE UNCHANGED Served!vars
  BY <1>1 DEF Upload, CountWrite, worker
<1>2. ASSUME NEW p \in Pointer, WritePointer(p) PROVE Served!Next
  BY <1>2 DEF WritePointer, CountWrite, worker, Pointer,
              Served!Next, Served!Promotion, Served!Promote
<1>3. ASSUME NEW t \in Threads, Refresh(t) PROVE [Served!Next]_Served!vars
  <2>1. CASE Swap(t)
    <3>1. cand[t] \in Pointer /\ cand[t] \in promoted
      BY <2>1, Holder DEF Swap
    <3>2. Backend(t) = cand[t]
      BY <2>1, <3>1 DEF Swap, StoreInv, Proven, Backend, Run, Pointer
    <3>3. current' = cand[t] /\ UNCHANGED <<promoted, restarts>>
      BY <2>1, <3>2 DEF Swap, Assign, counts
    <3> QED
      BY <3>1, <3>3 DEF Pointer, Served!Next, Served!Promotion, Served!Swap
  <2>2. CASE ~Swap(t)
    BY <1>3, <2>2
       DEF Refresh, Poll, DownloadModel, DownloadTokenizer, NoDownload, Verify, Name,
           Assign, Breaks, counts
  <2> QED
    BY <2>1, <2>2
<1>4. CASE ReadyAsks \/ ReadyAnswers
  BY <1>4 DEF ReadyAsks, ReadyAnswers, counts
<1>5. CASE Restart
  <2>1. restarts' = restarts + 1 /\ current' = NULL /\ promoted' = promoted
    BY <1>5 DEF Restart
  <2> QED
    BY <2>1 DEF Served!Next, Served!Restart
<1>6. CASE UNCHANGED vars
  BY <1>6 DEF vars, worker, counts
<1> QED
  BY <1>1, <1>2, <1>3, <1>4, <1>5, <1>6 DEF Next

(***************************************************************************)
(* ModelStore implements ServedModel: requests are answered by whole       *)
(* builds that were promoted under the run they are served as, and no      *)
(* failed refresh takes away the one before.                               *)
(***************************************************************************)
THEOREM StoreImplementsServed == Spec => ImplementsServedModel
<1>1. Init => Served!Init
  BY DEF Init, Served!Init
<1>2. StoreInv /\ [Next]_vars => [Served!Next]_Served!vars
  BY ServedStep
<1> QED
  BY <1>1, <1>2, StoreInvariant, PTL DEF Spec, ImplementsServedModel, Served!Spec
=============================================================================
