-------------------------- MODULE TopicService_proofs --------------------------
(***************************************************************************)
(* Proofs about TopicService, for any callers, platforms, questions,       *)
(* credentials and budgets.  Every cached entry is an answer to the        *)
(* question of its key, complete as far as warnings go, and its age and    *)
(* what is left of it add up to a constant; a caller's age and what its    *)
(* present stage has left add up to the stages so far.                     *)
(***************************************************************************)
EXTENDS TopicService, SequenceTheorems, TLAPS

Types ==
    /\ pc \in [Callers -> {"idle", "fanout", "classify", "aspects", "done"}]
    /\ req \in [Callers -> Requests \cup {NULL}]
    /\ got = [c \in Callers |-> got[c]]
    /\ left \in [Callers -> Nat \cup {NULL}]
    /\ deadline \in [Callers -> Nat \cup {NULL}]
    /\ age \in [Callers -> 0..Old]
    /\ reply \in [Callers -> Answer \cup {NULL, ERROR}]

(* What may be cached. *)
Good ==
    {e \in Entry :
       /\ Key(e.answer.of) = e.key
       /\ e.answer.warned = {}
       /\ e.answer.age + e.left <= Ttl + 1 + Longest}

(* a may be told to who asked q. *)
Owed(q, a) == a \in Answer /\ Key(a.of) = Key(q) /\ a.age <= Ttl + Longest

InBudget(c) ==
    /\ left[c] \in Nat
    /\ pc[c] = "fanout" => age[c] + left[c] <= Budget + Overrun
    /\ pc[c] = "classify" => age[c] + left[c] <= Budget + Overrun + Infer
    /\ pc[c] = "aspects" => age[c] + left[c] <= Longest
    /\ req[c].rest => deadline[c] \in Nat /\ age[c] + deadline[c] <= Handler

(* What holds of one caller. *)
Mine(c) ==
    /\ Working(c) => req[c] \in Requests /\ DOMAIN got[c] \subseteq Platforms /\ InBudget(c)
    /\ pc[c] = "done" => req[c] \in Requests /\ (reply[c] = ERROR \/ Owed(req[c], reply[c]))
    /\ pc[c] \in {"idle", "done"} => age[c] = 0

TopicInv == Types /\ cache \in Seq(Good) /\ \A c \in Callers : Mine(c)

(* Nothing of c has changed. *)
Same(c) ==
    /\ pc'[c] = pc[c] /\ req'[c] = req[c] /\ got'[c] = got[c] /\ left'[c] = left[c]
    /\ deadline'[c] = deadline[c] /\ age'[c] = age[c] /\ reply'[c] = reply[c]

-----------------------------------------------------------------------------
LEMMA Constants ==
    /\ Overrun \in Nat /\ Overrun <= Budget
    /\ Longest \in Nat /\ Old \in Nat /\ Longest < Old
    /\ Budget \in Nat \ {0} /\ Infer \in Nat \ {0} /\ Handler \in Nat /\ Ttl \in Nat
    /\ Budget + Overrun < Handler
    /\ Longest = Budget + Overrun + Infer + Infer
    /\ Old = Ttl + Longest + 1
BY TopicServiceAssumption DEF Overrun, Longest, Old

(* A caller's invariant goes with the caller's own variables. *)
LEMMA SameMine == ASSUME NEW c \in Callers, Mine(c), Same(c) PROVE Mine(c)'
BY DEF Mine, Same, Working, Inferring, InBudget

(* One caller's step. *)
LEMMA OneMoves ==
    ASSUME TopicInv, NEW c \in Callers, Types', cache' \in Seq(Good), Mine(c)',
           \A d \in Callers \ {c} : Same(d)
    PROVE  TopicInv'
BY SameMine DEF TopicInv

(* The lookup and the store keep the cache good. *)
LEMMA OthersAreGood == ASSUME TopicInv, NEW k PROVE Others(k) \in Seq(Good)
<1> DEFINE At == {i \in 1..Len(cache) : cache[i].key = k}
           at == CHOOSE i \in At : TRUE
<1>0. cache \in Seq(Good)
  BY DEF TopicInv
<1>1. CASE At = {}
  BY <1>0, <1>1 DEF Others
<1>2. CASE At # {}
  <2>1. at \in 1..Len(cache)
    BY <1>2
  <2>2. SubSeq(cache, 1, at - 1) \in Seq(Good) /\ SubSeq(cache, at + 1, Len(cache)) \in Seq(Good)
    <3>1. Len(cache) \in Nat
      BY <1>0, LenProperties
    <3>2. \A i \in 1..(at - 1) : i \in 1..Len(cache)
      BY <2>1, <3>1
    <3>3. \A i \in (at + 1)..Len(cache) : i \in 1..Len(cache)
      BY <2>1, <3>1
    <3> QED
      BY <1>0, <2>1, <3>1, <3>2, <3>3, SubSeqProperties
  <2>3. Others(k) = SubSeq(cache, 1, at - 1) \o SubSeq(cache, at + 1, Len(cache))
    BY <1>2 DEF Others
  <2> QED
    BY <2>2, <2>3, ConcatProperties
<1> QED
  BY <1>1, <1>2

LEMMA InFront == ASSUME TopicInv, NEW k, NEW e \in Good PROVE <<e>> \o Others(k) \in Seq(Good)
<1>1. <<e>> \in Seq(Good)
  OBVIOUS
<1> QED
  BY <1>1, OthersAreGood, ConcatProperties

LEMMA HitsAreGood == ASSUME TopicInv, NEW k PROVE Hits(k) \subseteq Good
<1>1. \A i \in 1..Len(cache) : cache[i] \in Good
  BY ElementOfSeq DEF TopicInv
<1> QED
  BY <1>1 DEF Hits

LEMMA GetKeeps == ASSUME TopicInv, NEW k, Get(k) PROVE cache' \in Seq(Good)
<1>1. CASE Hits(k) = {}
  BY <1>1, OthersAreGood DEF Get
<1>2. CASE Hits(k) # {}
  <2>1. (CHOOSE e \in Hits(k) : TRUE) \in Good
    BY <1>2, HitsAreGood
  <2> QED
    BY <1>2, <2>1, InFront DEF Get
<1> QED
  BY <1>1, <1>2

LEMMA SetKeeps ==
    ASSUME TopicInv, NEW q \in Requests, NEW a, Owed(q, a), a.warned = {}, a.age <= Longest,
           Set(buildCacheKey(q), a)
    PROVE  cache' \in Seq(Good)
<1> DEFINE e == [key |-> buildCacheKey(q), answer |-> a, left |-> Ttl + 1]
           entries == <<e>> \o Others(buildCacheKey(q))
<1>1. e \in Good
  BY Constants DEF Good, Entry, Owed, Answer, buildCacheKey
<1>2. entries \in Seq(Good)
  BY <1>1, InFront
<1>3. cache' = SubSeq(entries, 1, IF Len(entries) < Size THEN Len(entries) ELSE Size)
  BY DEF Set
<1>4. Len(entries) \in Nat /\ Size \in Nat
  BY <1>2, LenProperties, TopicServiceAssumption
<1> HIDE DEF entries
<1>5. \A i \in 1..(IF Len(entries) < Size THEN Len(entries) ELSE Size) : i \in 1..Len(entries)
  BY <1>4
<1> QED
  BY <1>2, <1>3, <1>4, <1>5, SubSeqProperties

-----------------------------------------------------------------------------
(* AnalyzeTopic returns to c what may be told to it. *)
LEMMA ReturnMoves ==
    ASSUME TopicInv, NEW c \in Callers, NEW q \in Requests, NEW r,
           r = ERROR \/ Owed(q, r),
           Return(c, r), req' = [req EXCEPT ![c] = q], cache' \in Seq(Good)
    PROVE  TopicInv'
<1>1. Types'
  <2>1. /\ pc' \in [Callers -> {"idle", "fanout", "classify", "aspects", "done"}]
        /\ got' = [d \in Callers |-> got'[d]]
    BY DEF TopicInv, Types, Return
  <2>2. req' \in [Callers -> Requests \cup {NULL}]
    BY DEF TopicInv, Types
  <2>3. left' \in [Callers -> Nat \cup {NULL}] /\ deadline' \in [Callers -> Nat \cup {NULL}]
    BY DEF TopicInv, Types, Return
  <2>4. age' \in [Callers -> 0..Old]
    BY Constants DEF TopicInv, Types, Return
  <2>5. reply' \in [Callers -> Answer \cup {NULL, ERROR}]
    BY DEF TopicInv, Types, Return, Owed
  <2> QED
    BY <2>1, <2>2, <2>3, <2>4, <2>5 DEF Types
<1>2. Mine(c)'
  BY DEF TopicInv, Types, Return, Mine, Working, Inferring
<1>3. \A d \in Callers \ {c} : Same(d)
  BY DEF TopicInv, Types, Return, Same
<1> QED
  BY <1>1, <1>2, <1>3, OneMoves

(* The answer a working caller has come to. *)
LEMMA AnswerIsOwed ==
    ASSUME TopicInv, NEW c \in Callers, Working(c)
    PROVE  /\ req[c] \in Requests /\ [req EXCEPT ![c] = req[c]] = req
           /\ Owed(req[c], answer(c)) /\ answer(c).age <= Longest
           /\ answer(c).warned = Failed(c)
<1>1. /\ req[c] \in Requests /\ DOMAIN got[c] \subseteq Platforms /\ InBudget(c)
      /\ age[c] \in 0..Old /\ req \in [Callers -> Requests \cup {NULL}]
      /\ pc[c] \in {"fanout", "classify", "aspects"}
  BY DEF TopicInv, Mine, Types, Working, Inferring
<1>2. age[c] <= Longest
  BY <1>1, Constants DEF InBudget
<1>3. answer(c) \in Answer
  BY <1>1 DEF answer, Answer, Missing, Failed
<1> QED
  BY <1>1, <1>2, <1>3, Constants DEF answer, Owed

LEMMA AskKeeps ==
    ASSUME TopicInv, NEW c \in Callers, NEW r \in Requests, Ask(c, r) PROVE TopicInv'
<1>0. cache' \in Seq(Good)
  BY GetKeeps DEF Ask
<1>1. ASSUME NEW e \in Hits(buildCacheKey(r)), Return(c, e.answer) PROVE TopicInv'
  <2>1. e \in Good /\ e.key = buildCacheKey(r) /\ e.left > 0
    BY <1>1, HitsAreGood DEF Hits
  <2>2. Owed(r, e.answer)
    BY <2>1, Constants DEF Good, Entry, Answer, Owed, buildCacheKey
  <2> QED
    BY <1>0, <1>1, <2>2, ReturnMoves DEF Ask
<1>2. CASE Return(c, ERROR)
  BY <1>0, <1>2, ReturnMoves DEF Ask
<1>3. CASE /\ pc' = [pc EXCEPT ![c] = "fanout"]
           /\ got' = [got EXCEPT ![c] = [p \in selectPlatforms(r) |-> "none"]]
           /\ left' = [left EXCEPT ![c] = Budget + Overrun]
           /\ deadline' = [deadline EXCEPT ![c] = IF r.rest THEN Handler ELSE NULL]
           /\ UNCHANGED <<age, reply>>
  <2>1. req' = [req EXCEPT ![c] = r] /\ age[c] = 0
    BY DEF Ask, TopicInv, Mine
  <2>2. Types'
    <3>1. /\ pc' \in [Callers -> {"idle", "fanout", "classify", "aspects", "done"}]
          /\ got' = [d \in Callers |-> got'[d]]
      BY <1>3 DEF TopicInv, Types
    <3>2. req' \in [Callers -> Requests \cup {NULL}]
      BY <2>1 DEF TopicInv, Types
    <3>3. left' \in [Callers -> Nat \cup {NULL}]
      BY <1>3, Constants DEF TopicInv, Types
    <3>4. deadline' \in [Callers -> Nat \cup {NULL}]
      BY <1>3, Constants DEF TopicInv, Types
    <3> QED
      BY <1>3, <3>1, <3>2, <3>3, <3>4 DEF TopicInv, Types
  <2>3. selectPlatforms(r) \subseteq Platforms
    BY TopicServiceAssumption DEF selectPlatforms, Usable, Request
  <2>4. /\ pc'[c] = "fanout" /\ req'[c] = r /\ DOMAIN got'[c] = selectPlatforms(r)
        /\ left'[c] = Budget + Overrun /\ age'[c] = 0
        /\ r.rest => deadline'[c] = Handler
    BY <1>3, <2>1 DEF TopicInv, Types
  <2>5. Mine(c)'
    BY <2>3, <2>4, Constants DEF Mine, Working, Inferring, InBudget
  <2>6. \A d \in Callers \ {c} : Same(d)
    BY <1>3, <2>1 DEF TopicInv, Types, Same
  <2> QED
    BY <1>0, <2>2, <2>5, <2>6, OneMoves
<1> QED
  BY <1>1, <1>2, <1>3 DEF Ask

LEMMA SearchEndsKeeps ==
    ASSUME TopicInv, NEW c \in Callers, NEW p, NEW outcome, SearchEnds(c, p, outcome)
    PROVE  TopicInv'
<1>1. Types'
  BY DEF TopicInv, Types, SearchEnds
<1>2. DOMAIN got'[c] = DOMAIN got[c]
  BY DEF TopicInv, Types, SearchEnds
<1>3. Mine(c)'
  BY <1>2 DEF TopicInv, SearchEnds, Mine, Working, Inferring, InBudget
<1>4. \A d \in Callers \ {c} : Same(d)
  BY DEF TopicInv, Types, SearchEnds, Same
<1> QED
  BY <1>1, <1>3, <1>4, OneMoves DEF TopicInv, SearchEnds

(* The next inference call of c. *)
LEMMA NextStage ==
    ASSUME TopicInv, NEW c \in Callers, NEW stage \in {"classify", "aspects"},
           pc[c] = IF stage = "classify" THEN "fanout" ELSE "classify",
           pc' = [pc EXCEPT ![c] = stage], left' = [left EXCEPT ![c] = InferenceBudget],
           UNCHANGED <<cache, req, got, deadline, age, reply>>
    PROVE  TopicInv'
<1>1. Types'
  BY Constants DEF TopicInv, Types, InferenceBudget
<1>2. /\ pc'[c] = stage /\ left'[c] = Infer
      /\ req[c] \in Requests /\ DOMAIN got[c] \subseteq Platforms /\ InBudget(c)
      /\ age[c] \in 0..Old
  BY DEF TopicInv, Types, Mine, Working, Inferring, InferenceBudget
<1>3. Mine(c)'
  BY <1>2, Constants DEF Mine, Working, Inferring, InBudget
<1>4. \A d \in Callers \ {c} : Same(d)
  BY DEF TopicInv, Types, Same
<1> QED
  BY <1>1, <1>3, <1>4, OneMoves DEF TopicInv

LEMMA FinishKeeps ==
    ASSUME TopicInv, NEW c \in Callers, Working(c), Finish(c) PROVE TopicInv'
<1>1. cache' \in Seq(Good)
  <2>1. CASE Failed(c) = {}
    BY <2>1, AnswerIsOwed, SetKeeps DEF Finish
  <2>2. CASE Failed(c) # {}
    BY <2>2 DEF Finish, TopicInv
  <2> QED
    BY <2>1, <2>2
<1> QED
  BY <1>1, AnswerIsOwed, ReturnMoves DEF Finish

(* A return that leaves the cache alone. *)
LEMMA GivesUp ==
    ASSUME TopicInv, NEW c \in Callers, Working(c), NEW r, r = ERROR \/ r = answer(c),
           Return(c, r), UNCHANGED <<cache, req>>
    PROVE  TopicInv'
BY AnswerIsOwed, ReturnMoves DEF TopicInv

LEMMA HangUpKeeps == ASSUME TopicInv, NEW c \in Callers, HangUp(c) PROVE TopicInv'
<1>1. Types' /\ deadline'[c] = 0
  BY DEF TopicInv, Types, HangUp
<1>2. age[c] \in 0..Old /\ Mine(c) /\ deadline[c] \in Nat \cup {NULL}
  BY DEF TopicInv, Types
<1>3. Mine(c)'
  BY <1>1, <1>2, Constants DEF HangUp, Mine, Working, Inferring, InBudget
<1>4. \A d \in Callers \ {c} : Same(d)
  BY DEF TopicInv, Types, HangUp, Same
<1> QED
  BY <1>1, <1>3, <1>4, OneMoves DEF TopicInv, HangUp

LEMMA LeaveKeeps == ASSUME TopicInv, NEW c \in Callers, Leave(c) PROVE TopicInv'
<1>1. Types' /\ pc'[c] = "idle" /\ age'[c] = 0
  BY DEF TopicInv, Types, Mine, Leave
<1>2. Mine(c)'
  BY <1>1 DEF Mine, Working, Inferring
<1>3. \A d \in Callers \ {c} : Same(d)
  BY DEF TopicInv, Types, Leave, Same
<1> QED
  BY <1>1, <1>2, <1>3, OneMoves DEF TopicInv, Leave

LEMMA TickKeeps == ASSUME TopicInv, Tick PROVE TopicInv'
<1>0. NULL \notin Nat
  BY TopicServiceAssumption
<1>1. \A n \in Nat : Less(n) \in Nat /\ (n > 0 => Less(n) = n - 1) /\ Less(n) <= n
  BY DEF Less
<1>2. \A n \in 0..Old : Older(n) \in 0..Old /\ Older(n) <= n + 1
  BY Constants DEF Older
<1>3. cache' \in Seq(Good)
  <2>1. \A i \in 1..Len(cache) : cache[i] \in Good
    BY ElementOfSeq DEF TopicInv
  <2>2. ASSUME NEW e \in Good
        PROVE  Aged(e) \in Good
    <3> DEFINE f == Aged(e)
    <3>1. /\ e.key \in {Key(r) : r \in Requests} /\ e.answer \in Answer /\ e.left \in 0..Ttl + 1
          /\ e \in [key : {Key(r) : r \in Requests}, answer : Answer, left : 0..Ttl + 1]
          /\ Key(e.answer.of) = e.key /\ e.answer.warned = {}
          /\ e.answer.age + e.left <= Ttl + 1 + Longest
          /\ e.answer.age \in 0..Old
      BY <2>2 DEF Good, Entry, Answer
    <3>2. /\ f.key = e.key /\ f.left = Less(e.left)
          /\ f.answer = [e.answer EXCEPT !.age = Older(@)]
          /\ f \in [key : {Key(r) : r \in Requests}, answer : {f.answer}, left : {f.left}]
      BY <3>1 DEF Aged
    <3>3. /\ f.answer \in Answer /\ f.answer.of = e.answer.of
          /\ f.answer.warned = {} /\ f.answer.age = Older(e.answer.age)
      BY <1>2, <3>1, <3>2 DEF Answer
    <3>4. f.left \in 0..Ttl + 1 /\ f.answer.age + f.left <= Ttl + 1 + Longest
      <4>1. CASE e.left > 0
        BY <1>1, <1>2, <3>1, <3>2, <3>3, <4>1, Constants
      <4>2. CASE e.left = 0
        BY <1>1, <1>2, <3>1, <3>2, <3>3, <4>2, Constants DEF Less, Older
      <4> QED
        BY <3>1, <4>1, <4>2
    <3> QED
      BY <3>1, <3>2, <3>3, <3>4 DEF Good, Entry
  <2>3. Len(cache) \in Nat
    BY LenProperties DEF TopicInv
  <2> QED
    BY <2>1, <2>2, <2>3, IsASeq DEF Tick
<1>4. Types'
  <2>1. left' \in [Callers -> Nat \cup {NULL}] /\ deadline' \in [Callers -> Nat \cup {NULL}]
    BY <1>1 DEF Tick, Run, TopicInv, Types
  <2>2. age' \in [Callers -> 0..Old]
    BY <1>2, Constants DEF Tick, TopicInv, Types
  <2> QED
    BY <2>1, <2>2 DEF Tick, TopicInv, Types
<1>5. ASSUME NEW c \in Callers PROVE Mine(c)'
  <2>1. CASE ~Working(c)
    BY <2>1 DEF Tick, TopicInv, Types, Mine, Working, Inferring
  <2>2. CASE Working(c)
    <3>1. /\ req[c] \in Requests /\ DOMAIN got[c] \subseteq Platforms /\ InBudget(c)
          /\ left[c] \in Nat /\ age[c] \in 0..Old /\ deadline[c] \in Nat \cup {NULL}
          /\ pc[c] \in {"fanout", "classify", "aspects"}
      BY <2>2 DEF TopicInv, Types, Mine, Working, Inferring, InBudget
    <3>2. left[c] > 0
      BY <2>2, <3>1 DEF Tick, Working, Overdue, Cut
    <3>3. pc[c] # "fanout" => deadline[c] # 0
      BY <2>2, <3>1 DEF Tick, Working, Inferring, Cut
    <3>4. /\ left'[c] = left[c] - 1 /\ age'[c] = Older(age[c]) /\ age'[c] <= age[c] + 1
          /\ age'[c] \in 0..Old
          /\ deadline[c] \in Nat => deadline'[c] = Less(deadline[c])
      BY <1>0, <1>1, <1>2, <2>2, <3>1, <3>2 DEF Tick, Run
    <3>5. pc[c] = "fanout" => age'[c] <= Budget + Overrun
      BY <3>1, <3>2, <3>4, Constants DEF InBudget
    <3>6. req[c].rest => deadline'[c] \in Nat /\ age'[c] + deadline'[c] <= Handler
      BY <1>1, <3>1, <3>3, <3>4, <3>5, Constants DEF InBudget, Less
    <3>7. InBudget(c)'
      <4>1. left'[c] \in Nat /\ age'[c] + left'[c] <= age[c] + left[c]
        BY <3>1, <3>2, <3>4, Constants
      <4>2. pc' = pc /\ req' = req
        BY DEF Tick
      <4>3. /\ age[c] \in Nat /\ left[c] \in Nat /\ age'[c] \in Nat
            /\ Budget + Overrun \in Nat /\ Budget + Overrun + Infer \in Nat /\ Longest \in Nat
        BY <3>1, <3>4, Constants
      <4> HIDE DEF InBudget
      <4> QED
        BY <3>1, <3>6, <4>1, <4>2, <4>3 DEF InBudget
    <3> QED
      BY <3>1, <3>7 DEF Tick, Mine, Working, Inferring
  <2> QED
    BY <2>1, <2>2
<1> QED
  BY <1>3, <1>4, <1>5 DEF TopicInv

LEMMA TopicInvInit == TopicInit => TopicInv
<1> SUFFICES ASSUME TopicInit PROVE TopicInv
  OBVIOUS
<1>1. Types
  BY Constants DEF TopicInit, Types
<1>2. \A c \in Callers : Mine(c)
  BY DEF TopicInit, Mine, Working, Inferring
<1> QED
  BY <1>1, <1>2, EmptySeq DEF TopicInit, TopicInv

LEMMA TopicInvStep == TopicInv /\ [TopicNext]_topicVars => TopicInv'
<1> SUFFICES ASSUME TopicInv, [TopicNext]_topicVars PROVE TopicInv'
  OBVIOUS
<1>1. ASSUME NEW c \in Callers, NEW r \in Requests, Ask(c, r) PROVE TopicInv'
  BY <1>1, AskKeeps
<1>2. ASSUME NEW c \in Callers, NEW p \in Platforms, SearchReturns(c, p) \/ SearchCut(c, p)
      PROVE  TopicInv'
  BY <1>2, SearchEndsKeeps DEF SearchReturns, SearchCut
<1>3. ASSUME NEW c \in Callers, Gather(c) PROVE TopicInv'
  <2>1. pc[c] = "fanout" /\ Working(c)
    BY <1>3 DEF Gather, Working
  <2>2. CASE Return(c, ERROR)
    BY <1>3, <2>1, <2>2, GivesUp DEF Gather
  <2>3. CASE Return(c, answer(c))
    BY <1>3, <2>1, <2>3, GivesUp DEF Gather
  <2>4. CASE /\ pc' = [pc EXCEPT ![c] = "classify"]
             /\ left' = [left EXCEPT ![c] = InferenceBudget]
             /\ UNCHANGED <<got, deadline, age, reply>>
    BY <1>3, <2>1, <2>4, NextStage DEF Gather
  <2> QED
    BY <1>3, <2>2, <2>3, <2>4 DEF Gather
<1>4. ASSUME NEW c \in Callers, Classified(c) PROVE TopicInv'
  <2>1. pc[c] = "classify" /\ Working(c)
    BY <1>4 DEF Classified, Working, Inferring
  <2>2. CASE Finish(c)
    BY <2>1, <2>2, FinishKeeps
  <2>3. CASE /\ pc' = [pc EXCEPT ![c] = "aspects"]
             /\ left' = [left EXCEPT ![c] = InferenceBudget]
             /\ UNCHANGED <<cache, req, got, deadline, age, reply>>
    BY <2>1, <2>3, NextStage
  <2> QED
    BY <1>4, <2>2, <2>3 DEF Classified
<1>5. ASSUME NEW c \in Callers, AspectsClassified(c) PROVE TopicInv'
  BY <1>5, FinishKeeps DEF AspectsClassified, Working, Inferring
<1>6. ASSUME NEW c \in Callers, InferenceFails(c) \/ InferenceCut(c) PROVE TopicInv'
  BY <1>6, GivesUp DEF InferenceFails, InferenceCut, Working
<1>7. ASSUME NEW c \in Callers, HangUp(c) PROVE TopicInv'
  BY <1>7, HangUpKeeps
<1>8. ASSUME NEW c \in Callers, Leave(c) PROVE TopicInv'
  BY <1>8, LeaveKeeps
<1>9. CASE Tick
  BY <1>9, TickKeeps
<1>10. CASE UNCHANGED topicVars
  BY <1>10 DEF topicVars, callVars, TopicInv, Types, Mine, Working, Inferring, InBudget
<1> QED
  BY <1>1, <1>2, <1>3, <1>4, <1>5, <1>6, <1>7, <1>8, <1>9, <1>10 DEF TopicNext

(***************************************************************************)
(* The inductive invariant: what the cache holds and what callers are      *)
(* still owed (service.go:167-270, cache.go:32-51).                        *)
(***************************************************************************)
THEOREM TopicInvariant == TopicSpec => []TopicInv
BY TopicInvInit, TopicInvStep, PTL DEF TopicSpec

(***************************************************************************)
(* An answer is one to the caller's own question, from the platforms and   *)
(* with the credentials of that caller, however requests share the cache   *)
(* (service.go:406-431).                                                    *)
(***************************************************************************)
THEOREM AnsweredAsAsked == TopicSpec => []AnswersTheCaller
<1>1. TopicInv => AnswersTheCaller
  <2> SUFFICES ASSUME TopicInv, NEW c \in Callers, Answered(c)
               PROVE  LET mine == req[c]  theirs == reply[c].of
                      IN  /\ Folded[mine.ask] = Folded[theirs.ask]
                          /\ selectPlatforms(mine) = selectPlatforms(theirs)
                          /\ mine.creds = theirs.creds
                          /\ AspectsOf(mine.aspects) \cup AspectsOf(theirs.aspects) \subseteq Plain =>
                               AspectsOf(mine.aspects) = AspectsOf(theirs.aspects)
    BY DEF AnswersTheCaller
  <2>1. Key(reply[c].of) = Key(req[c])
    BY DEF TopicInv, Mine, Owed, Answered
  <2>2. req[c].aspects \in DOMAIN Joined /\ reply[c].of.aspects \in DOMAIN Joined
    <3>1. req[c] \in Request /\ reply[c].of \in Request
      BY TopicServiceAssumption DEF TopicInv, Mine, Owed, Answered, Answer
    <3> QED  BY <3>1 DEF Request
  <2>3. Joined[req[c].aspects] = Joined[reply[c].of.aspects]
    BY <2>1 DEF Key
  <2>4. AspectsOf(req[c].aspects) \cup AspectsOf(reply[c].of.aspects) \subseteq Plain =>
          AspectsOf(req[c].aspects) = AspectsOf(reply[c].of.aspects)
    BY <2>2, <2>3, JoinedAssumption
  <2> QED
    BY <2>1, <2>4 DEF Key, selectPlatforms, Usable
<1> QED
  BY <1>1, TopicInvariant, PTL

(***************************************************************************)
(* No answer is older than a cached one may live on top of the longest     *)
(* analysis, whoever overwrites whose entry (service.go:267).              *)
(***************************************************************************)
THEOREM AnsweredFresh == TopicSpec => []AnswersAreFresh
<1>1. TopicInv => AnswersAreFresh
  BY DEF TopicInv, Mine, Owed, Answered, AnswersAreFresh
<1> QED
  BY <1>1, TopicInvariant, PTL

(***************************************************************************)
(* No request runs longer than its stages may take together, nor over REST *)
(* longer than its handler may (rest.go:22-29, client.go:72-78).           *)
(***************************************************************************)
THEOREM AnsweredSoon == TopicSpec => []AnsweredInTime
<1>1. TopicInv => AnsweredInTime
  <2> SUFFICES ASSUME TopicInv, NEW c \in Callers, Working(c)
               PROVE  age[c] <= IF req[c].rest /\ Handler < Longest THEN Handler ELSE Longest
    BY DEF AnsweredInTime
  <2>1. InBudget(c) /\ age[c] \in 0..Old /\ pc[c] \in {"fanout", "classify", "aspects"}
    BY DEF TopicInv, Types, Mine, Working, Inferring
  <2> QED
    BY <2>1, Constants DEF InBudget
<1> QED
  BY <1>1, TopicInvariant, PTL

(***************************************************************************)
(* An answer that warns of a failed platform is never found in the cache   *)
(* by who asks later (service.go:262-265).                                 *)
(***************************************************************************)
THEOREM WarnedOnce == TopicSpec => WarningsStayPrivate
<1> DEFINE Private == \A c \in Callers :
                        pc[c] = "idle" /\ pc'[c] = "done" /\ reply'[c] # ERROR =>
                          reply'[c].warned = {}
<1>1. TopicInv /\ [TopicNext]_topicVars => [Private]_topicVars
  <2> SUFFICES ASSUME TopicInv, TopicNext, NEW c \in Callers,
                      pc[c] = "idle", pc'[c] = "done", reply'[c] # ERROR
               PROVE  reply'[c].warned = {}
    OBVIOUS
  <2>2. ASSUME NEW d \in Callers, NEW r \in Requests, Ask(d, r) PROVE reply'[c].warned = {}
    <3>1. d = c
      BY <2>2 DEF Ask, Return, TopicInv, Types
    <3>2. \E e \in Hits(buildCacheKey(r)) : Return(c, e.answer)
      BY <2>2, <3>1 DEF Ask, Return, TopicInv, Types
    <3>3. PICK e \in Hits(buildCacheKey(r)) : Return(c, e.answer)
      BY <3>2
    <3>4. e \in Good /\ reply'[c] = e.answer
      BY <3>3, HitsAreGood DEF Return, TopicInv, Types
    <3> QED
      BY <3>4 DEF Good
  <2>3. ASSUME NEW d \in Callers, NEW p \in Platforms, SearchReturns(d, p) \/ SearchCut(d, p)
        PROVE  FALSE
    BY <2>3 DEF SearchReturns, SearchCut, SearchEnds
  <2>4. ASSUME NEW d \in Callers, Working(d),
               Gather(d) \/ Classified(d) \/ AspectsClassified(d) \/ InferenceFails(d)
                 \/ InferenceCut(d)
        PROVE  FALSE
    BY <2>4 DEF Gather, Classified, AspectsClassified, InferenceFails, InferenceCut, Finish,
                Return, Working, Inferring, TopicInv, Types
  <2>5. ASSUME NEW d \in Callers, HangUp(d) \/ Leave(d) PROVE FALSE
    BY <2>5 DEF HangUp, Leave, TopicInv, Types
  <2>6. CASE Tick
    BY <2>6 DEF Tick
  <2>7. \A d \in Callers :
          Gather(d) \/ Classified(d) \/ AspectsClassified(d) \/ InferenceFails(d)
            \/ InferenceCut(d) => Working(d)
    BY DEF Gather, Classified, AspectsClassified, InferenceFails, InferenceCut, Working, Inferring
  <2> QED
    BY <2>2, <2>3, <2>4, <2>5, <2>6, <2>7 DEF TopicNext
<1> QED
  BY <1>1, TopicInvariant, PTL DEF TopicSpec, WarningsStayPrivate

-----------------------------------------------------------------------------
(***************************************************************************)
(* The least recently used entry makes room: an invariant of its own, on   *)
(* top of the one above, for the size of the cache, its keys and what      *)
(* callers have running.                                                   *)
(***************************************************************************)
Distinct(entries) ==
    \A i, j \in 1..Len(entries) : entries[i].key = entries[j].key => i = j

Lru == Len(cache) <= Size /\ Distinct(cache)

Collecting(c) ==
    IF Working(c)
    THEN \E P \in SUBSET Platforms :
           /\ got[c] \in [P -> {"none", "whole", "empty", "part", "failed"}]
           /\ \A p \in P : got[c][p] \in Outcomes(p) \cup {"none"}
    ELSE got[c] = NULL

Timed(c) ==
    /\ left[c] \in 0..Budget + Overrun + Infer \cup {NULL}
    /\ deadline[c] \in 0..Handler \cup {NULL}

CallerOK(c) == Collecting(c) /\ Timed(c)

LruInv == Lru /\ \A c \in Callers : CallerOK(c)

(* Removing a key leaves none of it, and the other entries in their order. *)
LEMMA OthersAreDistinct ==
    ASSUME TopicInv, Distinct(cache), NEW k
    PROVE  /\ Others(k) \in Seq(Good)
           /\ Distinct(Others(k))
           /\ \A i \in 1..Len(Others(k)) : Others(k)[i].key # k
           /\ Len(Others(k)) <= Len(cache)
           /\ Hits(k) # {} => Len(Others(k)) < Len(cache)
<1> DEFINE At == {i \in 1..Len(cache) : cache[i].key = k}
           at == CHOOSE i \in At : TRUE
<1>0. cache \in Seq(Good) /\ Len(cache) \in Nat /\ Others(k) \in Seq(Good)
  BY LenProperties, OthersAreGood DEF TopicInv
<1>1. CASE At = {}
  <2>1. Others(k) = cache /\ Hits(k) = {}
    BY <1>1 DEF Others, Hits
  <2>2. \A i \in 1..Len(cache) : cache[i].key # k
    BY <1>1
  <2> QED
    BY <1>0, <2>1, <2>2
<1>2. CASE At # {}
  <2>1. at \in 1..Len(cache) /\ cache[at].key = k
    BY <1>2
  <2> HIDE DEF at
  <2> DEFINE before == SubSeq(cache, 1, at - 1)
             after == SubSeq(cache, at + 1, Len(cache))
             from(i) == IF i < at THEN i ELSE i + 1
  <2>2. Others(k) = before \o after
    BY <1>2 DEF Others, at
  <2>3. /\ before \in Seq(Good) /\ Len(before) = at - 1
        /\ \A i \in 1..(at - 1) : before[i] = cache[i]
        /\ after \in Seq(Good) /\ Len(after) = Len(cache) - at
        /\ \A i \in 1..(Len(cache) - at) : after[i] = cache[at + i]
    <3>1. at \in Nat /\ at > 0 /\ at <= Len(cache)
      BY <1>0, <2>1
    <3>2. \A i \in 1..(at - 1) : i \in 1..Len(cache)
      BY <1>0, <3>1
    <3>3. \A i \in (at + 1)..Len(cache) : i \in 1..Len(cache)
      BY <1>0, <3>1
    <3>4. before \in Seq(Good) /\ after \in Seq(Good)
      BY <1>0, <3>1, <3>2, <3>3, SubSeqProperties
    <3>5. /\ Len(before) = at - 1
          /\ \A i \in 1..(at - 1) : before[i] = cache[i]
      BY <1>0, <3>1
    <3>6. /\ Len(after) = Len(cache) - at
          /\ \A i \in 1..(Len(cache) - at) : after[i] = cache[at + i]
      BY <1>0, <3>1
    <3> QED
      BY <3>4, <3>5, <3>6
  <2> HIDE DEF before, after
  <2>4. Len(Others(k)) = Len(cache) - 1
        /\ \A i \in 1..(Len(cache) - 1) :
             Others(k)[i] = IF i <= at - 1 THEN before[i] ELSE after[i - (at - 1)]
    <3> DEFINE both == before \o after
    <3>1. at \in Nat /\ at > 0 /\ at <= Len(cache)
      BY <1>0, <2>1
    <3>2. /\ Len(both) = Len(before) + Len(after)
          /\ \A i \in 1..(Len(before) + Len(after)) :
               both[i] = IF i <= Len(before) THEN before[i] ELSE after[i - Len(before)]
      BY <2>3, ConcatProperties
    <3> HIDE DEF both
    <3>3. Len(before) + Len(after) = Len(cache) - 1 /\ Len(before) = at - 1
      BY <1>0, <2>3, <3>1
    <3>4. both = Others(k)
      BY <2>2 DEF both
    <3> QED
      BY <3>2, <3>3, <3>4
  <2>5. ASSUME NEW i \in 1..(Len(cache) - 1)
        PROVE  Others(k)[i] = cache[from(i)] /\ from(i) \in 1..Len(cache) /\ from(i) # at
    <3>1. CASE i < at
      BY <1>0, <2>1, <2>3, <2>4, <3>1
    <3>2. CASE ~(i < at)
      <4>1. i - (at - 1) \in 1..(Len(cache) - at) /\ at + (i - (at - 1)) = i + 1
        BY <1>0, <2>1, <3>2
      <4>2. Others(k)[i] = after[i - (at - 1)] /\ after[i - (at - 1)] = cache[i + 1]
        BY <1>0, <2>1, <2>3, <2>4, <3>2, <4>1
      <4> QED
        BY <1>0, <2>1, <3>2, <4>2
    <3> QED
      BY <3>1, <3>2
  <2>6. \A i \in 1..Len(Others(k)) : Others(k)[i].key # k
    <3> SUFFICES ASSUME NEW i \in 1..Len(Others(k)), Others(k)[i].key = k PROVE FALSE
      OBVIOUS
    <3>1. cache[from(i)].key = k /\ from(i) \in 1..Len(cache) /\ from(i) # at
      BY <2>4, <2>5
    <3> QED
      BY <2>1, <3>1 DEF Distinct
  <2>7. Distinct(Others(k))
    <3> SUFFICES ASSUME NEW i \in 1..Len(Others(k)), NEW j \in 1..Len(Others(k)),
                        Others(k)[i].key = Others(k)[j].key
                 PROVE  i = j
      BY DEF Distinct
    <3>1. /\ from(i) \in 1..Len(cache) /\ from(j) \in 1..Len(cache)
          /\ cache[from(i)].key = cache[from(j)].key
      BY <2>4, <2>5
    <3>2. from(i) = from(j)
      BY <3>1 DEF Distinct
    <3> QED
      BY <1>0, <2>1, <2>4, <3>2
  <2> QED
    BY <1>0, <2>4, <2>6, <2>7
<1> QED
  BY <1>1, <1>2

(* An entry put in front of the others is the only one of its key. *)
LEMMA InFrontIsDistinct ==
    ASSUME TopicInv, Distinct(cache), NEW e \in Good
    PROVE  /\ <<e>> \o Others(e.key) \in Seq(Good)
           /\ Len(<<e>> \o Others(e.key)) = Len(Others(e.key)) + 1
           /\ Distinct(<<e>> \o Others(e.key))
<1> DEFINE rest == Others(e.key)
           entries == <<e>> \o rest
<1>1. /\ rest \in Seq(Good) /\ Distinct(rest)
      /\ \A i \in 1..Len(rest) : rest[i].key # e.key
  BY OthersAreDistinct
<1> HIDE DEF rest
<1>2. /\ entries \in Seq(Good) /\ Len(entries) = Len(rest) + 1 /\ Len(rest) \in Nat
      /\ entries[1] = e
      /\ \A i \in 2..Len(rest) + 1 : i - 1 \in 1..Len(rest) /\ entries[i] = rest[i - 1]
  BY <1>1
<1> HIDE DEF entries
<1>3. Distinct(entries)
  <2> SUFFICES ASSUME NEW i \in 1..Len(entries), NEW j \in 1..Len(entries),
                      entries[i].key = entries[j].key, i < j
               PROVE  FALSE
    <3>1. ASSUME NEW i \in 1..Len(entries), NEW j \in 1..Len(entries),
                 entries[i].key = entries[j].key, i # j
          PROVE  FALSE
      <4>1. i < j \/ j < i
        BY <1>2, <3>1
      <4> QED
        BY <3>1, <4>1
    <3> QED
      BY <3>1 DEF Distinct
  <2>1. j - 1 \in 1..Len(rest) /\ entries[j] = rest[j - 1]
    BY <1>2
  <2>2. CASE i = 1
    BY <1>1, <1>2, <2>1, <2>2
  <2>3. CASE i # 1
    <3>1. i - 1 \in 1..Len(rest) /\ entries[i] = rest[i - 1]
      BY <1>2, <2>3
    <3>2. i - 1 = j - 1
      BY <1>1, <2>1, <3>1 DEF Distinct
    <3> QED
      BY <1>2, <3>2
  <2> QED
    BY <2>2, <2>3
<1> QED
  BY <1>2, <1>3 DEF rest, entries

LEMMA GetKeepsLru == ASSUME TopicInv, Lru, NEW k, Get(k) PROVE Lru'
<1>0. Distinct(cache) /\ Len(cache) <= Size /\ Len(cache) \in Nat /\ Size \in Nat
  BY LenProperties, TopicServiceAssumption DEF Lru, TopicInv
<1>1. /\ Others(k) \in Seq(Good) /\ Distinct(Others(k)) /\ Len(Others(k)) \in Nat
      /\ Len(Others(k)) <= Len(cache)
      /\ Hits(k) # {} => Len(Others(k)) < Len(cache)
  BY <1>0, OthersAreDistinct, LenProperties
<1>2. CASE Hits(k) = {}
  <2>1. cache' = Others(k)
    BY <1>2 DEF Get
  <2> QED
    BY <1>0, <1>1, <2>1 DEF Lru, Distinct
<1>3. CASE Hits(k) # {}
  <2>1. PICK e \in Hits(k) : cache' = <<e>> \o Others(k)
    BY <1>3 DEF Get
  <2>2. e \in Good /\ e.key = k
    BY HitsAreGood DEF Hits
  <2>3. Len(cache') = Len(Others(k)) + 1 /\ Distinct(cache')
    BY <1>0, <2>1, <2>2, InFrontIsDistinct
  <2> QED
    BY <1>0, <1>1, <1>3, <2>3 DEF Lru, Distinct
<1> QED
  BY <1>2, <1>3

LEMMA SetKeepsLru ==
    ASSUME TopicInv, Lru, NEW q \in Requests, NEW a, Owed(q, a), a.warned = {},
           a.age <= Longest, Set(buildCacheKey(q), a)
    PROVE  Lru'
<1> DEFINE e == [key |-> buildCacheKey(q), answer |-> a, left |-> Ttl + 1]
           entries == <<e>> \o Others(buildCacheKey(q))
           size == IF Len(entries) < Size THEN Len(entries) ELSE Size
<1>1. e \in Good /\ e.key = buildCacheKey(q)
  BY Constants DEF Good, Entry, Owed, Answer, buildCacheKey
<1>2. entries \in Seq(Good) /\ Distinct(entries)
  BY <1>1, InFrontIsDistinct DEF Lru
<1>3. cache' = SubSeq(entries, 1, size)
  BY DEF Set
<1> HIDE DEF entries
<1>4. Len(entries) \in Nat /\ Size \in Nat \ {0}
  BY <1>2, LenProperties, TopicServiceAssumption
<1>5. /\ Len(cache') = size /\ size \in Nat
      /\ \A i \in 1..size : i \in 1..Len(entries) /\ cache'[i] = entries[i]
  BY <1>2, <1>3, <1>4
<1> QED
  BY <1>2, <1>4, <1>5 DEF Lru, Distinct

(* The caller at work is the one whose timers and results change. *)
LEMMA OthersAreOK ==
    ASSUME LruInv, NEW c \in Callers, Lru', CallerOK(c)', \A d \in Callers \ {c} : Same(d)
    PROVE  LruInv'
<1>1. ASSUME NEW d \in Callers, d # c PROVE CallerOK(d)'
  BY <1>1 DEF LruInv, CallerOK, Collecting, Timed, Same, Working, Inferring
<1> QED
  BY <1>1 DEF LruInv

(* A caller that has returned has nothing running. *)
LEMMA ReturnedIsOK ==
    ASSUME TopicInv, LruInv, NEW c \in Callers, NEW r, NEW q, Return(c, r),
           req' = [req EXCEPT ![c] = q], Lru'
    PROVE  LruInv'
<1>1. CallerOK(c)'
  BY DEF TopicInv, Types, Return, CallerOK, Collecting, Timed, Working, Inferring
<1>2. \A d \in Callers \ {c} : Same(d)
  BY DEF TopicInv, Types, Return, Same
<1> QED
  BY <1>1, <1>2, OthersAreOK

LEMMA AskIsOK ==
    ASSUME TopicInv, LruInv, NEW c \in Callers, NEW r \in Requests, Ask(c, r)
    PROVE  LruInv'
<1>1. Lru' /\ req' = [req EXCEPT ![c] = r]
  BY GetKeepsLru DEF Ask, LruInv
<1>2. ASSUME NEW a, Return(c, a) PROVE LruInv'
  BY <1>1, <1>2, ReturnedIsOK
<1>3. CASE /\ pc' = [pc EXCEPT ![c] = "fanout"]
           /\ got' = [got EXCEPT ![c] = [p \in selectPlatforms(r) |-> "none"]]
           /\ left' = [left EXCEPT ![c] = Budget + Overrun]
           /\ deadline' = [deadline EXCEPT ![c] = IF r.rest THEN Handler ELSE NULL]
           /\ UNCHANGED <<age, reply>>
  <2>1. selectPlatforms(r) \subseteq Platforms
    BY TopicServiceAssumption DEF selectPlatforms, Usable, Request
  <2>2. /\ pc'[c] = "fanout" /\ got'[c] = [p \in selectPlatforms(r) |-> "none"]
        /\ left'[c] = Budget + Overrun /\ deadline'[c] \in {Handler, NULL}
    BY <1>3 DEF TopicInv, Types
  <2>3. Collecting(c)'
    BY <2>1, <2>2 DEF Collecting, Working
  <2>4. Timed(c)'
    BY <2>2, Constants DEF Timed
  <2>5. \A d \in Callers \ {c} : Same(d)
    BY <1>1, <1>3 DEF TopicInv, Types, Same
  <2> QED
    BY <1>1, <2>3, <2>4, <2>5, OthersAreOK DEF CallerOK
<1> QED
  BY <1>2, <1>3 DEF Ask

LEMMA SearchEndsIsOK ==
    ASSUME TopicInv, LruInv, NEW c \in Callers, NEW p \in Platforms,
           NEW outcome \in Outcomes(p), SearchEnds(c, p, outcome)
    PROVE  LruInv'
<1>1. Lru'
  BY DEF SearchEnds, LruInv, Lru
<1>2. PICK P \in SUBSET Platforms :
        /\ got[c] \in [P -> {"none", "whole", "empty", "part", "failed"}]
        /\ \A q \in P : got[c][q] \in Outcomes(q) \cup {"none"}
  BY DEF SearchEnds, LruInv, CallerOK, Collecting, Working
<1>3. got'[c] = [got[c] EXCEPT ![p] = outcome] /\ Working(c)'
  BY DEF SearchEnds, TopicInv, Types, Working
<1>4. outcome \in {"none", "whole", "empty", "part", "failed"}
  BY DEF Outcomes
<1>5. /\ got'[c] \in [P -> {"none", "whole", "empty", "part", "failed"}]
      /\ \A q \in P : got'[c][q] \in Outcomes(q) \cup {"none"}
  BY <1>2, <1>3, <1>4
<1>6. Collecting(c)'
  BY <1>3, <1>5 DEF Collecting
<1>7. Timed(c)'
  BY DEF SearchEnds, LruInv, CallerOK, Timed
<1>8. \A d \in Callers \ {c} : Same(d)
  BY DEF TopicInv, Types, SearchEnds, Same
<1> QED
  BY <1>1, <1>6, <1>7, <1>8, OthersAreOK DEF CallerOK

(* The next inference call of c. *)
LEMMA NextStageIsOK ==
    ASSUME TopicInv, LruInv, NEW c \in Callers, NEW stage \in {"classify", "aspects"},
           Working(c), pc' = [pc EXCEPT ![c] = stage],
           left' = [left EXCEPT ![c] = InferenceBudget],
           UNCHANGED <<cache, req, got, deadline, age, reply>>
    PROVE  LruInv'
<1>1. Lru'
  BY DEF LruInv, Lru
<1>2. pc'[c] = stage /\ left'[c] = Infer /\ got'[c] = got[c] /\ deadline'[c] = deadline[c]
  BY DEF TopicInv, Types, InferenceBudget
<1>3. Collecting(c)'
  BY <1>2 DEF LruInv, CallerOK, Collecting, Working, Inferring
<1>4. Timed(c)'
  BY <1>2, Constants DEF LruInv, CallerOK, Timed
<1>5. \A d \in Callers \ {c} : Same(d)
  BY DEF TopicInv, Types, Same
<1> QED
  BY <1>1, <1>3, <1>4, <1>5, OthersAreOK DEF CallerOK

LEMMA FinishIsOK ==
    ASSUME TopicInv, LruInv, NEW c \in Callers, Working(c), Finish(c) PROVE LruInv'
<1>1. Lru'
  <2>1. CASE Failed(c) = {}
    BY <2>1, AnswerIsOwed, SetKeepsLru DEF Finish, LruInv
  <2>2. CASE Failed(c) # {}
    BY <2>2 DEF Finish, LruInv, Lru
  <2> QED
    BY <2>1, <2>2
<1> QED
  BY <1>1, AnswerIsOwed, ReturnedIsOK DEF Finish

(* A return that leaves the cache alone. *)
LEMMA GivingUpIsOK ==
    ASSUME TopicInv, LruInv, NEW c \in Callers, Working(c), NEW r, Return(c, r),
           UNCHANGED <<cache, req>>
    PROVE  LruInv'
<1>1. Lru'
  BY DEF LruInv, Lru
<1> QED
  BY <1>1, AnswerIsOwed, ReturnedIsOK

LEMMA HangUpIsOK ==
    ASSUME TopicInv, LruInv, NEW c \in Callers, HangUp(c) PROVE LruInv'
<1>1. Lru'
  BY DEF HangUp, LruInv, Lru
<1>2. CallerOK(c)'
  BY Constants DEF HangUp, TopicInv, Types, LruInv, CallerOK, Collecting, Timed, Working, Inferring
<1>3. \A d \in Callers \ {c} : Same(d)
  BY DEF TopicInv, Types, HangUp, Same
<1> QED
  BY <1>1, <1>2, <1>3, OthersAreOK

LEMMA LeaveIsOK ==
    ASSUME TopicInv, LruInv, NEW c \in Callers, Leave(c) PROVE LruInv'
<1>1. Lru'
  BY DEF Leave, LruInv, Lru
<1>2. CallerOK(c)'
  BY DEF Leave, TopicInv, Types, LruInv, CallerOK, Collecting, Timed, Working, Inferring
<1>3. \A d \in Callers \ {c} : Same(d)
  BY DEF TopicInv, Types, Leave, Same
<1> QED
  BY <1>1, <1>2, <1>3, OthersAreOK

LEMMA TickIsOK == ASSUME TopicInv, LruInv, Tick PROVE LruInv'
<1>1. Lru'
  <2>1. Len(cache) \in Nat /\ Len(cache) <= Size /\ Distinct(cache)
    BY LenProperties DEF TopicInv, LruInv, Lru
  <2>2. /\ Len(cache') = Len(cache)
        /\ \A i \in 1..Len(cache) : cache'[i] = Aged(cache[i])
    BY <2>1 DEF Tick
  <2>3. ASSUME NEW i \in 1..Len(cache) PROVE cache'[i].key = cache[i].key
    <3>1. ASSUME NEW e PROVE Aged(e).key = e.key
      <4> DEFINE a == [e.answer EXCEPT !.age = Older(@)]
      <4>1. Aged(e) = [key |-> e.key, answer |-> a, left |-> Less(e.left)]
        BY DEF Aged
      <4> HIDE DEF a
      <4> QED
        BY <4>1
    <3> QED
      BY <2>2, <3>1
  <2> QED
    BY <2>1, <2>2, <2>3 DEF Lru, Distinct
<1>2. ASSUME NEW c \in Callers PROVE CallerOK(c)'
  <2>1. Collecting(c)'
    BY <1>2 DEF Tick, LruInv, CallerOK, Collecting, Working, Inferring
  <2>2. /\ left'[c] = Run(left[c]) /\ deadline'[c] = Run(deadline[c])
        /\ left[c] \in 0..Budget + Overrun + Infer \cup {NULL}
        /\ deadline[c] \in 0..Handler \cup {NULL}
    BY DEF Tick, LruInv, CallerOK, Timed
  <2>3. \A n \in Nat : \A m \in 0..n : Less(m) \in 0..n
    BY DEF Less
  <2>4. Timed(c)'
    BY <2>2, <2>3, Constants DEF Timed, Run
  <2> QED
    BY <2>1, <2>4 DEF CallerOK
<1> QED
  BY <1>1, <1>2 DEF LruInv

LEMMA LruInvInit == TopicInit => LruInv
<1> SUFFICES ASSUME TopicInit PROVE LruInv
  OBVIOUS
<1>1. Lru
  BY TopicServiceAssumption DEF TopicInit, Lru, Distinct
<1>2. \A c \in Callers : CallerOK(c)
  BY DEF TopicInit, CallerOK, Collecting, Timed, Working, Inferring
<1> QED
  BY <1>1, <1>2 DEF LruInv

LEMMA LruInvStep == TopicInv /\ LruInv /\ [TopicNext]_topicVars => LruInv'
<1> SUFFICES ASSUME TopicInv, LruInv, [TopicNext]_topicVars PROVE LruInv'
  OBVIOUS
<1>1. ASSUME NEW c \in Callers, NEW r \in Requests, Ask(c, r) PROVE LruInv'
  BY <1>1, AskIsOK
<1>2. ASSUME NEW c \in Callers, NEW p \in Platforms, SearchReturns(c, p) \/ SearchCut(c, p)
      PROVE  LruInv'
  BY <1>2, SearchEndsIsOK DEF SearchReturns, SearchCut
<1>3. ASSUME NEW c \in Callers, Gather(c) PROVE LruInv'
  <2>1. Working(c)
    BY <1>3 DEF Gather, Working
  <2>2. ASSUME NEW r, Return(c, r) PROVE LruInv'
    BY <1>3, <2>1, <2>2, GivingUpIsOK DEF Gather
  <2>3. CASE /\ pc' = [pc EXCEPT ![c] = "classify"]
             /\ left' = [left EXCEPT ![c] = InferenceBudget]
             /\ UNCHANGED <<got, deadline, age, reply>>
    BY <1>3, <2>1, <2>3, NextStageIsOK DEF Gather
  <2> QED
    BY <1>3, <2>2, <2>3 DEF Gather
<1>4. ASSUME NEW c \in Callers, Classified(c) PROVE LruInv'
  <2>1. Working(c)
    BY <1>4 DEF Classified, Working, Inferring
  <2>2. CASE Finish(c)
    BY <2>1, <2>2, FinishIsOK
  <2>3. CASE /\ pc' = [pc EXCEPT ![c] = "aspects"]
             /\ left' = [left EXCEPT ![c] = InferenceBudget]
             /\ UNCHANGED <<cache, req, got, deadline, age, reply>>
    BY <2>1, <2>3, NextStageIsOK
  <2> QED
    BY <1>4, <2>2, <2>3 DEF Classified
<1>5. ASSUME NEW c \in Callers, AspectsClassified(c) PROVE LruInv'
  BY <1>5, FinishIsOK DEF AspectsClassified, Working, Inferring
<1>6. ASSUME NEW c \in Callers, InferenceFails(c) \/ InferenceCut(c) PROVE LruInv'
  BY <1>6, GivingUpIsOK DEF InferenceFails, InferenceCut, Working
<1>7. ASSUME NEW c \in Callers, HangUp(c) PROVE LruInv'
  BY <1>7, HangUpIsOK
<1>8. ASSUME NEW c \in Callers, Leave(c) PROVE LruInv'
  BY <1>8, LeaveIsOK
<1>9. CASE Tick
  BY <1>9, TickIsOK
<1>10. CASE UNCHANGED topicVars
  BY <1>10 DEF topicVars, callVars, LruInv, Lru, CallerOK, Collecting, Timed, Working, Inferring
<1> QED
  BY <1>1, <1>2, <1>3, <1>4, <1>5, <1>6, <1>7, <1>8, <1>9, <1>10 DEF TopicNext

(***************************************************************************)
(* However callers overlap, the cache never outgrows its capacity and      *)
(* never holds two entries under one key (cache.go:19-51), and no more     *)
(* time is ever left to a caller than the stage it is in was given.        *)
(***************************************************************************)
THEOREM TopicTypeCorrect == TopicSpec => []TopicTypeOK
<1>1. TopicInv /\ LruInv => TopicTypeOK
  <2> SUFFICES ASSUME TopicInv, LruInv PROVE TopicTypeOK
    OBVIOUS
  <2>1. cache \in Seq(Entry)
    <3>1. Good \subseteq Entry
      BY DEF Good
    <3> QED
      BY <3>1 DEF TopicInv
  <2>2. Len(cache) <= Size /\ \A i, j \in 1..Len(cache) : cache[i].key = cache[j].key => i = j
    BY DEF LruInv, Lru, Distinct
  <2>3. \A c \in Callers :
          got[c] = NULL \/ \E P \in SUBSET Platforms :
            /\ got[c] \in [P -> {"none", "whole", "empty", "part", "failed"}]
            /\ \A p \in P : got[c][p] \in Outcomes(p) \cup {"none"}
    BY DEF LruInv, CallerOK, Collecting
  <2>4. /\ left \in [Callers -> 0..Budget + Overrun + Infer \cup {NULL}]
        /\ deadline \in [Callers -> 0..Handler \cup {NULL}]
    BY DEF TopicInv, Types, LruInv, CallerOK, Timed
  <2> QED
    BY <2>1, <2>2, <2>3, <2>4 DEF TopicInv, Types, TopicTypeOK
<1>2. TopicInit => LruInv
  BY LruInvInit
<1>3. TopicInv /\ LruInv /\ [TopicNext]_topicVars => LruInv'
  BY LruInvStep
<1> QED
  BY <1>1, <1>2, <1>3, TopicInvariant, PTL DEF TopicSpec
=============================================================================
