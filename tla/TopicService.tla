---------------------------- MODULE TopicService ----------------------------
(***************************************************************************)
(* Topic analysis: Service.AnalyzeTopic and fanout                         *)
(* (api/internal/service/service.go), the result cache                     *)
(* (api/internal/cache/cache.go) and the deadlines the transports and the  *)
(* inference client put around them.  Callers run concurrently, one        *)
(* goroutine per request and one per connector it asks; they share the     *)
(* cache.                                                                  *)
(*                                                                         *)
(* Time is counted by timers that all run down together.  What runs under  *)
(* an expired or cancelled context returns before time goes on.            *)
(***************************************************************************)
EXTENDS Naturals, Sequences, FiniteSets

CONSTANTS
    Callers,
    Platforms,   \* the connectors of the registry
    Enabled,     \* those the server's own configuration enables
    Unlocks,     \* Unlocks[k]: those the caller's credentials k enable
    FanIn,       \* those that join several upstream feeds (rss)
    Locking,     \* those that wait for a mutex whatever their context (reddit)
    Requests,    \* what callers ask
    Folded,      \* Folded[a]: the question a, trimmed and in lower case
    Joined,      \* Joined[l]: the aspects l, sorted and joined with commas
    Plain,       \* names of aspects that are not blank and have no comma
    Size,        \* capacity of the cache
    Ttl,         \* how long a cached answer is served
    Budget,      \* a connector's time (DefaultConnectorTimeout)
    Infer,       \* an inference call's time (client.go)
    Handler,     \* an HTTP request's time (requestTimeout)
    ERROR,       \* what AnalyzeTopic returns with its error
    NULL

(* What is asked (topic, limit, language, since, location), of which        *)
(* platforms ({}: of all), with whose credentials, with which aspects, and  *)
(* over REST, the one transport with a deadline of its own.                 *)
Request ==
    [ask : DOMAIN Folded, want : SUBSET Platforms, creds : DOMAIN Unlocks,
     aspects : DOMAIN Joined, rest : BOOLEAN]

ASSUME TopicServiceAssumption ==
    /\ Enabled \cup FanIn \cup Locking \subseteq Platforms
    /\ \A k \in DOMAIN Unlocks : Unlocks[k] \subseteq Platforms
    /\ Requests \subseteq Request
    /\ Size \in Nat \ {0}
    /\ {Ttl, Budget, Infer, Handler} \subseteq Nat \ {0}
    /\ 2 * Budget < Handler
    /\ NULL \notin Nat

(* Commas tell apart the names that have none. *)
AspectsOf(l) == {l[i] : i \in DOMAIN l}
ASSUME JoinedAssumption ==
    \A l, m \in DOMAIN Joined :
      AspectsOf(l) \cup AspectsOf(m) \subseteq Plain /\ Joined[l] = Joined[m] =>
        AspectsOf(l) = AspectsOf(m)

VARIABLES
    cache,       \* the entries, most recently used first
    pc,          \* "idle", "fanout", "classify", "aspects", "done"
    req,         \* the request a caller makes
    got,         \* fanoutResult of each connector asked, "none" until it returns
    left,        \* time left to the running connectors or inference call
    deadline,    \* time left to the request, NULL without a deadline
    age,         \* time since the documents began to be fetched
    reply        \* what AnalyzeTopic returned

callVars == <<req, got, left, deadline, age>>
topicVars == <<cache, pc, callVars, reply>>

(* How much longer than its time a connector may wait for a mutex          *)
(* (LockWaitIsBounded of RedditToken).                                      *)
Overrun == IF Locking = {} THEN 0 ELSE Budget

(* The longest an analysis may take, and an age beyond every legal one. *)
Longest == Budget + Overrun + 2 * Infer
Old == Ttl + Longest + 1

(* An answer: the request it was computed for, the platforms whose         *)
(* documents are missing from it, in whole or in part, and those it warns   *)
(* of.                                                                      *)
Answer == [of : Requests, missing : SUBSET Platforms, warned : SUBSET Platforms,
           age : 0..Old]

Key(r) ==
    [ask |-> Folded[r.ask], want |-> r.want, creds |-> r.creds, aspects |-> Joined[r.aspects]]

(* left: more than 0 up to the instant expiresAt, which still hits. *)
Entry == [key : {Key(r) : r \in Requests}, answer : Answer, left : 0..Ttl + 1]

Outcomes(p) ==
    {"whole", "empty", "failed"} \cup (IF p \in FanIn THEN {"part"} ELSE {})

TopicTypeOK ==
    /\ cache \in Seq(Entry) /\ Len(cache) <= Size
    /\ \A i, j \in 1..Len(cache) : cache[i].key = cache[j].key => i = j
    /\ pc \in [Callers -> {"idle", "fanout", "classify", "aspects", "done"}]
    /\ req \in [Callers -> Requests \cup {NULL}]
    /\ \A c \in Callers :
         got[c] = NULL \/ \E P \in SUBSET Platforms :
           /\ got[c] \in [P -> {"none", "whole", "empty", "part", "failed"}]
           /\ \A p \in P : got[c][p] \in Outcomes(p) \cup {"none"}
    /\ left \in [Callers -> 0..Budget + Overrun + Infer \cup {NULL}]
    /\ deadline \in [Callers -> 0..Handler \cup {NULL}]
    /\ age \in [Callers -> 0..Old]
    /\ reply \in [Callers -> Answer \cup {NULL, ERROR}]

TopicInit ==
    /\ cache = <<>>
    /\ pc = [c \in Callers |-> "idle"]
    /\ req = [c \in Callers |-> NULL]
    /\ got = [c \in Callers |-> NULL]
    /\ left = [c \in Callers |-> NULL]
    /\ deadline = [c \in Callers |-> NULL]
    /\ age = [c \in Callers |-> 0]
    /\ reply = [c \in Callers |-> NULL]

-----------------------------------------------------------------------------
Usable(r) == Enabled \cup Unlocks[r.creds]

selectPlatforms(r) == IF r.want = {} THEN Usable(r) ELSE r.want \cap Usable(r)

(* Seeded bug: the key leaves the credentials out. *)
KeyWithoutCreds(r) ==
    [ask |-> Folded[r.ask], want |-> r.want, aspects |-> Joined[r.aspects]]

buildCacheKey(r) == Key(r)

(* lru.Remove, and the first half of lru.Add: there is one entry per key.  *)
Others(k) ==
    LET At == {i \in 1..Len(cache) : cache[i].key = k}
        at == CHOOSE i \in At : TRUE
    IN  IF At = {} THEN cache
        ELSE SubSeq(cache, 1, at - 1) \o SubSeq(cache, at + 1, Len(cache))

Hits(k) == {e \in {cache[i] : i \in 1..Len(cache)} : e.key = k /\ e.left > 0}

(* Seeded bug: a hit renews the entry. *)
GetRenews(k) ==
    cache' = IF Hits(k) = {} THEN Others(k)
             ELSE <<[(CHOOSE e \in Hits(k) : TRUE) EXCEPT !.left = Ttl + 1]>> \o Others(k)

(* TTLCache.Get: a hit becomes the most recently used entry, an expired     *)
(* one is removed.                                                          *)
Get(k) ==
    cache' = IF Hits(k) = {} THEN Others(k)
             ELSE <<CHOOSE e \in Hits(k) : TRUE>> \o Others(k)

(* Seeded bug: nothing makes room. *)
SetGrows(k, a) == cache' = <<[key |-> k, answer |-> a, left |-> Ttl + 1]>> \o Others(k)

(* TTLCache.Set: the least recently used entry makes room. *)
Set(k, a) ==
    LET entries == <<[key |-> k, answer |-> a, left |-> Ttl + 1]>> \o Others(k)
    IN  cache' = SubSeq(entries, 1, IF Len(entries) < Size THEN Len(entries) ELSE Size)

(* AnalyzeTopic returns r to c. *)
Return(c, r) ==
    /\ pc' = [pc EXCEPT ![c] = "done"]
    /\ reply' = [reply EXCEPT ![c] = r]
    /\ got' = [got EXCEPT ![c] = NULL]
    /\ left' = [left EXCEPT ![c] = NULL]
    /\ deadline' = [deadline EXCEPT ![c] = NULL]
    /\ age' = [age EXCEPT ![c] = 0]

(* The request is in: from the cache, or to every platform at once. *)
Ask(c, r) ==
    /\ pc[c] = "idle"
    /\ req' = [req EXCEPT ![c] = r]
    /\ Get(buildCacheKey(r))
    /\ \/ \E e \in Hits(buildCacheKey(r)) : Return(c, e.answer)
       \/ /\ Hits(buildCacheKey(r)) = {}
          /\ selectPlatforms(r) = {}
          /\ Return(c, ERROR)
       \/ /\ Hits(buildCacheKey(r)) = {}
          /\ selectPlatforms(r) # {}
          /\ pc' = [pc EXCEPT ![c] = "fanout"]
          /\ got' = [got EXCEPT ![c] = [p \in selectPlatforms(r) |-> "none"]]
          /\ left' = [left EXCEPT ![c] = Budget + Overrun]
          /\ deadline' = [deadline EXCEPT ![c] = IF r.rest THEN Handler ELSE NULL]
          /\ UNCHANGED <<age, reply>>

(* The context of what c has running is done. *)
Cut(c) ==
    \/ deadline[c] = 0
    \/ left[c] = 0
    \/ pc[c] = "fanout" /\ left[c] <= Overrun

(* No connector has anything left to wait for. *)
Overdue(c, p) == Cut(c) /\ (p \in Locking => left[c] = 0)

SearchEnds(c, p, outcome) ==
    /\ pc[c] = "fanout"
    /\ p \in DOMAIN got[c]
    /\ got[c][p] = "none"
    /\ got' = [got EXCEPT ![c][p] = outcome]
    /\ UNCHANGED <<cache, pc, req, left, deadline, age, reply>>

(* An upstream answers, somehow. *)
SearchReturns(c, p) ==
    /\ ~Cut(c)
    /\ \E outcome \in Outcomes(p) : SearchEnds(c, p, outcome)

(* The connector runs out of time.  One that joins feeds returns what the   *)
(* quick ones brought, with no error (rss.go:145).                          *)
SearchCut(c, p) ==
    /\ Cut(c)
    /\ \E outcome \in Outcomes(p) \ {"whole", "empty"} : SearchEnds(c, p, outcome)

Failed(c) == {p \in DOMAIN got[c] : got[c][p] = "failed"}
Missing(c) == {p \in DOMAIN got[c] : got[c][p] \in {"failed", "part"}}

answer(c) == [of |-> req[c], missing |-> Missing(c), warned |-> Failed(c), age |-> age[c]]

(* Seeded bug: the inference client has no timeout of its own. *)
NoInferenceBudget == NULL

InferenceBudget == Infer

(* wg.Wait is over: an error when nothing succeeded, an empty answer when   *)
(* nothing was found, else the first inference call.                        *)
Gather(c) ==
    /\ pc[c] = "fanout"
    /\ \A p \in DOMAIN got[c] : got[c][p] # "none"
    /\ UNCHANGED <<cache, req>>
    /\ \/ /\ Failed(c) = DOMAIN got[c]
          /\ Return(c, ERROR)
       \/ /\ Failed(c) # DOMAIN got[c]
          /\ \A p \in DOMAIN got[c] : got[c][p] \in {"empty", "failed"}
          /\ Return(c, answer(c))
       \/ /\ \E p \in DOMAIN got[c] : got[c][p] \in {"whole", "part"}
          /\ pc' = [pc EXCEPT ![c] = "classify"]
          /\ left' = [left EXCEPT ![c] = InferenceBudget]
          /\ UNCHANGED <<got, deadline, age, reply>>

Inferring(c) == pc[c] \in {"classify", "aspects"}

(* Seeded bug: every result is cached. *)
FinishCachesAll(c) ==
    /\ Return(c, answer(c))
    /\ Set(buildCacheKey(req[c]), answer(c))
    /\ UNCHANGED req

(* Results with a warning are not cached. *)
Finish(c) ==
    /\ Return(c, answer(c))
    /\ IF Failed(c) = {} THEN Set(buildCacheKey(req[c]), answer(c)) ELSE UNCHANGED cache
    /\ UNCHANGED req

Classified(c) ==
    /\ pc[c] = "classify"
    /\ ~Cut(c)
    /\ \/ /\ req[c].aspects # <<>>
          /\ pc' = [pc EXCEPT ![c] = "aspects"]
          /\ left' = [left EXCEPT ![c] = InferenceBudget]
          /\ UNCHANGED <<cache, req, got, deadline, age, reply>>
       \/ /\ req[c].aspects = <<>>
          /\ Finish(c)

AspectsClassified(c) ==
    /\ pc[c] = "aspects"
    /\ ~Cut(c)
    /\ Finish(c)

InferenceFails(c) ==
    /\ Inferring(c)
    /\ ~Cut(c)
    /\ Return(c, ERROR)
    /\ UNCHANGED <<cache, req>>

InferenceCut(c) ==
    /\ Inferring(c)
    /\ Cut(c)
    /\ Return(c, ERROR)
    /\ UNCHANGED <<cache, req>>

Working(c) == pc[c] = "fanout" \/ Inferring(c)

(* The caller goes away, which ends the request's context. *)
HangUp(c) ==
    /\ Working(c)
    /\ deadline[c] # 0
    /\ deadline' = [deadline EXCEPT ![c] = 0]
    /\ UNCHANGED <<cache, pc, req, got, left, age, reply>>

(* The caller has read its reply. *)
Leave(c) ==
    /\ pc[c] = "done"
    /\ pc' = [pc EXCEPT ![c] = "idle"]
    /\ reply' = [reply EXCEPT ![c] = NULL]
    /\ req' = [req EXCEPT ![c] = NULL]
    /\ UNCHANGED <<cache, got, left, deadline, age>>

Less(n) == IF n = 0 THEN 0 ELSE n - 1
Run(timer) == IF timer = NULL THEN NULL ELSE Less(timer)
Older(n) == IF n < Old THEN n + 1 ELSE Old
Aged(e) ==
    [key |-> e.key, answer |-> [e.answer EXCEPT !.age = Older(@)], left |-> Less(e.left)]

(* Time passes for everybody; nothing that is over is still running. *)
Tick ==
    /\ \A c \in Callers : pc[c] # "done"
    /\ \A c \in Callers :
         /\ Inferring(c) => ~Cut(c)
         /\ pc[c] = "fanout" =>
              /\ \E p \in DOMAIN got[c] : got[c][p] = "none"
              /\ \A p \in DOMAIN got[c] : got[c][p] = "none" => ~Overdue(c, p)
    /\ left' = [c \in Callers |-> Run(left[c])]
    /\ deadline' = [c \in Callers |-> Run(deadline[c])]
    /\ age' = [c \in Callers |-> IF Working(c) THEN Older(age[c]) ELSE 0]
    /\ cache' = [i \in 1..Len(cache) |-> Aged(cache[i])]
    /\ UNCHANGED <<pc, req, got, reply>>

TopicNext ==
    \/ \E c \in Callers :
         \/ \E r \in Requests : Ask(c, r)
         \/ \E p \in Platforms : SearchReturns(c, p) \/ SearchCut(c, p)
         \/ Gather(c)
         \/ Classified(c) \/ AspectsClassified(c) \/ InferenceFails(c) \/ InferenceCut(c)
         \/ HangUp(c) \/ Leave(c)
    \/ Tick

TopicSpec == TopicInit /\ [][TopicNext]_topicVars

-----------------------------------------------------------------------------
Answered(c) == pc[c] = "done" /\ reply[c] # ERROR

(***************************************************************************)
(* "Cache isolation between credential sets" (service.go:419), and of      *)
(* everything else that is asked: whoever computed it, and whatever was    *)
(* cached in between, an answer is one to the caller's own question, from  *)
(* the platforms its own credentials open, fetched with them, and about    *)
(* its aspects unless the name of one is blank or has a comma in it.       *)
(***************************************************************************)
AnswersTheCaller ==
    \A c \in Callers : Answered(c) =>
      LET mine == req[c]  theirs == reply[c].of
      IN  /\ Folded[mine.ask] = Folded[theirs.ask]
          /\ selectPlatforms(mine) = selectPlatforms(theirs)
          /\ mine.creds = theirs.creds
          /\ AspectsOf(mine.aspects) \cup AspectsOf(theirs.aspects) \subseteq Plain =>
               AspectsOf(mine.aspects) = AspectsOf(theirs.aspects)

(***************************************************************************)
(* "short enough that a freshly trending topic still produces fresh        *)
(* results" (docs/architecture.md:103): no answer is older than the time a *)
(* cached one may live on top of the time an analysis may take, also when  *)
(* a slow analysis overwrites the entry of a quicker, later one.           *)
(***************************************************************************)
AnswersAreFresh == \A c \in Callers : Answered(c) => reply[c].age <= Ttl + Longest

(***************************************************************************)
(* A failure is the problem of the caller that met it: an answer naming a  *)
(* failed platform reaches only the caller whose request failed there, and *)
(* never one that asks later.  (service.go:262-265)                        *)
(***************************************************************************)
WarningsStayPrivate ==
    [][\A c \in Callers :
         pc[c] = "idle" /\ pc'[c] = "done" /\ reply'[c] # ERROR =>
           reply'[c].warned = {}]_topicVars

(***************************************************************************)
(* Whatever hangs - a feed, a platform, the worker - no request runs for   *)
(* longer than the budgets of its stages add up to, and none over REST     *)
(* longer than requestTimeout (rest.go:22).  GraphQL and gRPC requests     *)
(* have no deadline of their own, so their bound rests on the connectors   *)
(* being cut side by side and on the inference client's own timeout.       *)
(***************************************************************************)
AnsweredInTime ==
    \A c \in Callers : Working(c) =>
      age[c] <= IF req[c].rest /\ Handler < Longest THEN Handler ELSE Longest

(***************************************************************************)
(* "Only cache complete results. A single connector blip would otherwise   *)
(* pin a degraded answer to this topic for the whole TTL"                  *)
(* (service.go:262-263): no cached answer misses documents of a platform   *)
(* it asked, in part or in whole.                                          *)
(***************************************************************************)
CachedIsComplete == \A i \in 1..Len(cache) : cache[i].answer.missing = {}
=============================================================================
