----------------------------- MODULE RedditToken -----------------------------
(***************************************************************************)
(* The bearer token of the Reddit connector                                *)
(* (api/internal/connectors/reddit.go): one token for the process, looked  *)
(* up and fetched under a mutex that a search waits for even when its own  *)
(* context is done.                                                        *)
(*                                                                         *)
(* sync.Mutex (external): a mutex that is free goes to the first waiter,   *)
(* which was woken, or to a newcomer; a waiter that lost that race to a    *)
(* newcomer makes the mutex starving, and then it is handed on in turn.    *)
(***************************************************************************)
EXTENDS Naturals, Sequences

CONSTANTS
    Readers,     \* the Search calls that may run at once
    ReaderTime,  \* a connector's time (DefaultConnectorTimeout)
    Early,       \* how long before its expiry a token is given up (30 s)
    Lives,       \* how long the tokens live that Reddit gives
    NONE

ASSUME TokenAssumption ==
    /\ ReaderTime \in Nat \ {0}
    /\ Early \in Nat /\ Early >= ReaderTime
    /\ Lives \subseteq Nat /\ \A life \in Lives : life > ReaderTime
    /\ NONE \notin Readers

VARIABLES
    holder,      \* who holds tokenMu
    queue,       \* who waits for it
    starving,    \* the mutex is handed on in turn
    token,       \* time left to the cached token, 0 without one
    step,        \* "idle", "lock", "check", "fetch", "search"
    spent,       \* time since a search began
    bearer       \* time left to the token a search uses

tokenVars == <<holder, queue, starving, token, step, spent, bearer>>

(* Longer than any search runs. *)
TooLong == 3 * ReaderTime

TokenTypeOK ==
    /\ holder \in Readers \cup {NONE}
    /\ queue \in Seq(Readers)
    /\ starving \in BOOLEAN
    /\ token \in Nat
    /\ step \in [Readers -> {"idle", "lock", "check", "fetch", "search"}]
    /\ spent \in [Readers -> 0..TooLong]
    /\ bearer \in [Readers -> Nat]

TokenInit ==
    /\ holder = NONE
    /\ queue = <<>>
    /\ starving = FALSE
    /\ token = 0
    /\ step = [r \in Readers |-> "idle"]
    /\ spent = [r \in Readers |-> 0]
    /\ bearer = [r \in Readers |-> 0]

Over(r) == spent[r] >= ReaderTime

Becomes(r, s) == step' = [step EXCEPT ![r] = s]

-----------------------------------------------------------------------------
(* tokenMu.Lock by a search that begins. *)
Lock(r) ==
    /\ step[r] = "idle"
    /\ spent' = [spent EXCEPT ![r] = 0]
    /\ UNCHANGED <<token, bearer>>
    /\ \/ /\ holder = NONE
          /\ holder' = r
          /\ starving' = (queue # <<>>)
          /\ Becomes(r, "check")
          /\ UNCHANGED queue
       \/ /\ holder # NONE
          /\ queue' = Append(queue, r)
          /\ Becomes(r, "lock")
          /\ UNCHANGED <<holder, starving>>

(* The first waiter gets the mutex it was woken for. *)
Woken ==
    /\ holder = NONE
    /\ queue # <<>>
    /\ holder' = Head(queue)
    /\ queue' = Tail(queue)
    /\ Becomes(Head(queue), "check")
    /\ UNCHANGED <<starving, token, spent, bearer>>

(* r leaves tokenFor for s; a starving mutex is handed to the first waiter, *)
(* and starves no longer once that one is the last or has hardly waited.    *)
Unlock(r, s) ==
    \/ /\ starving /\ queue # <<>>
       /\ LET next == Head(queue) IN
            /\ holder' = next
            /\ queue' = Tail(queue)
            /\ starving' = (Len(queue) > 1 /\ spent[next] > 0)
            /\ step' = [q \in Readers |->
                          IF q = next THEN "check" ELSE IF q = r THEN s ELSE step[q]]
    \/ /\ ~starving \/ queue = <<>>
       /\ holder' = NONE
       /\ starving' = FALSE
       /\ Becomes(r, s)
       /\ UNCHANGED queue

(* Seeded bug: a token is good to its last moment. *)
FreshToTheEnd == token > 0

Fresh == token > Early

(* tokenFor under the mutex: the cached token, or a new one. *)
CheckToken(r) ==
    /\ step[r] = "check"
    /\ UNCHANGED <<token, spent>>
    /\ \/ /\ Fresh
          /\ bearer' = [bearer EXCEPT ![r] = token]
          /\ Unlock(r, "search")
       \/ /\ ~Fresh
          /\ Becomes(r, "fetch")
          /\ UNCHANGED <<holder, queue, starving, bearer>>

(* Seeded bug: the fetch runs under the HTTP client's timeout alone. *)
FetchOverLate(r) == spent[r] >= 2 * ReaderTime + 1

FetchOver(r) == Over(r)

FetchToken(r) ==
    /\ step[r] = "fetch"
    /\ ~FetchOver(r)
    /\ \E life \in Lives :
         /\ token' = life
         /\ bearer' = [bearer EXCEPT ![r] = life]
    /\ Unlock(r, "search")
    /\ UNCHANGED spent

(* Reddit refuses, the time is over or the request is cancelled. *)
FetchFails(r) ==
    /\ step[r] = "fetch"
    /\ Unlock(r, "idle")
    /\ UNCHANGED <<token, spent, bearer>>

(* Reddit answers the search itself, or its time is over, or it is          *)
(* cancelled.                                                               *)
RedditReturns(r) ==
    /\ step[r] = "search"
    /\ Becomes(r, "idle")
    /\ UNCHANGED <<holder, queue, starving, token, spent, bearer>>

TokenTick ==
    /\ holder = NONE => queue = <<>>
    /\ \A r \in Readers :
         /\ step[r] # "check"
         /\ step[r] = "fetch" => ~FetchOver(r)
         /\ step[r] = "search" => ~Over(r)
    /\ token' = IF token = 0 THEN 0 ELSE token - 1
    /\ spent' = [r \in Readers |->
                   IF step[r] = "idle" \/ spent[r] = TooLong THEN spent[r] ELSE spent[r] + 1]
    /\ bearer' = [r \in Readers |-> IF bearer[r] = 0 THEN 0 ELSE bearer[r] - 1]
    /\ UNCHANGED <<holder, queue, starving, step>>

TokenNext ==
    \/ \E r \in Readers :
         Lock(r) \/ CheckToken(r) \/ FetchToken(r) \/ FetchFails(r) \/ RedditReturns(r)
    \/ Woken
    \/ TokenTick

TokenSpec == TokenInit /\ [][TokenNext]_tokenVars

-----------------------------------------------------------------------------
(***************************************************************************)
(* tokenMu is waited for outside the context (reddit.go:108), so the time  *)
(* a connector is given does not bound a Reddit search.  Twice that time   *)
(* does: a fetch runs under its own search's context, and a waiter loses   *)
(* the mutex to at most one newcomer.                                      *)
(***************************************************************************)
LockWaitIsBounded == \A r \in Readers : step[r] # "idle" => spent[r] <= 2 * ReaderTime

(***************************************************************************)
(* The 30 seconds a token is given up early (reddit.go:110) cover the      *)
(* search it is handed to, whoever fetched it and whenever it is replaced: *)
(* no search asks Reddit with a token that has expired.                    *)
(***************************************************************************)
TokensOutliveTheirUse == \A r \in Readers : step[r] = "search" => bearer[r] > 0
=============================================================================
