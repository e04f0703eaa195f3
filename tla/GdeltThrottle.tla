---------------------------- MODULE GdeltThrottle ----------------------------
(***************************************************************************)
(* The throttle of the GDELT connector                                     *)
(* (api/internal/connectors/gdelt.go): all analyses of the process share   *)
(* one GDELT, which hands each Search the next free upstream slot.  Who    *)
(* gives up waiting does not give its slot back.                           *)
(*                                                                         *)
(* Time is counted in ticks; what is due happens before time goes on.      *)
(***************************************************************************)
EXTENDS Naturals

CONSTANTS
    Searches,    \* the Search calls that may run at once
    MinInterval, \* GDELT's spacing of requests
    SearchTime,  \* a connector's time (DefaultConnectorTimeout)
    MaxAhead,    \* bound: how far ahead slots are handed out
    NEVER

ASSUME ThrottleAssumption ==
    /\ MinInterval \in Nat \ {0}
    /\ SearchTime \in Nat
    /\ MaxAhead \in Nat
    /\ NEVER \notin Nat

VARIABLES
    ahead,       \* time until next, the first slot nobody has taken
    slot,        \* time until a waiting search's slot, else NEVER
    budget,      \* time left to a search, NEVER when there is none
    quiet        \* time since GDELT was last asked, up to MinInterval

throttleVars == <<ahead, slot, budget, quiet>>

ThrottleTypeOK ==
    /\ ahead \in Nat
    /\ slot \in [Searches -> Nat \cup {NEVER}]
    /\ budget \in [Searches -> Nat \cup {NEVER}]
    /\ quiet \in 0..MinInterval

ThrottleInit ==
    /\ ahead = 0
    /\ slot = [s \in Searches |-> NEVER]
    /\ budget = [s \in Searches |-> NEVER]
    /\ quiet = MinInterval

Waiting(s) == slot[s] # NEVER
Asking(s) == budget[s] # NEVER /\ ~Waiting(s)

-----------------------------------------------------------------------------
(* Seeded bug: the next slot counts from now. *)
NextFromNow == MinInterval

NextSlot == ahead + MinInterval

(* A search takes the next slot: now, when it has come, else it waits. *)
Throttle(s) ==
    /\ budget[s] = NEVER
    /\ ahead <= MaxAhead
    /\ ahead' = NextSlot
    /\ budget' = [budget EXCEPT ![s] = SearchTime]
    /\ \/ /\ ahead = 0
          /\ quiet' = 0
          /\ UNCHANGED slot
       \/ /\ ahead > 0
          /\ slot' = [slot EXCEPT ![s] = ahead]
          /\ UNCHANGED quiet

(* time.After(wait): the slot has come, and GDELT is asked. *)
SlotComes(s) ==
    /\ slot[s] = 0
    /\ slot' = [slot EXCEPT ![s] = NEVER]
    /\ quiet' = 0
    /\ UNCHANGED <<ahead, budget>>

(* ctx.Done: the time is over or the request is cancelled; the slot that    *)
(* was taken stays taken.                                                   *)
GiveUp(s) ==
    /\ Waiting(s)
    /\ slot' = [slot EXCEPT ![s] = NEVER]
    /\ budget' = [budget EXCEPT ![s] = NEVER]
    /\ UNCHANGED <<ahead, quiet>>

(* GDELT answers, or the time is over, or the request is cancelled. *)
GdeltReturns(s) ==
    /\ Asking(s)
    /\ budget' = [budget EXCEPT ![s] = NEVER]
    /\ UNCHANGED <<ahead, slot, quiet>>

Sooner(timer) == IF timer = NEVER THEN NEVER ELSE timer - 1

ThrottleTick ==
    /\ \A s \in Searches : slot[s] # 0 /\ budget[s] # 0
    /\ ahead' = IF ahead = 0 THEN 0 ELSE ahead - 1
    /\ slot' = [s \in Searches |-> Sooner(slot[s])]
    /\ budget' = [s \in Searches |-> Sooner(budget[s])]
    /\ quiet' = IF quiet < MinInterval THEN quiet + 1 ELSE quiet

ThrottleNext ==
    \/ \E s \in Searches : Throttle(s) \/ SlotComes(s) \/ GiveUp(s) \/ GdeltReturns(s)
    \/ ThrottleTick

ThrottleSpec == ThrottleInit /\ [][ThrottleNext]_throttleVars

-----------------------------------------------------------------------------
(***************************************************************************)
(* "spaces successive upstream calls (default 5s per GDELT's limit)"       *)
(* (gdelt.go:30): whatever the interleaving of searches that come, wait,   *)
(* give up and are answered, GDELT is asked no sooner than MinInterval     *)
(* after it was last asked.                                                *)
(***************************************************************************)
SlotsAreSpaced ==
    [][\A s \in Searches : ~Asking(s) /\ Asking(s)' => quiet = MinInterval]_throttleVars
=============================================================================
