---------------------------- MODULE Serving_proofs ----------------------------
(***************************************************************************)
(* Proofs about Serving: first of the gateway, the GDELT throttle and the  *)
(* Reddit token, each on its own (TopicService_proofs has the topics), and *)
(* then of the process they make up together.                              *)
(***************************************************************************)
EXTENDS Serving, TopicService_proofs, TLAPS

(***************************************************************************)
(* The gateway, for any requests, addresses, limits and budgets.  What is  *)
(* handled never runs ahead of what the limiters have counted; and every   *)
(* running request carries a bound on what it still takes, which goes down *)
(* by one with each unit the stop has lasted longer.                       *)
(***************************************************************************)

Counters == [all : Nat, by : [Clients -> Nat]]

(* The longest o still takes, deadline or not. *)
Due(o) ==
    o.left + (IF o.stage = "search" THEN 2 * Score ELSE IF o.stage = "score" THEN Score ELSE 0)

(* A request as its handler may leave it. *)
Budgeted(o) == o \in Open /\ Due(o) <= LongestRpc

(* What a request that is still open while gRPC stops has behind and        *)
(* before it.                                                               *)
Stopping(o) ==
    /\ o.route = "rpc" => since + Due(o) <= Drain + LongestRpc
    /\ o.route \in Http => since >= Drain

InTime(r) == Running(r) => Budgeted(open[r]) /\ (phase = "stopping" => Stopping(open[r]))

Clock ==
    /\ since \in 0..Drain + LongestRpc
    /\ phase = "draining" => since <= Drain

Counted ==
    /\ used \in Counters /\ handled \in Counters
    /\ handled.all <= used.all
    /\ \A a \in Clients : handled.by[a] <= used.by[a]
    /\ OneBudget

GatewayInv ==
    /\ phase \in {"serving", "draining", "stopping", "exited"}
    /\ told \in [Requesters -> {"none", "done", "refused", "limited"}]
    /\ open \in [Requesters -> Open \cup {NOTHING}]
    /\ Clock
    /\ Counted
    /\ \A r \in Requesters : InTime(r)

-----------------------------------------------------------------------------
LEMMA GatewayConstants ==
    /\ PerIP \in Nat /\ Global \in Nat
    /\ Search \in Nat \ {0} /\ Score \in Nat \ {0} /\ Ready \in Nat \ {0}
    /\ RequestTime \in Nat \ {0} /\ Drain \in Nat \ {0}
    /\ LongestRpc \in Nat /\ LongestRpc = Search + 2 * Score
    /\ Ready <= LongestRpc
BY GatewayAssumption DEF LongestRpc

(* A stage that has just begun is within its budgets. *)
LEMMA StartIsBudgeted ==
    ASSUME NEW route \in Routes, NEW stage \in DOMAIN Takes,
           NEW until \in 0..RequestTime \cup {NOTHING}
    PROVE  Budgeted([route |-> route, stage |-> stage, left |-> Takes[stage],
                     deadline |-> until])
<1>1. /\ stage \in {"search", "score", "aspects", "probe"}
      /\ Takes[stage] = IF stage = "search" THEN Search
                        ELSE IF stage = "probe" THEN Ready ELSE Score
  BY DEF Takes
<1>2. Takes[stage] \in 0..Search + Score + Ready
  BY <1>1, GatewayConstants
<1>3. [route |-> route, stage |-> stage, left |-> Takes[stage], deadline |-> until] \in Open
  BY <1>2 DEF Open
<1> QED
  BY <1>1, <1>3, GatewayConstants DEF Budgeted, Due

(* The requests a step leaves alone, while the stop makes no progress. *)
LEMMA OneRequestMoves ==
    ASSUME GatewayInv, UNCHANGED <<phase, since>>, Counted',
           told' \in [Requesters -> {"none", "done", "refused", "limited"}],
           open' \in [Requesters -> Open \cup {NOTHING}],
           NEW r \in Requesters, InTime(r)',
           \A s \in Requesters \ {r} : open'[s] = open[s]
    PROVE  GatewayInv'
<1>1. \A s \in Requesters \ {r} : InTime(s)'
  BY DEF GatewayInv, InTime, Running, Budgeted, Stopping, Due
<1>2. Clock'
  BY DEF GatewayInv, Clock
<1> QED
  BY <1>1, <1>2 DEF GatewayInv

LEMMA RepliesKeeps ==
    ASSUME GatewayInv, UNCHANGED <<phase, since>>, Counted',
           NEW r \in Requesters, NEW what \in {"done", "refused", "limited"}, Replies(r, what)
    PROVE  GatewayInv'
<1>1. /\ told' \in [Requesters -> {"none", "done", "refused", "limited"}]
      /\ open' \in [Requesters -> Open \cup {NOTHING}]
      /\ open'[r] = NOTHING
      /\ \A s \in Requesters \ {r} : open'[s] = open[s]
  BY DEF Replies, GatewayInv
<1>2. InTime(r)'
  BY <1>1 DEF InTime, Running
<1> QED
  BY <1>1, <1>2, OneRequestMoves

LEMMA HandleKeeps ==
    ASSUME GatewayInv, UNCHANGED <<phase, since>>, Counted',
           NEW r \in Requesters, NEW route \in Routes, Accepts(route), Handle(r, route)
    PROVE  GatewayInv'
<1>1. PICK stage \in Begins[route] :
        IF stage = "now" THEN Replies(r, "done")
        ELSE /\ open' = [open EXCEPT ![r] =
                  [route |-> route, stage |-> stage, left |-> Takes[stage],
                   deadline |-> IF route \in Api THEN RequestTime ELSE NOTHING]]
             /\ UNCHANGED told
  BY DEF Handle
<1>2. stage = "now" \/ stage \in DOMAIN Takes
  BY DEF Begins, Takes, Routes, Http, Probes, Api
<1>3. CASE stage = "now"
  BY <1>1, <1>3, RepliesKeeps
<1>4. CASE stage # "now"
  <2> DEFINE o == [route |-> route, stage |-> stage, left |-> Takes[stage],
                   deadline |-> IF route \in Api THEN RequestTime ELSE NOTHING]
  <2>1. (IF route \in Api THEN RequestTime ELSE NOTHING) \in 0..RequestTime \cup {NOTHING}
    BY GatewayConstants
  <2>2. Budgeted(o)
    BY <1>2, <1>4, <2>1, StartIsBudgeted
  <2>3. o \in Open
    BY <2>2 DEF Budgeted
  <2> HIDE DEF o
  <2>4. open' = [open EXCEPT ![r] = o] /\ told' = told
    BY <1>1, <1>4 DEF o
  <2>5. /\ open' \in [Requesters -> Open \cup {NOTHING}]
        /\ open'[r] = o
        /\ \A s \in Requesters \ {r} : open'[s] = open[s]
    BY <2>3, <2>4 DEF GatewayInv
  <2>6. phase' # "stopping"
    BY DEF Accepts
  <2>7. InTime(r)'
    BY <2>2, <2>5, <2>6 DEF InTime, Running, Budgeted, Due
  <2>8. told' \in [Requesters -> {"none", "done", "refused", "limited"}]
    BY <2>4 DEF GatewayInv
  <2> QED
    BY <2>5, <2>7, <2>8, OneRequestMoves
<1> QED
  BY <1>3, <1>4

-----------------------------------------------------------------------------
(* What Count and CountAll give. *)
LEMMA CountGives ==
    ASSUME NEW counter \in Counters, NEW a \in Clients
    PROVE  /\ Count(counter, a) \in Counters
           /\ Count(counter, a).all = counter.all + 1
           /\ \A b \in Clients : Count(counter, a).by[b]
                                   = IF b = a THEN counter.by[b] + 1 ELSE counter.by[b]
BY DEF Count, Counters

LEMMA SameCounted == ASSUME Counted, UNCHANGED <<used, handled>> PROVE Counted'
BY DEF Counted, OneBudget

(* Two empty counters count nothing. *)
LEMMA NoneCounted == ASSUME used' = None, handled' = None PROVE Counted'
BY GatewayConstants DEF Counted, OneBudget, None, Counters

LEMMA LimitedCounts ==
    ASSUME Counted, NEW a \in Clients,
           Within(Global, used.all), Within(PerIP, used.by[a]),
           used' = Count(used, a), handled' = Count(handled, a)
    PROVE  Counted'
<1>1. used \in Counters /\ handled \in Counters
  BY DEF Counted
<1>2. /\ used' \in Counters /\ handled' \in Counters
      /\ used'.all = used.all + 1 /\ handled'.all = handled.all + 1
      /\ \A b \in Clients :
           /\ used'.by[b] = IF b = a THEN used.by[b] + 1 ELSE used.by[b]
           /\ handled'.by[b] = IF b = a THEN handled.by[b] + 1 ELSE handled.by[b]
  BY <1>1, CountGives
<1>3. /\ used.all \in Nat /\ handled.all \in Nat
      /\ \A b \in Clients : used.by[b] \in Nat /\ handled.by[b] \in Nat
  BY <1>1 DEF Counters
<1>4. handled'.all <= used'.all /\ \A b \in Clients : handled'.by[b] <= used'.by[b]
  BY <1>2, <1>3 DEF Counted
<1>5. Global > 0 => handled'.all <= Global
  BY <1>2, <1>3, GatewayConstants DEF Counted, Within
<1>6. PerIP > 0 => \A b \in Clients : handled'.by[b] <= PerIP
  BY <1>2, <1>3, GatewayConstants DEF Counted, Within, OneBudget
<1> QED
  BY <1>2, <1>4, <1>5, <1>6 DEF Counted, OneBudget

LEMMA LimitedKeeps ==
    ASSUME GatewayInv, NEW r \in Requesters, NEW route \in Routes, NEW a \in Clients,
           Limited(r, route, a)
    PROVE  GatewayInv'
<1>0. UNCHANGED <<phase, since>> /\ Counted /\ Accepts(route)
  BY DEF Limited, GatewayInv
<1>1. CASE Replies(r, "limited") /\ UNCHANGED <<used, handled>>
  BY <1>0, <1>1, SameCounted, RepliesKeeps
<1>2. CASE used' = CountAll /\ Replies(r, "limited") /\ UNCHANGED handled
  <2>1. Counted'
    BY <1>0, <1>2 DEF Counted, OneBudget, CountAll, Counters
  <2> QED
    BY <1>0, <1>2, <2>1, RepliesKeeps
<1>3. CASE /\ Within(Global, used.all) /\ Within(PerIP, used.by[a])
           /\ used' = Count(used, a)
           /\ handled' = Count(handled, a)
           /\ Handle(r, route)
  <2>1. Counted'
    BY <1>0, <1>3, LimitedCounts
  <2> QED
    BY <1>0, <1>3, <2>1, HandleKeeps
<1> QED
  BY <1>1, <1>2, <1>3 DEF Limited

LEMMA RequestKeeps ==
    ASSUME GatewayInv, NEW r \in Requesters, NEW route \in Routes,
           Unlimited(r, route) \/ Refused(r, route)
    PROVE  GatewayInv'
<1>0. UNCHANGED <<phase, since, used, handled>> /\ Counted'
  BY SameCounted DEF Unlimited, Refused, GatewayInv
<1>1. CASE Unlimited(r, route)
  BY <1>0, <1>1, HandleKeeps DEF Unlimited
<1>2. CASE Refused(r, route)
  BY <1>0, <1>2, RepliesKeeps DEF Refused
<1> QED
  BY <1>1, <1>2

-----------------------------------------------------------------------------
(* The next stage takes no more than the stages to come were given. *)
LEMMA MoveOnKeeps ==
    ASSUME GatewayInv, UNCHANGED <<phase, since>>, Counted', NEW r \in Requesters, Running(r),
           NEW stage \in DOMAIN Takes, MoveOn(r, stage),
           \/ open[r].stage = "search" /\ stage = "score"
           \/ open[r].stage = "score" /\ stage = "aspects"
    PROVE  GatewayInv'
<1> DEFINE o == open[r]
           n == [route |-> o.route, stage |-> stage, left |-> Takes[stage],
                 deadline |-> o.deadline]
<1>1. Budgeted(o) /\ o \in Open
  BY DEF GatewayInv, InTime, Budgeted
<1>2. o.route \in Routes /\ o.deadline \in 0..RequestTime \cup {NOTHING}
  BY <1>1 DEF Open
<1>3. Budgeted(n) /\ n \in Open
  BY <1>2, StartIsBudgeted DEF Budgeted
<1>4. n.route = o.route /\ n.stage = stage /\ n.left = Takes[stage]
  OBVIOUS
<1>5. Takes["score"] = Score /\ Takes["aspects"] = Score
  BY DEF Takes
<1>6. Due(n) <= Due(o)
  BY <1>1, <1>4, <1>5, GatewayConstants DEF Due, Open
<1>7. Due(o) \in Nat /\ Due(n) \in Nat /\ since \in Nat
  BY <1>1, <1>3, GatewayConstants DEF Due, Open, GatewayInv, Clock
<1>8. /\ open' \in [Requesters -> Open \cup {NOTHING}]
      /\ open'[r] = n
      /\ \A s \in Requesters \ {r} : open'[s] = open[s]
  BY <1>3 DEF MoveOn, GatewayInv
<1>9. phase = "stopping" => Stopping(n)
  <2> HAVE phase = "stopping"
  <2>1. Stopping(o)
    BY DEF GatewayInv, InTime
  <2> HIDE DEF n, o
  <2> QED
    BY <1>4, <1>6, <1>7, <2>1, GatewayConstants DEF Stopping
<1> HIDE DEF n, o
<1>10. InTime(r)'
  BY <1>3, <1>8, <1>9 DEF InTime, Running, Budgeted, Stopping, Due
<1>11. told' \in [Requesters -> {"none", "done", "refused", "limited"}]
  BY DEF MoveOn, GatewayInv
<1> QED
  BY <1>8, <1>10, <1>11, OneRequestMoves

LEMMA StageEndsKeeps ==
    ASSUME GatewayInv, NEW r \in Requesters, StageEnds(r) PROVE GatewayInv'
<1>0. UNCHANGED <<phase, since, used, handled>> /\ Counted' /\ Running(r)
  BY SameCounted DEF StageEnds, GatewayInv
<1>1. {"score", "aspects"} \subseteq DOMAIN Takes
  BY DEF Takes
<1>2. CASE open[r].stage = "search" /\ MoveOn(r, "score")
  BY <1>0, <1>1, <1>2, MoveOnKeeps
<1>3. CASE open[r].stage = "score" /\ MoveOn(r, "aspects")
  BY <1>0, <1>1, <1>3, MoveOnKeeps
<1>4. CASE Replies(r, "done")
  BY <1>0, <1>4, RepliesKeeps
<1> QED
  BY <1>2, <1>3, <1>4 DEF StageEnds

-----------------------------------------------------------------------------
(* Steps that leave every open request as it is. *)
LEMMA SameRequests ==
    ASSUME GatewayInv, phase' = phase, since' = since, open' = open, Counted',
           told' \in [Requesters -> {"none", "done", "refused", "limited"}]
    PROVE  GatewayInv'
<1>1. \A r \in Requesters : InTime(r)'
  BY DEF GatewayInv, InTime, Running, Budgeted, Stopping, Due
<1>2. Clock'
  BY DEF GatewayInv, Clock
<1> QED
  BY <1>1, <1>2 DEF GatewayInv

(* The stop as far as Shutdown's return. *)
LEMMA SignalledKeeps == ASSUME GatewayInv, Signalled PROVE GatewayInv'
<1>1. \A r \in Requesters : InTime(r)'
  BY DEF Signalled, GatewayInv, InTime, Running, Budgeted, Due
<1>2. Clock'
  BY GatewayConstants DEF Signalled, Clock
<1>3. Counted'
  BY SameCounted DEF Signalled, GatewayInv
<1> QED
  BY <1>1, <1>2, <1>3 DEF Signalled, GatewayInv

LEMMA ShutdownReturnsKeeps == ASSUME GatewayInv, ShutdownReturns PROVE GatewayInv'
<1>0. /\ phase = "draining" /\ phase' = "stopping" /\ Drained
      /\ since' = since /\ open' = open /\ told' = told
      /\ since \in Nat /\ since <= Drain
  BY GatewayConstants DEF ShutdownReturns, GatewayInv, Clock
<1>1. ASSUME NEW r \in Requesters PROVE InTime(r)'
  <2> SUFFICES ASSUME Running(r)
               PROVE  Budgeted(open[r]) /\ Stopping(open[r])
    BY <1>0 DEF InTime, Running, Budgeted, Stopping, Due
  <2>1. Budgeted(open[r])
    BY DEF GatewayInv, InTime
  <2>2. Due(open[r]) \in Nat
    BY <2>1, GatewayConstants DEF Budgeted, Due, Open
  <2>3. since + Due(open[r]) <= Drain + LongestRpc
    BY <1>0, <2>1, <2>2, GatewayConstants DEF Budgeted
  <2>4. open[r].route \in Http => since >= Drain
    BY <1>0 DEF Drained, InFlight
  <2> QED
    BY <2>1, <2>3, <2>4 DEF Stopping
<1>2. Clock'
  BY <1>0 DEF GatewayInv, Clock
<1>3. Counted'
  BY SameCounted DEF ShutdownReturns, GatewayInv
<1> QED
  BY <1>0, <1>1, <1>2, <1>3 DEF GatewayInv

LEMMA ExitKeeps == ASSUME GatewayInv, Exit PROVE GatewayInv'
<1>1. /\ open' \in [Requesters -> Open \cup {NOTHING}]
      /\ told' \in [Requesters -> {"none", "done", "refused", "limited"}]
      /\ \A r \in Requesters : InTime(r)'
  BY DEF Exit, InTime, Running
<1>2. Clock'
  BY DEF Exit, GatewayInv, Clock
<1>3. Counted'
  BY SameCounted DEF Exit, GatewayInv
<1> QED
  BY <1>1, <1>2, <1>3 DEF Exit, GatewayInv

LEMMA StartAgainKeeps == ASSUME GatewayInv, StartAgain PROVE GatewayInv'
<1>1. \A r \in Requesters : InTime(r)'
  BY DEF StartAgain, GatewayInv, InTime, Running, Budgeted, Due
<1>2. Clock'
  BY GatewayConstants DEF StartAgain, Clock
<1>3. Counted'
  BY NoneCounted DEF StartAgain
<1> QED
  BY <1>1, <1>2, <1>3 DEF StartAgain, GatewayInv

-----------------------------------------------------------------------------
(* A unit of time is off what is due, and never more than was left. *)
LEMMA LaterIsBudgeted ==
    ASSUME GatewayInv, GatewayTick, NEW r \in Requesters, Running(r)
    PROVE  /\ Budgeted(Later(r))
           /\ Later(r).route = open[r].route
           /\ Due(Later(r)) = Due(open[r]) - 1
           /\ Due(open[r]) \in Nat
<1>1. Budgeted(open[r]) /\ open[r] \in Open
  BY DEF GatewayInv, InTime, Budgeted
<1>2. open[r].left \in 0..Search + Score + Ready /\ open[r].left # 0
  BY <1>1 DEF GatewayTick, StageOver, Open
<1>3. open[r].left - 1 \in 0..Search + Score + Ready
  BY <1>2, GatewayConstants
<1>4. Down(open[r].deadline) \in 0..RequestTime \cup {NOTHING}
  <2>1. open[r].deadline \in 0..RequestTime \cup {NOTHING} /\ open[r].deadline # 0
    BY <1>1 DEF GatewayTick, RequestOver, Open
  <2> QED
    BY <2>1, GatewayConstants DEF Down
<1>5. Later(r) = [route |-> open[r].route, stage |-> open[r].stage,
                  left |-> open[r].left - 1, deadline |-> Down(open[r].deadline)]
  BY DEF Later, Endless
<1>6. Later(r) \in Open
  BY <1>1, <1>3, <1>4, <1>5 DEF Open
<1>7. Due(Later(r)) = Due(open[r]) - 1 /\ Due(open[r]) \in Nat
  BY <1>2, <1>5, GatewayConstants DEF Due
<1>8. Due(Later(r)) <= LongestRpc
  BY <1>1, <1>7, GatewayConstants DEF Budgeted
<1> QED
  BY <1>5, <1>6, <1>7, <1>8 DEF Budgeted

LEMMA GatewayTickKeeps == ASSUME GatewayInv, GatewayTick PROVE GatewayInv'
<1>0. /\ phase' = phase /\ told' = told
      /\ since \in 0..Drain + LongestRpc
      /\ phase # "exited"
      /\ since' = IF phase = "serving" THEN since ELSE since + 1
  BY GatewayConstants DEF GatewayTick, GatewayInv, Clock
<1>1. \A r \in Requesters : open'[r] = IF Running(r) THEN Later(r) ELSE NOTHING
  BY DEF GatewayTick
<1>2. open' \in [Requesters -> Open \cup {NOTHING}]
  <2>1. \A r \in Requesters : Running(r) => Later(r) \in Open
    BY LaterIsBudgeted DEF Budgeted
  <2> QED
    BY <2>1 DEF GatewayTick
<1>3. ASSUME NEW r \in Requesters PROVE InTime(r)'
  <2>1. CASE ~Running(r)
    BY <1>1, <2>1 DEF InTime, Running
  <2>2. CASE Running(r)
    <3>1. open'[r] = Later(r)
      BY <1>1, <2>2
    <3>2. /\ Budgeted(Later(r)) /\ Later(r).route = open[r].route
          /\ Due(Later(r)) = Due(open[r]) - 1 /\ Due(open[r]) \in Nat
      BY <2>2, LaterIsBudgeted
    <3>3. ASSUME phase = "stopping"
          PROVE  /\ Later(r).route = "rpc" => since' + Due(Later(r)) <= Drain + LongestRpc
                 /\ Later(r).route \in Http => since' >= Drain
      <4>1. Stopping(open[r]) /\ since' = since + 1
        BY <1>0, <2>2, <3>3 DEF GatewayInv, InTime
      <4> QED
        BY <1>0, <3>2, <4>1, GatewayConstants DEF Stopping
    <3>4. Budgeted(open'[r]) /\ (phase' = "stopping" =>
            /\ open'[r].route = "rpc" => since' + Due(open'[r]) <= Drain + LongestRpc
            /\ open'[r].route \in Http => since' >= Drain)
      BY <1>0, <3>1, <3>2, <3>3
    <3> QED
      BY <3>4 DEF InTime, Running, Budgeted, Stopping, Due
  <2> QED
    BY <2>1, <2>2
<1>4. Clock'
  <2>1. CASE phase = "serving"
    BY <1>0, <2>1 DEF Clock, GatewayInv
  <2>2. CASE phase = "draining"
    <3>1. since < Drain
      BY <1>0, <2>2, GatewayConstants DEF GatewayTick, Drained
    <3> QED
      BY <1>0, <2>2, <3>1, GatewayConstants DEF Clock
  <2>3. CASE phase = "stopping"
    <3>1. PICK r \in Requesters : Running(r) /\ open[r].route = "rpc"
      BY <2>3 DEF GatewayTick, InFlight
    <3>2. Stopping(open[r])
      BY <2>3, <3>1 DEF GatewayInv, InTime
    <3>3. since + Due(open[r]) <= Drain + LongestRpc
      BY <3>1, <3>2 DEF Stopping
    <3>4. Due(open[r]) \in Nat /\ Due(open[r]) >= 1
      <4>1. open[r] \in Open /\ open[r].left # 0
        BY <3>1 DEF GatewayTick, StageOver, GatewayInv, InTime, Budgeted
      <4> QED
        BY <4>1, GatewayConstants DEF Due, Open
    <3> QED
      BY <1>0, <2>3, <3>3, <3>4, GatewayConstants DEF Clock
  <2> QED
    BY <1>0, <2>1, <2>2, <2>3 DEF GatewayInv
<1>5. Counted'
  BY SameCounted DEF GatewayTick, GatewayInv
<1> QED
  BY <1>0, <1>2, <1>3, <1>4, <1>5 DEF GatewayInv

-----------------------------------------------------------------------------
(***************************************************************************)
(* What is handled is within what was counted, what runs is within its     *)
(* budgets, and the stop is within the drain and those budgets             *)
(* (ratelimit.go, main.go:139-170).                                        *)
(***************************************************************************)
THEOREM GatewayInvariant == GatewaySpec => []GatewayInv
<1>1. GatewayInit => GatewayInv
  <2> SUFFICES ASSUME GatewayInit PROVE GatewayInv
    OBVIOUS
  <2>1. Clock
    BY GatewayConstants DEF GatewayInit, Clock
  <2>2. Counted
    BY GatewayConstants DEF GatewayInit, Counted, OneBudget, None, Counters
  <2>3. \A r \in Requesters : InTime(r)
    BY DEF GatewayInit, InTime, Running
  <2> QED
    BY <2>1, <2>2, <2>3 DEF GatewayInit, GatewayInv
<1>2. GatewayInv /\ [GatewayNext]_gatewayVars => GatewayInv'
  <2> SUFFICES ASSUME GatewayInv, [GatewayNext]_gatewayVars PROVE GatewayInv'
    OBVIOUS
  <2>1. ASSUME NEW r \in Requesters, NEW route \in Routes, NEW a \in Clients,
               Limited(r, route, a)
        PROVE  GatewayInv'
    BY <2>1, LimitedKeeps
  <2>2. ASSUME NEW r \in Requesters, NEW route \in Routes,
               Unlimited(r, route) \/ Refused(r, route)
        PROVE  GatewayInv'
    BY <2>2, RequestKeeps
  <2>3. ASSUME NEW r \in Requesters, StageEnds(r) PROVE GatewayInv'
    BY <2>3, StageEndsKeeps
  <2>4. ASSUME NEW r \in Requesters, Reads(r) PROVE GatewayInv'
    <3>1. /\ UNCHANGED <<phase, since, used, handled, open>>
          /\ told' \in [Requesters -> {"none", "done", "refused", "limited"}]
      BY <2>4 DEF Reads, GatewayInv
    <3>2. Counted'
      BY <3>1, SameCounted DEF GatewayInv
    <3> QED
      BY <3>1, <3>2, SameRequests
  <2>5. CASE NextWindow
    <3>1. Counted'
      BY <2>5, NoneCounted DEF NextWindow
    <3> QED
      BY <2>5, <3>1, SameRequests DEF NextWindow, GatewayInv
  <2>6. CASE Signalled \/ ShutdownReturns \/ Exit \/ StartAgain \/ GatewayTick
    BY <2>6, SignalledKeeps, ShutdownReturnsKeeps, ExitKeeps, StartAgainKeeps, GatewayTickKeeps
  <2>7. CASE UNCHANGED gatewayVars
    <3>1. Counted'
      BY <2>7, SameCounted DEF gatewayVars, GatewayInv
    <3> QED
      BY <2>7, <3>1, SameRequests DEF gatewayVars, GatewayInv
  <2> QED
    BY <2>1, <2>2, <2>3, <2>4, <2>5, <2>6, <2>7 DEF GatewayNext
<1> QED
  BY <1>1, <1>2, PTL DEF GatewaySpec

(***************************************************************************)
(* Every variable keeps its type, for any limits and budgets.              *)
(***************************************************************************)
THEOREM GatewayTypeCorrect == GatewaySpec => []GatewayTypeOK
<1>1. GatewayInv => GatewayTypeOK
  BY GatewayConstants DEF GatewayInv, Clock, Counted, Counters, GatewayTypeOK
<1> QED
  BY <1>1, GatewayInvariant, PTL

(***************************************************************************)
(* Two route groups over the same limiters have one budget between them:   *)
(* no more API requests are handled in a window than the limits say        *)
(* (rest.go:58, ratelimit.go:26-46).                                       *)
(***************************************************************************)
THEOREM OneBudgetForAll == GatewaySpec => []OneBudget
<1>1. GatewayInv => OneBudget
  BY DEF GatewayInv, Counted
<1> QED
  BY <1>1, GatewayInvariant, PTL

(***************************************************************************)
(* Though GracefulStop waits without a timeout, the process is gone within *)
(* the drain and the longest an RPC takes (main.go:165-168).               *)
(***************************************************************************)
THEOREM StopIsBounded == GatewaySpec => []StopsInTime
<1>1. GatewayInv => StopsInTime
  BY GatewayConstants DEF GatewayInv, Clock, StopsInTime
<1> QED
  BY <1>1, GatewayInvariant, PTL

(***************************************************************************)
(* The exit cuts off no RPC, and no HTTP request that has not had the      *)
(* whole drain (main.go:165-170).                                          *)
(***************************************************************************)
THEOREM NobodyIsCutEarly == GatewaySpec => OnlySlowHttpIsCut
<1> DEFINE Late == phase' = "exited" /\ phase # "exited" =>
                     /\ InFlight({"rpc"}) = {}
                     /\ InFlight(Http) # {} => since >= Drain
<1>1. GatewayInv /\ [GatewayNext]_gatewayVars => [Late]_gatewayVars
  <2> SUFFICES ASSUME GatewayInv, GatewayNext, phase' = "exited", phase # "exited"
               PROVE  InFlight({"rpc"}) = {} /\ (InFlight(Http) # {} => since >= Drain)
    OBVIOUS
  <2>1. Exit
    BY DEF GatewayNext, Unlimited, Refused, Limited, StageEnds, Reads, NextWindow, Signalled,
           ShutdownReturns, StartAgain, GatewayTick
  <2>2. ASSUME NEW r \in InFlight(Http) PROVE since >= Drain
    <3>1. r \in Requesters /\ Running(r) /\ open[r].route \in Http
      BY <2>2 DEF InFlight
    <3>2. Stopping(open[r])
      BY <2>1, <3>1 DEF Exit, GatewayInv, InTime
    <3> QED
      BY <3>1, <3>2 DEF Stopping
  <2> QED
    BY <2>1, <2>2 DEF Exit
<1> QED
  BY <1>1, GatewayInvariant, PTL DEF GatewaySpec, OnlySlowHttpIsCut

-----------------------------------------------------------------------------
(***************************************************************************)
(* The throttle, for any number of searches, any spacing and any budget.   *)
(* Slots are handed out MinInterval apart and never moved, so the          *)
(* distances between the slots waited for, the next free one and the last  *)
(* call are what every step keeps.                                         *)
(***************************************************************************)

(* A slot waited for lies MinInterval after the last call, before the next  *)
(* free slot, and from every other; and only a search with time left waits. *)
SlotInv ==
    /\ ThrottleTypeOK
    /\ ahead + quiet >= MinInterval
    /\ \A s \in Searches : Waiting(s) =>
         /\ slot[s] + quiet >= MinInterval
         /\ ahead >= slot[s] + MinInterval
         /\ budget[s] # NEVER
    /\ \A s, t \in Searches : Waiting(s) /\ Waiting(t) /\ s # t =>
         slot[s] >= slot[t] + MinInterval \/ slot[t] >= slot[s] + MinInterval

(* A timer that runs and is not at zero runs on, and one that does not run  *)
(* stays so.                                                                 *)
LEMMA SoonerIsSooner ==
    ASSUME NEW timer \in Nat \cup {NEVER}, timer # 0
    PROVE  /\ Sooner(timer) \in Nat \cup {NEVER}
           /\ Sooner(timer) = NEVER <=> timer = NEVER
           /\ timer # NEVER => timer \in Nat /\ Sooner(timer) = timer - 1
<1>1. CASE timer = NEVER
  BY <1>1 DEF Sooner
<1>2. CASE timer # NEVER
  BY <1>2, ThrottleAssumption DEF Sooner
<1> QED
  BY <1>1, <1>2

LEMMA SlotInvInit == ThrottleInit => SlotInv
BY ThrottleAssumption DEF ThrottleInit, SlotInv, ThrottleTypeOK, Waiting

LEMMA SlotInvTick == SlotInv /\ ThrottleTick => SlotInv'
<1> SUFFICES ASSUME SlotInv, ThrottleTick PROVE SlotInv'
  OBVIOUS
<1> USE ThrottleAssumption
<1>1. \A s \in Searches :
        /\ slot[s] \in Nat \cup {NEVER} /\ slot[s] # 0
        /\ budget[s] \in Nat \cup {NEVER} /\ budget[s] # 0
        /\ slot'[s] = Sooner(slot[s]) /\ budget'[s] = Sooner(budget[s])
  BY DEF SlotInv, ThrottleTypeOK, ThrottleTick
<1>2. \A s \in Searches :
        /\ slot'[s] \in Nat \cup {NEVER} /\ budget'[s] \in Nat \cup {NEVER}
        /\ slot'[s] = NEVER <=> slot[s] = NEVER
        /\ budget'[s] = NEVER <=> budget[s] = NEVER
        /\ slot[s] # NEVER => slot[s] \in Nat /\ slot'[s] = slot[s] - 1
  BY <1>1, SoonerIsSooner
<1>3. ThrottleTypeOK'
  <2>1. slot' \in [Searches -> Nat \cup {NEVER}] /\ budget' \in [Searches -> Nat \cup {NEVER}]
    BY <1>2 DEF ThrottleTick
  <2>2. ahead' \in Nat /\ quiet' \in 0..MinInterval
    BY DEF ThrottleTick, SlotInv, ThrottleTypeOK
  <2> QED
    BY <2>1, <2>2 DEF ThrottleTypeOK
<1>4. (ahead + quiet >= MinInterval)'
  BY DEF ThrottleTick, SlotInv, ThrottleTypeOK
<1>5. ASSUME NEW s \in Searches, Waiting(s)'
      PROVE  (/\ slot[s] + quiet >= MinInterval
              /\ ahead >= slot[s] + MinInterval
              /\ budget[s] # NEVER)'
  <2>1. /\ slot[s] \in Nat /\ slot[s] # 0 /\ slot'[s] = slot[s] - 1
        /\ slot[s] + quiet >= MinInterval
        /\ ahead >= slot[s] + MinInterval
        /\ budget[s] # NEVER
    BY <1>1, <1>2, <1>5 DEF Waiting, SlotInv
  <2>2. slot'[s] + quiet' >= MinInterval /\ ahead' >= slot'[s] + MinInterval
    BY <2>1 DEF ThrottleTick, SlotInv, ThrottleTypeOK
  <2> QED
    BY <1>2, <2>1, <2>2
<1>6. ASSUME NEW s \in Searches, NEW t \in Searches, (Waiting(s) /\ Waiting(t))', s # t
      PROVE  (slot[s] >= slot[t] + MinInterval \/ slot[t] >= slot[s] + MinInterval)'
  <2>1. /\ slot[s] \in Nat /\ slot[t] \in Nat
        /\ slot'[s] = slot[s] - 1 /\ slot'[t] = slot[t] - 1
        /\ slot[s] >= slot[t] + MinInterval \/ slot[t] >= slot[s] + MinInterval
    BY <1>2, <1>6 DEF Waiting, SlotInv
  <2> QED
    BY <2>1
<1> QED
  BY <1>3, <1>4, <1>5, <1>6 DEF SlotInv, Waiting

LEMMA SlotInvThrottle ==
    ASSUME SlotInv, NEW s \in Searches, Throttle(s) PROVE SlotInv'
<1> USE ThrottleAssumption
<1>1. CASE ahead = 0 /\ quiet' = 0 /\ UNCHANGED slot
  <2>1. \A t \in Searches : ~Waiting(t)
    BY <1>1 DEF SlotInv, ThrottleTypeOK, Waiting
  <2> QED
    BY <1>1, <2>1 DEF Throttle, NextSlot, SlotInv, ThrottleTypeOK, Waiting
<1>2. CASE ahead > 0 /\ slot' = [slot EXCEPT ![s] = ahead] /\ UNCHANGED quiet
  <2>1. ~Waiting(s)
    BY DEF SlotInv, Throttle
  <2>2. ThrottleTypeOK'
    BY <1>2 DEF Throttle, NextSlot, SlotInv, ThrottleTypeOK
  <2>3. ahead' = ahead + MinInterval /\ slot'[s] = ahead /\ budget'[s] = SearchTime
    BY <1>2 DEF Throttle, NextSlot, SlotInv, ThrottleTypeOK
  <2>4. \A t \in Searches \ {s} : slot'[t] = slot[t] /\ budget'[t] = budget[t]
    BY <1>2 DEF Throttle, SlotInv, ThrottleTypeOK
  <2>5. (ahead + quiet >= MinInterval)'
    BY <1>2, <2>3 DEF SlotInv, ThrottleTypeOK
  <2>6. ASSUME NEW t \in Searches, Waiting(t)'
        PROVE  (/\ slot[t] + quiet >= MinInterval
                /\ ahead >= slot[t] + MinInterval
                /\ budget[t] # NEVER)'
    BY <1>2, <2>3, <2>4, <2>6 DEF SlotInv, ThrottleTypeOK, Waiting
  <2>7. ASSUME NEW t \in Searches, NEW u \in Searches, (Waiting(t) /\ Waiting(u))', t # u
        PROVE  (slot[t] >= slot[u] + MinInterval \/ slot[u] >= slot[t] + MinInterval)'
    BY <1>2, <2>3, <2>4, <2>7 DEF SlotInv, ThrottleTypeOK, Waiting
  <2> QED
    BY <2>2, <2>5, <2>6, <2>7 DEF SlotInv, Waiting
<1> QED
  BY <1>1, <1>2 DEF Throttle

LEMMA SlotInvStep == SlotInv /\ [ThrottleNext]_throttleVars => SlotInv'
<1> SUFFICES ASSUME SlotInv, [ThrottleNext]_throttleVars PROVE SlotInv'
  OBVIOUS
<1> USE ThrottleAssumption
<1>1. CASE \E s \in Searches : Throttle(s)
  BY <1>1, SlotInvThrottle
<1>2. ASSUME NEW s \in Searches, SlotComes(s) PROVE SlotInv'
  <2>1. /\ slot[s] = 0 /\ Waiting(s) /\ ahead >= MinInterval
        /\ \A t \in Searches : Waiting(t) /\ t # s => slot[t] >= MinInterval
    BY <1>2 DEF SlotComes, SlotInv, ThrottleTypeOK, Waiting
  <2> QED
    BY <1>2, <2>1 DEF SlotComes, SlotInv, ThrottleTypeOK, Waiting
<1>3. ASSUME NEW s \in Searches, GiveUp(s) PROVE SlotInv'
  BY <1>3 DEF GiveUp, SlotInv, ThrottleTypeOK, Waiting
<1>4. ASSUME NEW s \in Searches, GdeltReturns(s) PROVE SlotInv'
  BY <1>4 DEF GdeltReturns, Asking, SlotInv, ThrottleTypeOK, Waiting
<1>5. CASE ThrottleTick
  BY <1>5, SlotInvTick
<1>6. CASE UNCHANGED throttleVars
  BY <1>6 DEF throttleVars, SlotInv, ThrottleTypeOK, Waiting
<1> QED
  BY <1>1, <1>2, <1>3, <1>4, <1>5, <1>6 DEF ThrottleNext

(***************************************************************************)
(* The distances hold in every state, whatever searches come, wait, give   *)
(* up and are answered (gdelt.go:61-79).                                    *)
(***************************************************************************)
THEOREM ThrottleInvariant == ThrottleSpec => []SlotInv
BY SlotInvInit, SlotInvStep, PTL DEF ThrottleSpec

(***************************************************************************)
(* GDELT is asked no sooner than MinInterval after it was last asked, for  *)
(* any number of searches at once (gdelt.go:30).                           *)
(***************************************************************************)
THEOREM SlotsSpaced == ThrottleSpec => SlotsAreSpaced
<1> DEFINE Spaced == \A s \in Searches : ~Asking(s) /\ Asking(s)' => quiet = MinInterval
<1>1. SlotInv /\ [ThrottleNext]_throttleVars => [Spaced]_throttleVars
  <2> SUFFICES ASSUME SlotInv, ThrottleNext, NEW s \in Searches, ~Asking(s), Asking(s)'
               PROVE  quiet = MinInterval
    OBVIOUS
  <2> USE ThrottleAssumption
  <2>1. ASSUME NEW t \in Searches, Throttle(t) PROVE quiet = MinInterval
    BY <2>1 DEF Throttle, SlotInv, ThrottleTypeOK, Asking, Waiting
  <2>2. ASSUME NEW t \in Searches, SlotComes(t) PROVE quiet = MinInterval
    BY <2>2 DEF SlotComes, SlotInv, ThrottleTypeOK, Asking, Waiting
  <2>3. ASSUME NEW t \in Searches, GiveUp(t) PROVE FALSE
    BY <2>3 DEF GiveUp, SlotInv, ThrottleTypeOK, Asking, Waiting
  <2>4. ASSUME NEW t \in Searches, GdeltReturns(t) PROVE FALSE
    BY <2>4 DEF GdeltReturns, SlotInv, ThrottleTypeOK, Asking, Waiting
  <2>5. CASE ThrottleTick
    <3>1. /\ slot[s] \in Nat \cup {NEVER} /\ slot[s] # 0
          /\ budget[s] \in Nat \cup {NEVER} /\ budget[s] # 0
          /\ slot'[s] = Sooner(slot[s]) /\ budget'[s] = Sooner(budget[s])
      BY <2>5 DEF SlotInv, ThrottleTypeOK, ThrottleTick
    <3> QED
      BY <3>1, SoonerIsSooner DEF Asking, Waiting
  <2> QED
    BY <2>1, <2>2, <2>3, <2>4, <2>5 DEF ThrottleNext
<1> QED
  BY <1>1, ThrottleInvariant, PTL DEF ThrottleSpec, SlotsAreSpaced

-----------------------------------------------------------------------------
(***************************************************************************)
(* The token, for any number of searches and any times.  Who waits for the *)
(* mutex has waited no longer than its holder, but for what one newcomer   *)
(* took before it; and a token and the search that uses it grow older      *)
(* together.                                                                *)
(***************************************************************************)

Inside(r) == step[r] \in {"check", "fetch"}

Mutex ==
    /\ holder # NONE => Inside(holder)
    /\ \A r \in Readers : Inside(r) => r = holder
    /\ holder = NONE => ~starving

(* The waiters stand in the queue once, in the order in which they came. *)
Queued ==
    /\ \A i \in 1..Len(queue) : step[queue[i]] = "lock"
    /\ \A i, j \in 1..Len(queue) : queue[i] = queue[j] => i = j
    /\ \A r \in Readers : step[r] = "lock" => \E i \in 1..Len(queue) : queue[i] = r
    /\ \A i, j \in 1..Len(queue) : i <= j => spent[queue[j]] <= spent[queue[i]]

(* How long r has waited, as far as the mutex and its holder are concerned. *)
WaitOk(r) ==
    /\ ~starving => spent[r] <= ReaderTime /\ (holder # NONE => spent[r] <= spent[holder])
    /\ holder # NONE => spent[r] <= ReaderTime + spent[holder]

Waits == \A i \in 1..Len(queue) : WaitOk(queue[i])

SpentOk(r) == step[r] # "idle" => spent[r] <= 2 * ReaderTime

AliveOk(r) ==
    step[r] = "search" =>
      /\ bearer[r] > 0
      /\ spent[r] < ReaderTime => bearer[r] + spent[r] > ReaderTime

TokenInv ==
    /\ TokenTypeOK /\ Mutex /\ Queued /\ Waits
    /\ \A r \in Readers : SpentOk(r) /\ AliveOk(r)

-----------------------------------------------------------------------------
LEMMA TokenConstants ==
    /\ ReaderTime \in Nat \ {0} /\ Early \in Nat /\ Early >= ReaderTime
    /\ \A life \in Lives : life \in Nat /\ life > ReaderTime
    /\ TooLong \in Nat /\ TooLong = 3 * ReaderTime
    /\ NONE \notin Readers
BY TokenAssumption DEF TooLong

(* The first waiter leaves the queue. *)
LEMMA HeadAndTail ==
    ASSUME TokenTypeOK, Queued, queue # <<>>
    PROVE  /\ Head(queue) = queue[1] /\ Head(queue) \in Readers
           /\ Tail(queue) \in Seq(Readers) /\ Len(Tail(queue)) = Len(queue) - 1
           /\ Len(queue) \in Nat \ {0}
           /\ \A i \in 1..Len(Tail(queue)) :
                /\ i + 1 \in 1..Len(queue) /\ Tail(queue)[i] = queue[i + 1]
                /\ Tail(queue)[i] # Head(queue)
           /\ \A i \in 1..Len(queue) :
                i # 1 => i - 1 \in 1..Len(Tail(queue)) /\ Tail(queue)[i - 1] = queue[i]
<1>1. queue \in Seq(Readers) /\ Len(queue) \in Nat \ {0}
  BY DEF TokenTypeOK
<1>2. /\ Head(queue) = queue[1] /\ Head(queue) \in Readers
      /\ Tail(queue) \in Seq(Readers) /\ Len(Tail(queue)) = Len(queue) - 1
      /\ \A i \in 1..Len(Tail(queue)) : i + 1 \in 1..Len(queue) /\ Tail(queue)[i] = queue[i + 1]
  BY <1>1
<1>3. \A i \in 1..Len(Tail(queue)) : Tail(queue)[i] # Head(queue)
  <2> SUFFICES ASSUME NEW i \in 1..Len(Tail(queue)), queue[i + 1] = queue[1] PROVE FALSE
    BY <1>2
  <2>1. i + 1 \in 1..Len(queue) /\ 1 \in 1..Len(queue) /\ i + 1 # 1
    BY <1>1, <1>2
  <2> QED
    BY <2>1 DEF Queued
<1> QED
  BY <1>1, <1>2, <1>3

(* What is left of the queue is in order, and the one who left it is out. *)
LEMMA QueueMoves ==
    ASSUME TokenTypeOK, Queued, queue # <<>>, queue' = Tail(queue), spent' = spent,
           step'[Head(queue)] # "lock",
           \A q \in Readers \ {Head(queue)} : step'[q] = "lock" <=> step[q] = "lock"
    PROVE  Queued' /\ \A i \in 1..Len(queue') : \E j \in 1..Len(queue) :
                        queue'[i] = queue[j] /\ spent[queue'[i]] <= spent[Head(queue)]
<1>0. /\ Head(queue) = queue[1] /\ Head(queue) \in Readers
      /\ queue' \in Seq(Readers) /\ Len(queue') = Len(queue) - 1
      /\ Len(queue) \in Nat \ {0}
      /\ \A i \in 1..Len(queue') :
           /\ i + 1 \in 1..Len(queue) /\ queue'[i] = queue[i + 1]
           /\ queue'[i] # Head(queue)
      /\ \A i \in 1..Len(queue) : i # 1 => i - 1 \in 1..Len(queue') /\ queue'[i - 1] = queue[i]
  BY HeadAndTail
<1>1. \A i \in 1..Len(queue') : step'[queue'[i]] = "lock"
  <2> TAKE i \in 1..Len(queue')
  <2>1. queue'[i] \in Readers \ {Head(queue)}
    BY <1>0
  <2>2. step[queue'[i]] = "lock"
    BY <1>0 DEF Queued
  <2> QED
    BY <2>1, <2>2
<1>2. \A i, j \in 1..Len(queue') : queue'[i] = queue'[j] => i = j
  BY <1>0 DEF Queued
<1>3. ASSUME NEW r \in Readers, step'[r] = "lock" PROVE \E i \in 1..Len(queue') : queue'[i] = r
  <2>1. r # Head(queue) /\ step[r] = "lock"
    BY <1>3
  <2>2. PICK i \in 1..Len(queue) : queue[i] = r
    BY <2>1 DEF Queued
  <2>3. i # 1
    BY <1>0, <2>1, <2>2
  <2> QED
    BY <1>0, <2>2, <2>3
<1>4. \A i, j \in 1..Len(queue') : i <= j => spent[queue'[j]] <= spent[queue'[i]]
  <2> SUFFICES ASSUME NEW i \in 1..Len(queue'), NEW j \in 1..Len(queue'), i <= j
               PROVE  spent[queue[j + 1]] <= spent[queue[i + 1]]
    BY <1>0
  <2>1. i + 1 \in 1..Len(queue) /\ j + 1 \in 1..Len(queue) /\ i + 1 <= j + 1
    BY <1>0
  <2> QED
    BY <2>1 DEF Queued
<1>5. Queued'
  BY <1>1, <1>2, <1>3, <1>4 DEF Queued
<1>6. ASSUME NEW i \in 1..Len(queue')
      PROVE  \E j \in 1..Len(queue) :
               queue'[i] = queue[j] /\ spent[queue'[i]] <= spent[Head(queue)]
  <2>1. i + 1 \in 1..Len(queue) /\ 1 \in 1..Len(queue) /\ 1 <= i + 1
    BY <1>0
  <2>2. spent[queue[i + 1]] <= spent[queue[1]]
    BY <2>1 DEF Queued
  <2> QED
    BY <1>0, <2>1, <2>2
<1> QED
  BY <1>5, <1>6

-----------------------------------------------------------------------------
(* What all steps but the clock's have in common. *)
LEMMA OthersKeep ==
    ASSUME TokenInv, NEW r \in Readers, UNCHANGED spent,
           \A q \in Readers \ {r} : bearer'[q] = bearer[q],
           \A q \in Readers \ {r} : step'[q] = step[q] \/ (step[q] = "lock" /\ step'[q] = "check")
    PROVE  \A q \in Readers \ {r} : SpentOk(q)' /\ AliveOk(q)'
BY DEF TokenInv, SpentOk, AliveOk

LEMMA LockKeeps == ASSUME TokenInv, NEW r \in Readers, Lock(r) PROVE TokenInv'
<1>0. /\ TokenTypeOK /\ step[r] = "idle"
      /\ spent \in [Readers -> 0..TooLong] /\ spent'[r] = 0
      /\ \A q \in Readers \ {r} : spent'[q] = spent[q]
      /\ token' = token /\ bearer' = bearer
  BY TokenConstants DEF TokenInv, TokenTypeOK, Lock
<1>1. spent' \in [Readers -> 0..TooLong]
  BY TokenConstants DEF Lock, TokenInv, TokenTypeOK
<1>2. \A i \in 1..Len(queue) : queue[i] \in Readers /\ queue[i] # r /\ spent'[queue[i]] = spent[queue[i]]
  <2> TAKE i \in 1..Len(queue)
  <2>1. queue[i] \in Readers
    BY DEF TokenInv, TokenTypeOK
  <2>2. step[queue[i]] = "lock"
    BY DEF TokenInv, Queued
  <2> QED
    BY <1>0, <2>1, <2>2
<1>3. ASSUME NEW s \in {"check", "lock"}, Becomes(r, s)
      PROVE  /\ step' \in [Readers -> {"idle", "lock", "check", "fetch", "search"}]
             /\ step'[r] = s /\ \A q \in Readers \ {r} : step'[q] = step[q]
             /\ \A q \in Readers : SpentOk(q)' /\ AliveOk(q)'
  <2>1. /\ step' \in [Readers -> {"idle", "lock", "check", "fetch", "search"}]
        /\ step'[r] = s /\ \A q \in Readers \ {r} : step'[q] = step[q]
    BY <1>0, <1>3 DEF Becomes, TokenTypeOK
  <2>2. \A q \in Readers : SpentOk(q)' /\ AliveOk(q)'
    BY <1>0, <2>1, TokenConstants DEF TokenInv, SpentOk, AliveOk
  <2> QED
    BY <2>1, <2>2
<1>4. CASE /\ holder = NONE
           /\ holder' = r
           /\ starving' = (queue # <<>>)
           /\ Becomes(r, "check")
           /\ UNCHANGED queue
  <2>1. /\ step'[r] = "check" /\ \A q \in Readers \ {r} : step'[q] = step[q]
        /\ step' \in [Readers -> {"idle", "lock", "check", "fetch", "search"}]
        /\ \A q \in Readers : SpentOk(q)' /\ AliveOk(q)'
    BY <1>3, <1>4
  <2>2. TokenTypeOK'
    BY <1>0, <1>1, <1>4, <2>1 DEF TokenTypeOK
  <2>3. Mutex'
    BY <1>4, <2>1, TokenConstants DEF TokenInv, Mutex, Inside
  <2>4. Queued'
    <3>1. \A i \in 1..Len(queue) : step'[queue[i]] = "lock"
      BY <1>2, <2>1 DEF TokenInv, Queued
    <3>2. \A q \in Readers : step'[q] = "lock" => \E i \in 1..Len(queue) : queue[i] = q
      BY <2>1 DEF TokenInv, Queued
    <3>3. \A i, j \in 1..Len(queue) : i <= j => spent'[queue[j]] <= spent'[queue[i]]
      BY <1>2 DEF TokenInv, Queued
    <3> QED
      BY <1>4, <3>1, <3>2, <3>3 DEF TokenInv, Queued
  <2>5. Waits'
    <3> SUFFICES ASSUME NEW i \in 1..Len(queue) PROVE WaitOk(queue[i])'
      BY <1>4 DEF Waits
    <3>1. starving'
      <4>1. queue # <<>>
        BY <1>0 DEF TokenTypeOK
      <4> QED
        BY <1>4, <4>1, Zenon
    <3>2. WaitOk(queue[i]) /\ ~starving
      BY <1>4 DEF TokenInv, Waits, Mutex
    <3>3. spent[queue[i]] <= ReaderTime
      BY <3>2 DEF WaitOk
    <3>4. spent'[queue[i]] <= ReaderTime + spent'[r]
      BY <1>0, <1>2, <3>3, TokenConstants
    <3> QED
      BY <1>4, <3>1, <3>4 DEF WaitOk
  <2> QED
    BY <2>1, <2>2, <2>3, <2>4, <2>5 DEF TokenInv
<1>5. CASE /\ holder # NONE
           /\ queue' = Append(queue, r)
           /\ Becomes(r, "lock")
           /\ UNCHANGED <<holder, starving>>
  <2>1. /\ step'[r] = "lock" /\ \A q \in Readers \ {r} : step'[q] = step[q]
        /\ step' \in [Readers -> {"idle", "lock", "check", "fetch", "search"}]
        /\ \A q \in Readers : SpentOk(q)' /\ AliveOk(q)'
    BY <1>3, <1>5
  <2>2. /\ queue' \in Seq(Readers) /\ Len(queue') = Len(queue) + 1
        /\ Len(queue) \in Nat
        /\ queue'[Len(queue) + 1] = r
        /\ \A i \in 1..Len(queue) : queue'[i] = queue[i]
    BY <1>0, <1>5 DEF TokenTypeOK
  <2>3. TokenTypeOK'
    BY <1>0, <1>1, <1>5, <2>1, <2>2 DEF TokenTypeOK
  <2>4. holder \in Readers /\ holder # r /\ spent'[holder] = spent[holder]
    BY <1>0, <1>5 DEF TokenInv, TokenTypeOK, Mutex, Inside
  <2>5. Mutex'
    BY <1>5, <1>0, <2>1, <2>4 DEF TokenInv, Mutex, Inside
  <2>6. \A i \in 1..Len(queue') : i \in 1..Len(queue) \/ (i = Len(queue) + 1 /\ queue'[i] = r)
    BY <2>2
  <2>7. Queued'
    <3>1. \A i \in 1..Len(queue') : step'[queue'[i]] = "lock"
      BY <1>2, <2>1, <2>2, <2>6 DEF TokenInv, Queued
    <3>2. \A i, j \in 1..Len(queue') : queue'[i] = queue'[j] => i = j
      BY <1>2, <2>2, <2>6 DEF TokenInv, Queued
    <3>3. \A q \in Readers : step'[q] = "lock" => \E i \in 1..Len(queue') : queue'[i] = q
      <4>1. Len(queue) + 1 \in 1..Len(queue') /\ \A i \in 1..Len(queue) : i \in 1..Len(queue')
        BY <2>2
      <4>2. CASE TRUE
        BY <2>1, <2>2, <4>1 DEF TokenInv, Queued
      <4> QED
        BY <4>2
    <3>4. ASSUME NEW i \in 1..Len(queue'), NEW j \in 1..Len(queue'), i <= j
          PROVE  spent'[queue'[j]] <= spent'[queue'[i]]
      <4>1. CASE j \in 1..Len(queue)
        <5>1. i \in 1..Len(queue)
          BY <2>2, <3>4, <4>1
        <5> QED
          BY <1>2, <2>2, <3>4, <4>1, <5>1 DEF TokenInv, Queued
      <4>2. CASE j = Len(queue) + 1
        <5>1. spent'[queue'[j]] = 0 /\ queue'[i] \in Readers
          BY <1>0, <2>2, <4>2
        <5>2. spent'[queue'[i]] \in Nat
          BY <1>1, <5>1, TokenConstants
        <5> QED
          BY <5>1, <5>2
      <4> QED
        BY <2>6, <4>1, <4>2
    <3> QED
      BY <3>1, <3>2, <3>3, <3>4 DEF Queued
  <2>8. Waits'
    <3> SUFFICES ASSUME NEW i \in 1..Len(queue') PROVE WaitOk(queue[i])'
      BY DEF Waits
    <3>1. CASE i \in 1..Len(queue)
      <4>1. WaitOk(queue[i]) /\ queue'[i] = queue[i]
        BY <2>2, <3>1 DEF TokenInv, Waits
      <4> QED
        BY <1>2, <1>5, <2>4, <3>1, <4>1 DEF WaitOk
    <3>2. CASE queue'[i] = r
      <4>1. spent[holder] \in Nat
        BY <1>0, <2>4, TokenConstants
      <4> QED
        BY <1>0, <1>5, <2>4, <3>2, <4>1, TokenConstants DEF WaitOk
    <3> QED
      BY <2>6, <3>1, <3>2
  <2> QED
    BY <2>1, <2>3, <2>5, <2>7, <2>8 DEF TokenInv
<1> QED
  BY <1>4, <1>5 DEF Lock

LEMMA WokenKeeps == ASSUME TokenInv, Woken PROVE TokenInv'
<1> DEFINE next == Head(queue)
<1>0. /\ TokenTypeOK /\ Queued /\ holder = NONE /\ queue # <<>> /\ ~starving
      /\ holder' = next /\ queue' = Tail(queue)
      /\ UNCHANGED <<starving, token, spent, bearer>>
  BY DEF TokenInv, Mutex, Woken
<1>1. /\ next = queue[1] /\ next \in Readers /\ queue' \in Seq(Readers)
      /\ 1 \in 1..Len(queue)
  BY <1>0, HeadAndTail
<1>2. /\ step' \in [Readers -> {"idle", "lock", "check", "fetch", "search"}]
      /\ step'[next] = "check" /\ \A q \in Readers \ {next} : step'[q] = step[q]
  BY <1>0, <1>1 DEF Woken, Becomes, TokenTypeOK
<1>3. step[next] = "lock"
  BY <1>0, <1>1 DEF Queued
<1> HIDE DEF next
<1>4. TokenTypeOK'
  BY <1>0, <1>1, <1>2 DEF TokenTypeOK
<1>5. Mutex'
  BY <1>0, <1>1, <1>2, TokenConstants DEF TokenInv, Mutex, Inside
<1>6. Queued' /\ \A i \in 1..Len(queue') : \E j \in 1..Len(queue) :
                    queue'[i] = queue[j] /\ spent[queue'[i]] <= spent[next]
  <2>1. step'[Head(queue)] # "lock" /\ \A q \in Readers \ {Head(queue)} : step'[q] = step[q]
    BY <1>2 DEF next
  <2> QED
    BY <1>0, <2>1, QueueMoves DEF next
<1>7. Waits'
  <2> SUFFICES ASSUME NEW i \in 1..Len(queue') PROVE WaitOk(queue[i])'
    BY DEF Waits
  <2>1. PICK j \in 1..Len(queue) : queue'[i] = queue[j] /\ spent[queue'[i]] <= spent[next]
    BY <1>6
  <2>2. spent[queue'[i]] <= ReaderTime
    BY <1>0, <2>1 DEF TokenInv, Waits, WaitOk
  <2>3. spent[next] \in Nat /\ spent[queue'[i]] \in Nat
    <3>1. queue'[i] \in Readers
      BY <1>1
    <3> QED
      BY <1>0, <1>1, <3>1, TokenConstants DEF TokenTypeOK
  <2>4. holder' = next /\ spent' = spent
    BY <1>0
  <2> QED
    BY <2>1, <2>2, <2>3, <2>4, TokenConstants DEF WaitOk
<1>8. \A q \in Readers : SpentOk(q)' /\ AliveOk(q)'
  BY <1>0, <1>1, <1>2, <1>3 DEF TokenInv, SpentOk, AliveOk
<1> QED
  BY <1>4, <1>5, <1>6, <1>7, <1>8 DEF TokenInv

(* tokenMu.Unlock, handed on or not. *)
LEMMA UnlockKeeps ==
    ASSUME TokenInv, NEW r \in Readers, Inside(r), NEW s \in {"search", "idle"},
           Unlock(r, s), UNCHANGED spent
    PROVE  /\ holder' \in Readers \cup {NONE} /\ queue' \in Seq(Readers)
           /\ starving' \in BOOLEAN
           /\ step' \in [Readers -> {"idle", "lock", "check", "fetch", "search"}]
           /\ Mutex' /\ Queued' /\ Waits'
           /\ step'[r] = s
           /\ \A q \in Readers \ {r} : step'[q] = step[q] \/ (step[q] = "lock" /\ step'[q] = "check")
<1>0. TokenTypeOK /\ Mutex /\ Queued /\ holder = r /\ step[r] # "lock"
  BY DEF TokenInv, Mutex, Inside
<1>1. CASE /\ starving /\ queue # <<>>
           /\ LET next == Head(queue) IN
                /\ holder' = next
                /\ queue' = Tail(queue)
                /\ starving' = (Len(queue) > 1 /\ spent[next] > 0)
                /\ step' = [q \in Readers |->
                              IF q = next THEN "check" ELSE IF q = r THEN s ELSE step[q]]
  <2> DEFINE next == Head(queue)
  <2>1. /\ next = queue[1] /\ next \in Readers /\ queue' \in Seq(Readers)
        /\ 1 \in 1..Len(queue) /\ Len(queue') = Len(queue) - 1 /\ Len(queue) \in Nat
    BY <1>0, <1>1, HeadAndTail
  <2>2. step[next] = "lock" /\ next # r
    BY <1>0, <2>1 DEF Queued
  <2>3. /\ holder' = next /\ queue' = Tail(queue) /\ queue # <<>>
        /\ starving' = (Len(queue) > 1 /\ spent[next] > 0)
        /\ step' \in [Readers -> {"idle", "lock", "check", "fetch", "search"}]
        /\ step'[next] = "check" /\ step'[r] = s
        /\ \A q \in Readers : q # next /\ q # r => step'[q] = step[q]
    BY <1>0, <1>1, <2>1, <2>2 DEF TokenTypeOK
  <2>4. Queued' /\ \A i \in 1..Len(queue') : \E j \in 1..Len(queue) :
                      queue'[i] = queue[j] /\ spent[queue'[i]] <= spent[next]
    <3>1. /\ step'[Head(queue)] # "lock"
          /\ \A q \in Readers \ {Head(queue)} : step'[q] = "lock" <=> step[q] = "lock"
      BY <1>0, <2>3
    <3> QED
      BY <1>0, <2>3, <3>1, QueueMoves
  <2> HIDE DEF next
  <2>5. Mutex'
    BY <1>0, <2>1, <2>2, <2>3, TokenConstants DEF Mutex, Inside
  <2>6. Waits'
    <3> SUFFICES ASSUME NEW i \in 1..Len(queue') PROVE WaitOk(queue[i])'
      BY DEF Waits
    <3>1. spent[queue'[i]] <= spent[next]
      BY <2>4
    <3>2. spent[next] \in Nat /\ spent[queue'[i]] \in Nat
      <4>1. queue'[i] \in Readers
        BY <2>1
      <4>2. \A q \in Readers : spent[q] \in Nat
        BY <1>0, TokenConstants DEF TokenTypeOK
      <4> QED
        BY <2>1, <4>1, <4>2
    <3>3. ASSUME ~starving' PROVE spent[next] = 0
      <4>1. Len(queue) > 1
        BY <2>1
      <4>2. ~(Len(queue) > 1 /\ spent[next] > 0)
        BY <2>3, <3>3, Zenon
      <4> QED
        BY <3>2, <4>1, <4>2
    <3>4. holder' = next /\ spent' = spent
      BY <2>3
    <3>5. spent'[queue'[i]] <= ReaderTime + spent'[holder']
      BY <3>1, <3>2, <3>4, TokenConstants
    <3>6. ~starving' => spent'[queue'[i]] <= ReaderTime /\ spent'[queue'[i]] <= spent'[holder']
      BY <3>1, <3>2, <3>3, <3>4, TokenConstants
    <3> QED
      BY <3>5, <3>6 DEF WaitOk
  <2>7. starving' \in BOOLEAN
    BY <2>3
  <2> QED
    BY <2>1, <2>2, <2>3, <2>4, <2>5, <2>6, <2>7
<1>2. CASE /\ ~starving \/ queue = <<>>
           /\ holder' = NONE
           /\ starving' = FALSE
           /\ Becomes(r, s)
           /\ UNCHANGED queue
  <2>1. /\ step' \in [Readers -> {"idle", "lock", "check", "fetch", "search"}]
        /\ step'[r] = s /\ \A q \in Readers \ {r} : step'[q] = step[q]
    BY <1>0, <1>2 DEF Becomes, TokenTypeOK
  <2>2. Mutex'
    BY <1>0, <1>2, <2>1 DEF Mutex, Inside
  <2>3. \A i \in 1..Len(queue) : queue[i] \in Readers /\ queue[i] # r
    BY <1>0 DEF Queued, TokenTypeOK
  <2>4. Queued'
    BY <1>0, <1>2, <2>1, <2>3 DEF Queued
  <2>5. Waits'
    BY <1>2 DEF TokenInv, Waits, WaitOk
  <2> QED
    BY <1>0, <1>2, <2>1, <2>2, <2>4, <2>5 DEF TokenTypeOK
<1> QED
  BY <1>1, <1>2 DEF Unlock

(* Leaving tokenFor with a token that lives long enough, or with none. *)
LEMMA TokenLeaveKeeps ==
    ASSUME TokenInv, NEW r \in Readers, Inside(r), NEW s \in {"search", "idle"},
           Unlock(r, s), UNCHANGED spent, token' \in Nat, bearer' \in [Readers -> Nat],
           \A q \in Readers \ {r} : bearer'[q] = bearer[q],
           s = "search" => bearer'[r] > ReaderTime
    PROVE  TokenInv'
<1>1. /\ holder' \in Readers \cup {NONE} /\ queue' \in Seq(Readers)
      /\ starving' \in BOOLEAN
      /\ step' \in [Readers -> {"idle", "lock", "check", "fetch", "search"}]
      /\ Mutex' /\ Queued' /\ Waits'
      /\ step'[r] = s
      /\ \A q \in Readers \ {r} : step'[q] = step[q] \/ (step[q] = "lock" /\ step'[q] = "check")
  BY UnlockKeeps
<1>2. TokenTypeOK'
  BY <1>1 DEF TokenInv, TokenTypeOK
<1>3. \A q \in Readers \ {r} : SpentOk(q)' /\ AliveOk(q)'
  BY <1>1, OthersKeep
<1>4. SpentOk(r)' /\ AliveOk(r)'
  <2>1. spent[r] \in Nat /\ spent[r] <= 2 * ReaderTime
    BY TokenConstants DEF TokenInv, TokenTypeOK, SpentOk, Inside
  <2>2. bearer'[r] \in Nat
    OBVIOUS
  <2> QED
    BY <1>1, <2>1, <2>2, TokenConstants DEF SpentOk, AliveOk
<1> QED
  BY <1>1, <1>2, <1>3, <1>4 DEF TokenInv

LEMMA CheckTokenKeeps == ASSUME TokenInv, NEW r \in Readers, CheckToken(r) PROVE TokenInv'
<1>0. /\ TokenTypeOK /\ step[r] = "check" /\ Inside(r) /\ UNCHANGED <<token, spent>>
      /\ token \in Nat /\ bearer \in [Readers -> Nat]
  BY DEF TokenInv, TokenTypeOK, CheckToken, Inside
<1>1. CASE /\ Fresh
           /\ bearer' = [bearer EXCEPT ![r] = token]
           /\ Unlock(r, "search")
  <2>1. /\ bearer' \in [Readers -> Nat] /\ bearer'[r] = token
        /\ \A q \in Readers \ {r} : bearer'[q] = bearer[q]
    BY <1>0, <1>1
  <2>2. token > ReaderTime
    BY <1>0, <1>1, TokenConstants DEF Fresh
  <2> QED
    BY <1>0, <1>1, <2>1, <2>2, TokenLeaveKeeps
<1>2. CASE /\ Becomes(r, "fetch")
           /\ UNCHANGED <<holder, queue, starving, bearer>>
  <2>1. /\ step' \in [Readers -> {"idle", "lock", "check", "fetch", "search"}]
        /\ step'[r] = "fetch" /\ \A q \in Readers \ {r} : step'[q] = step[q]
    BY <1>0, <1>2 DEF Becomes, TokenTypeOK
  <2>2. \A q \in Readers : SpentOk(q)' /\ AliveOk(q)'
    BY <1>0, <1>2, <2>1 DEF TokenInv, SpentOk, AliveOk
  <2>3. Mutex'
    BY <1>0, <1>2, <2>1 DEF TokenInv, Mutex, Inside
  <2>4. \A i \in 1..Len(queue) : queue[i] \in Readers /\ queue[i] # r
    BY <1>0 DEF TokenInv, Queued, TokenTypeOK
  <2>5. Queued'
    BY <1>0, <1>2, <2>1, <2>4 DEF TokenInv, Queued
  <2>6. Waits'
    BY <1>0, <1>2 DEF TokenInv, Waits, WaitOk
  <2>7. TokenTypeOK'
    BY <1>0, <1>2, <2>1 DEF TokenTypeOK
  <2> QED
    BY <2>2, <2>3, <2>5, <2>6, <2>7 DEF TokenInv
<1> QED
  BY <1>1, <1>2 DEF CheckToken

LEMMA FetchKeeps ==
    ASSUME TokenInv, NEW r \in Readers, FetchToken(r) \/ FetchFails(r) PROVE TokenInv'
<1>0. /\ Inside(r) /\ UNCHANGED spent
      /\ token \in Nat /\ bearer \in [Readers -> Nat]
  BY DEF TokenInv, TokenTypeOK, FetchToken, FetchFails, Inside
<1>1. CASE FetchToken(r)
  <2>1. PICK life \in Lives : token' = life /\ bearer' = [bearer EXCEPT ![r] = life]
    BY <1>1 DEF FetchToken
  <2>2. /\ token' \in Nat /\ bearer' \in [Readers -> Nat] /\ bearer'[r] > ReaderTime
        /\ \A q \in Readers \ {r} : bearer'[q] = bearer[q]
    BY <1>0, <2>1, TokenConstants
  <2> QED
    BY <1>0, <1>1, <2>2, TokenLeaveKeeps DEF FetchToken
<1>2. CASE FetchFails(r)
  BY <1>0, <1>2, TokenLeaveKeeps DEF FetchFails
<1> QED
  BY <1>1, <1>2

LEMMA ReturnsKeep == ASSUME TokenInv, NEW r \in Readers, RedditReturns(r) PROVE TokenInv'
<1>0. /\ TokenTypeOK /\ step[r] = "search"
      /\ UNCHANGED <<holder, queue, starving, token, spent, bearer>>
  BY DEF TokenInv, RedditReturns
<1>1. /\ step' \in [Readers -> {"idle", "lock", "check", "fetch", "search"}]
      /\ step'[r] = "idle" /\ \A q \in Readers \ {r} : step'[q] = step[q]
  BY <1>0 DEF RedditReturns, Becomes, TokenTypeOK
<1>2. \A q \in Readers : SpentOk(q)' /\ AliveOk(q)'
  BY <1>0, <1>1 DEF TokenInv, SpentOk, AliveOk
<1>3. Mutex'
  BY <1>0, <1>1 DEF TokenInv, TokenTypeOK, Mutex, Inside
<1>4. \A i \in 1..Len(queue) : queue[i] \in Readers /\ queue[i] # r
  BY <1>0 DEF TokenInv, Queued, TokenTypeOK
<1>5. Queued'
  BY <1>0, <1>1, <1>4 DEF TokenInv, Queued
<1>6. Waits'
  BY <1>0 DEF TokenInv, Waits, WaitOk
<1>7. TokenTypeOK'
  BY <1>0, <1>1 DEF TokenTypeOK
<1> QED
  BY <1>2, <1>3, <1>5, <1>6, <1>7 DEF TokenInv

-----------------------------------------------------------------------------
(* Time goes on only while the holder fetches, within its own time. *)
LEMMA TokenTickKeeps == ASSUME TokenInv, TokenTick PROVE TokenInv'
<1>0. /\ TokenTypeOK /\ UNCHANGED <<holder, queue, starving, step>>
      /\ spent \in [Readers -> 0..TooLong] /\ bearer \in [Readers -> Nat] /\ token \in Nat
      /\ \A r \in Readers : spent[r] \in Nat
  BY TokenConstants DEF TokenInv, TokenTypeOK, TokenTick
<1>1. \A r \in Readers :
        /\ step[r] # "idle" => spent'[r] = spent[r] + 1
        /\ spent'[r] \in 0..TooLong
  <2> TAKE r \in Readers
  <2>1. spent'[r] = IF step[r] = "idle" \/ spent[r] = TooLong THEN spent[r] ELSE spent[r] + 1
    BY DEF TokenTick
  <2>2. step[r] # "idle" => spent[r] <= 2 * ReaderTime
    BY DEF TokenInv, SpentOk
  <2> QED
    BY <1>0, <2>1, <2>2, TokenConstants
<1>2. TokenTypeOK'
  <2>1. spent' \in [Readers -> 0..TooLong]
    BY <1>1 DEF TokenTick
  <2>2. token' \in Nat /\ bearer' \in [Readers -> Nat]
    BY <1>0 DEF TokenTick
  <2> QED
    BY <1>0, <2>1, <2>2 DEF TokenTypeOK
<1>3. Mutex'
  BY <1>0 DEF TokenInv, Mutex, Inside
<1>4. \A i \in 1..Len(queue) :
        /\ queue[i] \in Readers /\ step[queue[i]] = "lock"
        /\ spent'[queue[i]] = spent[queue[i]] + 1 /\ spent[queue[i]] \in Nat
  <2> TAKE i \in 1..Len(queue)
  <2>1. queue[i] \in Readers /\ step[queue[i]] = "lock"
    BY <1>0 DEF TokenInv, TokenTypeOK, Queued
  <2> QED
    BY <1>0, <1>1, <2>1
<1>5. Queued'
  <2>1. \A i, j \in 1..Len(queue) : i <= j => spent'[queue[j]] <= spent'[queue[i]]
    <3> SUFFICES ASSUME NEW i \in 1..Len(queue), NEW j \in 1..Len(queue), i <= j
                 PROVE  spent'[queue[j]] <= spent'[queue[i]]
      OBVIOUS
    <3>1. spent[queue[j]] <= spent[queue[i]]
      BY DEF TokenInv, Queued
    <3> QED
      BY <1>4, <3>1
  <2> QED
    BY <1>0, <2>1 DEF TokenInv, Queued
<1>6. ASSUME NEW i \in 1..Len(queue)
      PROVE  /\ holder \in Readers /\ spent[holder] < ReaderTime
             /\ spent'[holder] = spent[holder] + 1
  <2>1. queue # <<>>
    BY <1>0, <1>6 DEF TokenTypeOK
  <2>2. holder \in Readers /\ Inside(holder)
    BY <1>0, <2>1 DEF TokenTick, TokenTypeOK, TokenInv, Mutex
  <2>3. step[holder] = "fetch" /\ ~Over(holder)
    BY <2>2 DEF TokenTick, Inside, FetchOver
  <2> QED
    BY <1>0, <1>1, <2>2, <2>3, TokenConstants DEF Over
<1>7. Waits'
  <2> SUFFICES ASSUME NEW i \in 1..Len(queue) PROVE WaitOk(queue[i])'
    BY <1>0 DEF Waits
  <2>1. WaitOk(queue[i]) /\ holder # NONE
    BY <1>6, TokenConstants DEF TokenInv, Waits
  <2>2. spent'[queue[i]] <= ReaderTime + spent'[holder]
    BY <1>0, <1>4, <1>6, <2>1, TokenConstants DEF WaitOk
  <2>3. ~starving => spent'[queue[i]] <= ReaderTime /\ spent'[queue[i]] <= spent'[holder]
    BY <1>0, <1>4, <1>6, <2>1, TokenConstants DEF WaitOk
  <2> QED
    BY <1>0, <2>2, <2>3 DEF WaitOk
<1>8. ASSUME NEW r \in Readers PROVE SpentOk(r)'
  <2> SUFFICES ASSUME step[r] # "idle" PROVE spent'[r] <= 2 * ReaderTime
    BY <1>0 DEF SpentOk
  <2>1. CASE step[r] = "lock"
    <3>1. PICK i \in 1..Len(queue) : queue[i] = r
      BY <2>1 DEF TokenInv, Queued
    <3>2. WaitOk(r) /\ holder # NONE
      BY <1>6, <3>1, TokenConstants DEF TokenInv, Waits
    <3>3. holder \in Readers /\ spent[holder] < ReaderTime
      BY <1>6
    <3> QED
      BY <1>0, <1>1, <3>2, <3>3, TokenConstants DEF WaitOk
  <2>2. CASE step[r] # "lock"
    <3>1. ~Over(r)
      <4>1. step[r] = "fetch" \/ step[r] = "search"
        BY <1>0, <2>2 DEF TokenTick, TokenTypeOK
      <4> QED
        BY <4>1 DEF TokenTick, FetchOver
    <3>2. spent[r] < ReaderTime
      BY <1>0, <3>1, TokenConstants DEF Over
    <3> QED
      BY <1>0, <1>1, <3>2, TokenConstants
  <2> QED
    BY <2>1, <2>2
<1>9. ASSUME NEW r \in Readers PROVE AliveOk(r)'
  <2> SUFFICES ASSUME step[r] = "search"
               PROVE  /\ bearer'[r] > 0
                      /\ spent'[r] < ReaderTime => bearer'[r] + spent'[r] > ReaderTime
    BY <1>0 DEF AliveOk
  <2>1. spent[r] < ReaderTime
    BY <1>0, TokenConstants DEF TokenTick, Over
  <2>2. bearer[r] + spent[r] > ReaderTime /\ bearer[r] \in Nat
    BY <1>0, <2>1 DEF TokenInv, AliveOk
  <2>3. bearer'[r] = IF bearer[r] = 0 THEN 0 ELSE bearer[r] - 1
    BY DEF TokenTick
  <2> QED
    BY <1>0, <1>1, <2>1, <2>2, <2>3, TokenConstants
<1> QED
  BY <1>2, <1>3, <1>5, <1>7, <1>8, <1>9 DEF TokenInv

-----------------------------------------------------------------------------
(***************************************************************************)
(* A waiter has waited no longer than the mutex's holder and one           *)
(* connector's time, and a token outlives what is left of its search       *)
(* (reddit.go:100-150).                                                    *)
(***************************************************************************)
THEOREM TokenInvariant == TokenSpec => []TokenInv
<1>1. TokenInit => TokenInv
  <2> SUFFICES ASSUME TokenInit PROVE TokenInv
    OBVIOUS
  <2>1. TokenTypeOK
    <3>1. 0 \in 0..TooLong
      BY TokenConstants
    <3>2. step \in [Readers -> {"idle", "lock", "check", "fetch", "search"}]
      BY DEF TokenInit
    <3>3. spent \in [Readers -> 0..TooLong]
      BY <3>1 DEF TokenInit
    <3>4. bearer \in [Readers -> Nat]
      BY DEF TokenInit
    <3>5. queue \in Seq(Readers) /\ token \in Nat
      BY DEF TokenInit
    <3>6. holder \in Readers \cup {NONE} /\ starving \in BOOLEAN
      BY DEF TokenInit
    <3> QED
      BY <3>2, <3>3, <3>4, <3>5, <3>6 DEF TokenTypeOK
  <2>2. Mutex /\ Queued /\ Waits
    BY DEF TokenInit, Mutex, Inside, Queued, Waits
  <2>3. \A r \in Readers : SpentOk(r) /\ AliveOk(r)
    BY DEF TokenInit, SpentOk, AliveOk
  <2> QED
    BY <2>1, <2>2, <2>3 DEF TokenInv
<1>2. TokenInv /\ [TokenNext]_tokenVars => TokenInv'
  <2> SUFFICES ASSUME TokenInv, [TokenNext]_tokenVars PROVE TokenInv'
    OBVIOUS
  <2>1. CASE UNCHANGED tokenVars
    <3>1. TokenTypeOK'
      BY <2>1 DEF tokenVars, TokenInv, TokenTypeOK
    <3>2. Mutex'
      BY <2>1 DEF tokenVars, TokenInv, Mutex, Inside
    <3>3. Queued'
      BY <2>1 DEF tokenVars, TokenInv, Queued
    <3>4. Waits'
      BY <2>1 DEF tokenVars, TokenInv, Waits, WaitOk
    <3>5. ASSUME NEW r \in Readers PROVE SpentOk(r)' /\ AliveOk(r)'
      BY <2>1 DEF tokenVars, TokenInv, SpentOk, AliveOk
    <3> QED
      BY <3>1, <3>2, <3>3, <3>4, <3>5 DEF TokenInv
  <2> QED
    BY <2>1, LockKeeps, WokenKeeps, CheckTokenKeeps, FetchKeeps, ReturnsKeep, TokenTickKeeps
       DEF TokenNext
<1> QED
  BY <1>1, <1>2, PTL DEF TokenSpec

(***************************************************************************)
(* Every variable keeps its type.                                          *)
(***************************************************************************)
THEOREM TokenTypeCorrect == TokenSpec => []TokenTypeOK
<1>1. TokenInv => TokenTypeOK
  BY DEF TokenInv
<1> QED
  BY <1>1, TokenInvariant, PTL

(***************************************************************************)
(* However many searches contend for the token, none takes longer than     *)
(* twice a connector's time (reddit.go:108).                               *)
(***************************************************************************)
THEOREM LockWaitBounded == TokenSpec => []LockWaitIsBounded
<1>1. TokenInv => LockWaitIsBounded
  BY DEF TokenInv, SpentOk, LockWaitIsBounded
<1> QED
  BY <1>1, TokenInvariant, PTL

(***************************************************************************)
(* No search asks Reddit with a token that has expired (reddit.go:110).    *)
(***************************************************************************)
THEOREM TokensOutlive == TokenSpec => []TokensOutliveTheirUse
<1>1. TokenInv => TokensOutliveTheirUse
  BY DEF TokenInv, AliveOk, TokensOutliveTheirUse
<1> QED
  BY <1>1, TokenInvariant, PTL

-----------------------------------------------------------------------------
(***************************************************************************)
(* The process: nothing one part does disturbs another, so each keeps all  *)
(* that has been shown of it (main.go:76-170).                             *)
(***************************************************************************)
THEOREM PartsKeepTheirPromises ==
    ServingSpec => TopicSpec /\ GatewaySpec /\ ThrottleSpec /\ TokenSpec
<1>1. ServingInit => TopicInit /\ GatewayInit /\ ThrottleInit /\ TokenInit
  BY DEF ServingInit
<1>2. [ServingNext]_servingVars => [TopicNext]_topicVars
  BY DEF ServingNext, servingVars
<1>3. [ServingNext]_servingVars => [GatewayNext]_gatewayVars
  BY DEF ServingNext, servingVars
<1>4. [ServingNext]_servingVars => [ThrottleNext]_throttleVars
  BY DEF ServingNext, servingVars
<1>5. [ServingNext]_servingVars => [TokenNext]_tokenVars
  BY DEF ServingNext, servingVars
<1> QED
  BY <1>1, <1>2, <1>3, <1>4, <1>5, PTL
     DEF ServingSpec, TopicSpec, GatewaySpec, ThrottleSpec, TokenSpec

(***************************************************************************)
(* Every variable of the process keeps its type: in particular the cache   *)
(* never outgrows its capacity, and no request, search or stop is ever     *)
(* given more time than its budgets add up to (cache.go:19-51).            *)
(***************************************************************************)
THEOREM ServingTypeCorrect == ServingSpec => []ServingTypeOK
<1>1. SlotInv => ThrottleTypeOK
  BY DEF SlotInv
<1>2. TopicTypeOK /\ GatewayTypeOK /\ ThrottleTypeOK /\ TokenTypeOK => ServingTypeOK
  BY DEF ServingTypeOK
<1> QED
  BY <1>1, <1>2, PartsKeepTheirPromises, TopicTypeCorrect, GatewayTypeCorrect,
     ThrottleInvariant, TokenTypeCorrect, PTL
=============================================================================
