------------------------------- MODULE Gateway -------------------------------
(***************************************************************************)
(* The gateway process: main of sentilyzerd, its HTTP routes               *)
(* (api/internal/server/rest.go, graphql.go), its gRPC server, the rate    *)
(* limiters all HTTP API routes share (ratelimit.go), and the way it stops. *)
(* What a route computes is left to TopicService; here it takes time.      *)
(*                                                                         *)
(* Time is counted by timers that all run down together; what is due       *)
(* happens before time goes on.                                            *)
(***************************************************************************)
EXTENDS Naturals, FiniteSets

CONSTANTS
    Requesters,  \* requests that may be open at once
    Clients,     \* the addresses they come from
    PerIP,       \* requests an address has per window, 0 for no limit
    Global,      \* requests all have together per window, 0 for no limit
    Search,      \* the longest the connectors take
    Score,       \* the longest one inference call takes
    Ready,       \* the longest inference.Client.Ready takes
    RequestTime, \* requestTimeout
    Drain,       \* how long Shutdown waits for HTTP requests
    NOTHING

ASSUME GatewayAssumption ==
    /\ {PerIP, Global} \subseteq Nat
    /\ {Search, Score, Ready, RequestTime, Drain} \subseteq Nat \ {0}
    /\ Drain < RequestTime
    /\ Ready <= Search + 2 * Score

VARIABLES
    phase,       \* "serving", "draining" HTTP, "stopping" gRPC, "exited"
    since,       \* time since the signal
    used,        \* what the limiters have counted in their window
    handled,     \* the API requests handled in that window
    open,        \* the requests that are being handled
    told         \* the last answer each requester got

gatewayVars == <<phase, since, used, handled, open, told>>

Probes == {"livez", "readyz"}
Api == {"health", "platforms", "text", "topic"}
Http == Probes \cup Api \cup {"graphql"}
Routes == Http \cup {"rpc"}

(* Groups of routes with the same offers, each set up by a call of api.     *)
Group(route) == IF route \in {"text", "topic"} THEN "analyze" ELSE "api"

(* What takes time, and how long at most. *)
Takes == [search |-> Search, score |-> Score, aspects |-> Score, probe |-> Ready]

LongestRpc == Search + 2 * Score

(* What handling a request of route begins with; "now": it takes no time.  *)
Begins ==
    [livez |-> {"now"}, platforms |-> {"now"}, readyz |-> {"probe"}, health |-> {"probe"},
     text |-> {"score"}, topic |-> {"search"}, graphql |-> {"now", "search", "score"},
     rpc |-> {"now", "probe", "search", "score"}]

Open == [route : Routes, stage : DOMAIN Takes, left : 0..Search + Score + Ready,
         deadline : 0..RequestTime \cup {NOTHING}]

GatewayTypeOK ==
    /\ phase \in {"serving", "draining", "stopping", "exited"}
    /\ since \in 0..Drain + LongestRpc + 1
    /\ used \in [all : Nat, by : [Clients -> Nat]]
    /\ handled \in [all : Nat, by : [Clients -> Nat]]
    /\ open \in [Requesters -> Open \cup {NOTHING}]
    /\ told \in [Requesters -> {"none", "done", "refused", "limited"}]

None == [all |-> 0, by |-> [a \in Clients |-> 0]]

GatewayInit ==
    /\ phase = "serving"
    /\ since = 0
    /\ used = None
    /\ handled = None
    /\ open = [r \in Requesters |-> NOTHING]
    /\ told = [r \in Requesters |-> "none"]

-----------------------------------------------------------------------------
Replies(r, what) ==
    /\ told' = [told EXCEPT ![r] = what]
    /\ open' = [open EXCEPT ![r] = NOTHING]

(* A handler goes to work; middleware.Timeout is on the API routes only. *)
Handle(r, route) ==
    \E stage \in Begins[route] :
      IF stage = "now" THEN Replies(r, "done")
      ELSE /\ open' = [open EXCEPT ![r] =
                [route |-> route, stage |-> stage, left |-> Takes[stage],
                 deadline |-> IF route \in Api THEN RequestTime ELSE NOTHING]]
           /\ UNCHANGED told

(* New HTTP connections are refused once Shutdown has begun, new RPCs once  *)
(* GracefulStop has.                                                        *)
Accepts(route) == phase = "serving" \/ (route = "rpc" /\ phase = "draining")

Free(r) == open[r] = NOTHING /\ told[r] = "none"

(* Probes, GraphQL and gRPC pass no limiter. *)
Unlimited(r, route) ==
    /\ Free(r) /\ Accepts(route) /\ route \notin Api
    /\ Handle(r, route)
    /\ UNCHANGED <<phase, since, used, handled>>

(* negotiateMedia finds no format it can serve: 406, or 400 for ?format=.   *)
(* It runs before the limiters.                                             *)
Refused(r, route) ==
    /\ Free(r) /\ Accepts(route) /\ route \in Api
    /\ Replies(r, "refused")
    /\ UNCHANGED <<phase, since, used, handled>>

Within(limit, n) == limit = 0 \/ n < limit

(* A request from a is counted, or only the bucket of all counts it. *)
Count(counter, a) ==
    [all |-> counter.all + 1, by |-> [counter.by EXCEPT ![a] = @ + 1]]
CountAll == [all |-> used.all + 1, by |-> used.by]

(* Seeded bug: a limiter per route group. *)
LimitAnalyzeOnly(r, route, a) ==
    /\ Free(r) /\ Accepts(route) /\ route \in Api
    /\ used' = IF Group(route) = "analyze" THEN Count(used, a) ELSE used
    /\ Within(Global, used.all) /\ Within(PerIP, used.by[a])
    /\ handled' = Count(handled, a)
    /\ Handle(r, route)
    /\ UNCHANGED <<phase, since>>

(* rateLimiters: first the bucket of all, then that of the address.         *)
(* httprate (external) counts what it lets pass.                            *)
Limited(r, route, a) ==
    /\ Free(r) /\ Accepts(route) /\ route \in Api
    /\ \/ /\ ~Within(Global, used.all)
          /\ Replies(r, "limited")
          /\ UNCHANGED <<used, handled>>
       \/ /\ Within(Global, used.all) /\ ~Within(PerIP, used.by[a])
          /\ used' = CountAll
          /\ Replies(r, "limited")
          /\ UNCHANGED handled
       \/ /\ Within(Global, used.all) /\ Within(PerIP, used.by[a])
          /\ used' = Count(used, a)
          /\ handled' = Count(handled, a)
          /\ Handle(r, route)
    /\ UNCHANGED <<phase, since>>

(* httprate (external) forgets what its window has left behind. *)
NextWindow ==
    /\ phase # "exited"
    /\ used # None
    /\ used' = None
    /\ handled' = None
    /\ UNCHANGED <<phase, since, open, told>>

Running(r) == open[r] # NOTHING

(* Whether the stage's time, or the request's, is over. *)
StageOver(r) == open[r].left = 0
RequestOver(r) == open[r].deadline = 0

MoveOn(r, stage) ==
    /\ open' = [open EXCEPT ![r] =
         [route |-> @.route, stage |-> stage, left |-> Takes[stage], deadline |-> @.deadline]]
    /\ UNCHANGED told

(* A stage is over, one way or the other: an analysis goes on with what the *)
(* connectors brought, or the request is answered.                          *)
StageEnds(r) ==
    /\ phase # "exited"
    /\ Running(r)
    /\ \/ /\ open[r].stage = "search"
          /\ ~RequestOver(r)
          /\ MoveOn(r, "score")
       \/ /\ open[r].stage = "score"
          /\ ~RequestOver(r) /\ ~StageOver(r)
          /\ MoveOn(r, "aspects")
       \/ Replies(r, "done")
    /\ UNCHANGED <<phase, since, used, handled>>

(* The client has read its answer. *)
Reads(r) ==
    /\ phase # "exited"
    /\ told[r] # "none"
    /\ told' = [told EXCEPT ![r] = "none"]
    /\ UNCHANGED <<phase, since, used, handled, open>>

-----------------------------------------------------------------------------
InFlight(routes) == {r \in Requesters : Running(r) /\ open[r].route \in routes}

(* SIGTERM or SIGINT, or a listener fails: httpSrv.Shutdown begins. *)
Signalled ==
    /\ phase = "serving"
    /\ phase' = "draining"
    /\ since' = 0
    /\ UNCHANGED <<used, handled, open, told>>

(* Seeded bug: Close instead of Shutdown. *)
NoDrain == TRUE

Drained == InFlight(Http) = {} \/ since >= Drain

(* Shutdown returns, also when its ten seconds are over; GracefulStop       *)
(* begins.                                                                  *)
ShutdownReturns ==
    /\ phase = "draining"
    /\ Drained
    /\ phase' = "stopping"
    /\ UNCHANGED <<since, used, handled, open, told>>

(* GracefulStop has waited for the RPCs, and main returns: whatever HTTP    *)
(* request is still running goes down with the process.                     *)
Exit ==
    /\ phase = "stopping"
    /\ InFlight({"rpc"}) = {}
    /\ phase' = "exited"
    /\ open' = [r \in Requesters |-> NOTHING]
    /\ told' = [r \in Requesters |-> "none"]
    /\ UNCHANGED <<since, used, handled>>

(* The container starts anew: all of this state lived in memory. *)
StartAgain ==
    /\ phase = "exited"
    /\ phase' = "serving"
    /\ since' = 0
    /\ used' = None
    /\ handled' = None
    /\ UNCHANGED <<open, told>>

Down(timer) == IF timer = NOTHING THEN NOTHING ELSE timer - 1

(* Seeded bug: inference calls have no timeout of their own. *)
NeverDown(r) == open[r].stage \in {"score", "aspects"}

Endless(r) == FALSE

(* What is left of a running request after one unit of time. *)
Later(r) ==
    [route |-> open[r].route, stage |-> open[r].stage,
     left |-> IF Endless(r) THEN open[r].left ELSE open[r].left - 1,
     deadline |-> Down(open[r].deadline)]

GatewayTick ==
    /\ phase # "exited"
    /\ \A r \in Requesters :
         /\ told[r] = "none"
         /\ Running(r) => ~StageOver(r) /\ ~RequestOver(r)
    /\ ~(phase = "draining" /\ Drained)
    /\ ~(phase = "stopping" /\ InFlight({"rpc"}) = {})
    /\ since' = IF phase = "serving" \/ since > Drain + LongestRpc THEN since ELSE since + 1
    /\ open' = [r \in Requesters |-> IF Running(r) THEN Later(r) ELSE NOTHING]
    /\ UNCHANGED <<phase, used, handled, told>>

GatewayNext ==
    \/ \E r \in Requesters :
         \/ \E route \in Routes :
              \/ Unlimited(r, route) \/ Refused(r, route)
              \/ \E a \in Clients : Limited(r, route, a)
         \/ StageEnds(r) \/ Reads(r)
    \/ NextWindow
    \/ Signalled \/ ShutdownReturns \/ Exit \/ StartAgain
    \/ GatewayTick

GatewaySpec == GatewayInit /\ [][GatewayNext]_gatewayVars

-----------------------------------------------------------------------------
(***************************************************************************)
(* "Built once so both route groups below share the same buckets; calling  *)
(* rateLimiters per group would hand each group a budget of its own"       *)
(* (rest.go:58): over all API routes together no address, and not all of   *)
(* them, get more requests handled in a window than the limits say.        *)
(***************************************************************************)
OneBudget ==
    /\ Global > 0 => handled.all <= Global
    /\ PerIP > 0 => \A a \in Clients : handled.by[a] <= PerIP

(***************************************************************************)
(* A stop cuts nobody off who could have been waited for: what is still    *)
(* running when the process exits is an HTTP request, and it has had all   *)
(* of the drain's ten seconds.  (main.go:165-168)                          *)
(***************************************************************************)
OnlySlowHttpIsCut ==
    [][phase' = "exited" /\ phase # "exited" =>
         /\ InFlight({"rpc"}) = {}
         /\ InFlight(Http) # {} => since >= Drain]_gatewayVars

(***************************************************************************)
(* GracefulStop has no timeout (main.go:168), yet the process exits: RPCs  *)
(* are accepted until the drain is over, and the last of them is held up   *)
(* no longer than the connectors' and the inference client's own budgets.  *)
(***************************************************************************)
StopsInTime == phase # "serving" => since <= Drain + LongestRpc
=============================================================================
