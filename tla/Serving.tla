------------------------------- MODULE Serving -------------------------------
(***************************************************************************)
(* The serving process (api/cmd/sentilyzerd/main.go): analyses of topics   *)
(* over the shared cache, requests and the stopping of the gateway, and    *)
(* what connectors of all requests share.  The parts hold no state in      *)
(* common; they meet in the time they allow each other, which their        *)
(* constants carry over.                                                   *)
(***************************************************************************)
EXTENDS TopicService, Gateway, GdeltThrottle, RedditToken

ServingInit == TopicInit /\ GatewayInit /\ ThrottleInit /\ TokenInit

ServingNext ==
    \/ TopicNext /\ UNCHANGED <<gatewayVars, throttleVars, tokenVars>>
    \/ GatewayNext /\ UNCHANGED <<topicVars, throttleVars, tokenVars>>
    \/ ThrottleNext /\ UNCHANGED <<topicVars, gatewayVars, tokenVars>>
    \/ TokenNext /\ UNCHANGED <<topicVars, gatewayVars, throttleVars>>

servingVars == <<topicVars, gatewayVars, throttleVars, tokenVars>>

ServingSpec == ServingInit /\ [][ServingNext]_servingVars

(***************************************************************************)
(* Types of all four: among them that the cache stays within its size,     *)
(* with one entry per key, and that no request lives on past the sum of    *)
(* what its calls may take.                                                 *)
(***************************************************************************)
ServingTypeOK == TopicTypeOK /\ GatewayTypeOK /\ ThrottleTypeOK /\ TokenTypeOK
=============================================================================
