------------------------------ MODULE MCServing ------------------------------
(* The parts of the serving process share no variable, so a property of one *)
(* part is decided by the behaviours of Serving in which that part alone    *)
(* moves.                                                                    *)
EXTENDS MCTopicService, Serving

VARIABLE part

MCServingInit == part \in {"topic", "gateway", "throttle", "token"} /\ ServingInit

MCServingNext ==
    /\ UNCHANGED part
    /\ \/ part = "topic" /\ TopicNext /\ UNCHANGED <<gatewayVars, throttleVars, tokenVars>>
       \/ part = "gateway" /\ GatewayNext /\ UNCHANGED <<topicVars, throttleVars, tokenVars>>
       \/ part = "throttle" /\ ThrottleNext /\ UNCHANGED <<topicVars, gatewayVars, tokenVars>>
       \/ part = "token" /\ TokenNext /\ UNCHANGED <<topicVars, gatewayVars, throttleVars>>

MCServingSpec == MCServingInit /\ [][MCServingNext]_<<part, servingVars>>
=============================================================================
