---------------------------- MODULE MCMqttParts ----------------------------
(***************************************************************************)
(* TLC instance of the parts of the MQTT side that stand on their own: a   *)
(* behaviour picks one of them and takes its steps, while the others stay  *)
(* as they were initialised.                                               *)
(***************************************************************************)
EXTENDS HeapUse, MqttRouter, MqttConnection, BrokerPublish, MqttFraming

VARIABLE part

heapVars == <<heap, key>>
partVars == <<part, heapVars, routerVars, mqttVars, brokerVars, framingVars>>

\* Overlapping filters of every kind; a topic whose first level hides it from
\* wildcards; two subscribers the rendezvous hash orders differently by topic.
Filter(group, levels) == [group |-> group, levels |-> levels]
MCFilters == {Filter(NoShare, <<"a", "b">>), Filter(NoShare, <<"+", "b">>),
              Filter(NoShare, <<"#">>), Filter("g", <<"a", "#">>)}
MCTopics == {<<"a", "b">>, <<"a">>, <<"$", "b">>}
MCNoLocal == [f \in MCFilters |-> IF f.levels = <<"#">> THEN {TRUE, FALSE} ELSE {FALSE}]
MCScore == [x \in MCTopics \X Subscribers |-> IF x[1][1] = "a" THEN x[2] ELSE 0 - x[2]]

\* Two overlapping subscriptions of one client.
MCMatchPlans == {<<2, 2>>}

-----------------------------------------------------------------------------

PartsInit ==
    /\ part \in {"heap", "router", "connection", "publish", "framing"}
    /\ HeapInit /\ BrokerPublishInit
    /\ IF part = "router" THEN RouterInit
       ELSE router = EmptyRouter("round_robin") /\ subscribed = {}
    /\ IF part = "connection" THEN MqttInit
       ELSE MqttStart("v5", [x \in Ends |-> 1], [x \in Ends |-> 1])
    /\ IF part = "framing" THEN FramingInit
       ELSE FramingStart("broker", EncodeRemainingLength(0))

HeapStep ==
    /\ part = "heap" /\ HeapNext
    /\ UNCHANGED <<part, routerVars, mqttVars, brokerVars, framingVars>>

RouterStep ==
    /\ part = "router" /\ RouterNext
    /\ UNCHANGED <<part, heapVars, mqttVars, brokerVars, framingVars>>

ConnectionStep ==
    /\ part = "connection" /\ MqttNext
    /\ UNCHANGED <<part, heapVars, routerVars, brokerVars, framingVars>>

PublishStep ==
    /\ part = "publish" /\ BrokerPublishNext
    /\ UNCHANGED <<part, heapVars, routerVars, mqttVars, framingVars>>

FramingStep ==
    /\ part = "framing" /\ FramingNext
    /\ UNCHANGED <<part, heapVars, routerVars, mqttVars, brokerVars>>

PartsNext == HeapStep \/ RouterStep \/ ConnectionStep \/ PublishStep \/ FramingStep

PartsSpec == PartsInit /\ [][PartsNext]_partVars

-----------------------------------------------------------------------------

\* HeapConsistent, asked where the heap is the part that runs: the order is
\* kept, every entry knows its place, and the due are counted (remove, fix and
\* countDueFrom of indexed_heap.zig).
HeapHolds == part = "heap" => HeapConsistent

\* RouterExact, asked where the router is the part that runs: whatever
\* subscriptions came, went, were replaced or failed for want of memory, a
\* publication reaches exactly the subscribers it should (matchInto).
RouterHolds == part = "router" => RouterExact

=============================================================================
