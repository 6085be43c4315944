----------------------------- MODULE MqttPackets -----------------------------
(***************************************************************************)
(* The MQTT packets of the interoperability vectors, as both ends see them *)
(* on the wire: two packets are equal when their bytes are.  v is the      *)
(* protocol level, 5 or 4 (MQTT 3.1.1), which a packet's layout depends    *)
(* on.  A topic is the sequence of its levels (<<>> is the empty topic), a *)
(* filter [group, levels] with group "" when it is not shared, alias 0 and *)
(* expiry -1 stand for a property that is absent, and props are the other  *)
(* properties in order, [id, value].                                       *)
(***************************************************************************)
EXTENDS Integers, Sequences

LOCAL INSTANCE SequencesExt

CONSTANT NoWill

GenConnect(id) ==
    [type |-> "CONNECT", v |-> 5, id |-> id, clean |-> TRUE, expiry |-> 0,
     keepalive |-> 60, receive_maximum |-> 65535, maximum_packet_size |-> 268435460,
     topic_alias_maximum |-> 0, will |-> NoWill]

GenPublish(topic, payload) ==
    [type |-> "PUBLISH", v |-> 5, topic |-> topic, payload |-> payload, qos |-> 0, mid |-> 0,
     retain |-> FALSE, dup |-> FALSE, alias |-> 0, expiry |-> -1, subids |-> <<>>, props |-> <<>>]

\* A PUBLISH of QoS 1 or 2.
Acked(publish, qos, mid) == [publish EXCEPT !.qos = qos, !.mid = mid]

Retained(publish) == [publish EXCEPT !.retain = TRUE]

\* PUBACK, PUBREC, PUBREL and PUBCOMP.
GenAck(type, mid, rc) == [type |-> type, v |-> 5, mid |-> mid, rc |-> rc]

GenSubscribe(mid, filter, qos) ==
    [type |-> "SUBSCRIBE", v |-> 5, mid |-> mid, filter |-> filter, subid |-> 0,
     options |-> [qos |-> qos, no_local |-> FALSE, retain_as_published |-> FALSE,
                  retain_handling |-> 0]]

GenSubAck(mid, rc) == [type |-> "SUBACK", v |-> 5, mid |-> mid, rc |-> rc]

GenUnsubscribe(mid, filters) == [type |-> "UNSUBSCRIBE", v |-> 5, mid |-> mid, filters |-> filters]

GenUnsubAck(mid, reasons) == [type |-> "UNSUBACK", v |-> 5, mid |-> mid, reasons |-> reasons]

GenDisconnect(rc) == [type |-> "DISCONNECT", v |-> 5, rc |-> rc, expiry |-> -1]

GenPingReq == [type |-> "PINGREQ"]
GenPingResp == [type |-> "PINGRESP"]

\* limits are the properties that follow the identifier the broker assigned.
GenConnAck(v, present, assigned, limits) ==
    [type |-> "CONNACK", v |-> v, present |-> present, rc |-> 0, assigned |-> assigned,
     limits |-> limits]

\* What CONNACK advertises when nothing is restricted (server_keep_alive -1: absent).
GenLimits ==
    [receive_maximum |-> 64, maximum_packet_size |-> 16777216, topic_alias_maximum |-> 16,
     server_keep_alive |-> -1, maximum_qos |-> 2, retain_available |-> TRUE,
     wildcard_subscription_available |-> TRUE, subscription_identifier_available |-> TRUE,
     shared_subscription_available |-> TRUE]

\* A first packet whose header declares more than any broker accepts.
Oversized(type) == [type |-> "OVERSIZED", of |-> type]

-----------------------------------------------------------------------------
(* Encoded lengths, of packets with less than 128 bytes after the header *)

Sum(numbers) == FoldSeq(LAMBDA x, y : x + y, 0, numbers)

TopicBytes(topic) ==
    IF topic = <<>> THEN 0 ELSE Sum([i \in DOMAIN topic |-> Len(topic[i])]) + Len(topic) - 1

PropertyBytes(property) ==
    CASE property.id = "payload_format_indicator" -> 2
      [] property.id = "user_property" -> 4 + Len(property.value)   \* "key=value"
      [] OTHER -> 3 + Len(property.value)

PublishBytes(p) ==
    2 + 2 + TopicBytes(p.topic) + (IF p.qos > 0 THEN 2 ELSE 0) + Len(p.payload)
      + (IF p.v # 5 THEN 0
         ELSE 1 + (IF p.alias # 0 THEN 3 ELSE 0) + (IF p.expiry # -1 THEN 5 ELSE 0)
                + 2 * Len(p.subids) + Sum([i \in DOMAIN p.props |-> PropertyBytes(p.props[i])]))

=============================================================================
