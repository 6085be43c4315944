----------------------------- MODULE MqttVectors -----------------------------
(***************************************************************************)
(* The scenarios of tools/interop/mqtt_mosquitto_vectors.py.  A vector is  *)
(* a broker configuration and the script the harness runs against it: a    *)
(* sequence of steps, each on a connection c (connections count in the     *)
(* order their sockets are opened).                                        *)
(***************************************************************************)
EXTENDS MqttPackets

LOCAL INSTANCE SequencesExt

-----------------------------------------------------------------------------
(* Steps *)

Open(c) == [do |-> "open", c |-> c]
Close(c) == [do |-> "close", c |-> c]
Send(c, packet) == [do |-> "send", c |-> c, packet |-> packet]

\* Reads one packet for each member of want, which is the set of packets that
\* will do for it, in any order.
Expects(c, want) == [do |-> "expect", c |-> c, want |-> want]

\* expect_packet.
Expect(c, packet) == Expects(c, {{packet}})

\* expect_packets_unordered.
ExpectUnordered(c, packets) == Expects(c, {{p} : p \in packets})

\* Reads a CONNACK of which only these fields matter.
Accepted(c, presents, reasons) ==
    [do |-> "accepted", c |-> c, presents |-> presents, reasons |-> reasons]

\* Reads a CONNACK that assigns an identifier no earlier one did.
Assigned(c) == [do |-> "assigned", c |-> c]

\* Reads nothing for 0.05 seconds.
Silence(c) == [do |-> "silence", c |-> c]

\* Reads the end of the stream, or finds the connection reset.
Ended(c) == [do |-> "ended", c |-> c]

\* Reads the end of the stream.
Eof(c) == [do |-> "eof", c |-> c]

\* time.sleep, in half seconds.
Sleep(seconds) == [do |-> "sleep", c |-> 0, for |-> 2 * seconds]

\* with broker.connect() as ...: sockets are closed last opened first.
With(cs, body) ==
    [i \in DOMAIN cs |-> Open(cs[i])] \o body \o [i \in DOMAIN cs |-> Close(cs[Len(cs) + 1 - i])]

\* What NetzBroker is started with; slack is the time, in half seconds, that
\* may pass beyond the sleeps of the script.
Vector(name, connections, script) ==
    [name |-> name, connections |-> connections, ignore_errors |-> FALSE, limits |-> GenLimits,
     slack |-> 0, script |-> script]

Filter(levels) == [group |-> "", levels |-> levels]
Shared(group, levels) == [group |-> group, levels |-> levels]

Bye(c) == Send(c, GenDisconnect(0))
Ping(c) == <<Send(c, GenPingReq), Expect(c, GenPingResp)>>

\* connect_client: any reason below 0x80 passes.
ConnectClient(c, id, v) ==
    <<Send(c, [GenConnect(id) EXCEPT !.v = v]), Accepted(c, BOOLEAN, 0..127)>>

ConnectV5(c, id) == ConnectClient(c, id, 5)

\* The CONNECT is any other, and must be answered with reason 0.
ConnectWith(c, connect) == <<Send(c, connect), Accepted(c, BOOLEAN, {0})>>

Persistent(id, expiry) == [GenConnect(id) EXCEPT !.clean = FALSE, !.expiry = expiry]

ConnectPersistentV5(c, id, session_present) ==
    <<Send(c, Persistent(id, 60)), Accepted(c, {session_present}, {0})>>

\* expected_connack.
ExpectedConnAck(session_present, limits) == GenConnAck(5, session_present, "", limits)

\* SUBSCRIBE, and the SUBACK that grants what was asked for.
Subscribes(c, subscribe) ==
    <<Send(c, subscribe), Expect(c, GenSubAck(subscribe.mid, subscribe.options.qos))>>

Subscribe0(c, mid, levels) == Subscribes(c, GenSubscribe(mid, Filter(levels), 0))

\* UNSUBSCRIBE of one filter that exists.
Unsubscribes(c, mid, levels) ==
    <<Send(c, GenUnsubscribe(mid, <<Filter(levels)>>)), Expect(c, GenUnsubAck(mid, <<0>>))>>

\* A QoS 1 PUBLISH and the PUBACK with this reason.
Publishes1(c, publish, mid, rc) ==
    <<Send(c, Acked(publish, 1, mid)), Expect(c, GenAck("PUBACK", mid, rc))>>

NoMatchingSubscribers == 16

\* PUBREL from the client, and PUBCOMP.
Releases(c, mid) ==
    <<Send(c, GenAck("PUBREL", mid, 0)), Expect(c, GenAck("PUBCOMP", mid, 0))>>

\* The client takes a QoS 2 PUBLISH the broker sends, and completes it.
Completes(c, mid) ==
    <<Send(c, GenAck("PUBREC", mid, 0)), Expect(c, GenAck("PUBREL", mid, 0)),
      Send(c, GenAck("PUBCOMP", mid, 0))>>

-----------------------------------------------------------------------------
(* Scenarios with one connection *)

no_matching_subscribers ==
    LET pub == <<"03B", "no", "subs", "pub">>
        topics == <<pub, pub \o <<"qos1">>, pub \o <<"qos1", "test">>>>
        message(i) == GenPublish(topics[i], "message")
    IN Vector("no_matching_subscribers", 1, With(<<1>>,
         ConnectV5(1, "03-pub-qos1-no-subs")
         \o FlattenSeq([i \in 1..3 |-> Publishes1(1, message(i), i, NoMatchingSubscribers)])
         \o Publishes1(1, Retained(message(3)), 4, NoMatchingSubscribers)
         \o <<Bye(1)>>))

subscription_identifiers ==
    LET base == <<"02", "subpub", "subid">>
        subscribe(mid, levels, identifier) ==
            Subscribes(1, [GenSubscribe(mid, Filter(base \o levels), 0) EXCEPT !.subid = identifier])
        forward(levels, payload, identifiers) ==
            <<Send(1, GenPublish(base \o levels, payload)),
              Expect(1, [GenPublish(base \o levels, payload) EXCEPT !.subids = identifiers])>>
    IN Vector("subscription_identifiers", 1, With(<<1>>,
         ConnectV5(1, "02-subpub-subid")
         \o subscribe(1, <<"id1">>, 1) \o subscribe(2, <<"+", "id2">>, 14)
         \o subscribe(3, <<"noid">>, 0) \o subscribe(4, <<"id1">>, 0)
         \o subscribe(5, <<"+", "id2">>, 19) \o subscribe(6, <<"noid">>, 21)
         \o forward(<<"test", "id2">>, "message2", <<19>>)
         \o forward(<<"noid">>, "message3", <<21>>)
         \o forward(<<"id1">>, "message1", <<>>)
         \o <<Bye(1)>>))

multiple_subscription_identifiers ==
    LET topic == <<"multi", "subid", "value">>
        both == Retained(GenPublish(topic, "both"))
        wild == GenSubscribe(2, Filter(<<"multi", "subid", "+">>), 1)
    IN Vector("multiple_subscription_identifiers", 1, With(<<1>>,
         ConnectV5(1, "multi-subscription-id")
         \o Subscribes(1, [GenSubscribe(1, Filter(topic), 0) EXCEPT !.subid = 3])
         \o Subscribes(1, [wild EXCEPT !.subid = 9, !.options.retain_as_published = TRUE])
         \o Publishes1(1, both, 10, 0)
         \o <<Expect(1, [Acked(both, 1, 1) EXCEPT !.subids = <<3, 9>>]),
              Send(1, GenAck("PUBACK", 1, 0)), Bye(1)>>))

hostile_initial_packets ==
    [Vector("hostile_initial_packets", 15,
         FlattenSeq([c \in 1..14 |-> With(<<c>>, <<Send(c, Oversized(c + 1)), Ended(c)>>)])
         \o With(<<15>>, ConnectV5(15, "after-hostile-initial") \o <<Bye(15)>>))
       EXCEPT !.ignore_errors = TRUE]

\* A broker with restricted limits advertises them, and answers a packet that
\* disregards them with DISCONNECT.
CapabilityVector(name, id, limits, before, packet, reason) ==
    [Vector(name, 1, With(<<1>>,
         <<Send(1, GenConnect(id)), Expect(1, ExpectedConnAck(FALSE, limits))>>
         \o before \o <<Send(1, packet), Expect(1, GenDisconnect(reason))>>))
       EXCEPT !.limits = limits]

publish_capability_disconnects ==
    LET id == "publish-capability" IN
    {CapabilityVector("publish_qos", id, [GenLimits EXCEPT !.maximum_qos = 1], <<>>,
         Acked(GenPublish(<<"test", "topic">>, ""), 2, 1), 155),
     CapabilityVector("publish_retain", id, [GenLimits EXCEPT !.retain_available = FALSE], <<>>,
         Retained(GenPublish(<<"test", "topic">>, "a")), 154)}

maximum_packet_size_disconnect ==
    LET publish(payload) ==
            GenPublish(<<"12", "max", "packet", "size", "broker", "test", "topic">>, payload)
    IN CapabilityVector("maximum_packet_size_disconnect", "12-max-packet-broker",
         [GenLimits EXCEPT !.maximum_packet_size = 50],
         <<Send(1, publish("012345678"))>> \o Ping(1), publish("0123456789"), 149)

topic_alias_disconnect ==
    CapabilityVector("topic_alias_disconnect", "topic-alias-invalid",
        [GenLimits EXCEPT !.topic_alias_maximum = 1], <<>>,
        [GenPublish(<<"alias", "too-large">>, "blocked") EXCEPT !.alias = 2], 148)

receive_maximum_disconnect ==
    LET publish(level, mid) == Acked(GenPublish(<<"receive", "maximum", level>>, ""), 2, mid) IN
    [Vector("receive_maximum_disconnect", 1, With(<<1>>,
         ConnectV5(1, "receive-maximum-exceeded")
         \o <<Send(1, publish("one", 1)), Send(1, publish("two", 2)),
              Expect(1, GenAck("PUBREC", 1, 0)), Expect(1, GenDisconnect(147))>>))
       EXCEPT !.limits.receive_maximum = 1]

subscription_capability_disconnects ==
    LET case(name, limits, subscribe, reason) ==
            [CapabilityVector(name, "subscription-capability", limits, <<>>, subscribe, reason)
               EXCEPT !.ignore_errors = TRUE]
    IN {case("subscribe_wildcard", [GenLimits EXCEPT !.wildcard_subscription_available = FALSE],
             GenSubscribe(1, Filter(<<"wildcard", "+">>), 0), 162),
        case("subscribe_shared", [GenLimits EXCEPT !.shared_subscription_available = FALSE],
             GenSubscribe(1, Shared("workers", <<"shared", "topic">>), 0), 158),
        case("subscribe_identifier", [GenLimits EXCEPT !.subscription_identifier_available = FALSE],
             [GenSubscribe(1, Filter(<<"identifier", "topic">>), 0) EXCEPT !.subid = 7], 161)}

assigned_client_identifier ==
    Vector("assigned_client_identifier", 2, With(<<1, 2>>,
        <<Send(1, GenConnect("")), Assigned(1), Send(2, GenConnect("")), Assigned(2)>>
        \o Ping(1) \o <<Bye(1), Bye(2)>>))

server_keep_alive ==
    LET limits == [GenLimits EXCEPT !.server_keep_alive = 60] IN
    [Vector("server_keep_alive", 1, With(<<1>>,
         <<Send(1, [GenConnect("server-keep-alive") EXCEPT !.keepalive = 61]),
           Expect(1, ExpectedConnAck(FALSE, limits))>>
         \o Ping(1) \o <<Bye(1)>>))
       EXCEPT !.limits = limits]

retained_subscription_handling ==
    LET topic(level) == <<"02", "subpub", "send-retain", level>>
        retained(level) == Retained(GenPublish(topic(level), "message"))
        subscribe(level, mid, handling) ==
            Subscribes(1, [GenSubscribe(mid, Filter(topic(level)), 0)
                             EXCEPT !.options.retain_handling = handling])
        replayed(level) == <<Expect(1, retained(level))>>
        silent == <<Silence(1)>>
        twice(level, mid, handling, first, second) ==
            subscribe(level, mid, handling) \o first \o subscribe(level, mid, handling) \o second
    IN Vector("retained_subscription_handling", 1, With(<<1>>,
         ConnectV5(1, "02-subpub-qos0-send-retain")
         \o <<Send(1, retained("always")), Send(1, retained("new")), Send(1, retained("never"))>>
         \o twice("never", 532, 2, silent, silent)
         \o twice("new", 531, 1, replayed("new"), silent)
         \o twice("always", 530, 0, replayed("always"), replayed("always"))
         \o <<Bye(1)>>))

\* A publisher that subscribes to its own topic, and takes packets of at most
\* 40 bytes.
Small(id) == [GenConnect(id) EXCEPT !.maximum_packet_size = 40]

maximum_packet_size_qos1 ==
    LET topic == <<"12", "max", "publish", "qos1", "test", "topic">>
        format == [GenPublish(topic, "56")
                     EXCEPT !.props = <<[id |-> "payload_format_indicator", value |-> "1"]>>]
        fits == Acked(GenPublish(topic, "789"), 1, 3)
    IN Vector("maximum_packet_size_qos1", 1, With(<<1>>,
         ConnectWith(1, Small("12-max-publish-qos1"))
         \o Subscribes(1, GenSubscribe(1, Filter(topic), 1))
         \o Publishes1(1, GenPublish(topic, "1234"), 1, 0) \o Ping(1)
         \o Publishes1(1, format, 2, 0) \o Ping(1)
         \o <<Send(1, fits), ExpectUnordered(1, {GenAck("PUBACK", 3, 0), fits}),
              Send(1, GenAck("PUBACK", 3, 0)), Bye(1)>>))

maximum_packet_size_qos2 ==
    LET topic == <<"12", "max", "publish", "qos2", "test", "topic">>
        publish(payload, mid) ==
            <<Send(1, Acked(GenPublish(topic, payload), 2, mid)),
              Expect(1, GenAck("PUBREC", mid, 0))>>
        fits == Acked(GenPublish(topic, "789"), 2, 2)
    IN Vector("maximum_packet_size_qos2", 1, With(<<1>>,
         ConnectWith(1, Small("12-max-publish-qos2"))
         \o Subscribes(1, GenSubscribe(1, Filter(topic), 2))
         \o publish("1234", 1) \o Releases(1, 1) \o Ping(1)
         \o publish("789", 2)
         \o <<Send(1, GenAck("PUBREL", 2, 0)),
              ExpectUnordered(1, {GenAck("PUBCOMP", 2, 0), fits})>>
         \o Completes(1, 2) \o <<Bye(1)>>))

retained_repeated_lifecycle ==
    LET topic == <<"retain", "qos0", "repeated">>
        retained == Retained(GenPublish(topic, "retained message"))
        replay == Subscribe0(1, 16, topic) \o <<Expect(1, retained)>>
    IN Vector("retained_repeated_lifecycle", 1, With(<<1>>,
         ConnectV5(1, "retain-qos0-rep-test") \o <<Send(1, retained)>>
         \o replay \o Unsubscribes(1, 13, topic) \o replay \o Unsubscribes(1, 14, topic)
         \o <<Send(1, Retained(GenPublish(topic, "")))>>
         \o Subscribe0(1, 17, topic) \o Ping(1) \o <<Bye(1)>>))

retained_multilevel_clear ==
    LET topics == <<<<"1">>, <<"1", "2", "3", "4">>, <<"1", "2", "3", "4", "5", "6", "7">>>>
        retained(i) == Retained(GenPublish(topics[i], "retained message"))
        replay(mid, left) ==
            Subscribe0(1, mid, <<"#">>)
            \o <<ExpectUnordered(1, {retained(i) : i \in left})>>
            \o Unsubscribes(1, mid, <<"#">>)
        clear(mid, i, left) ==
            Publishes1(1, Retained(GenPublish(topics[i], "")), mid, NoMatchingSubscribers)
            \o replay(mid + 20, left)
    IN Vector("retained_multilevel_clear", 1, With(<<1>>,
         ConnectV5(1, "retain-clear-test")
         \o FlattenSeq([i \in 1..3 |-> Publishes1(1, retained(i), i, NoMatchingSubscribers)])
         \o replay(10, {1, 2, 3}) \o clear(20, 2, {1, 3}) \o clear(21, 3, {1})
         \o <<Bye(1)>>))

User(value) == [id |-> "user_property", value |-> value]

retained_publish_property_bundle ==
    LET topic == <<"retained", "property", "bundle">>
        bundle == Retained([GenPublish(topic, "message") EXCEPT !.props =
                     <<[id |-> "payload_format_indicator", value |-> "1"],
                       [id |-> "content_type", value |-> "plain/text"],
                       [id |-> "response_topic", value |-> "response/property/bundle"],
                       [id |-> "correlation_data", value |-> "2357289375902345"],
                       User("name=value")>>])
    IN Vector("retained_publish_property_bundle", 1, With(<<1>>,
         ConnectV5(1, "retained-property-bundle")
         \o Publishes1(1, bundle, 1, NoMatchingSubscribers)
         \o Subscribe0(1, 2, topic) \o <<Expect(1, bundle), Bye(1)>>))

retained_tombstone_properties ==
    LET topic == <<"retained", "tombstone", "properties">>
        publish(payload, state) == [GenPublish(topic, payload) EXCEPT !.props = <<User(state)>>]
        new == publish("new", "state=new")
    IN Vector("retained_tombstone_properties", 1, With(<<1>>,
         ConnectV5(1, "retained-tombstone")
         \o Publishes1(1, Retained(publish("old", "state=old")), 1, NoMatchingSubscribers)
         \o Publishes1(1, Retained(publish("", "state=deleted")), 2, NoMatchingSubscribers)
         \o Subscribe0(1, 3, topic) \o Ping(1)
         \o <<Send(1, Retained(Acked(new, 1, 4))),
              ExpectUnordered(1, {GenAck("PUBACK", 4, 0), new}), Bye(1)>>))

-----------------------------------------------------------------------------
(* Scenarios with several connections *)

duplicate_client_takeover ==
    LET connects(c) ==
            <<Send(c, GenConnect("take-over")), Expect(c, ExpectedConnAck(FALSE, GenLimits))>>
    IN Vector("duplicate_client_takeover", 2, With(<<1, 2>>,
         connects(1) \o connects(2) \o <<Expect(1, GenDisconnect(142))>>
         \o Ping(2) \o <<Bye(2)>>))

disconnect_session_expiry ==
    LET connect(c, present) ==
            <<Send(c, Persistent("session-expiry", 1)),
              Expect(c, ExpectedConnAck(present, GenLimits))>>
        disconnect(c, expiry) ==
            <<Send(c, [GenDisconnect(0) EXCEPT !.expiry = expiry]), Eof(c)>>
    IN [Vector("disconnect_session_expiry", 4,
          With(<<1>>, connect(1, FALSE) \o disconnect(1, 3)) \o <<Sleep(2)>>
          \o With(<<2>>, connect(2, TRUE) \o disconnect(2, 3)) \o <<Sleep(4)>>
          \o With(<<3>>, connect(3, FALSE) \o disconnect(3, 0))
          \o With(<<4>>, connect(4, FALSE) \o <<Bye(4)>>))
        EXCEPT !.slack = 1]

qos2_routes_at_pubrel ==
    LET message == GenPublish(<<"pub", "qos2", "reuse">>, "message") IN
    Vector("qos2_routes_at_pubrel", 2, With(<<1, 2>>,
        ConnectV5(1, "sub-qos2-test") \o Subscribes(1, GenSubscribe(1, Filter(message.topic), 2))
        \o ConnectV5(2, "pub-qos2-test")
        \o <<Send(2, Acked(message, 2, 312)), Expect(2, GenAck("PUBREC", 312, 0)), Silence(1)>>
        \o Releases(2, 312) \o <<Expect(1, Acked(message, 2, 1))>> \o Completes(1, 1)
        \o <<Bye(2), Bye(1)>>))

mixed_version_qos1 ==
    LET message == GenPublish(<<"mixed", "version", "qos1">>, "cross-version")
        v4(packet) == [packet EXCEPT !.v = 4]
    IN Vector("mixed_version_qos1", 2, With(<<1, 2>>,
         ConnectClient(1, "mixed-v3-sub", 4)
         \o <<Send(1, v4(GenSubscribe(1, Filter(message.topic), 1))), Expect(1, v4(GenSubAck(1, 1)))>>
         \o ConnectV5(2, "mixed-v5-pub") \o Publishes1(2, message, 77, 0)
         \o <<Expect(1, v4(Acked(message, 1, 1))), Send(1, v4(GenAck("PUBACK", 1, 0))), Bye(2),
              Send(1, v4(GenDisconnect(0)))>>))

persistent_no_local ==
    LET id == "persistent-subscription-test"
        message == GenPublish(<<"subpub", "nolocal">>, "message")
        subscribe(mid) == GenSubscribe(mid, Filter(message.topic), 1)
    IN Vector("persistent_no_local", 2,
         With(<<1>>, ConnectPersistentV5(1, id, FALSE)
              \o Subscribes(1, [subscribe(1) EXCEPT !.options.no_local = TRUE]) \o <<Bye(1)>>)
         \o With(<<2>>, ConnectPersistentV5(2, id, TRUE)
              \o Publishes1(2, message, 1, 0) \o <<Silence(2)>>
              \o Subscribes(2, subscribe(2))
              \o <<Send(2, Acked(message, 1, 3)),
                   ExpectUnordered(2, {GenAck("PUBACK", 3, 0), Acked(message, 1, 1)}),
                   Send(2, GenAck("PUBACK", 1, 0)), Bye(2)>>))

incoming_topic_alias ==
    LET message == GenPublish(<<"02", "subpub", "topic-alias", "alias">>, "message")
        aliased(publish) == [publish EXCEPT !.alias = 3]
    IN Vector("incoming_topic_alias", 2, With(<<1, 2>>,
         ConnectV5(1, "02-subpub-qos0-topic-alias")
         \o ConnectV5(2, "02-subpub-qos0-topic-alias-helper")
         \o <<Send(1, aliased(message))>> \o Subscribe0(2, 1, message.topic)
         \o <<Send(1, aliased(GenPublish(<<>>, "message"))), Expect(2, message), Bye(1), Bye(2)>>))

outgoing_topic_alias ==
    LET publish(payload) == GenPublish(<<"02", "b2c", "topic", "alias", "1">>, payload) IN
    Vector("outgoing_topic_alias", 2, With(<<1, 2>>,
        ConnectWith(1, [GenConnect("02-b2c-topic-alias") EXCEPT !.topic_alias_maximum = 2])
        \o ConnectV5(2, "02-b2c-topic-alias-helper") \o Subscribe0(1, 1, publish("").topic)
        \o <<Send(2, publish("first")), Expect(1, [publish("first") EXCEPT !.alias = 1]),
             Send(2, publish("second")), Expect(1, [GenPublish(<<>>, "second") EXCEPT !.alias = 1]),
             Bye(2), Bye(1)>>))

request_response_properties ==
    LET normal == <<"normal", "topic">>
        response == <<"response", "topic">>
        request == [GenPublish(normal, "2") EXCEPT !.props =
                      <<[id |-> "response_topic", value |-> "response/topic"],
                        [id |-> "correlation_data", value |-> "45vyvynq30q3vt4 nuy893b4v3"]>>]
        reply == GenPublish(response, "22")
    IN Vector("request_response_properties", 2, With(<<1, 2>>,
         ConnectV5(1, "response-client") \o ConnectV5(2, "request-client")
         \o Subscribe0(1, 1, normal) \o Subscribe0(2, 1, response)
         \o <<Send(2, request), Expect(1, request), Send(1, reply), Expect(2, reply),
              Bye(1), Bye(2)>>))

disconnect_with_will_properties ==
    LET props == <<User("key1=value1"), [id |-> "response_topic", value |-> "response/topic"],
                   [id |-> "correlation_data", value |-> "correlation-data"],
                   [id |-> "payload_format_indicator", value |-> "1"],
                   [id |-> "content_type", value |-> "text/plain"], User("key2=value2")>>
        will == [GenPublish(<<"will", "properties">>, "will payload") EXCEPT !.props = props]
        connect == [GenConnect("will-property-source") EXCEPT !.will = [will EXCEPT !.props =
                      <<[id |-> "will_delay_interval", value |-> "0"]>> \o props]]
    IN Vector("disconnect_with_will_properties", 2, With(<<1, 2>>,
         ConnectV5(1, "will-property-subscriber") \o Subscribe0(1, 1, will.topic)
         \o <<Send(2, connect), Accepted(2, {FALSE}, {0}), Send(2, GenDisconnect(4)),
              Expect(1, will), Bye(1)>>))

retained_message_expiry ==
    LET expired == Retained(GenPublish(<<"subpub", "expired">>, "message1"))
        kept == Retained(GenPublish(<<"subpub", "kept">>, "message2"))
        in(seconds) == [expired EXCEPT !.expiry = seconds]
        replayed(c) == Subscribe0(c, 2, kept.topic) \o <<Expect(c, kept), Bye(c)>>
    IN [Vector("retained_message_expiry", 3,
          With(<<1>>, ConnectV5(1, "expiry-helper")
               \o Publishes1(1, in(2), 1, NoMatchingSubscribers)
               \o Publishes1(1, kept, 2, NoMatchingSubscribers) \o <<Bye(1)>>)
          \o With(<<2>>, ConnectV5(2, "expiry-immediate") \o Subscribe0(2, 1, expired.topic)
               \o <<Expects(2, {{in(2), in(1)}})>> \o replayed(2))
          \o <<Sleep(3)>>
          \o With(<<3>>, ConnectV5(3, "expiry-late") \o Subscribe0(3, 1, expired.topic)
               \o replayed(3)))
        EXCEPT !.slack = 3]

qos2_receive_maximum_one ==
    LET topic == <<"subpub", "qos2", "receive", "maximum1">>
        publish(mid) == Acked(GenPublish(topic, IF mid = 1 THEN "message1" ELSE "message2"), 2, mid)
        release(mid) ==
            <<Send(2, publish(mid)), Expect(2, GenAck("PUBREC", mid, 0))>> \o Releases(2, mid)
    IN Vector("qos2_receive_maximum_one", 2, With(<<1, 2>>,
         ConnectWith(1, [GenConnect("subpub-qos2-receive-max1") EXCEPT !.receive_maximum = 1])
         \o Subscribes(1, GenSubscribe(1, Filter(topic), 2))
         \o ConnectV5(2, "subpub-qos2-recv-max1-helper") \o release(1) \o release(2)
         \o <<Expect(1, publish(1)), Silence(1)>> \o Completes(1, 1)
         \o <<Expect(1, publish(2))>> \o Completes(1, 2)
         \o <<Bye(2), Bye(1)>>))

shared_subscription_rotation ==
    LET topic == <<"02A", "share", "test">>
        id == <<"02-shared-client1", "02-shared-client2", "02-shared-client3",
                "02-shared-client4", "02-shared-client5">>
        subscribe(c, filter) == Subscribes(c, GenSubscribe(1, filter, 0))
        one == Shared("one", topic)
        two == Shared("two", topic)
        publish(payload, receivers) ==
            <<Send(1, GenPublish(topic, payload))>>
            \o [i \in DOMAIN receivers |-> Expect(receivers[i], GenPublish(topic, payload))]
    IN Vector("shared_subscription_rotation", 5,
         [c \in 1..5 |-> Open(c)] \o FlattenSeq([c \in 1..5 |-> ConnectV5(c, id[c])])
         \o subscribe(1, Filter(<<"02A", "#">>)) \o subscribe(2, one) \o subscribe(3, one)
         \o subscribe(3, two) \o subscribe(4, two) \o subscribe(5, one)
         \o publish("message1", <<1, 2, 3>>) \o publish("message2", <<1, 3, 4>>)
         \o publish("message3", <<1, 3, 5>>)
         \o [c \in 1..5 |-> Bye(c)] \o [c \in 1..5 |-> Close(c)])

\* The subscriber of a QoS 2 vector, and the delivery it takes.
SubscriberQoS2(id, topic) == ConnectV5(1, id) \o Subscribes(1, GenSubscribe(1, Filter(topic), 2))
DeliversQoS2(message) == <<Expect(1, Acked(message, 2, 1))>> \o Completes(1, 1)

qos2_duplicate_publish ==
    LET message == GenPublish(<<"03", "c2b", "qos2", "duplicate", "test">>, "original")
        publish(dup) == <<Send(2, [Acked(message, 2, 7) EXCEPT !.dup = dup]),
                          Expect(2, GenAck("PUBREC", 7, 0)), Silence(1)>>
    IN Vector("qos2_duplicate_publish", 2, With(<<1, 2>>,
         SubscriberQoS2("qos2-dup-subscriber", message.topic) \o ConnectV5(2, "qos2-dup-publisher")
         \o publish(FALSE) \o publish(TRUE) \o Releases(2, 7) \o DeliversQoS2(message)
         \o <<Bye(2), Bye(1)>>))

qos2_repeated_pubrel ==
    LET message == GenPublish(<<"qos2", "repeated", "pubrel">>, "once") IN
    Vector("qos2_repeated_pubrel", 2, With(<<1, 2>>,
        SubscriberQoS2("repeat-rel-sub", message.topic) \o ConnectV5(2, "repeat-rel-pub")
        \o <<Send(2, Acked(message, 2, 9)), Expect(2, GenAck("PUBREC", 9, 0))>>
        \o Releases(2, 9) \o DeliversQoS2(message) \o Releases(2, 9) \o Releases(2, 77)
        \o <<Silence(1), Bye(2), Bye(1)>>))

reject_publish_subscription_identifier ==
    LET illegal == [GenPublish(<<"illegal", "subid">>, "bad") EXCEPT !.subids = <<7>>] IN
    [Vector("reject_publish_subscription_identifier", 2,
         With(<<1>>, ConnectV5(1, "illegal-publish-subid") \o <<Send(1, illegal), Ended(1)>>)
         \o With(<<2>>, ConnectV5(2, "after-illegal-subid") \o Ping(2) \o <<Bye(2)>>))
       EXCEPT !.ignore_errors = TRUE]

unsubscribe_reason_codes ==
    LET topic == <<"unsubscribe", "reason", "existing">>
        missing == <<"unsubscribe", "reason", "missing">>
    IN Vector("unsubscribe_reason_codes", 2, With(<<1, 2>>,
         ConnectV5(1, "unsubscribe-reasons") \o Subscribe0(1, 1, topic)
         \o <<Send(1, GenUnsubscribe(2, <<Filter(topic), Filter(missing)>>)),
              Expect(1, GenUnsubAck(2, <<0, 17>>))>>
         \o ConnectV5(2, "unsubscribe-publisher")
         \o <<Send(2, GenPublish(topic, "not-routed"))>> \o Ping(1)
         \o <<Bye(2), Bye(1)>>))

retain_as_published_live ==
    LET live == GenPublish(<<"retain", "as", "published", "live">>, "retained-live")
        subscribe(c, preserve) ==
            Subscribes(c, [GenSubscribe(1, Filter(live.topic), 0)
                             EXCEPT !.options.retain_as_published = preserve])
    IN Vector("retain_as_published_live", 3, With(<<1, 2, 3>>,
         ConnectV5(1, "rap-clear") \o ConnectV5(2, "rap-preserve")
         \o subscribe(1, FALSE) \o subscribe(2, TRUE)
         \o ConnectV5(3, "rap-publisher") \o Publishes1(3, Retained(live), 1, 0)
         \o <<Expect(1, live), Expect(2, Retained(live)), Bye(3), Bye(1), Bye(2)>>))

retained_replacement ==
    LET value(payload, version) ==
            Retained([GenPublish(<<"retained", "replacement">>, payload)
                        EXCEPT !.props = <<User(version)>>])
        old == value("old-value", "version=old")
        new == value("new-value", "version=new")
    IN Vector("retained_replacement", 2, With(<<1, 2>>,
         ConnectV5(1, "retained-replace-pub")
         \o Publishes1(1, old, 1, NoMatchingSubscribers)
         \o Publishes1(1, new, 2, NoMatchingSubscribers)
         \o ConnectV5(2, "retained-replace-sub") \o Subscribe0(2, 1, new.topic)
         \o <<Expect(2, new)>> \o Ping(2) \o <<Bye(1), Bye(2)>>))

\* main runs them all, each against a broker process of its own.
Vectors ==
    publish_capability_disconnects \cup subscription_capability_disconnects \cup
    {no_matching_subscribers, subscription_identifiers, multiple_subscription_identifiers,
     hostile_initial_packets, maximum_packet_size_disconnect, topic_alias_disconnect,
     receive_maximum_disconnect, qos2_routes_at_pubrel, mixed_version_qos1, persistent_no_local,
     retained_subscription_handling, incoming_topic_alias, outgoing_topic_alias,
     request_response_properties, disconnect_with_will_properties, retained_message_expiry,
     qos2_receive_maximum_one, maximum_packet_size_qos1, maximum_packet_size_qos2,
     retained_repeated_lifecycle, retained_multilevel_clear, shared_subscription_rotation,
     qos2_duplicate_publish, qos2_repeated_pubrel, reject_publish_subscription_identifier,
     unsubscribe_reason_codes, retain_as_published_live, retained_replacement,
     retained_publish_property_bundle, retained_tombstone_properties,
     assigned_client_identifier, server_keep_alive, duplicate_client_takeover,
     disconnect_session_expiry}

=============================================================================
