--------------------------- MODULE MqttConnection ---------------------------
(***************************************************************************)
(* One MQTT network connection, both ends of which are a Connection        *)
(* (src/mqtt/runtime.zig): the CONNECT/CONNACK negotiation with enhanced   *)
(* authentication, the packet identifiers and windows of both directions,  *)
(* topic aliases, and re-authentication.  mends maps "client" and "server" *)
(* to their state, mwire maps each to the packets on their way to it (the  *)
(* transport is reliable and ordered), and mfault is the first protocol    *)
(* error an end met, after which the connection is over.                   *)
(***************************************************************************)
EXTENDS Integers, Sequences, FiniteSets

CONSTANTS MqttTopics,         \* topic names
          Protocols,          \* "v5", "v3_1_1"
          MqttMaxPacketId,    \* 65535 in the code
          AliasSlots,         \* topic_alias_slots (16)
          Windows,            \* values of max_outgoing_inflight
          AliasMaximums,      \* values of topic_alias_maximum
          MaxPublishes,       \* bound on the PUBLISH packets of each end
          MaxOnWire,          \* bound on the packets in one direction
          MaxAuthRounds,      \* bound on the AUTH challenges of an exchange
          NoTopic

VARIABLES mends, mwire, mfault

mqttVars == <<mends, mwire, mfault>>

Ends == {"client", "server"}
Other(x) == IF x = "client" THEN "server" ELSE "client"
MqttIds == 1..MqttMaxPacketId
Lesser(x, y) == IF x <= y THEN x ELSE y

Packet(type, fields) == [type |-> type, f |-> fields]

-----------------------------------------------------------------------------
(* Connection *)

NewConnection(protocol, window, alias_maximum) ==
    [state |-> "new", protocol |-> protocol, next_packet_id |-> 1,
     outgoing_inflight |-> 0, max_outgoing_inflight |-> window,
     incoming_inflight |-> 0, max_incoming_inflight |-> window,
     incoming_topic_alias_maximum |-> Lesser(alias_maximum, AliasSlots),
     peer_topic_alias_maximum |-> 0,
     incoming_qos1 |-> {}, incoming_qos2 |-> {},
     outgoing_qos1 |-> {}, outgoing_qos2 |-> {}, outgoing_qos2_pubrel |-> {},
     incoming_topic_aliases |-> [i \in 1..AliasSlots |-> NoTopic],
     outgoing_topic_aliases |-> [i \in 1..AliasSlots |-> NoTopic],
     phase |-> "inactive", method |-> FALSE, authorized |-> FALSE,
     rounds |-> 0, sent |-> 0]

\* ensurePacketAllowed (src/mqtt/runtime/auth.zig).
EnsurePacketAllowed(c, type) ==
    CASE c.phase \in {"inactive", "active"} -> TRUE
      [] c.phase = "authenticating" -> type \in {"connect", "connack", "auth", "disconnect"}
      [] c.phase = "reauthenticating" -> type \in {"auth", "disconnect"}

\* nextPacketId.
NextPacketId(id) == (id % MqttMaxPacketId) + 1

InUse(c) == c.outgoing_qos1 \cup c.outgoing_qos2 \cup c.outgoing_qos2_pubrel

\* The first identifier after next_packet_id that reserveOutgoingPublish
\* finds in none of its three sets.
FreeId(c) ==
    LET distance(id) == (id - c.next_packet_id) % MqttMaxPacketId
        free == MqttIds \ InUse(c)
    IN CHOOSE id \in free : \A other \in free : distance(id) <= distance(other)

CanReserve(c) == c.outgoing_inflight < c.max_outgoing_inflight /\ InUse(c) # MqttIds

\* reserveOutgoingPublish.
ReserveOutgoingPublish(c, qos) ==
    LET id == FreeId(c) IN
    [c EXCEPT !.next_packet_id = NextPacketId(id),
              !.outgoing_qos1 = IF qos = 1 THEN @ \cup {id} ELSE @,
              !.outgoing_qos2 = IF qos = 2 THEN @ \cup {id} ELSE @,
              !.outgoing_inflight = @ + 1]

\* releaseOutgoingPublish.
ReleaseOutgoingPublish(c, id, qos) ==
    IF qos = 1 THEN
        [c EXCEPT !.outgoing_qos1 = @ \ {id},
                  !.outgoing_inflight = IF id \in c.outgoing_qos1 THEN @ - 1 ELSE @]
    ELSE IF id \in c.outgoing_qos2_pubrel THEN
        [c EXCEPT !.outgoing_qos2_pubrel = @ \ {id}, !.outgoing_inflight = @ - 1]
    ELSE
        [c EXCEPT !.outgoing_qos2 = @ \ {id},
                  !.outgoing_inflight = IF id \in c.outgoing_qos2 THEN @ - 1 ELSE @]

\* completeIncomingPublish.
CompleteIncomingPublish(c, type, id) ==
    IF type = "puback"
    THEN [c EXCEPT !.incoming_qos1 = @ \ {id},
                   !.incoming_inflight = IF id \in c.incoming_qos1 THEN @ - 1 ELSE @]
    ELSE [c EXCEPT !.incoming_qos2 = @ \ {id},
                   !.incoming_inflight = IF id \in c.incoming_qos2 THEN @ - 1 ELSE @]

\* Mutant of CompleteIncomingPubRec: a refused QoS 2 message keeps its slot.
CompleteIncomingPubRecMutant(c, id, refused) == c

\* completeIncomingPubRec: a refusal ends the handshake.
CompleteIncomingPubRec(c, id, refused) ==
    IF refused THEN CompleteIncomingPublish(c, "pubcomp", id) ELSE c

\* recordIncomingPublish: "" when accepted.
RecordError(c, qos, id) ==
    LET set   == IF qos = 1 THEN c.incoming_qos1 ELSE c.incoming_qos2
        other == IF qos = 1 THEN c.incoming_qos2 ELSE c.incoming_qos1
    IN CASE qos = 0 -> ""
         [] qos # 0 /\ id \in other -> "InvalidPacketIdentifier"
         [] qos # 0 /\ id \notin other \cup set
              /\ c.incoming_inflight >= c.max_incoming_inflight -> "ReceiveMaximumExceeded"
         [] OTHER -> ""

RecordIncomingPublish(c, qos, id) ==
    LET new == id \notin c.incoming_qos1 \cup c.incoming_qos2 IN
    IF qos = 0 THEN c
    ELSE [c EXCEPT !.incoming_qos1 = IF qos = 1 THEN @ \cup {id} ELSE @,
                   !.incoming_qos2 = IF qos = 2 THEN @ \cup {id} ELSE @,
                   !.incoming_inflight = IF new THEN @ + 1 ELSE @]

\* The aliases an end may use: the peer's maximum and the table bound them.
UsableAliases(c) == 1..Lesser(c.peer_topic_alias_maximum, AliasSlots)

\* prepareAutomaticTopicAlias: [topic, alias] to send, alias 0 for none.
PrepareAutomaticTopicAlias(c, topic) ==
    LET known == {a \in UsableAliases(c) : c.outgoing_topic_aliases[a] = topic}
        empty == {a \in UsableAliases(c) : c.outgoing_topic_aliases[a] = NoTopic}
        least(S) == CHOOSE a \in S : \A b \in S : a <= b
    IN CASE c.protocol = "v5" /\ known # {} -> [topic |-> NoTopic, alias |-> least(known)]
         [] c.protocol = "v5" /\ known = {} /\ empty # {} -> [topic |-> topic, alias |-> least(empty)]
         [] OTHER -> [topic |-> topic, alias |-> 0]

\* rememberOutgoingTopicAlias.
RememberOutgoingTopicAlias(c, sent) ==
    IF sent.alias = 0 \/ sent.topic = NoTopic THEN c
    ELSE [c EXCEPT !.outgoing_topic_aliases[sent.alias] = sent.topic]

\* applyIncomingTopicAlias: the error, the topic, and the table.
AliasError(c, p) ==
    CASE p.alias = 0 -> ""
      [] p.alias > c.incoming_topic_alias_maximum \/ p.alias > AliasSlots -> "TopicAliasInvalid"
      [] p.alias # 0 /\ p.topic = NoTopic /\ c.incoming_topic_aliases[p.alias] = NoTopic ->
           "InvalidTopic"
      [] OTHER -> ""

ResolvedTopic(c, p) == IF p.topic # NoTopic THEN p.topic ELSE c.incoming_topic_aliases[p.alias]

ApplyIncomingTopicAlias(c, p) ==
    IF p.alias = 0 \/ p.topic = NoTopic THEN c
    ELSE [c EXCEPT !.incoming_topic_aliases[p.alias] = p.topic]

-----------------------------------------------------------------------------
(* Steps *)

Fine == mfault = ""

\* x takes the next packet off the wire, which is of the given type.
Arrives(x, type) == Fine /\ mwire[x] # <<>> /\ Head(mwire[x]).type = type

Field(x) == Head(mwire[x]).f

\* finishReadPacket lets no other packet through while authenticating.
Readable(x) == EnsurePacketAllowed(mends[x], Head(mwire[x]).type)

\* x becomes c, the packet read is gone, and x sends the packets of out.
Step(x, c, read, out) ==
    /\ Len(mwire[Other(x)]) + Len(out) <= MaxOnWire
    /\ mends' = [mends EXCEPT ![x] = c]
    /\ mwire' = [mwire EXCEPT ![x] = IF read THEN Tail(@) ELSE @,
                              ![Other(x)] = @ \o out]
    /\ UNCHANGED mfault

Fail(error) == mfault' = error /\ UNCHANGED <<mends, mwire>>

\* Two ends configured with these windows and alias maximums.
MqttStart(protocol, windows, aliases) ==
    /\ mends = [x \in Ends |-> NewConnection(protocol, windows[x], aliases[x])]
    /\ mwire = [x \in Ends |-> <<>>]
    /\ mfault = ""

MqttInit ==
    \E protocol \in Protocols, w \in [Ends -> Windows], a \in [Ends -> AliasMaximums] :
        MqttStart(protocol, w, a)

\* beginConnect (src/mqtt/runtime/auth.zig).
BeginConnect(c, method) ==
    [c EXCEPT !.method = method, !.phase = IF method THEN "authenticating" ELSE "active"]

\* establishClient: CONNECT with the client's limits.
EstablishClient(method) ==
    LET c == mends["client"] IN
    /\ Fine /\ c.state = "new"
    /\ method => c.protocol = "v5"
    /\ Step("client", [BeginConnect(c, method) EXCEPT !.state = "connecting"], FALSE,
            <<Packet("connect", [receive_maximum |-> c.max_incoming_inflight,
                                 topic_alias_maximum |-> c.incoming_topic_alias_maximum,
                                 method |-> method])>>)

\* What an end learns from the limits in CONNECT or CONNACK (MQTT 5 only).
Negotiated(c, f) ==
    IF c.protocol # "v5" THEN c
    ELSE [c EXCEPT !.max_outgoing_inflight = Lesser(@, f.receive_maximum),
                   !.peer_topic_alias_maximum = f.topic_alias_maximum]

\* acceptPending.
AcceptPending ==
    LET s == mends["server"] IN
    /\ Arrives("server", "connect")
    /\ Step("server", [BeginConnect(Negotiated(s, Field("server")), Field("server").method)
                          EXCEPT !.state = "pending"], TRUE, <<>>)

\* challengeAuthentication.
ChallengeAuthentication ==
    LET s == mends["server"] IN
    /\ Fine /\ s.state = "pending" /\ s.method /\ s.rounds < MaxAuthRounds
    /\ Step("server", [s EXCEPT !.rounds = @ + 1], FALSE, <<Packet("auth", [reason |-> "continue"])>>)

\* establishClient answers a challenge (receiveInitialAuth).
AnswerChallenge ==
    LET c == mends["client"] IN
    /\ Arrives("client", "auth")
    /\ c.state = "connecting" /\ c.phase = "authenticating"
    /\ Step("client", c, TRUE, <<Packet("auth", [reason |-> "continue"])>>)

\* receiveAuthentication.
ReceiveAuthentication ==
    LET s == mends["server"] IN
    /\ Arrives("server", "auth")
    /\ s.state = "pending" /\ s.phase = "authenticating"
    /\ Step("server", [s EXCEPT !.rounds = 0], TRUE, <<>>)

\* authorizeAuthentication, once no challenge is open.
AuthorizeAuthentication ==
    LET s == mends["server"] IN
    /\ Fine /\ s.state = "pending" /\ s.phase = "authenticating"
    /\ ~s.authorized /\ s.rounds = 0
    /\ Step("server", [s EXCEPT !.authorized = TRUE], FALSE, <<>>)

\* finish: CONNACK with the server's limits (writeConnAck), or a refusal.
Finish(accepted) ==
    LET s == mends["server"] IN
    /\ Fine /\ s.state = "pending" /\ s.rounds = 0
    /\ accepted /\ s.method => s.authorized
    /\ Step("server", [s EXCEPT !.state = IF accepted THEN "open" ELSE "closed",
                                !.phase = IF accepted THEN "active" ELSE @], FALSE,
            <<Packet("connack", [receive_maximum |-> s.max_incoming_inflight,
                                 topic_alias_maximum |-> s.incoming_topic_alias_maximum,
                                 accepted |-> accepted])>>)

\* establishClient takes the CONNACK (receiveInitialConnAck, applyConnAckNegotiation).
ConnAck ==
    LET c == mends["client"] IN
    /\ Arrives("client", "connack")
    /\ IF Field("client").accepted
       THEN Step("client", [Negotiated(c, Field("client")) EXCEPT !.state = "open", !.phase = "active"],
                 TRUE, <<>>)
       ELSE Step("client", [c EXCEPT !.state = "closed"], TRUE, <<>>)

\* writePublish with the alias that prepareAutomaticTopicAlias proposes; real
\* is the topic meant.
WritePublish(x, topic, qos) ==
    LET c      == mends[x]
        sent   == PrepareAutomaticTopicAlias(c, topic)
        booked == IF qos = 0 THEN c ELSE ReserveOutgoingPublish(c, qos)
        id     == IF qos = 0 THEN 0 ELSE FreeId(c)
    IN /\ Fine /\ c.state = "open" /\ c.phase = "active" /\ c.sent < MaxPublishes
       /\ qos # 0 => CanReserve(c)
       /\ Step(x, [RememberOutgoingTopicAlias(booked, sent) EXCEPT !.sent = @ + 1], FALSE,
               <<Packet("publish", [id |-> id, qos |-> qos, topic |-> sent.topic,
                                    alias |-> sent.alias, real |-> topic])>>)

\* The packet is larger than the peer's maximum: the identifier is released,
\* and no alias is remembered.
WriteTooLarge(x, qos) ==
    LET c == mends[x] IN
    /\ Fine /\ c.state = "open" /\ c.phase = "active" /\ c.sent < MaxPublishes
    /\ CanReserve(c)
    /\ Step(x, [ReleaseOutgoingPublish(ReserveOutgoingPublish(c, qos), FreeId(c), qos)
                  EXCEPT !.sent = @ + 1], FALSE, <<>>)

\* writePubAck and writePubRec: the acknowledgement is written, the receive
\* slot released where the handshake ends.
Answer(c, f, refused) ==
    CASE f.qos = 0 -> [c |-> c, out |-> <<>>]
      [] f.qos = 1 -> [c   |-> CompleteIncomingPublish(c, "puback", f.id),
                       out |-> <<Packet("puback", [id |-> f.id])>>]
      [] f.qos = 2 -> [c   |-> CompleteIncomingPubRec(c, f.id, refused),
                       out |-> <<Packet("pubrec", [id |-> f.id, refused |-> refused])>>]

\* readBrokerEvent on a PUBLISH, and the answer; QoS 2 may be refused.
ReadPublish(x, refused) ==
    LET c     == mends[x]
        f     == Field(x)
        error == IF AliasError(c, f) # "" THEN AliasError(c, f)
                 ELSE RecordError(ApplyIncomingTopicAlias(c, f), f.qos, f.id)
        got   == Answer(RecordIncomingPublish(ApplyIncomingTopicAlias(c, f), f.qos, f.id), f, refused)
    IN /\ Arrives(x, "publish") /\ Readable(x)
       /\ refused => f.qos = 2
       /\ IF error # "" THEN Fail(error)
          ELSE IF ResolvedTopic(c, f) # f.real THEN Fail("WrongTopic")
          ELSE Step(x, got.c, TRUE, got.out)

\* applyPubAck.
ApplyPubAck(x) ==
    LET c == mends[x]
        f == Field(x)
    IN /\ Arrives(x, "puback") /\ Readable(x)
       /\ IF f.id \in c.outgoing_qos1
          THEN Step(x, ReleaseOutgoingPublish(c, f.id, 1), TRUE, <<>>)
          ELSE Fail("UnexpectedPacket")

\* applyPubRec: PUBREL is written before the identifier moves on; a refusal
\* releases it, and the connection goes on (PublishRefused is the caller's).
ApplyPubRec(x) ==
    LET c == mends[x]
        f == Field(x)
    IN /\ Arrives(x, "pubrec") /\ Readable(x)
       /\ IF f.id \notin c.outgoing_qos2 THEN Fail("UnexpectedPacket")
          ELSE IF f.refused THEN Step(x, ReleaseOutgoingPublish(c, f.id, 2), TRUE, <<>>)
          ELSE Step(x, [c EXCEPT !.outgoing_qos2 = @ \ {f.id},
                                 !.outgoing_qos2_pubrel = @ \cup {f.id}],
                    TRUE, <<Packet("pubrel", [id |-> f.id])>>)

\* readPubRel and writePubComp.
AnswerPubRel(x) ==
    LET c == mends[x]
        f == Field(x)
    IN /\ Arrives(x, "pubrel") /\ Readable(x)
       /\ IF f.id \in c.incoming_qos2
          THEN Step(x, CompleteIncomingPublish(c, "pubcomp", f.id), TRUE,
                    <<Packet("pubcomp", [id |-> f.id])>>)
          ELSE Fail("InvalidPacketIdentifier")

\* applyPubComp.
ApplyPubComp(x) ==
    LET c == mends[x]
        f == Field(x)
    IN /\ Arrives(x, "pubcomp") /\ Readable(x)
       /\ IF f.id \in c.outgoing_qos2_pubrel
          THEN Step(x, ReleaseOutgoingPublish(c, f.id, 2), TRUE, <<>>)
          ELSE Fail("UnexpectedPacket")

\* beginReauthentication, by the client.
BeginReauthentication ==
    LET c == mends["client"] IN
    /\ Fine /\ c.state = "open" /\ c.phase = "active" /\ c.method
    /\ c.rounds < MaxAuthRounds
    /\ Step("client", [c EXCEPT !.phase = "reauthenticating", !.rounds = @ + 1], FALSE,
            <<Packet("auth", [reason |-> "reauthenticate"])>>)

\* applyAuthenticationEvent, and the handler's continueReauthentication: the
\* server continues the exchange or completes it.
ServerAuth(reason) ==
    LET s == mends["server"] IN
    /\ Arrives("server", "auth") /\ s.state = "open"
    /\ Field("server").reason = "reauthenticate" => s.phase = "active"
    /\ Field("server").reason = "continue" => s.phase = "reauthenticating" /\ reason = "success"
    /\ Step("server",
            [s EXCEPT !.phase = IF reason = "success" THEN "active" ELSE "reauthenticating"],
            TRUE, <<Packet("auth", [reason |-> reason])>>)

\* receiveReauthentication, and the client continues where asked to.
ClientReauth ==
    LET c == mends["client"] IN
    /\ Arrives("client", "auth") /\ c.state = "open" /\ c.phase = "reauthenticating"
    /\ IF Field("client").reason = "success"
       THEN Step("client", [c EXCEPT !.phase = "active"], TRUE, <<>>)
       ELSE Step("client", c, TRUE, <<Packet("auth", [reason |-> "continue"])>>)

\* finishReadPacket: another packet arrives while x authenticates, and x
\* closes the connection with a protocol error.
AuthenticationInProgress(x) ==
    /\ Fine /\ mwire[x] # <<>> /\ ~Readable(x)
    /\ Fail("AuthenticationInProgress")

MqttNext ==
    \/ \E method \in BOOLEAN : EstablishClient(method)
    \/ AcceptPending \/ ChallengeAuthentication \/ AnswerChallenge
    \/ ReceiveAuthentication \/ AuthorizeAuthentication \/ ConnAck
    \/ \E accepted \in BOOLEAN : Finish(accepted)
    \/ BeginReauthentication \/ ClientReauth
    \/ \E reason \in {"continue", "success"} : ServerAuth(reason)
    \/ \E x \in Ends :
         \/ \E topic \in MqttTopics, qos \in 0..2 : WritePublish(x, topic, qos)
         \/ \E qos \in 1..2 : WriteTooLarge(x, qos)
         \/ \E refused \in BOOLEAN : ReadPublish(x, refused)
         \/ ApplyPubAck(x) \/ ApplyPubRec(x) \/ AnswerPubRel(x) \/ ApplyPubComp(x)
         \/ AuthenticationInProgress(x)

MqttSpec == MqttInit /\ [][MqttNext]_mqttVars

-----------------------------------------------------------------------------

\* The counters agree with the identifier sets, and stay within the limits.
WindowsExact ==
    \A x \in Ends :
        LET c == mends[x] IN
        /\ c.outgoing_inflight = Cardinality(c.outgoing_qos1) + Cardinality(c.outgoing_qos2)
                                   + Cardinality(c.outgoing_qos2_pubrel)
        /\ c.incoming_inflight = Cardinality(c.incoming_qos1) + Cardinality(c.incoming_qos2)
        /\ c.outgoing_inflight <= c.max_outgoing_inflight

\* Two Connections that talk to each other never close the connection for a
\* protocol error: the windows, identifiers and aliases each end negotiated,
\* reserved and remembered are those the other end expects, and an alias means
\* the topic it was sent for.  Two exceptions the code makes: traffic that
\* crosses a re-authentication, and MQTT 3.1.1, which cannot negotiate the
\* window that recordIncomingPublish enforces all the same.
PeersAgree ==
    /\ mfault \in {"", "AuthenticationInProgress", "ReceiveMaximumExceeded"}
    /\ mfault = "AuthenticationInProgress" =>
         \E x \in Ends : mends[x].phase = "reauthenticating"
    /\ mfault = "ReceiveMaximumExceeded" => mends["server"].protocol = "v3_1_1"
    /\ WindowsExact

=============================================================================
