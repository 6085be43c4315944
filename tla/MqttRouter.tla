----------------------------- MODULE MqttRouter -----------------------------
(***************************************************************************)
(* The topic-filter trie of the broker (src/mqtt/router.zig).              *)
(*                                                                         *)
(* router is [nodes, entries, groups, strategy].  entries and groups keep  *)
(* their places for ever, a removed one leaves NoRoute or NoGroup behind.  *)
(* A filter is [group, levels]: the share name of "$share/<group>/..." or  *)
(* NoShare, and the levels of the nested filter.  Places count from 1, and *)
(* 0 stands for null.  subscribed is what the clients asked for.           *)
(***************************************************************************)
EXTENDS Integers, Sequences, FiniteSets, TLC

LOCAL INSTANCE SequencesExt

CONSTANTS Subscribers,  \* subscriber ids
          Filters,      \* the filters subscribed to
          Topics,       \* the topics published to, sequences of levels
          SysLevels,    \* levels that start with '$'
          NoLocal,      \* the filters subscribed to with No Local set or not
          Strategies,   \* SharedSubscriptionStrategy
          MaxEntries,   \* bound on the entries ever made
          TrieWidth,    \* capacity of the frontier array (128)
          Score,        \* rendezvousScore, by topic and subscriber
          NoShare, NoRoute, NoGroup

VARIABLES router, subscribed

routerVars == <<router, subscribed>>

Residents(table) == {i \in DOMAIN table : table[i] # NoRoute /\ table[i] # NoGroup}

IsSys(levels) == levels[1] \in SysLevels

-----------------------------------------------------------------------------
(* The trie *)

EmptyNode == [literal_children |-> <<>>, single_wildcard_child |-> 0,
              terminal_entries |-> <<>>, multi_wildcard_entries |-> <<>>]

FindLiteralChild(node, level) ==
    IF level \in DOMAIN node.literal_children THEN node.literal_children[level] ELSE 0

ChildFor(node, level) ==
    IF level = "+" THEN node.single_wildcard_child ELSE FindLiteralChild(node, level)

AddChild(nodes, at, level) ==
    LET child == Len(nodes) + 1
        node  == nodes[at]
    IN Append([nodes EXCEPT ![at] =
                  IF level = "+" THEN [node EXCEPT !.single_wildcard_child = child]
                  ELSE [node EXCEPT !.literal_children = @ @@ (level :> child)]],
              EmptyNode)

\* insertFilterPath: [nodes, at, multi_level] after the levels of the filter.
InsertFilterPath(nodes, levels) ==
    LET path[i \in 0..Len(levels)] ==
            IF i = 0 THEN [nodes |-> nodes, at |-> 1, multi_level |-> FALSE]
            ELSE LET p     == path[i - 1]
                     child == ChildFor(p.nodes[p.at], levels[i])
                 IN CASE levels[i] = "#" -> [p EXCEPT !.multi_level = TRUE]
                      [] levels[i] # "#" /\ child # 0 -> [p EXCEPT !.at = child]
                      [] OTHER -> [p EXCEPT !.nodes = AddChild(p.nodes, p.at, levels[i]),
                                            !.at = Len(p.nodes) + 1]
    IN path[Len(levels)]

\* findFilterPath, of a filter some entry was inserted with.
FindFilterPath(nodes, levels) ==
    LET at[i \in 0..Len(levels)] ==
            IF i = 0 THEN 1
            ELSE IF levels[i] = "#" THEN at[i - 1]
            ELSE ChildFor(nodes[at[i - 1]], levels[i])
    IN [at |-> at[Len(levels)], multi_level |-> levels[Len(levels)] = "#"]

Route(node, multi_level) ==
    IF multi_level THEN node.multi_wildcard_entries ELSE node.terminal_entries

WithRoute(nodes, path, entries) ==
    IF path.multi_level THEN [nodes EXCEPT ![path.at].multi_wildcard_entries = entries]
                        ELSE [nodes EXCEPT ![path.at].terminal_entries = entries]

AppendRouteEntry(nodes, path, e) ==
    WithRoute(nodes, path, Append(Route(nodes[path.at], path.multi_level), e))

PlaceOf(values, target) == CHOOSE i \in DOMAIN values : values[i] = target

\* removeIndexValueUnordered: the last value fills the gap.
RemoveIndexValueUnordered(values, target) ==
    SubSeq([values EXCEPT ![PlaceOf(values, target)] = values[Len(values)]],
           1, Len(values) - 1)

RemoveRouteEntry(nodes, path, e) ==
    WithRoute(nodes, path,
              RemoveIndexValueUnordered(Route(nodes[path.at], path.multi_level), e))

\* Mutant of ReplaceRouteEntry: the route keeps the entry that leaves.
ReplaceRouteEntryMutant(nodes, path, old, new) == nodes

ReplaceRouteEntry(nodes, path, old, new) ==
    LET values == Route(nodes[path.at], path.multi_level) IN
    WithRoute(nodes, path, [values EXCEPT ![PlaceOf(values, old)] = new])

-----------------------------------------------------------------------------
(* Subscriptions *)

\* findEntry: 0 when the subscriber has no such subscription.
FindEntry(r, s, filter) ==
    LET found == {i \in Residents(r.entries) : r.entries[i].subscriber_id = s
                                          /\ r.entries[i].filter = filter}
    IN IF found = {} THEN 0 ELSE CHOOSE i \in found : \A j \in found : i <= j

FindSharedGroup(r, filter) ==
    LET found == {g \in Residents(r.groups) : r.groups[g].filter = filter}
    IN IF found = {} THEN 0 ELSE CHOOSE g \in found : TRUE

\* getOrCreateSharedGroup: [groups, index, created]; a tombstone is reused.
GetOrCreateSharedGroup(r, filter) ==
    LET fresh == [filter |-> filter, cursor |-> 0, entry_indices |-> <<>>]
        found == FindSharedGroup(r, filter)
        holes == DOMAIN r.groups \ Residents(r.groups)
        hole  == CHOOSE i \in holes : \A j \in holes : i <= j
    IN CASE found # 0 -> [groups |-> r.groups, index |-> found, created |-> FALSE]
         [] found = 0 /\ holes # {} ->
              [groups |-> [r.groups EXCEPT ![hole] = fresh], index |-> hole, created |-> TRUE]
         [] OTHER -> [groups |-> Append(r.groups, fresh), index |-> Len(r.groups) + 1,
                      created |-> TRUE]

\* subscribeWithIdentifierStatus, of a new subscription with these options.
Added(r, s, filter, options) ==
    LET e     == Len(r.entries) + 1
        path  == InsertFilterPath(r.nodes, filter.levels)
        got   == GetOrCreateSharedGroup(r, filter)
        entry == [subscriber_id |-> s, filter |-> filter, options |-> options,
                  shared_group_index |-> IF filter.group = NoShare THEN 0 ELSE got.index]
    IN [r EXCEPT
          !.entries = Append(@, entry),
          !.nodes   = IF filter.group = NoShare \/ got.created
                      THEN AppendRouteEntry(path.nodes, path, e) ELSE path.nodes,
          !.groups  = IF filter.group = NoShare THEN @
                      ELSE [got.groups EXCEPT ![got.index].entry_indices = Append(@, e)]]

\* unsubscribe, of an existing entry.
Removed(r, e) ==
    LET entry  == r.entries[e]
        path   == FindFilterPath(r.nodes, entry.filter.levels)
        g      == entry.shared_group_index
        group  == r.groups[g]
        routed == Contains(Route(r.nodes[path.at], path.multi_level), e)
        rest   == RemoveFirst(group.entry_indices, e)
        gone   == [r EXCEPT !.entries[e] = NoRoute]
    IN CASE g = 0 -> [gone EXCEPT !.nodes = RemoveRouteEntry(@, path, e)]
         [] g # 0 /\ rest = <<>> ->
              [gone EXCEPT !.nodes  = IF routed THEN RemoveRouteEntry(@, path, e) ELSE @,
                           !.groups[g] = NoGroup]
         [] OTHER ->
              [gone EXCEPT !.nodes  = IF routed THEN ReplaceRouteEntry(@, path, e, rest[1]) ELSE @,
                           !.groups[g] = [group EXCEPT !.entry_indices = rest,
                                                       !.cursor = @ % Len(rest)]]

\* A repeated SUBSCRIBE replaces the options of its entry.
Subscribed(r, s, filter, options) ==
    LET e == FindEntry(r, s, filter) IN
    IF e = 0 THEN Added(r, s, filter, options) ELSE [r EXCEPT !.entries[e].options = options]

\* removeSubscriber: the entries of s go one after the other.
WithoutSubscriber(r, s) ==
    LET after[i \in 0..Len(r.entries)] ==
            IF i = 0 THEN r
            ELSE IF r.entries[i] = NoRoute THEN after[i - 1]
            ELSE IF r.entries[i].subscriber_id # s THEN after[i - 1]
            ELSE Removed(after[i - 1], i)
    IN after[Len(r.entries)]

-----------------------------------------------------------------------------
(* Matching *)

\* topicMatchesFilter (src/mqtt/mod.zig).
TopicMatchesFilter(topic, levels) ==
    LET multi == levels[Len(levels)] = "#"
        n     == IF multi THEN Len(levels) - 1 ELSE Len(levels)
    IN /\ IsSys(topic) => IsSys(levels)
       /\ IF multi THEN Len(topic) >= n ELSE Len(topic) = n
       /\ \A i \in 1..n : levels[i] = "+" \/ levels[i] = topic[i]

\* The children of node n that the level leads to, the literal one first; a
\* topic that starts with '$' is not matched by a leading wildcard.
ChildrenOf(node, level, wildcards) ==
    SelectSeq(<<FindLiteralChild(node, level),
                IF wildcards THEN node.single_wildcard_child ELSE 0>>, LAMBDA n : n # 0)

\* matchTrie: the nodes the walk has reached after each level, by depth.
Frontiers(r, topic) ==
    LET at[d \in 0..Len(topic)] ==
            IF d = 0 THEN <<1>>
            ELSE LET above == at[d - 1] IN
                 FlattenSeq([i \in DOMAIN above |->
                     ChildrenOf(r.nodes[above[i]], topic[d], d > 1 \/ ~IsSys(topic))])
    IN at

\* appendUniqueNode fails: the trie gives up and entries are matched one by one.
TrieOverflows(r, topic) ==
    \E d \in 1..Len(topic) : Len(Frontiers(r, topic)[d]) > TrieWidth

\* The entries in the order the walk meets them: the '#' entries of every node
\* it passes, which a '$' topic is not matched by at the root, and both kinds
\* of entries of the nodes it ends at.
TrieHits(r, topic) ==
    LET at == Frontiers(r, topic)
        ends == at[Len(topic)]
        multi(d) == FlattenSeq([i \in DOMAIN at[d] |-> r.nodes[at[d][i]].multi_wildcard_entries])
        passed == [d \in 1..Len(topic) |-> IF d = 1 /\ IsSys(topic) THEN <<>> ELSE multi(d - 1)]
    IN FlattenSeq(passed)
         \o FlattenSeq([i \in DOMAIN ends |-> r.nodes[ends[i]].terminal_entries
                                              \o r.nodes[ends[i]].multi_wildcard_entries])

\* matchNormalLinear and matchSharedLinear visit the entries themselves, and
\* the first live entry of each group.
LinearHits(r, topic) ==
    SelectSeq([e \in DOMAIN r.entries |-> e],
              LAMBDA e : /\ r.entries[e] # NoRoute
                         /\ r.entries[e].filter.group = NoShare
                         /\ TopicMatchesFilter(topic, r.entries[e].filter.levels))
    \o LET served == SelectSeq(r.groups,
                               LAMBDA g : g # NoGroup /\ TopicMatchesFilter(topic, g.filter.levels))
       IN [i \in DOMAIN served |-> served[i].entry_indices[1]]

Hits(r, topic) ==
    SelectSeq(IF TrieOverflows(r, topic) THEN LinearHits(r, topic) ELSE TrieHits(r, topic),
              LAMBDA e : r.entries[e] # NoRoute)

\* emitNormalEntries skips shared entries and, for No Local, the publisher's own.
NormalHits(r, topic, publisher) ==
    SelectSeq(Hits(r, topic),
              LAMBDA e : /\ r.entries[e].shared_group_index = 0
                         /\ ~(r.entries[e].options.no_local /\ r.entries[e].subscriber_id = publisher))

\* emitSharedEntries: the groups served, in order.
GroupHits(r, topic) ==
    LET shared == SelectSeq(Hits(r, topic), LAMBDA e : r.entries[e].shared_group_index # 0)
    IN [i \in DOMAIN shared |-> r.entries[shared[i]].shared_group_index]

\* hasTopicMatch, before No Local is applied.
HasTopicMatch(r, topic) == Hits(r, topic) # <<>>

\* selectGroupEntry: the members of a group are live, so the first one tried
\* is taken.  These are the places the strategies may choose for a topic.
GroupChoices(r, g, topic) ==
    LET members == r.groups[g].entry_indices
        score(i) == Score[<<topic, r.entries[members[i]].subscriber_id>>]
    IN CASE r.strategy \in {"round_robin", "sticky"} -> {r.groups[g].cursor + 1}
         [] r.strategy = "random" -> DOMAIN members
         [] r.strategy = "rendezvous_hash" ->
              {i \in DOMAIN members : \A j \in DOMAIN members :
                  \/ score(j) < score(i)
                  \/ score(j) = score(i) /\ r.entries[members[i]].subscriber_id
                                             <= r.entries[members[j]].subscriber_id}

\* Only round robin moves the cursor on.
CursorAfter(r, g) ==
    IF r.strategy = "round_robin"
    THEN (r.groups[g].cursor + 1) % Len(r.groups[g].entry_indices) ELSE r.groups[g].cursor

\* The router after a match: the cursors of the groups served have moved.
Matched(r, topic) ==
    [r EXCEPT !.groups = [g \in DOMAIN @ |->
        IF Contains(GroupHits(r, topic), g)
        THEN [@[g] EXCEPT !.cursor = CursorAfter(r, g)] ELSE @[g]]]

-----------------------------------------------------------------------------

EmptyRouter(strategy) ==
    [nodes |-> <<EmptyNode>>, entries |-> <<>>, groups |-> <<>>, strategy |-> strategy]

RouterInit ==
    /\ \E strategy \in Strategies : router = EmptyRouter(strategy)
    /\ subscribed = {}

Same(sub, s, filter) == sub.subscriber_id = s /\ sub.filter = filter

Asked(s, filter, no_local) ==
    subscribed' = {sub \in subscribed : ~Same(sub, s, filter)}
                    \cup {[subscriber_id |-> s, filter |-> filter, no_local |-> no_local]}

Subscribe(s, filter, no_local) ==
    /\ FindEntry(router, s, filter) = 0 => Len(router.entries) < MaxEntries
    /\ filter.group # NoShare => ~no_local
    /\ router' = Subscribed(router, s, filter, [no_local |-> no_local])
    /\ Asked(s, filter, no_local)

\* Memory runs out after the path was inserted: the nodes stay, nothing else.
SubscribeFails(s, filter) ==
    /\ FindEntry(router, s, filter) = 0
    /\ Len(router.entries) < MaxEntries
    /\ router' = [router EXCEPT !.nodes = InsertFilterPath(@, filter.levels).nodes]
    /\ UNCHANGED subscribed

Unsubscribe(s, filter) ==
    /\ FindEntry(router, s, filter) # 0
    /\ router' = Removed(router, FindEntry(router, s, filter))
    /\ subscribed' = {sub \in subscribed : ~Same(sub, s, filter)}

RemoveSubscriber(s) ==
    /\ router' = WithoutSubscriber(router, s)
    /\ subscribed' = {sub \in subscribed : sub.subscriber_id # s}

\* matchIntoForPublisher: what it emits is a function of the state; the
\* cursors of the groups it serves are all that changes.
Match(topic) ==
    /\ router' = Matched(router, topic)
    /\ UNCHANGED subscribed

RouterNext ==
    \/ \E s \in Subscribers : RemoveSubscriber(s)
    \/ \E s \in Subscribers, filter \in Filters :
         \/ SubscribeFails(s, filter)
         \/ Unsubscribe(s, filter)
         \/ \E no_local \in NoLocal[filter] : Subscribe(s, filter, no_local)
    \/ \E topic \in Topics : Match(topic)

RouterSpec == RouterInit /\ [][RouterNext]_routerVars

-----------------------------------------------------------------------------

\* Groups hold exactly their live entries, each group once per filter, with
\* the cursor inside, and every entry of a group knows its place.
GroupsExact ==
    /\ \A g \in Residents(router.groups) :
         LET group == router.groups[g] IN
         /\ group.cursor \in 0..(Len(group.entry_indices) - 1)
         /\ \A i, j \in DOMAIN group.entry_indices :
              i # j => group.entry_indices[i] # group.entry_indices[j]
         /\ {group.entry_indices[i] : i \in DOMAIN group.entry_indices}
              = {e \in Residents(router.entries) : router.entries[e].shared_group_index = g}
    /\ \A e \in Residents(router.entries) :
         LET entry == router.entries[e] IN
         IF entry.filter.group = NoShare THEN entry.shared_group_index = 0
         ELSE FindSharedGroup(router, entry.filter) = entry.shared_group_index

\* The ordinary subscriptions of the clients that a message must reach.
Expected(topic, publisher) ==
    {sub \in subscribed : /\ sub.filter.group = NoShare
                          /\ TopicMatchesFilter(topic, sub.filter.levels)
                          /\ ~(sub.no_local /\ sub.subscriber_id = publisher)}

ExpectedGroups(topic) ==
    {sub.filter : sub \in {sub \in subscribed :
        sub.filter.group # NoShare /\ TopicMatchesFilter(topic, sub.filter.levels)}}

Emitted(e) == [subscriber_id |-> router.entries[e].subscriber_id,
               filter        |-> router.entries[e].filter,
               no_local      |-> router.entries[e].options.no_local]

\* Every topic reaches each matching subscription exactly once and exactly
\* one member of each matching shared group, whether the trie or the linear
\* scan finds them; the caller's buffer of subscriptionCount matches is always
\* large enough (matchAllocForPublisher).
MatchExact(topic, publisher) ==
    LET normal == NormalHits(router, topic, publisher)
        groups == GroupHits(router, topic)
    IN /\ {Emitted(normal[i]) : i \in DOMAIN normal} = Expected(topic, publisher)
       /\ Len(normal) = Cardinality(Expected(topic, publisher))
       /\ {router.groups[groups[i]].filter : i \in DOMAIN groups} = ExpectedGroups(topic)
       /\ Len(groups) = Cardinality(ExpectedGroups(topic))
       /\ \A i \in DOMAIN groups :
            /\ GroupChoices(router, groups[i], topic) # {}
            /\ \A k \in GroupChoices(router, groups[i], topic) :
                 Emitted(router.groups[groups[i]].entry_indices[k]) \in subscribed
       /\ Len(normal) + Len(groups) <= Cardinality(Residents(router.entries))

\* Whatever subscriptions came, went, were replaced or failed for want of
\* memory, a publication reaches exactly the subscribers it should (matchInto
\* and hasTopicMatch against the subscriptions the clients made).
RouterExact ==
    /\ GroupsExact
    /\ \A topic \in Topics, publisher \in Subscribers : MatchExact(topic, publisher)

=============================================================================
