---------------------------- MODULE WillScheduler ----------------------------
(***************************************************************************)
(* The Will scheduler (src/mqtt/will/mod.zig): a table of Wills, an index  *)
(* from Client Identifier to the Will a reconnect would affect, and a heap *)
(* of deadlines.                                                           *)
(*                                                                         *)
(* As in SessionStore the operations are functions from a scheduler to a   *)
(* scheduler.  The Will Message is a number; byte quotas and the           *)
(* reservations that make later steps allocation-free are left out.        *)
(***************************************************************************)
EXTENDS IndexedHeap, FiniteSets

CONSTANTS Clients,    \* Client Identifiers
          MaxWills,   \* options.max_wills
          Intervals,  \* Session Expiry Intervals of DISCONNECT
          Terms,      \* the pairs of a Will Delay and a Session Expiry Interval
          NoWill,     \* a null entry
          NoHandle    \* a null handle

ASSUME SchedulerAssumption == 
    /\ MaxWills \in Nat \ {0}
    /\ Intervals \subseteq Nat
    /\ Terms \subseteq Nat \X Nat

WillSlots == 1..MaxWills

Will == [generation : Nat \ {0}, client_id : Clients, message : Nat,
         will_delay_interval : Nat, session_expiry_interval : Nat,
         state : {"connected", "scheduled", "due"}, deadline : Nat]

WillHandle == [index : WillSlots, generation : Nat \ {0}]

\* The entries grow to the right; free_indices holds the vacant ones.
Scheduler == [entries         : [WillSlots -> Will \cup {NoWill}],
              used            : 0..MaxWills,
              free_indices    : Seq(WillSlots),
              client_index    : [Clients -> WillSlots \cup {0}],
              heap            : [items : Seq(WillSlots), position : [WillSlots -> 0..MaxWills]],
              count_value     : 0..MaxWills,
              next_generation : Nat \ {0}]

EmptyScheduler ==
    [entries         |-> [i \in WillSlots |-> NoWill],
     used            |-> 0,
     free_indices    |-> <<>>,
     client_index    |-> [c \in Clients |-> 0],
     heap            |-> EmptyHeap(WillSlots),
     count_value     |-> 0,
     next_generation |-> 1]

Owned(ws) == {i \in WillSlots : ws.entries[i] # NoWill}
Lesser(a, b) == IF a < b THEN a ELSE b
EffectiveDelay(will) == Lesser(will.will_delay_interval, will.session_expiry_interval)

Key(ws) == [i \in Owned(ws) |-> <<ws.entries[i].deadline, ws.entries[i].generation>>]

\* Mutant of Found: a slot that has been given to another Will still matches.
FoundMutant(ws, h) == ws.entries[h.index] # NoWill

\* getEntry.
Found(ws, h) == /\ ws.entries[h.index] # NoWill
                /\ ws.entries[h.index].generation = h.generation

HandleAt(ws, i) == [index |-> i, generation |-> ws.entries[i].generation]

Unscheduled(ws, i) ==
    IF ws.heap.position[i] = 0 THEN ws.heap
    ELSE HeapRemove(Key(ws), ws.heap, ws.heap.position[i])

\* removeAt.
RemoveWill(ws, i) ==
    [ws EXCEPT !.heap = Unscheduled(ws, i),
               !.client_index[ws.entries[i].client_id] = IF @ = i THEN 0 ELSE @,
               !.entries[i] = NoWill,
               !.free_indices = Append(@, i),
               !.count_value = @ - 1]

\* The Will gets a deadline and a place in the heap.
Schedule(ws, i, deadline) ==
    LET after == [ws EXCEPT !.heap = Unscheduled(ws, i),
                            !.entries[i].state = "scheduled",
                            !.entries[i].deadline = deadline]
    IN [after EXCEPT !.heap = HeapAppend(Key(after), @, i)]

MakeDueNow(ws, i, now) == Schedule(ws, i, now)

\* installPrepared, into the slot freed last or a new one.
InstallPrepared(ws, c, message, delay, expiry) ==
    LET free == ws.free_indices
        i    == IF free = <<>> THEN ws.used + 1 ELSE free[Len(free)]
    IN [ws EXCEPT
          !.entries[i] = [generation |-> ws.next_generation, client_id |-> c,
                          message |-> message, will_delay_interval |-> delay,
                          session_expiry_interval |-> expiry,
                          state |-> "connected", deadline |-> 0],
          !.used = IF free = <<>> THEN i ELSE @,
          !.free_indices = IF free = <<>> THEN <<>> ELSE SubSeq(free, 1, Len(free) - 1),
          !.client_index[c] = i,
          !.count_value = @ + 1,
          !.next_generation = @ + 1]

-----------------------------------------------------------------------------
(* A new connection of a Client Identifier.                                *)

\* reconnectResult: canceled, otherwise due_now.
ReconnectCancels(ws, i, clean_start, now) ==
    /\ ~clean_start
    /\ CASE ws.entries[i].state = "connected" -> EffectiveDelay(ws.entries[i]) # 0
         [] ws.entries[i].state = "scheduled" -> now < ws.entries[i].deadline
         [] OTHER -> FALSE

\* onReconnect, and acceptConnect's detaching of a Will that is due from the
\* index of its client.
Reconnected(ws, c, clean_start, now) ==
    LET i == ws.client_index[c] IN
    IF i = 0 THEN ws
    ELSE IF ReconnectCancels(ws, i, clean_start, now) THEN RemoveWill(ws, i)
    ELSE [(IF ws.entries[i].state = "due" THEN ws ELSE MakeDueNow(ws, i, now))
             EXCEPT !.client_index[c] = 0]

\* acceptConnect with a Will refuses one too many before it changes anything.
CanAccept(ws, c, clean_start, now) ==
    LET i == ws.client_index[c] IN
    ws.count_value + (IF i # 0 /\ ReconnectCancels(ws, i, clean_start, now) THEN 0 ELSE 1)
        <= MaxWills

-----------------------------------------------------------------------------
(* The end of a connection.                                                *)

\* Mutant of Closed: the Will is due when the connection ends.
ClosedMutant(ws, i, now) ==
    IF ws.entries[i].state # "connected" THEN ws ELSE Schedule(ws, i, now)

\* close, for a network failure or DISCONNECT 0x04.
Closed(ws, i, now) ==
    IF ws.entries[i].state # "connected" THEN ws
    ELSE Schedule(ws, i, now + EffectiveDelay(ws.entries[i]))

\* close with normal_disconnect: only a connected Will is cancelled.
Canceled(ws, i) == IF ws.entries[i].state # "connected" THEN ws ELSE RemoveWill(ws, i)

\* closeDisconnect may change the Session Expiry Interval, but not from 0.
OverrideAccepted(ws, i, override) ==
    ws.entries[i].state # "connected"
       \/ ws.entries[i].session_expiry_interval # 0
       \/ override = 0

Overridden(ws, i, override) ==
    IF ws.entries[i].state # "connected" THEN ws
    ELSE [ws EXCEPT !.entries[i].session_expiry_interval = override]

-----------------------------------------------------------------------------
(* Publication.                                                            *)

NextDeadline(ws, never) ==
    IF ws.heap.items = <<>> THEN never ELSE ws.entries[ws.heap.items[1]].deadline

AnyDue(ws, now) == ws.heap.items # <<>> /\ ws.entries[ws.heap.items[1]].deadline <= now

\* pollOneDue claims the root of the heap, and releaseDue removes it.
PollOneDue(ws) ==
    [ws EXCEPT !.entries[ws.heap.items[1]].state = "due", !.heap = PopRoot(Key(ws), @)]

-----------------------------------------------------------------------------
(* Snapshots.                                                              *)

\* writeSnapshot: every Will is scheduled.
WillsSavable(ws) == \A i \in Owned(ws) : ws.entries[i].state = "scheduled"

\* restoreSnapshot rejects a Client Identifier that occurs twice.
WillsRestorable(ws) ==
    \A i, j \in Owned(ws) : ws.entries[i].client_id = ws.entries[j].client_id => i = j

\* The Wills are installed anew in the order of their slots, with what is left
\* of their delays after the downtime.
RECURSIVE RestoreFrom(_, _, _, _, _)
RestoreFrom(old, ws, i, now, downtime) ==
    IF i > MaxWills THEN ws
    ELSE IF old.entries[i] = NoWill THEN RestoreFrom(old, ws, i + 1, now, downtime)
    ELSE LET will      == old.entries[i]
             left      == will.deadline - now - downtime
             installed == InstallPrepared(ws, will.client_id, will.message,
                            will.will_delay_interval, will.session_expiry_interval)
         IN RestoreFrom(old,
                        Schedule(installed, installed.client_index[will.client_id],
                                 now + (IF left > 0 THEN left ELSE 0)),
                        i + 1, now, downtime)

RestoredWills(ws, now, downtime) == RestoreFrom(ws, EmptyScheduler, 1, now, downtime)

-----------------------------------------------------------------------------

\* The table, its free list, the client index and the heap agree.
SchedulerExact(ws) ==
    /\ Cardinality(Owned(ws)) = ws.count_value
    /\ \A i \in WillSlots :
         Cardinality({k \in 1..Len(ws.free_indices) : ws.free_indices[k] = i})
            = (IF i <= ws.used /\ i \notin Owned(ws) THEN 1 ELSE 0)
    /\ \A c \in Clients : ws.client_index[c] # 0 =>
         /\ ws.client_index[c] \in Owned(ws)
         /\ ws.entries[ws.client_index[c]].client_id = c
    /\ \A i \in Owned(ws) : ws.entries[i].state = "connected"
         => ws.client_index[ws.entries[i].client_id] = i
    /\ HeapOrdered(Key(ws), ws.heap)
    /\ PositionsExact(ws.heap)
    /\ \A i \in WillSlots : ws.heap.position[i] # 0
         <=> (i \in Owned(ws) /\ ws.entries[i].state = "scheduled")

=============================================================================
