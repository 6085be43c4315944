----------------------------- MODULE BrokerWills -----------------------------
(***************************************************************************)
(* Wills in the live broker (src/mqtt/broker.zig, broker/will_driver.zig): *)
(* connections install, schedule and cancel Wills in the WillScheduler     *)
(* under the broker's state lock, one driver task publishes those that are *)
(* due, and a generation futex wakes it.  A task changes the scheduler     *)
(* under the lock and notifies the driver after it; these are two steps.   *)
(* serve is modelled as in BrokerSessions.                                 *)
(***************************************************************************)
EXTENDS WillScheduler

CONSTANTS MaxConnections,  \* options.limits.max_connections
          MaxConnects,     \* bound on the connections accepted
          MaxTime,         \* bound on the clock
          MaxRestarts,     \* bound on the restarts
          Downtimes,       \* possible downtimes of a restart
          DriverErrors,    \* whether routing and flushing a Will may fail
          Never            \* a deadline no clock reaches, for null

VARIABLES
    wills,       \* broker.wills
    publishers,  \* broker.will_publishers: its keys
    slots,       \* broker.slots
    next_slot,   \* serve: the slot of the next connection it accepts
    driver,      \* the Will driver task
    signalled,   \* will_driver.generation is not the one the driver read
    stopping,    \* will_driver.stopping
    issued,      \* Wills accepted so far; the last one's message
    published,   \* how often each Will has been published
    now,         \* the clock
    connects,    \* connections accepted so far
    restarts     \* restarts so far

vars == <<wills, publishers, slots, next_slot, driver, signalled, stopping,
          issued, published, now, connects, restarts>>

ConnectionSlots == 1..MaxConnections
WillMessages == 1..MaxConnects

\* owes: the scheduler was changed and the driver is still to be notified.
\* owner_of: whose Session the connection holds (session_handle).
Slot == [phase : {"free", "accepting", "attached", "closing"}, owes : BOOLEAN,
         graceful : BOOLEAN, owner_of : Clients \cup {NoHandle},
         will_handle : WillHandle \cup {NoHandle}]

FreeSlot == [phase |-> "free", owes |-> FALSE, graceful |-> FALSE,
             owner_of |-> NoHandle, will_handle |-> NoHandle]

\* Type correctness of the broker's Will state.
WillsTypeOK ==
    /\ wills \in Scheduler
    /\ publishers \subseteq WillHandle
    /\ slots \in [ConnectionSlots -> Slot]
    /\ next_slot \in 1..(MaxConnections + 1)
    /\ driver \in [pc : {"pass", "flush", "wait", "asleep", "ended", "failed"},
                   deadline : 0..MaxTime + Never]
    /\ signalled \in BOOLEAN
    /\ stopping \in BOOLEAN
    /\ issued \in 0..MaxConnects
    /\ published \in [WillMessages -> 0..2]
    /\ now \in 0..MaxTime
    /\ connects \in 0..MaxConnects
    /\ restarts \in 0..MaxRestarts

StartedDriver == [pc |-> "pass", deadline |-> Never]

WillsInit ==
    /\ wills = EmptyScheduler
    /\ publishers = {}
    /\ slots = [s \in ConnectionSlots |-> FreeSlot]
    /\ next_slot = 1
    /\ driver = StartedDriver
    /\ signalled = FALSE
    /\ stopping = FALSE
    /\ issued = 0
    /\ published = [m \in WillMessages |-> 0]
    /\ now = 0
    /\ connects = 0
    /\ restarts = 0

-----------------------------------------------------------------------------
(* Connections.                                                            *)

\* notify, after the lock was released.
Notify(s) ==
    /\ slots[s].owes
    /\ slots' = [slots EXCEPT ![s].owes = FALSE]
    /\ signalled' = TRUE
    /\ UNCHANGED <<issued, wills, publishers, next_slot, driver, stopping, published,
                   now, connects, restarts>>

\* serve ends with an error: it stops the driver and then its clients.
EndServe ==
    /\ next_slot' = MaxConnections + 1
    /\ stopping' = TRUE
    /\ signalled' = TRUE

Accepting(s) ==
    /\ s = next_slot
    /\ ~stopping
    /\ \A t \in ConnectionSlots : slots[t].phase # "accepting"
    /\ connects < MaxConnects

\* The slots with a new connection of client c in s; the connection that had
\* its Session keeps its Will handle (detachReplacedSessionOwnerLocked).
Opened(s, c, h) ==
    [t \in ConnectionSlots |->
        IF t = s THEN [FreeSlot EXCEPT !.phase = "accepting", !.owner_of = c, !.will_handle = h]
        ELSE IF slots[t].owner_of = c THEN [slots[t] EXCEPT !.owner_of = NoHandle]
        ELSE slots[t]]

\* register, for a CONNECT with a Will; the driver is notified under the lock.
Register(s, c, clean_start, delay, expiry) ==
    LET previous == wills.client_index[c]
        canceled == IF previous # 0 /\ ReconnectCancels(wills, previous, clean_start, now)
                    THEN {HandleAt(wills, previous)} ELSE {}
        after    == InstallPrepared(Reconnected(wills, c, clean_start, now),
                                    c, issued + 1, delay, expiry)
        handle   == HandleAt(after, after.client_index[c])
    IN
    /\ Accepting(s)
    /\ CanAccept(wills, c, clean_start, now)
    /\ wills' = after
    /\ publishers' = (publishers \ canceled) \cup {handle}
    /\ slots' = Opened(s, c, handle)
    /\ next_slot' = s + 1
    /\ signalled' = TRUE
    /\ issued' = issued + 1
    /\ connects' = connects + 1
    /\ UNCHANGED <<driver, stopping, published, now, restarts>>

\* register, for a CONNECT without one.
RegisterPlain(s, c, clean_start) ==
    LET previous == wills.client_index[c]
        canceled == IF previous # 0 /\ ReconnectCancels(wills, previous, clean_start, now)
                    THEN {HandleAt(wills, previous)} ELSE {}
    IN
    /\ Accepting(s)
    /\ wills' = Reconnected(wills, c, clean_start, now)
    /\ publishers' = publishers \ canceled
    /\ slots' = Opened(s, c, NoHandle)
    /\ next_slot' = s + 1
    /\ signalled' = TRUE
    /\ connects' = connects + 1
    /\ UNCHANGED <<issued, driver, stopping, published, now, restarts>>

\* register at the limit of Wills: nothing has changed, and serve ends.
RegisterRefused(s, c, clean_start) ==
    /\ Accepting(s)
    /\ ~CanAccept(wills, c, clean_start, now)
    /\ EndServe
    /\ connects' = connects + 1
    /\ UNCHANGED <<issued, wills, publishers, slots, driver, published, now, restarts>>

\* CONNACK is written, and the slot gets its reader task.
Attach(s) ==
    /\ slots[s].phase = "accepting"
    /\ slots' = [slots EXCEPT ![s].phase = "attached"]
    /\ UNCHANGED <<issued, wills, publishers, next_slot, driver, signalled, stopping,
                   published, now, connects, restarts>>

\* abortRegistration: CONNACK could not be written.
Abort(s) ==
    LET h == slots[s].will_handle IN
    /\ slots[s].phase = "accepting"
    /\ wills' = IF h # NoHandle /\ Found(wills, h) THEN Canceled(wills, h.index) ELSE wills
    /\ publishers' = publishers \ {h}
    /\ slots' = [slots EXCEPT ![s] = [FreeSlot EXCEPT !.owes = TRUE]]
    /\ EndServe
    /\ UNCHANGED <<issued, driver, published, now, connects, restarts>>

\* The accept loop fails before or after a registration (acceptPending, the
\* first flushSlot).
AcceptFails ==
    /\ next_slot <= MaxConnections
    /\ ~stopping
    /\ \A s \in ConnectionSlots : slots[s].phase # "accepting"
    /\ EndServe
    /\ UNCHANGED <<issued, wills, publishers, slots, driver, published, now, connects, restarts>>

\* The slot after handleDisconnect, which failed or not.
Disconnected(s, graceful, h) ==
    slots' = [slots EXCEPT ![s] = [FreeSlot EXCEPT !.phase = "closing", !.owes = graceful,
                                                   !.graceful = graceful, !.will_handle = h]]

\* handleDisconnect with a Will.  A packet without a Session Expiry Interval
\* is one with the interval in force.  0x04 asks for publication.  A
\* takeover may have removed the Will (WillNotFound) and the interval may be
\* refused (InvalidProperty); the task then ends as if the connection failed.
Disconnect(s, with_will, override) ==
    LET h     == slots[s].will_handle
        valid == Found(wills, h) /\ OverrideAccepted(wills, h.index, override)
        base  == Overridden(wills, h.index, override)
        ends  == ~with_will /\ wills.entries[h.index].state = "connected"
    IN
    /\ slots[s].phase = "attached"
    /\ h # NoHandle
    /\ IF ~valid
       THEN /\ Disconnected(s, FALSE, h)
            /\ UNCHANGED <<wills, publishers>>
       ELSE /\ wills' = IF with_will THEN Closed(base, h.index, now) ELSE Canceled(base, h.index)
            /\ publishers' = IF ends THEN publishers \ {h} ELSE publishers
            /\ Disconnected(s, TRUE, IF ends THEN NoHandle ELSE h)
    /\ UNCHANGED <<issued, next_slot, driver, signalled, stopping, published, now,
                   connects, restarts>>

\* handleDisconnect without a Will.
DisconnectPlain(s) ==
    /\ slots[s].phase = "attached"
    /\ slots[s].will_handle = NoHandle
    /\ Disconnected(s, TRUE, NoHandle)
    /\ UNCHANGED <<issued, wills, publishers, next_slot, driver, signalled, stopping,
                   published, now, connects, restarts>>

\* unregister, at the end of every reader task: without a DISCONNECT the Will
\* is scheduled, unless a takeover has already dealt with it.
Unregister(s) ==
    LET h == slots[s].will_handle IN
    /\ slots[s].phase \in {"attached", "closing"}
    /\ ~slots[s].owes
    /\ wills' = IF ~slots[s].graceful /\ h # NoHandle /\ Found(wills, h)
                THEN Closed(wills, h.index, now) ELSE wills
    /\ slots' = [slots EXCEPT ![s] = [FreeSlot EXCEPT !.owes = TRUE]]
    /\ UNCHANGED <<issued, publishers, next_slot, driver, signalled, stopping,
                   published, now, connects, restarts>>

-----------------------------------------------------------------------------
(* The driver task.                                                        *)

\* The scheduler after n Wills were claimed, routed and released.
RECURSIVE Drained(_, _)
Drained(ws, n) ==
    IF n = 0 THEN ws ELSE Drained(RemoveWill(PollOneDue(ws), ws.heap.items[1]), n - 1)

\* Mutant of DueCount: a deadline that has just been reached is not due.
DueCountMutant == CountDueFrom(Key(wills), wills.heap, 1, now - 1)

DueCount == CountDueFrom(Key(wills), wills.heap, 1, now)

Published(after) ==
    [m \in WillMessages |-> published[m] +
        Cardinality({i \in Owned(wills) \ Owned(after) : wills.entries[i].message = m})]

\* Releasing a Will drops its publisher too.
PublishersOf(after) ==
    {h \in publishers : Found(wills, h) => Found(after, h)}

\* Mutant of Pass: the generation is read before the lock is taken, that is,
\* a notification in between is forgotten.
PassMutant ==
    /\ driver.pc = "pass"
    /\ ~stopping
    /\ LET after == Drained(wills, DueCount) IN
       /\ wills' = after
       /\ published' = Published(after)
       /\ publishers' = PublishersOf(after)
       /\ driver' = [pc |-> IF DueCount > 0 THEN "flush" ELSE "wait",
                     deadline |-> driver.deadline]
    /\ signalled' = FALSE
    /\ UNCHANGED <<issued, slots, next_slot, stopping, now, connects, restarts>>

\* One round of runWillDriver under the lock: every due Will is routed, and
\* the next deadline and the generation are read.
Pass ==
    /\ driver.pc = "pass"
    /\ ~stopping
    /\ LET after == Drained(wills, DueCount) IN
       /\ wills' = after
       /\ published' = Published(after)
       /\ publishers' = PublishersOf(after)
       /\ driver' = [pc |-> IF DueCount > 0 THEN "flush" ELSE "wait",
                     deadline |-> NextDeadline(after, Never)]
    /\ signalled' = FALSE
    /\ UNCHANGED <<issued, slots, next_slot, stopping, now, connects, restarts>>

\* A Will cannot be routed: it stays claimed, and the driver ends.
PassFails ==
    /\ DriverErrors
    /\ driver.pc = "pass"
    /\ ~stopping
    /\ \E n \in 0..(DueCount - 1) :
         LET after == Drained(wills, n) IN
         /\ wills' = PollOneDue(after)
         /\ published' = Published(after)
         /\ publishers' = PublishersOf(after)
    /\ driver' = [driver EXCEPT !.pc = "failed"]
    /\ UNCHANGED <<issued, slots, next_slot, signalled, stopping, now, connects, restarts>>

DriverAt(pc) ==
    /\ driver' = [driver EXCEPT !.pc = pc]
    /\ UNCHANGED <<issued, wills, publishers, slots, next_slot, signalled, stopping,
                   published, now, connects, restarts>>

\* flushAllSlots; a write that fails on one connection ends the driver.
Flush == driver.pc = "flush" /\ DriverAt("wait")
FlushFails == DriverErrors /\ driver.pc = "flush" /\ DriverAt("failed")

\* wait: the futex is entered only with the generation that was read.
Wait ==
    /\ driver.pc = "wait"
    /\ DriverAt(IF stopping \/ signalled THEN "pass" ELSE "asleep")

Wake ==
    /\ driver.pc = "asleep"
    /\ signalled \/ driver.deadline <= now
    /\ DriverAt("pass")

Stopped == driver.pc = "pass" /\ stopping /\ DriverAt("ended")

-----------------------------------------------------------------------------
(* The end of serve, restarts and time.                                    *)

Quiet == \A s \in ConnectionSlots : slots[s].phase = "free" /\ ~slots[s].owes

\* serve has joined its clients and stops the driver.
Stop ==
    /\ Quiet
    /\ next_slot # 1
    /\ ~stopping
    /\ stopping' = TRUE
    /\ signalled' = TRUE
    /\ next_slot' = MaxConnections + 1
    /\ UNCHANGED <<issued, wills, publishers, slots, driver, published, now, connects, restarts>>

Over == Quiet /\ stopping /\ driver.pc \in {"ended", "failed"}

\* The next call of serve.
Serve ==
    /\ Over
    /\ connects < MaxConnects
    /\ driver' = StartedDriver
    /\ stopping' = FALSE
    /\ next_slot' = 1
    /\ UNCHANGED <<issued, wills, publishers, slots, signalled, published, now, connects, restarts>>

\* saveSnapshot between two calls of serve.
CanSave ==
    /\ Over
    /\ Cardinality(publishers) = wills.count_value
    /\ WillsSavable(wills)

\* The snapshot is saved, restored by a new broker, and served.
Restart(downtime) ==
    LET after == RestoredWills(wills, now, downtime) IN
    /\ restarts < MaxRestarts
    /\ CanSave
    /\ WillsRestorable(wills)
    /\ wills' = after
    /\ publishers' = {HandleAt(after, i) : i \in Owned(after)}
    /\ driver' = StartedDriver
    /\ stopping' = FALSE
    /\ signalled' = FALSE
    /\ next_slot' = 1
    /\ restarts' = restarts + 1
    /\ UNCHANGED <<issued, slots, published, now, connects>>

Tick ==
    /\ now < MaxTime
    /\ now' = now + 1
    /\ UNCHANGED <<issued, wills, publishers, slots, next_slot, driver, signalled,
                   stopping, published, connects, restarts>>

DriverStep == Pass \/ PassFails \/ Flush \/ FlushFails \/ Wait \/ Wake \/ Stopped

WillsNext ==
    \/ Tick
    \/ DriverStep
    \/ Stop
    \/ Serve
    \/ AcceptFails
    \/ \E downtime \in Downtimes : Restart(downtime)
    \/ \E s \in ConnectionSlots :
         \/ \E c \in Clients, clean_start \in BOOLEAN :
              \/ RegisterPlain(s, c, clean_start)
              \/ RegisterRefused(s, c, clean_start)
              \/ \E terms \in Terms : Register(s, c, clean_start, terms[1], terms[2])
         \/ Attach(s)
         \/ Abort(s)
         \/ \E with_will \in BOOLEAN, override \in Intervals : Disconnect(s, with_will, override)
         \/ DisconnectPlain(s)
         \/ Unregister(s)
         \/ Notify(s)

WillsSpec == WillsInit /\ [][WillsNext]_vars

DriverReady ==
    \/ driver.pc \in {"pass", "flush", "wait"}
    \/ driver.pc = "asleep" /\ (signalled \/ driver.deadline <= now)

\* The driver task runs whenever it can (weak fairness of DriverStep, with the
\* condition that enables it spelt out), a task that released the lock goes on
\* to notify it, and time passes.
FairSpec ==
    /\ WillsSpec
    /\ []<>(~DriverReady) \/ []<><<DriverStep>>_vars
    /\ WF_vars(Tick)
    /\ \A s \in ConnectionSlots : WF_vars(Notify(s))

-----------------------------------------------------------------------------
(* Properties.                                                             *)

\* As long as a connection lives and holds its Session, its Will is armed:
\* a displaced connection still has a handle into the same table, whose slot
\* may since belong to its successor's Will, and its end leaves that one alone
\* (getEntry compares generations).
LiveWillArmed ==
    \A s \in ConnectionSlots :
        LET h == slots[s].will_handle IN
        slots[s].owner_of # NoHandle /\ h # NoHandle =>
            /\ wills.entries[h.index] # NoWill
            /\ wills.entries[h.index].generation = h.generation
            /\ wills.entries[h.index].state = "connected"

\* Table, free list, client index and heap agree after every handler, and
\* will_publishers has an entry for exactly the Wills that exist: saveSnapshot
\* compares the two counts, and publishWillLocked looks the publisher up.  The
\* Will of a live connection is armed.
WillsConsistent ==
    /\ WillsTypeOK
    /\ LiveWillArmed
    /\ SchedulerExact(wills)
    /\ publishers = {HandleAt(wills, i) : i \in Owned(wills)}

\* No wakeup is lost: a driver that sleeps, when nobody is about to notify it,
\* sleeps no longer than until the first deadline (runWillDriver reads the
\* generation under the lock, before it waits).
NoLostWakeup ==
    driver.pc = "asleep" /\ ~signalled /\ (\A s \in ConnectionSlots : ~slots[s].owes)
        => driver.deadline <= NextDeadline(wills, Never)

\* The Wills of the live broker follow WillLifecycle: publication at most
\* once, not before min(Will Delay, Session Expiry) after the first close, and
\* no cancellation of a Will that is due, through takeovers, duplicate closes
\* and restarts ("a due/clean-start takeover cannot suppress committed
\* publication", docs/rumqtt_parity.md:431).
Bearers(m) == {i \in Owned(wills) : wills.entries[i].message = m}

WillOf(m) ==
    IF Bearers(m) # {}
    THEN LET w == wills.entries[CHOOSE i \in Bearers(m) : TRUE]
         IN  [fate |-> IF published[m] > 0 THEN "republished"
                       ELSE IF w.state = "connected" THEN "connected" ELSE "scheduled",
              terms |-> <<w.will_delay_interval, w.session_expiry_interval>>,
              deadline |-> IF w.state = "connected" THEN 0 ELSE w.deadline]
    ELSE [fate |-> IF published[m] > 0 THEN "published"
                   ELSE IF m <= issued THEN "canceled" ELSE "none",
          terms |-> <<0, 0>>, deadline |-> 0]

Lifecycle == INSTANCE WillLifecycle WITH
    Messages <- WillMessages,
    will <- [m \in WillMessages |-> WillOf(m)],
    accepted <- connects,
    clock <- now

WillsFollowLifecycle == Lifecycle!LifecycleSpec

\* Again and again there is a moment when no Will that is due waits: it has
\* been published (a due Will cannot be cancelled), unless serve comes to its
\* end ("one concurrent generation-futex driver services every deadline",
\* docs/rumqtt_parity.md:432) or the driver meets an error: it ends with the
\* first one and serve goes on without it, and the Will it was routing stays
\* claimed.
EveryDueWillPublished ==
    []<>(\/ \A i \in Owned(wills) : ~(/\ wills.entries[i].state = "scheduled"
                                      /\ wills.entries[i].deadline <= now)
         \/ stopping
         \/ driver.pc = "failed")

=============================================================================
