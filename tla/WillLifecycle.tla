---------------------------- MODULE WillLifecycle ----------------------------
(***************************************************************************)
(* What the broker promises about Will Messages.  A Will is accepted with  *)
(* a Will Delay and a Session Expiry Interval, which DISCONNECT may        *)
(* replace.  When its connection closes it is due after the lesser of the  *)
(* two, counted from the close, and only a new connection of its client,   *)
(* which ends the Session, or a downtime of the broker brings that closer. *)
(* It is published at most once and not before it is due; a DISCONNECT     *)
(* cancels it while its connection lives, a new connection before it is    *)
(* due.                                                                    *)
(***************************************************************************)
EXTENDS Integers

CONSTANTS Messages,   \* Will Messages, each accepted once
          Intervals,  \* Session Expiry Intervals of DISCONNECT
          Terms,      \* pairs of a Will Delay and a Session Expiry Interval
          Downtimes   \* how long the broker may be down

VARIABLES
    will,      \* each Will: what has become of it, the terms in force while it is
               \* connected or scheduled, and when a scheduled one is due
    accepted,  \* connections accepted so far
    clock

lifecycleVars == <<will, accepted, clock>>

Is(fate, terms, deadline) == [fate |-> fate, terms |-> terms, deadline |-> deadline]
Unaccepted == Is("none", <<0, 0>>, 0)
Canceled == Is("canceled", <<0, 0>>, 0)
Published == Is("published", <<0, 0>>, 0)

LifecycleInit == will = [m \in Messages |-> Unaccepted] /\ accepted = 0 /\ clock = 0

Delay(terms) == IF terms[1] < terms[2] THEN terms[1] ELSE terms[2]
Due(w) == w.fate = "scheduled" /\ w.deadline <= clock

\* Every due Will may be published, by one pass of the broker or by several.
Publish ==
    /\ UNCHANGED <<accepted, clock>>
    /\ \A m \in Messages : will'[m] = will[m] \/ (will'[m] = Published /\ Due(will[m]))

\* A new connection may bring a Will, and it resumes or ends the Session of an
\* earlier one.  Resuming it cancels a Will that is not due, unless there is no
\* delay to come back in; otherwise the Will is due at once.
Resumable(w) ==
    \/ w.fate = "connected" /\ Delay(w.terms) # 0
    \/ w.fate = "scheduled" /\ ~Due(w)

Connect ==
    /\ accepted' = accepted + 1
    /\ UNCHANGED clock
    /\ \A m \in Messages : LET w == will[m] IN
         \/ will'[m] = w
         \/ w = Unaccepted /\ \E t \in Terms : will'[m] = Is("connected", t, 0)
         \/ Resumable(w) /\ will'[m] = Canceled
         \/ w.fate \in {"connected", "scheduled"} /\ will'[m] = Is("scheduled", w.terms, clock)

\* A connection ends, without its Will or with it.  A Session that was to end
\* with the connection cannot be prolonged.
Closed(w, expiry) ==
    LET terms == <<w.terms[1], expiry>> IN Is("scheduled", terms, clock + Delay(terms))

Close(m) ==
    /\ UNCHANGED <<accepted, clock>>
    /\ will[m].fate = "connected"
    /\ \/ will' = [will EXCEPT ![m] = Canceled]
       \/ \E expiry \in Intervals \cup {will[m].terms[2]} :
            /\ will[m].terms[2] = 0 => expiry = 0
            /\ will' = [will EXCEPT ![m] = Closed(@, expiry)]

\* The broker is down for some time and knows what is left of every delay.
Restart(downtime) ==
    LET Sooner(deadline) == IF deadline - downtime > clock THEN deadline - downtime ELSE clock IN
    /\ UNCHANGED <<accepted, clock>>
    /\ will' = [m \in Messages |->
                   IF will[m].fate = "scheduled" THEN [will[m] EXCEPT !.deadline = Sooner(@)]
                   ELSE will[m]]

Tick == clock' = clock + 1 /\ UNCHANGED <<will, accepted>>

LifecycleNext ==
    \/ Publish
    \/ Connect
    \/ \E m \in Messages : Close(m)
    \/ \E downtime \in Downtimes : Restart(downtime)
    \/ Tick

LifecycleSpec == LifecycleInit /\ [][LifecycleNext]_lifecycleVars

=============================================================================
