------------------------------- MODULE Intake -------------------------------
(***************************************************************************)
(* The webhook edge of internal/ingest in front of the outbox: the sender  *)
(* delivers an event until it is answered 2xx, several deliveries of one   *)
(* event may be in flight, and Handler.ServeHTTP takes each through the    *)
(* skew window, the terminal filter, admission control, the duplicate      *)
(* lookup and the one transaction.                                         *)
(*                                                                         *)
(* Deliveries carry a valid signature and a recoverable event; any other   *)
(* is turned away before it touches anything modelled here.                *)
(***************************************************************************)
EXTENDS Outbox

CONSTANTS
    Declined,           \* events whose error code is a terminal decline
    Deliveries,         \* deliveries of one event in flight at once
    OutboxHighWater,    \* ingest.Config.OutboxHighWater
    MaxSkew,            \* ingest.Config.MaxSkew, in ticks
    MaxAge              \* ticks after which an event ages no more (a bound)

Requests == Events \X Deliveries

ASSUME IntakeAssumption ==
    /\ Declined \subseteq Events
    /\ OutboxHighWater \in Nat
    /\ MaxSkew \in Nat
    /\ MaxAge \in Nat

VARIABLES
    incidents,  \* [Events -> Nat], rows of table incidents with this event_id
    request,    \* [Requests -> where ServeHTTP is with the delivery]
    age,        \* [Events -> 0..MaxAge], ticks since created_at; starts when offered
    offered,    \* SUBSET Events, those that happened
    answered,   \* SUBSET Events, those the sender has a 2xx for
    shed        \* SUBSET Events, those turned away with Retry-After

edgeVars == <<incidents, request, age, offered, answered, shed>>
vars == <<outboxVars, edgeVars>>

\* "accepted" and "refused" are an answer on its way to the sender.
RequestPlace == {"free", "admit", "lookup", "record", "accepted", "refused"}

EventOf(q) == q[1]

Advance(q, place) == request' = [request EXCEPT ![q] = place]

-----------------------------------------------------------------------------
(* The sender *)

Happen(e) ==
    /\ e \notin offered
    /\ offered' = offered \cup {e}
    /\ UNCHANGED <<outboxVars, incidents, request, age, answered, shed>>

\* A delivery, first or repeated.  The sender may repeat it before the one
\* before is answered, and stops at a 2xx.
Deliver(q) ==
    /\ request[q] = "free"
    /\ EventOf(q) \in offered \ answered
    /\ Advance(q, "admit")
    /\ UNCHANGED <<outboxVars, incidents, age, offered, answered, shed>>

\* The answer reaches the sender, or is lost.
Answer(q) ==
    /\ request[q] \in {"accepted", "refused"}
    /\ \/ /\ answered' = IF request[q] = "accepted"
                         THEN answered \cup {EventOf(q)} ELSE answered
          /\ UNCHANGED disruptions
       \/ Disrupt("answer") /\ UNCHANGED answered
    /\ Advance(q, "free")
    /\ UNCHANGED <<rowVars, queueVars, mode, pc, onceVars, incidents, age, offered, shed>>

-----------------------------------------------------------------------------
(* Handler.ServeHTTP *)

OverHighWater == Cardinality(Pending) > OutboxHighWater

TooOld(e) == age[e] > MaxSkew

\* The skew window, the terminal filter, then admission control; a depth that
\* cannot be read admits.
Admit(q) ==
    LET e == EventOf(q)
    IN  /\ request[q] = "admit"
        /\ \/ TooOld(e) /\ Advance(q, "refused") /\ UNCHANGED <<shed, disruptions>>
           \/ /\ ~TooOld(e) /\ e \in Declined
              /\ Advance(q, "accepted")
              /\ UNCHANGED <<shed, disruptions>>
           \/ /\ ~TooOld(e) /\ e \notin Declined
              /\ Advance(q, IF OverHighWater THEN "refused" ELSE "lookup")
              /\ shed' = IF OverHighWater THEN shed \cup {e} ELSE shed
              /\ UNCHANGED disruptions
           \/ /\ ~TooOld(e) /\ e \notin Declined
              /\ Advance(q, "lookup")
              /\ Disrupt("depth")
              /\ UNCHANGED shed
        /\ UNCHANGED <<rowVars, queueVars, mode, pc, onceVars, incidents, age,
                       offered, answered>>

\* The pre-check of record: an optimisation, and stale when it is used.
Lookup(q) ==
    /\ request[q] = "lookup"
    /\ \/ /\ Advance(q, IF incidents[EventOf(q)] > 0 THEN "accepted" ELSE "record")
          /\ UNCHANGED disruptions
       \/ Advance(q, "refused") /\ Disrupt("edge")
    /\ UNCHANGED <<rowVars, queueVars, mode, pc, onceVars, incidents, age, offered,
                   answered, shed>>

NeverConflicts(e) == FALSE

\* The unique index on event_id.
Conflicts(e) == incidents[e] > 0

\* The transaction commits: incident and outbox row, or neither.
Commit(e) ==
    /\ incidents' = [incidents EXCEPT ![e] = @ + 1]
    /\ InsertOutboxEvent(e)

Abort == UNCHANGED <<incidents, rowVars, queueVars, mode, pc, onceVars>>

Record(q) ==
    /\ request[q] = "record"
    /\ IF Conflicts(EventOf(q)) THEN Abort ELSE Commit(EventOf(q))
    /\ Advance(q, "accepted")
    /\ UNCHANGED <<age, offered, answered, shed, disruptions>>

AnswerAnyway == "accepted"

\* What an event that could not be recorded is answered with.
ErrorAnswer == "refused"

\* The transaction fails: rolled back, or committed and its reply lost.
RecordError(q) ==
    /\ request[q] = "record"
    /\ Disrupt("edge")
    /\ \/ Abort
       \/ ~Conflicts(EventOf(q)) /\ Commit(EventOf(q))
    /\ Advance(q, ErrorAnswer)
    /\ UNCHANGED <<age, offered, answered, shed>>

ServeHTTP(q) == Admit(q) \/ Lookup(q) \/ Record(q) \/ RecordError(q)

-----------------------------------------------------------------------------
(* The specification *)

Tick ==
    /\ \E e \in offered : age[e] < MaxAge
    /\ age' = [e \in Events |-> IF e \in offered /\ age[e] < MaxAge THEN age[e] + 1 ELSE age[e]]
    /\ UNCHANGED <<outboxVars, incidents, request, offered, answered, shed>>

Init ==
    /\ OutboxInit
    /\ incidents = [e \in Events |-> 0]
    /\ request = [q \in Requests |-> "free"]
    /\ age = [e \in Events |-> 0]
    /\ offered = {}
    /\ answered = {}
    /\ shed = {}

Next ==
    \/ \E e \in Events : Happen(e)
    \/ \E q \in Requests : Deliver(q) \/ ServeHTTP(q) \/ Answer(q)
    \/ (\E r \in Relays : Once(r)) /\ UNCHANGED edgeVars
    \/ Surroundings /\ UNCHANGED edgeVars
    \/ Tick

Spec == Init /\ [][Next]_vars

\* The sender repeats what was not answered 2xx, handlers run on, and the
\* outbox moves as it does on its own.
Fairness ==
    /\ \A q \in Requests : WF_vars(Deliver(q) \/ ServeHTTP(q) \/ Answer(q))
    /\ OutboxFairness

FairSpec == Spec /\ Fairness

-----------------------------------------------------------------------------
(* Properties *)

TypeOK ==
    /\ OutboxTypeOK
    /\ incidents \in [Events -> Nat]
    /\ request \in [Requests -> RequestPlace]
    /\ age \in [Events -> Nat]
    /\ offered \subseteq Events
    /\ answered \subseteq Events
    /\ shed \subseteq Events

\* An event the sender has a 2xx for, and will not send again, has its incident
\* and its outbox row, unless it was declined for good: no failed statement,
\* lost commit reply or concurrent delivery makes the edge answer for nothing.
AnsweredIsRecorded ==
    \A e \in answered \ Declined : incidents[e] = 1 /\ state[e] # "NONE"

\* However often an event is delivered, and at once, it becomes one incident
\* (the unique index on event_id, behind a pre-check that may be stale).
OneIncidentPerEvent == \A e \in Events : incidents[e] <= 1

\* An event is taken in once: not less for an answer, not more for a repetition.
TakenInOnce == AnsweredIsRecorded /\ OneIncidentPerEvent

\* While no delivery comes later than MaxSkew, every event the queue can carry
\* is published in the end, through shedding, failed transactions, lost answers,
\* outages and crashes.
OfferedIsPublished ==
    \A e \in Events \ (Declined \cup Poison) : e \in offered ~> published[e] > 0

\* Shed load is deferred, not lost: an event turned away because the outbox was
\* full is published in the end, however long the sender has to repeat it.
ShedIsDeferred ==
    \A e \in Events \ Poison : e \in shed ~> published[e] > 0

=============================================================================
