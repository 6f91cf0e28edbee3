------------------------------- MODULE Outbox -------------------------------
(***************************************************************************)
(* The outbox table of internal/store and the relays of internal/outbox    *)
(* that move its rows onto the queue: Relay.Once statement by statement,   *)
(* with its probe of the queue after a failed publication, and Relay.Run   *)
(* around it, with the final drain on shutdown.                            *)
(*                                                                         *)
(* A lease is present or not; it expires when its holder is gone, or, as a *)
(* fault, while the holder is merely slow.  Disruptions are counted, so    *)
(* that liveness speaks of what happens once they are over.                *)
(***************************************************************************)
EXTENDS Integers, FiniteSets

CONSTANTS
    Events,                 \* events, each with one outbox row at most
    Poison,                 \* those whose publication the queue refuses
    Relays,                 \* relay processes
    BatchSize,              \* outbox.Config.BatchSize
    MaxPublishAttempts,     \* outbox.Config.MaxPublishAttempts
    MaxDisruptions,         \* disruptions in one behaviour (a bound)
    Faults,                 \* the kinds of disruption that happen
    NoEvent                 \* not an event

\* The last three strike the edge, in module Intake.
DisruptionKinds == {"outage", "timeout", "store", "slow", "cancel", "crash",
                    "depth", "edge", "answer"}

ASSUME OutboxAssumption ==
    /\ IsFiniteSet(Events)
    /\ Poison \subseteq Events
    /\ BatchSize \in Nat \ {0}
    /\ MaxPublishAttempts \in Nat \ {0}
    /\ MaxDisruptions \in Nat
    /\ Faults \subseteq DisruptionKinds
    /\ NoEvent \notin Events

VARIABLES
    \* table outbox_events
    state,          \* [Events -> RowState]
    id,             \* [Events -> Nat], 0 before the row exists
    attempts,       \* [Events -> Nat]
    leased,         \* [Events -> BOOLEAN], claimed_until lies ahead
    \* the queue
    queueUp,        \* BOOLEAN
    published,      \* [Events -> 0..2], times on the stream; 2 is several
    \* each relay
    mode,           \* [Relays -> Mode]
    pc,             \* [Relays -> where Once is]
    batch,          \* [Relays -> SUBSET Events], claimed and not yet tried
    seen,           \* [Relays -> [Events -> Nat]], Attempts as claimed
    dispatched,     \* [Relays -> SUBSET Events], published in this iteration
    failing,        \* [Relays -> the event whose publication failed]
    giveBack,       \* [Relays -> SUBSET Events], rows to release
    disruptions     \* Nat, those still to come

rowVars   == <<state, id, attempts, leased>>
queueVars == <<queueUp, published>>
onceVars  == <<batch, seen, dispatched, failing, giveBack>>
outboxVars == <<rowVars, queueVars, mode, pc, onceVars, disruptions>>

RowState == {"NONE", "PENDING", "DISPATCHED", "FAILED"}

\* "cancelled": Run's context is done while Once is on its way; "draining":
\* the last Once, on a context of its own; "expired": that one has timed out.
Mode == {"running", "cancelled", "draining", "expired", "stopped"}

Place == {"idle", "publish", "probe", "probeOutage", "release", "charge", "mark"}

-----------------------------------------------------------------------------
(* Rows and what a relay holds *)

InHand(r) == batch[r] \cup dispatched[r] \cup giveBack[r] \cup ({failing[r]} \ {NoEvent})

Pending == {e \in Events : state[e] = "PENDING"}

ClaimableDespiteLease == Pending

\* The rows the inner SELECT of claimOutboxBatchSQL sees.
Claimable == {e \in Pending : ~leased[e]}

Oldest(b) ==
    /\ Cardinality(b) <= BatchSize
    /\ Cardinality(b) = BatchSize \/ b = Claimable
    /\ \A e \in b, f \in Claimable \ b : id[e] < id[f]

\* ORDER BY id LIMIT BatchSize; Once returns at once when nothing is claimed.
Batches == {b \in SUBSET Claimable : b # {} /\ Oldest(b)}

\* The context Once runs on is done: every call made with it fails.
Dead(r) == mode[r] \in {"cancelled", "expired"}

Disrupt(kind) ==
    /\ kind \in Faults
    /\ disruptions > 0
    /\ disruptions' = disruptions - 1

\* The row of event e, inserted by the transaction that inserts its incident.
InsertOutboxEvent(e) ==
    /\ state' = [state EXCEPT ![e] = "PENDING"]
    /\ id' = [id EXCEPT ![e] = Cardinality({f \in Events : id[f] > 0}) + 1]
    /\ attempts' = [attempts EXCEPT ![e] = 0]
    /\ leased' = [leased EXCEPT ![e] = FALSE]
    /\ UNCHANGED <<queueVars, mode, pc, onceVars>>

-----------------------------------------------------------------------------
(* Relay.Once *)

\* Once returns: Run loops, starts its drain, or ends after it.
Return(r) ==
    /\ pc' = [pc EXCEPT ![r] = "idle"]
    /\ mode' = [mode EXCEPT ![r] = CASE @ = "running" -> "running"
                                     [] @ = "cancelled" -> "draining"
                                     [] OTHER -> "stopped"]
    /\ batch' = [batch EXCEPT ![r] = {}]
    /\ seen' = [seen EXCEPT ![r] = [e \in Events |-> 0]]
    /\ dispatched' = [dispatched EXCEPT ![r] = {}]
    /\ failing' = [failing EXCEPT ![r] = NoEvent]
    /\ giveBack' = [giveBack EXCEPT ![r] = {}]

GoTo(r, place) == pc' = [pc EXCEPT ![r] = place] /\ UNCHANGED mode

\* What is left after the failure path: to mark what was published, if any.
MarkOrReturn(r) ==
    IF dispatched[r] = {}
    THEN Return(r)
    ELSE /\ GoTo(r, "mark")
         /\ failing' = [failing EXCEPT ![r] = NoEvent]
         /\ giveBack' = [giveBack EXCEPT ![r] = {}]
         /\ UNCHANGED <<batch, seen, dispatched>>

\* ClaimOutboxBatch: state and lease tested, lease taken, in one statement.
ClaimOutboxBatch(r) ==
    /\ pc[r] = "idle"
    /\ mode[r] \in {"running", "draining"}
    /\ \E b \in Batches :
        /\ leased' = [e \in Events |-> e \in b \/ leased[e]]
        /\ batch' = [batch EXCEPT ![r] = b]
        /\ seen' = [seen EXCEPT ![r] = attempts]
    /\ GoTo(r, "publish")
    /\ UNCHANGED <<state, id, attempts, queueVars, dispatched, failing, giveBack, disruptions>>

\* The drain finds nothing, or its claim fails: Run is over.
DrainNothing(r) ==
    /\ pc[r] = "idle"
    /\ mode[r] = "draining"
    /\ \/ Claimable = {} /\ UNCHANGED disruptions
       \/ Disrupt("store")
    /\ Return(r)
    /\ UNCHANGED <<rowVars, queueVars>>

First(r, e) == e \in batch[r] /\ \A f \in batch[r] : id[e] <= id[f]

Landed(e) == published' = [published EXCEPT ![e] = IF @ < 2 THEN @ + 1 ELSE @]

PublishOk(r, e) ==
    /\ pc[r] = "publish"
    /\ ~Dead(r)
    /\ First(r, e)
    /\ queueUp /\ e \notin Poison
    /\ Landed(e)
    /\ batch' = [batch EXCEPT ![r] = @ \ {e}]
    /\ dispatched' = [dispatched EXCEPT ![r] = @ \cup {e}]
    /\ GoTo(r, IF batch[r] = {e} THEN "mark" ELSE "publish")
    /\ UNCHANGED <<rowVars, queueUp, seen, failing, giveBack, disruptions>>

\* A publication fails: the rest of the batch is abandoned.  One that timed
\* out, or was cut off by the cancellation, may have landed.
PublishFails(r, e) ==
    /\ pc[r] = "publish"
    /\ First(r, e)
    /\ \/ /\ ~queueUp
          /\ GoTo(r, "probeOutage")
          /\ UNCHANGED <<published, disruptions>>
       \/ /\ queueUp /\ e \in Poison
          /\ GoTo(r, "probe")
          /\ UNCHANGED <<published, disruptions>>
       \/ /\ queueUp /\ e \notin Poison
          /\ GoTo(r, "probe")
          /\ \/ Dead(r) /\ UNCHANGED disruptions
             \/ Disrupt("timeout")
          /\ Landed(e) \/ UNCHANGED published
    /\ batch' = [batch EXCEPT ![r] = {}]
    /\ failing' = [failing EXCEPT ![r] = e]
    /\ giveBack' = [giveBack EXCEPT ![r] = batch[r] \ {e}]
    /\ UNCHANGED <<rowVars, queueUp, seen, dispatched>>

\* The cancellation is noticed before the next publication.
StopPublishing(r) ==
    /\ pc[r] = "publish"
    /\ Dead(r)
    /\ batch' = [batch EXCEPT ![r] = {}]
    /\ giveBack' = [giveBack EXCEPT ![r] = batch[r]]
    /\ GoTo(r, "release")
    /\ UNCHANGED <<rowVars, queueVars, seen, dispatched, failing, disruptions>>

BlamesAnyway(answered) == TRUE

\* When Ping answers, the failure is taken to be the row's own.
BlamesRow(answered) == answered

\* handlePublishFailure: the probe, on a context that survives cancellation.
\* A queue back from the outage the publication failed in may still not
\* answer; that it does is the fault "timeout".
Probe(r) ==
    /\ pc[r] \in {"probe", "probeOutage"}
    /\ \E answered \in BOOLEAN :
        /\ answered => queueUp
        /\ ~answered => ~queueUp \/ pc[r] = "probeOutage"
        /\ IF answered /\ pc[r] = "probeOutage"
           THEN Disrupt("timeout")
           ELSE UNCHANGED disruptions
        /\ IF BlamesRow(answered)
           THEN UNCHANGED <<failing, giveBack>>
           ELSE /\ failing' = [failing EXCEPT ![r] = NoEvent]
                /\ giveBack' = [giveBack EXCEPT ![r] = @ \cup {failing[r]}]
    /\ GoTo(r, "release")
    /\ UNCHANGED <<rowVars, queueVars, batch, seen, dispatched>>

\* ReleaseOutboxClaim, likewise; when it fails the leases run out instead.
Release(r) ==
    /\ pc[r] = "release"
    /\ \/ /\ leased' = [e \in Events |->
                            leased[e] /\ ~(e \in giveBack[r] /\ state[e] = "PENDING")]
          /\ UNCHANGED disruptions
       \/ Disrupt("store") /\ UNCHANGED leased
    /\ IF failing[r] # NoEvent
       THEN /\ GoTo(r, "charge")
            /\ giveBack' = [giveBack EXCEPT ![r] = {}]
            /\ UNCHANGED <<batch, seen, dispatched, failing>>
       ELSE MarkOrReturn(r)
    /\ UNCHANGED <<state, id, attempts, queueVars>>

ExhaustedTooLate(r) == seen[r][failing[r]] >= MaxPublishAttempts

\* Judged by the count the claim returned, not by the row's present one.
Exhausted(r) == seen[r][failing[r]] + 1 >= MaxPublishAttempts

FreeOfCharge(e) == attempts[e]

\* attempts = attempts + 1.
Charged(e) == attempts[e] + 1

\* RecordOutboxFailure: charges a row that is still PENDING.
RecordOutboxFailure(r) ==
    /\ pc[r] = "charge"
    /\ ~Dead(r)
    /\ ~Exhausted(r)
    /\ LET e == failing[r]
       IN  IF state[e] = "PENDING"
           THEN /\ attempts' = [attempts EXCEPT ![e] = Charged(e)]
                /\ leased' = [leased EXCEPT ![e] = FALSE]
           ELSE UNCHANGED <<attempts, leased>>
    /\ MarkOrReturn(r)
    /\ UNCHANGED <<state, id, queueVars, disruptions>>

\* MarkOutboxFailed: parks the row, whatever its state.
MarkOutboxFailed(r) ==
    /\ pc[r] = "charge"
    /\ ~Dead(r)
    /\ Exhausted(r)
    /\ state' = [state EXCEPT ![failing[r]] = "FAILED"]
    /\ leased' = [leased EXCEPT ![failing[r]] = FALSE]
    /\ MarkOrReturn(r)
    /\ UNCHANGED <<id, attempts, queueVars, disruptions>>

\* The verdict is not written: the failure is logged and the lease runs out.
ChargeError(r) ==
    /\ pc[r] = "charge"
    /\ \/ Dead(r) /\ UNCHANGED disruptions
       \/ Disrupt("store")
    /\ MarkOrReturn(r)
    /\ UNCHANGED <<rowVars, queueVars>>

MarkedAsLeased(r) == {e \in Events : leased[e]}

\* The ids handed to MarkOutboxDispatched.
Marked(r) == dispatched[r]

\* MarkOutboxDispatched.
MarkOutboxDispatched(r) ==
    /\ pc[r] = "mark"
    /\ ~Dead(r)
    /\ state' = [e \in Events |-> IF e \in Marked(r) THEN "DISPATCHED" ELSE state[e]]
    /\ Return(r)
    /\ UNCHANGED <<id, attempts, leased, queueVars, disruptions>>

\* Published and not marked: the rows are published again once the lease ends.
MarkError(r) ==
    /\ pc[r] = "mark"
    /\ \/ Dead(r) /\ UNCHANGED disruptions
       \/ Disrupt("store")
    /\ Return(r)
    /\ UNCHANGED <<rowVars, queueVars>>

Once(r) ==
    \/ ClaimOutboxBatch(r) \/ DrainNothing(r)
    \/ \E e \in Events : PublishOk(r, e) \/ PublishFails(r, e)
    \/ StopPublishing(r) \/ Probe(r) \/ Release(r)
    \/ RecordOutboxFailure(r) \/ MarkOutboxFailed(r) \/ ChargeError(r)
    \/ MarkOutboxDispatched(r) \/ MarkError(r)

-----------------------------------------------------------------------------
(* The relay's life, the queue, the leases *)

Shutdown(r) ==
    /\ mode[r] = "running"
    /\ Disrupt("cancel")
    /\ mode' = [mode EXCEPT ![r] = IF pc[r] = "idle" THEN "draining" ELSE "cancelled"]
    /\ UNCHANGED <<rowVars, queueVars, pc, onceVars>>

DrainTimeout(r) ==
    /\ mode[r] = "draining"
    /\ pc[r] # "idle"
    /\ Disrupt("cancel")
    /\ mode' = [mode EXCEPT ![r] = "expired"]
    /\ UNCHANGED <<rowVars, queueVars, pc, onceVars>>

Restart(r) ==
    /\ mode[r] = "stopped"
    /\ mode' = [mode EXCEPT ![r] = "running"]
    /\ UNCHANGED <<rowVars, queueVars, pc, onceVars, disruptions>>

\* The process dies: what Once had in its locals is gone, the leases are not.
Crash(r) ==
    /\ Disrupt("crash")
    /\ pc' = [pc EXCEPT ![r] = "idle"]
    /\ mode' = [mode EXCEPT ![r] = "stopped"]
    /\ batch' = [batch EXCEPT ![r] = {}]
    /\ seen' = [seen EXCEPT ![r] = [e \in Events |-> 0]]
    /\ dispatched' = [dispatched EXCEPT ![r] = {}]
    /\ failing' = [failing EXCEPT ![r] = NoEvent]
    /\ giveBack' = [giveBack EXCEPT ![r] = {}]
    /\ UNCHANGED <<rowVars, queueVars>>

QueueDown ==
    /\ queueUp
    /\ Disrupt("outage")
    /\ queueUp' = FALSE
    /\ UNCHANGED <<rowVars, published, mode, pc, onceVars>>

QueueBack ==
    /\ ~queueUp
    /\ queueUp' = TRUE
    /\ UNCHANGED <<rowVars, published, mode, pc, onceVars, disruptions>>

\* A lease of a row nobody works on runs out; of one in hand, if its holder is
\* slower than the lease.
LeaseExpires(e) ==
    /\ leased[e]
    /\ \/ (\A r \in Relays : e \notin InHand(r)) /\ UNCHANGED disruptions
       \/ (\E r \in Relays : e \in InHand(r)) /\ Disrupt("slow")
    /\ leased' = [leased EXCEPT ![e] = FALSE]
    /\ UNCHANGED <<state, id, attempts, queueVars, mode, pc, onceVars>>

Surroundings ==
    \/ \E r \in Relays : Shutdown(r) \/ DrainTimeout(r) \/ Restart(r) \/ Crash(r)
    \/ QueueDown \/ QueueBack
    \/ \E e \in Events : LeaseExpires(e)

-----------------------------------------------------------------------------
(* The specification *)

OutboxInit ==
    /\ state = [e \in Events |-> "NONE"]
    /\ id = [e \in Events |-> 0]
    /\ attempts = [e \in Events |-> 0]
    /\ leased = [e \in Events |-> FALSE]
    /\ queueUp = TRUE
    /\ published = [e \in Events |-> 0]
    /\ mode = [r \in Relays |-> "running"]
    /\ pc = [r \in Relays |-> "idle"]
    /\ batch = [r \in Relays |-> {}]
    /\ seen = [r \in Relays |-> [e \in Events |-> 0]]
    /\ dispatched = [r \in Relays |-> {}]
    /\ failing = [r \in Relays |-> NoEvent]
    /\ giveBack = [r \in Relays |-> {}]
    /\ disruptions = MaxDisruptions

OutboxNext ==
    \/ \E e \in Events : /\ state[e] = "NONE"
                         /\ InsertOutboxEvent(e)
                         /\ UNCHANGED disruptions
    \/ \E r \in Relays : Once(r)
    \/ Surroundings

OutboxSpec == OutboxInit /\ [][OutboxNext]_outboxVars

\* Relays loop, a supervisor restarts them, outages end and leases run out.
\* Nothing obliges an event to arrive or a disruption to happen.
OutboxFairness ==
    /\ \A r \in Relays : WF_outboxVars(Once(r)) /\ WF_outboxVars(Restart(r))
    /\ WF_outboxVars(QueueBack)
    /\ \A e \in Events :
        WF_outboxVars((\A r \in Relays : e \notin InHand(r)) /\ LeaseExpires(e))

FairOutboxSpec == OutboxSpec /\ OutboxFairness

-----------------------------------------------------------------------------
(* Properties *)

\* What a relay holds at each place of Once.
Holding ==
    \A r \in Relays :
        /\ pc[r] = "idle" => InHand(r) = {}
        /\ pc[r] = "publish" => batch[r] # {} /\ giveBack[r] = {}
        /\ pc[r] # "publish" => batch[r] = {}
        /\ pc[r] \in {"probe", "probeOutage", "charge"} => failing[r] # NoEvent
        /\ pc[r] \in {"publish", "mark"} => failing[r] = NoEvent
        /\ pc[r] = "mark" => dispatched[r] # {} /\ giveBack[r] = {}

OutboxTypeOK ==
    /\ Holding
    /\ state \in [Events -> RowState]
    /\ id \in [Events -> Nat]
    /\ attempts \in [Events -> Nat]
    /\ leased \in [Events -> BOOLEAN]
    /\ queueUp \in BOOLEAN
    /\ published \in [Events -> 0..2]
    /\ mode \in [Relays -> Mode]
    /\ pc \in [Relays -> Place]
    /\ batch \in [Relays -> SUBSET Events]
    /\ seen \in [Relays -> [Events -> Nat]]
    /\ dispatched \in [Relays -> SUBSET Events]
    /\ failing \in [Relays -> Events \cup {NoEvent}]
    /\ giveBack \in [Relays -> SUBSET Events]
    /\ disruptions \in Nat

\* A row that says DISPATCHED has been on the stream: Once may publish a row
\* it does not mark, and never marks one it has not published.
DispatchedIsPublished ==
    \A e \in Events : state[e] = "DISPATCHED" => published[e] > 0

\* The rows and those who hold them: nothing is marked for another reason than
\* that it went out.
OutboxSound == OutboxTypeOK /\ DispatchedIsPublished

\* Only a row the queue refuses is ever parked: an outage, a shutdown or a
\* crash costs a healthy row nothing (handlePublishFailure).
FailedIsPoison == \A e \in Events : state[e] = "FAILED" => e \in Poison

\* Outages, poison rows and rival relays cause no duplicate: with leases that
\* outlast their holders and statements that succeed, an event is published once.
PublishedOnce == \A e \in Events : published[e] <= 1

\* No two relays work on one row, as long as no lease runs out under its holder.
LeaseExcludes ==
    \A r, q \in Relays : r # q => InHand(r) \cap InHand(q) = {}

\* A row is never charged its whole budget and left pending: the count it is
\* judged by is the row's own as long as its relay holds the lease.
BudgetHeld == \A e \in Events : attempts[e] < MaxPublishAttempts

\* What a lease is for: it keeps rivals off the row, and the row as it was read.
LeasesHold == LeaseExcludes /\ BudgetHeld

\* Nothing is lost while the outbox fills: every healthy row is published and
\* marked once the disruptions are over, poison rows before it or not.
HealthyDispatched ==
    \A e \in Events \ Poison : state[e] = "PENDING" ~> state[e] = "DISPATCHED"

\* A row that can never be published stops being retried, and is parked.
PoisonParked ==
    \A e \in Poison : state[e] = "PENDING" ~> state[e] = "FAILED"

\* Every row leaves the outbox's pending set, each by the right door.
RowsConclude == HealthyDispatched /\ PoisonParked

=============================================================================
