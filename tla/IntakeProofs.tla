---------------------------- MODULE IntakeProofs ----------------------------
(***************************************************************************)
(* Theorems about Outbox, for every set of events and relays, every batch  *)
(* size, budget and choice of faults OutboxAssumption admits:              *)
(*                                                                         *)
(*   1. OutboxTyped        every variable keeps its type, and a relay      *)
(*                         holds what its place in Once requires           *)
(*   2. OnlyPublished      no row is marked that was not published         *)
(*   3. OnlyPoison         without ambiguous publications, only a row the  *)
(*                         queue refuses is parked                         *)
(*   4. Leased             while leases outlast their holders, relays      *)
(*                         never share a row, nor overspend its budget     *)
(*   5. NoDuplicate        outages alone put nothing on the stream twice   *)
(*                                                                         *)
(* and about Intake: what the edge promises, and what the outbox behind it *)
(* goes on promising while the edge works on the same rows:                *)
(*                                                                         *)
(*   6. EdgeTyped          every variable keeps its type                   *)
(*   7. Recorded           what is answered 2xx is on record, and an event *)
(*                         becomes one incident                            *)
(*   8. EdgeLeased         leases hold while rows are inserted             *)
(*   9. EdgeNoDuplicate    an event is on the stream once, unless a fault  *)
(*                         cuts a relay short                              *)
(*                                                                         *)
(* The lemmas of the first part speak of OutboxStep. Every step of the     *)
(* edge is such a step or leaves the outbox at rest, so that they serve    *)
(* the second part as well.                                                *)
(***************************************************************************)
EXTENDS Intake, FiniteSetTheorems, TLAPS

\* A row arrives, a relay moves, its surroundings do, or the outbox rests
\* while a disruption strikes elsewhere.
OutboxStep ==
    /\ disruptions' \in Nat
    /\ \/ \E e \in Events : state[e] = "NONE" /\ InsertOutboxEvent(e)
       \/ \E r \in Relays : Once(r)
       \/ Surroundings
       \/ UNCHANGED <<rowVars, queueVars, mode, pc, onceVars>>

LEMMA DisruptType ==
    ASSUME disruptions \in Nat, NEW k, Disrupt(k)
    PROVE  disruptions' \in Nat
  BY DEF Disrupt

LEMMA NextIsStep == OutboxTypeOK /\ [OutboxNext]_outboxVars => OutboxStep
<1>. SUFFICES ASSUME OutboxTypeOK, [OutboxNext]_outboxVars PROVE OutboxStep
  OBVIOUS
<1>. USE DEF OutboxTypeOK
<1>1. disruptions' \in Nat
  <2>1. ASSUME NEW r \in Relays, Once(r) PROVE disruptions' \in Nat
    BY <2>1, DisruptType
    DEF Once, ClaimOutboxBatch, DrainNothing, PublishOk, PublishFails, StopPublishing,
        Probe, Release, RecordOutboxFailure, MarkOutboxFailed, ChargeError,
        MarkOutboxDispatched, MarkError
  <2>2. CASE Surroundings
    BY <2>2, DisruptType
    DEF Surroundings, Shutdown, DrainTimeout, Restart, Crash, QueueDown, QueueBack,
        LeaseExpires
  <2>. QED
    BY <2>1, <2>2 DEF OutboxNext, outboxVars
<1>. QED
  BY <1>1 DEF OutboxStep, OutboxNext, outboxVars

-----------------------------------------------------------------------------
(* Types *)

LEMMA InitOutboxTypes == OutboxInit => OutboxTypeOK
  BY OutboxAssumption
  DEF OutboxInit, OutboxTypeOK, Holding, InHand, RowState, Mode, Place

\* What Once holds in its locals, and where it is.
LocalTypes ==
    /\ Holding
    /\ mode \in [Relays -> Mode]
    /\ pc \in [Relays -> Place]
    /\ batch \in [Relays -> SUBSET Events]
    /\ seen \in [Relays -> [Events -> Nat]]
    /\ dispatched \in [Relays -> SUBSET Events]
    /\ failing \in [Relays -> Events \cup {NoEvent}]
    /\ giveBack \in [Relays -> SUBSET Events]

LEMMA ReturnTypes ==
    ASSUME LocalTypes, NEW r \in Relays, Return(r)
    PROVE  LocalTypes'
<1>1. /\ mode' \in [Relays -> Mode]
      /\ pc' \in [Relays -> Place]
      /\ batch' \in [Relays -> SUBSET Events]
      /\ seen' \in [Relays -> [Events -> Nat]]
      /\ dispatched' \in [Relays -> SUBSET Events]
      /\ failing' \in [Relays -> Events \cup {NoEvent}]
      /\ giveBack' \in [Relays -> SUBSET Events]
  BY DEF LocalTypes, Return, Mode, Place
<1>2. InHand(r)' = {} /\ pc'[r] = "idle" /\ batch'[r] = {}
  BY DEF LocalTypes, Return, InHand
<1>3. ASSUME NEW q \in Relays, q # r
      PROVE  /\ InHand(q)' = InHand(q)
             /\ UNCHANGED <<pc[q], batch[q], giveBack[q], failing[q], dispatched[q]>>
  BY <1>3 DEF LocalTypes, Return, InHand
<1>4. Holding'
  BY <1>2, <1>3 DEF LocalTypes, Holding
<1>. QED
  BY <1>1, <1>4 DEF LocalTypes

LEMMA MarkOrReturnTypes ==
    ASSUME LocalTypes, NEW r \in Relays, pc[r] # "publish", MarkOrReturn(r)
    PROVE  LocalTypes'
<1>1. CASE dispatched[r] = {}
  BY <1>1, ReturnTypes DEF MarkOrReturn
<1>2. CASE dispatched[r] # {}
  <2>1. /\ pc' = [pc EXCEPT ![r] = "mark"]
        /\ failing' = [failing EXCEPT ![r] = NoEvent]
        /\ giveBack' = [giveBack EXCEPT ![r] = {}]
        /\ UNCHANGED <<mode, batch, seen, dispatched>>
    BY <1>2 DEF MarkOrReturn, GoTo
  <2>2. ASSUME NEW q \in Relays, q # r PROVE InHand(q)' = InHand(q)
    BY <2>1, <2>2 DEF LocalTypes, InHand
  <2>3. Holding'
    BY <1>2, <2>1, <2>2 DEF LocalTypes, Holding
  <2>. QED
    BY <2>1, <2>3 DEF LocalTypes, Place
<1>. QED
  BY <1>1, <1>2

\* Relay q is as it was.
Same(q) ==
    /\ pc'[q] = pc[q]
    /\ batch'[q] = batch[q]
    /\ dispatched'[q] = dispatched[q]
    /\ failing'[q] = failing[q]
    /\ giveBack'[q] = giveBack[q]

\* Holding, for one relay that is within Once.
HoldsWithin(r) ==
    /\ pc[r] # "idle"
    /\ pc[r] = "publish" <=> batch[r] # {}
    /\ pc[r] \in {"probe", "probeOutage", "charge"} => failing[r] # NoEvent
    /\ pc[r] \in {"publish", "mark"} => failing[r] = NoEvent /\ giveBack[r] = {}
    /\ pc[r] = "mark" => dispatched[r] # {}

LEMMA HoldingStep ==
    ASSUME Holding, NEW r \in Relays, \A q \in Relays : q # r => Same(q), HoldsWithin(r)'
    PROVE  Holding'
<1>1. ASSUME NEW q \in Relays, q # r PROVE InHand(q)' = InHand(q)
  BY <1>1 DEF Same, InHand
<1>. QED
  BY <1>1 DEF Holding, HoldsWithin, Same

LEMMA OnceLocalTypes ==
    ASSUME OutboxTypeOK, NEW r \in Relays, Once(r)
    PROVE  LocalTypes'
<1>. USE OutboxAssumption
<1>0. LocalTypes
  BY DEF OutboxTypeOK, LocalTypes
<1>1. CASE ClaimOutboxBatch(r)
  <2>1. PICK b \in Batches : /\ batch' = [batch EXCEPT ![r] = b]
                             /\ seen' = [seen EXCEPT ![r] = attempts]
    BY <1>1 DEF ClaimOutboxBatch
  <2>2. b \in SUBSET Events /\ b # {}
    BY <2>1 DEF Batches, Claimable, Pending
  <2>3. failing[r] = NoEvent /\ giveBack[r] = {}
    BY <1>1, <1>0 DEF ClaimOutboxBatch, LocalTypes, Holding, InHand
  <2>4. Holding'
    BY <1>0, <1>1, <2>1, <2>2, <2>3, HoldingStep
    DEF ClaimOutboxBatch, GoTo, LocalTypes, Same, HoldsWithin
  <2>. QED
    BY <1>0, <1>1, <2>1, <2>2, <2>4 DEF ClaimOutboxBatch, GoTo, LocalTypes, Place, OutboxTypeOK
<1>2. CASE DrainNothing(r)
  BY <1>0, <1>2, ReturnTypes DEF DrainNothing
<1>3. ASSUME NEW e \in Events, PublishOk(r, e) PROVE LocalTypes'
  <2>1. batch[r] # {} /\ giveBack[r] = {} /\ failing[r] = NoEvent /\ e \in batch[r]
    BY <1>0, <1>3 DEF PublishOk, LocalTypes, Holding, First
  <2>2. /\ pc' = [pc EXCEPT ![r] = IF batch[r] = {e} THEN "mark" ELSE "publish"]
        /\ batch' = [batch EXCEPT ![r] = @ \ {e}]
        /\ dispatched' = [dispatched EXCEPT ![r] = @ \cup {e}]
        /\ UNCHANGED <<mode, seen, failing, giveBack>>
    BY <1>3 DEF PublishOk, GoTo
  <2>3. HoldsWithin(r)'
    BY <1>0, <2>1, <2>2 DEF LocalTypes, HoldsWithin
  <2>4. Holding'
    BY <1>0, <2>2, <2>3, HoldingStep DEF LocalTypes, Same
  <2>. QED
    BY <1>0, <2>2, <2>4 DEF LocalTypes, Place
<1>4. ASSUME NEW e \in Events, PublishFails(r, e) PROVE LocalTypes'
  <2>1. pc' = [pc EXCEPT ![r] = "probe"] \/ pc' = [pc EXCEPT ![r] = "probeOutage"]
    BY <1>4 DEF PublishFails, GoTo
  <2>2. mode' = mode
    BY <1>4 DEF PublishFails, GoTo
  <2>3. Holding'
    BY <1>0, <1>4, <2>1, HoldingStep DEF PublishFails, LocalTypes, Same, HoldsWithin
  <2>. QED
    BY <1>0, <1>4, <2>1, <2>2, <2>3 DEF PublishFails, LocalTypes, Place
<1>5. CASE StopPublishing(r)
  <2>1. Holding'
    BY <1>0, <1>5, HoldingStep DEF StopPublishing, GoTo, LocalTypes, Same, HoldsWithin
  <2>. QED
    BY <1>0, <1>5, <2>1 DEF StopPublishing, GoTo, LocalTypes, Place
<1>6. CASE Probe(r)
  <2>1. /\ pc' = [pc EXCEPT ![r] = "release"]
        /\ UNCHANGED <<mode, batch, seen, dispatched>>
        /\ \/ UNCHANGED <<failing, giveBack>>
           \/ /\ failing' = [failing EXCEPT ![r] = NoEvent]
              /\ giveBack' = [giveBack EXCEPT ![r] = @ \cup {failing[r]}]
    BY <1>6 DEF Probe, GoTo
  <2>2. failing[r] \in Events /\ batch[r] = {}
    BY <1>0, <1>6 DEF Probe, LocalTypes, Holding
  <2>3. HoldsWithin(r)'
    BY <1>0, <2>1, <2>2 DEF LocalTypes, HoldsWithin
  <2>4. Holding'
    BY <1>0, <2>1, <2>3, HoldingStep DEF LocalTypes, Same
  <2>5. giveBack' \in [Relays -> SUBSET Events]
    <3>1. giveBack[r] \cup {failing[r]} \in SUBSET Events
      BY <1>0, <2>2 DEF LocalTypes
    <3>. QED
      BY <1>0, <2>1, <3>1 DEF LocalTypes
  <2>6. failing' \in [Relays -> Events \cup {NoEvent}]
    BY <1>0, <2>1 DEF LocalTypes
  <2>. QED
    BY <1>0, <2>1, <2>4, <2>5, <2>6 DEF LocalTypes, Place
<1>7. CASE Release(r)
  <2>1. batch[r] = {} /\ pc[r] # "publish"
    BY <1>0, <1>7 DEF Release, LocalTypes, Holding
  <2>2. CASE failing[r] = NoEvent
    BY <1>0, <1>7, <2>1, <2>2, MarkOrReturnTypes DEF Release
  <2>3. CASE failing[r] # NoEvent
    <3>1. /\ pc' = [pc EXCEPT ![r] = "charge"]
          /\ giveBack' = [giveBack EXCEPT ![r] = {}]
          /\ UNCHANGED <<mode, batch, seen, dispatched, failing>>
      BY <1>7, <2>3 DEF Release, GoTo
    <3>2. Holding'
      BY <1>0, <2>1, <2>3, <3>1, HoldingStep DEF LocalTypes, Same, HoldsWithin
    <3>. QED
      BY <1>0, <3>1, <3>2 DEF LocalTypes, Place
  <2>. QED
    BY <2>2, <2>3
<1>8. CASE RecordOutboxFailure(r) \/ MarkOutboxFailed(r) \/ ChargeError(r)
  BY <1>0, <1>8, MarkOrReturnTypes DEF RecordOutboxFailure, MarkOutboxFailed, ChargeError
<1>9. CASE MarkOutboxDispatched(r) \/ MarkError(r)
  BY <1>0, <1>9, ReturnTypes DEF MarkOutboxDispatched, MarkError
<1>. QED
  BY <1>1, <1>2, <1>3, <1>4, <1>5, <1>6, <1>7, <1>8, <1>9 DEF Once

\* The rows, the queue and what is left of the disruptions.
LEMMA OnceRowTypes ==
    ASSUME OutboxTypeOK, NEW r \in Relays, Once(r)
    PROVE  /\ state' \in [Events -> RowState]
           /\ id' \in [Events -> Nat]
           /\ attempts' \in [Events -> Nat]
           /\ leased' \in [Events -> BOOLEAN]
           /\ queueUp' \in BOOLEAN
           /\ published' \in [Events -> 0..2]
<1>. USE DEF OutboxTypeOK, rowVars, queueVars
<1>1. CASE ClaimOutboxBatch(r)
  BY <1>1 DEF ClaimOutboxBatch
<1>2. CASE DrainNothing(r) \/ StopPublishing(r) \/ Probe(r) \/ ChargeError(r) \/ MarkError(r)
  BY <1>2 DEF DrainNothing, StopPublishing, Probe, ChargeError, MarkError
<1>3. ASSUME NEW e \in Events, PublishOk(r, e) \/ PublishFails(r, e)
      PROVE  published' \in [Events -> 0..2] /\ UNCHANGED <<rowVars, queueUp>>
  BY <1>3 DEF PublishOk, PublishFails, Landed
<1>4. CASE Release(r)
  BY <1>4 DEF Release
<1>5. CASE RecordOutboxFailure(r)
  <2>1. failing[r] \in Events
    BY <1>5 DEF RecordOutboxFailure, Holding
  <2>2. attempts[failing[r]] + 1 \in Nat
    BY <2>1
  <2>. QED
    BY <1>5, <2>1, <2>2 DEF RecordOutboxFailure, Charged
<1>6. CASE MarkOutboxFailed(r) \/ MarkOutboxDispatched(r)
  BY <1>6 DEF MarkOutboxFailed, MarkOutboxDispatched, RowState
<1>. QED
  BY <1>1, <1>2, <1>3, <1>4, <1>5, <1>6 DEF Once

LEMMA StepOutboxTypes == OutboxTypeOK /\ OutboxStep => OutboxTypeOK'
<1>. SUFFICES ASSUME OutboxTypeOK, OutboxStep PROVE OutboxTypeOK'
  OBVIOUS
<1>0. disruptions' \in Nat
  BY DEF OutboxStep
<1>1. ASSUME NEW e \in Events, InsertOutboxEvent(e) PROVE OutboxTypeOK'
  <2>1. IsFiniteSet(Events)
    BY OutboxAssumption
  <2>2. Cardinality({f \in Events : id[f] > 0}) + 1 \in Nat
    BY <2>1, FS_Subset, FS_CardinalityType
  <2>3. LocalTypes'
    BY <1>1 DEF InsertOutboxEvent, onceVars, OutboxTypeOK, LocalTypes, Holding, InHand
  <2>. QED
    BY <1>0, <1>1, <2>2, <2>3 DEF InsertOutboxEvent, queueVars, OutboxTypeOK, LocalTypes, RowState
<1>2. ASSUME NEW r \in Relays, Once(r) PROVE OutboxTypeOK'
  BY <1>0, <1>2, OnceLocalTypes, OnceRowTypes DEF OutboxTypeOK, LocalTypes
<1>3. CASE Surroundings
  <2>. USE DEF rowVars, queueVars, onceVars
  <2>1. ASSUME NEW r \in Relays, Crash(r) PROVE OutboxTypeOK'
    <3>1. LocalTypes'
      <4>1. InHand(r)' = {} /\ batch'[r] = {} /\ pc'[r] = "idle"
        BY <2>1 DEF Crash, OutboxTypeOK, InHand
      <4>2. ASSUME NEW q \in Relays, q # r PROVE Same(q) /\ InHand(q)' = InHand(q)
        BY <2>1, <4>2 DEF Crash, OutboxTypeOK, Same, InHand
      <4>3. Holding'
        BY <4>1, <4>2 DEF OutboxTypeOK, Holding, Same
      <4>4. /\ mode' \in [Relays -> Mode]
            /\ pc' \in [Relays -> Place]
            /\ failing' \in [Relays -> Events \cup {NoEvent}]
        BY <2>1 DEF Crash, OutboxTypeOK, Place, Mode
      <4>5. /\ batch' \in [Relays -> SUBSET Events]
            /\ dispatched' \in [Relays -> SUBSET Events]
            /\ giveBack' \in [Relays -> SUBSET Events]
            /\ seen' \in [Relays -> [Events -> Nat]]
        BY <2>1 DEF Crash, OutboxTypeOK
      <4>. QED
        BY <4>3, <4>4, <4>5 DEF LocalTypes
    <3>. QED
      BY <1>0, <2>1, <3>1 DEF Crash, OutboxTypeOK, LocalTypes
  <2>2. ASSUME NEW r \in Relays, Shutdown(r) \/ DrainTimeout(r) \/ Restart(r) PROVE OutboxTypeOK'
    BY <1>0, <2>2 DEF Shutdown, DrainTimeout, Restart, OutboxTypeOK, Holding, InHand, Mode
  <2>3. CASE QueueDown \/ QueueBack
    BY <1>0, <2>3 DEF QueueDown, QueueBack, OutboxTypeOK, Holding, InHand
  <2>4. ASSUME NEW e \in Events, LeaseExpires(e) PROVE OutboxTypeOK'
    BY <1>0, <2>4 DEF LeaseExpires, OutboxTypeOK, Holding, InHand
  <2>. QED
    BY <1>3, <2>1, <2>2, <2>3, <2>4 DEF Surroundings
<1>4. CASE UNCHANGED <<rowVars, queueVars, mode, pc, onceVars>>
  BY <1>0, <1>4 DEF rowVars, queueVars, onceVars, OutboxTypeOK, Holding, InHand
<1>. QED
  BY <1>1, <1>2, <1>3, <1>4 DEF OutboxStep

\* Every variable keeps its type and every relay what its place in Once
\* requires, under all faults.
THEOREM OutboxTyped == OutboxSpec => []OutboxTypeOK
<1>1. OutboxTypeOK /\ [OutboxNext]_outboxVars => OutboxTypeOK'
  BY NextIsStep, StepOutboxTypes
<1>. QED
  BY InitOutboxTypes, <1>1, PTL DEF OutboxSpec

-----------------------------------------------------------------------------
(* What is marked has been published: no assumption on the faults *)

\* The inductive strengthening: the rows a relay is going to mark are those it
\* has published, and a publication is not undone.
MarksPublished ==
    /\ DispatchedIsPublished
    /\ \A r \in Relays, e \in Events : e \in dispatched[r] => published[e] > 0

LEMMA KeepsPublished ==
    ASSUME OutboxTypeOK, MarksPublished,
           \A e \in Events : published'[e] >= published[e],
           \A r \in Relays : dispatched'[r] \subseteq dispatched[r],
           \A e \in Events : state'[e] = "DISPATCHED" =>
               state[e] = "DISPATCHED" \/ \E r \in Relays : e \in dispatched[r],
           published' \in [Events -> 0..2]
    PROVE  MarksPublished'
<1>1. \A e \in Events : published[e] > 0 => published'[e] > 0
  BY DEF OutboxTypeOK
<1>. QED
  BY <1>1 DEF MarksPublished, DispatchedIsPublished

\* What Return and MarkOrReturn keep of what was published.
LEMMA ReturnDispatched ==
    ASSUME OutboxTypeOK, NEW r \in Relays, Return(r) \/ MarkOrReturn(r)
    PROVE  \A q \in Relays : dispatched'[q] \subseteq dispatched[q]
  BY DEF OutboxTypeOK, Return, MarkOrReturn

LEMMA PublishedGrows ==
    ASSUME OutboxTypeOK, NEW e \in Events, Landed(e) \/ UNCHANGED published
    PROVE  \A f \in Events : published'[f] >= published[f]
<1>1. published \in [Events -> 0..2]
  BY DEF OutboxTypeOK
<1>2. ASSUME NEW f \in Events PROVE published[f] \in 0..2 /\ published[f] >= published[f]
  BY <1>1
<1>3. ASSUME NEW f \in Events, Landed(e) PROVE published'[f] >= published[f]
  BY <1>1, <1>2, <1>3 DEF Landed
<1>. QED
  BY <1>2, <1>3

LEMMA StepMarksPublished ==
    OutboxTypeOK /\ OutboxTypeOK' /\ MarksPublished /\ OutboxStep => MarksPublished'
<1>. SUFFICES ASSUME OutboxTypeOK, OutboxTypeOK', MarksPublished, OutboxStep
              PROVE  MarksPublished'
  OBVIOUS
<1>. USE DEF rowVars, queueVars, onceVars
<1>0. published' \in [Events -> 0..2] /\ published \in [Events -> 0..2]
  BY DEF OutboxTypeOK
<1>1. CASE \E e \in Events : InsertOutboxEvent(e)
  BY <1>0, <1>1, KeepsPublished DEF InsertOutboxEvent, OutboxTypeOK
<1>2. ASSUME NEW r \in Relays, NEW e \in Events, PublishOk(r, e) PROVE MarksPublished'
  <2>1. /\ state' = state
        /\ dispatched' = [dispatched EXCEPT ![r] = @ \cup {e}]
        /\ published' = [published EXCEPT ![e] = IF @ < 2 THEN @ + 1 ELSE @]
    BY <1>2 DEF PublishOk, Landed
  <2>2. published'[e] > 0
    BY <1>0, <2>1
  <2>3. \A f \in Events : published[f] > 0 => published'[f] > 0
    BY <1>0, <2>1
  <2>4. ASSUME NEW q \in Relays, NEW f \in Events, f \in dispatched'[q]
        PROVE  f \in dispatched[q] \/ f = e
    BY <2>1, <2>4 DEF OutboxTypeOK
  <2>. QED
    BY <2>1, <2>2, <2>3, <2>4 DEF MarksPublished, DispatchedIsPublished
<1>3. ASSUME NEW r \in Relays, NEW e \in Events, PublishFails(r, e) PROVE MarksPublished'
  <2>1. Landed(e) \/ UNCHANGED published
    BY <1>3 DEF PublishFails
  <2>2. state' = state /\ dispatched' = dispatched
    BY <1>3 DEF PublishFails
  <2>. QED
    BY <1>0, <2>1, <2>2, PublishedGrows, KeepsPublished
<1>4. ASSUME NEW r \in Relays, MarkOutboxDispatched(r) PROVE MarksPublished'
  <2>1. \A e \in Events : state'[e] = "DISPATCHED" => state[e] = "DISPATCHED" \/ e \in dispatched[r]
    BY <1>4 DEF MarkOutboxDispatched, Marked
  <2>2. published' = published /\ \A q \in Relays : dispatched'[q] \subseteq dispatched[q]
    BY <1>4, ReturnDispatched DEF MarkOutboxDispatched
  <2>. QED
    BY <1>0, <2>1, <2>2, KeepsPublished
<1>5. ASSUME NEW r \in Relays, MarkOutboxFailed(r) PROVE MarksPublished'
  <2>1. \A e \in Events : state'[e] = "DISPATCHED" => state[e] = "DISPATCHED"
    BY <1>5 DEF MarkOutboxFailed, OutboxTypeOK
  <2>2. published' = published /\ \A q \in Relays : dispatched'[q] \subseteq dispatched[q]
    BY <1>5, ReturnDispatched DEF MarkOutboxFailed
  <2>. QED
    BY <1>0, <2>1, <2>2, KeepsPublished
<1>6. ASSUME NEW r \in Relays,
             DrainNothing(r) \/ Release(r) \/ RecordOutboxFailure(r) \/ ChargeError(r) \/ MarkError(r)
      PROVE  MarksPublished'
  BY <1>0, <1>6, KeepsPublished, ReturnDispatched
  DEF DrainNothing, Release, RecordOutboxFailure, ChargeError, MarkError, GoTo
<1>7. ASSUME NEW r \in Relays, ClaimOutboxBatch(r) \/ StopPublishing(r) \/ Probe(r)
      PROVE  MarksPublished'
  BY <1>0, <1>7, KeepsPublished DEF ClaimOutboxBatch, StopPublishing, Probe
<1>8. CASE Surroundings
  <2>1. UNCHANGED <<state, published>>
    BY <1>8 DEF Surroundings, Shutdown, DrainTimeout, Restart, Crash, QueueDown, QueueBack, LeaseExpires
  <2>2. \A r \in Relays : dispatched'[r] \subseteq dispatched[r]
    <3>1. ASSUME NEW q \in Relays, Crash(q) PROVE \A r \in Relays : dispatched'[r] \subseteq dispatched[r]
      BY <3>1 DEF Crash, OutboxTypeOK
    <3>2. dispatched' = dispatched \/ \E q \in Relays : Crash(q)
      BY <1>8 DEF Surroundings, Shutdown, DrainTimeout, Restart, QueueDown, QueueBack, LeaseExpires
    <3>. QED
      BY <3>1, <3>2
  <2>. QED
    BY <1>0, <2>1, <2>2, KeepsPublished
<1>9. CASE UNCHANGED <<rowVars, queueVars, mode, pc, onceVars>>
  BY <1>0, <1>9, KeepsPublished
<1>. QED
  BY <1>1, <1>2, <1>3, <1>4, <1>5, <1>6, <1>7, <1>8, <1>9 DEF OutboxStep, Once

LEMMA InitMarksPublished == OutboxInit => MarksPublished
  BY DEF OutboxInit, MarksPublished, DispatchedIsPublished

\* No fault, crash or rival makes a relay close a row it has not published.
THEOREM OnlyPublished == OutboxSpec => []DispatchedIsPublished
<1>1. OutboxTypeOK /\ OutboxTypeOK' /\ MarksPublished /\ [OutboxNext]_outboxVars => MarksPublished'
  BY NextIsStep, StepMarksPublished
<1>2. MarksPublished => DispatchedIsPublished
  BY DEF MarksPublished
<1>. QED
  BY OutboxTyped, InitMarksPublished, <1>1, <1>2, PTL DEF OutboxSpec

\* The same, with the types: what the run checks.
THEOREM OutboxIsSound == OutboxSpec => []OutboxSound
<1>1. OutboxTypeOK /\ DispatchedIsPublished => OutboxSound
  BY DEF OutboxSound
<1>. QED
  BY <1>1, OutboxTyped, OnlyPublished, PTL

-----------------------------------------------------------------------------
(* Only poison is parked: no publication fails ambiguously *)

NoTimeoutFault == "timeout" \notin Faults

\* A row on its way to being charged is one the queue refuses, or its relay
\* can no longer write the verdict.
BlamesPoison ==
    /\ FailedIsPoison
    /\ \A r \in Relays :
        (pc[r] \in {"probe", "release", "charge"} /\ failing[r] # NoEvent) =>
            failing[r] \in Poison \/ Dead(r)

\* A step of Surroundings leaves Dead a relay that is, unless Once has ended.
LEMMA DeadStays ==
    ASSUME OutboxTypeOK, Surroundings, NEW r \in Relays, pc'[r] # "idle", Dead(r)
    PROVE  Dead(r)'
  BY DEF Surroundings, Shutdown, DrainTimeout, Restart, Crash, QueueDown, QueueBack,
         LeaseExpires, OutboxTypeOK, Dead

\* A step of relay r that parks no row and blames no more rows than before.
LEMMA KeepsBlame ==
    ASSUME OutboxTypeOK, BlamesPoison, NEW r \in Relays,
           \A e \in Events : state'[e] = "FAILED" => state[e] = "FAILED",
           \A q \in Relays : q # r =>
               pc'[q] = pc[q] /\ mode'[q] = mode[q] /\ failing'[q] = failing[q],
           \/ pc'[r] \notin {"probe", "release", "charge"}
           \/ failing'[r] = NoEvent
           \/ /\ pc[r] \in {"probe", "release", "charge"}
              /\ failing'[r] = failing[r]
              /\ mode'[r] = mode[r]
    PROVE  BlamesPoison'
  BY DEF BlamesPoison, FailedIsPoison, Dead

LEMMA ReturnBlame ==
    ASSUME OutboxTypeOK, NEW r \in Relays, Return(r) \/ MarkOrReturn(r)
    PROVE  /\ pc'[r] \notin {"probe", "release", "charge"}
           /\ \A q \in Relays : q # r =>
                pc'[q] = pc[q] /\ mode'[q] = mode[q] /\ failing'[q] = failing[q]
  BY DEF OutboxTypeOK, Return, MarkOrReturn, GoTo

LEMMA StepBlamesPoison ==
    NoTimeoutFault /\ OutboxTypeOK /\ BlamesPoison /\ OutboxStep => BlamesPoison'
<1>. SUFFICES ASSUME NoTimeoutFault, OutboxTypeOK, BlamesPoison, OutboxStep
              PROVE  BlamesPoison'
  OBVIOUS
<1>. USE DEF rowVars, queueVars, onceVars
<1>1. CASE \E e \in Events : InsertOutboxEvent(e)
  BY <1>1 DEF InsertOutboxEvent, OutboxTypeOK, BlamesPoison, FailedIsPoison, Dead
<1>2. ASSUME NEW r \in Relays, Once(r) PROVE BlamesPoison'
  <2>1. CASE ClaimOutboxBatch(r) \/ StopPublishing(r)
    <3>1. failing'[r] = NoEvent
      BY <2>1 DEF ClaimOutboxBatch, StopPublishing, OutboxTypeOK, Holding, InHand
    <3>. QED
      BY <2>1, <3>1, KeepsBlame DEF ClaimOutboxBatch, StopPublishing, GoTo, OutboxTypeOK
  <2>2. CASE DrainNothing(r) \/ ChargeError(r) \/ MarkError(r) \/ RecordOutboxFailure(r)
    BY <2>2, ReturnBlame, KeepsBlame
    DEF DrainNothing, ChargeError, MarkError, RecordOutboxFailure
  <2>3. ASSUME NEW e \in Events, PublishOk(r, e) PROVE BlamesPoison'
    BY <2>3, KeepsBlame DEF PublishOk, GoTo, OutboxTypeOK
  <2>4. ASSUME NEW e \in Events, PublishFails(r, e) PROVE BlamesPoison'
    <3>1. /\ state' = state /\ mode' = mode
          /\ failing' = [failing EXCEPT ![r] = e]
          /\ \/ pc' = [pc EXCEPT ![r] = "probeOutage"]
             \/ pc' = [pc EXCEPT ![r] = "probe"] /\ (e \in Poison \/ Dead(r))
      BY <2>4 DEF NoTimeoutFault, PublishFails, GoTo, Disrupt
    <3>. QED
      BY <3>1 DEF BlamesPoison, FailedIsPoison, OutboxTypeOK, Dead
  <2>5. CASE Probe(r)
    <3>1. failing'[r] = NoEvent \/ (pc[r] = "probe" /\ failing' = failing)
      BY <2>5 DEF NoTimeoutFault, Probe, Disrupt, BlamesRow, OutboxTypeOK
    <3>. QED
      BY <2>5, <3>1, KeepsBlame DEF Probe, GoTo, OutboxTypeOK
  <2>6. CASE Release(r)
    <3>1. CASE failing[r] # NoEvent
      BY <2>6, <3>1, KeepsBlame DEF Release, GoTo, OutboxTypeOK
    <3>2. CASE failing[r] = NoEvent
      BY <2>6, <3>2, ReturnBlame, KeepsBlame DEF Release
    <3>. QED
      BY <3>1, <3>2
  <2>7. CASE MarkOutboxFailed(r)
    <3>1. failing[r] \in Poison
      BY <2>7 DEF MarkOutboxFailed, BlamesPoison, OutboxTypeOK, Holding
    <3>2. \A e \in Events : state'[e] = "FAILED" => state[e] = "FAILED" \/ e \in Poison
      BY <2>7, <3>1 DEF MarkOutboxFailed, OutboxTypeOK
    <3>3. FailedIsPoison'
      BY <3>2 DEF BlamesPoison, FailedIsPoison
    <3>. QED
      BY <2>7, <3>3, ReturnBlame DEF MarkOutboxFailed, BlamesPoison, Dead
  <2>8. CASE MarkOutboxDispatched(r)
    <3>1. \A e \in Events : state'[e] = "FAILED" => state[e] = "FAILED"
      BY <2>8 DEF MarkOutboxDispatched
    <3>. QED
      BY <2>8, <3>1, ReturnBlame, KeepsBlame DEF MarkOutboxDispatched
  <2>. QED
    BY <1>2, <2>1, <2>2, <2>3, <2>4, <2>5, <2>6, <2>7, <2>8 DEF Once
<1>3. CASE Surroundings
  <2>1. state' = state
    BY <1>3 DEF Surroundings, Shutdown, DrainTimeout, Restart, Crash, QueueDown, QueueBack, LeaseExpires
  <2>2. ASSUME NEW r \in Relays, pc'[r] # "idle"
        PROVE  pc'[r] = pc[r] /\ failing'[r] = failing[r]
    BY <1>3, <2>2 DEF Surroundings, Shutdown, DrainTimeout, Restart, Crash, QueueDown,
                      QueueBack, LeaseExpires, OutboxTypeOK
  <2>. QED
    BY <1>3, <2>1, <2>2, DeadStays DEF BlamesPoison, FailedIsPoison
<1>4. CASE UNCHANGED <<rowVars, queueVars, mode, pc, onceVars>>
  BY <1>4 DEF BlamesPoison, FailedIsPoison, Dead
<1>. QED
  BY <1>1, <1>2, <1>3, <1>4 DEF OutboxStep

LEMMA InitBlamesPoison == OutboxInit => BlamesPoison
  BY DEF OutboxInit, BlamesPoison, FailedIsPoison

\* As long as no publication times out, an outage, a failed statement, a slow
\* relay, a shutdown or a crash parks no row the queue would have taken.
THEOREM OnlyPoison ==
    ASSUME NoTimeoutFault
    PROVE  OutboxSpec => []FailedIsPoison
<1>1. OutboxTypeOK /\ BlamesPoison /\ [OutboxNext]_outboxVars => BlamesPoison'
  BY NextIsStep, StepBlamesPoison
<1>2. BlamesPoison => FailedIsPoison
  BY DEF BlamesPoison
<1>. QED
  BY OutboxTyped, InitBlamesPoison, <1>1, <1>2, PTL DEF OutboxSpec

-----------------------------------------------------------------------------
(* Relays never share a row nor overspend its budget: leases outlast holders *)

NoSlowFault == "slow" \notin Faults

\* A relay holds each of its rows in one capacity.
Apart(r) ==
    /\ batch[r] \cap dispatched[r] = {}
    /\ batch[r] \cap giveBack[r] = {}
    /\ dispatched[r] \cap giveBack[r] = {}
    /\ failing[r] \notin batch[r] \cup dispatched[r] \cup giveBack[r]

\* A row in hand is leased and pending, and stands as its relay claimed it.
AsClaimed(r) ==
    \A e \in InHand(r) : leased[e] /\ state[e] = "PENDING" /\ seen[r][e] = attempts[e]

Leases ==
    /\ LeaseExcludes
    /\ BudgetHeld
    /\ \A r \in Relays : Apart(r) /\ AsClaimed(r)

\* Relay r lays rows down and writes, if anything, to those.
LEMMA HandsShrink ==
    ASSUME OutboxTypeOK, Leases, NEW r \in Relays,
           \A q \in Relays : q # r => Same(q) /\ seen'[q] = seen[q],
           InHand(r)' \subseteq InHand(r),
           InHand(r)' = {} \/ seen'[r] = seen[r],
           \A e \in Events : e \in InHand(r) \ InHand(r)' \/
               (leased'[e] = leased[e] /\ state'[e] = state[e] /\ attempts'[e] = attempts[e]),
           Apart(r)', BudgetHeld'
    PROVE  Leases'
<1>1. ASSUME NEW q \in Relays, q # r
      PROVE  InHand(q)' = InHand(q) /\ Apart(q)' /\ InHand(q) \cap InHand(r) = {}
  BY <1>1 DEF Same, InHand, Apart, Leases, LeaseExcludes
<1>2. \A q \in Relays : InHand(q)' \subseteq InHand(q) /\ Apart(q)'
  BY <1>1
<1>3. LeaseExcludes'
  BY <1>2 DEF Leases, LeaseExcludes
<1>4. \A q \in Relays : InHand(q) \subseteq Events
  BY DEF OutboxTypeOK, InHand
<1>5. ASSUME NEW q \in Relays, NEW e \in InHand(q)'
      PROVE  leased'[e] /\ state'[e] = "PENDING" /\ seen'[q][e] = attempts'[e]
  <2>1. e \in InHand(q) /\ e \in Events
    BY <1>2, <1>4, <1>5
  <2>2. leased[e] /\ state[e] = "PENDING" /\ seen[q][e] = attempts[e]
    BY <2>1 DEF Leases, AsClaimed
  <2>3. e \notin InHand(r) \ InHand(r)'
    BY <1>1, <1>5, <2>1
  <2>4. seen'[q] = seen[q]
    BY <1>5
  <2>. QED
    BY <2>1, <2>2, <2>3, <2>4
<1>. QED
  BY <1>2, <1>3, <1>5 DEF Leases, AsClaimed

\* What Return and MarkOrReturn leave in the hands of r.
LEMMA ReturnHands ==
    ASSUME OutboxTypeOK, NEW r \in Relays, pc[r] # "publish", Return(r) \/ MarkOrReturn(r)
    PROVE  /\ \A q \in Relays : q # r => Same(q) /\ seen'[q] = seen[q]
           /\ InHand(r)' \subseteq dispatched[r]
           /\ InHand(r)' = {} \/ seen'[r] = seen[r]
           /\ Apart(r)'
<1>1. batch[r] = {} /\ NoEvent \notin dispatched[r]
  BY OutboxAssumption DEF OutboxTypeOK, Holding
<1>2. CASE Return(r)
  BY <1>2 DEF Return, OutboxTypeOK, InHand, Same, Apart
<1>3. CASE MarkOrReturn(r) /\ ~Return(r)
  BY <1>1, <1>3 DEF MarkOrReturn, GoTo, OutboxTypeOK, InHand, Same, Apart
<1>. QED
  BY <1>2, <1>3

LEMMA ClaimLeases ==
    ASSUME OutboxTypeOK, Leases, NEW r \in Relays, ClaimOutboxBatch(r)
    PROVE  Leases'
<1>1. PICK b \in Batches :
          /\ leased' = [e \in Events |-> e \in b \/ leased[e]]
          /\ batch' = [batch EXCEPT ![r] = b]
          /\ seen' = [seen EXCEPT ![r] = attempts]
  BY DEF ClaimOutboxBatch
<1>2. b \subseteq Events /\ \A e \in b : state[e] = "PENDING" /\ ~leased[e]
  BY DEF Batches, Claimable, Pending
<1>3. UNCHANGED <<state, attempts, dispatched, failing, giveBack>>
  BY DEF ClaimOutboxBatch
<1>4. dispatched[r] = {} /\ giveBack[r] = {} /\ failing[r] = NoEvent
  BY DEF ClaimOutboxBatch, OutboxTypeOK, Holding, InHand
<1>5. InHand(r)' = b /\ Apart(r)'
  BY <1>1, <1>2, <1>3, <1>4, OutboxAssumption DEF OutboxTypeOK, InHand, Apart
<1>6. ASSUME NEW q \in Relays, q # r
      PROVE  InHand(q)' = InHand(q) /\ Apart(q)' /\ seen'[q] = seen[q]
  BY <1>1, <1>3, <1>6 DEF OutboxTypeOK, InHand, Apart, Leases
<1>7. \A q \in Relays : b \cap InHand(q) = {}
  BY <1>2 DEF Leases, AsClaimed
<1>8. LeaseExcludes'
  BY <1>5, <1>6, <1>7 DEF Leases, LeaseExcludes
<1>9. AsClaimed(r)'
  BY <1>1, <1>2, <1>3, <1>5 DEF OutboxTypeOK, AsClaimed
<1>10. ASSUME NEW q \in Relays, q # r PROVE AsClaimed(q)'
  <2>1. InHand(q) \subseteq Events
    BY DEF OutboxTypeOK, InHand
  <2>2. ASSUME NEW e \in InHand(q)
        PROVE  leased'[e] /\ state'[e] = "PENDING" /\ seen'[q][e] = attempts'[e]
    <3>1. leased[e] /\ state[e] = "PENDING" /\ seen[q][e] = attempts[e] /\ e \in Events
      BY <2>1 DEF AsClaimed, Leases
    <3>. QED
      BY <1>1, <1>3, <1>6, <1>10, <3>1
  <2>3. InHand(q)' = InHand(q)
    BY <1>6, <1>10
  <2>. QED
    BY <2>2, <2>3 DEF AsClaimed
<1>. QED
  BY <1>3, <1>5, <1>6, <1>8, <1>9, <1>10 DEF Leases, BudgetHeld

LEMMA OnceLeases ==
    ASSUME OutboxTypeOK, Leases, NEW r \in Relays, Once(r)
    PROVE  Leases'
<1>. USE OutboxAssumption DEF rowVars, queueVars
<1>0. /\ Apart(r) /\ BudgetHeld
      /\ InHand(r) \subseteq Events
  BY DEF Leases, OutboxTypeOK, InHand
<1>1. ASSUME UNCHANGED rowVars PROVE BudgetHeld'
  BY <1>0, <1>1 DEF BudgetHeld
<1>2. CASE DrainNothing(r) \/ ChargeError(r) \/ MarkError(r)
  <2>1. pc[r] # "publish" /\ (Return(r) \/ MarkOrReturn(r)) /\ UNCHANGED rowVars
    BY <1>2 DEF DrainNothing, ChargeError, MarkError
  <2>. QED
    BY <1>1, <2>1, ReturnHands, HandsShrink DEF InHand
<1>3. ASSUME NEW e \in Events, PublishOk(r, e) PROVE Leases'
  <2>1. /\ e \in batch[r]
        /\ batch' = [batch EXCEPT ![r] = @ \ {e}]
        /\ dispatched' = [dispatched EXCEPT ![r] = @ \cup {e}]
        /\ UNCHANGED <<failing, giveBack, seen, rowVars>>
        /\ \A q \in Relays : q # r => pc'[q] = pc[q]
    BY <1>3 DEF PublishOk, First, GoTo, OutboxTypeOK
  <2>2. batch'[r] = batch[r] \ {e} /\ dispatched'[r] = dispatched[r] \cup {e}
    BY <2>1 DEF OutboxTypeOK
  <2>3. InHand(r)' = InHand(r)
    BY <2>1, <2>2 DEF InHand
  <2>4. failing[r] = NoEvent
    BY <1>3 DEF PublishOk, OutboxTypeOK, Holding
  <2>5. Apart(r)'
    BY <1>0, <2>1, <2>2, <2>4 DEF Apart, OutboxTypeOK
  <2>6. \A q \in Relays : q # r => Same(q) /\ seen'[q] = seen[q]
    BY <2>1 DEF Same, OutboxTypeOK
  <2>. QED
    BY <1>1, <2>1, <2>3, <2>5, <2>6, HandsShrink
<1>4. ASSUME NEW e \in Events, PublishFails(r, e) PROVE Leases'
  <2>1. /\ e \in batch[r]
        /\ batch' = [batch EXCEPT ![r] = {}]
        /\ failing' = [failing EXCEPT ![r] = e]
        /\ giveBack' = [giveBack EXCEPT ![r] = batch[r] \ {e}]
        /\ UNCHANGED <<dispatched, seen, rowVars>>
        /\ \A q \in Relays : q # r => pc'[q] = pc[q]
    BY <1>4 DEF PublishFails, First, GoTo, OutboxTypeOK
  <2>2. batch'[r] = {} /\ failing'[r] = e /\ giveBack'[r] = batch[r] \ {e}
    BY <2>1 DEF OutboxTypeOK
  <2>3. InHand(r)' \subseteq InHand(r)
    BY <2>1, <2>2 DEF InHand
  <2>4. Apart(r)'
    BY <1>0, <2>1, <2>2 DEF Apart
  <2>5. \A q \in Relays : q # r => Same(q) /\ seen'[q] = seen[q]
    BY <2>1 DEF Same, OutboxTypeOK
  <2>. QED
    BY <1>1, <2>1, <2>3, <2>4, <2>5, HandsShrink
<1>5. CASE StopPublishing(r)
  <2>1. /\ batch'[r] = {} /\ giveBack'[r] = batch[r]
        /\ UNCHANGED <<dispatched, failing, seen, rowVars>>
        /\ \A q \in Relays : q # r => Same(q)
    BY <1>5 DEF StopPublishing, GoTo, Same, OutboxTypeOK
  <2>2. InHand(r)' \subseteq InHand(r) /\ Apart(r)'
    BY <1>0, <2>1 DEF InHand, Apart
  <2>. QED
    BY <1>1, <2>1, <2>2, HandsShrink
<1>6. CASE Probe(r)
  <2>1. /\ UNCHANGED <<batch, dispatched, seen, rowVars>>
        /\ \A q \in Relays : q # r => Same(q)
        /\ \/ UNCHANGED <<failing, giveBack>>
           \/ failing'[r] = NoEvent /\ giveBack'[r] = giveBack[r] \cup {failing[r]}
    BY <1>6 DEF Probe, GoTo, Same, OutboxTypeOK
  <2>2. failing[r] \in Events
    BY <1>6 DEF Probe, OutboxTypeOK, Holding
  <2>3. InHand(r)' \subseteq InHand(r) /\ Apart(r)'
    BY <1>0, <2>1, <2>2 DEF InHand, Apart, OutboxTypeOK
  <2>. QED
    BY <1>1, <2>1, <2>3, HandsShrink
<1>7. CASE Release(r)
  <2>1. /\ UNCHANGED <<state, attempts>>
        /\ \A e \in Events : leased'[e] = leased[e] \/ e \in giveBack[r]
    BY <1>7 DEF Release, OutboxTypeOK
  <2>2. BudgetHeld'
    BY <1>0, <2>1 DEF BudgetHeld
  <2>3. batch[r] = {} /\ pc[r] # "publish"
    BY <1>7 DEF Release, OutboxTypeOK, Holding
  <2>4. giveBack[r] \subseteq InHand(r) /\ dispatched[r] \subseteq InHand(r)
    BY DEF InHand
  <2>5. CASE failing[r] = NoEvent
    <3>1. MarkOrReturn(r)
      BY <1>7, <2>5 DEF Release
    <3>2. giveBack[r] \cap InHand(r)' = {}
      BY <1>0, <2>3, <3>1, ReturnHands DEF Apart
    <3>. QED
      BY <2>1, <2>2, <2>3, <2>4, <3>1, <3>2, ReturnHands, HandsShrink
  <2>6. CASE failing[r] # NoEvent
    <3>1. /\ giveBack'[r] = {}
          /\ UNCHANGED <<batch, dispatched, failing, seen>>
          /\ \A q \in Relays : q # r => Same(q)
      BY <1>7, <2>6 DEF Release, GoTo, Same, OutboxTypeOK
    <3>2. InHand(r)' \subseteq InHand(r) /\ Apart(r)' /\ giveBack[r] \cap InHand(r)' = {}
      BY <1>0, <2>3, <3>1 DEF InHand, Apart
    <3>. QED
      BY <2>1, <2>2, <2>4, <3>1, <3>2, HandsShrink
  <2>. QED
    BY <2>5, <2>6
<1>8. CASE RecordOutboxFailure(r) \/ MarkOutboxFailed(r)
  <2>1. pc[r] = "charge" /\ MarkOrReturn(r) /\ failing[r] \in Events
    BY <1>8 DEF RecordOutboxFailure, MarkOutboxFailed, OutboxTypeOK, Holding
  <2>2. failing[r] \in InHand(r) \ InHand(r)'
    BY <1>0, <2>1, ReturnHands DEF InHand, Apart
  <2>3. \A e \in Events : e # failing[r] =>
            leased'[e] = leased[e] /\ state'[e] = state[e] /\ attempts'[e] = attempts[e]
    BY <1>8, <2>1 DEF RecordOutboxFailure, MarkOutboxFailed, OutboxTypeOK
  <2>4. attempts'[failing[r]] < MaxPublishAttempts
    <3>1. attempts[failing[r]] = seen[r][failing[r]] /\ attempts[failing[r]] < MaxPublishAttempts
      BY <1>0, <2>1, <2>2 DEF Leases, AsClaimed, BudgetHeld
    <3>2. CASE MarkOutboxFailed(r)
      BY <3>1, <3>2 DEF MarkOutboxFailed
    <3>3. CASE RecordOutboxFailure(r)
      <4>1. attempts[failing[r]] + 1 < MaxPublishAttempts
        BY <2>1, <3>1, <3>3 DEF RecordOutboxFailure, Exhausted, OutboxTypeOK
      <4>2. attempts'[failing[r]] = attempts[failing[r]] \/ attempts'[failing[r]] = attempts[failing[r]] + 1
        BY <2>1, <3>3 DEF RecordOutboxFailure, Charged, OutboxTypeOK
      <4>. QED
        BY <3>1, <4>1, <4>2
    <3>. QED
      BY <1>8, <3>2, <3>3
  <2>5. BudgetHeld'
    BY <1>0, <2>3, <2>4 DEF BudgetHeld
  <2>6. InHand(r)' \subseteq InHand(r)
    BY <2>1, ReturnHands DEF InHand
  <2>. QED
    BY <2>1, <2>2, <2>3, <2>5, <2>6, ReturnHands, HandsShrink
<1>9. CASE MarkOutboxDispatched(r)
  <2>1. /\ pc[r] = "mark" /\ Return(r) /\ UNCHANGED <<leased, attempts>>
        /\ \A e \in Events : e \notin dispatched[r] => state'[e] = state[e]
    BY <1>9 DEF MarkOutboxDispatched, Marked
  <2>2. InHand(r)' = {}
    BY <2>1 DEF Return, InHand, OutboxTypeOK
  <2>3. dispatched[r] \subseteq InHand(r) \ InHand(r)'
    BY <2>2 DEF InHand
  <2>4. BudgetHeld'
    BY <1>0, <2>1 DEF BudgetHeld
  <2>. QED
    BY <2>1, <2>2, <2>3, <2>4, ReturnHands, HandsShrink
<1>. QED
  BY <1>2, <1>3, <1>4, <1>5, <1>6, <1>7, <1>8, <1>9, ClaimLeases DEF Once

LEMMA StepLeases == NoSlowFault /\ OutboxTypeOK /\ Leases /\ OutboxStep => Leases'
<1>. SUFFICES ASSUME NoSlowFault, OutboxTypeOK, Leases, OutboxStep PROVE Leases'
  OBVIOUS
<1>. USE DEF rowVars, queueVars, onceVars
<1>0. \A q \in Relays : InHand(q) \subseteq Events
  BY DEF OutboxTypeOK, InHand
<1>1. ASSUME NEW e \in Events, state[e] = "NONE", InsertOutboxEvent(e) PROVE Leases'
  <2>1. \A q \in Relays : e \notin InHand(q)
    BY <1>1 DEF Leases, AsClaimed
  <2>2. \A f \in Events : f # e =>
            leased'[f] = leased[f] /\ state'[f] = state[f] /\ attempts'[f] = attempts[f]
    BY <1>1 DEF InsertOutboxEvent, OutboxTypeOK
  <2>3. UNCHANGED <<batch, seen, dispatched, failing, giveBack>>
    BY <1>1 DEF InsertOutboxEvent
  <2>4. \A q \in Relays : InHand(q)' = InHand(q) /\ Apart(q)'
    BY <2>3 DEF InHand, Apart, Leases
  <2>5. \A q \in Relays : AsClaimed(q)'
    BY <1>0, <2>1, <2>2, <2>3, <2>4 DEF AsClaimed, Leases
  <2>6. attempts'[e] = 0
    BY <1>1 DEF InsertOutboxEvent, OutboxTypeOK
  <2>7. BudgetHeld'
    BY <2>2, <2>6, OutboxAssumption DEF BudgetHeld, Leases
  <2>. QED
    BY <2>4, <2>5, <2>7 DEF Leases, LeaseExcludes
<1>2. ASSUME NEW r \in Relays, Crash(r) PROVE Leases'
  <2>1. /\ UNCHANGED rowVars /\ InHand(r)' = {} /\ Apart(r)'
        /\ \A q \in Relays : q # r => Same(q) /\ seen'[q] = seen[q]
    BY <1>2 DEF Crash, InHand, Apart, Same, OutboxTypeOK
  <2>. QED
    BY <2>1, HandsShrink DEF Leases, BudgetHeld
<1>3. ASSUME NEW e \in Events, LeaseExpires(e) PROVE Leases'
  <2>1. \A q \in Relays : e \notin InHand(q)
    BY <1>3 DEF NoSlowFault, LeaseExpires, Disrupt
  <2>2. /\ \A f \in Events : f # e => leased'[f] = leased[f]
        /\ UNCHANGED <<state, attempts, onceVars>>
    BY <1>3 DEF LeaseExpires, OutboxTypeOK
  <2>3. \A q \in Relays : InHand(q)' = InHand(q) /\ Apart(q)'
    BY <2>2 DEF InHand, Apart, Leases
  <2>4. \A q \in Relays : AsClaimed(q)'
    BY <1>0, <2>1, <2>2, <2>3 DEF AsClaimed, Leases
  <2>. QED
    BY <2>2, <2>3, <2>4 DEF Leases, LeaseExcludes, BudgetHeld
<1>4. CASE UNCHANGED <<rowVars, onceVars>>
  BY <1>4 DEF Leases, LeaseExcludes, BudgetHeld, Apart, AsClaimed, InHand
<1>5. Surroundings =>
          \/ \E r \in Relays : Crash(r)
          \/ \E e \in Events : LeaseExpires(e)
          \/ UNCHANGED <<rowVars, onceVars>>
  BY DEF Surroundings, Shutdown, DrainTimeout, Restart, QueueDown, QueueBack
<1>. QED
  BY <1>1, <1>2, <1>3, <1>4, <1>5, OnceLeases DEF OutboxStep

LEMMA InitLeases == OutboxInit => Leases
  BY OutboxAssumption
  DEF OutboxInit, Leases, LeaseExcludes, BudgetHeld, Apart, AsClaimed, InHand

LEMMA AlwaysLeases == ASSUME NoSlowFault PROVE OutboxSpec => []Leases
<1>1. OutboxTypeOK /\ Leases /\ [OutboxNext]_outboxVars => Leases'
  BY NextIsStep, StepLeases
<1>. QED
  BY OutboxTyped, InitLeases, <1>1, PTL DEF OutboxSpec

\* The lease holds: whatever crashes, is shut down or fails, no two relays work
\* on one row while no lease runs out under its holder; and no row is charged
\* MaxPublishAttempts times and left pending, although it is judged by the count
\* the claim returned.
THEOREM Leased == ASSUME NoSlowFault PROVE OutboxSpec => []LeasesHold
<1>1. Leases => LeasesHold
  BY DEF Leases, LeasesHold
<1>. QED
  BY AlwaysLeases, <1>1, PTL

-----------------------------------------------------------------------------
(* Nothing is published twice unless a fault cuts a relay short *)

\* Of the disruptions only an outage reaches the relays.
OnlyOutages == Faults \cap {"timeout", "store", "slow", "cancel", "crash"} = {}

\* What is on the stream is there once, and is marked or about to be.
OnceEach ==
    /\ PublishedOnce
    /\ \A r \in Relays : mode[r] = "running"
    /\ \A e \in Events : published[e] > 0 =>
           state[e] = "DISPATCHED" \/ \E r \in Relays : e \in dispatched[r]

\* A step that publishes nothing, forgets nothing and writes only to rows that
\* are not on the stream.
LEMMA KeepsOnceEach ==
    ASSUME OnceEach,
           published' = published,
           \A r \in Relays : mode'[r] = mode[r] /\ dispatched[r] \subseteq dispatched'[r],
           \A e \in Events : state[e] = "DISPATCHED" => state'[e] = "DISPATCHED"
    PROVE  OnceEach'
  BY DEF OnceEach, PublishedOnce

LEMMA OnceOnceEach ==
    ASSUME OnlyOutages, OutboxTypeOK, Leases, OnceEach, NEW r \in Relays, Once(r)
    PROVE  OnceEach'
<1>. USE DEF queueVars, rowVars
<1>0. mode[r] = "running" /\ ~Dead(r)
  BY DEF OnceEach, Dead
<1>1. \A e \in InHand(r) : e \in Events /\ state[e] = "PENDING"
  BY DEF Leases, AsClaimed, OutboxTypeOK, InHand
<1>2. ASSUME MarkOrReturn(r)
      PROVE  \A q \in Relays : mode'[q] = mode[q] /\ dispatched[q] \subseteq dispatched'[q]
  BY <1>0, <1>2 DEF MarkOrReturn, Return, GoTo, OutboxTypeOK
<1>3. CASE ClaimOutboxBatch(r) \/ StopPublishing(r) \/ Probe(r)
  BY <1>3, KeepsOnceEach DEF ClaimOutboxBatch, StopPublishing, Probe, GoTo
<1>4. ~DrainNothing(r) /\ ~MarkError(r)
  BY <1>0 DEF OnlyOutages, DrainNothing, MarkError, Disrupt
<1>5. ASSUME NEW e \in Events, PublishOk(r, e) PROVE OnceEach'
  <2>1. /\ published' = [published EXCEPT ![e] = IF @ < 2 THEN @ + 1 ELSE @]
        /\ dispatched' = [dispatched EXCEPT ![r] = @ \cup {e}]
        /\ state' = state /\ mode' = mode
        /\ e \in batch[r]
    BY <1>5 DEF PublishOk, Landed, First, GoTo
  <2>2. e \in InHand(r) /\ state[e] = "PENDING" /\ e \notin dispatched[r]
    BY <1>1, <2>1 DEF InHand, Leases, Apart
  <2>3. ASSUME NEW q \in Relays PROVE e \notin dispatched[q]
    BY <2>2 DEF Leases, LeaseExcludes, InHand
  <2>4. published[e] = 0
    BY <2>2, <2>3 DEF OnceEach, OutboxTypeOK
  <2>5. published'[e] = 1 /\ \A f \in Events : f # e => published'[f] = published[f]
    BY <2>1, <2>4 DEF OutboxTypeOK
  <2>6. e \in dispatched'[r] /\ \A q \in Relays : dispatched[q] \subseteq dispatched'[q]
    BY <2>1 DEF OutboxTypeOK
  <2>. QED
    BY <2>1, <2>5, <2>6 DEF OnceEach, PublishedOnce
<1>6. ASSUME NEW e \in Events, PublishFails(r, e) PROVE OnceEach'
  <2>1. published' = published
    BY <1>0, <1>6 DEF OnlyOutages, PublishFails, Disrupt
  <2>. QED
    BY <1>6, <2>1, KeepsOnceEach DEF PublishFails, GoTo
<1>7. CASE Release(r)
  BY <1>2, <1>7, KeepsOnceEach DEF Release, GoTo
<1>8. CASE RecordOutboxFailure(r) \/ ChargeError(r)
  BY <1>2, <1>8, KeepsOnceEach DEF RecordOutboxFailure, ChargeError
<1>9. CASE MarkOutboxFailed(r)
  <2>1. failing[r] \in InHand(r)
    BY <1>9 DEF MarkOutboxFailed, OutboxTypeOK, Holding, InHand
  <2>2. \A e \in Events : state[e] = "DISPATCHED" => state'[e] = "DISPATCHED"
    BY <1>1, <1>9, <2>1 DEF MarkOutboxFailed, OutboxTypeOK
  <2>. QED
    BY <1>2, <1>9, <2>2, KeepsOnceEach DEF MarkOutboxFailed
<1>10. CASE MarkOutboxDispatched(r)
  <2>1. /\ published' = published
        /\ \A q \in Relays : mode'[q] = mode[q] /\ (q # r => dispatched'[q] = dispatched[q])
    BY <1>0, <1>10 DEF MarkOutboxDispatched, Return, OutboxTypeOK
  <2>2. \A e \in Events : state[e] = "DISPATCHED" \/ e \in dispatched[r] => state'[e] = "DISPATCHED"
    BY <1>10 DEF MarkOutboxDispatched, Marked
  <2>. QED
    BY <2>1, <2>2 DEF OnceEach, PublishedOnce
<1>. QED
  BY <1>3, <1>4, <1>5, <1>6, <1>7, <1>8, <1>9, <1>10 DEF Once

LEMMA StepOnceEach ==
    OnlyOutages /\ OutboxTypeOK /\ Leases /\ OnceEach /\ OutboxStep => OnceEach'
<1>. SUFFICES ASSUME OnlyOutages, OutboxTypeOK, Leases, OnceEach, OutboxStep PROVE OnceEach'
  OBVIOUS
<1>. USE DEF rowVars, queueVars, onceVars
<1>1. ASSUME NEW e \in Events, state[e] = "NONE", InsertOutboxEvent(e) PROVE OnceEach'
  <2>1. \A f \in Events : state[f] = "DISPATCHED" => state'[f] = "DISPATCHED"
    BY <1>1 DEF InsertOutboxEvent, OutboxTypeOK
  <2>. QED
    BY <1>1, <2>1, KeepsOnceEach DEF InsertOutboxEvent
<1>2. CASE Surroundings
  <2>1. ASSUME NEW r \in Relays PROVE ~Shutdown(r) /\ ~DrainTimeout(r) /\ ~Restart(r) /\ ~Crash(r)
    BY DEF OnlyOutages, OnceEach, Shutdown, DrainTimeout, Restart, Crash, Disrupt
  <2>2. UNCHANGED <<state, published, mode, dispatched>>
    BY <1>2, <2>1 DEF Surroundings, QueueDown, QueueBack, LeaseExpires
  <2>. QED
    BY <2>2, KeepsOnceEach
<1>3. CASE UNCHANGED <<rowVars, queueVars, mode, pc, onceVars>>
  BY <1>3, KeepsOnceEach
<1>. QED
  BY <1>1, <1>2, <1>3, OnceOnceEach DEF OutboxStep

LEMMA InitOnceEach == OutboxInit => OnceEach
  BY DEF OutboxInit, OnceEach, PublishedOnce

LEMMA OutagesAreNotSlow == OnlyOutages => NoSlowFault
  BY DEF OnlyOutages, NoSlowFault

\* Outages, poison rows and rival relays cause no duplicate: only a publication
\* that times out, a failed statement, an expired lease, a shutdown or a crash
\* can put an event on the stream twice.
THEOREM NoDuplicate == ASSUME OnlyOutages PROVE OutboxSpec => []PublishedOnce
<1>1. OutboxTypeOK /\ Leases /\ OnceEach /\ [OutboxNext]_outboxVars => OnceEach'
  BY NextIsStep, StepOnceEach
<1>2. OnceEach => PublishedOnce
  BY DEF OnceEach
<1>3. OutboxSpec => []Leases
  BY OutagesAreNotSlow, AlwaysLeases
<1>. QED
  BY OutboxTyped, InitOnceEach, <1>1, <1>2, <1>3, PTL DEF OutboxSpec

-----------------------------------------------------------------------------
(* No row vanishes, and a relay holds only rows that exist *)

RowsExist == \A r \in Relays : \A e \in InHand(r) : state[e] # "NONE"

\* What a relay has after a step of its own it had before or could claim.
LEMMA OnceHands ==
    ASSUME OutboxTypeOK, NEW r \in Relays, Once(r)
    PROVE  \A q \in Relays : InHand(q)' \subseteq InHand(q) \cup Claimable
<1>. USE OutboxAssumption
<1>1. ASSUME pc[r] # "publish", Return(r) \/ MarkOrReturn(r)
      PROVE  \A q \in Relays : InHand(q)' \subseteq InHand(q)
  BY <1>1, ReturnHands DEF Same, InHand
<1>2. CASE ClaimOutboxBatch(r)
  <2>1. PICK b \in Batches : batch' = [batch EXCEPT ![r] = b]
    BY <1>2 DEF ClaimOutboxBatch
  <2>2. b \subseteq Claimable
    BY DEF Batches
  <2>. QED
    BY <1>2, <2>1, <2>2 DEF ClaimOutboxBatch, OutboxTypeOK, InHand
<1>3. CASE DrainNothing(r) \/ ChargeError(r) \/ MarkError(r) \/ MarkOutboxDispatched(r)
           \/ RecordOutboxFailure(r) \/ MarkOutboxFailed(r)
  BY <1>1, <1>3
  DEF DrainNothing, ChargeError, MarkError, MarkOutboxDispatched, RecordOutboxFailure,
      MarkOutboxFailed
<1>4. ASSUME NEW e \in Events, PublishOk(r, e) \/ PublishFails(r, e)
      PROVE  \A q \in Relays : InHand(q)' \subseteq InHand(q)
  BY <1>4 DEF PublishOk, PublishFails, First, OutboxTypeOK, InHand
<1>5. CASE StopPublishing(r)
  BY <1>5 DEF StopPublishing, OutboxTypeOK, InHand
<1>6. CASE Probe(r)
  <2>1. /\ UNCHANGED <<batch, dispatched>>
        /\ \/ UNCHANGED <<failing, giveBack>>
           \/ /\ failing' = [failing EXCEPT ![r] = NoEvent]
              /\ giveBack' = [giveBack EXCEPT ![r] = @ \cup {failing[r]}]
    BY <1>6 DEF Probe
  <2>2. failing[r] # NoEvent
    BY <1>6 DEF Probe, OutboxTypeOK, Holding
  <2>3. InHand(r)' \subseteq InHand(r)
    <3>1. UNCHANGED <<failing[r], giveBack[r]>>
          \/ (failing'[r] = NoEvent /\ giveBack'[r] = giveBack[r] \cup {failing[r]})
      BY <2>1 DEF OutboxTypeOK
    <3>. QED
      BY <2>1, <2>2, <3>1 DEF InHand
  <2>4. ASSUME NEW q \in Relays, q # r PROVE InHand(q)' = InHand(q)
    <3>1. UNCHANGED <<failing[q], giveBack[q]>>
      BY <2>1, <2>4 DEF OutboxTypeOK
    <3>. QED
      BY <2>1, <3>1 DEF InHand
  <2>. QED
    BY <2>3, <2>4
<1>7. CASE Release(r)
  <2>1. CASE failing[r] = NoEvent
    BY <1>1, <1>7, <2>1 DEF Release
  <2>2. CASE failing[r] # NoEvent
    BY <1>7, <2>2 DEF Release, OutboxTypeOK, InHand
  <2>. QED
    BY <2>1, <2>2
<1>. QED
  BY <1>2, <1>3, <1>4, <1>5, <1>6, <1>7 DEF Once

\* A step of the relays or around them makes no row and deletes none.
LEMMA MovesKeepRows ==
    ASSUME OutboxTypeOK, RowsExist, (\E r \in Relays : Once(r)) \/ Surroundings
    PROVE  RowsExist' /\ \A e \in Events : (state'[e] = "NONE") <=> (state[e] = "NONE")
<1>. USE DEF rowVars, queueVars, onceVars
<1>0. \A r \in Relays : InHand(r) \subseteq Events
  BY DEF OutboxTypeOK, InHand
<1>1. ASSUME NEW r \in Relays, Once(r)
      PROVE  \A e \in Events : (state'[e] = "NONE") <=> (state[e] = "NONE")
  <2>1. CASE MarkOutboxFailed(r)
    <3>1. failing[r] \in InHand(r)
      BY <2>1 DEF MarkOutboxFailed, OutboxTypeOK, Holding, InHand
    <3>. QED
      BY <2>1, <3>1 DEF MarkOutboxFailed, OutboxTypeOK, RowsExist
  <2>2. CASE MarkOutboxDispatched(r)
    BY <2>2 DEF MarkOutboxDispatched, Marked, RowsExist, InHand
  <2>3. CASE ~MarkOutboxFailed(r) /\ ~MarkOutboxDispatched(r)
    BY <1>1, <2>3
    DEF Once, ClaimOutboxBatch, DrainNothing, PublishOk, PublishFails, StopPublishing,
        Probe, Release, RecordOutboxFailure, ChargeError, MarkError
  <2>. QED
    BY <2>1, <2>2, <2>3
<1>2. ASSUME NEW r \in Relays, Once(r) PROVE RowsExist'
  BY <1>0, <1>1, <1>2, OnceHands DEF RowsExist, Claimable, Pending
<1>3. CASE Surroundings
  <2>1. state' = state
    BY <1>3 DEF Surroundings, Shutdown, DrainTimeout, Restart, Crash, QueueDown, QueueBack, LeaseExpires
  <2>2. ASSUME NEW r \in Relays, Crash(r)
        PROVE  \A q \in Relays : InHand(q)' \subseteq InHand(q)
    BY <2>2 DEF Crash, OutboxTypeOK, InHand
  <2>3. (\E r \in Relays : Crash(r)) \/ UNCHANGED onceVars
    BY <1>3 DEF Surroundings, Shutdown, DrainTimeout, Restart, QueueDown, QueueBack, LeaseExpires
  <2>4. \A q \in Relays : InHand(q)' \subseteq InHand(q)
    BY <2>2, <2>3 DEF InHand
  <2>. QED
    BY <2>1, <2>4 DEF RowsExist
<1>. QED
  BY <1>1, <1>2, <1>3

LEMMA InsertKeepsRows ==
    ASSUME OutboxTypeOK, RowsExist, NEW e \in Events, InsertOutboxEvent(e)
    PROVE  /\ RowsExist'
           /\ state'[e] = "PENDING"
           /\ \A f \in Events : f # e => state'[f] = state[f]
<1>1. \A r \in Relays : InHand(r)' = InHand(r) /\ InHand(r) \subseteq Events
  BY DEF InsertOutboxEvent, onceVars, OutboxTypeOK, InHand
<1>. QED
  BY <1>1 DEF InsertOutboxEvent, OutboxTypeOK, RowsExist


-----------------------------------------------------------------------------
(* The edge in front of the outbox *)

\* The edge leaves rows, queue and relays alone.
Rests == UNCHANGED <<rowVars, queueVars, mode, pc, onceVars>>

\* An event has its outbox row exactly when it has its incident: the
\* transaction inserts both, and nothing deletes either.
Together ==
    /\ RowsExist
    /\ \A e \in Events : incidents[e] = 0 <=> state[e] = "NONE"

\* What has been answered, or is about to be, is on record.
Honest ==
    /\ \A e \in Events : incidents[e] <= 1
    /\ \A e \in answered : e \in Declined \/ incidents[e] > 0
    /\ \A q \in Requests : request[q] = "accepted" =>
           EventOf(q) \in Declined \/ incidents[EventOf(q)] > 0

-----------------------------------------------------------------------------
(* A step of the edge as the outbox sees it *)

Edge ==
    \/ \E e \in Events : Happen(e)
    \/ \E q \in Requests : Deliver(q) \/ ServeHTTP(q) \/ Answer(q)
    \/ Tick

Moves == ((\E r \in Relays : Once(r)) \/ Surroundings) /\ UNCHANGED edgeVars

LEMMA RequestEvent == \A q \in Requests : EventOf(q) \in Events
  BY DEF Requests, EventOf

LEMMA EdgeDisruptions == TypeOK /\ Edge => disruptions' \in Nat
<1>. SUFFICES ASSUME TypeOK, Edge PROVE disruptions' \in Nat
  OBVIOUS
<1>. disruptions \in Nat
  BY DEF TypeOK, OutboxTypeOK
<1>. QED
  BY DisruptType
  DEF Edge, Happen, Deliver, ServeHTTP, Admit, Lookup, Record, RecordError, Answer, Tick,
      outboxVars

\* The transaction is the one place where the edge touches the outbox.
LEMMA EdgeRests ==
    ASSUME Edge
    PROVE  \/ \E q \in Requests : /\ request[q] = "record"
                                  /\ ~Conflicts(EventOf(q))
                                  /\ Commit(EventOf(q))
           \/ Rests /\ UNCHANGED incidents
  BY DEF Edge, Happen, Deliver, ServeHTTP, Admit, Lookup, Record, RecordError, Answer, Tick,
         Abort, Rests, outboxVars

LEMMA EdgeStep == TypeOK /\ Together /\ Edge => OutboxStep
<1>. SUFFICES ASSUME TypeOK, Together, Edge PROVE OutboxStep
  OBVIOUS
<1>1. CASE Rests
  BY <1>1, EdgeDisruptions DEF OutboxStep, Rests
<1>2. ASSUME NEW q \in Requests, ~Conflicts(EventOf(q)), Commit(EventOf(q)) PROVE OutboxStep
  <2>1. EventOf(q) \in Events /\ incidents[EventOf(q)] = 0
    BY <1>2, RequestEvent DEF Conflicts, TypeOK
  <2>. QED
    BY <1>2, <2>1, EdgeDisruptions DEF Together, Commit, OutboxStep
<1>. QED
  BY <1>1, <1>2, EdgeRests

LEMMA MovesStep == TypeOK /\ Moves => OutboxStep
<1>. SUFFICES ASSUME TypeOK, Moves PROVE OutboxStep
  OBVIOUS
<1>1. OutboxNext
  BY DEF Moves, OutboxNext
<1>. QED
  BY <1>1, NextIsStep DEF TypeOK

LEMMA NextSplits == [Next]_vars => Edge \/ Moves \/ (UNCHANGED vars)
  BY DEF Next, Edge, Moves

LEMMA NextStep == TypeOK /\ Together /\ [Next]_vars => OutboxStep
<1>1. TypeOK /\ (UNCHANGED vars) => OutboxStep
  BY DEF TypeOK, OutboxTypeOK, vars, outboxVars, OutboxStep
<1>. QED
  BY <1>1, NextSplits, EdgeStep, MovesStep

-----------------------------------------------------------------------------
(* The edge's own invariant *)

EdgeTypes ==
    /\ incidents \in [Events -> Nat]
    /\ request \in [Requests -> RequestPlace]
    /\ age \in [Events -> Nat]
    /\ offered \subseteq Events
    /\ answered \subseteq Events
    /\ shed \subseteq Events

LEMMA StepEdgeTypes == TypeOK /\ [Next]_vars => EdgeTypes'
<1>. SUFFICES ASSUME TypeOK, [Next]_vars PROVE EdgeTypes'
  OBVIOUS
<1>. USE RequestEvent DEF TypeOK, EdgeTypes
<1>1. ASSUME NEW q \in Requests, NEW place \in RequestPlace, Advance(q, place)
      PROVE  request' \in [Requests -> RequestPlace]
  BY <1>1 DEF Advance
<1>2. ASSUME NEW e \in Events, Happen(e) PROVE EdgeTypes'
  BY <1>2 DEF Happen
<1>3. ASSUME NEW q \in Requests, Deliver(q) PROVE EdgeTypes'
  BY <1>1, <1>3 DEF Deliver, RequestPlace
<1>4. ASSUME NEW q \in Requests, Admit(q) PROVE EdgeTypes'
  <2>1. request' \in [Requests -> RequestPlace]
    BY <1>1, <1>4 DEF Admit, RequestPlace
  <2>. QED
    BY <1>4, <2>1 DEF Admit
<1>5. ASSUME NEW q \in Requests, Lookup(q) PROVE EdgeTypes'
  <2>1. request' \in [Requests -> RequestPlace]
    BY <1>1, <1>5 DEF Lookup, RequestPlace
  <2>. QED
    BY <1>5, <2>1 DEF Lookup
<1>6. ASSUME NEW q \in Requests, Record(q) \/ RecordError(q) PROVE EdgeTypes'
  <2>1. request' \in [Requests -> RequestPlace]
    BY <1>1, <1>6 DEF Record, RecordError, ErrorAnswer, RequestPlace
  <2>2. incidents' \in [Events -> Nat]
    <3>1. Commit(EventOf(q)) \/ UNCHANGED incidents
      BY <1>6 DEF Record, RecordError, Abort
    <3>2. incidents[EventOf(q)] + 1 \in Nat
      OBVIOUS
    <3>. QED
      BY <3>1, <3>2 DEF Commit
  <2>. QED
    BY <1>6, <2>1, <2>2 DEF Record, RecordError
<1>7. ASSUME NEW q \in Requests, Answer(q) PROVE EdgeTypes'
  <2>1. request' \in [Requests -> RequestPlace]
    BY <1>1, <1>7 DEF Answer, RequestPlace
  <2>. QED
    BY <1>7, <2>1 DEF Answer
<1>8. CASE Tick
  BY <1>8 DEF Tick
<1>9. CASE UNCHANGED edgeVars
  BY <1>9 DEF edgeVars
<1>. QED
  BY <1>2, <1>3, <1>4, <1>5, <1>6, <1>7, <1>8, <1>9 DEF Next, ServeHTTP, vars

LEMMA StepTogether == TypeOK /\ TypeOK' /\ Together /\ [Next]_vars => Together'
<1>. SUFFICES ASSUME TypeOK, TypeOK', Together, [Next]_vars PROVE Together'
  OBVIOUS
<1>1. ASSUME Rests \/ UNCHANGED vars, UNCHANGED incidents PROVE Together'
  BY <1>1 DEF Rests, vars, outboxVars, rowVars, onceVars, Together, RowsExist, InHand
<1>2. ASSUME NEW q \in Requests, Commit(EventOf(q)) PROVE Together'
  <2>. DEFINE e == EventOf(q)
  <2>1. e \in Events
    BY RequestEvent
  <2>2. incidents' = [incidents EXCEPT ![e] = @ + 1] /\ InsertOutboxEvent(e)
    BY <1>2 DEF Commit
  <2>3. /\ RowsExist' /\ state'[e] = "PENDING"
        /\ \A f \in Events : f # e => state'[f] = state[f]
    BY <2>1, <2>2, InsertKeepsRows DEF TypeOK, Together
  <2>4. incidents'[e] > 0 /\ \A f \in Events : f # e => incidents'[f] = incidents[f]
    BY <2>1, <2>2 DEF TypeOK
  <2>. QED
    BY <2>1, <2>3, <2>4 DEF Together
<1>3. CASE Moves
  <2>1. RowsExist' /\ \A e \in Events : (state'[e] = "NONE") <=> (state[e] = "NONE")
    BY <1>3, MovesKeepRows DEF Moves, TypeOK, Together
  <2>2. incidents' = incidents
    BY <1>3 DEF Moves, edgeVars
  <2>. QED
    BY <2>1, <2>2 DEF Together
<1>. QED
  BY <1>1, <1>2, <1>3, NextSplits, EdgeRests DEF vars, edgeVars

LEMMA StepHonest == TypeOK /\ TypeOK' /\ Honest /\ [Next]_vars => Honest'
<1>. SUFFICES ASSUME TypeOK, TypeOK', Honest, [Next]_vars PROVE Honest'
  OBVIOUS
<1>. USE RequestEvent
<1>0. incidents \in [Events -> Nat] /\ request \in [Requests -> RequestPlace]
      /\ answered \subseteq Events
  BY DEF TypeOK
<1>1. ASSUME UNCHANGED <<incidents, answered>>,
             \A q \in Requests : request'[q] = "accepted" =>
                 \/ request[q] = "accepted"
                 \/ EventOf(q) \in Declined \/ incidents[EventOf(q)] > 0
      PROVE  Honest'
  BY <1>1 DEF Honest
<1>2. CASE (\E e \in Events : Happen(e)) \/ Tick \/ UNCHANGED edgeVars
  BY <1>1, <1>2 DEF Happen, Tick, edgeVars
<1>3. ASSUME NEW q \in Requests, Deliver(q) \/ Admit(q) \/ Lookup(q) PROVE Honest'
  BY <1>0, <1>1, <1>3 DEF Deliver, Admit, Lookup, Advance
<1>4. ASSUME NEW q \in Requests, Record(q) \/ RecordError(q) PROVE Honest'
  <2>. DEFINE e == EventOf(q)
  <2>1. \/ incidents' = incidents
        \/ incidents[e] = 0 /\ incidents' = [incidents EXCEPT ![e] = @ + 1]
    BY <1>0, <1>4 DEF Record, RecordError, Abort, Commit, Conflicts
  <2>2. \A f \in Events : incidents'[f] <= 1 /\ (incidents[f] > 0 => incidents'[f] > 0)
    BY <1>0, <2>1 DEF Honest
  <2>3. ASSUME NEW p \in Requests, request'[p] = "accepted", p # q
        PROVE  request[p] = "accepted"
    BY <1>0, <1>4, <2>3 DEF Record, RecordError, Advance
  <2>4. request'[q] = "accepted" => incidents'[e] > 0
    BY <1>0, <1>4 DEF Record, RecordError, Advance, ErrorAnswer, Abort, Commit, Conflicts
  <2>5. answered' = answered
    BY <1>4 DEF Record, RecordError
  <2>. QED
    BY <1>0, <2>2, <2>3, <2>4, <2>5 DEF Honest
<1>5. ASSUME NEW q \in Requests, Answer(q) PROVE Honest'
  BY <1>0, <1>5 DEF Answer, Advance, Honest
<1>. QED
  BY <1>2, <1>3, <1>4, <1>5 DEF Next, ServeHTTP, vars

-----------------------------------------------------------------------------
(* Theorems *)

EdgeInv == TypeOK /\ Together /\ Honest

LEMMA InitEdge == Init => EdgeInv
<1>. SUFFICES ASSUME Init PROVE EdgeInv
  OBVIOUS
<1>1. TypeOK
  BY InitOutboxTypes DEF Init, TypeOK, RequestPlace
<1>2. Together
  BY OutboxAssumption DEF Init, OutboxInit, Together, RowsExist, InHand
<1>3. Honest
  BY DEF Init, Honest, EventOf, Requests
<1>. QED
  BY <1>1, <1>2, <1>3 DEF EdgeInv

LEMMA StepEdge == EdgeInv /\ [Next]_vars => EdgeInv'
<1>. SUFFICES ASSUME EdgeInv, [Next]_vars PROVE EdgeInv'
  OBVIOUS
<1>1. TypeOK'
  BY NextStep, StepOutboxTypes, StepEdgeTypes DEF EdgeInv, TypeOK, EdgeTypes
<1>. QED
  BY <1>1, StepTogether, StepHonest DEF EdgeInv

LEMMA AlwaysEdge == Spec => []EdgeInv
  BY InitEdge, StepEdge, PTL DEF Spec

\* The edge keeps its types, and so does the outbox behind it.
THEOREM EdgeTyped == Spec => []TypeOK
<1>1. EdgeInv => TypeOK
  BY DEF EdgeInv
<1>. QED
  BY AlwaysEdge, <1>1, PTL

\* The edge answers 2xx for nothing it has not recorded: under all faults, an
\* answered event that is not a terminal decline has its incident and its row.
\* And however many deliveries of it race each other, an event is one incident.
THEOREM Recorded == Spec => []TakenInOnce
<1>1. EdgeInv => AnsweredIsRecorded
  <2>. SUFFICES ASSUME EdgeInv, NEW e \in answered \ Declined
                PROVE  incidents[e] = 1 /\ state[e] # "NONE"
    BY DEF AnsweredIsRecorded
  <2>1. e \in Events /\ incidents[e] \in Nat /\ incidents[e] > 0 /\ incidents[e] <= 1
    BY DEF EdgeInv, TypeOK, Honest
  <2>. QED
    BY <2>1 DEF EdgeInv, Together
<1>2. EdgeInv => OneIncidentPerEvent
  BY DEF EdgeInv, Honest, OneIncidentPerEvent
<1>3. EdgeInv => TakenInOnce
  BY <1>1, <1>2 DEF TakenInOnce
<1>. QED
  BY AlwaysEdge, <1>3, PTL

LEMMA EdgeOutboxStep == EdgeInv /\ [Next]_vars => OutboxTypeOK /\ OutboxStep
  BY NextStep DEF EdgeInv, TypeOK

\* The lease holds as well while the edge inserts rows under the relays.
THEOREM EdgeLeased == ASSUME NoSlowFault PROVE Spec => []LeasesHold
<1>1. EdgeInv /\ Leases /\ [Next]_vars => Leases'
  BY EdgeOutboxStep, StepLeases
<1>2. Init => Leases
  BY InitLeases DEF Init
<1>3. Leases => LeasesHold
  BY DEF Leases, LeasesHold
<1>. QED
  BY AlwaysEdge, <1>1, <1>2, <1>3, PTL DEF Spec

\* Deliveries repeated and at once, rows inserted while relays work: as long as
\* only outages reach the relays, no event is on the stream twice.
THEOREM EdgeNoDuplicate == ASSUME OnlyOutages PROVE Spec => []PublishedOnce
<1>1. Init => Leases /\ OnceEach
  BY InitLeases, InitOnceEach DEF Init
<1>2. EdgeInv /\ Leases /\ OnceEach /\ [Next]_vars => Leases' /\ OnceEach'
  BY EdgeOutboxStep, OutagesAreNotSlow, StepLeases, StepOnceEach
<1>3. OnceEach => PublishedOnce
  BY DEF OnceEach
<1>. QED
  BY AlwaysEdge, <1>1, <1>2, <1>3, PTL DEF Spec

=============================================================================
