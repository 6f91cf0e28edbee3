--------------------------- MODULE RecoveryProofs ---------------------------
(***************************************************************************)
(* Theorems about Recovery, for every set of incidents, pools, goroutines  *)
(* and slots, every bound and every choice of faults the assumption        *)
(* ConstantsAssumption admits.                                             *)
(*                                                                         *)
(*   1. Typed       every variable keeps its type                          *)
(*   2. Numbered    an attempt number reaches the gateway at most once     *)
(*   3. Kept        without failing publications, one goroutine at a time  *)
(*                  works on an incident, the payment is captured at most  *)
(*                  once, the verdict is final and agrees with the money,  *)
(*                  and Recovery implements Lifecycle                      *)
(*   4. Concluded   without failing statements either, the attempts of a   *)
(*                  concluded incident are those the gateway saw           *)
(*   5. Reachable   without crashes and unmended publications, no incident *)
(*                  waits for ever for want of a message                   *)
(*   6. FirstCooled under every fault, the first debit of a recurring      *)
(*                  payment keeps the cooling window                       *)
(***************************************************************************)
EXTENDS Recovery, TLAPS

-----------------------------------------------------------------------------
(* Types *)

\* An entry put in a free slot keeps the stream well typed.
LEMMA PublishTypes ==
    ASSUME QueueTypes, NEW i \in Incidents, NEW isDue \in BOOLEAN, Publish(i, isDue)
    PROVE  stream' \in [Slots -> Entry \cup {Free}]
<1>1. [kind |-> "new", inc |-> i, due |-> isDue, deliveries |-> 0] \in Entry
  BY ConstantsAssumption DEF Entry
<1>. QED
  BY <1>1 DEF Publish, FreeSlots, QueueTypes

\* A goroutine that goes back to its loop holds nothing.
LEMMA GoIdleTypes ==
    ASSUME LocalTypes, Holding, NEW h \in Handlers, GoIdle(h)
    PROVE  LocalTypes' /\ Holding'
  BY DEF GoIdle, LocalTypes, Holding, Place, Owning, Gated, Inc

\* One that moves on among the places before the gate, or to leave, keeps
\* what it holds.
LEMMA GoToTypes ==
    ASSUME LocalTypes, Holding, NEW h \in Handlers, pc[h] # "idle",
           NEW place \in Place \ Owning, place # "idle", GoTo(h, place), UNCHANGED localVars
    PROVE  LocalTypes' /\ Holding'
  BY DEF GoTo, LocalTypes, Holding, Place, Owning, Gated, Inc, localVars

\* A delivery of an entry to a goroutine.
LEMMA TakeTypes ==
    ASSUME TypeOK, NEW h \in Handlers, NEW s \in Slots, stream[s] # Free,
           NEW n \in 1..(MaxDeliveries + 1), NEW k \in 1..(MaxDeliveries + 1),
           stream' = [stream EXCEPT ![s] = Delivered(@, n)],
           Take(h, s, k)
    PROVE  TypeOK'
<1>. USE ConstantsAssumption
<1>1. stream[s] \in Entry
  BY DEF TypeOK, QueueTypes
<1>2. Delivered(stream[s], n) \in Entry
  BY <1>1 DEF Entry, Delivered
<1>3. QueueTypes'
  BY <1>1, <1>2 DEF Take, TypeOK, QueueTypes
<1>4. [slot |-> s, inc |-> stream[s].inc, due |-> stream[s].due, n |-> k] \in Task
  BY <1>1 DEF Entry, Task
<1>5. LocalTypes' /\ Holding'
  BY <1>4 DEF Take, TypeOK, LocalTypes, Place, Holding, Owning, Gated, Inc
<1>6. RowTypes' /\ SideTypes' /\ PoolTypes' /\ GatewayTypes'
  BY DEF Take, TypeOK, RowTypes, SideTypes, PoolTypes, GatewayTypes,
         rowVars, sideVars, poolVars, gatewayVars
<1>. QED
  BY <1>3, <1>5, <1>6 DEF TypeOK

LEMMA ScheduleTypes ==
    ASSUME RowTypes, NEW i \in Incidents, NEW at \in Nat, ScheduleIncident(i, at)
    PROVE  RowTypes'
  BY DEF ScheduleIncident, RowTypes, IncidentState

\* dueAt never moves a due time into the past.
LEMMA DueAtType ==
    ASSUME NEW i \in Incidents, NEW w \in Nat
    PROVE  DueAt(i, w) \in Nat
  BY ConstantsAssumption DEF DueAt, Max2

\* Each attempt number the ceiling admits is recorded as itself.
LEMMA RecordTypes ==
    ASSUME SideTypes, NEW h \in Handlers, Inc(h) \in Incidents, attempt[h] \in Attempts,
           RecordAttempt(h)
    PROVE  recorded' \in [Incidents -> SUBSET Attempts]
  BY DEF SideTypes, RecordAttempt

LEMMA InitTypes == Init => TypeOK
  BY ConstantsAssumption
  DEF Init, TypeOK, RowTypes, SideTypes, QueueTypes, LocalTypes, PoolTypes,
      GatewayTypes, Holding, IncidentState, NotScheduled, Owning, Gated, Place, Inc

LEMMA StepTypes == TypeOK /\ [Next]_vars => TypeOK'
<1>. SUFFICES ASSUME TypeOK, [Next]_vars PROVE TypeOK'
  OBVIOUS
<1>. USE ConstantsAssumption
     DEF TypeOK, RowTypes, SideTypes, PoolTypes, GatewayTypes,
         rowVars, sideVars, queueVars, poolVars, gatewayVars
<1>holds. ASSUME NEW h \in Handlers, pc[h] # "idle"
          PROVE  /\ task[h] \in Task
                 /\ Inc(h) \in Incidents
                 /\ task[h].due \in BOOLEAN
  BY <1>holds DEF Holding, Task, Inc
<1>1. ASSUME NEW i \in Incidents, RelayPublish(i) PROVE TypeOK'
  <2>1. stream' \in [Slots -> Entry \cup {Free}]
    BY <1>1, PublishTypes DEF RelayPublish
  <2>. QED
    BY <1>1, <2>1 DEF RelayPublish, QueueTypes, LocalTypes, Holding, Inc, localVars
<1>2. ASSUME NEW h \in Handlers, Consume(h) PROVE TypeOK'
  <2>1. PICK s \in Slots : /\ stream[s].kind = "new"
                           /\ stream' = [stream EXCEPT ![s] = Delivered(@, 1)]
                           /\ Take(h, s, 1)
    BY <1>2 DEF Consume
  <2>2. stream[s] # Free /\ 1 \in 1..(MaxDeliveries + 1)
    BY <2>1 DEF Free
  <2>. QED
    BY <2>1, <2>2, TakeTypes
<1>3. ASSUME NEW h \in Handlers, Reclaim(h) PROVE TypeOK'
  <2>. DEFINE n(s) == Min2(stream[s].deliveries + 1, MaxDeliveries + 1)
  <2>1. PICK s \in Slots :
          /\ stream[s].kind = "pending"
          /\ stream' = [stream EXCEPT ![s] = Delivered(@, n(s))]
          /\ \E k \in {n(s), 1} : Take(h, s, k)
    BY <1>3 DEF Reclaim
  <2>2. stream[s] # Free /\ stream[s] \in Entry
    BY <2>1 DEF QueueTypes, Free
  <2>3. n(s) \in 1..(MaxDeliveries + 1) /\ 1 \in 1..(MaxDeliveries + 1)
    BY <2>2 DEF Entry, Min2
  <2>. HIDE DEF n
  <2>. QED
    BY <2>1, <2>2, <2>3, TakeTypes
<1>4. ASSUME NEW h \in Handlers, Load(h) PROVE TypeOK'
  <2>1. pc[h] # "idle" /\ {"park", "ack", "claim"} \subseteq Place \ (Owning \cup {"idle"})
    BY <1>4 DEF Load, Place, Owning, Gated
  <2>2. LocalTypes' /\ Holding'
    BY <1>4, <2>1, GoToTypes, GoIdleTypes DEF Load
  <2>. QED
    BY <1>4, <2>2 DEF Load, QueueTypes
<1>5. ASSUME NEW h \in Handlers, Claim(h) PROVE TypeOK'
  <2>1. pc[h] = "claim" /\ Inc(h) \in Incidents /\ NextAttempt(Inc(h)) \in Nat \ {0}
    BY <1>5, <1>holds DEF Claim, NextAttempt
  <2>2. RowTypes'
    <3>1. CASE UNCHANGED rowVars
      BY <3>1
    <3>2. CASE /\ state' = [state EXCEPT ![Inc(h)] = "EXECUTING"]
               /\ attempt_count' = [attempt_count EXCEPT ![Inc(h)] = NextAttempt(Inc(h))]
               /\ UNCHANGED scheduled_for
      BY <2>1, <3>2 DEF IncidentState
    <3>. QED
      BY <1>5, <3>1, <3>2 DEF Claim
  <2>3. LocalTypes' /\ Holding'
    <3>1. CASE GoTo(h, "ack") /\ UNCHANGED localVars
      BY <2>1, <3>1, GoToTypes DEF Place, Owning
    <3>2. CASE /\ GoTo(h, "gate")
               /\ attempt' = [attempt EXCEPT ![h] = NextAttempt(Inc(h))]
               /\ UNCHANGED <<task, wait, outcome>>
      <4>1. LocalTypes'
        BY <2>1, <3>2 DEF GoTo, LocalTypes, Place
      <4>. QED
        BY <2>1, <3>2, <4>1 DEF GoTo, LocalTypes, Holding, Owning, Gated, Inc
    <3>. QED
      BY <1>5, <3>1, <3>2 DEF Claim, localVars
  <2>. QED
    BY <1>5, <2>2, <2>3 DEF Claim, QueueTypes
<1>6. ASSUME NEW h \in Handlers, Gate(h) PROVE TypeOK'
  <2>1. Delays(Inc(h)) \subseteq Nat
    BY DEF Delays
  <2>2. pc[h] = "gate" /\ (attempt[h] <= MaxAttempts => attempt[h] \in Attempts)
    BY <1>6 DEF Gate, LocalTypes, Holding, Owning, Attempts
  <2>3. LocalTypes'
    BY <1>6, <2>1 DEF Gate, GoTo, LocalTypes, Place
  <2>4. Holding'
    BY <1>6, <2>2, <2>3 DEF Gate, GoTo, LocalTypes, Holding, Owning, Gated, Inc
  <2>. QED
    BY <1>6, <2>3, <2>4 DEF Gate, QueueTypes
<1>7. ASSUME NEW h \in Handlers, Abstain(h) PROVE TypeOK'
  BY <1>7, <1>holds, GoToTypes DEF Abstain, QueueTypes, Place, Owning, Gated, IncidentState
<1>8. ASSUME NEW h \in Handlers, Notify(h) PROVE TypeOK'
  BY <1>8, <1>holds DEF Notify, GoTo, QueueTypes, LocalTypes, Holding, Place, Owning, Gated, Inc, localVars
<1>9. ASSUME NEW h \in Handlers, RecordNotice(h) PROVE TypeOK'
  BY <1>9, <1>holds DEF RecordNotice, GoTo, QueueTypes, LocalTypes, Holding, Place, Owning, Gated, Inc, localVars
<1>10. ASSUME NEW h \in Handlers, Defer(h) PROVE TypeOK'
  <2>1. DueAt(Inc(h), wait[h]) \in Nat
    BY <1>10, <1>holds, DueAtType DEF Defer, LocalTypes
  <2>2. RowTypes'
    BY <1>10, <1>holds, <2>1, ScheduleTypes DEF Defer
  <2>3. LocalTypes' /\ Holding'
    BY <1>10, GoToTypes DEF Defer, Place, Owning, Gated
  <2>. QED
    BY <1>10, <2>2, <2>3 DEF Defer, QueueTypes
<1>11. ASSUME NEW h \in Handlers, Spend(h) PROVE TypeOK'
  <2>1. budgetSpent' \in [Pools -> 0..RetryBudgetPerMinute]
    BY <1>11 DEF Spend
  <2>2. LocalTypes' /\ Holding'
    <3>1. CASE GoTo(h, "call") /\ UNCHANGED localVars
      BY <1>11, <3>1 DEF Spend, GoTo, LocalTypes, Holding, Place, Owning, Gated, Inc, localVars
    <3>2. CASE GoIdle(h)
      BY <3>2, GoIdleTypes
    <3>. QED
      BY <1>11, <3>1, <3>2 DEF Spend
  <2>. QED
    BY <1>11, <2>1, <2>2 DEF Spend, QueueTypes
<1>12. ASSUME NEW h \in Handlers, CallGateway(h) PROVE TypeOK'
  BY <1>12, <1>holds
  DEF CallGateway, GoTo, QueueTypes, LocalTypes, Holding, Place, Owning, Gated, Outcomes, Inc
<1>13. ASSUME NEW h \in Handlers, Settle(h) PROVE TypeOK'
  <2>1. pc[h] = "settle" /\ attempt[h] \in Attempts /\ Inc(h) \in Incidents
    BY <1>13, <1>holds DEF Settle, Holding, Gated
  <2>2. SideTypes'
    BY <1>13, <2>1, RecordTypes DEF Settle
  <2>3. RowTypes'
    BY <1>13, <2>1, ScheduleTypes DEF Settle, IncidentState
  <2>4. LocalTypes' /\ Holding'
    BY <1>13, <2>1, GoToTypes, GoIdleTypes DEF Settle, Place, Owning, Gated
  <2>. QED
    BY <1>13, <2>2, <2>3, <2>4 DEF Settle, QueueTypes
<1>14. ASSUME NEW h \in Handlers, Ack(h) PROVE TypeOK'
  BY <1>14, <1>holds, GoIdleTypes DEF Ack, QueueTypes, Task
<1>15. ASSUME NEW h \in Handlers, Park(h) PROVE TypeOK'
  <2>1. [inc |-> Inc(h), due |-> task[h].due] \in Letter
    BY <1>15, <1>holds DEF Park, Letter
  <2>2. LocalTypes' /\ Holding'
    BY <1>15, GoToTypes DEF Park, Place, Owning
  <2>. QED
    BY <1>15, <2>1, <2>2 DEF Park, QueueTypes
<1>16. ASSUME NEW h \in Handlers, Panic(h) PROVE TypeOK'
  BY <1>16, GoToTypes DEF Panic, QueueTypes, Place, Owning, Gated
<1>17. ASSUME NEW h \in Handlers, HandlerError(h) PROVE TypeOK'
  <2>1. CASE SettleError(h)
    <3>1. attempt[h] \in Attempts /\ Inc(h) \in Incidents
      BY <2>1, <1>holds DEF SettleError, Holding, Gated
    <3>. QED
      BY <2>1, <3>1, RecordTypes, GoIdleTypes DEF SettleError, QueueTypes
  <2>2. CASE ReturnError(h)
    BY <2>2, GoIdleTypes DEF ReturnError, QueueTypes
  <2>. QED
    BY <1>17, <2>1, <2>2 DEF HandlerError, StepError
<1>18. ASSUME NEW p \in Pools, SweepClaim(p) PROVE TypeOK'
  BY <1>18 DEF SweepClaim, Due, QueueTypes, LocalTypes, Holding, Inc, localVars
<1>19. ASSUME NEW p \in Pools, NEW i \in Incidents, SweepPublish(p, i) PROVE TypeOK'
  BY <1>19, PublishTypes DEF SweepPublish, QueueTypes, LocalTypes, Holding, Inc, localVars
<1>20. ASSUME NEW p \in Pools, NEW i \in Incidents, SweepPublishError(p, i) PROVE TypeOK'
  <2>1. stream' \in [Slots -> Entry \cup {Free}]
    BY <1>20, PublishTypes DEF SweepPublishError, QueueTypes
  <2>. QED
    BY <1>20, <2>1 DEF SweepPublishError, QueueTypes, LocalTypes, Holding, Inc, localVars
<1>21. ASSUME NEW p \in Pools, NEW i \in Incidents, SweepRearm(p, i) PROVE TypeOK'
  <2>1. RowTypes'
    BY <1>21, ScheduleTypes DEF SweepRearm
  <2>. QED
    BY <1>21, <2>1 DEF SweepRearm, QueueTypes, LocalTypes, Holding, Inc, localVars
<1>22. ASSUME NEW l \in Letter, Requeue(l) PROVE TypeOK'
  <2>1. stream' \in [Slots -> Entry \cup {Free}]
    BY <1>22, PublishTypes DEF Requeue, Letter
  <2>. QED
    BY <1>22, <2>1 DEF Requeue, QueueTypes, LocalTypes, Holding, Inc, localVars
<1>23. CASE Tick
  BY <1>23 DEF Tick, Decrement, Min2, NotScheduled, QueueTypes, LocalTypes, Holding, Inc
<1>24. ASSUME NEW p \in Pools, Crash(p) PROVE TypeOK'
  BY <1>24 DEF Crash, QueueTypes, LocalTypes, Holding, Place, Owning, Gated, Inc
<1>25. CASE UNCHANGED vars
  BY <1>25 DEF vars, QueueTypes, LocalTypes, Holding, Inc, localVars
<1>. QED
  BY <1>1, <1>2, <1>3, <1>4, <1>5, <1>6, <1>7, <1>8, <1>9, <1>10, <1>11, <1>12, <1>13,
     <1>14, <1>15, <1>16, <1>17, <1>18, <1>19, <1>20, <1>21, <1>22, <1>23, <1>24, <1>25
  DEF Next, Handle

\* Every variable has its type in every reachable state, and every goroutine
\* holds what the call it makes next needs: Handle never reads an attempt
\* number it did not claim, and no number past the ceiling gets to the gateway.
THEOREM Typed == Spec => []TypeOK
<1>. QED
  BY InitTypes, StepTypes, PTL DEF Spec

-----------------------------------------------------------------------------
(* Steps that leave custody of the incidents alone *)

\* A goroutine that owns an incident after the step owned it before, under the
\* same number, and is on the same side of the gateway call.
Keeps(h) ==
    pc'[h] \in Owning =>
        /\ pc[h] \in Owning
        /\ task'[h] = task[h]
        /\ attempt'[h] = attempt[h]
        /\ outcome'[h] = outcome[h]
        /\ pc'[h] = "settle" <=> pc[h] = "settle"

Quiet ==
    /\ \A h \in Handlers : Keeps(h)
    /\ UNCHANGED <<state, attempt_count, calls, debits>>
    /\ \A p \in Pools : rearming'[p] \subseteq rearming[p]

\* The steps that are not quiet.
Loud(h) == Claim(h) \/ Abstain(h) \/ Defer(h) \/ CallGateway(h) \/ Settle(h)

SweepFailure == \E p \in Pools, i \in Incidents : SweepPublishError(p, i) \/ SweepRearm(p, i)

LEMMA KeepsByGoTo ==
    ASSUME TypeOK, NEW h \in Handlers, NEW place \in Place, GoTo(h, place),
           UNCHANGED <<task, attempt, outcome>>,
           place \in Owning => pc[h] \in Owning \ {"settle"} /\ place # "settle"
    PROVE  \A g \in Handlers : Keeps(g)
  BY DEF TypeOK, LocalTypes, GoTo, Keeps

LEMMA KeepsByGoIdle ==
    ASSUME TypeOK, NEW h \in Handlers, GoIdle(h)
    PROVE  \A g \in Handlers : Keeps(g)
  BY DEF TypeOK, LocalTypes, GoIdle, Keeps, Owning

LEMMA KeepsByTake ==
    ASSUME TypeOK, NEW h \in Handlers, NEW s, NEW n, Take(h, s, n)
    PROVE  Quiet
  BY DEF TypeOK, LocalTypes, Take, Keeps, Quiet, Owning, rowVars, poolVars, gatewayVars

LEMMA QuietSteps ==
    TypeOK /\ [Next]_vars => Quiet \/ (\E h \in Handlers : Loud(h)) \/ SweepFailure
<1>. SUFFICES ASSUME TypeOK, [Next]_vars
              PROVE  Quiet \/ (\E h \in Handlers : Loud(h)) \/ SweepFailure
  OBVIOUS
<1>. USE DEF rowVars, poolVars, gatewayVars
<1>1. ASSUME UNCHANGED <<pc, task, attempt, outcome, state, attempt_count, calls, debits, rearming>>
      PROVE  Quiet
  BY <1>1 DEF Quiet, Keeps
<1>2. ASSUME NEW i \in Incidents, RelayPublish(i) PROVE Quiet
  BY <1>2, <1>1 DEF RelayPublish, localVars
<1>3. ASSUME NEW h \in Handlers, Consume(h) PROVE Quiet
  BY <1>3, KeepsByTake DEF Consume
<1>4. ASSUME NEW h \in Handlers, Reclaim(h) PROVE Quiet
  BY <1>4, KeepsByTake DEF Reclaim
<1>5. ASSUME NEW h \in Handlers, Load(h) PROVE Quiet
  BY <1>5, KeepsByGoTo, KeepsByGoIdle DEF Load, Quiet, Place, Owning, localVars
<1>6. ASSUME NEW h \in Handlers, Gate(h) PROVE Quiet
  BY <1>6, KeepsByGoTo DEF Gate, Quiet, Place, Owning
<1>7. ASSUME NEW h \in Handlers, Notify(h) PROVE Quiet
  BY <1>7, KeepsByGoTo DEF Notify, Quiet, Place, Owning, localVars
<1>8. ASSUME NEW h \in Handlers, RecordNotice(h) PROVE Quiet
  BY <1>8, KeepsByGoTo DEF RecordNotice, Quiet, Place, Owning, localVars
<1>9. ASSUME NEW h \in Handlers, Spend(h) PROVE Quiet
  BY <1>9, KeepsByGoTo, KeepsByGoIdle DEF Spend, Quiet, Place, Owning, localVars
<1>10. ASSUME NEW h \in Handlers, Ack(h) PROVE Quiet
  BY <1>10, KeepsByGoIdle DEF Ack, Quiet
<1>11. ASSUME NEW h \in Handlers, Park(h) PROVE Quiet
  BY <1>11, KeepsByGoTo DEF Park, Quiet, Place, Owning, localVars
<1>12. ASSUME NEW h \in Handlers, Panic(h) PROVE Quiet
  BY <1>12, KeepsByGoTo DEF Panic, Quiet, Place, Owning, localVars
<1>13. ASSUME NEW h \in Handlers, HandlerError(h) PROVE Quiet
  BY <1>13, KeepsByGoIdle DEF HandlerError, StepError, ReturnError, SettleError, Quiet
<1>14. ASSUME NEW p \in Pools, SweepClaim(p) PROVE Quiet
  BY <1>14, <1>1 DEF SweepClaim, localVars
<1>15. ASSUME NEW p \in Pools, NEW i \in Incidents, SweepPublish(p, i) PROVE Quiet
  BY <1>15, <1>1 DEF SweepPublish, localVars
<1>16. ASSUME NEW l \in Letter, Requeue(l) PROVE Quiet
  BY <1>16, <1>1 DEF Requeue, localVars
<1>17. CASE Tick
  BY <1>17, <1>1 DEF Tick
<1>18. ASSUME NEW p \in Pools, Crash(p) PROVE Quiet
  <2>1. \A h \in Handlers : Keeps(h)
    BY <1>18 DEF Crash, Keeps, Owning
  <2>2. UNCHANGED <<state, attempt_count, calls, debits>>
    BY <1>18 DEF Crash
  <2>. QED
    BY <1>18, <2>1, <2>2 DEF Crash, Quiet, TypeOK, PoolTypes
<1>19. CASE UNCHANGED vars
  BY <1>19, <1>1 DEF vars, localVars
<1>. QED
  BY <1>2, <1>3, <1>4, <1>5, <1>6, <1>7, <1>8, <1>9, <1>10, <1>11, <1>12, <1>13, <1>14,
     <1>15, <1>16, <1>17, <1>18, <1>19
  DEF Next, Handle, Loud, SweepFailure

-----------------------------------------------------------------------------
(* Attempt numbers: no assumption on the faults *)

\* What keeps AttemptPresentedOnce: the claim counter only grows and hands
\* each number to one goroutine, whose number is fresh until it has called.
Numbering ==
    /\ \A i \in Incidents, a \in Attempts : calls[i][a] > 0 => a <= attempt_count[i]
    /\ \A h \in Handlers : pc[h] \in Owning => attempt[h] <= attempt_count[Inc(h)]
    /\ \A g, h \in Handlers :
        (pc[g] \in Owning /\ pc[h] \in Owning /\ Inc(g) = Inc(h) /\ attempt[g] = attempt[h]) => g = h
    /\ \A h \in Handlers :
        (pc[h] \in Owning \ {"settle"} /\ attempt[h] \in Attempts) => calls[Inc(h)][attempt[h]] = 0
    /\ AttemptPresentedOnce

LEMMA QuietNumbering ==
    ASSUME Numbering, \A h \in Handlers : Keeps(h), UNCHANGED <<attempt_count, calls>>
    PROVE  Numbering'
  BY DEF Numbering, Keeps, Inc, AttemptPresentedOnce

\* A goroutine that stops owning its incident gives its number up for good.
LEMMA KeepsByRelease ==
    ASSUME TypeOK, NEW h \in Handlers, GoTo(h, "ack") \/ GoIdle(h),
           UNCHANGED <<task, attempt, outcome>> \/ GoIdle(h)
    PROVE  \A g \in Handlers : Keeps(g)
  BY KeepsByGoTo, KeepsByGoIdle DEF Place, Owning

LEMMA StepNumbering == TypeOK /\ Numbering /\ [Next]_vars => Numbering'
<1>. SUFFICES ASSUME TypeOK, Numbering, [Next]_vars PROVE Numbering'
  OBVIOUS
<1>. USE DEF rowVars, poolVars, gatewayVars
<1>1. CASE Quiet
  BY <1>1, QuietNumbering DEF Quiet
<1>2. CASE SweepFailure
  <2>1. UNCHANGED <<pc, task, attempt, outcome, attempt_count, calls>>
    BY <1>2 DEF SweepFailure, SweepPublishError, SweepRearm, ScheduleIncident, localVars
  <2>. QED
    BY <2>1, QuietNumbering DEF Keeps
<1>3. ASSUME NEW h \in Handlers, Abstain(h) \/ Defer(h) \/ Settle(h) PROVE Numbering'
  <2>1. UNCHANGED <<attempt_count, calls>>
    BY <1>3 DEF Abstain, Defer, Settle, ScheduleIncident
  <2>2. \A g \in Handlers : Keeps(g)
    BY <1>3, KeepsByRelease DEF Abstain, Defer, Settle, localVars
  <2>. QED
    BY <2>1, <2>2, QuietNumbering
<1>4. ASSUME NEW h \in Handlers, Claim(h) PROVE Numbering'
  <2>1. CASE GoTo(h, "ack") /\ UNCHANGED <<task, attempt, outcome, attempt_count>>
    BY <1>4, <2>1, KeepsByRelease, QuietNumbering DEF Claim
  <2>2. CASE /\ attempt_count' = [attempt_count EXCEPT ![Inc(h)] = NextAttempt(Inc(h))]
             /\ attempt' = [attempt EXCEPT ![h] = NextAttempt(Inc(h))]
             /\ GoTo(h, "gate")
    <3>1. /\ pc[h] = "claim"
          /\ Inc(h) \in Incidents
          /\ attempt_count[Inc(h)] \in Nat
          /\ UNCHANGED <<task, calls>>
      BY <1>4 DEF Claim, TypeOK, Holding, Task, Inc, RowTypes
    <3>2. \A i \in Incidents : attempt_count'[i] =
                IF i = Inc(h) THEN attempt_count[i] + 1 ELSE attempt_count[i]
      BY <2>2, <3>1 DEF NextAttempt, TypeOK, RowTypes
    <3>3. \A g \in Handlers :
            /\ g # h => pc'[g] = pc[g] /\ attempt'[g] = attempt[g]
            /\ pc'[h] = "gate" /\ attempt'[h] = attempt_count[Inc(h)] + 1
            /\ Inc(g)' = Inc(g)
      BY <2>2, <3>1 DEF GoTo, NextAttempt, TypeOK, LocalTypes, Inc
    <3>4. \A g \in Handlers : pc[g] \in Owning => Inc(g) \in Incidents
      BY DEF TypeOK, Holding, Task, Owning, Inc
    <3>5. \A i \in Incidents, a \in Attempts : calls'[i][a] > 0 => a <= attempt_count'[i]
      BY <3>1, <3>2 DEF Numbering, TypeOK, RowTypes, Attempts
    <3>6. \A g \in Handlers : pc'[g] \in Owning => attempt'[g] <= attempt_count'[Inc(g)']
      BY <3>1, <3>2, <3>3, <3>4 DEF Numbering, TypeOK, RowTypes, LocalTypes
    <3>7. \A g, k \in Handlers :
            (pc'[g] \in Owning /\ pc'[k] \in Owning /\ Inc(g)' = Inc(k)' /\ attempt'[g] = attempt'[k])
                => g = k
      BY <3>1, <3>3, <3>4 DEF Numbering, TypeOK, RowTypes, LocalTypes
    <3>8. \A g \in Handlers :
            (pc'[g] \in Owning \ {"settle"} /\ attempt'[g] \in Attempts) => calls'[Inc(g)'][attempt'[g]] = 0
      <4>1. \A a \in Attempts : a = attempt_count[Inc(h)] + 1 => calls[Inc(h)][a] = 0
        <5>1. \A a \in Attempts : calls[Inc(h)][a] \in Nat
          BY <3>1 DEF TypeOK, GatewayTypes
        <5>. QED
          BY <3>1, <5>1 DEF Numbering, Attempts
      <4>. QED
        BY <3>1, <3>3, <3>4, <4>1 DEF Numbering
    <3>. QED
      BY <3>1, <3>5, <3>6, <3>7, <3>8 DEF Numbering, AttemptPresentedOnce
  <2>. QED
    BY <1>4, <2>1, <2>2 DEF Claim
<1>5. ASSUME NEW h \in Handlers, CallGateway(h) PROVE Numbering'
  <2>1. /\ pc[h] = "call"
        /\ Inc(h) \in Incidents
        /\ attempt[h] \in Attempts
        /\ calls[Inc(h)][attempt[h]] = 0
        /\ attempt[h] <= attempt_count[Inc(h)]
        /\ UNCHANGED <<task, attempt, attempt_count>>
    BY <1>5 DEF CallGateway, TypeOK, Holding, Task, Gated, Owning, Inc, Numbering
  <2>2. \A i \in Incidents, a \in Attempts : calls'[i][a] =
            IF i = Inc(h) /\ a = attempt[h] THEN 1 ELSE calls[i][a]
    BY <1>5, <2>1 DEF CallGateway, TypeOK, GatewayTypes
  <2>3. \A g \in Handlers :
            /\ g # h => pc'[g] = pc[g]
            /\ pc'[h] = "settle"
            /\ Inc(g)' = Inc(g)
    BY <1>5, <2>1 DEF CallGateway, GoTo, TypeOK, LocalTypes, Inc
  <2>4. \A g \in Handlers : pc[g] \in Owning => Inc(g) \in Incidents
    BY DEF TypeOK, Holding, Task, Owning, Inc
  <2>5. \A i \in Incidents, a \in Attempts : calls'[i][a] > 0 => a <= attempt_count'[i]
    BY <2>1, <2>2 DEF Numbering
  <2>6. \A g \in Handlers : pc'[g] \in Owning => attempt'[g] <= attempt_count'[Inc(g)']
    BY <2>1, <2>3 DEF Numbering, Owning
  <2>7. \A g, k \in Handlers :
          (pc'[g] \in Owning /\ pc'[k] \in Owning /\ Inc(g)' = Inc(k)' /\ attempt'[g] = attempt'[k])
              => g = k
    BY <2>1, <2>3 DEF Numbering, Owning
  <2>8. \A g \in Handlers :
          (pc'[g] \in Owning \ {"settle"} /\ attempt'[g] \in Attempts) => calls'[Inc(g)'][attempt'[g]] = 0
    BY <2>1, <2>2, <2>3, <2>4 DEF Numbering, Owning
  <2>9. AttemptPresentedOnce'
    BY <2>2 DEF Numbering, AttemptPresentedOnce
  <2>. QED
    BY <2>5, <2>6, <2>7, <2>8, <2>9 DEF Numbering
<1>. QED
  BY <1>1, <1>2, <1>3, <1>4, <1>5, QuietSteps DEF Loud

LEMMA AlwaysNumbered == Spec => []Numbering
<1>1. Init => Numbering
  BY DEF Init, Numbering, AttemptPresentedOnce, Owning
<1>2. TypeOK /\ Numbering /\ [Next]_vars => Numbering'
  BY StepNumbering
<1>. QED
  BY <1>1, <1>2, Typed, PTL DEF Spec

\* No attempt number of an incident is presented to the gateway twice, under
\* any combination of faults, for any number of pools and duplicates: the
\* increment in IncrementIncidentAttempts is what makes the executor's
\* idempotency key fresh.
THEOREM Numbered == Spec => []AttemptPresentedOnce
<1>1. Numbering => AttemptPresentedOnce
  BY DEF Numbering
<1>. QED
  BY <1>1, AlwaysNumbered, PTL

\* The same, with the types: what the run checks.
THEOREM AttemptsAreSound == Spec => []AttemptsSound
<1>1. TypeOK /\ AttemptPresentedOnce => AttemptsSound
  BY DEF AttemptsSound
<1>. QED
  BY <1>1, Typed, Numbered, PTL

-----------------------------------------------------------------------------
(* Custody of the incident: no publication fails *)

NoPublishFault == "publish" \notin Faults

\* What the gateway did in a turn, as its owner was answered.
Moved(h) == IF outcome[h] \in {"captured", "lostCapture"} THEN 1 ELSE 0

\* The inductive strengthening.  The owner of an incident is the one whose
\* claim put it in EXECUTING and whose number is its counter; the money of an
\* incident nobody executes has not moved unless its verdict says so; and the
\* sweeper, whose write looks at no state, has nothing to put back.
Custody ==
    /\ \A p \in Pools : rearming[p] = {}
    /\ \A h \in Handlers :
        pc[h] \in Owning => /\ state[Inc(h)] = "EXECUTING"
                            /\ attempt[h] = attempt_count[Inc(h)]
                            /\ debits[Inc(h)] = IF pc[h] = "settle" THEN Moved(h) ELSE 0
    /\ ExclusiveExecution
    /\ NoSecondDebit
    /\ \A i \in Incidents : state[i] \in Claimable => debits[i] = 0
    /\ MoneyAccounted

LEMMA QuietCustody ==
    ASSUME TypeOK, Custody, Quiet
    PROVE  Custody'
<1>1. \A h \in Handlers : pc'[h] \in Owning =>
        /\ pc[h] \in Owning
        /\ Inc(h)' = Inc(h)
        /\ attempt'[h] = attempt[h]
        /\ Moved(h)' = Moved(h)
        /\ pc'[h] = "settle" <=> pc[h] = "settle"
  BY DEF Quiet, Keeps, Inc, Moved
<1>2. \A p \in Pools : rearming'[p] = {}
  BY DEF Quiet, Custody
<1>3. ExclusiveExecution'
  BY <1>1 DEF Custody, ExclusiveExecution
<1>4. NoSecondDebit' /\ MoneyAccounted' /\ (\A i \in Incidents : state'[i] \in Claimable => debits'[i] = 0)
  BY DEF Quiet, Custody, NoSecondDebit, MoneyAccounted
<1>5. \A h \in Handlers :
        pc'[h] \in Owning => /\ state'[Inc(h)'] = "EXECUTING"
                             /\ attempt'[h] = attempt_count'[Inc(h)']
                             /\ debits'[Inc(h)'] = IF pc'[h] = "settle" THEN Moved(h)' ELSE 0
  BY <1>1 DEF Quiet, Custody
<1>. QED
  BY <1>2, <1>3, <1>4, <1>5 DEF Custody, Claimable

\* The owner writes the state that ends its turn.
LEMMA ReleaseCustody ==
    ASSUME TypeOK, Custody, NEW h \in Handlers, pc[h] \in Owning, NEW s \in Claimable \cup Terminal,
           state' = [state EXCEPT ![Inc(h)] = s],
           IF s = "RECOVERED" THEN debits[Inc(h)] = 1 ELSE debits[Inc(h)] = 0,
           \A g \in Handlers : Keeps(g),
           pc'[h] \notin Owning,
           UNCHANGED <<attempt_count, debits, rearming>>
    PROVE  Custody'
<1>1. Inc(h) \in Incidents
  BY DEF TypeOK, Holding, Owning, Task, Inc
<1>2. \A i \in Incidents : state'[i] = IF i = Inc(h) THEN s ELSE state[i]
  BY <1>1 DEF TypeOK, RowTypes
<1>3. \A g \in Handlers : pc'[g] \in Owning =>
        /\ pc[g] \in Owning
        /\ Inc(g)' = Inc(g)
        /\ Inc(g) \in Incidents
        /\ Inc(g) # Inc(h)
        /\ attempt'[g] = attempt[g]
        /\ Moved(g)' = Moved(g)
        /\ pc'[g] = "settle" <=> pc[g] = "settle"
  BY DEF Keeps, Inc, Moved, Custody, ExclusiveExecution, TypeOK, Holding, Owning, Task
<1>4. ExclusiveExecution'
  BY <1>3 DEF Custody, ExclusiveExecution
<1>5. NoSecondDebit' /\ MoneyAccounted' /\ (\A i \in Incidents : state'[i] \in Claimable => debits'[i] = 0)
  BY <1>1, <1>2 DEF Custody, NoSecondDebit, MoneyAccounted, Claimable, Terminal
<1>6. \A g \in Handlers :
        pc'[g] \in Owning => /\ state'[Inc(g)'] = "EXECUTING"
                             /\ attempt'[g] = attempt_count'[Inc(g)']
                             /\ debits'[Inc(g)'] = IF pc'[g] = "settle" THEN Moved(g)' ELSE 0
  BY <1>2, <1>3 DEF Custody
<1>. QED
  BY <1>4, <1>5, <1>6 DEF Custody, Claimable

\* What each loud step does, in terms of custody.
LEMMA ClaimCustody ==
    ASSUME TypeOK, Custody, NEW h \in Handlers, Claim(h)
    PROVE  Custody'
<1>1. CASE GoTo(h, "ack") /\ UNCHANGED <<task, attempt, outcome, state, attempt_count>>
  BY <1>1, KeepsByRelease, QuietCustody DEF Claim, Quiet, gatewayVars, poolVars
<1>2. CASE /\ state[Inc(h)] \in Claimable
           /\ state' = [state EXCEPT ![Inc(h)] = "EXECUTING"]
           /\ attempt_count' = [attempt_count EXCEPT ![Inc(h)] = NextAttempt(Inc(h))]
           /\ attempt' = [attempt EXCEPT ![h] = NextAttempt(Inc(h))]
           /\ GoTo(h, "gate")
  <2>1. /\ pc[h] = "claim"
        /\ Inc(h) \in Incidents
        /\ UNCHANGED <<task, outcome, debits, rearming>>
    BY <1>2 DEF Claim, TypeOK, Holding, Task, Inc, gatewayVars, poolVars
  <2>2. \A i \in Incidents :
          /\ state'[i] = IF i = Inc(h) THEN "EXECUTING" ELSE state[i]
          /\ attempt_count'[i] = IF i = Inc(h) THEN NextAttempt(i) ELSE attempt_count[i]
    BY <1>2, <2>1 DEF TypeOK, RowTypes
  <2>3. \A g \in Handlers :
          /\ g # h => pc'[g] = pc[g] /\ attempt'[g] = attempt[g]
          /\ pc'[h] = "gate" /\ attempt'[h] = NextAttempt(Inc(h))
          /\ Inc(g)' = Inc(g)
          /\ Moved(g)' = Moved(g)
    BY <1>2, <2>1 DEF GoTo, TypeOK, LocalTypes, Inc, Moved
  <2>4. \A g \in Handlers :
          pc[g] \in Owning => Inc(g) \in Incidents /\ Inc(g) # Inc(h)
    BY <1>2 DEF Custody, Claimable, TypeOK, Holding, Task, Owning, Inc
  <2>5. ExclusiveExecution'
    BY <2>3, <2>4 DEF Custody, ExclusiveExecution
  <2>6. /\ NoSecondDebit' /\ MoneyAccounted'
        /\ \A i \in Incidents : state'[i] \in Claimable => debits'[i] = 0
    BY <2>1, <2>2 DEF Custody, NoSecondDebit, MoneyAccounted, Claimable, Terminal
  <2>7. \A g \in Handlers :
          pc'[g] \in Owning => /\ state'[Inc(g)'] = "EXECUTING"
                               /\ attempt'[g] = attempt_count'[Inc(g)']
                               /\ debits'[Inc(g)'] = IF pc'[g] = "settle" THEN Moved(g)' ELSE 0
    BY <1>2, <2>1, <2>2, <2>3, <2>4 DEF Custody
  <2>. QED
    BY <2>1, <2>5, <2>6, <2>7 DEF Custody, Claimable
<1>. QED
  BY <1>1, <1>2 DEF Claim

LEMMA CallCustody ==
    ASSUME TypeOK, Custody, NEW h \in Handlers, CallGateway(h)
    PROVE  Custody'
<1>1. /\ pc[h] = "call"
      /\ Inc(h) \in Incidents
      /\ debits[Inc(h)] = 0
      /\ state[Inc(h)] = "EXECUTING"
      /\ UNCHANGED <<task, attempt, state, attempt_count, rearming>>
  BY DEF CallGateway, TypeOK, Holding, Task, Inc, Custody, Owning, rowVars, poolVars
<1>2. PICK answer \in Outcomes :
        /\ outcome' = [outcome EXCEPT ![h] = answer]
        /\ debits' = [debits EXCEPT ![Inc(h)] =
                        IF answer \in {"captured", "lostCapture"} THEN @ + 1 ELSE @]
  BY DEF CallGateway, Outcomes
<1>3. \A g \in Handlers :
        /\ g # h => pc'[g] = pc[g] /\ outcome'[g] = outcome[g]
        /\ pc'[h] = "settle" /\ outcome'[h] = answer
        /\ Inc(g)' = Inc(g)
  BY <1>1, <1>2 DEF CallGateway, GoTo, TypeOK, LocalTypes, Inc
<1>4. \A i \in Incidents : debits'[i] = IF i = Inc(h) THEN Moved(h)' ELSE debits[i]
  BY <1>1, <1>2, <1>3 DEF TypeOK, GatewayTypes, Moved
<1>5. \A g \in Handlers : pc[g] \in Owning => Inc(g) \in Incidents /\ (g # h => Inc(g) # Inc(h))
  BY <1>1 DEF Custody, ExclusiveExecution, TypeOK, Holding, Task, Owning, Inc
<1>6. ExclusiveExecution'
  BY <1>1, <1>3 DEF Custody, ExclusiveExecution, Owning
<1>7. Moved(h)' \in {0, 1}
  BY DEF Moved
<1>8. /\ NoSecondDebit' /\ MoneyAccounted'
      /\ \A i \in Incidents : state'[i] \in Claimable => debits'[i] = 0
  BY <1>1, <1>4, <1>7 DEF Custody, NoSecondDebit, MoneyAccounted, Claimable, Terminal
<1>9. \A g \in Handlers :
        pc'[g] \in Owning => /\ state'[Inc(g)'] = "EXECUTING"
                             /\ attempt'[g] = attempt_count'[Inc(g)']
                             /\ debits'[Inc(g)'] = IF pc'[g] = "settle" THEN Moved(g)' ELSE 0
  <2>1. \A g \in Handlers : g # h => Moved(g)' = Moved(g)
    BY <1>3 DEF Moved
  <2>. QED
    BY <1>1, <1>3, <1>4, <1>5, <2>1 DEF Custody, Owning
<1>. QED
  BY <1>1, <1>6, <1>8, <1>9 DEF Custody, Claimable

\* The three ways a turn ends with a write: vetoed, deferred, settled.
LEMMA TurnEnds ==
    ASSUME TypeOK, Custody, NEW h \in Handlers, Abstain(h) \/ Defer(h) \/ Settle(h)
    PROVE  /\ UNCHANGED <<attempt_count, calls, debits, rearming>>
           /\ \A g \in Handlers : Keeps(g)
           /\ pc[h] \in Owning /\ pc'[h] \notin Owning
           /\ \/ UNCHANGED state
              \/ \E s \in Claimable \cup Terminal :
                    /\ state' = [state EXCEPT ![Inc(h)] = s]
                    /\ IF s = "RECOVERED" THEN debits[Inc(h)] = 1 ELSE debits[Inc(h)] = 0
<1>. USE DEF Abstain, Defer, Settle, ScheduleIncident, rowVars, poolVars, gatewayVars
<1>1. UNCHANGED <<attempt_count, calls, debits, rearming>>
  OBVIOUS
<1>2. \A g \in Handlers : Keeps(g)
  BY KeepsByRelease DEF localVars
<1>3. pc[h] \in Owning /\ pc'[h] \notin Owning
  BY DEF TypeOK, LocalTypes, GoTo, GoIdle, Owning
<1>4. debits[Inc(h)] = IF pc[h] = "settle" THEN Moved(h) ELSE 0
  BY <1>3 DEF Custody
<1>. DEFINE Writes(s) == /\ state' = [state EXCEPT ![Inc(h)] = s]
                        /\ IF s = "RECOVERED" THEN debits[Inc(h)] = 1 ELSE debits[Inc(h)] = 0
<1>5. \/ UNCHANGED state
      \/ Writes("ABSTAINED") \/ Writes("SCHEDULED") \/ Writes("RECOVERED") \/ Writes("ABANDONED")
  <2>1. CASE Abstain(h)
    BY <1>4, <2>1
  <2>2. CASE Defer(h)
    BY <1>4, <2>2
  <2>3. CASE Settle(h)
    BY <1>4, <2>3 DEF Moved
  <2>. QED
    BY <2>1, <2>2, <2>3
<1>. HIDE DEF Writes
<1>6. UNCHANGED state \/ \E s \in Claimable \cup Terminal : Writes(s)
  BY <1>5 DEF Claimable, Terminal
<1>. QED
  BY <1>1, <1>2, <1>3, <1>6 DEF Writes

LEMMA StepCustody ==
    ASSUME NoPublishFault
    PROVE  TypeOK /\ Custody /\ [Next]_vars => Custody'
<1>. SUFFICES ASSUME TypeOK, Custody, [Next]_vars PROVE Custody'
  OBVIOUS
<1>1. CASE Quiet
  BY <1>1, QuietCustody
<1>2. CASE SweepFailure
  BY <1>2 DEF SweepFailure, SweepPublishError, SweepRearm, NoPublishFault, Custody
<1>3. ASSUME NEW h \in Handlers, Loud(h) PROVE Custody'
  <2>1. CASE Claim(h)
    BY <2>1, ClaimCustody
  <2>2. CASE CallGateway(h)
    BY <2>2, CallCustody
  <2>3. CASE Abstain(h) \/ Defer(h) \/ Settle(h)
    <3>1. CASE UNCHANGED state
      BY <2>3, <3>1, TurnEnds, QuietCustody DEF Quiet
    <3>2. CASE ~UNCHANGED state
      BY <2>3, <3>2, TurnEnds, ReleaseCustody
    <3>. QED
      BY <3>1, <3>2
  <2>. QED
    BY <1>3, <2>1, <2>2, <2>3 DEF Loud
<1>. QED
  BY <1>1, <1>2, <1>3, QuietSteps

LEMMA InitCustody == Init => Custody
  BY DEF Init, Custody, ExclusiveExecution, NoSecondDebit, MoneyAccounted, Owning, Terminal

LEMMA AlwaysCustody ==
    ASSUME NoPublishFault
    PROVE  Spec => []Custody
<1>1. Init => Custody
  BY InitCustody
<1>2. TypeOK /\ Custody /\ [Next]_vars => Custody'
  BY StepCustody
<1>. QED
  BY <1>1, <1>2, Typed, PTL DEF Spec

\* At most one goroutine of any pool is between claiming an incident and the
\* write that ends its turn, as long as no publication by the sweeper fails.
THEOREM Exclusive ==
    ASSUME NoPublishFault
    PROVE  Spec => []ExclusiveExecution
<1>1. Custody => ExclusiveExecution
  BY DEF Custody
<1>. QED
  BY <1>1, AlwaysCustody, PTL

\* The gateway captures the payment of an incident at most once, through any
\* number of duplicates, crashes and lost answers.
THEOREM SingleDebit ==
    ASSUME NoPublishFault
    PROVE  Spec => []NoSecondDebit
<1>1. Custody => NoSecondDebit
  BY DEF Custody
<1>. QED
  BY <1>1, AlwaysCustody, PTL

\* Beyond that, the verdict of a concluded incident agrees with where the money
\* is.
THEOREM Accounted ==
    ASSUME NoPublishFault
    PROVE  Spec => []MoneySound
<1>1. Custody => MoneySound
  BY DEF Custody, MoneySound
<1>. QED
  BY <1>1, AlwaysCustody, PTL

\* What one step does to the state of an incident: it can leave EXECUTING by
\* its owner's hand, and enter it by a claim.
LEMMA StateMoves ==
    ASSUME NoPublishFault, TypeOK, Custody, [Next]_vars, NEW i \in Incidents
    PROVE  \/ state'[i] = state[i]
           \/ state[i] \in Claimable /\ state'[i] = "EXECUTING"
           \/ state[i] = "EXECUTING"
<1>1. CASE Quiet
  BY <1>1 DEF Quiet
<1>2. CASE SweepFailure
  BY <1>2 DEF SweepFailure, SweepPublishError, SweepRearm, NoPublishFault, Custody
<1>3. ASSUME NEW h \in Handlers, Claim(h)
      PROVE  \/ state'[i] = state[i]
             \/ state[i] \in Claimable /\ state'[i] = "EXECUTING"
  BY <1>3 DEF Claim, TypeOK, RowTypes
<1>4. ASSUME NEW h \in Handlers, CallGateway(h) PROVE state'[i] = state[i]
  BY <1>4 DEF CallGateway, rowVars
<1>5. ASSUME NEW h \in Handlers, Abstain(h) \/ Defer(h) \/ Settle(h)
      PROVE  state'[i] = state[i] \/ state[i] = "EXECUTING"
  <2>1. pc[h] \in Owning
    BY <1>5, TurnEnds
  <2>2. state[Inc(h)] = "EXECUTING"
    BY <2>1 DEF Custody
  <2>. QED
    BY <1>5, <2>2, TurnEnds DEF TypeOK, RowTypes
<1>. QED
  BY <1>1, <1>2, <1>3, <1>4, <1>5, QuietSteps DEF Loud

\* No step leaves a terminal state, although the statements that write the
\* state do not look at it.
THEOREM Final ==
    ASSUME NoPublishFault
    PROVE  Spec => TerminalIsFinal
<1>1. TypeOK /\ Custody /\ [Next]_vars =>
        [\A i \in Incidents : state[i] \in Terminal => state'[i] = state[i]]_vars
  <2>. SUFFICES ASSUME TypeOK, Custody, [Next]_vars, NEW i \in Incidents, state[i] \in Terminal
                PROVE  state'[i] = state[i]
    OBVIOUS
  <2>. QED
    BY StateMoves DEF Terminal, Claimable
<1>. QED
  BY <1>1, Typed, AlwaysCustody, PTL DEF Spec, TerminalIsFinal

-----------------------------------------------------------------------------
(* Recovery implements Lifecycle *)

LEMMA InitPromise == Init => Promise!Init
<1>. SUFFICES ASSUME Init PROVE Promise!Init
  OBVIOUS
<1>1. \A i \in Incidents : {a \in Attempts : calls[i][a] > 0} = {}
  BY DEF Init
<1>2. \A i \in Incidents : Phase(state[i]) = "open" /\ state[i] # "RECOVERED"
  BY DEF Init, Phase, Terminal
<1>. QED
  BY <1>1, <1>2 DEF Init, Promise!Init

\* A step that touches neither the state nor the gateway stutters.
LEMMA StutterPromise ==
    ASSUME UNCHANGED <<state, attempt_count, calls, debits>>
    PROVE  UNCHANGED Promise!vars
  BY DEF Promise!vars

LEMMA ClaimPromise ==
    ASSUME TypeOK, Custody, NEW h \in Handlers, Claim(h)
    PROVE  [Promise!Next]_(Promise!vars)
<1>1. CASE UNCHANGED <<state, attempt_count>>
  BY <1>1, StutterPromise DEF Claim, gatewayVars
<1>2. CASE /\ state[Inc(h)] \in Claimable
           /\ state' = [state EXCEPT ![Inc(h)] = "EXECUTING"]
           /\ attempt_count' = [attempt_count EXCEPT ![Inc(h)] = NextAttempt(Inc(h))]
  <2>1. Inc(h) \in Incidents /\ UNCHANGED <<calls, debits>>
    BY DEF Claim, TypeOK, Holding, Task, Inc, gatewayVars
  <2>2. \A i \in Incidents : state'[i] = IF i = Inc(h) THEN "EXECUTING" ELSE state[i]
    BY <1>2 DEF TypeOK, RowTypes
  <2>3. Promise!TakeTurn(Inc(h))
    BY <1>2, <2>1, <2>2
    DEF Promise!TakeTurn, Phase, Claimable, Terminal, NextAttempt, TypeOK, RowTypes
  <2>. QED
    BY <2>1, <2>3 DEF Promise!Next
<1>. QED
  BY <1>1, <1>2 DEF Claim

LEMMA CallPromise ==
    ASSUME TypeOK, Numbering, Custody, NEW h \in Handlers, CallGateway(h)
    PROVE  Promise!Next
<1>0. PICK i \in Incidents, a \in Attempts : i = Inc(h) /\ a = attempt[h]
  BY DEF CallGateway, TypeOK, Holding, Task, Inc, Gated
<1>1. /\ i \in Incidents
      /\ a \in Attempts
      /\ a = attempt_count[i]
      /\ state[i] = "EXECUTING"
      /\ debits[i] = 0
      /\ calls[i][a] = 0
      /\ UNCHANGED <<state, attempt_count>>
  BY <1>0 DEF CallGateway, Custody, Numbering, Owning, rowVars
<1>2. calls' = [calls EXCEPT ![i][a] = @ + 1]
  BY <1>0 DEF CallGateway
<1>3. \A j \in Incidents, b \in Attempts : calls'[j][b] =
        IF j = i /\ b = a THEN 1 ELSE calls[j][b]
  BY <1>1, <1>2 DEF TypeOK, GatewayTypes
<1>4. PICK c \in {0, 1} : debits' = [debits EXCEPT ![i] = c]
  <2>1. PICK answer : debits' = [debits EXCEPT ![i] = IF answer \in {"captured", "lostCapture"} THEN @ + 1 ELSE @]
    BY <1>0 DEF CallGateway
  <2>2. CASE answer \in {"captured", "lostCapture"}
    <3>1. debits' = [debits EXCEPT ![i] = 1]
      BY <1>1, <2>1, <2>2
    <3>. QED
      BY <3>1
  <2>3. CASE answer \notin {"captured", "lostCapture"}
    BY <1>1, <2>1, <2>3
  <2>. QED
    BY <2>2, <2>3
<1>5. [j \in Incidents |-> {b \in Attempts : calls'[j][b] > 0}]
        = [[j \in Incidents |-> {b \in Attempts : calls[j][b] > 0}] EXCEPT ![i] = @ \cup {a}]
  <2>1. \A j \in Incidents : {b \in Attempts : calls'[j][b] > 0} =
          IF j = i THEN {b \in Attempts : calls[j][b] > 0} \cup {a}
                   ELSE {b \in Attempts : calls[j][b] > 0}
    BY <1>1, <1>3
  <2>. QED
    BY <2>1
<1>6. Promise!Present(i)
  <2>1. a \in 1..MaxAttempts /\ a \notin {b \in Attempts : calls[i][b] > 0}
    BY <1>1 DEF Attempts
  <2>2. Phase(state[i]) = "working"
    BY <1>1 DEF Phase
  <2>. QED
    BY <1>1, <1>4, <1>5, <2>1, <2>2 DEF Promise!Present
<1>. QED
  BY <1>1, <1>6 DEF Promise!Next

LEMMA TurnEndsPromise ==
    ASSUME TypeOK, Custody, NEW h \in Handlers, Abstain(h) \/ Defer(h) \/ Settle(h)
    PROVE  [Promise!Next]_(Promise!vars)
<1>0. PICK i \in Incidents : i = Inc(h)
  BY TurnEnds DEF TypeOK, Holding, Task, Inc, Owning
<1>1. state[i] = "EXECUTING" /\ UNCHANGED <<attempt_count, calls, debits>>
  BY <1>0, TurnEnds DEF Custody
<1>2. CASE UNCHANGED state
  BY <1>1, <1>2, StutterPromise
<1>3. ASSUME NEW s \in Claimable \cup Terminal, state' = [state EXCEPT ![i] = s],
             IF s = "RECOVERED" THEN debits[i] = 1 ELSE debits[i] = 0
      PROVE  Promise!Next
  <2>1. \A j \in Incidents : state'[j] = IF j = i THEN s ELSE state[j]
    BY <1>1, <1>3 DEF TypeOK, RowTypes
  <2>2. CASE s \in Claimable
    <3>1. Phase(state[i]) = "working" /\ Phase(s) = "open" /\ s # "RECOVERED" /\ state[i] # "RECOVERED"
      BY <1>1, <2>2 DEF Phase, Claimable, Terminal
    <3>2. [j \in Incidents |-> Phase(state'[j])] =
            [[j \in Incidents |-> Phase(state[j])] EXCEPT ![i] = "open"]
      BY <2>1, <3>1
    <3>3. [j \in Incidents |-> state'[j] = "RECOVERED"] = [j \in Incidents |-> state[j] = "RECOVERED"]
      BY <2>1, <3>1
    <3>4. Promise!Rest(i)
      BY <1>1, <1>3, <3>1, <3>2, <3>3 DEF Promise!Rest
    <3>. QED
      BY <1>1, <3>4 DEF Promise!Next
  <2>3. CASE s \in Terminal
    <3>1. Phase(state[i]) = "working" /\ Phase(s) = "closed" /\ (s = "RECOVERED") = (debits[i] = 1)
      BY <1>1, <1>3, <2>3 DEF Phase, Terminal
    <3>2. [j \in Incidents |-> Phase(state'[j])] =
            [[j \in Incidents |-> Phase(state[j])] EXCEPT ![i] = "closed"]
      BY <2>1, <3>1
    <3>3. [j \in Incidents |-> state'[j] = "RECOVERED"] =
            [[j \in Incidents |-> state[j] = "RECOVERED"] EXCEPT ![i] = debits[i] = 1]
      BY <2>1, <3>1
    <3>4. Promise!Conclude(i)
      BY <1>1, <3>1, <3>2, <3>3 DEF Promise!Conclude
    <3>. QED
      BY <1>1, <3>4 DEF Promise!Next
  <2>. QED
    BY <2>2, <2>3
<1>. QED
  BY <1>0, <1>2, <1>3, TurnEnds

LEMMA StepPromise ==
    ASSUME NoPublishFault
    PROVE  TypeOK /\ Numbering /\ Custody /\ [Next]_vars => [Promise!Next]_(Promise!vars)
<1>. SUFFICES ASSUME TypeOK, Numbering, Custody, [Next]_vars
              PROVE  [Promise!Next]_(Promise!vars)
  OBVIOUS
<1>1. CASE Quiet
  BY <1>1, StutterPromise DEF Quiet
<1>2. CASE SweepFailure
  BY <1>2 DEF SweepFailure, SweepPublishError, SweepRearm, NoPublishFault, Custody
<1>3. ASSUME NEW h \in Handlers, Loud(h) PROVE [Promise!Next]_(Promise!vars)
  BY <1>3, ClaimPromise, CallPromise, TurnEndsPromise DEF Loud
<1>. QED
  BY <1>1, <1>2, <1>3, QuietSteps

\* The pipeline implements the promise of module Lifecycle: seen from the
\* payment, all that queues, duplicates, reclaims, crashes and lost answers
\* can do is take turns one at a time, present each at most once, and never
\* another once the money has moved.
THEOREM Implements ==
    ASSUME NoPublishFault
    PROVE  Spec => KeepsPromise
<1>1. Init => Promise!Init
  BY InitPromise
<1>2. TypeOK /\ Numbering /\ Custody /\ [Next]_vars => [Promise!Next]_(Promise!vars)
  BY StepPromise
<1>. QED
  BY <1>1, <1>2, Typed, AlwaysNumbered, AlwaysCustody, PTL DEF Spec, KeepsPromise, Promise!Spec

-----------------------------------------------------------------------------
(* The table attempts: no publication and no statement fails *)

Called(i) == {a \in Attempts : calls[i][a] > 0}

\* The inductive strengthening.  The rows of an incident nobody executes are
\* complete; its owner has one row outstanding between the call and the write.
\* An EXECUTING row whose owner died may lack one: it is never concluded.
Ledgered ==
    /\ \A i \in Incidents : state[i] # "EXECUTING" => recorded[i] = Called(i)
    /\ \A h \in Handlers :
        pc[h] \in Owning =>
            Called(Inc(h)) = recorded[Inc(h)] \cup (IF pc[h] = "settle" THEN {attempt[h]} ELSE {})

NoStoreFault == "store" \notin Faults

\* While no statement fails, only the second half of execute writes the table.
LEMMA RecordMoves ==
    ASSUME NoStoreFault, [Next]_vars
    PROVE  UNCHANGED recorded \/ (\E h \in Handlers : Settle(h))
<1>. USE DEF sideVars
<1>1. ASSUME NEW h \in Handlers, Handle(h) \/ HandlerError(h) \/ Panic(h)
      PROVE  UNCHANGED recorded \/ Settle(h)
  BY <1>1 DEF Handle, HandlerError, Panic, StepError, ReturnError, SettleError, NoStoreFault,
         Load, Claim, Gate, Abstain, Notify, RecordNotice, Defer, Spend, CallGateway, Ack, Park
<1>2. ASSUME NEW h \in Handlers, Consume(h) \/ Reclaim(h) PROVE UNCHANGED recorded
  BY <1>2 DEF Consume, Reclaim, Take
<1>3. ASSUME NEW p \in Pools, NEW i \in Incidents,
             \/ SweepClaim(p) \/ SweepPublish(p, i) \/ SweepPublishError(p, i)
             \/ SweepRearm(p, i) \/ Crash(p)
      PROVE  UNCHANGED recorded
  BY <1>3 DEF SweepClaim, SweepPublish, SweepPublishError, SweepRearm, Crash
<1>4. ASSUME NEW p \in Pools, SweepClaim(p) \/ Crash(p) PROVE UNCHANGED recorded
  BY <1>4 DEF SweepClaim, Crash
<1>5. ASSUME NEW i \in Incidents, RelayPublish(i) PROVE UNCHANGED recorded
  BY <1>5 DEF RelayPublish
<1>6. ASSUME NEW l \in Letter, Requeue(l) PROVE UNCHANGED recorded
  BY <1>6 DEF Requeue
<1>7. CASE Tick \/ UNCHANGED vars
  BY <1>7 DEF Tick, vars
<1>. QED
  BY <1>1, <1>2, <1>3, <1>4, <1>5, <1>6, <1>7 DEF Next

LEMMA OwnedIncident ==
    ASSUME TypeOK, NEW h \in Handlers, pc[h] \in Owning
    PROVE  Inc(h) \in Incidents
  BY DEF TypeOK, Holding, Task, Owning, Inc

\* A step that presents nothing and records nothing, and whose new owner, if
\* there is one, has claimed an incident nobody executed.
LEMMA KeepsLedger ==
    ASSUME TypeOK, Ledgered, \A g \in Handlers : Keeps(g),
           UNCHANGED <<calls, recorded>>,
           \A i \in Incidents : (state'[i] # "EXECUTING" /\ state'[i] # state[i]) =>
                \E h \in Handlers : pc[h] \in Owning \ {"settle"} /\ Inc(h) = i
    PROVE  Ledgered'
<1>1. \A i : Called(i)' = Called(i)
  BY DEF Called
<1>2. \A h \in Handlers : pc'[h] \in Owning =>
        /\ pc[h] \in Owning
        /\ Inc(h)' = Inc(h)
        /\ attempt'[h] = attempt[h]
        /\ pc'[h] = "settle" <=> pc[h] = "settle"
  BY DEF Keeps, Inc
<1>3. \A i \in Incidents : state'[i] # "EXECUTING" => recorded[i] = Called(i)
  BY DEF Ledgered
<1>. QED
  BY <1>1, <1>2, <1>3 DEF Ledgered

LEMMA ClaimLedger ==
    ASSUME TypeOK, Custody, Ledgered, NEW h \in Handlers, Claim(h)
    PROVE  Ledgered'
<1>1. CASE GoTo(h, "ack") /\ UNCHANGED <<task, attempt, outcome, state>>
  BY <1>1, KeepsByRelease, KeepsLedger DEF Claim, gatewayVars, sideVars
<1>2. CASE /\ state[Inc(h)] \in Claimable
           /\ state' = [state EXCEPT ![Inc(h)] = "EXECUTING"]
           /\ attempt' = [attempt EXCEPT ![h] = NextAttempt(Inc(h))]
           /\ GoTo(h, "gate")
  <2>1. Inc(h) \in Incidents /\ UNCHANGED <<task, calls, recorded>>
    BY DEF Claim, TypeOK, Holding, Task, Inc, gatewayVars, sideVars
  <2>2. \A i \in Incidents : state'[i] # "EXECUTING" => state[i] # "EXECUTING"
    BY <1>2, <2>1 DEF TypeOK, RowTypes
  <2>3. \A i : Called(i)' = Called(i)
    BY <2>1 DEF Called
  <2>4. \A g \in Handlers :
          /\ g # h => pc'[g] = pc[g] /\ attempt'[g] = attempt[g]
          /\ pc'[h] = "gate"
          /\ Inc(g)' = Inc(g)
    BY <1>2, <2>1 DEF GoTo, TypeOK, LocalTypes, Inc
  <2>5. Called(Inc(h)) = recorded[Inc(h)]
    BY <1>2, <2>1 DEF Ledgered, Claimable
  <2>. QED
    BY <2>1, <2>2, <2>3, <2>4, <2>5 DEF Ledgered
<1>. QED
  BY <1>1, <1>2 DEF Claim

LEMMA CallLedger ==
    ASSUME TypeOK, Custody, Ledgered, NEW h \in Handlers, CallGateway(h)
    PROVE  Ledgered'
<1>1. /\ pc[h] = "call"
      /\ Inc(h) \in Incidents
      /\ attempt[h] \in Attempts
      /\ state[Inc(h)] = "EXECUTING"
      /\ UNCHANGED <<task, attempt, state, recorded>>
  BY DEF CallGateway, TypeOK, Holding, Task, Inc, Custody, Owning, Gated, rowVars, sideVars
<1>2. \A i \in Incidents, a \in Attempts : calls'[i][a] =
          IF i = Inc(h) /\ a = attempt[h] THEN calls[i][a] + 1 ELSE calls[i][a]
  BY <1>1 DEF CallGateway, TypeOK, GatewayTypes
<1>3. \A i \in Incidents :
          Called(i)' = IF i = Inc(h) THEN Called(i) \cup {attempt[h]} ELSE Called(i)
  <2>1. \A i \in Incidents, a \in Attempts : calls[i][a] \in Nat
    BY DEF TypeOK, GatewayTypes
  <2>. QED
    BY <1>1, <1>2, <2>1 DEF Called
<1>4. \A g \in Handlers :
        /\ g # h => pc'[g] = pc[g]
        /\ pc'[h] = "settle"
        /\ Inc(g)' = Inc(g)
  BY <1>1 DEF CallGateway, GoTo, TypeOK, LocalTypes, Inc
<1>5. \A g \in Handlers : pc[g] \in Owning => Inc(g) \in Incidents /\ (g # h => Inc(g) # Inc(h))
  BY <1>1, OwnedIncident DEF Custody, ExclusiveExecution, Owning
<1>6. Called(Inc(h)) = recorded[Inc(h)]
  BY <1>1 DEF Ledgered, Owning
<1>7. \A g \in Handlers :
        pc'[g] \in Owning =>
            Called(Inc(g))' = recorded'[Inc(g)'] \cup (IF pc'[g] = "settle" THEN {attempt'[g]} ELSE {})
  <2>. TAKE g \in Handlers
  <2>1. CASE g = h
    BY <1>1, <1>3, <1>4, <1>6, <2>1
  <2>2. CASE g # h
    BY <1>1, <1>3, <1>4, <1>5, <2>2 DEF Ledgered
  <2>. QED
    BY <2>1, <2>2
<1>8. \A i \in Incidents : state'[i] # "EXECUTING" => recorded'[i] = Called(i)'
  BY <1>1, <1>3 DEF Ledgered
<1>. QED
  BY <1>7, <1>8 DEF Ledgered

LEMMA SettleLedger ==
    ASSUME NoStoreFault, TypeOK, Custody, Ledgered, NEW h \in Handlers, Settle(h)
    PROVE  Ledgered'
<1>1. /\ pc[h] = "settle"
      /\ Inc(h) \in Incidents
      /\ recorded' = [recorded EXCEPT ![Inc(h)] = @ \cup {attempt[h]}]
      /\ UNCHANGED calls
  BY DEF Settle, RecordAttempt, NoStoreFault, TypeOK, Holding, Task, Inc, gatewayVars
<1>2. Called(Inc(h)) = recorded[Inc(h)] \cup {attempt[h]}
  BY <1>1 DEF Ledgered, Owning
<1>3. \A i \in Incidents :
        /\ Called(i)' = Called(i)
        /\ recorded'[i] = IF i = Inc(h) THEN Called(i) ELSE recorded[i]
  BY <1>1, <1>2 DEF Called, TypeOK, SideTypes
<1>4. \A g \in Handlers : pc'[g] \in Owning =>
        /\ pc[g] \in Owning
        /\ Inc(g)' = Inc(g)
        /\ Inc(g) \in Incidents
        /\ Inc(g) # Inc(h)
        /\ attempt'[g] = attempt[g]
        /\ pc'[g] = "settle" <=> pc[g] = "settle"
  BY TurnEnds, OwnedIncident DEF Keeps, Inc, Custody, ExclusiveExecution
<1>5. \A i \in Incidents : i # Inc(h) => state'[i] = state[i]
  BY <1>1, TurnEnds DEF TypeOK, RowTypes
<1>6. \A i \in Incidents : state'[i] # "EXECUTING" => recorded'[i] = Called(i)'
  BY <1>3, <1>5 DEF Ledgered
<1>. QED
  BY <1>3, <1>4, <1>6 DEF Ledgered

LEMMA StepLedgered ==
    ASSUME NoPublishFault, NoStoreFault
    PROVE  TypeOK /\ Custody /\ Ledgered /\ [Next]_vars => Ledgered'
<1>. SUFFICES ASSUME TypeOK, Custody, Ledgered, [Next]_vars PROVE Ledgered'
  OBVIOUS
<1>1. CASE \E h \in Handlers : Settle(h)
  BY <1>1, SettleLedger
<1>2. CASE UNCHANGED recorded
  <2>1. CASE Quiet
    BY <1>2, <2>1, KeepsLedger DEF Quiet
  <2>2. CASE SweepFailure
    BY <2>2 DEF SweepFailure, SweepPublishError, SweepRearm, NoPublishFault, Custody
  <2>3. ASSUME NEW h \in Handlers, Abstain(h) \/ Defer(h) PROVE Ledgered'
    <3>1. pc[h] \in Owning \ {"settle"} /\ Inc(h) \in Incidents
      BY <2>3, OwnedIncident DEF Abstain, Defer, Owning
    <3>2. \A i \in Incidents : i # Inc(h) => state'[i] = state[i]
      BY <2>3, <3>1, TurnEnds DEF TypeOK, RowTypes
    <3>3. (\A g \in Handlers : Keeps(g)) /\ UNCHANGED calls
      BY <2>3, TurnEnds
    <3>. QED
      BY <1>2, <3>1, <3>2, <3>3, KeepsLedger
  <2>. QED
    BY <1>1, <2>1, <2>2, <2>3, QuietSteps, ClaimLedger, CallLedger DEF Loud
<1>. QED
  BY <1>1, <1>2, RecordMoves

LEMMA InitLedgered == Init => Ledgered
<1>. SUFFICES ASSUME Init PROVE Ledgered
  OBVIOUS
<1>1. \A i \in Incidents : Called(i) = {}
  BY DEF Init, Called
<1>. QED
  BY <1>1 DEF Init, Ledgered, Owning

\* The attempts of a concluded incident are exactly those the gateway saw, as
\* long as no publication by the sweeper and no statement fails: crashes,
\* panics and lost answers leave the incident unconcluded instead.
THEOREM Concluded ==
    ASSUME NoPublishFault, NoStoreFault
    PROVE  Spec => []ConcludedIsRecorded
<1>1. Init => Ledgered
  BY InitLedgered
<1>2. TypeOK /\ Custody /\ Ledgered /\ [Next]_vars => Ledgered'
  BY StepLedgered
<1>3. Ledgered => ConcludedIsRecorded
  BY DEF Ledgered, ConcludedIsRecorded, Called, Terminal
<1>. QED
  BY <1>1, <1>2, <1>3, Typed, AlwaysCustody, PTL DEF Spec

-----------------------------------------------------------------------------
(* The way back of a scheduled incident: no crash, no stranding *)

\* Pools survive, and when a publication fails its incident can be re-armed.
NoStranding == "crash" \notin Faults /\ ("publish" \notin Faults \/ "store" \notin Faults)

\* The entry in the slot is about to be acknowledged.
Leaving(s) == \E h \in Handlers : pc[h] \in {"ack", "parkAck"} /\ task[h].slot = s

\* A delivery in hand is of the entry still in its slot, if there is one.
HandsMatch ==
    \A h \in Handlers :
        pc[h] # "idle" => stream[task[h].slot] = Free \/ stream[task[h].slot].inc = Inc(h)

OnItsWay(i) ==
    \/ \E p \in Pools : i \in sweeping[p] \cup rearming[p]
    \/ \E s \in Slots : stream[s] # Free /\ stream[s].inc = i /\ ~Leaving(s)
    \/ \E l \in dlq : l.inc = i

\* The inductive strengthening.  An entry that is about to be acknowledged no
\* longer counts: what brings the incident back must outlive it.
Reachability ==
    /\ HandsMatch
    /\ \A p \in Pools :
        /\ \A i, j \in rearming[p] : i = j
        /\ rearming[p] # {} => "publish" \in Faults
    /\ \A i \in Incidents :
        (state[i] = "SCHEDULED" /\ scheduled_for[i] = NotScheduled) => OnItsWay(i)

\* A publication puts an entry where nobody will acknowledge it.
LEMMA PublishedIsOnItsWay ==
    ASSUME TypeOK, NEW i \in Incidents, NEW isDue \in BOOLEAN, Publish(i, isDue),
           UNCHANGED <<pc, task>>
    PROVE  /\ HandsMatch => HandsMatch'
           /\ \E s \in Slots : stream'[s] # Free /\ stream'[s].inc = i /\ ~Leaving(s)'
           /\ \A s \in Slots : stream[s] # Free => stream'[s] = stream[s]
<1>1. PICK s \in FreeSlots :
        stream' = [stream EXCEPT ![s] =
                    [kind |-> "new", inc |-> i, due |-> isDue, deliveries |-> 0]]
  BY DEF Publish
<1>2. /\ s \in Slots /\ stream[s] = Free /\ ~InHand(s)
      /\ stream'[s] # Free /\ stream'[s].inc = i
      /\ \A r \in Slots : r # s => stream'[r] = stream[r]
  BY <1>1 DEF FreeSlots, Free, TypeOK, QueueTypes
<1>3. ~Leaving(s)'
  BY <1>2 DEF InHand, Leaving
<1>4. ASSUME HandsMatch PROVE HandsMatch'
  <2>. SUFFICES ASSUME NEW h \in Handlers, pc[h] # "idle"
                PROVE  stream'[task[h].slot] = Free \/ stream'[task[h].slot].inc = Inc(h)
    BY DEF HandsMatch, Inc
  <2>1. task[h].slot \in Slots /\ task[h].slot # s
    BY <1>2 DEF InHand, TypeOK, Holding, Task
  <2>. QED
    BY <1>2, <1>4, <2>1 DEF HandsMatch
<1>. QED
  BY <1>2, <1>3, <1>4

\* What is on its way stays so when no slot it counts on is emptied or left.
LEMMA WayStays ==
    ASSUME NEW i, OnItsWay(i),
           \A p \in Pools : sweeping[p] \cup rearming[p] \subseteq sweeping'[p] \cup rearming'[p],
           \A s \in Slots : (stream[s] # Free /\ stream[s].inc = i /\ ~Leaving(s)) =>
                                stream'[s] # Free /\ stream'[s].inc = i /\ ~Leaving(s)',
           dlq \subseteq dlq'
    PROVE  OnItsWay(i)'
  BY DEF OnItsWay

\* A goroutine that goes on, to an acknowledgement or not.
LEMMA GoingOn ==
    ASSUME TypeOK, HandsMatch, NEW h \in Handlers, pc[h] # "idle", NEW place \in Place,
           GoTo(h, place), UNCHANGED <<task, stream>>
    PROVE  /\ HandsMatch'
           /\ place \notin {"ack", "parkAck"} => \A s \in Slots : Leaving(s)' => Leaving(s)
           /\ \A s \in Slots : Leaving(s)' => Leaving(s) \/ stream[s] = Free \/ stream[s].inc = Inc(h)
  BY DEF GoTo, HandsMatch, Leaving, Inc, TypeOK, LocalTypes

\* A goroutine that goes back to its loop.
LEMMA GoingBack ==
    ASSUME TypeOK, HandsMatch, NEW h \in Handlers, GoIdle(h), UNCHANGED stream
    PROVE  /\ HandsMatch'
           /\ \A s \in Slots : Leaving(s)' => Leaving(s)
  BY DEF GoIdle, HandsMatch, Leaving, Inc, TypeOK, LocalTypes

\* A step of a goroutine that writes no row and takes no entry off a stream.
LEMMA ReachabilityKept ==
    ASSUME Reachability, HandsMatch', UNCHANGED <<rowVars, sweeping, rearming>>,
           \A s \in Slots : stream'[s] = stream[s], dlq \subseteq dlq',
           \A s \in Slots : Leaving(s)' => Leaving(s)
    PROVE  Reachability'
<1>1. \A i : OnItsWay(i) => OnItsWay(i)'
  BY WayStays
<1>. QED
  BY <1>1 DEF Reachability, rowVars

\* A goroutine that is to acknowledge the entry of an incident it has just
\* seen, or left, in a state that does not wait for one.
LEMMA ReachabilityReleased ==
    ASSUME TypeOK, Reachability, NEW h \in Handlers, pc[h] # "idle", GoTo(h, "ack"),
           UNCHANGED <<task, stream, dlq, sweeping, rearming>>,
           ~(state'[Inc(h)] = "SCHEDULED" /\ scheduled_for'[Inc(h)] = NotScheduled),
           \A i \in Incidents : i # Inc(h) => state'[i] = state[i] /\ scheduled_for'[i] = scheduled_for[i]
    PROVE  Reachability'
<1>1. HandsMatch'
  BY GoingOn DEF Place, Reachability
<1>2. \A s \in Slots : Leaving(s)' => Leaving(s) \/ stream[s] = Free \/ stream[s].inc = Inc(h)
  BY GoingOn DEF Place, Reachability
<1>3. \A i \in Incidents : i # Inc(h) => (OnItsWay(i) => OnItsWay(i)')
  BY <1>2, WayStays
<1>. QED
  BY <1>1, <1>3 DEF Reachability

\* A delivery takes an entry in hand and leaves it where it is.
LEMMA ReachabilityTaken ==
    ASSUME TypeOK, Reachability, NEW h \in Handlers, pc[h] = "idle", NEW s \in Slots,
           stream[s] # Free, NEW n \in 1..(MaxDeliveries + 1), NEW k \in 1..(MaxDeliveries + 1),
           stream' = [stream EXCEPT ![s] = Delivered(@, n)],
           Take(h, s, k)
    PROVE  Reachability'
<1>1. /\ \A r \in Slots : r # s => stream'[r] = stream[r]
      /\ stream'[s] # Free /\ stream'[s].inc = stream[s].inc
  BY DEF TypeOK, QueueTypes, Delivered, Free
<1>2. \A g \in Handlers :
        /\ g # h => pc'[g] = pc[g] /\ task'[g] = task[g]
        /\ pc'[h] = "load" /\ task'[h].slot = s /\ task'[h].inc = stream[s].inc
  BY DEF Take, TypeOK, LocalTypes
<1>3. \A g \in Handlers : pc[g] # "idle" => task[g].slot \in Slots
  BY DEF TypeOK, Holding, Task
<1>4. HandsMatch'
  BY <1>1, <1>2, <1>3 DEF Reachability, HandsMatch, Inc
<1>5. \A r \in Slots : Leaving(r)' => Leaving(r)
  BY <1>2 DEF Leaving
<1>6. \A i : OnItsWay(i) => OnItsWay(i)'
  <2>. SUFFICES ASSUME NEW i, OnItsWay(i) PROVE OnItsWay(i)'
    OBVIOUS
  <2>. QED
    BY <1>1, <1>5, WayStays DEF Take, poolVars
<1>. QED
  BY <1>4, <1>6 DEF Reachability, Take, rowVars, poolVars

LEMMA SweepReachability ==
    ASSUME NoStranding, TypeOK, Reachability, NEW p \in Pools, NEW i \in Incidents,
           SweepClaim(p) \/ SweepPublish(p, i) \/ SweepPublishError(p, i) \/ SweepRearm(p, i)
    PROVE  Reachability'
<1>. USE DEF rowVars, localVars
<1>1. CASE SweepClaim(p)
  <2>1. UNCHANGED <<pc, task, stream, dlq, state, rearming>>
    BY <1>1 DEF SweepClaim, queueVars
  <2>2. PICK claimed \in SUBSET Due :
          /\ sweeping' = [sweeping EXCEPT ![p] = claimed]
          /\ scheduled_for' = [j \in Incidents |->
                                 IF j \in claimed THEN NotScheduled ELSE scheduled_for[j]]
    BY <1>1 DEF SweepClaim
  <2>3. HandsMatch' /\ \A s \in Slots : Leaving(s)' <=> Leaving(s)
    BY <2>1 DEF Reachability, HandsMatch, Inc, Leaving
  <2>4. \A q \in Pools : sweeping[q] \cup rearming[q] \subseteq sweeping'[q] \cup rearming'[q]
    BY <1>1, <2>1, <2>2 DEF SweepClaim, TypeOK, PoolTypes
  <2>5. \A j : OnItsWay(j) => OnItsWay(j)'
    BY <2>1, <2>3, <2>4, WayStays
  <2>6. \A j \in claimed : OnItsWay(j)'
    BY <2>2 DEF OnItsWay, TypeOK, PoolTypes
  <2>. QED
    BY <2>1, <2>2, <2>3, <2>5, <2>6 DEF Reachability
<1>2. CASE SweepPublish(p, i)
  <2>1. /\ Publish(i, TRUE)
        /\ sweeping' = [sweeping EXCEPT ![p] = @ \ {i}]
        /\ UNCHANGED <<pc, task, dlq, state, scheduled_for, rearming>>
    BY <1>2 DEF SweepPublish
  <2>2. /\ HandsMatch'
        /\ \E s \in Slots : stream'[s] # Free /\ stream'[s].inc = i /\ ~Leaving(s)'
        /\ \A s \in Slots : stream[s] # Free => stream'[s] = stream[s]
    BY <2>1, PublishedIsOnItsWay DEF Reachability
  <2>3. \A s \in Slots : Leaving(s)' <=> Leaving(s)
    BY <2>1 DEF Leaving
  <2>4. OnItsWay(i)'
    BY <2>2 DEF OnItsWay
  <2>5. \A j \in Incidents : (OnItsWay(j) /\ j # i) => OnItsWay(j)'
    BY <2>1, <2>2, <2>3 DEF OnItsWay, TypeOK, PoolTypes
  <2>. QED
    BY <2>1, <2>2, <2>4, <2>5 DEF Reachability
<1>3. CASE SweepPublishError(p, i)
  <2>1. /\ Publish(i, TRUE) \/ UNCHANGED stream
        /\ i \in sweeping[p]
        /\ rearming[p] = {}
        /\ sweeping' = [sweeping EXCEPT ![p] = @ \ {i}]
        /\ rearming' = [rearming EXCEPT ![p] = {i}]
        /\ UNCHANGED <<pc, task, dlq, state, scheduled_for>>
    BY <1>3 DEF SweepPublishError
  <2>2. /\ HandsMatch'
        /\ \A s \in Slots : stream[s] # Free => stream'[s] = stream[s]
    <3>1. CASE Publish(i, TRUE)
      BY <2>1, <3>1, PublishedIsOnItsWay DEF Reachability
    <3>2. CASE UNCHANGED stream
      BY <2>1, <3>2 DEF Reachability, HandsMatch, Inc
    <3>. QED
      BY <2>1, <3>1, <3>2
  <2>3. \A s \in Slots : Leaving(s)' <=> Leaving(s)
    BY <2>1 DEF Leaving
  <2>4. \A q \in Pools : sweeping[q] \cup rearming[q] \subseteq sweeping'[q] \cup rearming'[q]
    BY <2>1 DEF TypeOK, PoolTypes
  <2>5. \A j : OnItsWay(j) => OnItsWay(j)'
    BY <2>1, <2>2, <2>3, <2>4, WayStays
  <2>6. \A q \in Pools : /\ \A j, k \in rearming'[q] : j = k
                         /\ rearming'[q] # {} => "publish" \in Faults
    BY <1>3, <2>1 DEF SweepPublishError, Reachability, TypeOK, PoolTypes
  <2>. QED
    BY <2>1, <2>2, <2>5, <2>6 DEF Reachability
<1>4. CASE SweepRearm(p, i)
  <2>1. /\ i \in rearming[p]
        /\ ScheduleIncident(i, SweepInterval) \/ ("store" \in Faults /\ UNCHANGED rowVars)
        /\ rearming' = [rearming EXCEPT ![p] = {}]
        /\ UNCHANGED <<pc, task, stream, dlq, sweeping>>
    BY <1>4 DEF SweepRearm, queueVars
  <2>2. HandsMatch' /\ \A s \in Slots : Leaving(s)' <=> Leaving(s)
    BY <2>1 DEF Reachability, HandsMatch, Inc, Leaving
  <2>3. rearming[p] = {i}
    BY <2>1 DEF Reachability
  <2>4. \A j \in Incidents : (j # i /\ OnItsWay(j)) => OnItsWay(j)'
    BY <2>1, <2>2, <2>3 DEF OnItsWay, TypeOK, PoolTypes
  <2>5. \A q \in Pools : /\ \A j, k \in rearming'[q] : j = k
                         /\ rearming'[q] # {} => "publish" \in Faults
    BY <2>1 DEF Reachability, TypeOK, PoolTypes
  <2>6. "store" \notin Faults
    BY <2>3 DEF Reachability, NoStranding
  <2>7. /\ scheduled_for'[i] # NotScheduled
        /\ \A j \in Incidents : j # i => state'[j] = state[j] /\ scheduled_for'[j] = scheduled_for[j]
    BY <2>1, <2>6, ConstantsAssumption DEF ScheduleIncident, NotScheduled, TypeOK, RowTypes
  <2>8. ASSUME NEW j \in Incidents, state'[j] = "SCHEDULED", scheduled_for'[j] = NotScheduled
        PROVE  OnItsWay(j)'
    BY <2>4, <2>7, <2>8 DEF Reachability
  <2>. QED
    BY <2>2, <2>5, <2>8 DEF Reachability
<1>. QED
  BY <1>1, <1>2, <1>3, <1>4
LEMMA StepReachability ==
    ASSUME NoStranding
    PROVE  TypeOK /\ Reachability /\ [Next]_vars => Reachability'
<1>. SUFFICES ASSUME TypeOK, Reachability, [Next]_vars PROVE Reachability'
  OBVIOUS
<1>. USE DEF rowVars, queueVars, poolVars, localVars
<1>hands. HandsMatch
  BY DEF Reachability
<1>1. ASSUME NEW i \in Incidents, RelayPublish(i) PROVE Reachability'
  <2>1. Publish(i, FALSE) /\ UNCHANGED <<pc, task, dlq, rowVars, sweeping, rearming>>
    BY <1>1 DEF RelayPublish
  <2>2. /\ HandsMatch'
        /\ \A s \in Slots : stream[s] # Free => stream'[s] = stream[s]
    BY <2>1, <1>hands, PublishedIsOnItsWay
  <2>3. \A s \in Slots : Leaving(s)' <=> Leaving(s)
    BY <2>1 DEF Leaving
  <2>4. \A j : OnItsWay(j) => OnItsWay(j)'
    BY <2>1, <2>2, <2>3, WayStays
  <2>. QED
    BY <2>1, <2>2, <2>4 DEF Reachability
<1>2. ASSUME NEW h \in Handlers, Consume(h) PROVE Reachability'
  <2>1. PICK s \in Slots : /\ stream[s].kind = "new"
                           /\ stream' = [stream EXCEPT ![s] = Delivered(@, 1)]
                           /\ Take(h, s, 1)
    BY <1>2 DEF Consume
  <2>2. stream[s] # Free /\ 1 \in 1..(MaxDeliveries + 1) /\ pc[h] = "idle"
    BY <1>2, <2>1, ConstantsAssumption DEF Free, Consume
  <2>. QED
    BY <2>1, <2>2, ReachabilityTaken
<1>3. ASSUME NEW h \in Handlers, Reclaim(h) PROVE Reachability'
  <2>. DEFINE n(s) == Min2(stream[s].deliveries + 1, MaxDeliveries + 1)
  <2>1. PICK s \in Slots :
          /\ stream[s].kind = "pending"
          /\ stream' = [stream EXCEPT ![s] = Delivered(@, n(s))]
          /\ \E k \in {n(s), 1} : Take(h, s, k)
    BY <1>3 DEF Reclaim
  <2>2. stream[s] # Free /\ stream[s] \in Entry /\ pc[h] = "idle"
    BY <1>3, <2>1 DEF TypeOK, QueueTypes, Free, Reclaim
  <2>3. n(s) \in 1..(MaxDeliveries + 1) /\ 1 \in 1..(MaxDeliveries + 1)
    BY <2>2, ConstantsAssumption DEF Entry, Min2
  <2>. HIDE DEF n
  <2>. QED
    BY <2>1, <2>2, <2>3, ReachabilityTaken
<1>4. ASSUME NEW h \in Handlers, pc[h] # "idle",
             NEW place \in Place \ {"ack", "parkAck"}, GoTo(h, place),
             UNCHANGED <<task, stream, rowVars, sweeping, rearming>>, dlq \subseteq dlq'
      PROVE  Reachability'
  BY <1>4, <1>hands, GoingOn, ReachabilityKept
<1>5. ASSUME NEW h \in Handlers, GoIdle(h),
             UNCHANGED <<stream, dlq, rowVars, sweeping, rearming>>
      PROVE  Reachability'
  BY <1>5, <1>hands, GoingBack, ReachabilityKept
<1>6. ASSUME NEW h \in Handlers, Load(h) PROVE Reachability'
  <2>1. CASE state[Inc(h)] \in Terminal /\ GoTo(h, "ack")
    BY <1>6, <2>1, ReachabilityReleased DEF Load, Terminal
  <2>. QED
    BY <1>4, <1>5, <1>6, <2>1 DEF Load, Place
<1>7. ASSUME NEW h \in Handlers, Claim(h) PROVE Reachability'
  <2>0. /\ pc[h] = "claim" /\ Inc(h) \in Incidents
        /\ UNCHANGED <<task, stream, dlq, scheduled_for, sweeping, rearming>>
    BY <1>7 DEF Claim, TypeOK, Holding, Task, Inc
  <2>1. CASE state[Inc(h)] \notin Claimable /\ GoTo(h, "ack") /\ UNCHANGED state
    BY <2>0, <2>1, ReachabilityReleased DEF Claimable
  <2>2. CASE /\ GoTo(h, "gate")
             /\ state' = [state EXCEPT ![Inc(h)] = "EXECUTING"]
    <3>1. HandsMatch' /\ \A s \in Slots : Leaving(s)' => Leaving(s)
      BY <2>0, <2>2, <1>hands, GoingOn DEF Place
    <3>2. \A i : OnItsWay(i) => OnItsWay(i)'
      BY <2>0, <3>1, WayStays
    <3>3. \A i \in Incidents : state'[i] = "SCHEDULED" => state[i] = "SCHEDULED"
      BY <2>0, <2>2 DEF TypeOK, RowTypes
    <3>. QED
      BY <2>0, <3>1, <3>2, <3>3 DEF Reachability
  <2>. QED
    BY <1>7, <2>1, <2>2 DEF Claim
<1>8. ASSUME NEW h \in Handlers, Abstain(h) \/ Defer(h) PROVE Reachability'
  <2>1. /\ pc[h] # "idle" /\ Inc(h) \in Incidents /\ wait[h] \in Nat
        /\ GoTo(h, "ack")
        /\ UNCHANGED <<task, stream, dlq, sweeping, rearming>>
    BY <1>8 DEF Abstain, Defer, TypeOK, Holding, LocalTypes, Task, Inc
  <2>2. /\ state'[Inc(h)] = "ABSTAINED" \/ scheduled_for'[Inc(h)] # NotScheduled
        /\ \A i \in Incidents : i # Inc(h) =>
                state'[i] = state[i] /\ scheduled_for'[i] = scheduled_for[i]
    BY <1>8, <2>1, DueAtType DEF Abstain, Defer, ScheduleIncident, NotScheduled, TypeOK, RowTypes
  <2>. QED
    BY <2>1, <2>2, ReachabilityReleased
<1>9. ASSUME NEW h \in Handlers, Settle(h) PROVE Reachability'
  <2>1. pc[h] # "idle" /\ Inc(h) \in Incidents /\ UNCHANGED <<stream, dlq, sweeping, rearming>>
    BY <1>9 DEF Settle, TypeOK, Holding, Task, Inc
  <2>2. CASE GoIdle(h) /\ UNCHANGED rowVars
    BY <1>5, <2>1, <2>2
  <2>3. CASE GoTo(h, "ack") /\ ~(GoIdle(h) /\ UNCHANGED rowVars)
    <3>1. /\ state'[Inc(h)] # "SCHEDULED" \/ scheduled_for'[Inc(h)] # NotScheduled
          /\ \A i \in Incidents : i # Inc(h) =>
                  state'[i] = state[i] /\ scheduled_for'[i] = scheduled_for[i]
          /\ UNCHANGED task
      BY <1>9, <2>1, <2>3 DEF Settle, ScheduleIncident, NotScheduled, TypeOK, RowTypes
    <3>. QED
      BY <2>1, <2>3, <3>1, ReachabilityReleased
  <2>. QED
    BY <1>9, <2>2, <2>3 DEF Settle
<1>10. ASSUME NEW h \in Handlers, Gate(h) \/ Notify(h) \/ RecordNotice(h) \/ CallGateway(h)
                                  \/ Panic(h)
      PROVE  Reachability'
  BY <1>4, <1>10 DEF Gate, Notify, RecordNotice, CallGateway, Panic, Place, Owning
<1>11. ASSUME NEW h \in Handlers, Spend(h) PROVE Reachability'
  BY <1>4, <1>5, <1>11 DEF Spend, Place
<1>12. ASSUME NEW h \in Handlers, HandlerError(h) PROVE Reachability'
  BY <1>5, <1>12 DEF HandlerError, StepError, ReturnError, SettleError
<1>13. ASSUME NEW h \in Handlers, Ack(h) PROVE Reachability'
  <2>1. CASE UNCHANGED stream
    BY <1>5, <1>13, <2>1 DEF Ack
  <2>2. CASE stream' = [stream EXCEPT ![task[h].slot] = Free]
    <3>1. /\ pc[h] \in {"ack", "parkAck"} /\ GoIdle(h)
          /\ task[h].slot \in Slots
          /\ UNCHANGED <<rowVars, dlq, sweeping, rearming>>
      BY <1>13 DEF Ack, TypeOK, Holding, Task
    <3>2. \A s \in Slots : stream'[s] = IF s = task[h].slot THEN Free ELSE stream[s]
      BY <2>2, <3>1 DEF TypeOK, QueueTypes
    <3>3. \A g \in Handlers : /\ g # h => pc'[g] = pc[g] /\ task'[g] = task[g]
                              /\ pc'[h] = "idle"
      BY <3>1 DEF GoIdle, TypeOK, LocalTypes
    <3>4. \A g \in Handlers : pc[g] # "idle" => task[g].slot \in Slots
      BY DEF TypeOK, Holding, Task
    <3>5. HandsMatch'
      BY <1>hands, <3>2, <3>3, <3>4 DEF HandsMatch, Inc
    <3>6. Leaving(task[h].slot) /\ \A s \in Slots : Leaving(s)' => Leaving(s)
      BY <3>1, <3>3 DEF Leaving
    <3>7. \A i : OnItsWay(i) => OnItsWay(i)'
      <4>. SUFFICES ASSUME NEW i, OnItsWay(i) PROVE OnItsWay(i)'
        OBVIOUS
      <4>1. \A s \in Slots : (stream[s] # Free /\ stream[s].inc = i /\ ~Leaving(s)) =>
                                stream'[s] # Free /\ stream'[s].inc = i /\ ~Leaving(s)'
        BY <3>2, <3>6
      <4>. QED
        BY <3>1, <4>1, WayStays
    <3>. QED
      BY <3>1, <3>5, <3>7 DEF Reachability
  <2>. QED
    BY <1>13, <2>1, <2>2 DEF Ack
<1>14. ASSUME NEW h \in Handlers, Park(h) PROVE Reachability'
  <2>1. /\ pc[h] # "idle" /\ GoTo(h, "parkAck")
        /\ dlq' = dlq \cup {[inc |-> Inc(h), due |-> task[h].due]}
        /\ UNCHANGED <<task, stream, rowVars, sweeping, rearming>>
    BY <1>14 DEF Park
  <2>2. HandsMatch' /\ \A s \in Slots :
            Leaving(s)' => Leaving(s) \/ stream[s] = Free \/ stream[s].inc = Inc(h)
    BY <2>1, <1>hands, GoingOn DEF Place
  <2>3. \A i : OnItsWay(i) => OnItsWay(i)'
    <3>. SUFFICES ASSUME NEW i, OnItsWay(i) PROVE OnItsWay(i)'
      OBVIOUS
    <3>1. CASE i = Inc(h)
      <4>1. /\ [inc |-> Inc(h), due |-> task[h].due] \in dlq'
            /\ [inc |-> Inc(h), due |-> task[h].due].inc = i
        BY <2>1, <3>1
      <4>. QED
        BY <4>1 DEF OnItsWay
    <3>2. CASE i # Inc(h)
      BY <2>1, <2>2, <3>2, WayStays
    <3>. QED
      BY <3>1, <3>2
  <2>. QED
    BY <2>1, <2>2, <2>3 DEF Reachability
<1>15. ASSUME NEW p \in Pools, SweepClaim(p) PROVE Reachability'
  <2>1. PICK i \in Incidents : TRUE
    BY <1>15 DEF SweepClaim, Due
  <2>. QED
    BY <1>15, <2>1, SweepReachability
<1>16. ASSUME NEW p \in Pools, NEW i \in Incidents,
              SweepPublish(p, i) \/ SweepPublishError(p, i) \/ SweepRearm(p, i)
       PROVE  Reachability'
  BY <1>16, SweepReachability
<1>17. ASSUME NEW l \in Letter, Requeue(l) PROVE Reachability'
  <2>1. /\ Publish(l.inc, l.due) /\ l.inc \in Incidents /\ l.due \in BOOLEAN
        /\ dlq' = dlq \ {l} \/ UNCHANGED dlq
        /\ UNCHANGED <<pc, task, rowVars, sweeping, rearming>>
    BY <1>17 DEF Requeue, Letter
  <2>2. /\ HandsMatch'
        /\ \E s \in Slots : stream'[s] # Free /\ stream'[s].inc = l.inc /\ ~Leaving(s)'
        /\ \A s \in Slots : stream[s] # Free => stream'[s] = stream[s]
    BY <2>1, <1>hands, PublishedIsOnItsWay
  <2>3. \A s \in Slots : Leaving(s)' <=> Leaving(s)
    BY <2>1 DEF Leaving
  <2>4. \A i : OnItsWay(i) => OnItsWay(i)'
    BY <2>1, <2>2, <2>3 DEF OnItsWay
  <2>. QED
    BY <2>1, <2>2, <2>4 DEF Reachability
<1>18. CASE Tick
  <2>1. UNCHANGED <<state, stream, dlq, pc, task, sweeping, rearming>>
    BY <1>18 DEF Tick
  <2>2. HandsMatch' /\ \A i : OnItsWay(i) => OnItsWay(i)'
    BY <2>1 DEF Reachability, HandsMatch, Inc, OnItsWay, Leaving
  <2>3. \A i \in Incidents : scheduled_for'[i] = NotScheduled => scheduled_for[i] = NotScheduled
    BY <1>18 DEF Tick, Decrement, NotScheduled, TypeOK, RowTypes
  <2>. QED
    BY <2>1, <2>2, <2>3 DEF Reachability
<1>19. ASSUME NEW p \in Pools, Crash(p) PROVE Reachability'
  BY <1>19 DEF Crash, NoStranding
<1>20. CASE UNCHANGED vars
  <2>1. UNCHANGED <<state, scheduled_for, stream, dlq, pc, task, sweeping, rearming>>
    BY <1>20 DEF vars
  <2>. QED
    BY <2>1 DEF Reachability, HandsMatch, Inc, OnItsWay, Leaving
<1>. QED
  BY <1>1, <1>2, <1>3, <1>6, <1>7, <1>8, <1>9, <1>10, <1>11, <1>12, <1>13, <1>14,
     <1>15, <1>16, <1>17, <1>18, <1>19, <1>20
  DEF Next, Handle

\* An incident waiting without a due time is never stranded while pools
\* survive and a failed publication can be made good: a sweeper has it in hand
\* or a message for it is on a stream, whatever is duplicated, reclaimed,
\* parked or refused.
THEOREM Reachable ==
    ASSUME NoStranding
    PROVE  Spec => []ScheduledIsReachable
<1>1. Init => Reachability
  BY DEF Init, Reachability, HandsMatch
<1>2. TypeOK /\ Reachability /\ [Next]_vars => Reachability'
  BY StepReachability
<1>3. Reachability => ScheduledIsReachable
  BY DEF Reachability, ScheduledIsReachable, OnItsWay
<1>. QED
  BY <1>1, <1>2, <1>3, Typed, PTL DEF Spec

-----------------------------------------------------------------------------
(* The cooling window before the first debit: no assumption on the faults *)

Untried(i) == \A a \in Attempts : calls[i][a] = 0

\* A debit that waits so long comes no sooner than the cooling window.
CooledIn(i, delay) == Untried(i) => age[i] + delay >= Cooling

\* The inductive strengthening follows the delay from the gate's command to the
\* row's due time, and from there to every message that says "due": however it
\* is copied, parked or requeued, what is left of it and the time since the
\* failure make up the window.
FirstCooling ==
    \A i \in Recurring :
        /\ scheduled_for[i] # NotScheduled => CooledIn(i, scheduled_for[i])
        /\ \A p \in Pools : i \in sweeping[p] \cup rearming[p] => CooledIn(i, 0)
        /\ \A s \in Slots : (stream[s] # Free /\ stream[s].inc = i /\ stream[s].due) => CooledIn(i, 0)
        /\ \A l \in dlq : (l.inc = i /\ l.due) => CooledIn(i, 0)
        /\ \A h \in Handlers : (pc[h] # "idle" /\ Inc(h) = i) =>
            /\ task[h].due \/ pc[h] = "call" => CooledIn(i, 0)
            /\ pc[h] \in {"notify", "record", "plan"} => CooledIn(i, wait[h])
            /\ pc[h] = "settle" => ~Untried(i)

\* What a goroutine may carry from one step to the next.
Carries(h) ==
    pc'[h] # "idle" =>
        /\ pc[h] # "idle"
        /\ task'[h] = task[h]
        /\ pc'[h] = "call" => pc[h] = "call"
        /\ pc'[h] \in {"notify", "record", "plan"} =>
                pc[h] \in {"notify", "record", "plan"} /\ wait'[h] = wait[h]
        /\ pc'[h] = "settle" => pc[h] = "settle"

\* The messages that say "due" after a step did so before.
NoNewDue ==
    /\ \A s \in Slots : stream'[s] # Free =>
          \/ ~stream'[s].due
          \/ stream[s] # Free /\ stream'[s].inc = stream[s].inc /\ stream'[s].due = stream[s].due
    /\ \A l \in dlq' : ~l.due \/ l \in dlq

LEMMA CoolingKept ==
    ASSUME FirstCooling, \A h \in Handlers : Carries(h), NoNewDue,
           UNCHANGED <<scheduled_for, age>>,
           \A p \in Pools : sweeping'[p] \cup rearming'[p] \subseteq sweeping[p] \cup rearming[p],
           \A i \in Recurring : Untried(i)' => Untried(i)
    PROVE  FirstCooling'
<1>. SUFFICES ASSUME NEW i \in Recurring
              PROVE  /\ (scheduled_for[i] # NotScheduled => CooledIn(i, scheduled_for[i]))'
                     /\ (\A p \in Pools : i \in sweeping[p] \cup rearming[p] => CooledIn(i, 0))'
                     /\ (\A s \in Slots : (stream[s] # Free /\ stream[s].inc = i /\ stream[s].due)
                            => CooledIn(i, 0))'
                     /\ (\A l \in dlq : (l.inc = i /\ l.due) => CooledIn(i, 0))'
                     /\ (\A h \in Handlers : (pc[h] # "idle" /\ Inc(h) = i) =>
                            /\ task[h].due \/ pc[h] = "call" => CooledIn(i, 0)
                            /\ pc[h] \in {"notify", "record", "plan"} => CooledIn(i, wait[h])
                            /\ pc[h] = "settle" => ~Untried(i))'
  BY DEF FirstCooling
<1>1. \A d : CooledIn(i, d) => (Untried(i)' => age'[i] + d >= Cooling)
  BY DEF CooledIn
<1>2. /\ (scheduled_for[i] # NotScheduled => CooledIn(i, scheduled_for[i]))'
      /\ (\A p \in Pools : i \in sweeping[p] \cup rearming[p] => CooledIn(i, 0))'
  BY <1>1 DEF FirstCooling, CooledIn
<1>3. (\A s \in Slots : (stream[s] # Free /\ stream[s].inc = i /\ stream[s].due) => CooledIn(i, 0))'
  BY <1>1 DEF FirstCooling, CooledIn, NoNewDue
<1>4. (\A l \in dlq : (l.inc = i /\ l.due) => CooledIn(i, 0))'
  BY <1>1 DEF FirstCooling, CooledIn, NoNewDue
<1>5. (\A h \in Handlers : (pc[h] # "idle" /\ Inc(h) = i) =>
          /\ task[h].due \/ pc[h] = "call" => CooledIn(i, 0)
          /\ pc[h] \in {"notify", "record", "plan"} => CooledIn(i, wait[h])
          /\ pc[h] = "settle" => ~Untried(i))'
  <2>. SUFFICES ASSUME NEW h \in Handlers, pc'[h] # "idle", Inc(h)' = i
                PROVE  /\ task'[h].due \/ pc'[h] = "call" => CooledIn(i, 0)'
                       /\ pc'[h] \in {"notify", "record", "plan"} => CooledIn(i, wait[h])'
                       /\ pc'[h] = "settle" => ~Untried(i)'
    OBVIOUS
  <2>1. Carries(h) /\ Inc(h) = i
    BY DEF Carries, Inc
  <2>. QED
    BY <1>1, <2>1 DEF FirstCooling, CooledIn, Carries
<1>. QED
  BY <1>2, <1>3, <1>4, <1>5

\* A message that says "due" for an incident that may be debited at once.
LEMMA CoolingPublished ==
    ASSUME TypeOK, FirstCooling, NEW i \in Incidents, NEW isDue \in BOOLEAN, Publish(i, isDue),
           isDue /\ i \in Recurring => CooledIn(i, 0),
           UNCHANGED <<pc, task, wait, calls, age>>, dlq' \subseteq dlq,
           \A j \in Recurring : scheduled_for'[j] # NotScheduled => scheduled_for'[j] = scheduled_for[j],
           \A p \in Pools : sweeping'[p] \cup rearming'[p] \subseteq sweeping[p] \cup rearming[p]
    PROVE  FirstCooling'
<1>1. \A j : Untried(j)' <=> Untried(j)
  BY DEF Untried
<1>2. \A j, d : CooledIn(j, d)' <=> CooledIn(j, d)
  BY <1>1 DEF CooledIn
<1>3. \A s \in Slots : stream'[s] # Free =>
          \/ stream'[s] = stream[s]
          \/ stream'[s].inc = i /\ stream'[s].due = isDue
  BY DEF Publish, FreeSlots, TypeOK, QueueTypes
<1>4. \A h : Inc(h)' = Inc(h)
  BY DEF Inc
<1>5. \A s \in Slots, j \in Recurring :
        (stream'[s] # Free /\ stream'[s].inc = j /\ stream'[s].due) => CooledIn(j, 0)
  BY <1>3 DEF FirstCooling
<1>. QED
  BY <1>1, <1>2, <1>4, <1>5 DEF FirstCooling

\* A delivery hands over what its entry says.
LEMMA CoolingTaken ==
    ASSUME TypeOK, FirstCooling, NEW h \in Handlers, NEW s \in Slots, stream[s] # Free,
           NEW n, NEW k, stream' = [stream EXCEPT ![s] = Delivered(@, n)], Take(h, s, k)
    PROVE  FirstCooling'
<1>0. UNCHANGED <<scheduled_for, sweeping, rearming, dlq, wait, calls, age>>
  BY DEF Take, rowVars, poolVars, gatewayVars
<1>1. \A j : Untried(j)' <=> Untried(j)
  BY <1>0 DEF Untried
<1>2. \A j, d : CooledIn(j, d)' <=> CooledIn(j, d)
  BY <1>0, <1>1 DEF CooledIn
<1>3. \A r \in Slots : stream'[r] # Free =>
        stream[r] # Free /\ stream'[r].inc = stream[r].inc /\ stream'[r].due = stream[r].due
  BY DEF TypeOK, QueueTypes, Delivered
<1>4. \A g \in Handlers :
        /\ g # h => pc'[g] = pc[g] /\ task'[g] = task[g]
        /\ pc'[h] = "load" /\ task'[h].inc = stream[s].inc /\ task'[h].due = stream[s].due
  BY DEF Take, TypeOK, LocalTypes
<1>. SUFFICES ASSUME NEW i \in Recurring
              PROVE  /\ \A r \in Slots : (stream'[r] # Free /\ stream'[r].inc = i /\ stream'[r].due)
                            => CooledIn(i, 0)
                     /\ \A g \in Handlers : (pc'[g] # "idle" /\ task'[g].inc = i) =>
                            /\ task'[g].due \/ pc'[g] = "call" => CooledIn(i, 0)
                            /\ pc'[g] \in {"notify", "record", "plan"} => CooledIn(i, wait[g])
                            /\ pc'[g] = "settle" => ~Untried(i)
  BY <1>0, <1>1, <1>2 DEF FirstCooling, Inc
<1>5. \A r \in Slots : (stream'[r] # Free /\ stream'[r].inc = i /\ stream'[r].due) => CooledIn(i, 0)
  BY <1>3 DEF FirstCooling
<1>6. ASSUME NEW g \in Handlers, pc'[g] # "idle", task'[g].inc = i
      PROVE  /\ task'[g].due \/ pc'[g] = "call" => CooledIn(i, 0)
             /\ pc'[g] \in {"notify", "record", "plan"} => CooledIn(i, wait[g])
             /\ pc'[g] = "settle" => ~Untried(i)
  <2>1. CASE g = h
    BY <1>4, <1>6, <2>1 DEF FirstCooling
  <2>2. CASE g # h
    BY <1>4, <1>6, <2>2 DEF FirstCooling, Inc
  <2>. QED
    BY <2>1, <2>2
<1>. QED
  BY <1>5, <1>6

\* One goroutine goes on with what its own step established.
LEMMA CoolingGoesOn ==
    ASSUME TypeOK, FirstCooling, NEW h \in Handlers, pc[h] # "idle", NEW place \in Place, GoTo(h, place),
           UNCHANGED <<task, stream, scheduled_for, sweeping, rearming, calls, age>>,
           \A g \in Handlers : g # h => wait'[g] = wait[g],
           Inc(h) \in Recurring =>
              /\ place = "call" => CooledIn(Inc(h), 0)
              /\ place \in {"notify", "record", "plan"} => CooledIn(Inc(h), wait'[h])
              /\ place # "settle",
           \A l \in dlq' : l \in dlq \/ (l.due => (l.inc \in Recurring => CooledIn(l.inc, 0)))
    PROVE  FirstCooling'
<1>1. \A j : (Untried(j)' <=> Untried(j)) /\ Inc(j)' = Inc(j)
  BY DEF Untried, Inc
<1>2. \A j, d : CooledIn(j, d)' <=> CooledIn(j, d)
  BY <1>1 DEF CooledIn
<1>3. \A g \in Handlers : (g # h => pc'[g] = pc[g]) /\ pc'[h] = place
  BY DEF GoTo, TypeOK, LocalTypes
<1>. SUFFICES ASSUME NEW i \in Recurring
              PROVE  /\ \A l \in dlq' : (l.inc = i /\ l.due) => CooledIn(i, 0)
                     /\ \A g \in Handlers : (pc'[g] # "idle" /\ Inc(g) = i) =>
                            /\ task[g].due \/ pc'[g] = "call" => CooledIn(i, 0)
                            /\ pc'[g] \in {"notify", "record", "plan"} => CooledIn(i, wait'[g])
                            /\ pc'[g] = "settle" => ~Untried(i)
  BY <1>1, <1>2 DEF FirstCooling
<1>4. \A l \in dlq' : (l.inc = i /\ l.due) => CooledIn(i, 0)
  BY DEF FirstCooling
<1>5. ASSUME NEW g \in Handlers, pc'[g] # "idle", Inc(g) = i
      PROVE  /\ task[g].due \/ pc'[g] = "call" => CooledIn(i, 0)
             /\ pc'[g] \in {"notify", "record", "plan"} => CooledIn(i, wait'[g])
             /\ pc'[g] = "settle" => ~Untried(i)
  BY <1>3, <1>5 DEF FirstCooling
<1>. QED
  BY <1>4, <1>5

\* A row gets a due time that keeps the window, and its goroutine leaves.
LEMMA CoolingScheduled ==
    ASSUME TypeOK, FirstCooling, NEW i \in Incidents, NEW at \in Nat,
           scheduled_for' = [scheduled_for EXCEPT ![i] = at],
           i \in Recurring => CooledIn(i, at),
           \A h \in Handlers : Carries(h), UNCHANGED <<stream, dlq, calls, age>>,
           \A p \in Pools : sweeping'[p] \cup rearming'[p] \subseteq sweeping[p] \cup rearming[p]
    PROVE  FirstCooling'
<1>1. \A j : Untried(j)' <=> Untried(j)
  BY DEF Untried
<1>2. \A j, d : CooledIn(j, d)' <=> CooledIn(j, d)
  BY <1>1 DEF CooledIn
<1>3. \A j \in Incidents : scheduled_for'[j] = IF j = i THEN at ELSE scheduled_for[j]
  BY DEF TypeOK, RowTypes
<1>4. \A j \in Recurring : scheduled_for'[j] # NotScheduled => CooledIn(j, scheduled_for'[j])
  BY <1>3, ConstantsAssumption DEF FirstCooling
<1>5. \A h \in Handlers : pc'[h] # "idle" => Inc(h)' = Inc(h)
  BY DEF Carries, Inc
<1>6. ASSUME NEW j \in Recurring, NEW h \in Handlers, pc'[h] # "idle", Inc(h)' = j
      PROVE  /\ task'[h].due \/ pc'[h] = "call" => CooledIn(j, 0)
             /\ pc'[h] \in {"notify", "record", "plan"} => CooledIn(j, wait'[h])
             /\ pc'[h] = "settle" => ~Untried(j)
  BY <1>5, <1>6 DEF Carries, FirstCooling
<1>. QED
  BY <1>1, <1>2, <1>4, <1>6 DEF FirstCooling

LEMMA CarriesByGoTo ==
    ASSUME TypeOK, NEW h \in Handlers, pc[h] # "idle", NEW place \in Place, GoTo(h, place),
           UNCHANGED <<task, wait>>, place \notin {"call", "settle"},
           place \in {"notify", "record", "plan"} => pc[h] \in {"notify", "record", "plan"}
    PROVE  \A g \in Handlers : Carries(g)
  BY DEF GoTo, Carries, TypeOK, LocalTypes

LEMMA CarriesByGoIdle ==
    ASSUME TypeOK, NEW h \in Handlers, GoIdle(h)
    PROVE  \A g \in Handlers : Carries(g)
  BY DEF GoIdle, Carries, TypeOK, LocalTypes

LEMMA StepFirstCooling == TypeOK /\ FirstCooling /\ [Next]_vars => FirstCooling'
<1>. SUFFICES ASSUME TypeOK, FirstCooling, [Next]_vars PROVE FirstCooling'
  OBVIOUS
<1>. USE DEF rowVars, queueVars, poolVars, localVars, gatewayVars
<1>mono. (\A i \in Recurring : Untried(i)' => Untried(i)) \/ ~UNCHANGED calls
  BY DEF Untried
<1>holds. ASSUME NEW h \in Handlers, pc[h] # "idle"
          PROVE  task[h] \in Task /\ Inc(h) \in Incidents /\ wait[h] \in Nat
  BY <1>holds DEF TypeOK, LocalTypes, Holding, Task, Inc
<1>kept. ASSUME \A h \in Handlers : Carries(h),
                UNCHANGED <<stream, dlq, scheduled_for, age, calls, sweeping, rearming>>
         PROVE  FirstCooling'
  BY <1>kept, <1>mono, CoolingKept DEF NoNewDue
<1>1. ASSUME NEW i \in Incidents, RelayPublish(i) PROVE FirstCooling'
  BY <1>1, CoolingPublished DEF RelayPublish
<1>2. ASSUME NEW h \in Handlers, Consume(h) PROVE FirstCooling'
  <2>1. PICK s \in Slots : /\ stream[s].kind = "new"
                           /\ stream' = [stream EXCEPT ![s] = Delivered(@, 1)]
                           /\ Take(h, s, 1)
    BY <1>2 DEF Consume
  <2>2. stream[s] # Free
    BY <2>1 DEF Free
  <2>. QED
    BY <2>1, <2>2, CoolingTaken
<1>3. ASSUME NEW h \in Handlers, Reclaim(h) PROVE FirstCooling'
  <2>. DEFINE n(s) == Min2(stream[s].deliveries + 1, MaxDeliveries + 1)
  <2>1. PICK s \in Slots :
          /\ stream[s].kind = "pending"
          /\ stream' = [stream EXCEPT ![s] = Delivered(@, n(s))]
          /\ \E k : Take(h, s, k)
    BY <1>3 DEF Reclaim
  <2>2. stream[s] # Free
    BY <2>1 DEF Free
  <2>. HIDE DEF n
  <2>. QED
    BY <2>1, <2>2, CoolingTaken
<1>4. ASSUME NEW h \in Handlers, Load(h) PROVE FirstCooling'
  BY <1>4, <1>kept, CarriesByGoTo, CarriesByGoIdle DEF Load, Place
<1>5. ASSUME NEW h \in Handlers, Claim(h) PROVE FirstCooling'
  BY <1>5, <1>kept, CarriesByGoTo DEF Claim, Place
<1>6. ASSUME NEW h \in Handlers, Gate(h) PROVE FirstCooling'
  <2>1. pc[h] = "gate" /\ Inc(h) \in Incidents
    BY <1>6, <1>holds DEF Gate
  <2>2. CASE GoTo(h, "abstain") /\ UNCHANGED wait
    BY <1>6, <2>1, <2>2, <1>kept, CarriesByGoTo DEF Gate, Place
  <2>3. ASSUME NEW d \in Delays(Inc(h)), wait' = [wait EXCEPT ![h] = d],
               NEW place \in {"notify", "plan"}, GoTo(h, place)
        PROVE  FirstCooling'
    <3>1. \A g \in Handlers : wait'[g] = IF g = h THEN d ELSE wait[g]
      BY <2>3 DEF TypeOK, LocalTypes
    <3>2. Inc(h) \in Recurring => CooledIn(Inc(h), wait'[h])
      BY <2>3, <3>1, ConstantsAssumption DEF Delays, CooledIn, TypeOK, GatewayTypes
    <3>. QED
      BY <1>6, <2>1, <2>3, <3>1, <3>2, CoolingGoesOn DEF Gate, Place
  <2>. QED
    BY <1>6, <2>2, <2>3 DEF Gate
<1>7. ASSUME NEW h \in Handlers, Abstain(h) \/ Notify(h) \/ RecordNotice(h) PROVE FirstCooling'
  <2>1. \A g \in Handlers : Carries(g)
    BY <1>7, CarriesByGoTo DEF Abstain, Notify, RecordNotice, Place
  <2>. QED
    BY <1>7, <2>1, <1>kept DEF Abstain, Notify, RecordNotice
<1>8. ASSUME NEW h \in Handlers, Defer(h) PROVE FirstCooling'
  <2>1. pc[h] = "plan" /\ Inc(h) \in Incidents /\ DueAt(Inc(h), wait[h]) \in Nat
    BY <1>8, <1>holds, DueAtType DEF Defer
  <2>2. Inc(h) \in Recurring => CooledIn(Inc(h), DueAt(Inc(h), wait[h]))
    BY <2>1 DEF DueAt, FirstCooling
  <2>3. \A g \in Handlers : Carries(g)
    BY <1>8, <2>1, CarriesByGoTo DEF Defer, Place
  <2>. QED
    BY <1>8, <2>1, <2>2, <2>3, CoolingScheduled DEF Defer, ScheduleIncident
<1>9. ASSUME NEW h \in Handlers, Spend(h) PROVE FirstCooling'
  <2>1. CASE GoIdle(h)
    BY <1>9, <2>1, <1>kept, CarriesByGoIdle DEF Spend
  <2>2. CASE GoTo(h, "call") /\ UNCHANGED localVars
    <3>1. pc[h] = "plan" /\ Inc(h) \in Incidents /\ (task[h].due \/ wait[h] = 0)
      BY <1>9, <1>holds DEF Spend
    <3>2. Inc(h) \in Recurring => CooledIn(Inc(h), 0)
      BY <3>1 DEF FirstCooling
    <3>. QED
      BY <1>9, <2>2, <3>1, <3>2, CoolingGoesOn DEF Spend, Place
  <2>. QED
    BY <1>9, <2>1, <2>2 DEF Spend
<1>10. ASSUME NEW h \in Handlers, CallGateway(h) PROVE FirstCooling'
  <2>1. /\ pc[h] = "call" /\ Inc(h) \in Incidents /\ attempt[h] \in Attempts
        /\ UNCHANGED <<task, wait, stream, dlq, scheduled_for, sweeping, rearming>>
    BY <1>10, <1>holds DEF CallGateway, TypeOK, Holding, Gated
  <2>2. \A i \in Incidents, a \in Attempts : calls'[i][a] =
            IF i = Inc(h) /\ a = attempt[h] THEN calls[i][a] + 1 ELSE calls[i][a]
    BY <1>10, <2>1 DEF CallGateway, TypeOK, GatewayTypes
  <2>3. /\ ~Untried(Inc(h))'
        /\ \A i \in Recurring : i # Inc(h) => (Untried(i)' <=> Untried(i)) /\ age'[i] = age[i]
    <3>1. calls[Inc(h)][attempt[h]] \in Nat
      BY <2>1 DEF TypeOK, GatewayTypes
    <3>2. calls'[Inc(h)][attempt[h]] # 0
      BY <2>1, <2>2, <3>1
    <3>3. ~Untried(Inc(h))'
      BY <2>1, <3>2 DEF Untried, Inc
    <3>4. \A i \in Recurring : i # Inc(h) => (Untried(i)' <=> Untried(i))
      BY <2>2, ConstantsAssumption DEF Untried
    <3>5. \A i \in Recurring : i # Inc(h) => age'[i] = age[i]
      BY <1>10 DEF CallGateway
    <3>. QED
      BY <3>3, <3>4, <3>5
  <2>4. \A i \in Recurring : \A d : CooledIn(i, d)' <=> (i = Inc(h) \/ CooledIn(i, d))
    <3>. SUFFICES ASSUME NEW i \in Recurring, NEW d
                  PROVE  CooledIn(i, d)' <=> (i = Inc(h) \/ CooledIn(i, d))
      OBVIOUS
    <3>1. CASE i = Inc(h)
      <4>1. Inc(h)' = Inc(h)
        BY <2>1 DEF Inc
      <4>. QED
        BY <2>3, <3>1, <4>1 DEF CooledIn
    <3>2. CASE i # Inc(h)
      BY <2>3, <3>2 DEF CooledIn
    <3>. QED
      BY <3>1, <3>2
  <2>5. \A g \in Handlers : /\ g # h => pc'[g] = pc[g]
                          /\ pc'[h] = "settle" /\ Inc(g)' = Inc(g)
    BY <1>10, <2>1 DEF CallGateway, GoTo, TypeOK, LocalTypes, Inc
  <2>. QED
    BY <2>1, <2>3, <2>4, <2>5 DEF FirstCooling
<1>11. ASSUME NEW h \in Handlers, Settle(h) PROVE FirstCooling'
  <2>1. CASE UNCHANGED scheduled_for
    BY <1>11, <2>1, <1>kept, CarriesByGoTo, CarriesByGoIdle DEF Settle, Place
  <2>2. CASE ~UNCHANGED scheduled_for
    <3>1. /\ pc[h] = "settle" /\ Inc(h) \in Incidents /\ GoTo(h, "ack") /\ UNCHANGED localVars
          /\ scheduled_for' = [scheduled_for EXCEPT ![Inc(h)] = 0]
      BY <1>11, <2>2, <1>holds DEF Settle, ScheduleIncident
    <3>2. Inc(h) \in Recurring => CooledIn(Inc(h), 0)
      BY <3>1 DEF FirstCooling, CooledIn
    <3>3. \A g \in Handlers : Carries(g)
      BY <3>1, CarriesByGoTo DEF Place
    <3>. QED
      BY <1>11, <3>1, <3>2, <3>3, CoolingScheduled DEF Settle
  <2>. QED
    BY <2>1, <2>2
<1>12. ASSUME NEW h \in Handlers, Ack(h) PROVE FirstCooling'
  <2>1. \A g \in Handlers : Carries(g)
    BY <1>12, CarriesByGoIdle DEF Ack
  <2>2. NoNewDue
    BY <1>12 DEF Ack, NoNewDue, TypeOK, QueueTypes
  <2>. QED
    BY <1>12, <2>1, <2>2, <1>mono, CoolingKept DEF Ack
<1>13. ASSUME NEW h \in Handlers, Park(h) PROVE FirstCooling'
  <2>1. pc[h] = "park" /\ Inc(h) \in Incidents
    BY <1>13, <1>holds DEF Park
  <2>2. \A l \in dlq' : l \in dlq \/ (l.inc = Inc(h) /\ l.due = task[h].due)
    BY <1>13 DEF Park
  <2>3. \A l \in dlq' : l \in dlq \/ (l.due => (l.inc \in Recurring => CooledIn(l.inc, 0)))
    BY <2>1, <2>2 DEF FirstCooling
  <2>. QED
    BY <1>13, <2>1, <2>3, CoolingGoesOn DEF Park, Place
<1>14. ASSUME NEW h \in Handlers, Panic(h) PROVE FirstCooling'
  BY <1>14, <1>kept, CarriesByGoTo DEF Panic, Place, Owning
<1>15. ASSUME NEW h \in Handlers, HandlerError(h) PROVE FirstCooling'
  BY <1>15, <1>kept, CarriesByGoIdle DEF HandlerError, StepError, ReturnError, SettleError
<1>16. ASSUME NEW p \in Pools, SweepClaim(p) PROVE FirstCooling'
  <2>1. PICK claimed \in SUBSET Due :
          /\ sweeping' = [sweeping EXCEPT ![p] = claimed]
          /\ scheduled_for' = [j \in Incidents |->
                                 IF j \in claimed THEN NotScheduled ELSE scheduled_for[j]]
    BY <1>16 DEF SweepClaim
  <2>2. UNCHANGED <<stream, dlq, pc, task, wait, calls, age, rearming>>
    BY <1>16 DEF SweepClaim
  <2>3. \A i \in Recurring : \A d : CooledIn(i, d)' <=> CooledIn(i, d)
    BY <2>2 DEF CooledIn, Untried
  <2>4. \A i \in Recurring : i \in claimed => CooledIn(i, 0)
    BY <2>1 DEF Due, NotScheduled, FirstCooling
  <2>5. \A i \in Recurring, q \in Pools : i \in sweeping'[q] \cup rearming'[q] => CooledIn(i, 0)
    BY <2>1, <2>2, <2>4 DEF FirstCooling, TypeOK, PoolTypes
  <2>6. \A i \in Recurring : scheduled_for'[i] # NotScheduled => CooledIn(i, scheduled_for'[i])
    BY <2>1, ConstantsAssumption DEF FirstCooling
  <2>7. \A j : (Untried(j)' <=> Untried(j)) /\ Inc(j)' = Inc(j)
    BY <2>2 DEF Untried, Inc
  <2>. QED
    BY <2>2, <2>3, <2>5, <2>6, <2>7 DEF FirstCooling
<1>17. ASSUME NEW p \in Pools, NEW i \in Incidents, SweepPublish(p, i) PROVE FirstCooling'
  <2>1. i \in Recurring => CooledIn(i, 0)
    BY <1>17 DEF SweepPublish, FirstCooling
  <2>2. \A q \in Pools : sweeping'[q] \cup rearming'[q] \subseteq sweeping[q] \cup rearming[q]
    BY <1>17 DEF SweepPublish, TypeOK, PoolTypes
  <2>. QED
    BY <1>17, <2>1, <2>2, CoolingPublished DEF SweepPublish
<1>18. ASSUME NEW p \in Pools, NEW i \in Incidents, SweepPublishError(p, i) PROVE FirstCooling'
  <2>1. i \in Recurring => CooledIn(i, 0)
    BY <1>18 DEF SweepPublishError, FirstCooling
  <2>2. \A q \in Pools : sweeping'[q] \cup rearming'[q] \subseteq sweeping[q] \cup rearming[q]
    BY <1>18 DEF SweepPublishError, TypeOK, PoolTypes
  <2>3. CASE Publish(i, TRUE)
    BY <1>18, <2>1, <2>2, <2>3, CoolingPublished DEF SweepPublishError
  <2>4. CASE UNCHANGED stream
    <3>1. \A h \in Handlers : Carries(h)
      BY <1>18 DEF SweepPublishError, Carries
    <3>. QED
      BY <1>18, <2>2, <2>4, <3>1, <1>mono, CoolingKept DEF SweepPublishError, NoNewDue
  <2>. QED
    BY <1>18, <2>3, <2>4 DEF SweepPublishError
<1>19. ASSUME NEW p \in Pools, NEW i \in Incidents, SweepRearm(p, i) PROVE FirstCooling'
  <2>1. \A h \in Handlers : Carries(h)
    BY <1>19 DEF SweepRearm, Carries
  <2>2. \A q \in Pools : sweeping'[q] \cup rearming'[q] \subseteq sweeping[q] \cup rearming[q]
    BY <1>19 DEF SweepRearm, TypeOK, PoolTypes
  <2>3. i \in Recurring => CooledIn(i, SweepInterval)
    BY <1>19, ConstantsAssumption DEF SweepRearm, FirstCooling, CooledIn, TypeOK, GatewayTypes
  <2>4. CASE ScheduleIncident(i, SweepInterval)
    BY <1>19, <2>1, <2>2, <2>3, <2>4, CoolingScheduled, ConstantsAssumption
    DEF SweepRearm, ScheduleIncident
  <2>5. CASE UNCHANGED rowVars
    BY <1>19, <2>1, <2>2, <2>5, <1>mono, CoolingKept DEF SweepRearm, NoNewDue
  <2>. QED
    BY <1>19, <2>4, <2>5 DEF SweepRearm
<1>20. ASSUME NEW l \in Letter, Requeue(l) PROVE FirstCooling'
  <2>1. l.inc \in Incidents /\ l.due \in BOOLEAN /\ (l.due /\ l.inc \in Recurring => CooledIn(l.inc, 0))
    BY <1>20 DEF Requeue, Letter, FirstCooling
  <2>. QED
    BY <1>20, <2>1, CoolingPublished DEF Requeue
<1>21. CASE Tick
  <2>1. /\ scheduled_for' = [i \in Incidents |-> Decrement(scheduled_for[i])]
        /\ wait' = [h \in Handlers |-> Decrement(wait[h])]
        /\ age' = [i \in Recurring |-> Min2(age[i] + 1, Cooling)]
        /\ UNCHANGED <<stream, dlq, pc, task, calls, sweeping, rearming>>
    BY <1>21 DEF Tick
  <2>2. \A i : Untried(i)' <=> Untried(i)
    BY <2>1 DEF Untried
  <2>3. ASSUME NEW i \in Recurring, NEW d \in Nat, CooledIn(i, d), Untried(i)
        PROVE  age'[i] + Decrement(d) >= Cooling
    BY <2>1, <2>3, ConstantsAssumption DEF CooledIn, Decrement, Min2, TypeOK, GatewayTypes
  <2>4. \A i \in Recurring : CooledIn(i, 0) => CooledIn(i, 0)'
    BY <2>2, <2>3 DEF CooledIn, Decrement
  <2>5. ASSUME NEW i \in Recurring, scheduled_for'[i] # NotScheduled
        PROVE  Untried(i) => age'[i] + scheduled_for'[i] >= Cooling
    <3>1. scheduled_for[i] \in Nat /\ scheduled_for'[i] = Decrement(scheduled_for[i])
      BY <2>1, <2>5, ConstantsAssumption DEF Decrement, NotScheduled, TypeOK, RowTypes
    <3>2. CooledIn(i, scheduled_for[i])
      BY <3>1 DEF FirstCooling, NotScheduled
    <3>. QED
      BY <2>3, <3>1, <3>2
  <2>6. ASSUME NEW i \in Recurring, NEW h \in Handlers, pc[h] \in {"notify", "record", "plan"}, Inc(h) = i
        PROVE  Untried(i) => age'[i] + wait'[h] >= Cooling
    <3>1. wait[h] \in Nat /\ wait'[h] = Decrement(wait[h]) /\ CooledIn(i, wait[h])
      BY <2>1, <2>6 DEF FirstCooling, TypeOK, LocalTypes
    <3>. QED
      BY <2>3, <3>1
  <2>. SUFFICES ASSUME NEW i \in Recurring
                PROVE  /\ (scheduled_for[i] # NotScheduled => CooledIn(i, scheduled_for[i]))'
                       /\ \A p \in Pools : i \in sweeping[p] \cup rearming[p] => CooledIn(i, 0)'
                       /\ \A s \in Slots : (stream[s] # Free /\ stream[s].inc = i /\ stream[s].due)
                              => CooledIn(i, 0)'
                       /\ \A l \in dlq : (l.inc = i /\ l.due) => CooledIn(i, 0)'
                       /\ \A h \in Handlers : (pc[h] # "idle" /\ Inc(h) = i) =>
                              /\ task[h].due \/ pc[h] = "call" => CooledIn(i, 0)'
                              /\ pc[h] \in {"notify", "record", "plan"} => CooledIn(i, wait[h])'
                              /\ pc[h] = "settle" => ~Untried(i)
    BY <2>1, <2>2 DEF FirstCooling, Inc
  <2>7. (scheduled_for[i] # NotScheduled => CooledIn(i, scheduled_for[i]))'
    BY <2>2, <2>5 DEF CooledIn
  <2>8. \A h \in Handlers : (pc[h] # "idle" /\ Inc(h) = i) =>
            /\ task[h].due \/ pc[h] = "call" => CooledIn(i, 0)'
            /\ pc[h] \in {"notify", "record", "plan"} => CooledIn(i, wait[h])'
            /\ pc[h] = "settle" => ~Untried(i)
    BY <2>2, <2>4, <2>6 DEF FirstCooling, CooledIn
  <2>. QED
    BY <2>4, <2>7, <2>8 DEF FirstCooling
<1>22. ASSUME NEW p \in Pools, Crash(p) PROVE FirstCooling'
  <2>1. \A h \in Handlers : Carries(h)
    BY <1>22 DEF Crash, Carries
  <2>2. \A q \in Pools : sweeping'[q] \cup rearming'[q] \subseteq sweeping[q] \cup rearming[q]
    BY <1>22 DEF Crash, TypeOK, PoolTypes
  <2>. QED
    BY <1>22, <2>1, <2>2, <1>mono, CoolingKept DEF Crash, NoNewDue
<1>23. CASE UNCHANGED vars
  <2>1. \A h \in Handlers : Carries(h)
    BY <1>23 DEF vars, Carries
  <2>. QED
    BY <1>23, <2>1, <1>kept DEF vars
<1>. QED
  BY <1>1, <1>2, <1>3, <1>4, <1>5, <1>6, <1>7, <1>8, <1>9, <1>10, <1>11, <1>12, <1>13, <1>14,
     <1>15, <1>16, <1>17, <1>18, <1>19, <1>20, <1>21, <1>22, <1>23
  DEF Next, Handle

LEMMA InitFirstCooling == Init => FirstCooling
  BY ConstantsAssumption DEF Init, FirstCooling, NotScheduled

\* The first debit of a failed recurring payment comes no sooner than the
\* cooling window, under every fault and for every DemoTimeScale: a redelivered,
\* parked or requeued "due" message carries the wait it stands for.
THEOREM FirstCooled == Spec => FirstDebitCooled
<1>1. Init => FirstCooling
  BY InitFirstCooling
<1>2. TypeOK /\ FirstCooling /\ [Next]_vars => FirstCooling'
  BY StepFirstCooling
<1>3. TypeOK /\ FirstCooling /\ [Next]_vars =>
        [\A i \in Recurring :
            (calls'[i] # calls[i] /\ \A a \in Attempts : calls[i][a] = 0) => age[i] >= Cooling]_vars
  <2>. SUFFICES ASSUME TypeOK, FirstCooling, [Next]_vars, NEW i \in Recurring,
                       calls'[i] # calls[i], \A a \in Attempts : calls[i][a] = 0
                PROVE  age[i] >= Cooling
    OBVIOUS
  <2>1. \E h \in Handlers : CallGateway(h)
    <3>1. ~Quiet
      BY DEF Quiet
    <3>. QED
      BY <3>1, QuietSteps
      DEF Loud, SweepFailure, SweepPublishError, SweepRearm, Claim, Abstain, Defer, Settle, gatewayVars
  <2>2. PICK h \in Handlers : CallGateway(h)
    BY <2>1
  <2>3. pc[h] = "call" /\ Inc(h) = i
    BY <2>2, ConstantsAssumption DEF CallGateway, TypeOK, GatewayTypes
  <2>. QED
    BY <2>3, ConstantsAssumption DEF FirstCooling, CooledIn, Untried, TypeOK, GatewayTypes
<1>. QED
  BY <1>1, <1>2, <1>3, Typed, PTL DEF Spec, FirstDebitCooled

=============================================================================
