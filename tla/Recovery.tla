------------------------------ MODULE Recovery ------------------------------
(***************************************************************************)
(* The recovery pipeline of one failed payment, from the queue message to  *)
(* the concluded incident: internal/worker (Pool.dispatch, Handle, execute *)
(* and the reclaim and sweep loops), the incident rows of internal/store   *)
(* that it moves, and the Redis stream of internal/queue that feeds it.    *)
(*                                                                         *)
(* Every call that leaves the worker (a statement to PostgreSQL, a command *)
(* to Redis, a request to the gateway) is one action, so that other        *)
(* goroutines, other pools, errors and crashes fall between any two.       *)
(*                                                                         *)
(* Time is kept as countdowns: scheduled_for[i] is the due time minus the  *)
(* present, and wait[h] is ExecuteAfter minus the present.  One Tick is    *)
(* one minute, the window of the retry budget.                             *)
(***************************************************************************)
EXTENDS Integers, FiniteSets

CONSTANTS
    Incidents,              \* incident rows
    Recurring,              \* those whose payment is a mandate debit
    Poisoned,               \* those whose stored payload paymentFrom refuses
    Pools,                  \* worker processes
    Consumers,              \* goroutines running Pool.consume
    Reclaimers,             \* goroutines running Pool.reclaimLoop
    Home,                   \* the pool each goroutine runs in
    Slots,                  \* entries the stream can hold at once (a bound)
    MaxDuplicates,          \* extra publications of one outbox row (a bound)
    MaxClaims,              \* claims of an incident after which the sweeper's
                            \* publications no longer fail (a bound)
    MaxAttempts,            \* gatekeeper.Config.MaxAttempts
    MaxDeliveries,          \* worker.Config.MaxDeliveries
    RetryBudgetPerMinute,   \* worker.Config.RetryBudgetPerMinute
    DemoTimeScale,          \* worker.Config.DemoTimeScale
    SweepInterval,          \* worker.Config.SweepInterval, in ticks
    Cooling,                \* MandateCoolingSeconds, in ticks
    MaxDelay,               \* the longest delay the gate returns, in ticks
    Faults                  \* the kinds of failure the environment produces

FaultKinds == {"store", "publish", "ack", "transport", "notice", "panic",
               "crash", "slow", "lookup"}

Handlers == Consumers \cup Reclaimers

ASSUME ConstantsAssumption ==
    /\ Recurring \subseteq Incidents
    /\ Poisoned \subseteq Incidents
    /\ Consumers \cap Reclaimers = {}
    /\ Home \in [Handlers -> Pools]
    /\ MaxDuplicates \in Nat
    /\ MaxClaims \in Nat
    /\ MaxAttempts \in Nat \ {0}
    /\ MaxDeliveries \in Nat \ {0}
    /\ RetryBudgetPerMinute \in Nat \ {0}
    /\ DemoTimeScale \in Nat \ {0}
    /\ SweepInterval \in Nat \ {0}
    /\ Cooling \in Nat
    /\ MaxDelay \in Nat
    /\ Cooling <= MaxDelay
    /\ Faults \subseteq FaultKinds

VARIABLES
    \* table incidents
    state,          \* [Incidents -> IncidentState]
    attempt_count,  \* [Incidents -> Nat]
    scheduled_for,  \* [Incidents -> ticks until due, or NotScheduled]
    \* tables attempts and mandates, as far as the worker writes them
    recorded,       \* [Incidents -> SUBSET Nat], attempt numbers with a row
    noticed,        \* [Recurring -> BOOLEAN], PreDebitNotifiedAt is set
    \* the Redis streams
    stream,         \* [Slots -> entry or Free]
    dlq,            \* the entries parked on the dead-letter stream
    outbox,         \* [Incidents -> publications the relay may still make]
    \* the handler goroutines
    pc,             \* [Handlers -> where the goroutine is in dispatch]
    task,           \* [Handlers -> the delivery in hand]
    attempt,        \* [Handlers -> the number its claim returned]
    wait,           \* [Handlers -> ticks until its command's ExecuteAfter]
    outcome,        \* [Handlers -> what the gateway answered]
    \* the rest of each pool
    budgetSpent,    \* [Pools -> Nat]
    sweeping,       \* [Pools -> incidents claimed as due, not yet published]
    rearming,       \* [Pools -> incidents whose publication failed]
    \* the world outside: what the gateway has seen and done
    calls,          \* [Incidents -> [1..MaxAttempts -> Nat]] presentations
    debits,         \* [Incidents -> Nat] captures
    age,            \* [Recurring -> 0..Cooling] ticks since the last debit try
    notices         \* [Recurring -> Nat] pre-debit notices the payer received

rowVars     == <<state, attempt_count, scheduled_for>>
sideVars    == <<recorded, noticed>>
queueVars   == <<stream, dlq, outbox>>
localVars   == <<task, attempt, wait, outcome>>
poolVars    == <<budgetSpent, sweeping, rearming>>
gatewayVars == <<calls, debits, age, notices>>
vars == <<rowVars, sideVars, queueVars, pc, localVars, poolVars, gatewayVars>>

-----------------------------------------------------------------------------
(* Values *)

IncidentState == {"RECEIVED", "SCHEDULED", "EXECUTING",
                  "RECOVERED", "ABANDONED", "ABSTAINED"}

Terminal == {"RECOVERED", "ABANDONED", "ABSTAINED"}

NotScheduled == -1

Free == [kind |-> "free"]

Entry == [kind : {"new", "pending"}, inc : Incidents, due : BOOLEAN,
          deliveries : 0..(MaxDeliveries + 1)]

Letter == [inc : Incidents, due : BOOLEAN]

NoTask == [slot |-> "none"]

Task == [slot : Slots, inc : Incidents, due : BOOLEAN, n : 1..(MaxDeliveries + 1)]

Attempts == 1..MaxAttempts

Min2(a, b) == IF a < b THEN a ELSE b
Max2(a, b) == IF a > b THEN a ELSE b
Decrement(n) == IF n > 0 THEN n - 1 ELSE n

\* The places a goroutine can stop at, each named for the call it makes next.
Place == {"idle", "load", "claim", "gate", "abstain", "notify", "record",
          "plan", "call", "settle", "ack", "park", "parkAck"}

\* The goroutine owns the incident: it has claimed the row and has not yet
\* written the state that ends its turn.
Owning == {"gate", "abstain", "notify", "record", "plan", "call", "settle"}

\* It is past the gate, and its attempt within the ceiling.
Gated == {"notify", "record", "plan", "call", "settle"}

\* What the executor's call comes back with; a transport error hides whether
\* the gateway captured the payment.
Outcomes == {"captured", "declined", "lost", "lostCapture"}

Inc(h) == task[h].inc

-----------------------------------------------------------------------------
(* The stream *)

InHand(s) == \E h \in Handlers : pc[h] # "idle" /\ task[h].slot = s

\* A slot is a place for an entry, not an entry: it is not given to a new
\* entry while a goroutine still holds the old one and may acknowledge it.
FreeSlots == {s \in Slots : stream[s] = Free /\ ~InHand(s)}

Publish(i, isDue) ==
    \E s \in FreeSlots :
        stream' = [stream EXCEPT ![s] =
                    [kind |-> "new", inc |-> i, due |-> isDue, deliveries |-> 0]]

\* The relay publishes the outbox row of i, and may publish it again when its
\* lease runs out before the row is marked.
RelayPublish(i) ==
    /\ outbox[i] > 0
    /\ Publish(i, FALSE)
    /\ outbox' = [outbox EXCEPT ![i] = @ - 1]
    /\ UNCHANGED <<rowVars, sideVars, dlq, pc, localVars, poolVars, gatewayVars>>

Unpublished(i) == outbox[i] = MaxDuplicates + 1

Take(h, s, n) ==
    /\ pc' = [pc EXCEPT ![h] = "load"]
    /\ task' = [task EXCEPT ![h] = [slot |-> s, inc |-> stream[s].inc,
                                    due |-> stream[s].due, n |-> n]]
    /\ UNCHANGED <<rowVars, sideVars, dlq, outbox, attempt, wait, outcome,
                   poolVars, gatewayVars>>

\* The entry with its n-th delivery on the group's pending list.
Delivered(e, n) == [kind |-> "pending", inc |-> e.inc, due |-> e.due, deliveries |-> n]

\* XREADGROUP with ">": an entry never delivered to the group.
Consume(h) ==
    /\ h \in Consumers
    /\ pc[h] = "idle"
    /\ \E s \in Slots :
        /\ stream[s].kind = "new"
        /\ stream' = [stream EXCEPT ![s] = Delivered(@, 1)]
        /\ Take(h, s, 1)

\* XAUTOCLAIM of an entry idle for ReclaimMinIdle, then XPENDING for its
\* count.  An entry whose holder is merely slow is idle too ("slow"); a count
\* that cannot be read is taken for 1 ("lookup").
Reclaim(h) ==
    /\ h \in Reclaimers
    /\ pc[h] = "idle"
    /\ \E s \in Slots :
        /\ stream[s].kind = "pending"
        /\ "slow" \in Faults \/ ~InHand(s)
        /\ LET n == Min2(stream[s].deliveries + 1, MaxDeliveries + 1)
           IN  /\ stream' = [stream EXCEPT ![s] = Delivered(@, n)]
               /\ \E seen \in {n} \cup (IF "lookup" \in Faults THEN {1} ELSE {}) :
                    Take(h, s, seen)

-----------------------------------------------------------------------------
(* One delivery: Pool.dispatch around Pool.Handle *)

\* The goroutine goes back to its loop; what it held in locals is gone.
GoIdle(h) ==
    /\ pc' = [pc EXCEPT ![h] = "idle"]
    /\ task' = [task EXCEPT ![h] = NoTask]
    /\ attempt' = [attempt EXCEPT ![h] = 0]
    /\ wait' = [wait EXCEPT ![h] = 0]
    /\ outcome' = [outcome EXCEPT ![h] = "none"]

GoTo(h, place) == pc' = [pc EXCEPT ![h] = place]

\* Handle returned an error: the entry is deliberately left unacknowledged.
ReturnError(h) ==
    /\ GoIdle(h)
    /\ UNCHANGED <<rowVars, sideVars, queueVars, poolVars, gatewayVars>>

\* A call of this step failed.
StepError(h, kind, places) ==
    /\ kind \in Faults
    /\ pc[h] \in places
    /\ ReturnError(h)

NeverExhausted(n) == FALSE

\* dispatch's test, made before Handle is entered.
Exhausted(n) == n > MaxDeliveries

\* GetIncident and paymentFrom, after dispatch's delivery-count test.
Load(h) ==
    /\ pc[h] = "load"
    /\ \/ /\ Exhausted(task[h].n)
          /\ GoTo(h, "park")
          /\ UNCHANGED localVars
       \/ /\ ~Exhausted(task[h].n)
          /\ state[Inc(h)] \in Terminal
          /\ GoTo(h, "ack")
          /\ UNCHANGED localVars
       \/ /\ ~Exhausted(task[h].n)
          /\ state[Inc(h)] \notin Terminal
          /\ Inc(h) \in Poisoned
          /\ GoIdle(h)
       \/ /\ ~Exhausted(task[h].n)
          /\ state[Inc(h)] \notin Terminal
          /\ Inc(h) \notin Poisoned
          /\ GoTo(h, "claim")
          /\ UNCHANGED localVars
    /\ UNCHANGED <<rowVars, sideVars, queueVars, poolVars, gatewayVars>>

ClaimableWhileExecuting == {"RECEIVED", "SCHEDULED", "EXECUTING"}

ClaimableWhenConcluded == {"RECEIVED", "SCHEDULED"} \cup Terminal

\* The states the UPDATE of incrementIncidentAttemptsSQL accepts.
Claimable == {"RECEIVED", "SCHEDULED"}

SameAttempt(i) == Max2(1, attempt_count[i])

\* The number RETURNING gives: attempt_count as incremented.
NextAttempt(i) == attempt_count[i] + 1

\* IncrementIncidentAttempts: the increment is the claim, and a conflict is
\* taken to mean that the work is being done elsewhere.
Claim(h) ==
    /\ pc[h] = "claim"
    /\ \/ /\ state[Inc(h)] \in Claimable
          /\ state' = [state EXCEPT ![Inc(h)] = "EXECUTING"]
          /\ attempt_count' = [attempt_count EXCEPT ![Inc(h)] = NextAttempt(Inc(h))]
          /\ attempt' = [attempt EXCEPT ![h] = NextAttempt(Inc(h))]
          /\ GoTo(h, "gate")
       \/ /\ state[Inc(h)] \notin Claimable
          /\ GoTo(h, "ack")
          /\ UNCHANGED <<state, attempt_count, attempt>>
    /\ UNCHANGED <<scheduled_for, sideVars, queueVars, task, wait, outcome,
                   poolVars, gatewayVars>>

\* The delays Gatekeeper.Decide may attach to an executable command: a
\* recurring debit is floored at the cooling window.
Delays(i) == IF i \in Recurring THEN Cooling..MaxDelay ELSE 0..MaxDelay

\* Diagnosis, the learner and the gate.  Their verdict is any the gate's
\* contract allows: an attempt past the ceiling is always vetoed.
Gate(h) ==
    /\ pc[h] = "gate"
    /\ \/ /\ GoTo(h, "abstain")
          /\ UNCHANGED wait
       \/ /\ attempt[h] <= MaxAttempts
          /\ \E d \in Delays(Inc(h)) : wait' = [wait EXCEPT ![h] = d]
          /\ GoTo(h, IF Inc(h) \in Recurring THEN "notify" ELSE "plan")
    /\ UNCHANGED <<rowVars, sideVars, queueVars, task, attempt, outcome,
                   poolVars, gatewayVars>>

\* UpdateIncidentState: no condition on the row's present state.
Abstain(h) ==
    /\ pc[h] = "abstain"
    /\ state' = [state EXCEPT ![Inc(h)] = "ABSTAINED"]
    /\ GoTo(h, "ack")
    /\ UNCHANGED <<attempt_count, scheduled_for, sideVars, queueVars, localVars,
                   poolVars, gatewayVars>>

\* NotifyPreDebit: every executable command of a recurring payment asks for it.
Notify(h) ==
    /\ pc[h] = "notify"
    /\ notices' = [notices EXCEPT ![Inc(h)] = @ + 1]
    /\ GoTo(h, "record")
    /\ UNCHANGED <<rowVars, sideVars, queueVars, localVars, poolVars,
                   calls, debits, age>>

\* recordPreDebitNotice: a failure to save is logged and the debit goes on.
RecordNotice(h) ==
    /\ pc[h] = "record"
    /\ \/ noticed' = [noticed EXCEPT ![Inc(h)] = TRUE]
       \/ "store" \in Faults /\ UNCHANGED noticed
    /\ GoTo(h, "plan")
    /\ UNCHANGED <<rowVars, recorded, queueVars, localVars, poolVars, gatewayVars>>

DueAtCompressingAll(i, w) ==
    IF DemoTimeScale <= 1 THEN w ELSE Max2(1, w \div DemoTimeScale)

\* dueAt: only a wait that is not regulatory is compressed, to a tick at least.
DueAt(i, w) ==
    IF DemoTimeScale <= 1 \/ i \in Recurring THEN w ELSE Max2(1, w \div DemoTimeScale)

UpdateIncidentStateOnly(i, at) ==
    /\ state' = [state EXCEPT ![i] = "SCHEDULED"]
    /\ UNCHANGED <<attempt_count, scheduled_for>>

\* ScheduleIncident: state and due time in one statement, whatever the row holds.
ScheduleIncident(i, at) ==
    /\ state' = [state EXCEPT ![i] = "SCHEDULED"]
    /\ scheduled_for' = [scheduled_for EXCEPT ![i] = at]
    /\ UNCHANGED attempt_count

\* execute, first half, when the command's delay has still to be served.
Defer(h) ==
    /\ pc[h] = "plan"
    /\ ~task[h].due
    /\ wait[h] > 0
    /\ ScheduleIncident(Inc(h), DueAt(Inc(h), wait[h]))
    /\ GoTo(h, "ack")
    /\ UNCHANGED <<sideVars, queueVars, localVars, poolVars, gatewayVars>>

\* spendRetryBudget, for a command that is to run now.  With the budget spent
\* Handle returns an error.
Spend(h) ==
    /\ pc[h] = "plan"
    /\ task[h].due \/ wait[h] = 0
    /\ LET p == Home[h]
       IN  \/ /\ budgetSpent[p] < RetryBudgetPerMinute
              /\ budgetSpent' = [budgetSpent EXCEPT ![p] = @ + 1]
              /\ GoTo(h, "call")
              /\ UNCHANGED localVars
           \/ /\ budgetSpent[p] >= RetryBudgetPerMinute
              /\ GoIdle(h)
              /\ UNCHANGED budgetSpent
    /\ UNCHANGED <<rowVars, sideVars, queueVars, sweeping, rearming, gatewayVars>>

\* Executor.Retry or MorphRail.  A transport error leaves open whether the
\* gateway captured the payment.
CallGateway(h) ==
    /\ pc[h] = "call"
    /\ calls' = [calls EXCEPT ![Inc(h)][attempt[h]] = @ + 1]
    /\ age' = [i \in Recurring |-> IF i = Inc(h) THEN 0 ELSE age[i]]
    /\ \E answer \in {"captured", "declined"} \cup
                     (IF "transport" \in Faults THEN {"lost", "lostCapture"} ELSE {}) :
        /\ outcome' = [outcome EXCEPT ![h] = answer]
        /\ debits' = [debits EXCEPT ![Inc(h)] =
                        IF answer \in {"captured", "lostCapture"} THEN @ + 1 ELSE @]
    /\ GoTo(h, "settle")
    /\ UNCHANGED <<rowVars, sideVars, queueVars, task, attempt, wait, poolVars, notices>>

RecordAttemptIfCaptured(h) ==
    recorded' = IF outcome[h] = "captured"
                THEN [recorded EXCEPT ![Inc(h)] = @ \cup {attempt[h]}]
                ELSE recorded

\* RecordAttempt: one row per attempt number; a failure is only logged.
RecordAttempt(h) ==
    \/ recorded' = [recorded EXCEPT ![Inc(h)] = @ \cup {attempt[h]}]
    \/ "store" \in Faults /\ UNCHANGED recorded

\* execute, second half: the attempt is recorded, then a transport error is
\* returned, or the incident is concluded, or it is re-armed as due at once.
Settle(h) ==
    /\ pc[h] = "settle"
    /\ RecordAttempt(h)
    /\ \/ /\ outcome[h] \in {"lost", "lostCapture"}
          /\ GoIdle(h)
          /\ UNCHANGED rowVars
       \/ /\ outcome[h] = "captured"
          /\ state' = [state EXCEPT ![Inc(h)] = "RECOVERED"]
          /\ GoTo(h, "ack")
          /\ UNCHANGED <<attempt_count, scheduled_for, localVars>>
       \/ /\ outcome[h] = "declined"
          /\ attempt[h] < MaxAttempts
          /\ ScheduleIncident(Inc(h), 0)
          /\ GoTo(h, "ack")
          /\ UNCHANGED localVars
       \/ /\ outcome[h] = "declined"
          /\ attempt[h] >= MaxAttempts
          /\ state' = [state EXCEPT ![Inc(h)] = "ABANDONED"]
          /\ GoTo(h, "ack")
          /\ UNCHANGED <<attempt_count, scheduled_for, localVars>>
    /\ UNCHANGED <<noticed, queueVars, poolVars, gatewayVars>>

\* The statement that ends execute fails after the attempt was recorded.
SettleError(h) ==
    /\ "store" \in Faults
    /\ pc[h] = "settle"
    /\ RecordAttempt(h)
    /\ GoIdle(h)
    /\ UNCHANGED <<rowVars, noticed, queueVars, poolVars, gatewayVars>>

\* XACK.  A failed acknowledgement is logged; the entry stays pending.
Ack(h) ==
    /\ pc[h] \in {"ack", "parkAck"}
    /\ \/ stream' = [stream EXCEPT ![task[h].slot] = Free]
       \/ "ack" \in Faults /\ UNCHANGED stream
    /\ GoIdle(h)
    /\ UNCHANGED <<rowVars, sideVars, dlq, outbox, poolVars, gatewayVars>>

\* DeadLetter: first the dead-letter entry, then the acknowledgement.
Park(h) ==
    /\ pc[h] = "park"
    /\ dlq' = dlq \cup {[inc |-> Inc(h), due |-> task[h].due]}
    /\ GoTo(h, "parkAck")
    /\ UNCHANGED <<rowVars, sideVars, stream, outbox, localVars, poolVars, gatewayVars>>

\* A panic anywhere in Handle is recovered by dispatch, which parks the entry.
Panic(h) ==
    /\ "panic" \in Faults
    /\ pc[h] \in {"load", "claim"} \cup Owning
    /\ GoTo(h, "park")
    /\ UNCHANGED <<rowVars, sideVars, queueVars, localVars, poolVars, gatewayVars>>

HandlerError(h) ==
    \/ StepError(h, "store", {"load", "claim", "gate", "abstain", "plan"})
    \/ StepError(h, "notice", {"notify"})
    \/ StepError(h, "publish", {"park"})
    \/ SettleError(h)

Handle(h) ==
    \/ Load(h) \/ Claim(h) \/ Gate(h) \/ Abstain(h) \/ Notify(h) \/ RecordNotice(h)
    \/ Defer(h) \/ Spend(h) \/ CallGateway(h) \/ Settle(h) \/ Ack(h) \/ Park(h)

-----------------------------------------------------------------------------
(* The sweeper, the operator, the clock and the crash of a pool *)

Due == {i \in Incidents : state[i] = "SCHEDULED" /\ scheduled_for[i] = 0}

\* ClaimDueIncidents: the claimed rows lose their due time and keep their
\* state.  LIMIT and SKIP LOCKED may leave any of the due rows for later.
SweepClaim(p) ==
    /\ sweeping[p] = {} /\ rearming[p] = {}
    /\ \E claimed \in SUBSET Due :
        /\ claimed # {}
        /\ sweeping' = [sweeping EXCEPT ![p] = claimed]
        /\ scheduled_for' = [i \in Incidents |->
                                IF i \in claimed THEN NotScheduled ELSE scheduled_for[i]]
    /\ UNCHANGED <<state, attempt_count, sideVars, queueVars, pc, localVars,
                   budgetSpent, rearming, gatewayVars>>

SweepPublish(p, i) ==
    /\ i \in sweeping[p]
    /\ rearming[p] = {}
    /\ Publish(i, TRUE)
    /\ sweeping' = [sweeping EXCEPT ![p] = @ \ {i}]
    /\ UNCHANGED <<rowVars, sideVars, dlq, outbox, pc, localVars, budgetSpent,
                   rearming, gatewayVars>>

\* XADD failed as far as the sweeper can tell; the entry may have landed.
SweepPublishError(p, i) ==
    /\ "publish" \in Faults
    /\ attempt_count[i] <= MaxClaims
    /\ i \in sweeping[p]
    /\ rearming[p] = {}
    /\ \/ Publish(i, TRUE)
       \/ UNCHANGED stream
    /\ sweeping' = [sweeping EXCEPT ![p] = @ \ {i}]
    /\ rearming' = [rearming EXCEPT ![p] = {i}]
    /\ UNCHANGED <<rowVars, sideVars, dlq, outbox, pc, localVars, budgetSpent, gatewayVars>>

\* ScheduleIncident(now + SweepInterval), or the log line "it is now stranded".
SweepRearm(p, i) ==
    /\ i \in rearming[p]
    /\ \/ ScheduleIncident(i, SweepInterval)
       \/ "store" \in Faults /\ UNCHANGED rowVars
    /\ rearming' = [rearming EXCEPT ![p] = {}]
    /\ UNCHANGED <<sideVars, queueVars, pc, localVars, budgetSpent, sweeping, gatewayVars>>

\* Queue.Requeue, run by an operator: back on the stream with a fresh count,
\* then off the dead-letter stream, where a duplicate may remain.
Requeue(l) ==
    /\ l \in dlq
    /\ Publish(l.inc, l.due)
    /\ \/ dlq' = dlq \ {l}
       \/ "ack" \in Faults /\ UNCHANGED dlq
    /\ UNCHANGED <<rowVars, sideVars, outbox, pc, localVars, poolVars, gatewayVars>>

Tick ==
    /\ scheduled_for' = [i \in Incidents |-> Decrement(scheduled_for[i])]
    /\ wait' = [h \in Handlers |-> Decrement(wait[h])]
    /\ age' = [i \in Recurring |-> Min2(age[i] + 1, Cooling)]
    /\ budgetSpent' = [p \in Pools |-> 0]
    /\ UNCHANGED <<state, attempt_count, sideVars, queueVars, pc, task, attempt,
                   outcome, sweeping, rearming, calls, debits, notices>>

\* A pool dies and is restarted: its goroutines forget everything.
Crash(p) ==
    LET mine == {h \in Handlers : Home[h] = p}
    IN  /\ "crash" \in Faults
        /\ pc' = [h \in Handlers |-> IF h \in mine THEN "idle" ELSE pc[h]]
        /\ task' = [h \in Handlers |-> IF h \in mine THEN NoTask ELSE task[h]]
        /\ attempt' = [h \in Handlers |-> IF h \in mine THEN 0 ELSE attempt[h]]
        /\ wait' = [h \in Handlers |-> IF h \in mine THEN 0 ELSE wait[h]]
        /\ outcome' = [h \in Handlers |-> IF h \in mine THEN "none" ELSE outcome[h]]
        /\ budgetSpent' = [budgetSpent EXCEPT ![p] = 0]
        /\ sweeping' = [sweeping EXCEPT ![p] = {}]
        /\ rearming' = [rearming EXCEPT ![p] = {}]
        /\ UNCHANGED <<rowVars, sideVars, queueVars, gatewayVars>>

-----------------------------------------------------------------------------
(* The specification *)

Init ==
    /\ state = [i \in Incidents |-> "RECEIVED"]
    /\ attempt_count = [i \in Incidents |-> 0]
    /\ scheduled_for = [i \in Incidents |-> NotScheduled]
    /\ recorded = [i \in Incidents |-> {}]
    /\ noticed = [i \in Recurring |-> FALSE]
    /\ stream = [s \in Slots |-> Free]
    /\ dlq = {}
    /\ outbox = [i \in Incidents |-> MaxDuplicates + 1]
    /\ pc = [h \in Handlers |-> "idle"]
    /\ task = [h \in Handlers |-> NoTask]
    /\ attempt = [h \in Handlers |-> 0]
    /\ wait = [h \in Handlers |-> 0]
    /\ outcome = [h \in Handlers |-> "none"]
    /\ budgetSpent = [p \in Pools |-> 0]
    /\ sweeping = [p \in Pools |-> {}]
    /\ rearming = [p \in Pools |-> {}]
    /\ calls = [i \in Incidents |-> [a \in Attempts |-> 0]]
    /\ debits = [i \in Incidents |-> 0]
    /\ age = [i \in Recurring |-> 0]
    /\ notices = [i \in Recurring |-> 0]

Next ==
    \/ \E i \in Incidents : RelayPublish(i)
    \/ \E h \in Handlers : Consume(h) \/ Reclaim(h)
    \/ \E h \in Handlers : Handle(h)
    \/ \E h \in Handlers : HandlerError(h) \/ Panic(h)
    \/ \E p \in Pools : SweepClaim(p)
    \/ \E p \in Pools, i \in Incidents : SweepPublish(p, i)
    \/ \E p \in Pools, i \in Incidents : SweepPublishError(p, i) \/ SweepRearm(p, i)
    \/ \E l \in Letter : Requeue(l)
    \/ Tick
    \/ \E p \in Pools : Crash(p)

Spec == Init /\ [][Next]_vars

Reads(h, i) == Consume(h) /\ Inc(h)' = i
Reclaims(h, i) == Reclaim(h) /\ Inc(h)' = i

\* Goroutines, sweepers and the clock keep running.  The group reads the stream,
\* and reclaims from its pending list, from the oldest entry on, and a
\* publication waits for nothing but the bound Slots: neither passes an incident
\* over for ever.  Nothing obliges the relay to publish a row twice, an operator
\* to requeue, or a fault to happen.
Fairness ==
    /\ \A i \in Incidents :
        /\ SF_vars(Unpublished(i) /\ RelayPublish(i))
        /\ SF_vars(\E h \in Consumers : Reads(h, i))
        /\ SF_vars(\E h \in Reclaimers : Reclaims(h, i))
        /\ SF_vars(\E p \in Pools : SweepPublish(p, i))
    /\ \A h \in Handlers : WF_vars(Handle(h))
    /\ \A p \in Pools : WF_vars(SweepClaim(p) \/ \E i \in Incidents : SweepRearm(p, i))
    /\ WF_vars(Tick)

FairSpec == Spec /\ Fairness

-----------------------------------------------------------------------------
(* Properties *)

RowTypes ==
    /\ state \in [Incidents -> IncidentState]
    /\ attempt_count \in [Incidents -> Nat]
    /\ scheduled_for \in [Incidents -> Nat \cup {NotScheduled}]

SideTypes ==
    /\ recorded \in [Incidents -> SUBSET Attempts]
    /\ noticed \in [Recurring -> BOOLEAN]

QueueTypes ==
    /\ stream \in [Slots -> Entry \cup {Free}]
    /\ dlq \subseteq Letter
    /\ outbox \in [Incidents -> Nat]

LocalTypes ==
    /\ pc \in [Handlers -> Place]
    /\ task \in [Handlers -> Task \cup {NoTask}]
    /\ attempt \in [Handlers -> Nat]
    /\ wait \in [Handlers -> Nat]
    /\ outcome \in [Handlers -> Outcomes \cup {"none"}]

PoolTypes ==
    /\ budgetSpent \in [Pools -> 0..RetryBudgetPerMinute]
    /\ sweeping \in [Pools -> SUBSET Incidents]
    /\ rearming \in [Pools -> SUBSET Incidents]

GatewayTypes ==
    /\ calls \in [Incidents -> [Attempts -> Nat]]
    /\ debits \in [Incidents -> Nat]
    /\ age \in [Recurring -> Nat]
    /\ notices \in [Recurring -> Nat]

\* A busy goroutine holds a delivery; an owner, the number it claimed; one
\* past the gate, a number within the ceiling; one with a notice to send, a
\* recurring payment.
Holding ==
    \A h \in Handlers :
        /\ pc[h] # "idle" => task[h] \in Task
        /\ pc[h] \in Owning => attempt[h] >= 1
        /\ pc[h] \in Gated => attempt[h] \in Attempts
        /\ pc[h] \in {"notify", "record"} => Inc(h) \in Recurring
        /\ pc[h] = "settle" => outcome[h] \in Outcomes

\* Every variable has its type, and every goroutine what its place requires.
TypeOK == /\ RowTypes /\ SideTypes /\ QueueTypes /\ LocalTypes
          /\ PoolTypes /\ GatewayTypes /\ Holding

\* At most one goroutine, in any pool, is between claiming an incident and
\* writing the state that ends its turn: the promise of the claim in
\* IncrementIncidentAttempts, against duplicate deliveries, reclaims, crashes.
ExclusiveExecution ==
    \A g, h \in Handlers :
        (pc[g] \in Owning /\ pc[h] \in Owning /\ Inc(g) = Inc(h)) => g = h

\* No attempt number of an incident is presented to the gateway twice.  The
\* executor's idempotency key is incident:attempt, so a second presentation
\* would be swallowed as a replay of the first one's answer.
AttemptPresentedOnce ==
    \A i \in Incidents, a \in Attempts : calls[i][a] <= 1

\* Every goroutine holds what its place in dispatch requires, and its attempt
\* is its own.
AttemptsSound == TypeOK /\ AttemptPresentedOnce

\* The gateway captures the payment of an incident at most once.
NoSecondDebit == \A i \in Incidents : debits[i] <= 1

\* A concluded incident says what happened to the money: RECOVERED exactly
\* when the gateway captured it.
MoneyAccounted ==
    \A i \in Incidents :
        state[i] \in Terminal => (state[i] = "RECOVERED" <=> debits[i] = 1)

\* The payer pays once, and the incident says whether he did.
MoneySound == NoSecondDebit /\ MoneyAccounted

\* Every presentation of a concluded incident has its row in table attempts,
\* crashes and transport errors notwithstanding.
ConcludedIsRecorded ==
    \A i \in Incidents :
        state[i] \in Terminal => recorded[i] = {a \in Attempts : calls[i][a] > 0}

\* An incident waiting with no due time is on its way back: a sweeper has it
\* in hand, or a message for it is on a stream.
ScheduledIsReachable ==
    \A i \in Incidents :
        (state[i] = "SCHEDULED" /\ scheduled_for[i] = NotScheduled) =>
            \/ \E p \in Pools : i \in sweeping[p] \cup rearming[p]
            \/ \E s \in Slots : stream[s] # Free /\ stream[s].inc = i
            \/ \E l \in dlq : l.inc = i

Phase(s) == IF s = "EXECUTING" THEN "working"
            ELSE IF s \in Terminal THEN "closed" ELSE "open"

Promise == INSTANCE Lifecycle WITH
    phase     <- [i \in Incidents |-> Phase(state[i])],
    turn      <- attempt_count,
    presented <- [i \in Incidents |-> {a \in Attempts : calls[i][a] > 0}],
    captured  <- debits,
    recovered <- [i \in Incidents |-> state[i] = "RECOVERED"]

\* As long as no publication by the sweeper fails ambiguously, the pipeline
\* keeps the promise of module Lifecycle: the row's state, the claim counter
\* and what the gateway saw move together, one turn at a time.
KeepsPromise == Promise!Spec

\* No transition leaves a terminal state (IncidentState.Terminal), although
\* neither UpdateIncidentState nor ScheduleIncident looks at the row's state.
TerminalIsFinal ==
    [][\A i \in Incidents : state[i] \in Terminal => state'[i] = state[i]]_vars

\* The first debit the worker tries for a failed recurring payment comes no
\* sooner than the cooling window after the failure, a compressed
\* demonstration clock (DemoTimeScale) notwithstanding.
FirstDebitCooled ==
    [][\A i \in Recurring :
        (calls'[i] # calls[i] /\ \A a \in Attempts : calls[i][a] = 0) => age[i] >= Cooling]_vars

\* No recurring debit is tried within the cooling window of the one before.
CoolingBetweenDebits ==
    [][\A i \in Recurring : calls'[i] # calls[i] => age[i] >= Cooling]_vars

\* A payer whose notice is on record is not sent it again for the same debit.
NoticeSentOnce ==
    [][\A i \in Recurring : notices'[i] # notices[i] => ~noticed[i]]_vars

\* Every incident whose payload can be read is eventually concluded, and an entry
\* whose payload paymentFrom refuses is not redelivered for ever: it ends on the
\* dead-letter stream.
EventuallyConcluded ==
    \A i \in Incidents :
       <>(IF i \in Poisoned THEN \E l \in dlq : l.inc = i ELSE state[i] \in Terminal)

=============================================================================
