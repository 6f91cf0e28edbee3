------------------------------ MODULE Simulation ------------------------------
(***************************************************************************)
(* The repository's deterministic simulation (internal/simulation): the    *)
(* gatekeeper over in-memory ports, on one goroutine, under injected       *)
(* faults, watched by a monitor.  Its webhooks, relays, workers, reclaimer *)
(* and reconciler are operations on a queue in virtual time; a stage that  *)
(* meets a store fault is tried again 200 ms later, among whatever else    *)
(* the queue holds.                                                        *)
(*                                                                         *)
(* An operation is a step, and the order of the queue is left open, except *)
(* that retries keep theirs.  Virtual time is counted in ticks, of which a *)
(* cooling window has Cooling: what takes less happens within a tick, and  *)
(* a skewed clock may be in the next.  The commands are those of Gate.     *)
(***************************************************************************)
EXTENDS Gate, FiniteSets, SequencesExt

CONSTANTS
    Incidents,              \* the webhooks, an incident and an event each
    Draws,                  \* what a seed may draw: [recurring, due]
    Proposable,             \* what the heuristic may propose
    PolicyBackoffs,         \* of the policy, in ticks
    MaxPublishAttempts,     \* maxOutboxPublishAttempts
    MaxDeferrals,           \* maxCoolingDeferrals
    MinSamples, MaxProbes,  \* of the breaker
    Faults, MaxFaults,      \* the faults injected, and how many (a bound)
    MaxSlips,               \* ticks that pass over work in flight (a bound)
    MaxNow                  \* a bound

ASSUME SimulationAssumption ==
    /\ Draws \subseteq [recurring : SUBSET Incidents, due : [Incidents -> 0..2]]
    /\ Proposable \subseteq Actions
    /\ Faults \subseteq {"store", "lost", "dropped", "duplicate", "death", "outage", "skew"}
    /\ {MaxPublishAttempts, MinSamples, MaxProbes} \subseteq Nat \ {0}
    /\ {MaxDeferrals, MaxFaults, MaxSlips, MaxNow} \subseteq Nat /\ PolicyBackoffs \subseteq Nat
    /\ MaxSlips + MaxFaults < Cooling
    /\ "card" \in Rails /\ Rails # {"card"}

VARIABLES
    recurring,  \* the incidents on the mandate
    due,        \* by incident, deliveries of its webhook still to come
    incidents,  \* by incident, [state, count] of its row, state "none" before
    mandate,    \* its row, a set of at most one
    outbox,     \* the rows not dispatched, in the order of their ids
    ready,      \* messages the group has not read, in order
    delivered,  \* messages read and not acknowledged
    hand,       \* messages of the worker's batch still to be handled
    retries,    \* stages to be run again, in order
    up,         \* is the broker serving?
    breaker,    \* [state, cooled, probes, ok, bad] of the issuer
    session,    \* incidents with a browser on their checkout session
    alive,      \* the pollers that will run again
    now, slips, faults,
    monitor     \* what it has seen: [debits, recorded, notified, last, breaches]

storeVars == <<incidents, mandate, outbox>>
queueVars == <<ready, delivered, up>>
worldVars == <<recurring, due, session, alive, now, slips>>
simVars == <<storeVars, queueVars, worldVars, hand, retries, breaker, faults, monitor>>

Pollers == {"relay", "worker", "reclaim", "reconcile"}
Terminal == {"RECOVERED", "ABANDONED", "ABSTAINED"}
States == Terminal \cup {"none", "RECEIVED", "DIAGNOSED", "SCHEDULED", "EXECUTING"}

-----------------------------------------------------------------------------
(* Injector *)

\* Whether the fault may hit here; whether it does is counted.
Hit(kind) == kind \in Faults /\ faults < MaxFaults /\ faults' = faults + 1
Spared == faults' = faults

\* guard and WithTx: the store call that fails, "none" if none does.
Stop(points) == IF "store" \in Faults /\ faults < MaxFaults THEN points ELSE {"none"}
Counted(stop) == faults' = IF stop = "none" THEN faults ELSE faults + 1

\* When something else may be struck as well.
CountedBoth(stop, other) ==
    /\ faults' = faults + Cardinality({stop} \ {"none"}) + (IF other THEN 1 ELSE 0)
    /\ faults' <= MaxFaults

-----------------------------------------------------------------------------
(* memStore *)

Row(i, phase, attempt, at, deferrals) ==
    [inc |-> i, phase |-> phase, attempt |-> attempt, at |-> at, deferrals |-> deferrals,
     tries |-> 0, leased |-> FALSE, failed |-> FALSE]

DecideRow(i) == Row(i, "decide", 0, 0, 0)

\* UpdateIncidentState: a terminal incident is final.
Reopened(i, state) == [incidents EXCEPT ![i].state = state]
Moved(i, state) == IF incidents[i].state \in Terminal THEN incidents ELSE Reopened(i, state)

PendingRows(i) == {k \in DOMAIN outbox : outbox[k].inc = i /\ ~outbox[k].failed}

\* ClaimOutboxBatch.
Claimable(k) == ~outbox[k].failed /\ ~outbox[k].leased /\ outbox[k].at <= now

-----------------------------------------------------------------------------
(* memQueue *)

Live == Range(ready) \cup delivered \cup Range(hand) \cup {t.msg : t \in Range(retries)}

\* An entry id that nothing in flight bears.
FreshId == CHOOSE n \in 1..(Cardinality(Live) + 1) :
              /\ \A m \in Live : m.id # n
              /\ \A n2 \in 1..(n - 1) : \E m \in Live : m.id = n2

Message(row) == [id |-> FreshId, inc |-> row.inc, phase |-> row.phase,
                 attempt |-> row.attempt, deferrals |-> row.deferrals]

\* Ack: while the broker is out the entry stays pending.
Ack(m) ==
    /\ delivered' = IF up THEN delivered \ {m} ELSE delivered
    /\ UNCHANGED <<ready, up>>

-----------------------------------------------------------------------------
(* memBreaker *)

ClosedBreaker == [state |-> "closed", cooled |-> FALSE, probes |-> 0, ok |-> 0, bad |-> 0]

\* refresh.
HalfOpened(b) ==
    IF b.state = "open" /\ b.cooled THEN [b EXCEPT !.state = "half", !.cooled = FALSE, !.probes = 0] ELSE b

Admits(b) == b.state = "closed" \/ (b.state = "half" /\ b.probes < MaxProbes)

Admitted(b) == IF b.state = "half" /\ Admits(b) THEN [b EXCEPT !.probes = @ + 1] ELSE b

Opened(b) == [b EXCEPT !.state = "open", !.cooled = FALSE, !.probes = 0]

\* Report: a probe decides alone; breakerTripRate is one in five.
Reported(b0, ok) ==
    LET b1 == HalfOpened(b0)
        b == IF ok THEN [b1 EXCEPT !.ok = @ + 1] ELSE [b1 EXCEPT !.bad = @ + 1]
    IN  CASE b.state = "half" -> IF ok THEN ClosedBreaker ELSE Opened(b)
          [] b.state = "closed" ->
                IF b.ok + b.bad >= MinSamples /\ 5 * b.ok < b.ok + b.bad THEN Opened(b) ELSE b
          [] OTHER -> b

Cool ==
    /\ breaker.state = "open" /\ ~breaker.cooled
    /\ breaker' = [breaker EXCEPT !.cooled = TRUE]
    /\ UNCHANGED <<storeVars, queueVars, worldVars, hand, retries, faults, monitor>>

-----------------------------------------------------------------------------
(* Monitor *)

Raise(m, breached, name) == IF breached THEN [m EXCEPT !.breaches = @ \cup {name}] ELSE m

\* checkDebits.
Debited(i, attempt, ok) ==
    LET seen == [monitor EXCEPT !.debits = @ \cup {[inc |-> i, attempt |-> attempt, ok |-> ok]}]
        twice == Raise(seen, \E d \in monitor.debits : d.inc = i /\ d.attempt = attempt,
                       "NO_DOUBLE_PROCESSING")
        noticed == Raise(twice, ~monitor.notified, "RBI_PRE_DEBIT_NOTICE")
        cooled == Raise(noticed, \E t \in monitor.last : now - t < Cooling, "RECURRING_COOLING_WINDOW")
    IN  IF i \in recurring THEN [cooled EXCEPT !.last = {now}] ELSE twice

-----------------------------------------------------------------------------
(* retryOp: a stage that fails is run again after whatever waits already *)

Task(stage, m, ok) == [stage |-> stage, msg |-> m, ok |-> ok]

Again(stop, task, waiting) ==
    retries' = IF stop = "none" THEN waiting ELSE Append(waiting, task)

\* A message is acknowledged when its stage is done.
Conclude(stop, task, waiting) ==
    /\ Again(stop, task, waiting)
    /\ IF stop = "none" THEN Ack(task.msg) ELSE UNCHANGED queueVars

-----------------------------------------------------------------------------
(* ingest *)

Webhook(i) == [id |-> 0, inc |-> i, phase |-> "ingest", attempt |-> 0, deferrals |-> 0]

\* An existing mandate is carried through untouched.
MandateOf(i) ==
    IF i \in recurring /\ mandate = {}
    THEN {[last |-> {}, next |-> {}, cycle |-> 0, halted |-> FALSE]}
    ELSE mandate

\* The transaction: the incident, its row and its mandate land together.
Inserted(i) ==
    /\ incidents' = [incidents EXCEPT ![i].state = "RECEIVED"]
    /\ outbox' = Append(outbox, DecideRow(i))
    /\ mandate' = MandateOf(i)

\* A payment in a live checkout opens a session, if the store lets it.
Ingest(i, waiting) ==
    /\ \/ /\ incidents[i].state # "none"
          /\ retries' = waiting /\ Spared /\ UNCHANGED <<storeVars, session>>
       \/ /\ incidents[i].state = "none"
          /\ \E stop \in Stop({"none", "tx"}) :
                /\ Counted(stop) /\ Again(stop, Task("ingest", Webhook(i), FALSE), waiting)
                /\ IF stop = "tx" THEN UNCHANGED <<storeVars, session>>
                   ELSE /\ Inserted(i)
                        /\ \/ session' = session
                           \/ i \notin recurring /\ "morph" \in Proposable /\ session' = session \cup {i}
    /\ UNCHANGED <<queueVars, hand, breaker, monitor>>

\* scheduleIngests: a delivery is counted off when its operation has run,
\* whether or not the stage is to run again.
Deliver(i) ==
    /\ hand = <<>> /\ due[i] > 0 /\ due' = [due EXCEPT ![i] = @ - 1]
    /\ Ingest(i, retries)
    /\ UNCHANGED <<recurring, alive, now, slips>>

ExpireSession(i) ==
    /\ hand = <<>> /\ i \in session /\ session' = session \ {i}
    /\ UNCHANGED <<storeVars, queueVars, hand, retries, breaker, faults, monitor, recurring, due, alive, now, slips>>

-----------------------------------------------------------------------------
(* relayTick, one row of its batch at a time *)

Unclaimed(k) == [outbox EXCEPT ![k].leased = TRUE]
Charged(k) == [outbox EXCEPT ![k].tries = @ + 1, ![k].failed = outbox[k].tries + 1 >= MaxPublishAttempts]

\* Publish, then MarkOutboxDispatched; a mark that fails leaves the row claimed.
Publish(k) ==
    \/ /\ Spared /\ ready' = Append(ready, Message(outbox[k])) /\ outbox' = RemoveAt(outbox, k)
    \/ /\ Hit("store") /\ ready' = Append(ready, Message(outbox[k])) /\ outbox' = Unclaimed(k)
    \/ /\ Hit("dropped") /\ outbox' = RemoveAt(outbox, k) /\ UNCHANGED ready
    \/ /\ Hit("lost") /\ outbox' = Charged(k) /\ UNCHANGED ready

Relay ==
    /\ hand = <<>> /\ "relay" \in alive /\ up
    /\ \E k \in DOMAIN outbox :
          /\ Claimable(k) /\ \A k2 \in 1..(k - 1) : ~Claimable(k2)
          /\ Publish(k)
    /\ UNCHANGED <<incidents, mandate, delivered, up, worldVars, hand, retries, breaker, monitor>>

\* The broker fails when a relay ticks and not while it is out.  The claims of
\* that tick are given back, or the store fails as well and they are not.
Outage ==
    /\ hand = <<>> /\ "relay" \in alive /\ up /\ Hit("outage") /\ up' = FALSE
    /\ \/ UNCHANGED outbox
       \/ "store" \in Faults /\ outbox' = [k \in DOMAIN outbox |->
                                              [outbox[k] EXCEPT !.leased = @ \/ Claimable(k)]]
    /\ UNCHANGED <<incidents, mandate, ready, delivered, worldVars, hand, retries, breaker, monitor>>

OutageEnds ==
    /\ hand = <<>> /\ ~up /\ up' = TRUE
    /\ UNCHANGED <<storeVars, ready, delivered, worldVars, hand, retries, breaker, faults, monitor>>

LeaseExpires ==
    /\ hand = <<>>
    /\ \E k \in DOMAIN outbox : outbox[k].leased /\ outbox' = [outbox EXCEPT ![k].leased = FALSE]
    /\ UNCHANGED <<incidents, mandate, queueVars, worldVars, hand, retries, breaker, faults, monitor>>


-----------------------------------------------------------------------------
(* handleDecide *)

Attached(i, skew) ==
    IF i \notin recurring THEN {}
    ELSE {[wait |-> {t - now - skew : t \in r.next}, notice |-> {}, attempts |-> r.cycle,
           halted |-> r.halted, category |-> "general"] : r \in mandate}

PaymentOf(i) == [recurring |-> i \in recurring, amount |-> 1, rail |-> "card"]

\* What the checkout offers.
Surroundings(i) == [session |-> i \in session, available |-> Rails]

\* The row as read, by the clock of the worker.
GateInputOf(i, action, skew) ==
    LET payment == PaymentOf(i)
        checkout == Surroundings(i)
    IN  [recurring |-> payment.recurring, amount |-> payment.amount, rail |-> payment.rail,
         session |-> checkout.session, available |-> checkout.available,
         attempt |-> incidents[i].count, mandate |-> Attached(i, skew),
         terminal |-> FALSE, confident |-> TRUE, recoverable |-> TRUE, foreign |-> FALSE,
         action |-> action, target |-> CHOOSE r \in Rails : r # "card", delay |-> 0]

\* Decide of the gatekeeper.
CommandFor(i, action, backoff, skew) == Decide(GateInputOf(i, action, skew), backoff)

\* The incident is closed before the mandate is halted.
Abstain(i, cmd, stop) ==
    LET halts == RequiresMandateHalt(cmd)
    IN  /\ stop \in {"none", "read", "state"} \cup (IF halts THEN {"save"} ELSE {})
        /\ incidents' = IF stop \in {"none", "save"} THEN Moved(i, "ABSTAINED") ELSE incidents
        /\ mandate' = IF stop = "none" /\ halts THEN {[r EXCEPT !.halted = TRUE] : r \in mandate}
                                                ELSE mandate
        /\ UNCHANGED <<outbox, monitor>>

\* The notice is sent and the mandate reserved before the debit is in the
\* outbox; the schedule runs by the clock of the store.
Schedule(i, cmd, stop) ==
    LET at == now + cmd.delay
        reserves == i \in recurring /\ stop \in {"none", "tx", "state"}
    IN  /\ stop = "save" => i \in recurring
        /\ mandate' = IF reserves
                      THEN {[r EXCEPT !.next = {at + Cooling}, !.cycle = @ + 1] : r \in mandate}
                      ELSE mandate
        /\ monitor' = IF reserves THEN [monitor EXCEPT !.notified = TRUE] ELSE monitor
        /\ outbox' = IF stop \in {"none", "state"}
                     THEN Append(outbox, Row(i, "execute", incidents[i].count + 1, at, 0))
                     ELSE outbox
        /\ incidents' = IF stop = "none" THEN Moved(i, "SCHEDULED") ELSE incidents

\* A breaker that is asked has admitted, whatever the stage then meets; one
\* that is open leaves nothing to propose.
HandleDecide(m, waiting, skews) ==
    LET i == m.inc
        b == HalfOpened(breaker)
    IN  IF incidents[i].state \in Terminal
        THEN /\ Conclude("none", Task("decide", m, FALSE), waiting)
             /\ Spared /\ UNCHANGED <<storeVars, breaker, monitor>>
        ELSE \E stop \in Stop({"none", "read", "save", "tx", "state"}), skew \in skews,
                action \in IF Admits(b) THEN Proposable ELSE {"abstain"}, backoff \in PolicyBackoffs :
             LET cmd == CommandFor(i, action, backoff, skew)
             IN  /\ CountedBoth(stop, skew # 0)
                 /\ Conclude(stop, Task("decide", m, FALSE), waiting)
                 /\ breaker' = Admitted(b)
                 /\ IF cmd.action \in Executable THEN Schedule(i, cmd, stop)
                                                 ELSE Abstain(i, cmd, stop)

-----------------------------------------------------------------------------
(* handleExecute and finalizeAttempt *)

\* enforceMandateWindow, against the last debit on record.
OpensAt == {t + Cooling : t \in UNION {r.last : r \in mandate}}
TooEarly == \E t \in OpensAt : now < t
Halted == \E r \in mandate : r.halted

\* A debit that comes too early goes back to the outbox, so many times.
Deferred(m) ==
    Append(outbox, Row(m.inc, "execute", m.attempt, CHOOSE t \in OpensAt : TRUE, m.deferrals + 1))

Refuse(m, waiting) ==
    \E stop \in Stop({"none", "state"}) :
       /\ Counted(stop) /\ Conclude(stop, Task("execute", m, FALSE), waiting)
       /\ incidents' = IF stop = "none" THEN Moved(m.inc, "ABSTAINED") ELSE incidents
       /\ UNCHANGED <<mandate, outbox, breaker, monitor>>

Defer(m, waiting) ==
    \E stop \in Stop({"none", "tx"}) :
       /\ Counted(stop) /\ Conclude(stop, Task("execute", m, FALSE), waiting)
       /\ outbox' = IF stop = "none" THEN Deferred(m) ELSE outbox
       /\ UNCHANGED <<incidents, mandate, breaker, monitor>>

Later(t, times) == {IF \E u \in times : u > t THEN CHOOSE u \in times : TRUE ELSE t}

\* RecordAttempt leaves an attempt that has its row alone; the monitor counts them.
Recorded(i, attempt, seen) ==
    LET recorded == seen.recorded \cup {<<i, attempt>>}
    IN  Raise([seen EXCEPT !.recorded = recorded],
              Cardinality({r \in recorded : r[1] = i}) > MaxAttempts, "ATTEMPT_CAP")

\* attempt_commit: the outcome is reported before it is known whether the rest
\* will be written.
Commit(from, m, ok, stop, seen) ==
    LET i == m.inc
        retry == ~ok /\ m.attempt < MaxAttempts
    IN  /\ stop = "tx" => retry
        /\ stop = "save" => i \in recurring
        /\ breaker' = IF stop = "record" THEN breaker ELSE Reported(breaker, ok)
        /\ monitor' = IF stop = "record" THEN seen
                      ELSE Recorded(i, m.attempt, seen)
        /\ mandate' = IF i \notin recurring \/ stop \in {"record", "save"} THEN mandate
                      ELSE {[r EXCEPT !.last = {now}, !.next = Later(now + Cooling, @)] : r \in mandate}
        /\ outbox' = IF retry /\ stop \in {"none", "state"} THEN Append(outbox, DecideRow(i))
                                                            ELSE outbox
        /\ incidents' = IF stop # "none" \/ from[i].state \in Terminal THEN from
                       ELSE [from EXCEPT ![i].state = IF ok THEN "RECOVERED"
                                                      ELSE IF retry THEN "DIAGNOSED" ELSE "ABANDONED"]

CommitStops == {"none", "record", "save", "tx", "state"}

Claimed(i) == [incidents EXCEPT ![i] = [state |-> "EXECUTING", count |-> @.count + 1]]

\* A store that fails after the claim has spent the attempt: the stage, run
\* again, finds it taken.
ClaimInVain(m, waiting) ==
    /\ Hit("store") /\ Conclude("state", Task("execute", m, FALSE), waiting)
    /\ \/ incidents' = Claimed(m.inc)
       \/ incidents' = incidents
    /\ UNCHANGED <<mandate, outbox, breaker, monitor>>

\* The claim, the debit, and the first try at its record; then the
\* acknowledgement, unless the worker dies before.
Debit(m, waiting) ==
    \E ok \in BOOLEAN, stop \in Stop(CommitStops), died \in BOOLEAN :
       /\ died => "death" \in Faults
       /\ CountedBoth(stop, died)
       /\ Commit(Claimed(m.inc), m, ok, stop, Debited(m.inc, m.attempt, ok))
       /\ Again(stop, Task("commit", m, ok), waiting)
       /\ IF died THEN UNCHANGED queueVars ELSE Ack(m)

\* The attempt fence of IncrementIncidentAttempts: what is not to be claimed
\* now may be when the stage is run again.
Open(i) == incidents[i].state \in {"RECEIVED", "SCHEDULED"}

PassedByOne(i, attempt) == incidents[i].state \in Terminal \/ incidents[i].count > attempt
Passed(i, attempt) == incidents[i].state \in Terminal \/ incidents[i].count >= attempt

HandleExecute(m, waiting) ==
    LET i == m.inc
        task == Task("execute", m, FALSE)
    IN  IF incidents[i].state \notin Terminal /\ i \in recurring /\ (Halted \/ TooEarly)
        THEN IF Halted \/ m.deferrals >= MaxDeferrals THEN Refuse(m, waiting) ELSE Defer(m, waiting)
        ELSE IF Passed(i, m.attempt)
        THEN Conclude("none", task, waiting) /\ Spared /\ UNCHANGED <<storeVars, breaker, monitor>>
        ELSE IF ~Open(i)
        THEN Conclude("conflict", task, waiting) /\ Spared /\ UNCHANGED <<storeVars, breaker, monitor>>
        ELSE ClaimInVain(m, waiting) \/ Debit(m, waiting)

-----------------------------------------------------------------------------
(* The pollers *)

\* A worker's read; a message may be delivered twice in a batch.
Consume ==
    /\ hand = <<>> /\ "worker" \in alive /\ up /\ ready # <<>>
    /\ \/ Spared /\ hand' = <<Head(ready)>>
       \/ Hit("duplicate") /\ hand' = <<Head(ready), Head(ready)>>
    /\ ready' = Tail(ready) /\ delivered' = delivered \cup {Head(ready)}
    /\ UNCHANGED <<storeVars, up, worldVars, retries, breaker, monitor>>

\* Reclaim of a message idle for five seconds; a stage under retry is busy for
\* less unless it fails twenty-five times.
Reclaim ==
    /\ hand = <<>> /\ "reclaim" \in alive /\ up
    /\ \E m \in delivered \ {t.msg : t \in Range(retries)} : hand' = <<m>>
    /\ UNCHANGED <<storeVars, queueVars, worldVars, retries, breaker, faults, monitor>>

Skews == IF "skew" \in Faults THEN {-1, 0, 1} ELSE {0}

Handle ==
    /\ hand # <<>> /\ hand' = Tail(hand)
    /\ LET m == Head(hand)
       IN  IF m.phase = "decide" THEN HandleDecide(m, retries, Skews) ELSE HandleExecute(m, retries)
    /\ UNCHANGED worldVars

\* scheduleReconcile: what is not terminal, has no row and has not moved for a
\* minute; so nothing of it is on its way, or the broker is out.
Stalled(i) ==
    /\ incidents[i].state \notin Terminal \cup {"none"} /\ PendingRows(i) = {}
    /\ \A t \in Range(retries) : t.msg.inc # i
    /\ ~up \/ \A m \in Live : m.inc # i

Rederive(i, waiting) ==
    /\ \E stop \in Stop({"none", "tx"}) :
          /\ Counted(stop) /\ Again(stop, Task("reconcile", Webhook(i), FALSE), waiting)
          /\ outbox' = IF stop = "none" THEN Append(outbox, DecideRow(i)) ELSE outbox
    /\ UNCHANGED <<incidents, mandate, queueVars, hand, worldVars, breaker, monitor>>

Reconcile ==
    /\ hand = <<>> /\ "reconcile" \in alive
    /\ \E i \in Incidents : Stalled(i) /\ Rederive(i, retries)

Retry ==
    /\ hand = <<>> /\ retries # <<>>
    /\ LET t == Head(retries)
           waiting == Tail(retries)
       IN  CASE t.stage = "ingest" ->
                    Ingest(t.msg.inc, waiting) /\ UNCHANGED <<recurring, due, alive, now, slips>>
             [] t.stage = "decide" ->
                    HandleDecide(t.msg, waiting, {0}) /\ UNCHANGED <<hand, worldVars>>
             [] t.stage = "execute" ->
                    HandleExecute(t.msg, waiting) /\ UNCHANGED <<hand, worldVars>>
             [] t.stage = "commit" ->
                    /\ \E stop \in Stop(CommitStops) :
                          /\ Counted(stop) /\ Again(stop, t, waiting)
                          /\ Commit(incidents, t.msg, t.ok, stop, monitor)
                    /\ UNCHANGED <<queueVars, hand, worldVars>>
             [] t.stage = "reconcile" -> Rederive(t.msg.inc, waiting)

\* The end of an issuer's downtime brings forward what waits for it, the
\* mandate's debits excepted.
Releasable(k) == ~outbox[k].failed /\ outbox[k].at > now /\ outbox[k].inc \notin recurring

Release ==
    /\ hand = <<>> /\ \E k \in DOMAIN outbox : Releasable(k)
    /\ outbox' = [k \in DOMAIN outbox |->
                    IF Releasable(k) THEN [outbox[k] EXCEPT !.at = now] ELSE outbox[k]]
    /\ UNCHANGED <<incidents, mandate, queueVars, hand, worldVars, retries, breaker, faults, monitor>>

-----------------------------------------------------------------------------
(* The run *)

\* quiesced: what keeps a poller going.
Quiesced ==
    /\ \A i \in Incidents : due[i] = 0 /\ incidents[i].state \in Terminal \cup {"none"}
    /\ ready = <<>> /\ delivered = {}
    /\ \A k \in DOMAIN outbox : outbox[k].failed

\* A poller whose turn comes then does not come again.
Leave(p) ==
    /\ hand = <<>> /\ Quiesced /\ p \in alive /\ alive' = alive \ {p}
    /\ UNCHANGED <<storeVars, queueVars, hand, retries, breaker, faults, monitor, recurring, due, session, now, slips>>

\* timeToNextAvailable: nothing to wait for, or a lease that will end.
DueNow == \E k \in DOMAIN outbox : outbox[k].leased \/ Claimable(k)

Busy ==
    \/ ready # <<>> \/ delivered # {} \/ ~up \/ DueNow
    \/ \E i \in Incidents : Stalled(i)

\* idleDelay: pollers with nothing to do sleep until something is due; latency
\* may take a tick as well, of which the retries of a stage see nothing.
Advance ==
    /\ hand = <<>> /\ retries = <<>> /\ now < MaxNow /\ now' = now + 1
    /\ slips' = IF Busy THEN slips + 1 ELSE slips
    /\ slips' <= MaxSlips
    /\ breaker' = [breaker EXCEPT !.cooled = breaker.state = "open", !.ok = 0, !.bad = 0]
    /\ UNCHANGED <<storeVars, queueVars, hand, retries, faults, monitor, recurring, due, session, alive>>

\* buildWebhooks: which incidents are debits of the mandate, and how often each
\* webhook is delivered.
Drawn(draw) == recurring = draw.recurring /\ due = draw.due

SimInit ==
    /\ \E draw \in Draws : Drawn(draw)
    /\ incidents = [i \in Incidents |-> [state |-> "none", count |-> 0]]
    /\ mandate = {} /\ outbox = <<>>
    /\ ready = <<>> /\ delivered = {} /\ hand = <<>> /\ retries = <<>> /\ up = TRUE
    /\ breaker = ClosedBreaker /\ session = {} /\ alive = Pollers
    /\ now = 0 /\ slips = 0 /\ faults = 0
    /\ monitor = [debits |-> {}, recorded |-> {}, notified |-> FALSE, last |-> {}, breaches |-> {}]

\* Run breaks off at a breach.
SimNext ==
    /\ monitor.breaches = {}
    /\ \/ \E i \in Incidents : Deliver(i) \/ ExpireSession(i)
       \/ Relay \/ Outage \/ OutageEnds \/ LeaseExpires
       \/ Consume \/ Reclaim \/ Handle \/ Reconcile \/ Retry \/ Release
       \/ \E p \in Pollers : Leave(p)
       \/ Cool \/ Advance

SimSpec == SimInit /\ [][SimNext]_simVars

-----------------------------------------------------------------------------
(* Properties *)

SimTypeOK ==
    /\ incidents \in [Incidents -> [state : States, count : Nat]]
    /\ \A k \in DOMAIN outbox : outbox[k].inc \in Incidents /\ outbox[k].tries <= MaxPublishAttempts
    /\ delivered \subseteq Live /\ alive \subseteq Pollers /\ session \subseteq Incidents \ recurring
    /\ breaker.state \in {"closed", "open", "half"} /\ breaker.probes \in 0..MaxProbes
    /\ Cardinality(mandate) <= 1 /\ faults \in 0..MaxFaults /\ slips \in 0..MaxSlips

\* invariants.go, as its monitor checks them after every operation: whatever
\* faults strike the stages and however their retries fall among other
\* operations, no attempt is debited twice, and of the debits on a mandate none
\* comes without a notice or within the cooling window of another.
MonitorIsSilent ==
    monitor.breaches \cap {"NO_DOUBLE_PROCESSING", "RBI_PRE_DEBIT_NOTICE",
                           "RECURRING_COOLING_WINDOW"} = {}

\* What the workers leave behind, if anything, is an incident that nobody has
\* touched: none is abandoned half-way.
LeftIsUntouched ==
    "worker" \notin alive =>
        \A i \in Incidents : incidents[i].state \in Terminal \cup {"none", "RECEIVED"}
                             /\ (incidents[i].state = "RECEIVED" => incidents[i].count = 0)

\* A money-moving fact and the books: a debit that succeeded leaves its
\* incident closed, or its record is still being written.
SuccessIsClosed ==
    \A d \in monitor.debits :
       d.ok => \/ incidents[d.inc].state \in Terminal
               \/ \E t \in Range(retries) : t.stage = "commit" /\ t.msg.inc = d.inc

\* What a run of the simulation rests on: the types, the monitor's silence, and
\* the incidents it leaves untouched or closed.
SimulationSound == SimTypeOK /\ MonitorIsSilent /\ LeftIsUntouched /\ SuccessIsClosed

\* Not so, as the instance of the README shows: InvAttemptCap, "no incident
\* exceeds its attempt ceiling".
CapHolds == "ATTEMPT_CAP" \notin monitor.breaches

\* Nor this: quiesced, "an incident that has not reached a terminal state keeps the
\* pipeline running".
PipelineRuns ==
    \A i \in Incidents :
       incidents[i].state \notin Terminal \cup {"none"} => {"relay", "worker"} \subseteq alive

=============================================================================
