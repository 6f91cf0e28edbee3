----------------------------- MODULE MCService -----------------------------
\* Components that never meet in one state, in one instance for TLC: the
\* initial state picks the one that moves, and how.
EXTENDS Outbox, Mandate, Session, RateLimit, Edge, Gateway, Emitter, Timeline, TLC

CONSTANTS e1, e2, e3, r1, r2, o1, o2, w1, w2, n1, s1, s2, c1, c2, c3, k1, k2, k3, pay, x1, g1, g2, i1, i2

VARIABLE part

vars == <<part, outboxVars, mandateVars, sessionVars, rateVars, edgeVars, gatewayVars, emitterVars,
          timelineVars>>

\* Relays are interchangeable, and so are healthy events, and operators.
RowSymmetry ==
    Permutations(Relays) \cup Permutations(Events \ Poison) \cup Permutations(Operators)

\* The chain with three writers and an edit; the commands with nothing else.
MCStored == [c \in {"raw", "kept", "other"} |-> IF c = "other" THEN c ELSE "kept"]

OnChain == mandate' = mandate /\ command' = command /\ notice' = notice

OnMandate ==
    /\ edits' = <<>> /\ pin' = pin
    /\ \A p \in Procs : tx'[p].stage = "open" => tx'[p].content = "raw" /\ p # w2

\* Two browsers on one session, which gets frames, and one on another.
MCSessions == {s1, s2}
MCClients == {c1, c2, c3}
MCSessionOf == [c \in MCClients |-> IF c = c3 THEN s2 ELSE s1]
MCMaxFrames == [s \in MCSessions |-> IF s = s1 THEN 4 ELSE 0]
MCMaxVisits == [s \in MCSessions |-> 2]

OneStream == conn'[c2] = "away"

\* Both issuers fail at one rate when no outage is on.
MCBaseline == [i \in Issuers |-> 80]

\* The requests at the simulator are alike: one of them is the first.  A page is
\* reloaded where requests come one at a time.
InTurn ==
    /\ request'[g2] # NoRequest => request'[g1] # NoRequest
    /\ page'.id > 1 => request'[g2] = NoRequest

FewFrames == handed'[s1] <= 1 /\ epoch'[s2] <= 1

-----------------------------------------------------------------------------

Parts == {"outbox", "chain", "mandate", "one_stream", "few_frames", "limiter", "request",
          "gateway", "webhooks", "outages"}

\* An idle component has one initial state.
Init ==
    /\ part \in Parts
    /\ OutboxInit /\ MandateInit /\ SessionInit /\ RateInit /\ EdgeInit
    /\ part # "request" => route = "health" /\ refused = {}
    /\ GatewayInit /\ EmitterInit
    /\ part # "gateway" => book[1].code = "terminal"
    /\ IF part = "outages" THEN TimelineInit
       ELSE /\ outages = [w \in Windows |-> CHOOSE o \in OutageWindow : TRUE]
            /\ now = 0 /\ polled = 0 /\ noticed = [w \in Windows |-> {}]

Moving ==
    \/ part = "outbox" /\ OutboxNext
    \/ part = "chain" /\ MandateNext /\ OnChain
    \/ part = "mandate" /\ MandateNext /\ OnMandate
    \/ part = "one_stream" /\ SessionNext /\ OneStream
    \/ part = "few_frames" /\ SessionNext /\ FewFrames
    \/ part = "limiter" /\ RateNext
    \/ part = "request" /\ EdgeNext
    \/ part = "gateway" /\ GatewayNext /\ InTurn
    \/ part = "webhooks" /\ EmitterNext
    \/ part = "outages" /\ TimelineNext

\* The component that does not move stays.
Staying ==
    /\ UNCHANGED part
    /\ part # "outbox" => UNCHANGED outboxVars
    /\ part \notin {"chain", "mandate"} => UNCHANGED mandateVars
    /\ part \notin {"one_stream", "few_frames"} => UNCHANGED sessionVars
    /\ part # "limiter" => UNCHANGED rateVars
    /\ part # "request" => UNCHANGED edgeVars
    /\ part # "gateway" => UNCHANGED gatewayVars
    /\ part # "webhooks" => UNCHANGED emitterVars
    /\ part # "outages" => UNCHANGED timelineVars

Next == Moving /\ Staying

Spec == Init /\ [][Next]_vars

=============================================================================
