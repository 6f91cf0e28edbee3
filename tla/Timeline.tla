------------------------------ MODULE Timeline ------------------------------
(***************************************************************************)
(* The scripted outages of the simulator (internal/simulator/timeline.go): *)
(* windows on issuers, listed as notices to whoever polls, and the rate at *)
(* which payments of an issuer fail meanwhile.                             *)
(*                                                                         *)
(* Windows are chosen by the initial state, at any times; the scenarios of *)
(* the code are some of them.                                              *)
(***************************************************************************)
EXTENDS Integers, FiniteSets, FiniteSetsExt

CONSTANTS
    Windows,        \* identifiers of outage windows
    Issuers,        \* telemetry keys
    Rates,          \* failure rates per mille a window may set
    Baseline,       \* [Issuers -> Nat], the rate without a window
    Lead,           \* how early a scheduled window is announced
    ListedFor,      \* how long a resolved one stays listed
    PollGap,        \* the longest time between two polls
    Horizon         \* the end of time (a bound)

ASSUME TimelineAssumption ==
    /\ Rates \subseteq 0..1000 /\ Baseline \in [Issuers -> 0..1000]
    /\ {Lead, ListedFor, PollGap, Horizon} \subseteq Nat
    /\ PollGap < ListedFor

VARIABLES
    outages,    \* [Windows -> [issuer, begin, end, scheduled, rate]]
    now,
    polled,     \* the time of the last poll
    noticed        \* [Windows -> statuses the poller has seen of it]

timelineVars == <<outages, now, polled, noticed>>

OutageWindow ==
    {w \in [issuer : Issuers, begin : 0..Horizon, end : 0..Horizon, scheduled : BOOLEAN, rate : Rates] :
        w.begin <= w.end}

\* EntityAt: the status a window is listed with, at most one.
StatusAt(w, t) ==
    IF t < w.begin
    THEN IF w.scheduled /\ t >= w.begin - Lead THEN {"scheduled"} ELSE {}
    ELSE IF t <= w.end THEN {"started"}
    ELSE IF t < w.end + ListedFor THEN {"resolved"} ELSE {}

\* DowntimesAt.
Listed(t) == {w \in Windows : StatusAt(outages[w], t) # {}}

CoveringToTheEnd(issuer, t) ==
    {w \in Windows : outages[w].issuer = issuer /\ outages[w].begin <= t /\ t < outages[w].end}

\* ActiveWindow: the harshest that covers the issuer.
Covering(issuer, t) ==
    {w \in Windows : outages[w].issuer = issuer /\ outages[w].begin <= t /\ t <= outages[w].end}

\* FailPerMille.
FailPerMille(issuer, t) == Max({Baseline[issuer]} \cup {outages[w].rate : w \in Covering(issuer, t)})

-----------------------------------------------------------------------------

TimePasses ==
    /\ now < Horizon + ListedFor + Lead /\ now < polled + PollGap
    /\ now' = now + 1
    /\ UNCHANGED <<outages, polled, noticed>>

\* GET /v1/downtimes.
ListDowntimes ==
    /\ polled' = now
    /\ noticed' = [w \in Windows |-> noticed[w] \cup StatusAt(outages[w], now)]
    /\ UNCHANGED <<outages, now>>

TimelineInit ==
    /\ outages \in [Windows -> OutageWindow]
    /\ now = 0 /\ polled = 0 /\ noticed = [w \in Windows |-> {}]

TimelineNext == TimePasses \/ ListDowntimes

TimelineSpec == TimelineInit /\ [][TimelineNext]_timelineVars

-----------------------------------------------------------------------------
(* Properties *)

TimelineTypeOK ==
    /\ now \in Nat /\ polled \in 0..now
    /\ \A w \in Windows : Cardinality(StatusAt(outages[w], now)) <= 1

\* timeline.go EntityAt, "a consumer polling this endpoint sees a real started
\* -> resolved transition": an outage the poller saw running stays listed until
\* the poller has seen it resolved.
ResolutionIsSeen ==
    \A w \in Windows : "started" \in noticed[w] => "resolved" \in noticed[w] \/ w \in Listed(now)

\* timeline.go FailPerMille: payments fail by an outage exactly while a notice
\* says it runs, and by the worst of them.
NoticesTellRates ==
    \A issuer \in Issuers :
        LET running == {w \in Windows : outages[w].issuer = issuer /\ "started" \in StatusAt(outages[w], now)}
        IN  /\ FailPerMille(issuer, now) >= Baseline[issuer]
            /\ FailPerMille(issuer, now) # Baseline[issuer] => \E w \in running :
                  outages[w].rate = FailPerMille(issuer, now)
            /\ \A w \in running : outages[w].rate <= FailPerMille(issuer, now)

\* What the simulator says of its outages is what happens.
TimelineSound == TimelineTypeOK /\ ResolutionIsSeen /\ NoticesTellRates

=============================================================================
