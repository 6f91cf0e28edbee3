------------------------------ MODULE Diagnosis ------------------------------
\* One diagnosis a worker asks for: past the breaker, down the tiers of its
\* stack until one answers, or to the worker's own abstention. The replay tier
\* answers from the corpus its process has loaded, while others record.
EXTENDS Cassettes, Sequences

CONSTANTS
    Stacks,      \* the stacks a process may be built with
    Contexts,    \* what a worker may ask about
    Contents,    \* proposals a model may send, whole and well-formed or not
    Claims       \* proposals a tier of the caller's own may return

\* The caller's own answers may come without a mode anybody knows; a stack has
\* one live tier at most. The notices of a context have these fields.
ASSUME DiagnosisConstants ==
    /\ \A s \in Stacks :
         /\ s \in Seq({"live", "replay", "heuristic", "own"})
         /\ \A j, k \in 1..Len(s) : s[j] = "live" /\ s[k] = "live" => j = k
    /\ \A p \in Contents \cup Claims : IsProposal(p)
    /\ \A dc \in Contexts : \A n \in dc.notices :
         /\ n.key \in Int
         /\ n = [key |-> n.key, severity |-> n.severity, status |-> n.status,
                 matches |-> n.matches, age |-> n.age]

VARIABLES
    stack,       \* the tiers, in order
    asker,       \* the process the worker is in
    asked,       \* the context
    walk,       \* [at, tier, sent, unread]: where the diagnosis is, and its requests
    cancelled,   \* the worker's context has ended
    verdict      \* [by, p]: the proposal, and the tier it came from

diagnosisVars == <<stack, asker, asked, walk, cancelled, verdict>>

\* The stack of a configuration: a live tier needs a URL and a model, a replay
\* tier a directory; the heuristic is always there.
StackOf(c) ==
    (IF c.url /\ c.model THEN <<"live">> ELSE <<>>)
        \o (IF c.dir THEN <<"replay">> ELSE <<>>) \o <<"heuristic">>

Idle == [at |-> "idle", tier |-> 0, sent |-> 0, unread |-> 0]

-----------------------------------------------------------------------------

Quiet == UNCHANGED <<stack, asker, asked, cancelled>>

Conclude(by, p) ==
    /\ verdict' = [by |-> by, p |-> p]
    /\ walk' = [walk EXCEPT !.at = "done"]

\* A breaker that is open for the issuer is an answer of its own; one that
\* cannot be asked is not.
PassBreaker ==
    /\ walk.at = "idle" /\ runner[asker].at = "up"
    /\ \/ /\ walk' = [walk EXCEPT !.at = "next", !.tier = 1]
          /\ UNCHANGED verdict
       \/ Conclude("breaker", Answer(asked.incident, "ISSUER_OUTAGE", 90,
                       "ASYNC_EXPONENTIAL_RETRY", 0, "none", "SKIPPED", FALSE))
    /\ Quiet /\ UNCHANGED cassetteVars

\* No tier answered, or the context ended before the next was asked: the stack
\* abstains with an error, and the worker by itself.
Exhausted ==
    /\ walk.at = "next" /\ (walk.tier > Len(stack) \/ cancelled)
    /\ Conclude("nobody", AbstainProposal(asked.incident, "HEURISTIC"))
    /\ Quiet /\ UNCHANGED cassetteVars

Tier(name) ==
    walk.at = "next" /\ walk.tier <= Len(stack) /\ ~cancelled /\ stack[walk.tier] = name

Declined == walk' = [walk EXCEPT !.at = "next", !.tier = @ + 1] /\ UNCHANGED verdict

\* The rules every tier of the program's own ends with.
Finalize(by, p) ==
    IF Acceptable(p, asked) THEN Conclude(by, Finalized(p, asked)) ELSE Declined

\* The live tier sends its question.
AskLive ==
    /\ Tier("live")
    /\ walk' = [walk EXCEPT !.at = "asking", !.sent = @ + 1]
    /\ Quiet /\ UNCHANGED <<verdict, cassetteVars>>

\* A reply that is no content: lost, late, refused, too long, not the envelope,
\* the provider's own error, or empty. None earns a second request.
LiveFails ==
    /\ walk.at = "asking"
    /\ Declined
    /\ Quiet /\ UNCHANGED cassetteVars

RepairableAgain == walk.sent <= 2

Repairable == walk.sent = 1

\* Content that is no proposal is sent back once, with the parser's complaint,
\* unless the deadline of the tier has passed.
Unparsed ==
    /\ walk.at = "asking" /\ ~cancelled
    /\ IF Repairable
       THEN walk' = [walk EXCEPT !.sent = @ + 1, !.unread = @ + 1] /\ UNCHANGED verdict
       ELSE Declined
    /\ Quiet /\ UNCHANGED cassetteVars

\* A proposal: its mode and whether it is degraded are the tier's to say.
LiveStamped(p) == [p EXCEPT !.mode = "LIVE", !.degraded = FALSE]

LiveAnswers ==
    /\ walk.at = "asking" /\ ~cancelled
    /\ \E p \in Contents : Finalize("live", LiveStamped(p))
    /\ Quiet /\ UNCHANGED cassetteVars

\* The corpus has an answer to this question or it has none.
AskReplay ==
    /\ Tier("replay")
    /\ LET d == ContextDigest(asked)
       IN  IF d \in DOMAIN memory[asker]
           THEN Finalize("replay", [memory[asker][d] EXCEPT !.mode = "REPLAY"])
           ELSE Declined
    /\ Quiet /\ UNCHANGED cassetteVars

AskHeuristic ==
    /\ Tier("heuristic")
    /\ Conclude("heuristic", Heuristic(asked))
    /\ Quiet /\ UNCHANGED cassetteVars

\* A tier the caller supplied is believed but for the incident, if it says of
\* what mode its answer is.
AskOwn ==
    /\ Tier("own")
    /\ \/ Declined
       \/ \E p \in Claims : IF p.mode \in Modes
                            THEN Conclude("own", [p EXCEPT !.incident = asked.incident])
                            ELSE Declined
    /\ Quiet /\ UNCHANGED cassetteVars

\* The worker is told to stop, or its time for the incident is over.
Cancel ==
    /\ ~cancelled /\ walk.at \in {"next", "asking"}
    /\ cancelled' = TRUE
    /\ UNCHANGED <<stack, asker, asked, walk, verdict, cassetteVars>>

-----------------------------------------------------------------------------

Unasked ==
    /\ CassettesInit
    /\ walk = Idle /\ cancelled = FALSE
    /\ verdict = [by |-> "none", p |-> AbstainProposal(asked.incident, "SKIPPED")]

DiagnosisInit ==
    /\ stack \in Stacks /\ asker \in Runners /\ asked \in Contexts
    /\ Unasked

\* A stop takes the diagnosis with it.
CorpusMoves ==
    /\ CassettesNext
    /\ IF runner'[asker].at = "down" /\ walk.at # "done"
       THEN walk' = Idle /\ cancelled' = FALSE
       ELSE UNCHANGED <<walk, cancelled>>
    /\ UNCHANGED <<stack, asker, asked, verdict>>

DiagnosisNext ==
    \/ PassBreaker \/ Exhausted \/ AskLive \/ LiveFails \/ Unparsed \/ LiveAnswers
    \/ AskReplay \/ AskHeuristic \/ AskOwn \/ Cancel
    \/ CorpusMoves

DiagnosisSpec == DiagnosisInit /\ [][DiagnosisNext]_<<cassetteVars, diagnosisVars>>

-----------------------------------------------------------------------------
\* What a diagnosis promises

DiagnosisTypeOK ==
    /\ CassettesTypeOK
    /\ walk.at \in {"idle", "next", "asking", "done"} /\ walk.tier \in 0..(Len(stack) + 1)
    /\ verdict.by \in {"none", "breaker", "nobody", "live", "replay", "heuristic", "own"}

\* A proposal says truly which tier it came from, is about the incident asked
\* about, and, unless the caller brought the tier, names a rail on offer: no reply
\* of a model and no file can pass for anything else (live.go, "Provenance is
\* stamped, never accepted"). Rules and abstentions are marked as degraded.
VerdictIsAccountable ==
    walk.at = "done" =>
        LET p == verdict.p IN
        /\ p.incident = asked.incident /\ p.mode \in Modes
        /\ verdict.by # "own" =>
             /\ Acceptable(p, asked)
             /\ (p.mode = "LIVE") <=> (verdict.by = "live")
             /\ (p.mode = "REPLAY") <=> (verdict.by = "replay")
             /\ verdict.by \in {"heuristic", "nobody"} => p.degraded
             /\ p.class \in ClassesKnown

\* A diagnosis asks the model twice at most, the second time about a reply it
\* could not read, and not at all behind an open breaker (live.go, "Diagnose
\* performs at most two round-trips").
TrafficIsBounded ==
    /\ walk.sent <= 1 + walk.unread /\ walk.unread <= 1
    /\ walk.at = "done" /\ verdict.by = "breaker" => walk.sent = 0

\* Contexts the corpus cannot tell apart are contexts the rules do not tell apart:
\* what was recorded for one would have been right for the other.
OneQuestionOneRule ==
    walk.at = "done" /\ verdict.by = "heuristic" =>
        \A dc \in Contexts : ContextDigest(dc) = ContextDigest(asked) =>
            [Heuristic(dc) EXCEPT !.incident = asked.incident] = verdict.p

\* The rules propose nothing their own check refuses (heuristic.go, "Unreachable
\* for the rules above"), and no move where nobody waits or onto the rail that failed.
RulesAreAcceptable ==
    LET p == Classify(asked) IN
    /\ Acceptable(p, asked)
    /\ p.action = "IN_SESSION_RAIL_MORPH" => asked.session /\ p.rail # FailingRail(asked.method)

\* The worker's diagnosis, and the corpus behind it.
DiagnosisSound ==
    /\ DiagnosisTypeOK /\ VerdictIsAccountable /\ TrafficIsBounded
    /\ OneQuestionOneRule /\ RulesAreAcceptable
    /\ OnlyEditsRefuseABoot /\ ReplayedIsOnDisk /\ RecordedRailsAreOffered

=============================================================================
