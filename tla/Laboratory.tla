----------------------------- MODULE Laboratory -----------------------------
(***************************************************************************)
(* Policies judged on a log they did not write.  internal/lab runs a       *)
(* policy over a generated world behind the real gate; internal/ope tells  *)
(* from that log what another policy would have earned, or refuses to;     *)
(* internal/mill has a model propose segments to treat differently, and    *)
(* puts every one of them to the test.                                     *)
(*                                                                         *)
(* A policy's probabilities are Shares-ths, an outcome's are halves, an    *)
(* importance weight is over Scale, and every quotient here is exact.      *)
(* What a fitted model predicts for a wait is the rate of that wait among  *)
(* the decisions it was fitted on.  The bootstrap is left out: it reads    *)
(* both ends of an interval off means of resampled terms.                  *)
(***************************************************************************)
EXTENDS Folding, FiniteSetsExt, SequencesExt, Functions

CONSTANTS
    Seen,               \* what a policy sees of the incidents of the world, in
                        \*   order: [issuer, class, hour, amount]
    Waits,              \* the action space, the delays themselves
    Worlds,             \* [floors, truth]: the gate's own delay for each incident,
                        \*   and its recovery probability for each wait, in halves
    GatewayFee,
    Shares,             \* probability 1 of a policy
    Belief,             \* what a frozen learner plays among permitted waits
    Exploration,        \* the least share a learner leaves to each wait
    PropensityFloor,    \* in Shares
    Answers,            \* what a model may answer: sequences of hypotheses
    Issuers, Classes,   \* the closed vocabularies; 0 is "any"
    RoundSize,          \* asked for in a round
    MinCoverage, MinCellPlays, MinArmPlays

ASSUME LaboratoryAssumption ==
    /\ Waits \subseteq Nat \ {0} /\ {Shares, RoundSize, MinCoverage, MinArmPlays} \subseteq Nat \ {0}
    /\ \A n \in 1..Cardinality(Waits) : Shares % n = 0
    /\ 0 \notin Issuers \cup Classes
    /\ \A k \in DOMAIN Seen : Seen[k].issuer \in Issuers /\ Seen[k].class \in Classes

VARIABLES
    world, logger,
    log,                \* the decisions so far, in the order of the incidents
    trial               \* the target under evaluation, or the round under way

laboratoryVars == <<world, logger, log, trial>>

Idle == [at |-> "idle"]

Cases == DOMAIN Seen

-----------------------------------------------------------------------------
(* The world *)

\* applyGate: the waits not shorter than what the gate asks for unaided.
PermittedOf(i) == {a \in Waits : a >= world.floors[i]}

Actionable == SelectSeq([i \in Cases |-> i], LAMBDA i : PermittedOf(i) # {})

Reward(i, recovered) == (IF recovered THEN Seen[i].amount ELSE 0) - GatewayFee

\* ExpectedRewardPaisa, in halves.
ExpectedReward(i, a) == world.truth[i][a] * Seen[i].amount - 2 * GatewayFee

-----------------------------------------------------------------------------
(* Policies: what they play among the waits permitted *)

Backoff(P) == [a \in P |-> IF a = Min(P) THEN Shares ELSE 0]
Uniform(P) == [a \in P |-> Shares \div Cardinality(P)]

\* CheckDistribution.
IsDistribution(d, P) == DOMAIN d = P /\ SumFunction(d) = Shares

\* A learner may believe anything by now, and plays each wait now and then.
Playable(kind, P) ==
    CASE kind = "backoff" -> {Backoff(P)}
      [] kind = "uniform" -> {Uniform(P)}
      [] kind = "frozen"  -> {Belief[P]}
      [] kind = "learner" -> {d \in [P -> Exploration..Shares] : IsDistribution(d, P)}

AllHours(h) == h.from = 0 /\ h.to = 0

\* Hypothesis.Validate.
WellFormed(h) ==
    /\ h.arm \in Waits
    /\ h.issuer \in Issuers \cup {0} /\ h.class \in Classes \cup {0}
    /\ AllHours(h) \/ (h.from >= 0 /\ h.to <= 24 /\ h.from < h.to)
    /\ h.issuer # 0 \/ h.class # 0 \/ ~AllHours(h)

Matches(h, i) ==
    /\ h.issuer \in {0, Seen[i].issuer}
    /\ h.class \in {0, Seen[i].class}
    /\ AllHours(h) \/ Seen[i].hour \in h.from..(h.to - 1)

\* Segment.Distribution: the base's, but in the segment and inside the gate.
SegmentOf(h, i, base) ==
    IF Matches(h, i) /\ h.arm \in DOMAIN base
    THEN [a \in DOMAIN base |-> IF a = h.arm THEN Shares ELSE 0]
    ELSE base

\* What a target plays where the log has its entry e; a segment's base is the
\* log replayed.
TargetAt(target, e) ==
    CASE target.kind = "backoff" -> Backoff(DOMAIN e.dist)
      [] target.kind = "uniform" -> Uniform(DOMAIN e.dist)
      [] target.kind = "segment" -> SegmentOf(target.h, e.case, e.dist)

-----------------------------------------------------------------------------
(* Samples *)

\* FitRewardModel: on the outcomes, whoever took them.
Labels(entries) == [k \in DOMAIN entries |-> [correct |-> entries[k].recovered]]

\* PredictFor: the model that has not seen decision k, in halves.
Prediction(entries, assign, k, a) ==
    LET models == Fitted(entries, assign)
        seen == ModelFor(models, assign, k)
        same == {j \in seen : entries[j].arm = a}
        pool == IF same = {} THEN seen ELSE same
    IN  (2 * Cardinality({j \in pool : entries[j].recovered})) \div Cardinality(pool)

\* Decision k as the estimators see it.  A model is the assignment of its folds;
\* without one the predictions are zero.
SampleOf(entries, k, target, model) ==
    LET e == entries[k]
        t == TargetAt(target, e)
        Predicted(a) == IF model = {} THEN 0
                        ELSE Prediction(entries, CHOOSE m \in model : TRUE, k, a) * Seen[e.case].amount
                             - 2 * GatewayFee
        Mean(d) == SumFunction([a \in DOMAIN d |-> d[a] * Predicted(a)])
    IN  [logged |-> e.dist[e.arm], target |-> t[e.arm], reward |-> Reward(e.case, e.recovered),
         baseline |-> Predicted(e.arm), targetMean |-> Mean(t), loggedMean |-> Mean(e.dist),
         unsupported |-> SumFunction([a \in {b \in DOMAIN t : e.dist[b] = 0} |-> t[a]])]

-----------------------------------------------------------------------------
(* Estimators *)

\* What every propensity divides.
Scale == FoldSet(LAMBDA n, m : n * m, 1, 1..Shares)

WeightOf(s) == (Scale * s.target) \div s.logged

\* A wait the target wants and the log could not have, or hardly could.
Violates(s) == (s.target > 0 /\ s.logged < PropensityFloor) \/ s.unsupported > 0

\* The terms whose means are IPS and DR, over 2 * Shares * Scale.
Level(s, robust) ==
    IF robust
    THEN Scale * s.targetMean + Shares * WeightOf(s) * (2 * s.reward - s.baseline)
    ELSE 2 * Shares * WeightOf(s) * s.reward

\* EvaluateLift: the terms of the difference.
Lift(s, robust) ==
    IF robust
    THEN Scale * (s.targetMean - s.loggedMean) + Shares * (WeightOf(s) - Scale) * (2 * s.reward - s.baseline)
    ELSE 2 * Shares * (WeightOf(s) - Scale) * s.reward

\* snips: the numerator and the denominator.
SNIPS(samples) ==
    [num |-> SumFunction([k \in DOMAIN samples |-> WeightOf(samples[k]) * samples[k].reward]),
     den |-> SumFunction([k \in DOMAIN samples |-> WeightOf(samples[k])])]

\* intervalFrom: an end of the interval is the mean of some resample, so it may
\* lie above zero if a term does, and must if all do.
Significances(terms) ==
    {TRUE : k \in {j \in DOMAIN terms : terms[j] > 0}} \cup
    {FALSE : k \in {j \in DOMAIN terms : terms[j] <= 0}}

Samples(target, model) == [k \in DOMAIN log |-> SampleOf(log, k, target, model)]

-----------------------------------------------------------------------------
(* A round of the mill *)

\* fingerprint: what a hypothesis does, and not what it is called.
Fingerprint(h) == [h EXCEPT !.id = 0]

Dedupe(hs) ==
    FoldLeft(LAMBDA kept, h :
                 IF WellFormed(h) /\ \A k \in DOMAIN kept : Fingerprint(kept[k]) # Fingerprint(h)
                 THEN Append(kept, h) ELSE kept, <<>>, hs)

FirstOf(hs) == SubSeq(hs, 1, Min({RoundSize, Len(hs)}))

\* Model.Propose: the first well-formed ones of the answer.
ModelProposes(answer) == FirstOf(SelectSeq(answer, WellFormed))

\* BuildBrief: the decisions of a cell, if they are enough and more than one
\* wait among them has enough.
Quoted(cell) ==
    {a \in Waits : Cardinality({k \in cell : log[k].arm = a}) >= MinArmPlays}
Evidence(cell) == Cardinality(cell) >= MinCellPlays /\ Cardinality(Quoted(cell)) >= 2

Recoveries(K) == Cardinality({k \in K : log[k].recovered})

\* By how much a wait beats its cell, times the plays of both.
Gain(cell, a) ==
    LET tried == {k \in cell : log[k].arm = a}
    IN  Recoveries(tried) * Cardinality(cell) - Recoveries(cell) * Cardinality(tried)

\* order: the gain of the rate times the root of the evidence, squared here to
\* be compared.
Candidates(proposals) ==
    LET Found == {p \in proposals : Evidence(p.cell) /\ p.h.arm \in Quoted(p.cell) /\ Gain(p.cell, p.h.arm) > 0}
        Tried(p) == Cardinality({k \in p.cell : log[k].arm = p.h.arm})
        Better(p, q) ==
            LET x == Gain(p.cell, p.h.arm)^2 * Tried(q) * Cardinality(q.cell)^2
                y == Gain(q.cell, q.h.arm)^2 * Tried(p) * Cardinality(p.cell)^2
            IN  x > y \/ (x = y /\ p.h.id < q.h.id)
        ranked == SetToSortSeq(Found, Better)
    IN  [n \in DOMAIN ranked |-> ranked[n].h]

\* rankSegmentCandidates: an issuer in a block of three hours.
SegmentCandidates ==
    LET Block(k) == <<Seen[log[k].case].issuer, Seen[log[k].case].hour \div 3>>
        Proposal(b, a) ==
            [cell |-> {j \in DOMAIN log : Block(j) = b},
             h |-> [id |-> b[1] * 1000 + b[2] * 100 + a, issuer |-> b[1], class |-> 0,
                    from |-> 3 * b[2], to |-> 3 * b[2] + 3, arm |-> a]]
    IN  Candidates({Proposal(Block(k), a) : k \in DOMAIN log, a \in Waits})

ClassCandidates ==
    LET Class(k) == Seen[log[k].case].class
        Proposal(c, a) ==
            [cell |-> {j \in DOMAIN log : Class(j) = c},
             h |-> [id |-> c * 100 + a, issuer |-> 0, class |-> c, from |-> 0, to |-> 0, arm |-> a]]
    IN  Candidates({Proposal(Class(k), a) : k \in DOMAIN log, a \in Waits})

\* Two of the fine ones, one of the coarse ones, and on until both run dry.
Interleaved(fine, coarse) ==
    LET Part(s, from, to) == SubSeq(s, from, Min({to, Len(s)}))
    IN  FlattenSeq([r \in 1..(Len(fine) + Len(coarse)) |->
                       Part(fine, 2 * r - 1, 2 * r) \o Part(coarse, r, r)])

HeuristicProposes == FirstOf(Dedupe(Interleaved(SegmentCandidates, ClassCandidates)))

\* ScoreHypothesis: every score it may come to.
ScoresOf(h, model) ==
    LET inside == {k \in DOMAIN log : Matches(h, log[k].case)}
        samples == Samples([kind |-> "segment", h |-> h], model)
        terms == [k \in DOMAIN log |-> Lift(samples[k], model # {})]
        Unscored == [h |-> h, coverage |-> Cardinality(inside), tested |-> FALSE,
                     survived |-> FALSE, effect |-> 0]
    IN  IF Cardinality(inside) < MinCoverage \/ \E k \in DOMAIN log : Violates(samples[k])
        THEN {Unscored}
        ELSE {[Unscored EXCEPT !.tested = TRUE, !.survived = s, !.effect = SumFunction(terms)] :
                  s \in Significances(terms)}

\* RankScores.
Before(x, y) ==
    IF x.survived # y.survived THEN x.survived
    ELSE IF x.effect * y.coverage # y.effect * x.coverage THEN x.effect * y.coverage > y.effect * x.coverage
    ELSE x.h.id < y.h.id

-----------------------------------------------------------------------------
(* Actions *)

\* Run: the next incident, a draw, its outcome.
Run ==
    /\ trial = Idle /\ Len(log) < Len(Actionable)
    /\ LET i == Actionable[Len(log) + 1]
       IN  \E d \in Playable(logger, PermittedOf(i)), a \in PermittedOf(i), recovered \in BOOLEAN :
             /\ d[a] > 0
             /\ IF recovered THEN world.truth[i][a] > 0 ELSE world.truth[i][a] < 2
             /\ log' = Append(log, [case |-> i, arm |-> a, dist |-> d, recovered |-> recovered])
    /\ UNCHANGED <<world, logger, trial>>

Written == trial = Idle /\ log # <<>> /\ Len(log) = Len(Actionable)

\* No model, or one that could be fitted.
Models == {{}} \cup {{m} : m \in IF Trainable(Labels(log)) THEN Assignments(Len(log)) ELSE {}}

\* A model was asked for and cannot be had: no estimate, no round.
FitFails ==
    /\ Written /\ ~Trainable(Labels(log))
    /\ trial' = [at |-> "not fitted"]
    /\ UNCHANGED <<world, logger, log>>

\* ValidateAgainstLog.
ValidateAgainstLog ==
    /\ Written
    /\ \E kind \in {"backoff", "uniform"}, model \in Models :
        LET target == [kind |-> kind]
            refused == \E k \in DOMAIN log : Violates(Samples(target, model)[k])
        IN  trial' = [at |-> IF refused THEN "refused" ELSE "estimated", target |-> target, model |-> model]
    /\ UNCHANGED <<world, logger, log>>

\* mill.Run, down to the first test: without an answer the heuristic proposes.
Propose ==
    /\ Written
    /\ \E answer \in Answers, model \in Models :
        LET usable == ModelProposes(answer)
            proposals == Dedupe(IF usable = <<>> THEN HeuristicProposes ELSE usable)
        IN  trial' = IF proposals = <<>> THEN [at |-> "no proposals"]
                     ELSE [at |-> "testing", degraded |-> usable = <<>>, tested |-> Len(proposals),
                           left |-> proposals, model |-> model, scores |-> <<>>]
    /\ UNCHANGED <<world, logger, log>>

Score ==
    /\ trial.at = "testing" /\ trial.left # <<>>
    /\ \E score \in ScoresOf(Head(trial.left), trial.model) :
        trial' = [trial EXCEPT !.left = Tail(@), !.scores = Append(@, score)]
    /\ UNCHANGED <<world, logger, log>>

Rank ==
    /\ trial.at = "testing" /\ trial.left = <<>>
    /\ trial' = [trial EXCEPT !.at = "ranked", !.scores = SortSeq(@, Before)]
    /\ UNCHANGED <<world, logger, log>>

LaboratoryInit ==
    /\ world \in {w \in Worlds : \E i \in Cases : \E a \in Waits : a >= w.floors[i]}
    /\ logger \in {"backoff", "uniform", "frozen", "learner"}
    /\ log = <<>> /\ trial = Idle

LaboratoryNext == Run \/ FitFails \/ ValidateAgainstLog \/ Propose \/ Score \/ Rank

-----------------------------------------------------------------------------
(* Properties *)

\* What else decision k could have come to, over 2 * Shares.
Alternatives(k) ==
    {[log[k] EXCEPT !.arm = a, !.recovered = r] :
        a \in {b \in DOMAIN log[k].dist : log[k].dist[b] > 0}, r \in BOOLEAN}
Chance(e) ==
    e.dist[e.arm] * (IF e.recovered THEN world.truth[e.case][e.arm] ELSE 2 - world.truth[e.case][e.arm])
Expected(k, f(_)) == SumFunction([e \in Alternatives(k) |-> Chance(e) * f([log EXCEPT ![k] = e])])

\* ExactValue: what a distribution is worth at an incident.
Worth(i, d) == SumFunction([a \in DOMAIN d |-> d[a] * ExpectedReward(i, a)])

\* ErrNoOverlap, "the estimand does not exist in this data": a policy is estimated
\* only if the log could have taken, on its very incidents, whatever it would take.
EstimatedIsIdentified ==
    trial.at = "estimated" =>
       \A k \in DOMAIN log :
          LET t == TargetAt(trial.target, log[k])
          IN  /\ IsDistribution(t, PermittedOf(log[k].case))
              /\ \A a \in DOMAIN t : t[a] > 0 => log[k].dist[a] > 0

\* Over what a decision could have come to, the terms of IPS, of DR and of both
\* differences are worth what the target is, or is worth beyond the log: whatever the
\* model says, if it was fitted without the decision ("LiftDoublyRobust ... needs a
\* cross-fitted model").  For a decision none of whose outcomes is refused; and for
\* DR, a logger whose later decisions do not hang on this outcome.
EstimatesAreUnbiased ==
    trial.at = "estimated" =>
       \A k \in DOMAIN log :
          LET e == log[k]
              t == TargetAt(trial.target, e)
              robust == trial.model # {}
              Sample(l) == SampleOf(l, k, trial.target, trial.model)
              fair == /\ \A x \in Alternatives(k) : ~Violates(Sample([log EXCEPT ![k] = x]))
                      /\ robust => /\ logger # "learner"
                                   /\ \A x \in Alternatives(k) : Trainable(Labels([log EXCEPT ![k] = x]))
              unit == 2 * Shares * Scale
          IN  fair =>
                 /\ Expected(k, LAMBDA l : Level(Sample(l), robust)) = unit * Worth(e.case, t)
                 /\ Expected(k, LAMBDA l : Lift(Sample(l), robust)) =
                       unit * (Worth(e.case, t) - Worth(e.case, e.dist))

\* snips, "stays inside the observed reward range ... cannot claim a recovery larger
\* than any recovery that happened", where the target shares any traffic with the log.
SNIPSClaimsNoMore ==
    trial.at = "estimated" =>
       LET samples == Samples(trial.target, {})
           shared == {samples[k].reward : k \in {j \in DOMAIN log : samples[j].target > 0}}
           s == SNIPS(samples)
       IN  shared # {} => /\ s.num <= Max(shared) * s.den
                          /\ s.num >= Min(shared) * s.den

\* EvaluateLift, "outside the region the candidate changes, both terms are exactly
\* zero": a segment's lift is read off the segment alone, and survives only on a
\* decision the change would have touched and, with its evidence, favours it.
SegmentIsReadAlone ==
    trial.at \in {"testing", "ranked"} =>
       \A n \in DOMAIN trial.scores :
          LET score == trial.scores[n]
              touched == {k \in DOMAIN log : Matches(score.h, log[k].case) /\ score.h.arm \in DOMAIN log[k].dist}
              Term(k) == Lift(SampleOf(log, k, [kind |-> "segment", h |-> score.h], trial.model), trial.model # {})
          IN  score.tested =>
                 /\ \A k \in DOMAIN log \ touched : Term(k) = 0
                 /\ score.survived => \E k \in touched : Term(k) > 0

\* Run, "report every verdict": the family's error is divided by as many tests as are
\* made, no segment is tested twice under two names, none of fewer decisions than a
\* test is worth survives, and the survivors come first.
RoundIsAccountedFor ==
    trial.at \in {"testing", "ranked"} =>
       LET scores == trial.scores
       IN  /\ trial.tested = Len(scores) + Len(trial.left) /\ trial.tested <= RoundSize
           /\ \A m, n \in DOMAIN scores :
                m # n => Fingerprint(scores[m].h) # Fingerprint(scores[n].h)
           /\ \A n \in DOMAIN scores :
                scores[n].survived => scores[n].tested /\ scores[n].coverage >= MinCoverage
           /\ trial.at = "ranked" =>
                \A m, n \in DOMAIN scores : m < n /\ scores[n].survived => scores[m].survived

\* The heuristic proposer "finds real structure": in the log, the segment as the test
\* will match it has the evidence asked for and does better on the wait it names.
HeuristicIsGrounded ==
    trial.at = "testing" /\ trial.degraded =>
       \A n \in DOMAIN trial.left :
          LET h == trial.left[n]
              inside == {k \in DOMAIN log : Matches(h, log[k].case)}
          IN  Cardinality(inside) >= MinCellPlays /\ Gain(inside, h.arm) > 0

LaboratorySound ==
    /\ EstimatedIsIdentified /\ EstimatesAreUnbiased /\ SNIPSClaimsNoMore
    /\ SegmentIsReadAlone /\ RoundIsAccountedFor /\ HeuristicIsGrounded

=============================================================================
