----------------------------- MODULE Calibration -----------------------------
(***************************************************************************)
(* What a stated probability is worth: internal/calib measures a corpus of *)
(* predictions and their outcomes, corrects it by isotonic regression and  *)
(* finds the threshold that buys an accuracy; internal/reward fits the     *)
(* model the estimates of a policy lean on, a fold at a time, and ranks it.*)
(*                                                                         *)
(* One analyst asks one question of one corpus.  A confidence is a number  *)
(* of Units-ths; the instance has Units divisible by whatever a mean is    *)
(* taken over, so every division here is exact.  A fitted reward model is  *)
(* the examples it has seen; its weights are left out.                     *)
(***************************************************************************)
EXTENDS Folding, FiniteSetsExt, SequencesExt, Functions

CONSTANTS
    Units,              \* confidence 1
    Confidences,        \* those a prediction states
    Corpora,            \* sequences of [confidence, correct]
    Targets,            \* accuracies asked for, in Units
    Bins,
    MaxFeatures,        \* tokens of an example that are read
    TokenLists          \* sequences of [bucket, sign, fits]: what a token hashes to

ASSUME CalibrationAssumption ==
    /\ {Units, Bins} \subseteq Nat \ {0} /\ Bins >= 2
    /\ Confidences \subseteq 0..Units /\ Targets \subseteq 1..Units
    /\ \A c \in Corpora : /\ \A k \in DOMAIN c : c[k].confidence \in Confidences
                          /\ \A w \in 1..Len(c) : Units % w = 0

VARIABLES corpus, target, tokens, study

calibrationVars == <<corpus, target, tokens, study>>

Unstudied == [kind |-> "none"]
Refused == [kind |-> "refused"]

-----------------------------------------------------------------------------
(* measure *)

\* The last bin is closed at 1.
BinOf(o) == Min({(o.confidence * Bins) \div Units, Bins - 1})

Correct(o) == IF o.correct THEN 1 ELSE 0
Total(obs, f(_)) == FoldSeq(LAMBDA o, n : f(o) + n, 0, obs)

\* By bin, how many there are, what they claim together, how many are correct.
Diagram(obs) ==
    [b \in 0..(Bins - 1) |->
       LET here == SelectSeq(obs, LAMBDA o : BinOf(o) = b)
       IN  [count |-> Len(here), claim |-> Total(here, LAMBDA o : o.confidence),
            hits |-> Total(here, Correct)]]

\* The gap of a bin, times its count.
Gap(bin) == bin.claim - Units * bin.hits

\* The expected calibration error, times Units and the size of the corpus.
ECE(obs) == SumFunction([b \in 0..(Bins - 1) |->
                            IF Gap(Diagram(obs)[b]) < 0 THEN -Gap(Diagram(obs)[b]) ELSE Gap(Diagram(obs)[b])])

\* The Brier score and the terms of Murphy's decomposition, each over Units^3 and
\* the cube of the size of the corpus.
Decomposition(obs) ==
    LET n == Len(obs)
        hits == Total(obs, Correct)
        full == {b \in 0..(Bins - 1) : Diagram(obs)[b].count > 0}
        Over(f(_)) == SumFunction([b \in full |-> f(Diagram(obs)[b]) * (Units \div Diagram(obs)[b].count)])
    IN  [brier       |-> n^2 * Units * Total(obs, LAMBDA o : (o.confidence - Units * Correct(o))^2),
         reliability |-> n^2 * Over(LAMBDA bin : Gap(bin)^2),
         resolution  |-> Units^2 * Over(LAMBDA bin : (n * bin.hits - bin.count * hits)^2),
         uncertainty |-> n * Units^3 * hits * (n - hits)]

-----------------------------------------------------------------------------
(* Isotonic regression *)

\* One point for each confidence stated, in order.
Points(obs) ==
    [k \in 1..Cardinality({obs[j].confidence : j \in DOMAIN obs}) |->
       LET x == SetToSortSeq({obs[j].confidence : j \in DOMAIN obs}, <)[k]
           here == SelectSeq(obs, LAMBDA o : o.confidence = x)
       IN  [upper |-> x, sum |-> Total(here, Correct), weight |-> Len(here)]]

\* The last two blocks, if they run downhill.
Merge(blocks) ==
    IF Len(blocks) < 2 THEN blocks
    ELSE LET last == blocks[Len(blocks)]
             prev == blocks[Len(blocks) - 1]
         IN  IF prev.sum * last.weight <= last.sum * prev.weight THEN blocks
             ELSE Append(SubSeq(blocks, 1, Len(blocks) - 2),
                         [upper |-> last.upper, sum |-> prev.sum + last.sum,
                          weight |-> prev.weight + last.weight])

Push(blocks, point) ==
    FoldLeft(LAMBDA bs, n : Merge(bs), Append(blocks, point), [n \in DOMAIN blocks |-> n])

\* Fit: the steps of the calibrator.
Calibrator(obs) ==
    LET blocks == FoldLeft(Push, <<>>, Points(obs))
    IN  [k \in DOMAIN blocks |->
           [upper |-> blocks[k].upper, value |-> (Units * blocks[k].sum) \div blocks[k].weight]]

\* The first step that reaches so far, or the last.
Apply(steps, confidence) ==
    LET reach == {k \in DOMAIN steps : steps[k].upper >= confidence}
    IN  steps[IF reach = {} THEN Len(steps) ELSE Min(reach)].value

Recalibrated(obs, steps) == [k \in DOMAIN obs |-> [obs[k] EXCEPT !.confidence = Apply(steps, @)]]

-----------------------------------------------------------------------------
(* Folds *)

\* What a fold is fitted on: the others.
Others(obs, assign, fold) ==
    LET kept == SelectSeq([k \in DOMAIN obs |-> k], LAMBDA k : assign[k] # fold)
    IN  [j \in DOMAIN kept |-> obs[kept[j]]]

\* FitAndMeasure: every observation corrected without it.
Corrected(obs, assign) ==
    [k \in DOMAIN obs |->
       [obs[k] EXCEPT !.confidence = Apply(Calibrator(Others(obs, assign, assign[k])), @)]]

-----------------------------------------------------------------------------
(* Thresholds *)

\* AccuracyAt.
Accepting(obs, threshold) ==
    LET taken == SelectSeq(obs, LAMBDA o : o.confidence >= threshold)
    IN  [confidence |-> threshold, accepted |-> Len(taken), correct |-> Total(taken, Correct)]

\* From the highest confidence down, judged at the end of a run of equal ones; the
\* last that meets the target stays.
Sweep(obs, wanted) ==
    LET sorted == SortSeq(obs, LAMBDA a, b : a.confidence > b.confidence)
        Ends(k) == k = Len(sorted) \/ sorted[k + 1].confidence # sorted[k].confidence
        right(k) == Total(SubSeq(sorted, 1, k), Correct)
        met == {k \in DOMAIN sorted : Ends(k) /\ Units * right(k) >= wanted * k}
    IN  IF met = {} THEN {}
        ELSE {[confidence |-> sorted[Max(met)].confidence, accepted |-> Max(met),
               correct |-> right(Max(met))]}

-----------------------------------------------------------------------------
(* The reward model *)

\* Average ranks from below, the corpus's confidences being what the models
\* predict; twice as large, to stay whole.
Rank2(obs, k) ==
    LET below == {j \in DOMAIN obs : obs[j].confidence < obs[k].confidence}
        level == {j \in DOMAIN obs : obs[j].confidence = obs[k].confidence}
    IN  2 * Cardinality(below) + Cardinality(level) + 1

\* Twice the numerator of the area under the ROC.
AUC2(obs) ==
    LET good == {k \in DOMAIN obs : obs[k].correct}
        n == Cardinality(good)
    IN  SumFunction([k \in good |-> Rank2(obs, k)]) - n * (n + 1)

\* The first token of each bucket, among the first so many that fit.
Features(list) ==
    FoldLeft(LAMBDA kept, k :
               IF /\ k <= MaxFeatures /\ list[k].fits
                  /\ \A j \in DOMAIN kept : kept[j].bucket # list[k].bucket
               THEN Append(kept, [bucket |-> list[k].bucket, sign |-> list[k].sign])
               ELSE kept,
             <<>>, [k \in DOMAIN list |-> k])

-----------------------------------------------------------------------------
(* The questions *)

Measure ==
    /\ corpus # <<>>
    /\ study' = [kind |-> "measured", ece |-> ECE(corpus)] @@ Decomposition(corpus)

\* Two observations to a fold, at least.
FitAndMeasure ==
    IF Len(corpus) < 2 * Folds THEN study' = Refused
    ELSE \E assign \in Assignments(Len(corpus)) :
           study' = [kind |-> "repaired", steps |-> Calibrator(corpus), assign |-> assign,
                     before |-> ECE(corpus), after |-> ECE(Corrected(corpus, assign)),
                     inSample |-> ECE(Recalibrated(corpus, Calibrator(corpus)))]

ThresholdFor ==
    /\ corpus # <<>>
    /\ study' = [kind |-> "threshold", found |-> Sweep(corpus, target)]

CrossFit ==
    IF ~Trainable(corpus) THEN study' = Refused
    ELSE \E assign \in Assignments(Len(corpus)) :
           study' = [kind |-> "fitted", assign |-> assign, models |-> Fitted(corpus, assign),
                     auc2 |-> AUC2(corpus)]

Predict == study' = [kind |-> "read", features |-> Features(tokens)]

CalibrationInit ==
    /\ corpus \in Corpora /\ target \in Targets /\ tokens \in TokenLists
    /\ study = Unstudied

CalibrationNext ==
    /\ study = Unstudied
    /\ Measure \/ FitAndMeasure \/ ThresholdFor \/ CrossFit \/ Predict
    /\ UNCHANGED <<corpus, target, tokens>>

-----------------------------------------------------------------------------
(* Properties *)

\* Fit, "the least-squares monotone step function": the fitted value at a confidence
\* is the largest, over where a run to the right may begin, of the smallest mean of
\* such a run; the values rise; and what it is fitted on, it corrects to the unit.
IsotonicIsExact ==
    study.kind = "repaired" =>
       LET stated == {corpus[k].confidence : k \in DOMAIN corpus}
           Mean(a, b) == LET run == SelectSeq(corpus, LAMBDA o : a <= o.confidence /\ o.confidence <= b)
                         IN  (Units * Total(run, Correct)) \div Len(run)
       IN  /\ \A x \in stated :
                Apply(study.steps, x) =
                   Max({Min({Mean(a, b) : b \in {y \in stated : y >= x}}) : a \in {y \in stated : y <= x}})
           /\ \A x, y \in 0..Units : x <= y => Apply(study.steps, x) <= Apply(study.steps, y)
           /\ study.inSample = 0

\* "the correction applied to each observation was fitted without it": had its
\* outcome been the other one, its correction would be the same.
CorrectionIsHonest ==
    study.kind = "repaired" =>
       \A k \in DOMAIN corpus :
          LET other == [corpus EXCEPT ![k].correct = ~@]
          IN  Corrected(other, study.assign)[k].confidence = Corrected(corpus, study.assign)[k].confidence

\* TestBrierDecompositionIsAnIdentity, "an identity, not an approximation, when the
\* forecast is constant inside each bin", and every observation is in one bin.
MurphyIsAnIdentity ==
    study.kind = "measured" =>
       /\ SumFunction([b \in 0..(Bins - 1) |-> Diagram(corpus)[b].count]) = Len(corpus)
       /\ (\A j, k \in DOMAIN corpus :
              BinOf(corpus[j]) = BinOf(corpus[k]) => corpus[j].confidence = corpus[k].confidence)
          => study.brier = study.reliability - study.resolution + study.uncertainty

\* ThresholdFor, "the lowest confidence at which accepted predictions reach the
\* target accuracy": no lower one in the corpus does, it is refused only when none
\* does, and the deployed threshold delivers what it was sold for.
ThresholdIsLowest ==
    study.kind = "threshold" =>
       LET reaching == {x \in {corpus[k].confidence : k \in DOMAIN corpus} :
                          Units * Accepting(corpus, x).correct >= target * Accepting(corpus, x).accepted}
       IN  study.found = IF reaching = {} THEN {} ELSE {Accepting(corpus, Min(reaching))}

\* CrossFit, "every prediction comes from a model that never saw that example", and
\* no model has seen nothing; the area under the ROC is the share of pairs of a
\* success and a failure that are ranked so, a tie being one half.
RewardIsHonest ==
    study.kind = "fitted" =>
       /\ \A k \in DOMAIN corpus : LET m == ModelFor(study.models, study.assign, k) IN k \notin m /\ m # {}
       /\ LET good == {k \in DOMAIN corpus : corpus[k].correct}
              bad == DOMAIN corpus \ good
              ahead == {p \in good \X bad : corpus[p[1]].confidence > corpus[p[2]].confidence}
              level == {p \in good \X bad : corpus[p[1]].confidence = corpus[p[2]].confidence}
          IN  study.auc2 = 2 * Cardinality(ahead) + Cardinality(level)

\* Example, "order does not matter and duplicates are counted once": so it is of
\* lists that are not cut and in which no bucket is shared by two tokens.
OrderDoesNotMatter ==
    study.kind = "read" /\ Len(tokens) <= MaxFeatures
    /\ (\A j, k \in DOMAIN tokens :
           tokens[j].bucket = tokens[k].bucket => tokens[j].sign = tokens[k].sign) =>
       \A p \in Permutations(DOMAIN tokens) :
          LET read == Features([k \in DOMAIN tokens |-> tokens[p[k]]])
          IN  Len(read) = Len(study.features) /\ Range(read) = Range(study.features)

CalibrationSound ==
    /\ IsotonicIsExact /\ CorrectionIsHonest /\ MurphyIsAnIdentity
    /\ ThresholdIsLowest /\ RewardIsHonest /\ OrderDoesNotMatter

\* Not so: ErrDegenerate, "the most common way a reward model silently poisons a
\* doubly-robust estimate", is looked for in the whole set and not in what a fold is
\* fitted on.
FoldsAreMixed ==
    study.kind = "fitted" =>
       \A f \in DOMAIN study.models :
          \E j, k \in study.models[f] : corpus[j].correct # corpus[k].correct

\* Not so when two tokens share a bucket: the first one's sign counts.
AnyOrder ==
    study.kind = "read" =>
       \A p \in Permutations(DOMAIN tokens) :
          Range(Features([k \in DOMAIN tokens |-> tokens[p[k]]])) = Range(study.features)

=============================================================================
