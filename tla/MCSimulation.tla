---------------------------- MODULE MCSimulation ----------------------------
(***************************************************************************)
(* What the repository judges itself with, in one instance for TLC: the    *)
(* deterministic simulation, the search of its model checker over small    *)
(* graphs, the packing of its states at the corners, and the measures of   *)
(* its laboratory over small corpora.  They never meet in one state: the   *)
(* initial state picks the one that moves.                                 *)
(***************************************************************************)
EXTENDS Simulation, Explorer, Calibration, Laboratory

CONSTANTS i1, i2

VARIABLE part

vars == <<part, simVars, explorerVars, calibrationVars, laboratoryVars>>

\* Two debits of one mandate; one beside a payment in a checkout; a payment
\* whose webhook comes twice.
SomeDraws ==
    {[recurring |-> {i1, i2}, due |-> (i1 :> 1) @@ (i2 :> 1)],
     [recurring |-> {i1}, due |-> (i1 :> 1) @@ (i2 :> 1)],
     [recurring |-> {}, due |-> (i1 :> 2) @@ (i2 :> 0)]}

\* Graphs of at most three edges; of two ceilings one is the lower.
MCSpaces ==
    [seeds   : SUBSET Keys \ {{}},
     edges   : {e \in [Keys -> SUBSET Keys] :
                  /\ \A k \in Keys : k \notin e[k]
                  /\ SumFunction([k \in Keys |-> Cardinality(e[k])]) <= 3},
     answers : {a \in [Keys -> {NoCommand} \cup 0..2] :
                  (\E k \in Keys : a[k] = 2) => \E k \in Keys : a[k] = 1}]

\* No bound, a bound that is met, a bound the seeds can exceed.
MCConfigs ==
    {[states |-> 0, witnesses |-> 1], [states |-> 2, witnesses |-> 0],
     [states |-> 1, witnesses |-> -1]}

MCCorners == {[f \in Fields |-> IF f \in low THEN 0 ELSE SizeOf(f) - 1] : low \in SUBSET Fields}

\* Every corpus of four, and every three tokens of two buckets.
MCCorpora == SeqOf([confidence : Confidences, correct : BOOLEAN], 4)
MCTokenLists == SeqOf([bucket : {1, 2}, sign : {1, -1}, fits : BOOLEAN], 3)

\* Two payments of one issuer in one block of hours and a third elsewhere, which
\* meets the other wait only, or neither.
MCSeen ==
    <<[issuer |-> 1, class |-> 1, hour |-> 0, amount |-> 4],
      [issuer |-> 1, class |-> 2, hour |-> 1, amount |-> 3],
      [issuer |-> 2, class |-> 1, hour |-> 4, amount |-> 2]>>

MCWorlds ==
    [floors : {<<1, 1, 4>>, <<1, 3, 2>>, <<1, 1, 9>>},
     truth  : {[i \in 1..3 |-> (1 :> 1) @@ (4 :> 2)],
               [i \in 1..3 |-> IF i = 2 THEN (1 :> 0) @@ (4 :> 1) ELSE (1 :> 1) @@ (4 :> 1)]}]

MCBelief == [P \in SUBSET Waits |-> IF Cardinality(P) = 2 THEN (1 :> 2) @@ (4 :> 4) ELSE [a \in P |-> 6]]

\* Answers of nothing, of what is no segment, of one segment under two names, of
\* more than a round, of malformed ones and another.
Claim(id, issuer, class, from, to, arm) ==
    [id |-> id, issuer |-> issuer, class |-> class, from |-> from, to |-> to, arm |-> arm]
MCAnswers ==
    {<<>>, <<Claim(1, 0, 0, 0, 0, 4)>>,
     <<Claim(1, 1, 0, 0, 3, 4), Claim(2, 1, 0, 0, 3, 4)>>,
     <<Claim(2, 0, 1, 0, 0, 4), Claim(1, 0, 2, 0, 0, 4), Claim(3, 1, 0, 0, 0, 1)>>,
     <<Claim(1, 0, 0, 0, 2, 1), Claim(2, 3, 0, 0, 0, 1), Claim(3, 2, 0, 0, 24, 7), Claim(4, 1, 0, 0, 24, 4)>>}

\* An idle component has one initial state.
Init ==
    /\ part \in {"simulation", "search", "keys", "corpus", "tokens", "laboratory"}
    /\ SimInit
    /\ part # "simulation" => recurring = {}
    /\ IF part = "search"
       THEN space \in MCSpaces /\ config \in MCConfigs
       ELSE /\ space = [seeds |-> {}, edges |-> [k \in Keys |-> {}], answers |-> [k \in Keys |-> 0]]
            /\ config = [states |-> 0, witnesses |-> 0]
    /\ IF part = "keys" THEN sample \in MCCorners ELSE sample = [f \in Fields |-> 0]
    /\ Seeded
    /\ IF part = "corpus"
       THEN corpus \in Corpora /\ target \in Targets
       ELSE corpus = <<>> /\ target = Max(Targets)
    /\ IF part = "tokens" THEN tokens \in TokenLists ELSE tokens = <<>>
    /\ study = Unstudied
    /\ LaboratoryInit
    /\ part # "laboratory" => logger = "backoff" /\ world = CHOOSE w \in Worlds : TRUE

Next ==
    /\ UNCHANGED part
    /\ \/ part = "simulation" /\ SimNext /\ UNCHANGED <<explorerVars, calibrationVars, laboratoryVars>>
       \/ part = "search" /\ ExplorerNext /\ UNCHANGED <<simVars, calibrationVars, laboratoryVars>>
       \/ part \in {"corpus", "tokens"} /\ CalibrationNext /\ UNCHANGED <<simVars, explorerVars, laboratoryVars>>
       \/ part = "laboratory" /\ LaboratoryNext /\ UNCHANGED <<simVars, explorerVars, calibrationVars>>

Spec == Init /\ [][Next]_vars

\* What each of the other tools claims, where it moves.
ToolsAreSound ==
    /\ part = "search" => SearchSound
    /\ part = "keys" => KeysAreExact
    /\ part \in {"corpus", "tokens"} => CalibrationSound
    /\ part = "laboratory" => LaboratorySound

=============================================================================
