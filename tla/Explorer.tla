------------------------------ MODULE Explorer ------------------------------
(***************************************************************************)
(* The search of the repository's own model checker (internal/modelcheck): *)
(* RunContext, breadth first over whatever graph the gate's answers span,  *)
(* under a bound on the states and another on the witnesses it keeps, and  *)
(* the packing of an abstract state into the key it is ordered by.         *)
(*                                                                         *)
(* Module Cycle has the transition system itself; here a state is a key,   *)
(* and what the gate answers there, and where that leads, is arbitrary.  Of*)
(* the nine invariants the one that remembers is kept: InvAttemptCap wants *)
(* of every command the ceiling the first one declared.                    *)
(***************************************************************************)
EXTENDS Integers, Sequences, FiniteSets, SequencesExt, TLC

CONSTANTS
    Keys,               \* packed states, naturals
    DefaultMaxStates, DefaultMaxWitnesses,
    CancelStride        \* visits between two looks at the context

ASSUME ExplorerAssumption ==
    /\ Keys \subseteq Nat /\ IsFiniteSet(Keys)
    /\ {DefaultMaxStates, DefaultMaxWitnesses, CancelStride} \subseteq Nat \ {0}

VARIABLES
    space,              \* [seeds, edges, answers]: the initial states, where each
                        \*   leads, the attempt ceiling declared there or NoCommand
    config,             \* [states, witnesses]: the bounds asked for
    frontier, head,     \* the queue of keys, and the next one to visit
    bounded,            \* whether a state has been turned away
    maxAttempts,        \* the ceiling declared first, 0 before
    checked, counts,    \* evaluations and violations of each property
    witnesses,          \* the violations that were kept, in order
    transitions,
    outcome,            \* "running", "cancelled" or "reported"
    sample              \* an abstract state, for the packing

searchVars == <<frontier, head, bounded, maxAttempts, checked, counts, witnesses, transitions, outcome>>
explorerVars == <<space, config, searchVars, sample>>

-----------------------------------------------------------------------------
(* State.Key *)

\* The fields from the high bits to the low ones, with their width and how many
\* values they have.
Layout ==
    <<[name |-> "recurring", bits |-> 1, size |-> 2], [name |-> "category", bits |-> 2, size |-> 4],
      [name |-> "amount", bits |-> 3, size |-> 6],    [name |-> "attempts", bits |-> 3, size |-> 5],
      [name |-> "hours", bits |-> 4, size |-> 10],    [name |-> "notified", bits |-> 1, size |-> 2],
      [name |-> "halted", bits |-> 1, size |-> 2],    [name |-> "breaker", bits |-> 2, size |-> 3],
      [name |-> "session", bits |-> 1, size |-> 2],   [name |-> "proposal", bits |-> 3, size |-> 7],
      [name |-> "delay", bits |-> 2, size |-> 4]>>

Fields == {Layout[k].name : k \in DOMAIN Layout}
SizeOf(f) == (CHOOSE l \in {Layout[k] : k \in DOMAIN Layout} : l.name = f).size

Key(s) == FoldLeft(LAMBDA k, f : k * 2^f.bits + s[f.name], 0, Layout)

\* From the low bits up.
StateFromKey(key) ==
    FoldRight(LAMBDA f, acc : [rest  |-> acc.rest \div 2^f.bits,
                               state |-> acc.state @@ (f.name :> acc.rest % 2^f.bits)],
              Layout, [rest |-> key, state |-> <<>>]).state

Valid(s) == \A f \in Fields : s[f] < SizeOf(f)

AbstractStateCount == FoldLeft(LAMBDA n, f : n * f.size, 1, Layout)

-----------------------------------------------------------------------------
(* RunContext *)

\* The gate has returned an error, and no command with a ceiling.
NoCommand == -1

\* withDefaults: nothing asked for is the default, less than none is none.
Bounds ==
    [states    |-> IF config.states <= 0 THEN DefaultMaxStates ELSE config.states,
     witnesses |-> CASE config.witnesses = 0 -> DefaultMaxWitnesses
                     [] config.witnesses < 0 -> 0
                     [] OTHER -> config.witnesses]

Visited == {frontier[k] : k \in DOMAIN frontier}

Ascending(keys) == SetToSortSeq(keys, <)

\* The bound holds for the seeds as well.
Seeded ==
    /\ frontier = SubSeq(Ascending(space.seeds), 1, Min({Bounds.states, Cardinality(space.seeds)}))
    /\ bounded = (Cardinality(space.seeds) > Bounds.states)
    /\ head = 1 /\ maxAttempts = 0 /\ witnesses = <<>> /\ transitions = 0
    /\ checked = [attempt_cap |-> 0, gate_error |-> 0] /\ counts = checked
    /\ outcome = "running"

\* recordWitness: so many of each property, the first ones.
Witnessed(property, key) ==
    IF Len(SelectSeq(witnesses, LAMBDA w : w.property = property)) >= Bounds.witnesses
    THEN witnesses
    ELSE Append(witnesses, [property |-> property, key |-> key])

\* appendState drops what stays, and the rest is sorted and without repetition.
Successors(key) == Ascending(space.edges[key] \ {key})

\* A state turned away without a word.
AdmitQuietly(acc, key) ==
    IF key \in {acc.frontier[k] : k \in DOMAIN acc.frontier} \/ Len(acc.frontier) >= Bounds.states
    THEN acc
    ELSE [acc EXCEPT !.frontier = Append(@, key)]

\* A state that is new, while there is room for one.
Admit(acc, key) ==
    CASE key \in {acc.frontier[k] : k \in DOMAIN acc.frontier} -> acc
      [] Len(acc.frontier) >= Bounds.states -> [acc EXCEPT !.bounded = TRUE]
      [] OTHER -> [acc EXCEPT !.frontier = Append(@, key)]

\* The ceiling is positive, and the one declared first.
BreaksCap(declared, first) == declared <= 0 \/ (first > 0 /\ declared # first)

\* The gate has failed, not abstained: the state is a violation, and leads nowhere.
Fail(key) ==
    /\ space.answers[key] = NoCommand
    /\ counts' = [counts EXCEPT !.gate_error = @ + 1]
    /\ checked' = [checked EXCEPT !.gate_error = @ + 1]
    /\ witnesses' = Witnessed("gate_error", key)
    /\ UNCHANGED <<frontier, bounded, maxAttempts, transitions>>

\* The invariants are asserted of the command; then on to where it leads.
Check(key) ==
    /\ space.answers[key] # NoCommand
    /\ LET declared == space.answers[key]
           first == IF maxAttempts = 0 /\ declared > 0 THEN declared ELSE maxAttempts
           after == FoldLeft(Admit, [frontier |-> frontier, bounded |-> bounded], Successors(key))
       IN  /\ maxAttempts' = first
           /\ IF BreaksCap(declared, first)
              THEN /\ counts' = [counts EXCEPT !.attempt_cap = @ + 1]
                   /\ witnesses' = Witnessed("attempt_cap", key)
              ELSE UNCHANGED <<counts, witnesses>>
           /\ frontier' = after.frontier /\ bounded' = after.bounded
    /\ checked' = [p \in DOMAIN checked |-> checked[p] + 1]
    /\ transitions' = transitions + Len(Successors(key))

Visit ==
    /\ outcome = "running" /\ head <= Len(frontier)
    /\ head' = head + 1
    /\ Fail(frontier[head]) \/ Check(frontier[head])
    /\ UNCHANGED outcome

\* The context is looked at once in a stride; there is no report then.
Cancel ==
    /\ outcome = "running" /\ head <= Len(frontier)
    /\ (head - 1) % CancelStride = 0
    /\ outcome' = "cancelled"
    /\ UNCHANGED <<frontier, head, bounded, maxAttempts, checked, counts, witnesses, transitions>>

Report ==
    /\ outcome = "running" /\ head > Len(frontier)
    /\ outcome' = "reported"
    /\ UNCHANGED <<frontier, head, bounded, maxAttempts, checked, counts, witnesses, transitions>>

\* Passed is silent about what was not visited; Complete says that nothing was left.
Clean == counts.attempt_cap + counts.gate_error = 0
Complete == ~bounded

ExplorerNext == (Visit \/ Cancel \/ Report) /\ UNCHANGED <<space, config, sample>>

-----------------------------------------------------------------------------
(* Properties *)

ExplorerTypeOK ==
    /\ frontier \in Seq(Keys) /\ head \in 1..(Len(frontier) + 1)
    /\ bounded \in BOOLEAN /\ transitions \in Nat
    /\ maxAttempts \in 0..Max({space.answers[k] : k \in Keys} \cup {0})
    /\ \A p \in DOMAIN checked : counts[p] <= checked[p]
    /\ outcome \in {"running", "cancelled", "reported"}

\* Where a run of the system can get in so many steps: not past a gate that fails.
Layers ==
    LET onward(keys) == UNION {space.edges[k] : k \in {l \in keys : space.answers[l] # NoCommand}}
    IN  FoldLeft(LAMBDA layers, n : Append(layers, Last(layers) \cup onward(Last(layers))),
                 <<space.seeds>>, [n \in 1..Cardinality(Keys) |-> n])
Reachable == Last(Layers)
Depth(key) == CHOOSE n \in DOMAIN Layers : key \in Layers[n] /\ \A m \in 1..(n - 1) : key \notin Layers[m]

\* bfs.go, "Complete reports whether the exploration ran to fixpoint" and "Passed
\* reports whether every asserted property held at every state the run visited":
\* a report is complete exactly when it visited whatever can be reached, and a
\* complete one that passed means that everywhere the gate decides, and declares one
\* and the same positive ceiling.
CompleteMeansAll ==
    outcome = "reported" =>
       /\ Complete <=> Visited = Reachable
       /\ Complete /\ Clean =>
             maxAttempts > 0 /\ \A k \in Reachable : space.answers[k] = maxAttempts

\* Every state is decided once, no more of them than were asked for, and what is
\* counted is what there is: decisions, commands, edges, violations.
CountsAreExact ==
    outcome = "reported" =>
       LET decided == {k \in Visited : space.answers[k] # NoCommand}
       IN  /\ IsInjective(frontier) /\ Len(frontier) <= Bounds.states
           /\ checked = [attempt_cap |-> Cardinality(decided), gate_error |-> Cardinality(Visited)]
           /\ counts.gate_error = Cardinality(Visited \ decided)
           /\ counts.attempt_cap =
                Cardinality({k \in decided : BreaksCap(space.answers[k], maxAttempts)})
           /\ transitions = SumFunctionOnSet([k \in Keys |-> Cardinality(space.edges[k] \ {k})], decided)

\* recordWitness, "BFS order is deterministic, so 'the first MaxWitnesses' is a
\* stable selection": a failure of the gate that is kept is one of the nearest there
\* are, bounded or not, and none is kept while a nearer one is not.
NearestFirst ==
    \A w \in {witnesses[k] : k \in DOMAIN witnesses} : w.property = "gate_error" =>
       \A k \in Reachable :
          space.answers[k] = NoCommand /\ Depth(k) < Depth(w.key) =>
             \E v \in {witnesses[j] : j \in DOMAIN witnesses} : v.key = k

SearchSound == ExplorerTypeOK /\ CompleteMeansAll /\ CountsAreExact /\ NearestFirst

\* No two states share a key, and each comes back from its own: slices.Compact over
\* the seeds, and the visited set, would drop the second without a word.
KeysAreExact ==
    /\ Valid(sample) /\ StateFromKey(Key(sample)) = sample
    /\ Key(sample) \in 0..(2^23 - 1)

=============================================================================
