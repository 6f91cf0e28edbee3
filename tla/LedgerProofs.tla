---------------------------- MODULE LedgerProofs ----------------------------
(***************************************************************************)
(* Theorems about the audit ledger (Ledger) and about the mandate commands *)
(* that go on record in it (Mandate).                                      *)
(*                                                                         *)
(*   LedgerTyped          the variables of the ledger keep their types     *)
(*   LedgerIsSound        appends neither fork nor lose an entry, and the  *)
(*                        walk tells what was changed behind the ledger    *)
(*   MandateTyped         the mandate and its copies keep their types      *)
(*   LedgerUnderCommands  LedgerSound, when commands append as well        *)
(*   Recorded             a command that takes effect is in the chain      *)
(*                                                                         *)
(* First come facts about any set of rows and the walk over it, down to    *)
(* "two chains that verify and share a head share their history"; then the *)
(* invariant of the appenders, action by action; then the commands.        *)
(***************************************************************************)
EXTENDS Mandate, FiniteSetTheorems, WellFoundedInduction, TLAPS

-----------------------------------------------------------------------------
(* Rows, and the walk over them *)

IsRow(r) ==
    /\ r = [seq |-> r.seq, content |-> r.content, prev |-> r.prev, hash |-> r.hash]
    /\ EntrySeen(r) /\ r.hash[1] = r.seq

Numbered(set) ==
    /\ IsFiniteSet(set) /\ \A r \in set : IsRow(r)
    /\ \A q, r \in set : q.seq = r.seq => q = r

LEMMA Constants ==
    /\ Stored \in [Contents -> Contents] /\ \A c \in Contents : Stored[Stored[c]] = Stored[c]
    /\ MaxEntries \in Nat /\ MaxEdits \in Nat /\ Operators \subseteq Procs
    /\ Nobody \notin Procs
  BY LedgerAssumption, MandateAssumption DEF Nobody

LEMMA RowFields ==
    ASSUME NEW r, IsRow(r)
    PROVE  r.seq \in Nat /\ r.seq >= 1 /\ r.seq <= MaxEntries /\ r.content \in Contents
  BY Constants DEF IsRow, EntrySeen

LEMMA LeastNatural ==
    ASSUME NEW T \in SUBSET Nat, T # {}
    PROVE  \E x \in T : \A y \in T : x <= y
<1>1. PICK x \in T : \A y \in T : ~(<<y, x>> \in OpToRel(<, Nat))
  BY WFMin, NatLessThanWellFounded
<1>2. \A y \in T : ~(y < x)
  BY <1>1 DEF OpToRel
<1>. QED
  BY <1>2

Below(set, r) == {q \in set : q.seq <= r.seq}

\* Ranks number the rows from one on, each row with its own.
LEMMA Ranks ==
    ASSUME NEW S, Numbered(S)
    PROVE  /\ Cardinality(S) \in Nat
           /\ \A r \in S : Rank(S, r) \in 1..Cardinality(S)
           /\ \A q, r \in S : Rank(S, q) = Rank(S, r) => q = r
           /\ \A i \in 1..Cardinality(S) : \E r \in S : Rank(S, r) = i
<1>. DEFINE n == Cardinality(S)
            f == [r \in S |-> Rank(S, r)]
<1>1. IsFiniteSet(S) /\ n \in Nat
  BY FS_CardinalityType DEF Numbered
<1>2. \A r \in S : r.seq \in Nat
  BY RowFields DEF Numbered
<1>3. \A r \in S : /\ Below(S, r) \in SUBSET S /\ IsFiniteSet(Below(S, r)) /\ r \in Below(S, r)
                   /\ Rank(S, r) = Cardinality(Below(S, r))
                   /\ Rank(S, r) \in Nat /\ Rank(S, r) <= n /\ Rank(S, r) # 0
  <2>. TAKE r \in S
  <2>1. Below(S, r) \in SUBSET S /\ r \in Below(S, r)
    BY <1>2 DEF Below
  <2>2. Rank(S, r) = Cardinality(Below(S, r))
    BY DEF Rank, Below
  <2>3. IsFiniteSet(Below(S, r)) /\ Cardinality(Below(S, r)) <= n
    BY <1>1, <2>1, FS_Subset
  <2>4. Cardinality(Below(S, r)) \in Nat /\ Cardinality(Below(S, r)) # 0
    BY <2>1, <2>3, FS_CardinalityType, FS_EmptySet
  <2>. QED
    BY <2>1, <2>2, <2>3, <2>4
<1>4. \A q, r \in S : q.seq < r.seq => Rank(S, q) # Rank(S, r)
  <2>. SUFFICES ASSUME NEW q \in S, NEW r \in S, q.seq < r.seq, Rank(S, q) = Rank(S, r)
                PROVE  FALSE
    OBVIOUS
  <2>1. Below(S, q) \in SUBSET Below(S, r) /\ r \notin Below(S, q)
    BY <1>2 DEF Below
  <2>2. Cardinality(Below(S, q)) = Cardinality(Below(S, r)) /\ IsFiniteSet(Below(S, r))
    BY <1>3
  <2>3. Below(S, r) = Below(S, q)
    BY <2>1, <2>2, FS_Subset
  <2>. QED
    BY <1>3, <2>1, <2>3
<1>5. \A q, r \in S : Rank(S, q) = Rank(S, r) => q = r
  <2>. SUFFICES ASSUME NEW q \in S, NEW r \in S, Rank(S, q) = Rank(S, r) PROVE q = r
    OBVIOUS
  <2>1. ~(q.seq < r.seq) /\ ~(r.seq < q.seq)
    BY <1>4
  <2>2. q.seq = r.seq
    BY <1>2, <2>1
  <2>. QED
    BY <2>2 DEF Numbered
<1>6. \A r \in S : Rank(S, r) \in 1..n
  BY <1>1, <1>3
<1>7. f \in Injection(S, 1..n)
  BY <1>5, <1>6 DEF Injection, IsInjective
<1>8. IsFiniteSet(1..n) /\ Cardinality(1..n) = n
  BY <1>1, FS_Interval
<1>9. f \in Surjection(S, 1..n)
  <2>. HIDE DEF f, n
  <2>. QED
    BY <1>7, <1>8, FS_Injection DEF n
<1>10. \A i \in 1..n : \E r \in S : Rank(S, r) = i
  BY <1>9 DEF Surjection
<1>. QED
  BY <1>1, <1>5, <1>6, <1>10

\* The walk meets every row at its rank.
LEMMA Walk ==
    ASSUME NEW S, Numbered(S)
    PROVE  /\ Len(InOrder(S)) = Cardinality(S) /\ DOMAIN InOrder(S) = 1..Cardinality(S)
           /\ \A i \in 1..Cardinality(S) : InOrder(S)[i] \in S /\ Rank(S, InOrder(S)[i]) = i
           /\ \A r \in S : InOrder(S)[Rank(S, r)] = r
<1>. DEFINE n == Cardinality(S)
            w == [i \in 1..n |-> CHOOSE r \in S : Rank(S, r) = i]
<1>1. InOrder(S) = w
  BY DEF InOrder
<1>2. /\ n \in Nat /\ \A r \in S : Rank(S, r) \in 1..n
      /\ \A q, r \in S : Rank(S, q) = Rank(S, r) => q = r
      /\ \A i \in 1..n : \E r \in S : Rank(S, r) = i
  BY Ranks
<1>3. \A i \in 1..n : w[i] \in S /\ Rank(S, w[i]) = i
  BY <1>2
<1>4. \A r \in S : w[Rank(S, r)] = r
  BY <1>2, <1>3
<1>5. w \in Seq(S) /\ Len(w) = n /\ DOMAIN w = 1..n
  <2>1. w \in [1..n -> S]
    BY <1>3
  <2>. HIDE DEF w, n
  <2>2. w \in Seq(S)
    BY <1>2, <2>1
  <2>. QED
    BY <1>2, <2>1, <2>2
<1>. QED
  BY <1>1, <1>3, <1>4, <1>5

\* Where the numbers up to k are all taken, rank and number are one up to k.
LEMMA Placed ==
    ASSUME NEW S, Numbered(S), NEW k \in Nat, \A i \in 1..k : \E r \in S : r.seq = i
    PROVE  /\ k <= Cardinality(S)
           /\ \A r \in S : r.seq <= k => Rank(S, r) = r.seq
           /\ \A i \in 1..k : InOrder(S)[i] \in S /\ InOrder(S)[i].seq = i
<1>1. \A r \in S : r.seq \in Nat /\ r.seq >= 1
  BY RowFields DEF Numbered
<1>2. ASSUME NEW r \in S, r.seq <= k PROVE Rank(S, r) = r.seq
  <2>. DEFINE m == r.seq
              g == [i \in 1..m |-> CHOOSE q \in S : q.seq = i]
  <2>1. m \in Nat /\ m <= k
    BY <1>1, <1>2
  <2>2. \A i \in 1..m : g[i] \in S /\ g[i].seq = i
    BY <2>1
  <2>3. g \in [1..m -> Below(S, r)]
    BY <2>1, <2>2 DEF Below
  <2>4. \A q \in Below(S, r) : q.seq \in 1..m /\ g[q.seq] = q
    <3>. TAKE q \in Below(S, r)
    <3>1. q \in S /\ q.seq \in 1..m
      BY <1>1, <2>1 DEF Below
    <3>2. g[q.seq] \in S /\ g[q.seq].seq = q.seq
      BY <2>2, <3>1
    <3>. HIDE DEF g
    <3>. QED
      BY <3>1, <3>2 DEF Numbered
  <2>. HIDE DEF g
  <2>5. g \in Bijection(1..m, Below(S, r))
    BY <2>2, <2>3, <2>4 DEF Bijection, Injection, Surjection, IsInjective
  <2>6. Cardinality(Below(S, r)) = m
    BY <2>1, <2>5, FS_CountingElements DEF ExistsBijection
  <2>. QED
    BY <2>6 DEF Rank, Below
<1>3. k <= Cardinality(S)
  <2>1. CASE k = 0
    BY <2>1, Ranks
  <2>2. CASE k # 0
    <3>1. PICK r \in S : r.seq = k
      BY <2>2
    <3>2. Rank(S, r) = k
      BY <1>2, <3>1
    <3>. QED
      BY <3>2, Ranks
  <2>. QED
    BY <2>1, <2>2
<1>4. \A i \in 1..k : InOrder(S)[i] \in S /\ InOrder(S)[i].seq = i
  <2>. TAKE i \in 1..k
  <2>1. PICK r \in S : r.seq = i
    OBVIOUS
  <2>2. Rank(S, r) = i
    BY <1>2, <2>1
  <2>3. InOrder(S)[i] = r
    BY <2>2, Walk
  <2>. QED
    BY <2>1, <2>3
<1>. QED
  BY <1>2, <1>3, <1>4

\* The head of some rows is the one with the greatest number.
LEMMA HeadIs ==
    ASSUME NEW S, Numbered(S), S # {}
    PROVE  \E e \in S : /\ \A q \in S : q.seq <= e.seq
                        /\ HeadOf(S) = [seq |-> e.seq, hash |-> e.hash]
<1>1. Cardinality(S) \in Nat /\ Cardinality(S) # 0 /\ IsFiniteSet(S)
  BY FS_CardinalityType, FS_EmptySet DEF Numbered
<1>2. PICK top \in S : Rank(S, top) = Cardinality(S)
  BY <1>1, Ranks
<1>3. Below(S, top) = S
  <2>1. Below(S, top) \in SUBSET S /\ Cardinality(Below(S, top)) = Cardinality(S)
    BY <1>2 DEF Rank, Below
  <2>. QED
    BY <1>1, <2>1, FS_Subset
<1>4. \A q \in S : q.seq <= top.seq
  BY <1>3 DEF Below
<1>. DEFINE h == CHOOSE r \in S : \A q \in S : q.seq <= r.seq
<1>5. h \in S /\ \A q \in S : q.seq <= h.seq
  BY <1>4
<1>6. HeadOf(S) = [seq |-> h.seq, hash |-> h.hash]
  BY DEF HeadOf
<1>. HIDE DEF h
<1>. QED
  BY <1>5, <1>6, Zenon

LEMMA NoHeadYet == HeadOf({}) = [seq |-> 0, hash |-> Genesis]
  BY DEF HeadOf

\* What the walk reports, from what it meets.
LEMMA Report ==
    ASSUME NEW S, Numbered(S)
    PROVE  LET walk == InOrder(S)
               n == Cardinality(S)
           IN  /\ (\A i \in 1..n : Cause(walk, i) = "none") =>
                     Verify(S) = [valid |-> TRUE, entries |-> n, at |-> 0, cause |-> "none"]
               /\ Verify(S).valid => \A i \in 1..n : Cause(walk, i) = "none"
               /\ \A k \in 1..n :
                     Cause(walk, k) # "none" /\ (\A i \in 1..(k - 1) : Cause(walk, i) = "none") =>
                       /\ Verify(S).at = IF Cause(walk, k) = "sequence gap" THEN k ELSE walk[k].seq
                       /\ Verify(S).cause = Cause(walk, k)
<1>. DEFINE walk == InOrder(S)
            n == Cardinality(S)
            broken == {i \in DOMAIN walk : Cause(walk, i) # "none"}
            first == CHOOSE i \in broken : \A j \in broken : i <= j
<1>1. n \in Nat /\ DOMAIN walk = 1..n /\ Len(walk) = n
  BY Ranks, Walk
<1>2. Verify(S) =
        IF broken = {}
        THEN [valid |-> TRUE, entries |-> Len(walk), at |-> 0, cause |-> "none"]
        ELSE [valid |-> FALSE, entries |-> first - 1,
              at |-> IF Cause(walk, first) = "sequence gap" THEN first ELSE walk[first].seq,
              cause |-> Cause(walk, first)]
  BY DEF Verify
<1>. SUFFICES
        /\ (\A i \in 1..n : Cause(walk, i) = "none") =>
             Verify(S) = [valid |-> TRUE, entries |-> n, at |-> 0, cause |-> "none"]
        /\ Verify(S).valid => \A i \in 1..n : Cause(walk, i) = "none"
        /\ \A k \in 1..n :
             Cause(walk, k) # "none" /\ (\A i \in 1..(k - 1) : Cause(walk, i) = "none") =>
               /\ Verify(S).at = IF Cause(walk, k) = "sequence gap" THEN k ELSE walk[k].seq
               /\ Verify(S).cause = Cause(walk, k)
  OBVIOUS
<1>. HIDE DEF walk, n
<1>3. broken = {} <=> \A i \in 1..n : Cause(walk, i) = "none"
  BY <1>1
<1>4. ASSUME NEW k \in 1..n, Cause(walk, k) # "none",
             \A i \in 1..(k - 1) : Cause(walk, i) = "none"
      PROVE  broken # {} /\ first = k
  <2>1. k \in broken /\ \A j \in broken : k <= j
    <3>1. k \in broken
      BY <1>1, <1>4
    <3>2. ASSUME NEW j \in broken, j < k PROVE FALSE
      <4>1. j \in 1..(k - 1) /\ Cause(walk, j) # "none"
        BY <1>1, <3>2
      <4>. QED
        BY <1>4, <4>1
    <3>. QED
      BY <1>1, <3>1, <3>2
  <2>2. first \in broken /\ \A j \in broken : first <= j
    BY <2>1
  <2>3. first \in 1..n
    BY <1>1, <2>2
  <2>. HIDE DEF first, broken
  <2>. QED
    BY <1>1, <2>1, <2>2, <2>3
<1>. HIDE DEF broken, first
<1>5. (\A i \in 1..n : Cause(walk, i) = "none") =>
        Verify(S) = [valid |-> TRUE, entries |-> n, at |-> 0, cause |-> "none"]
  BY <1>1, <1>2, <1>3
<1>6. Verify(S).valid => \A i \in 1..n : Cause(walk, i) = "none"
  <2>. DEFINE bad == [valid |-> FALSE, entries |-> first - 1,
              at |-> IF Cause(walk, first) = "sequence gap" THEN first ELSE walk[first].seq,
              cause |-> Cause(walk, first)]
  <2>1. broken # {} => Verify(S).valid = FALSE
    <3>1. bad.valid = FALSE
      OBVIOUS
    <3>2. broken # {} => Verify(S) = bad
      BY <1>2
    <3>. HIDE DEF bad
    <3>. QED
      BY <3>1, <3>2
  <2>. QED
    BY <1>3, <2>1
<1>7. ASSUME NEW k \in 1..n, Cause(walk, k) # "none",
             \A i \in 1..(k - 1) : Cause(walk, i) = "none"
      PROVE  /\ Verify(S).at = IF Cause(walk, k) = "sequence gap" THEN k ELSE walk[k].seq
             /\ Verify(S).cause = Cause(walk, k)
  <2>1. broken # {} /\ first = k
    BY <1>4, <1>7
  <2>. DEFINE at == IF Cause(walk, k) = "sequence gap" THEN k ELSE walk[k].seq
              bad == [valid |-> FALSE, entries |-> k - 1, at |-> at, cause |-> Cause(walk, k)]
  <2>2. Verify(S) = bad
    BY <1>2, <2>1
  <2>. HIDE DEF at
  <2>3. bad.at = at /\ bad.cause = Cause(walk, k)
    OBVIOUS
  <2>. HIDE DEF bad
  <2>4. Verify(S).at = at /\ Verify(S).cause = Cause(walk, k)
    BY <2>2, <2>3
  <2>. QED
    BY <2>4 DEF at
<1>. QED
  BY <1>5, <1>6, <1>7

-----------------------------------------------------------------------------
(* Chains *)

Intact(r) == r.hash = Digest(r.seq, r.content, r.prev)

Linked(set, r) ==
    IF r.seq = 1 THEN r.prev = Genesis ELSE \E q \in set : q.seq = r.seq - 1 /\ q.hash = r.prev

\* No number up to k is missing, and nothing is wrong with the rows up to k.
Upto(set, k) ==
    /\ \A i \in 1..k : \E r \in set : r.seq = i
    /\ \A r \in set : r.seq <= k => Intact(r) /\ Linked(set, r)

LEMMA Causes ==
    ASSUME NEW walk, NEW i
    PROVE  /\ Cause(walk, i) = "none" <=>
                ~Position(walk, i) /\ ~Linkage(walk, i) /\ ~Content(walk, i)
           /\ Position(walk, i) => Cause(walk, i) = "sequence gap"
           /\ ~Position(walk, i) /\ Linkage(walk, i) => Cause(walk, i) = "prev_hash mismatch"
           /\ ~Position(walk, i) /\ ~Linkage(walk, i) /\ Content(walk, i) =>
                Cause(walk, i) = "hash mismatch"
<1>. Position(walk, i) \in BOOLEAN /\ Linkage(walk, i) \in BOOLEAN /\ Content(walk, i) \in BOOLEAN
  BY DEF Position, Linkage, Content
<1>. QED
  BY DEF Cause

\* A link to the row before, among the rows and along the walk.
LEMMA Links ==
    ASSUME NEW S, Numbered(S), NEW k \in Nat, \A i \in 1..k : \E r \in S : r.seq = i,
           NEW i \in 1..k
    PROVE  Linkage(InOrder(S), i) <=> ~Linked(S, InOrder(S)[i])
<1>. DEFINE walk == InOrder(S)
<1>1. \A j \in 1..k : walk[j] \in S /\ walk[j].seq = j
  BY Placed
<1>. HIDE DEF walk
<1>2. CASE i = 1
  BY <1>1, <1>2 DEF Linkage, Linked, walk
<1>3. CASE i # 1
  <2>1. i - 1 \in 1..k
    BY <1>3
  <2>2. walk[i - 1] \in S /\ walk[i - 1].seq = i - 1 /\ walk[i].seq = i
    BY <1>1, <2>1
  <2>3. \A q \in S : q.seq = i - 1 => q = walk[i - 1]
    BY <2>2 DEF Numbered
  <2>4. Linked(S, walk[i]) <=> walk[i - 1].hash = walk[i].prev
    BY <1>3, <2>2, <2>3 DEF Linked
  <2>5. Linkage(walk, i) <=> walk[i].prev # walk[i - 1].hash
    BY <1>3 DEF Linkage
  <2>. QED
    BY <2>4, <2>5 DEF walk
<1>. QED
  BY <1>2, <1>3

LEMMA NothingWrong ==
    ASSUME NEW S, Numbered(S), NEW k \in Nat, Upto(S, k)
    PROVE  /\ k <= Cardinality(S)
           /\ \A i \in 1..k : Cause(InOrder(S), i) = "none"
<1>1. \A i \in 1..k : \E r \in S : r.seq = i
  BY DEF Upto
<1>2. ASSUME NEW i \in 1..k PROVE Cause(InOrder(S), i) = "none"
  <2>1. InOrder(S)[i] \in S /\ InOrder(S)[i].seq = i
    BY <1>1, Placed
  <2>2. Intact(InOrder(S)[i]) /\ Linked(S, InOrder(S)[i])
    BY <2>1 DEF Upto
  <2>3. ~Position(InOrder(S), i) /\ ~Content(InOrder(S), i)
    BY <2>1, <2>2 DEF Position, Content, Intact
  <2>4. ~Linkage(InOrder(S), i)
    BY <1>1, <2>2, Links
  <2>. QED
    BY <2>3, <2>4, Causes
<1>. QED
  BY <1>1, <1>2, Placed

\* A chain with nothing wrong up to its head is found whole.
LEMMA WholeVerifies ==
    ASSUME NEW S, Numbered(S), Upto(S, HeadOf(S).seq)
    PROVE  Verify(S) = [valid |-> TRUE, entries |-> Cardinality(S), at |-> 0, cause |-> "none"]
<1>. DEFINE h == HeadOf(S).seq
<1>1. h \in Nat /\ \A r \in S : r.seq <= h
  <2>1. CASE S = {}
    BY <2>1, NoHeadYet
  <2>2. CASE S # {}
    <3>1. PICK e \in S : /\ \A q \in S : q.seq <= e.seq
                         /\ HeadOf(S) = [seq |-> e.seq, hash |-> e.hash]
      BY <2>2, HeadIs
    <3>. QED
      BY <3>1, RowFields DEF Numbered
  <2>. QED
    BY <2>1, <2>2
<1>. HIDE DEF h
<1>2. Upto(S, h)
  BY DEF h
<1>3. \A i \in 1..Cardinality(S) : i \in 1..h
  <2>. TAKE i \in 1..Cardinality(S)
  <2>1. PICK r \in S : Rank(S, r) = i
    BY Ranks
  <2>2. r.seq <= h
    BY <1>1
  <2>3. Rank(S, r) = r.seq
    BY <1>1, <1>2, <2>2, Placed DEF Upto
  <2>. QED
    BY <1>1, <2>1, <2>2, <2>3, Ranks
<1>4. \A i \in 1..Cardinality(S) : Cause(InOrder(S), i) = "none"
  BY <1>1, <1>2, <1>3, NothingWrong
<1>. QED
  BY <1>4, Report

\* A row whose content no longer gives its hash is named.
LEMMA AlterationNamed ==
    ASSUME NEW S, Numbered(S), NEW k \in Nat, k >= 1, Upto(S, k - 1),
           NEW r \in S, r.seq = k, Linked(S, r), ~Intact(r)
    PROVE  Verify(S).at = k /\ Verify(S).cause = "hash mismatch"
<1>1. \A i \in 1..k : \E q \in S : q.seq = i
  BY DEF Upto
<1>2. k \in 1..k /\ k \in 1..Cardinality(S) /\ k - 1 \in Nat
  BY <1>1, Placed, Ranks
<1>3. InOrder(S)[k] = r
  BY <1>1, <1>2, Placed DEF Numbered
<1>4. Cause(InOrder(S), k) = "hash mismatch"
  <2>1. ~Position(InOrder(S), k) /\ Content(InOrder(S), k)
    BY <1>3 DEF Position, Content, Intact
  <2>2. ~Linkage(InOrder(S), k)
    BY <1>1, <1>2, <1>3, Links
  <2>. QED
    BY <2>1, <2>2, Causes
<1>5. \A i \in 1..(k - 1) : Cause(InOrder(S), i) = "none"
  BY <1>2, NothingWrong
<1>. QED
  BY <1>2, <1>3, <1>4, <1>5, Report

\* A number nobody has, with rows behind it, is named.
LEMMA RemovalNamed ==
    ASSUME NEW S, Numbered(S), NEW k \in Nat, k >= 1, Upto(S, k - 1),
           \A r \in S : r.seq # k, NEW later \in S, later.seq > k
    PROVE  Verify(S).at = k /\ Verify(S).cause = "sequence gap"
<1>1. k - 1 \in Nat /\ \A i \in 1..(k - 1) : \E q \in S : q.seq = i
  BY DEF Upto
<1>2. k \in 1..Cardinality(S)
  <2>1. Rank(S, later) \in 1..Cardinality(S) /\ InOrder(S)[Rank(S, later)] = later
    BY Ranks, Walk
  <2>2. Rank(S, later) \notin 1..(k - 1)
    BY <1>1, <2>1, Placed
  <2>. QED
    BY <2>1, <2>2, Ranks
<1>3. Cause(InOrder(S), k) = "sequence gap"
  <2>1. InOrder(S)[k] \in S
    BY <1>2, Walk
  <2>2. Position(InOrder(S), k)
    BY <2>1 DEF Position
  <2>. QED
    BY <2>2, Causes
<1>4. \A i \in 1..(k - 1) : Cause(InOrder(S), i) = "none"
  BY <1>1, NothingWrong
<1>. QED
  BY <1>2, <1>3, <1>4, Report

\* A row that does not fit the one rewritten before it is named.
LEMMA ForgeryNamed ==
    ASSUME NEW S, Numbered(S), NEW k \in Nat, Upto(S, k),
           NEW r \in S, r.seq = k + 1, ~Linked(S, r)
    PROVE  Verify(S).at = k + 1 /\ Verify(S).cause = "prev_hash mismatch"
<1>1. k + 1 \in Nat /\ \A i \in 1..(k + 1) : \E q \in S : q.seq = i
  BY DEF Upto
<1>2. k + 1 \in 1..(k + 1) /\ k + 1 \in 1..Cardinality(S) /\ (k + 1) - 1 = k
  BY <1>1, Placed, Ranks
<1>3. InOrder(S)[k + 1] = r
  BY <1>1, <1>2, Placed DEF Numbered
<1>4. Cause(InOrder(S), k + 1) = "prev_hash mismatch"
  <2>1. ~Position(InOrder(S), k + 1)
    BY <1>3 DEF Position
  <2>2. Linkage(InOrder(S), k + 1)
    BY <1>1, <1>2, <1>3, Links
  <2>. QED
    BY <2>1, <2>2, Causes
<1>5. \A i \in 1..k : Cause(InOrder(S), i) = "none"
  BY NothingWrong
<1>. QED
  BY <1>2, <1>3, <1>4, <1>5, Report

\* What a walk that finds nothing has established.
LEMMA ValidIs ==
    ASSUME NEW S, Numbered(S), Verify(S).valid
    PROVE  /\ \A i \in 1..Cardinality(S) :
                /\ InOrder(S)[i] \in S /\ InOrder(S)[i].seq = i /\ Intact(InOrder(S)[i])
                /\ i # 1 => InOrder(S)[i].prev = InOrder(S)[i - 1].hash
           /\ \A r \in S : r.seq \in 1..Cardinality(S) /\ InOrder(S)[r.seq] = r
<1>1. ASSUME NEW i \in 1..Cardinality(S)
      PROVE  /\ InOrder(S)[i] \in S /\ InOrder(S)[i].seq = i /\ Intact(InOrder(S)[i])
             /\ i # 1 => InOrder(S)[i].prev = InOrder(S)[i - 1].hash
  <2>1. Cause(InOrder(S), i) = "none"
    BY Report
  <2>2. ~Position(InOrder(S), i) /\ ~Linkage(InOrder(S), i) /\ ~Content(InOrder(S), i)
    BY <2>1, Causes
  <2>3. InOrder(S)[i] \in S
    BY Walk
  <2>. QED
    BY <2>2, <2>3 DEF Position, Linkage, Content, Intact
<1>2. ASSUME NEW r \in S PROVE r.seq \in 1..Cardinality(S) /\ InOrder(S)[r.seq] = r
  <2>1. Rank(S, r) \in 1..Cardinality(S) /\ InOrder(S)[Rank(S, r)] = r
    BY Ranks, Walk
  <2>2. r.seq = Rank(S, r)
    BY <1>1, <2>1
  <2>. QED
    BY <2>1, <2>2
<1>. QED
  BY <1>1, <1>2

\* Rows with one digest are one row.
LEMMA DigestsTell ==
    ASSUME NEW q, NEW r, IsRow(q), IsRow(r), Intact(q), Intact(r), q.hash = r.hash
    PROVE  q = r
<1>1. Digest(q.seq, q.content, q.prev) = Digest(r.seq, r.content, r.prev)
  BY DEF Intact
<1>2. q.seq = r.seq /\ q.content = r.content /\ q.prev = r.prev
  BY <1>1 DEF Digest
<1>. QED
  BY <1>2 DEF IsRow

\* Two chains that verify and agree in one hash agree in all that is under it.
LEMMA SameHistory ==
    ASSUME NEW S, NEW U, Numbered(S), Numbered(U), Verify(S).valid, Verify(U).valid,
           NEW r \in S, NEW u \in U, r.seq = u.seq, r.hash = u.hash,
           \A q \in U : q.seq <= u.seq
    PROVE  {q \in S : q.seq <= u.seq} = U
<1>. DEFINE ws == InOrder(S)
            wu == InOrder(U)
            ns == Cardinality(S)
            nu == Cardinality(U)
            m == u.seq
            T == {j \in Nat : j < m /\ ws[m - j] # wu[m - j]}
<1>1. /\ ns \in Nat /\ nu \in Nat
      /\ \A q \in S : q.seq \in 1..ns /\ ws[q.seq] = q
      /\ \A q \in U : q.seq \in 1..nu /\ wu[q.seq] = q
  BY Ranks, ValidIs
<1>2. /\ \A i \in 1..ns : ws[i] \in S /\ Intact(ws[i]) /\ (i # 1 => ws[i].prev = ws[i - 1].hash)
      /\ \A i \in 1..nu : wu[i] \in U /\ Intact(wu[i]) /\ (i # 1 => wu[i].prev = wu[i - 1].hash)
  BY ValidIs
<1>. HIDE DEF ws, wu, ns, nu
<1>3. m \in Nat /\ m >= 1 /\ m <= ns /\ m <= nu /\ ws[m] = r /\ wu[m] = u
  BY <1>1
<1>. HIDE DEF m
<1>4. ASSUME NEW i \in 1..m
      PROVE  /\ ws[i] \in S /\ wu[i] \in U /\ IsRow(ws[i]) /\ IsRow(wu[i])
             /\ Intact(ws[i]) /\ Intact(wu[i])
             /\ i # 1 => ws[i].prev = ws[i - 1].hash /\ wu[i].prev = wu[i - 1].hash
  <2>1. i \in 1..ns /\ i \in 1..nu
    BY <1>1, <1>3
  <2>2. ws[i] \in S /\ Intact(ws[i]) /\ (i # 1 => ws[i].prev = ws[i - 1].hash)
    BY <1>2, <2>1
  <2>3. wu[i] \in U /\ Intact(wu[i]) /\ (i # 1 => wu[i].prev = wu[i - 1].hash)
    BY <1>2, <2>1
  <2>. QED
    BY <2>2, <2>3 DEF Numbered
<1>5. \A i \in 1..m : ws[i].hash = wu[i].hash => ws[i] = wu[i]
  BY <1>4, DigestsTell
<1>6. T = {}
  <2>. SUFFICES ASSUME T # {} PROVE FALSE
    OBVIOUS
  <2>1. PICK j \in T : \A l \in T : j <= l
    BY LeastNatural
  <2>2. j \in Nat /\ j < m /\ ws[m - j] # wu[m - j] /\ m - j \in 1..m
    BY <1>3, <2>1
  <2>3. CASE j = 0
    BY <1>3, <1>5, <2>2, <2>3
  <2>4. CASE j # 0
    <3>. DEFINE i == m - j
    <3>1. j - 1 \in Nat /\ j - 1 < m /\ m - (j - 1) = i + 1 /\ i \in 1..m /\ i + 1 \in 1..m
      BY <1>3, <2>2, <2>4
    <3>2. j - 1 \notin T
      BY <2>1, <2>2
    <3>3. ws[i + 1] = wu[i + 1]
      BY <3>1, <3>2
    <3>. HIDE DEF i, T
    <3>4. i + 1 # 1 /\ (i + 1) - 1 = i
      BY <3>1
    <3>5. ws[i + 1].prev = ws[i].hash /\ wu[i + 1].prev = wu[i].hash
      BY <1>4, <3>1, <3>4
    <3>6. ws[i] = wu[i]
      BY <1>5, <3>1, <3>3, <3>5
    <3>. QED
      BY <2>2, <3>6 DEF i
  <2>. QED
    BY <2>3, <2>4
<1>7. \A i \in 1..m : ws[i] = wu[i]
  <2>. TAKE i \in 1..m
  <2>1. m - i \in Nat /\ m - i < m /\ m - (m - i) = i
    BY <1>3
  <2>. QED
    BY <1>6, <2>1
<1>. HIDE DEF T
<1>8. ASSUME NEW q \in S, q.seq <= m PROVE q \in U
  <2>1. q.seq \in 1..ns /\ ws[q.seq] = q
    BY <1>1
  <2>2. q.seq \in 1..m
    BY <1>3, <1>8, <2>1
  <2>3. wu[q.seq] \in U /\ wu[q.seq] = ws[q.seq]
    BY <1>4, <1>7, <2>2
  <2>. QED
    BY <2>1, <2>3
<1>9. ASSUME NEW q \in U PROVE q \in S /\ q.seq <= m
  <2>1. q.seq \in 1..nu /\ wu[q.seq] = q
    BY <1>1
  <2>2. q.seq <= m
    BY DEF m
  <2>3. q.seq \in 1..m
    BY <1>1, <1>3, <2>1, <2>2
  <2>4. ws[q.seq] \in S /\ wu[q.seq] = ws[q.seq]
    BY <1>4, <1>7, <2>3
  <2>. QED
    BY <2>1, <2>2, <2>4
<1>. QED
  BY <1>8, <1>9 DEF m

-----------------------------------------------------------------------------
(* The invariant *)

\* What becomes of the chain after one edit, up to the row that tells it.
Marked(set, e) ==
    /\ e.how = "edited" =>
        /\ Upto(set, e.seq - 1)
        /\ \E r \in set : r.seq = e.seq /\ Linked(set, r) /\ ~Intact(r)
    /\ e.how = "removed" /\ ~e.last =>
        /\ Upto(set, e.seq - 1)
        /\ \A r \in set : r.seq # e.seq
        /\ \E r \in set : r.seq > e.seq
    /\ e.how = "rewritten" /\ ~e.last =>
        /\ Upto(set, e.seq)
        /\ \E r \in set : r.seq = e.seq + 1 /\ ~Linked(set, r)

Marks == [how : {"edited", "rewritten", "removed"}, seq : 1..MaxEntries, last : BOOLEAN]

History ==
    /\ Numbered(rows)
    /\ Numbered(pin.under) /\ pin.head = HeadOf(pin.under)
    /\ edits \in Seq(Marks) /\ Len(edits) <= MaxEdits
    /\ edits = <<>> => Upto(rows, HeadOf(rows).seq)
    /\ Len(edits) = 1 => Marked(rows, edits[1])

\* Who has read the head holds the lock, and nothing came after that head; who
\* has written holds it, with an entry that nothing has come after.
Appends(p) ==
    /\ tx[p].stage \in {"idle", "open", "written", "answered"}
    /\ tx[p].stage = "open" =>
        /\ tx[p] = [stage |-> "open", content |-> tx[p].content, head |-> tx[p].head]
        /\ tx[p].content \in Contents
        /\ tx[p].head # NoHead =>
            /\ lock = p /\ tx[p].head.seq \in Nat
            /\ \A r \in rows : r.seq <= tx[p].head.seq
            /\ edits = <<>> => tx[p].head = HeadOf(rows)
    /\ tx[p].stage = "written" =>
        /\ lock = p /\ IsRow(tx[p].entry) /\ Intact(tx[p].entry)
        /\ \A r \in rows : r.seq < tx[p].entry.seq
        /\ edits = <<>> => /\ tx[p].entry.seq = HeadOf(rows).seq + 1
                           /\ tx[p].entry.prev = HeadOf(rows).hash

LedgerInv ==
    /\ History
    /\ lock \in Procs \cup {Nobody} /\ lost = 0
    /\ DOMAIN tx = Procs /\ \A p \in Procs : Appends(p)

\* What the run checks follows from it.
LEMMA LedgerInvTypes == LedgerInv => LedgerTypeOK
<1>. SUFFICES ASSUME LedgerInv PROVE LedgerTypeOK
  OBVIOUS
<1>1. \A e \in rows : EntrySeen(e)
  BY DEF LedgerInv, History, Numbered, IsRow
<1>2. \A p \in Procs : /\ tx[p].stage \in {"idle", "open", "written", "answered"}
                       /\ tx[p].stage = "written" => EntrySeen(tx[p].entry)
  BY DEF LedgerInv, Appends, IsRow
<1>3. lost \in Nat /\ Len(edits) <= MaxEdits /\ lock \in Procs \cup {Nobody}
  BY DEF LedgerInv, History
<1>4. \A p \in Procs : tx[p].stage \in {"idle", "open", "written", "failed"}
                        \/ tx[p].stage = "answered"
  BY <1>2
<1>5. \A p \in Procs : tx[p].stage = "written" => EntrySeen(tx[p].entry)
  BY <1>2
<1>. QED
  BY <1>1, <1>3, <1>4, <1>5, Zenon DEF LedgerTypeOK

LEMMA LedgerInvSound == LedgerInv => LedgerSound
<1>. SUFFICES ASSUME LedgerInv PROVE LedgerSound
  OBVIOUS
<1>1. /\ Numbered(rows) /\ Numbered(pin.under) /\ pin.head = HeadOf(pin.under)
      /\ edits \in Seq(Marks)
      /\ edits = <<>> => Upto(rows, HeadOf(rows).seq)
      /\ Len(edits) = 1 => Marked(rows, edits[1])
  BY DEF LedgerInv, History
<1>2. NoDecisionLost
  BY DEF LedgerInv, NoDecisionLost
<1>3. ChainVerifies
  BY <1>1, WholeVerifies DEF ChainVerifies
<1>4. BreakIsNamed
  <2>. SUFFICES ASSUME NEW e \in {edits[i] : i \in DOMAIN edits}, Len(edits) = 1
                PROVE  /\ e.how = "edited" =>
                            Verify(rows).at = e.seq /\ Verify(rows).cause = "hash mismatch"
                       /\ e.how = "removed" /\ ~e.last =>
                            Verify(rows).at = e.seq /\ Verify(rows).cause = "sequence gap"
                       /\ e.how = "rewritten" /\ ~e.last =>
                            /\ Verify(rows).at = e.seq + 1
                            /\ Verify(rows).cause = "prev_hash mismatch"
    BY DEF BreakIsNamed
  <2>1. e = edits[1] /\ e \in Marks
    BY <1>1
  <2>2. Marked(rows, e) /\ e.seq \in Nat /\ e.seq >= 1
    BY <1>1, <2>1 DEF Marks
  <2>3. CASE e.how = "edited"
    <3>1. PICK r \in rows : r.seq = e.seq /\ Linked(rows, r) /\ ~Intact(r)
      BY <2>2, <2>3 DEF Marked
    <3>2. Upto(rows, e.seq - 1)
      BY <2>2, <2>3 DEF Marked
    <3>. QED
      BY <1>1, <2>2, <2>3, <3>1, <3>2, AlterationNamed
  <2>4. CASE e.how = "removed" /\ ~e.last
    <3>1. PICK r \in rows : r.seq > e.seq
      BY <2>2, <2>4 DEF Marked
    <3>2. Upto(rows, e.seq - 1) /\ \A q \in rows : q.seq # e.seq
      BY <2>2, <2>4 DEF Marked
    <3>. QED
      BY <1>1, <2>2, <2>4, <3>1, <3>2, RemovalNamed
  <2>5. CASE e.how = "rewritten" /\ ~e.last
    <3>1. PICK r \in rows : r.seq = e.seq + 1 /\ ~Linked(rows, r)
      BY <2>2, <2>5 DEF Marked
    <3>2. Upto(rows, e.seq)
      BY <2>2, <2>5 DEF Marked
    <3>. QED
      BY <1>1, <2>2, <2>5, <3>1, <3>2, ForgeryNamed
  <2>. QED
    BY <2>3, <2>4, <2>5
<1>5. PinnedHistoryStands
  <2>. DEFINE at == {r \in rows : r.seq = pin.head.seq /\ r.hash = pin.head.hash}
  <2>. SUFFICES ASSUME Verify(rows).valid, Verify(pin.under).valid, NEW r \in at
                PROVE  {q \in rows : q.seq <= pin.head.seq} = pin.under
    BY DEF PinnedHistoryStands
  <2>1. r \in rows /\ r.seq = pin.head.seq /\ r.hash = pin.head.hash /\ r.seq >= 1
    BY <1>1, RowFields DEF Numbered
  <2>2. pin.under # {}
    <3>1. pin.under = {} => HeadOf(pin.under).seq = 0
      BY DEF HeadOf
    <3>. QED
      BY <1>1, <2>1, <3>1
  <2>3. PICK u \in pin.under : /\ \A q \in pin.under : q.seq <= u.seq
                               /\ HeadOf(pin.under) = [seq |-> u.seq, hash |-> u.hash]
    BY <1>1, <2>2, HeadIs
  <2>4. pin.head.seq = u.seq /\ pin.head.hash = u.hash
    BY <1>1, <2>3
  <2>5. {q \in rows : q.seq <= u.seq} = pin.under
    BY <1>1, <2>1, <2>3, <2>4, SameHistory
  <2>. QED
    BY <2>4, <2>5
<1>. QED
  BY <1>2, <1>3, <1>4, <1>5, LedgerInvTypes DEF LedgerSound, ChainSound, EditsAreTold

LEMMA LedgerInitial == LedgerInit => LedgerInv
<1>. SUFFICES ASSUME LedgerInit PROVE LedgerInv
  OBVIOUS
<1>1. Numbered({})
  BY FS_EmptySet DEF Numbered
<1>2. HeadOf(rows).seq = 0 /\ rows = {}
  BY NoHeadYet DEF LedgerInit
<1>3. Upto(rows, HeadOf(rows).seq)
  BY <1>2 DEF Upto
<1>4. edits = <<>> /\ edits \in Seq(Marks) /\ Len(edits) = 0
  BY DEF LedgerInit
<1>5. History
  BY <1>1, <1>3, <1>4, Constants DEF LedgerInit, History
<1>6. \A p \in Procs : Appends(p)
  BY DEF LedgerInit, Appends, Idle
<1>. QED
  BY <1>5, <1>6 DEF LedgerInit, LedgerInv

-----------------------------------------------------------------------------
(* Sets of rows that grow and change *)

LEMMA HeadBounds ==
    ASSUME NEW S, Numbered(S)
    PROVE  /\ HeadOf(S).seq \in Nat /\ HeadOf(S) # NoHead
           /\ \A r \in S : r.seq <= HeadOf(S).seq
           /\ HeadOf(S).seq = 0 => HeadOf(S).hash = Genesis
           /\ HeadOf(S).seq # 0 => \E r \in S : r.seq = HeadOf(S).seq /\ r.hash = HeadOf(S).hash
<1>1. CASE S = {}
  <2>1. HeadOf(S) = [seq |-> 0, hash |-> Genesis]
    BY <1>1 DEF HeadOf
  <2>. QED
    BY <1>1, <2>1 DEF NoHead
<1>2. CASE S # {}
  <2>1. PICK e \in S : /\ \A q \in S : q.seq <= e.seq
                       /\ HeadOf(S) = [seq |-> e.seq, hash |-> e.hash]
    BY <1>2, HeadIs
  <2>2. e.seq \in Nat /\ e.seq >= 1
    BY RowFields DEF Numbered
  <2>3. HeadOf(S).seq = e.seq /\ HeadOf(S).hash = e.hash
    BY <2>1
  <2>. QED
    BY <2>1, <2>2, <2>3 DEF NoHead
<1>. QED
  BY <1>1, <1>2

Follows(S, e) == IsRow(e) /\ \A r \in S : r.seq < e.seq

LEMMA Grown ==
    ASSUME NEW S, Numbered(S), NEW e, Follows(S, e)
    PROVE  Numbered(S \cup {e}) /\ HeadOf(S \cup {e}) = [seq |-> e.seq, hash |-> e.hash]
<1>1. /\ e.seq \in Nat /\ \A r \in S : r.seq \in Nat /\ r.seq < e.seq
      /\ IsRow(e) /\ \A r \in S : IsRow(r)
  BY RowFields DEF Numbered, Follows
<1>2. Numbered(S \cup {e})
  <2>1. IsFiniteSet(S \cup {e})
    BY FS_AddElement DEF Numbered
  <2>2. \A q, r \in S \cup {e} : q.seq = r.seq => q = r
    BY <1>1 DEF Numbered
  <2>. QED
    BY <1>1, <2>1, <2>2 DEF Numbered
<1>3. PICK h \in S \cup {e} : /\ \A q \in S \cup {e} : q.seq <= h.seq
                              /\ HeadOf(S \cup {e}) = [seq |-> h.seq, hash |-> h.hash]
  BY <1>2, HeadIs
<1>4. h = e
  BY <1>1, <1>3
<1>. QED
  BY <1>2, <1>3, <1>4

LEMMA UptoGrows ==
    ASSUME NEW S, Numbered(S), NEW e, Follows(S, e), NEW k \in Nat, Upto(S, k)
    PROVE  Upto(S \cup {e}, k)
<1>1. e.seq \in Nat /\ e.seq >= 1 /\ \A r \in S : r.seq \in Nat /\ r.seq < e.seq
  BY RowFields DEF Numbered, Follows
<1>2. e.seq > k
  <2>1. CASE k = 0
    BY <1>1, <2>1
  <2>2. CASE k # 0
    <3>1. PICK r \in S : r.seq = k
      BY <2>2 DEF Upto
    <3>. QED
      BY <1>1, <3>1
  <2>. QED
    BY <2>1, <2>2
<1>3. \A r \in S \cup {e} : r.seq <= k => r \in S
  BY <1>1, <1>2
<1>4. \A r \in S : Linked(S, r) => Linked(S \cup {e}, r)
  BY DEF Linked
<1>. QED
  BY <1>3, <1>4 DEF Upto

LEMMA WholeGrows ==
    ASSUME NEW S, Numbered(S), NEW e, Follows(S, e), Intact(e), Upto(S, HeadOf(S).seq),
           e.seq = HeadOf(S).seq + 1, e.prev = HeadOf(S).hash
    PROVE  Upto(S \cup {e}, e.seq)
<1>. DEFINE k == HeadOf(S).seq
<1>1. /\ k \in Nat /\ \A r \in S : r.seq <= k
      /\ k = 0 => e.prev = Genesis
      /\ k # 0 => \E r \in S : r.seq = k /\ r.hash = e.prev
  BY HeadBounds
<1>2. Upto(S, k) /\ e.seq = k + 1
  OBVIOUS
<1>. HIDE DEF k
<1>3. Upto(S \cup {e}, k)
  BY <1>1, <1>2, UptoGrows
<1>4. Linked(S \cup {e}, e)
  BY <1>1, <1>2 DEF Linked
<1>5. \A i \in 1..e.seq : i \in 1..k \/ i = e.seq
  BY <1>1, <1>2
<1>6. \A r \in S \cup {e} : r.seq <= k \/ r = e
  BY <1>1
<1>. QED
  BY <1>3, <1>4, <1>5, <1>6 DEF Upto

LEMMA MarkedGrows ==
    ASSUME NEW S, Numbered(S), NEW e, Follows(S, e), NEW m \in Marks, Marked(S, m)
    PROVE  Marked(S \cup {e}, m)
<1>1. e.seq \in Nat /\ e.seq >= 1 /\ \A r \in S : r.seq \in Nat /\ r.seq < e.seq
  BY RowFields DEF Numbered, Follows
<1>2. m.seq \in Nat /\ m.seq - 1 \in Nat
  BY Constants DEF Marks
<1>3. ASSUME m.how = "edited"
      PROVE  /\ Upto(S \cup {e}, m.seq - 1)
             /\ \E r \in S \cup {e} : r.seq = m.seq /\ Linked(S \cup {e}, r) /\ ~Intact(r)
  <2>1. PICK r \in S : r.seq = m.seq /\ Linked(S, r) /\ ~Intact(r)
    BY <1>3 DEF Marked
  <2>2. Linked(S \cup {e}, r)
    BY <2>1 DEF Linked
  <2>. QED
    BY <1>2, <1>3, <2>1, <2>2, UptoGrows DEF Marked
<1>4. ASSUME m.how = "removed", ~m.last
      PROVE  /\ Upto(S \cup {e}, m.seq - 1)
             /\ \A r \in S \cup {e} : r.seq # m.seq
             /\ \E r \in S \cup {e} : r.seq > m.seq
  <2>1. PICK r \in S : r.seq > m.seq
    BY <1>4 DEF Marked
  <2>2. e.seq # m.seq
    BY <1>1, <1>2, <2>1
  <2>. QED
    BY <1>2, <1>4, <2>1, <2>2, UptoGrows DEF Marked
<1>5. ASSUME m.how = "rewritten", ~m.last
      PROVE  /\ Upto(S \cup {e}, m.seq)
             /\ \E r \in S \cup {e} : r.seq = m.seq + 1 /\ ~Linked(S \cup {e}, r)
  <2>1. PICK r \in S : r.seq = m.seq + 1 /\ ~Linked(S, r)
    BY <1>5 DEF Marked
  <2>2. r.seq # 1 /\ e.seq # r.seq - 1
    BY <1>1, <1>2, <2>1
  <2>3. ~Linked(S \cup {e}, r)
    BY <2>1, <2>2 DEF Linked
  <2>. QED
    BY <1>2, <1>5, <2>1, <2>3, UptoGrows DEF Marked
<1>. QED
  BY <1>3, <1>4, <1>5 DEF Marked

\* Below a number at which two sets of rows begin to differ they are one chain.
LEMMA PrefixStays ==
    ASSUME NEW S, Numbered(S), NEW T, Numbered(T), NEW n \in Nat, Upto(S, n),
           NEW k \in Nat, k >= 1, k <= n + 1,
           \A q \in S \cup T : q.seq < k => (q \in S <=> q \in T)
    PROVE  Upto(T, k - 1)
<1>1. (\A r \in S : r.seq \in Nat /\ r.seq >= 1) /\ (\A r \in T : r.seq \in Nat /\ r.seq >= 1)
  BY RowFields DEF Numbered
<1>2. ASSUME NEW i \in 1..(k - 1) PROVE \E r \in T : r.seq = i
  <2>1. i \in 1..n /\ i < k
    OBVIOUS
  <2>2. PICK r \in S : r.seq = i
    BY <2>1 DEF Upto
  <2>. QED
    BY <2>1, <2>2
<1>3. ASSUME NEW r \in T, r.seq <= k - 1 PROVE Intact(r) /\ Linked(T, r)
  <2>1. r \in S /\ r.seq <= n
    BY <1>1, <1>3
  <2>2. Intact(r) /\ Linked(S, r)
    BY <2>1 DEF Upto
  <2>3. \A q \in S : q.seq = r.seq - 1 => q \in T
    BY <1>1, <1>3
  <2>. QED
    BY <2>2, <2>3 DEF Linked
<1>. QED
  BY <1>2, <1>3 DEF Upto

-----------------------------------------------------------------------------
(* The steps of an append *)

LEMMA HistoryStays == History /\ UNCHANGED <<rows, edits, pin>> => History'
  BY DEF History

\* An appender that does not move keeps what it holds.
LEMMA Untouched ==
    ASSUME LedgerInv, NEW q \in Procs, rows' = rows, edits' = edits, tx'[q] = tx[q],
           lock = q => lock' = q
    PROVE  Appends(q)'
<1>1. Appends(q)
  BY DEF LedgerInv
<1>. QED
  BY <1>1 DEF Appends

\* An appender that holds nothing has nothing to keep.
EmptyHanded(t) ==
    \/ t.stage \in {"idle", "answered"}
    \/ \E c \in Contents : t = [stage |-> "open", content |-> c, head |-> NoHead]

LEMMA EmptyHandsNext ==
    ASSUME NEW q \in Procs, EmptyHanded(tx'[q])
    PROVE  Appends(q)'
<1>1. CASE tx'[q].stage \in {"idle", "answered"}
  BY <1>1 DEF Appends
<1>2. ASSUME NEW c \in Contents, tx'[q] = [stage |-> "open", content |-> c, head |-> NoHead]
      PROVE  Appends(q)'
  <2>1. tx'[q].stage = "open" /\ tx'[q].content = c /\ tx'[q].head = NoHead
    BY <1>2
  <2>. QED
    BY <1>2, <2>1 DEF Appends
<1>. QED
  BY <1>1, <1>2 DEF EmptyHanded

\* A step of one appender that leaves the rows alone.
LEMMA OneMoves ==
    ASSUME LedgerInv, NEW p \in Procs, NEW t, tx' = [tx EXCEPT ![p] = t], Appends(p)',
           UNCHANGED <<rows, edits, pin, lost>>, lock' \in Procs \cup {Nobody},
           lock \in {p, Nobody} \/ lock' = lock
    PROVE  LedgerInv'
<1>1. DOMAIN tx = Procs /\ Nobody \notin Procs
  BY Constants DEF LedgerInv
<1>2. DOMAIN tx' = Procs /\ \A q \in Procs : q # p => tx'[q] = tx[q]
  BY <1>1
<1>3. \A q \in Procs : q # p => (lock = q => lock' = q)
  BY <1>1
<1>4. \A q \in Procs : Appends(q)'
  <2>. TAKE q \in Procs
  <2>1. CASE q = p
    BY <2>1
  <2>2. CASE q # p
    BY <1>2, <1>3, <2>2, Untouched
  <2>. QED
    BY <2>1, <2>2
<1>5. History'
  BY HistoryStays DEF LedgerInv
<1>. QED
  BY <1>2, <1>4, <1>5 DEF LedgerInv

LEMMA BeginStep ==
    ASSUME LedgerInv, NEW p \in Procs, NEW c \in Contents, BeginAppend(p, c)
    PROVE  LedgerInv'
<1>. DEFINE t == [stage |-> "open", content |-> c, head |-> NoHead]
<1>1. tx' = [tx EXCEPT ![p] = t] /\ UNCHANGED <<rows, lock, lost, edits, pin>>
  BY DEF BeginAppend
<1>2. tx'[p] = t
  BY <1>1 DEF LedgerInv
<1>3. EmptyHanded(tx'[p])
  BY <1>2 DEF EmptyHanded
<1>4. Appends(p)'
  BY <1>3, EmptyHandsNext
<1>. HIDE DEF t
<1>. QED
  BY <1>1, <1>4, OneMoves DEF LedgerInv

LEMMA TakeStep ==
    ASSUME LedgerInv, NEW p \in Procs, TakeLock(p)
    PROVE  LedgerInv'
<1>1. /\ tx[p].stage = "open" /\ lock = Nobody /\ lock' = p /\ tx' = tx
      /\ UNCHANGED <<rows, lost, edits, pin>>
  BY DEF TakeLock
<1>2. lock # p /\ \A q \in Procs : lock # q
  BY <1>1, Constants
<1>3. \A q \in Procs : Appends(q)'
  <2>. TAKE q \in Procs
  <2>. QED
    BY <1>1, <1>2, Untouched
<1>4. History'
  BY <1>1, HistoryStays DEF LedgerInv
<1>. QED
  BY <1>1, <1>3, <1>4 DEF LedgerInv

LEMMA ReadStep ==
    ASSUME LedgerInv, NEW p \in Procs, ReadHead(p)
    PROVE  LedgerInv'
<1>. DEFINE h == HeadOf(rows)
            t == [tx[p] EXCEPT !.head = h]
<1>1. /\ tx[p].stage = "open" /\ lock = p
      /\ tx' = [tx EXCEPT ![p] = t] /\ UNCHANGED <<rows, lock, lost, edits, pin>>
  BY DEF ReadHead, MayReadHead
<1>2. h.seq \in Nat /\ \A r \in rows : r.seq <= h.seq
  BY HeadBounds DEF LedgerInv, History
<1>3. /\ tx[p] = [stage |-> "open", content |-> tx[p].content, head |-> tx[p].head]
      /\ tx[p].content \in Contents
  BY <1>1 DEF LedgerInv, Appends
<1>4. tx'[p] = t
  BY <1>1 DEF LedgerInv
<1>. HIDE DEF h
<1>5. /\ t = [stage |-> "open", content |-> t.content, head |-> h]
      /\ t.content \in Contents /\ t.stage = "open" /\ t.head = h
  BY <1>3
<1>. HIDE DEF t
<1>6. Appends(p)'
  BY <1>1, <1>2, <1>4, <1>5 DEF Appends, h
<1>. QED
  BY <1>1, <1>6, OneMoves DEF LedgerInv

\* Nobody else has come after the head that was read, so the place is free.
LEMMA InsertStep ==
    ASSUME LedgerInv, NEW p \in Procs, InsertEntry(p)
    PROVE  LedgerInv'
<1>. DEFINE head == tx[p].head
            c == tx[p].content
            stored == [Entry(head.seq + 1, Stored[c], head.hash) EXCEPT
                          !.hash = Digest(head.seq + 1, Hashed(c), head.hash)]
            taken == \E r \in rows : r.seq = stored.seq \/ r.hash = stored.hash
            t == IF taken THEN [stage |-> "failed"] ELSE [stage |-> "written", entry |-> stored]
<1>1. /\ tx[p].stage = "open" /\ head # NoHead /\ lock = p /\ head.seq < MaxEntries
      /\ tx' = [tx EXCEPT ![p] = t] /\ lost' = IF taken THEN lost + 1 ELSE lost
      /\ UNCHANGED <<rows, lock, edits, pin>>
  BY DEF InsertEntry
<1>2. /\ c \in Contents /\ head.seq \in Nat /\ \A r \in rows : r.seq <= head.seq
      /\ edits = <<>> => head = HeadOf(rows)
  BY <1>1 DEF LedgerInv, Appends
<1>3. stored = [seq |-> head.seq + 1, content |-> Stored[c], prev |-> head.hash,
                hash |-> Digest(head.seq + 1, Stored[c], head.hash)]
  BY DEF Entry, Hashed
<1>4. /\ stored.seq = head.seq + 1 /\ stored.content = Stored[c] /\ stored.prev = head.hash
      /\ stored.hash = <<head.seq + 1, Stored[c], head.hash>>
  BY <1>3 DEF Digest
<1>5. stored = [seq |-> stored.seq, content |-> stored.content, prev |-> stored.prev,
                hash |-> stored.hash]
  BY <1>3
<1>. HIDE DEF stored, head, c
<1>6. stored.hash[1] = stored.seq /\ Intact(stored)
  BY <1>4 DEF Intact, Digest
<1>7. stored.seq \in 1..MaxEntries /\ stored.content \in Contents
  BY <1>1, <1>2, <1>4, Constants
<1>8. IsRow(stored)
  BY <1>5, <1>6, <1>7 DEF IsRow, EntrySeen
<1>9. \A r \in rows : r.seq \in Nat /\ r.seq < stored.seq /\ r.hash[1] = r.seq
  <2>. TAKE r \in rows
  <2>1. IsRow(r)
    BY DEF LedgerInv, History, Numbered
  <2>2. r.seq \in Nat /\ r.hash[1] = r.seq
    BY <2>1, RowFields DEF IsRow
  <2>. QED
    BY <1>2, <1>4, <2>2
<1>10. ~taken
  BY <1>6, <1>7, <1>9
<1>11. t = [stage |-> "written", entry |-> stored]
  BY <1>10
<1>12. tx'[p] = t
  BY <1>1 DEF LedgerInv
<1>13. tx'[p].stage = "written" /\ tx'[p].entry = stored
  BY <1>11, <1>12
<1>14. edits = <<>> => stored.seq = HeadOf(rows).seq + 1 /\ stored.prev = HeadOf(rows).hash
  BY <1>2, <1>4
<1>15. Appends(p)'
  BY <1>1, <1>6, <1>8, <1>9, <1>13, <1>14 DEF Appends
<1>16. lost' = lost
  BY <1>1, <1>10
<1>. HIDE DEF t, taken
<1>. QED
  BY <1>1, <1>15, <1>16, OneMoves DEF LedgerInv

LEMMA CommitStep ==
    ASSUME LedgerInv, NEW p \in Procs, NEW answer, answer.stage \in {"idle", "answered"},
           CommitAppend(p, answer)
    PROVE  LedgerInv'
<1>. DEFINE e == tx[p].entry
<1>1. /\ tx[p].stage = "written" /\ rows' = rows \cup {e} /\ lock' = Nobody
      /\ tx' = [tx EXCEPT ![p] = answer] /\ UNCHANGED <<lost, edits, pin>>
  BY DEF CommitAppend
<1>2. /\ lock = p /\ IsRow(e) /\ Intact(e) /\ \A r \in rows : r.seq < e.seq
      /\ edits = <<>> => e.seq = HeadOf(rows).seq + 1 /\ e.prev = HeadOf(rows).hash
  BY <1>1 DEF LedgerInv, Appends
<1>. HIDE DEF e
<1>3. Follows(rows, e)
  BY <1>2 DEF Follows
<1>4. /\ Numbered(rows) /\ Numbered(pin.under) /\ pin.head = HeadOf(pin.under)
      /\ edits \in Seq(Marks) /\ Len(edits) <= MaxEdits
      /\ edits = <<>> => Upto(rows, HeadOf(rows).seq)
      /\ Len(edits) = 1 => Marked(rows, edits[1])
  BY DEF LedgerInv, History
<1>5. Numbered(rows') /\ HeadOf(rows') = [seq |-> e.seq, hash |-> e.hash]
  BY <1>1, <1>3, <1>4, Grown
<1>6. edits = <<>> => Upto(rows', HeadOf(rows').seq)
  <2>. SUFFICES ASSUME edits = <<>> PROVE Upto(rows', e.seq)
    BY <1>5
  <2>. QED
    BY <1>1, <1>2, <1>3, <1>4, WholeGrows
<1>7. Len(edits) = 1 => Marked(rows', edits[1])
  <2>. SUFFICES ASSUME Len(edits) = 1 PROVE Marked(rows', edits[1])
    OBVIOUS
  <2>1. edits \in Seq(Marks) /\ Len(edits) = 1
    BY <1>4
  <2>2. edits[1] \in Marks
    BY <2>1
  <2>. QED
    BY <1>1, <1>3, <1>4, <2>2, MarkedGrows
<1>8. History'
  BY <1>1, <1>4, <1>5, <1>6, <1>7 DEF History
<1>9. DOMAIN tx = Procs /\ Nobody \notin Procs
  BY Constants DEF LedgerInv
<1>10. DOMAIN tx' = Procs /\ tx'[p] = answer /\ \A q \in Procs : q # p => tx'[q] = tx[q]
  BY <1>1, <1>9
<1>11. \A q \in Procs : Appends(q)'
  <2>. TAKE q \in Procs
  <2>1. CASE q = p
    BY <1>10, <2>1 DEF Appends
  <2>2. CASE q # p
    <3>1. lock # q /\ Appends(q)
      BY <1>2, <2>2 DEF LedgerInv
    <3>2. EmptyHanded(tx[q])
      BY <3>1 DEF Appends, EmptyHanded
    <3>. QED
      BY <1>10, <2>2, <3>2, EmptyHandsNext
  <2>. QED
    BY <2>1, <2>2
<1>. QED
  BY <1>1, <1>8, <1>10, <1>11 DEF LedgerInv

LEMMA RollBackStep ==
    ASSUME LedgerInv, NEW p \in Procs, NEW answer, answer.stage \in {"idle", "answered"},
           RollBack(p, answer)
    PROVE  LedgerInv'
<1>1. /\ lock' = IF lock = p THEN Nobody ELSE lock
      /\ tx' = [tx EXCEPT ![p] = answer] /\ UNCHANGED <<rows, lost, edits, pin>>
  BY DEF RollBack
<1>2. tx'[p] = answer
  BY <1>1 DEF LedgerInv
<1>3. Appends(p)'
  BY <1>2, EmptyHandsNext DEF EmptyHanded
<1>4. lock' \in Procs \cup {Nobody} /\ (lock \in {p, Nobody} \/ lock' = lock)
  BY <1>1 DEF LedgerInv
<1>. QED
  BY <1>1, <1>3, <1>4, OneMoves

\* The answer has been read, and the appender is free again.
LEMMA ReleaseStep ==
    ASSUME LedgerInv, NEW p \in Procs, tx' = [tx EXCEPT ![p] = Idle],
           UNCHANGED <<rows, lock, lost, edits, pin>>
    PROVE  LedgerInv'
<1>1. tx'[p] = Idle
  BY DEF LedgerInv
<1>2. Appends(p)'
  BY <1>1, EmptyHandsNext DEF EmptyHanded, Idle
<1>. QED
  BY <1>2, OneMoves DEF LedgerInv

LEMMA PinStep ==
    ASSUME LedgerInv, PinHead
    PROVE  LedgerInv'
<1>1. /\ pin' = [head |-> HeadOf(rows), under |-> rows]
      /\ UNCHANGED <<rows, lock, tx, lost, edits>>
  BY DEF PinHead
<1>2. pin'.head = HeadOf(rows) /\ pin'.under = rows
  BY <1>1
<1>3. History'
  BY <1>1, <1>2 DEF LedgerInv, History
<1>4. \A q \in Procs : Appends(q)'
  BY <1>1, Untouched
<1>. QED
  BY <1>1, <1>3, <1>4 DEF LedgerInv

-----------------------------------------------------------------------------
(* Edits behind the ledger *)

Mark(S, r, how) == [how |-> how, seq |-> r.seq, last |-> r.seq = HeadOf(S).seq]

LEMMA MarkIs ==
    ASSUME NEW S, Numbered(S), NEW r \in S, NEW how \in {"edited", "rewritten", "removed"}
    PROVE  /\ Mark(S, r, how) \in Marks
           /\ Mark(S, r, how).how = how /\ Mark(S, r, how).seq = r.seq
           /\ Mark(S, r, how).last <=> r.seq = HeadOf(S).seq
           /\ r.seq \in Nat /\ r.seq >= 1 /\ r.seq <= HeadOf(S).seq /\ HeadOf(S).seq \in Nat
<1>1. r.seq \in Nat /\ r.seq >= 1 /\ r.seq <= MaxEntries
  BY RowFields DEF Numbered
<1>2. r.seq <= HeadOf(S).seq /\ HeadOf(S).seq \in Nat
  BY HeadBounds
<1>3. r.seq \in 1..MaxEntries /\ (r.seq = HeadOf(S).seq) \in BOOLEAN
  BY <1>1, Constants
<1>4. Mark(S, r, how) \in Marks
  BY <1>3 DEF Mark, Marks
<1>5. /\ Mark(S, r, how).how = how /\ Mark(S, r, how).seq = r.seq
      /\ Mark(S, r, how).last <=> r.seq = HeadOf(S).seq
  BY DEF Mark
<1>. QED
  BY <1>1, <1>2, <1>4, <1>5

\* Of a whole chain, a removed row leaves a gap, unless it was the last.
LEMMA Removed ==
    ASSUME NEW S, Numbered(S), NEW r \in S
    PROVE  /\ Numbered(S \ {r})
           /\ Upto(S, HeadOf(S).seq) => Marked(S \ {r}, Mark(S, r, "removed"))
<1>. DEFINE T == S \ {r}
            m == Mark(S, r, "removed")
            n == HeadOf(S).seq
<1>1. Numbered(T)
  BY FS_Subset DEF Numbered
<1>2. /\ m.how = "removed" /\ m.seq = r.seq /\ (m.last <=> r.seq = n)
      /\ r.seq \in Nat /\ r.seq >= 1 /\ r.seq <= n /\ n \in Nat
  BY MarkIs
<1>3. n # 0 => \E h \in S : h.seq = n
  BY HeadBounds
<1>. HIDE DEF m, n
<1>4. \A q \in T : q.seq # r.seq
  BY DEF Numbered
<1>5. ASSUME Upto(S, n) PROVE Marked(T, m)
  <2>1. Upto(T, r.seq - 1)
    <3>1. \A q \in S \cup T : q.seq < r.seq => (q \in S <=> q \in T)
      BY <1>2
    <3>. HIDE DEF T
    <3>. QED
      BY <1>1, <1>2, <1>5, <3>1, PrefixStays
  <2>2. ~m.last => \E h \in T : h.seq > r.seq
    <3>. SUFFICES ASSUME ~m.last PROVE \E h \in T : h.seq > r.seq
      OBVIOUS
    <3>1. n # 0 /\ n > r.seq
      BY <1>2
    <3>2. PICK h \in S : h.seq = n
      BY <1>3, <3>1
    <3>3. h.seq > r.seq /\ h # r
      BY <1>2, <3>1, <3>2
    <3>. QED
      BY <3>3
  <2>. HIDE DEF T
  <2>. QED
    BY <1>2, <1>4, <2>1, <2>2 DEF Marked
<1>. QED
  BY <1>1, <1>5 DEF n, m

\* EditRow's new version of a row.
Changed(r, how, c) ==
    [r EXCEPT !.content = Stored[c],
              !.hash = IF how = "rewritten" THEN Digest(r.seq, Stored[c], r.prev) ELSE @]

LEMMA ChangedIs ==
    ASSUME NEW r, IsRow(r), NEW how, NEW c \in Contents
    PROVE  LET x == Changed(r, how, c)
           IN  /\ IsRow(x) /\ x.seq = r.seq /\ x.content = Stored[c] /\ x.prev = r.prev
               /\ x.hash = IF how = "rewritten" THEN Digest(r.seq, Stored[c], r.prev) ELSE r.hash
<1>. DEFINE h == IF how = "rewritten" THEN Digest(r.seq, Stored[c], r.prev) ELSE r.hash
            y == [seq |-> r.seq, content |-> Stored[c], prev |-> r.prev, hash |-> h]
<1>1. r = [seq |-> r.seq, content |-> r.content, prev |-> r.prev, hash |-> r.hash]
      /\ EntrySeen(r) /\ r.hash[1] = r.seq
  BY DEF IsRow
<1>2. Changed(r, how, c) = [[r EXCEPT !.content = Stored[c]] EXCEPT !.hash = h]
  BY DEF Changed
<1>. HIDE DEF h
<1>3. [r EXCEPT !.content = Stored[c]] =
        [seq |-> r.seq, content |-> Stored[c], prev |-> r.prev, hash |-> r.hash]
  BY <1>1
<1>4. Changed(r, how, c) = y
  BY <1>2, <1>3
<1>5. y.seq = r.seq /\ y.content = Stored[c] /\ y.prev = r.prev /\ y.hash = h
  OBVIOUS
<1>6. h[1] = r.seq
  BY <1>1 DEF h, Digest
<1>7. EntrySeen(y)
  BY <1>1, <1>5, Constants DEF EntrySeen
<1>8. IsRow(y)
  BY <1>5, <1>6, <1>7 DEF IsRow
<1>. QED
  BY <1>4, <1>5, <1>8 DEF h

\* Of a whole chain, a row with another content is told by its hash, or by the
\* row after it.
LEMMA Altered ==
    ASSUME NEW S, Numbered(S), NEW r \in S, NEW how \in {"edited", "rewritten"},
           NEW c \in Contents, Stored[c] # r.content
    PROVE  LET T == (S \ {r}) \cup {Changed(r, how, c)}
           IN  /\ Numbered(T)
               /\ \A q \in T : \E s \in S : q.seq = s.seq
               /\ Upto(S, HeadOf(S).seq) => Marked(T, Mark(S, r, how))
<1>. DEFINE x == Changed(r, how, c)
            T == (S \ {r}) \cup {x}
            m == Mark(S, r, how)
            n == HeadOf(S).seq
<1>1. IsRow(r) /\ \A q \in S : IsRow(q) /\ q.seq \in Nat
  BY RowFields DEF Numbered
<1>2. /\ IsRow(x) /\ x.seq = r.seq /\ x.content = Stored[c] /\ x.prev = r.prev
      /\ x.hash = IF how = "rewritten" THEN Digest(r.seq, Stored[c], r.prev) ELSE r.hash
  BY <1>1, ChangedIs
<1>3. /\ m.how = how /\ m.seq = r.seq /\ (m.last <=> r.seq = n)
      /\ r.seq \in Nat /\ r.seq >= 1 /\ r.seq <= n /\ n \in Nat
  BY MarkIs
<1>. HIDE DEF x, m, n
<1>4. Numbered(T)
  <2>1. IsFiniteSet(S \ {r})
    BY FS_Subset DEF Numbered
  <2>2. IsFiniteSet(T)
    BY <2>1, FS_AddElement
  <2>3. \A p, q \in T : p.seq = q.seq => p = q
    BY <1>2 DEF Numbered
  <2>4. \A q \in T : IsRow(q)
    BY <1>1, <1>2
  <2>. QED
    BY <2>2, <2>3, <2>4 DEF Numbered
<1>5. \A q \in T : \E s \in S : q.seq = s.seq
  BY <1>2
<1>6. ASSUME Upto(S, n) PROVE Marked(T, m)
  <2>1. Upto(T, r.seq - 1)
    <3>1. \A q \in S \cup T : q.seq < r.seq => (q \in S <=> q \in T)
      BY <1>2, <1>3
    <3>. HIDE DEF T
    <3>. QED
      BY <1>3, <1>4, <1>6, <3>1, PrefixStays
  <2>2. Intact(r) /\ Linked(S, r)
    BY <1>3, <1>6 DEF Upto
  <2>3. Linked(T, x)
    <3>1. \A q \in S : q.seq = r.seq - 1 => q \in T
      BY <1>1, <1>3
    <3>. HIDE DEF T
    <3>. QED
      BY <1>2, <2>2, <3>1 DEF Linked
  <2>4. x \in T /\ \A q \in T : q.seq = r.seq => q = x
    BY <1>2 DEF Numbered
  <2>5. x.hash # r.hash <=> how = "rewritten"
    BY <1>2, <2>2 DEF Intact, Digest
  <2>6. Intact(x) <=> how = "rewritten"
    BY <1>2, <2>2 DEF Intact, Digest
  <2>7. CASE how = "edited"
    <3>. HIDE DEF T
    <3>. QED
      BY <1>2, <1>3, <2>1, <2>3, <2>4, <2>6, <2>7 DEF Marked
  <2>8. CASE how = "rewritten"
    <3>. SUFFICES ASSUME ~m.last
                  PROVE  /\ Upto(T, r.seq)
                         /\ \E q \in T : q.seq = r.seq + 1 /\ ~Linked(T, q)
      BY <1>3, <2>8 DEF Marked
    <3>1. r.seq + 1 \in 1..n
      BY <1>3
    <3>2. PICK next \in S : next.seq = r.seq + 1
      BY <1>6, <3>1 DEF Upto
    <3>3. next \in T /\ next.seq # 1 /\ next.seq - 1 = r.seq
      BY <1>3, <3>2
    <3>4. Linked(S, next)
      BY <1>6, <3>1, <3>2 DEF Upto
    <3>5. next.prev = r.hash
      BY <3>3, <3>4 DEF Linked, Numbered
    <3>6. ~Linked(T, next)
      BY <2>4, <2>5, <2>8, <3>3, <3>5 DEF Linked
    <3>7. Upto(T, r.seq)
      <4>1. \A i \in 1..r.seq : i \in 1..(r.seq - 1) \/ i = r.seq
        BY <1>3
      <4>2. \A q \in T : q.seq <= r.seq => q.seq <= r.seq - 1 \/ q = x
        BY <1>1, <1>3, <1>5, <2>4
      <4>. HIDE DEF T
      <4>. QED
        BY <1>2, <2>1, <2>3, <2>4, <2>6, <2>8, <4>1, <4>2 DEF Upto
    <3>. QED
      BY <3>2, <3>3, <3>6, <3>7
  <2>. QED
    BY <2>7, <2>8
<1>. QED
  BY <1>4, <1>5, <1>6 DEF n, m, x

LEMMA EditStep ==
    ASSUME LedgerInv, NEW how \in {"edited", "rewritten", "removed"}, EditRow(how)
    PROVE  LedgerInv'
<1>1. PICK r \in rows :
        /\ Len(edits) < MaxEdits
        /\ \/ how = "removed" /\ rows' = rows \ {r}
           \/ /\ how \in {"edited", "rewritten"}
              /\ \E c \in Contents : /\ Stored[c] # r.content
                                     /\ rows' = (rows \ {r}) \cup {Changed(r, how, c)}
        /\ edits' = Append(edits, Mark(rows, r, how))
        /\ UNCHANGED <<lock, tx, lost, pin>>
  BY DEF EditRow, Changed, Mark
<1>2. /\ Numbered(rows) /\ Numbered(pin.under) /\ pin.head = HeadOf(pin.under)
      /\ edits \in Seq(Marks) /\ Len(edits) <= MaxEdits
      /\ edits = <<>> => Upto(rows, HeadOf(rows).seq)
  BY DEF LedgerInv, History
<1>3. /\ Numbered(rows')
      /\ \A q \in rows' : \E s \in rows : q.seq = s.seq
      /\ edits = <<>> => Marked(rows', Mark(rows, r, how))
  <2>1. CASE how = "removed" /\ rows' = rows \ {r}
    BY <1>2, <2>1, Removed
  <2>3. ASSUME how \in {"edited", "rewritten"}, NEW c \in Contents, Stored[c] # r.content,
               rows' = (rows \ {r}) \cup {Changed(r, how, c)}
        PROVE  /\ Numbered(rows')
               /\ \A q \in rows' : \E s \in rows : q.seq = s.seq
               /\ edits = <<>> => Marked(rows', Mark(rows, r, how))
    <3>. DEFINE T == (rows \ {r}) \cup {Changed(r, how, c)}
    <3>1. /\ Numbered(T)
          /\ \A q \in T : \E s \in rows : q.seq = s.seq
          /\ Upto(rows, HeadOf(rows).seq) => Marked(T, Mark(rows, r, how))
      BY <1>2, <2>3, Altered
    <3>2. rows' = T
      BY <2>3
    <3>. HIDE DEF T
    <3>. QED
      BY <1>2, <3>1, <3>2
  <2>. QED
    BY <1>1, <2>1, <2>3
<1>. DEFINE m == Mark(rows, r, how)
<1>4. m \in Marks
  BY <1>2, MarkIs
<1>. HIDE DEF m
<1>5. /\ edits' \in Seq(Marks) /\ Len(edits') = Len(edits) + 1 /\ edits' # <<>>
      /\ Len(edits') = 1 => edits = <<>> /\ edits'[1] = m
  <2>1. edits' = Append(edits, m)
    BY <1>1 DEF m
  <2>. QED
    BY <1>2, <1>4, <2>1
<1>6. Len(edits') <= MaxEdits
  BY <1>1, <1>2, <1>5, Constants
<1>7. Len(edits') = 1 => Marked(rows', edits'[1])
  BY <1>3, <1>5 DEF m
<1>8. History'
  BY <1>1, <1>2, <1>3, <1>5, <1>6, <1>7 DEF History
<1>9. ASSUME NEW q \in Procs PROVE Appends(q)'
  <2>1. Appends(q)
    BY DEF LedgerInv
  <2>2. (\A s \in rows : s.seq \in Nat) /\ (\A s \in rows' : s.seq \in Nat)
    BY <1>2, <1>3, RowFields DEF Numbered
  <2>3. lock' = lock /\ tx'[q] = tx[q]
    BY <1>1
  <2>4. tx[q].stage = "open" /\ tx[q].head # NoHead =>
          \A s \in rows' : s.seq <= tx[q].head.seq
    BY <1>3, <2>1, <2>2 DEF Appends
  <2>5. tx[q].stage = "written" => \A s \in rows' : s.seq < tx[q].entry.seq
    BY <1>3, <2>1, <2>2 DEF Appends
  <2>. QED
    BY <1>5, <2>1, <2>3, <2>4, <2>5 DEF Appends
<1>. QED
  BY <1>1, <1>8, <1>9 DEF LedgerInv

-----------------------------------------------------------------------------
(* The ledger *)

LEMMA ChainStep ==
    ASSUME LedgerInv, NEW p \in Procs, Chain(p)
    PROVE  LedgerInv'
  BY TakeStep, ReadStep, InsertStep DEF Chain

LEMMA LedgerStutters == LedgerInv /\ UNCHANGED ledgerVars => LedgerInv'
  BY DEF LedgerInv, ledgerVars, History, Appends

LEMMA LedgerStep == LedgerInv /\ [LedgerNext]_ledgerVars => LedgerInv'
<1>. SUFFICES ASSUME LedgerInv, [LedgerNext]_ledgerVars PROVE LedgerInv'
  OBVIOUS
<1>1. ASSUME NEW p \in Procs, NEW c \in Contents, BeginAppend(p, c) PROVE LedgerInv'
  BY <1>1, BeginStep
<1>2. ASSUME NEW p \in Procs, Chain(p) PROVE LedgerInv'
  BY <1>2, ChainStep
<1>3. ASSUME NEW p \in Procs, CommitAppend(p, Idle) PROVE LedgerInv'
  BY <1>3, CommitStep DEF Idle
<1>4. ASSUME NEW p \in Procs, RollBack(p, Idle) PROVE LedgerInv'
  BY <1>4, RollBackStep DEF Idle
<1>5. CASE PinHead
  BY <1>5, PinStep
<1>6. ASSUME NEW how \in {"edited", "rewritten", "removed"}, EditRow(how) PROVE LedgerInv'
  BY <1>6, EditStep
<1>7. CASE UNCHANGED ledgerVars
  BY <1>7, LedgerStutters
<1>. QED
  BY <1>1, <1>2, <1>3, <1>4, <1>5, <1>6, <1>7 DEF LedgerNext

LEMMA LedgerAlways == LedgerSpec => []LedgerInv
  BY LedgerInitial, LedgerStep, PTL DEF LedgerSpec

\* The rows, the lock, the transactions and the counters keep their types.
THEOREM LedgerTyped == LedgerSpec => []LedgerTypeOK
  BY LedgerAlways, LedgerInvTypes, PTL

\* However many processes append, roll back or die, no entry is refused its
\* place and the chain is found whole; and whoever changes it behind the
\* ledger, the walk names the row, and a pinned head keeps what is under it.
THEOREM LedgerIsSound == LedgerSpec => []LedgerSound
  BY LedgerAlways, LedgerInvSound, PTL

-----------------------------------------------------------------------------
(* The commands *)

Pending(o) ==
    LET c == command[o]
    IN  /\ c.step = "recording" /\ c.after \in Row
        /\ tx[o].stage = "open" => tx[o].content = c.content
        /\ tx[o].stage = "written" => tx[o].entry.content = Stored[c.content]
        /\ edits = <<>> =>
            /\ c.since <= HeadOf(rows).seq /\ c.since \in Nat
            /\ tx[o].stage = "answered" /\ tx[o].ok =>
                 \E r \in rows : r.seq > c.since /\ r.content = Stored[c.content]

MandateInv ==
    /\ LedgerInv /\ MandateTypeOK
    /\ DOMAIN command = Operators
    /\ \A o \in Operators : command[o] = NoCommand \/ Pending(o)

LEMMA MandateInitial == MandateInit => MandateInv
<1>. SUFFICES ASSUME MandateInit PROVE MandateInv
  OBVIOUS
<1>1. LedgerInv
  BY LedgerInitial DEF MandateInit
<1>2. mandate \in Row
  BY DEF MandateInit, Row, NoReason
<1>3. command = [o \in Operators |-> NoCommand] /\ notice \in [Notifiers -> SUBSET Row]
  BY DEF MandateInit
<1>4. \A o \in Operators : command[o] = NoCommand /\ command[o].step # "recording"
  BY <1>3 DEF NoCommand
<1>. QED
  BY <1>1, <1>2, <1>3, <1>4 DEF MandateInv, MandateTypeOK

\* The chain only grows, or has been edited.
LEMMA Growth ==
    ASSUME LedgerInv, NEW p \in Procs, Chain(p) \/ (\E a : CommitAppend(p, a) \/ RollBack(p, a))
    PROVE  /\ edits' = edits /\ rows \subseteq rows'
           /\ edits = <<>> => HeadOf(rows').seq >= HeadOf(rows).seq
<1>1. Numbered(rows) /\ HeadOf(rows).seq \in Nat
  BY HeadBounds DEF LedgerInv, History
<1>2. CASE UNCHANGED <<rows, edits>>
  BY <1>1, <1>2
<1>3. ASSUME NEW a, CommitAppend(p, a)
      PROVE  /\ edits' = edits /\ rows \subseteq rows'
             /\ edits = <<>> => HeadOf(rows').seq >= HeadOf(rows).seq
  <2>. DEFINE e == tx[p].entry
  <2>1. tx[p].stage = "written" /\ rows' = rows \cup {e} /\ edits' = edits
    BY <1>3 DEF CommitAppend
  <2>2. Follows(rows, e) /\ (edits = <<>> => e.seq = HeadOf(rows).seq + 1)
    BY <2>1 DEF LedgerInv, Appends, Follows
  <2>. HIDE DEF e
  <2>3. HeadOf(rows \cup {e}) = [seq |-> e.seq, hash |-> e.hash]
    BY <1>1, <2>2, Grown
  <2>4. HeadOf(rows').seq = e.seq
    BY <2>1, <2>3
  <2>. QED
    BY <1>1, <2>1, <2>2, <2>4
<1>4. (\E a : CommitAppend(p, a)) \/ UNCHANGED <<rows, edits>>
  BY DEF Chain, TakeLock, ReadHead, InsertEntry, RollBack
<1>. QED
  BY <1>2, <1>3, <1>4

\* A command that waits stays as it is when another process moves.
LEMMA StillPending ==
    ASSUME NEW o \in Operators, Pending(o), command'[o] = command[o], tx'[o] = tx[o],
           edits' = <<>> => /\ edits = <<>> /\ rows \subseteq rows'
                            /\ HeadOf(rows).seq \in Nat /\ HeadOf(rows').seq \in Nat
                            /\ HeadOf(rows').seq >= HeadOf(rows).seq
    PROVE  Pending(o)'
  BY DEF Pending

LEMMA HeadIsNatural ==
    ASSUME LedgerInv
    PROVE  HeadOf(rows).seq \in Nat
  BY HeadBounds DEF LedgerInv, History

LEMMA HeadIsNaturalNext ==
    ASSUME LedgerInv'
    PROVE  HeadOf(rows').seq \in Nat
  BY HeadBounds DEF LedgerInv, History

\* The command whose append it is keeps the content it recorded, and a positive
\* answer means the entry is there.
LEMMA OwnAppend ==
    ASSUME MandateInv, LedgerInv', NEW o \in Operators, Pending(o), command'[o] = command[o],
           \/ Chain(o) \/ \E a \in Answers : CommitAppend(o, a)
           \/ RollBack(o, [stage |-> "answered", ok |-> FALSE])
    PROVE  Pending(o)'
<1>. DEFINE c == command[o]
<1>0. LedgerInv /\ o \in Procs
  BY Constants DEF MandateInv
<1>1. /\ edits' = edits /\ rows \subseteq rows'
      /\ edits = <<>> => HeadOf(rows').seq >= HeadOf(rows).seq
  BY <1>0, Growth
<1>2. /\ c.step = "recording" /\ c.after \in Row
      /\ tx[o].stage = "open" => tx[o].content = c.content
      /\ tx[o].stage = "written" => tx[o].entry.content = Stored[c.content]
      /\ edits = <<>> => c.since <= HeadOf(rows).seq /\ c.since \in Nat
  BY DEF Pending
<1>3. edits' = <<>> => c.since <= HeadOf(rows').seq /\ c.since \in Nat
  BY <1>0, <1>1, <1>2, HeadIsNatural, HeadIsNaturalNext
<1>4. tx[o].stage # "answered" /\ DOMAIN tx = Procs
  BY <1>0 DEF LedgerInv, Chain, TakeLock, ReadHead, InsertEntry, CommitAppend, RollBack
<1>. HIDE DEF c
<1>5. CASE TakeLock(o)
  <2>1. tx' = tx /\ tx[o].stage = "open"
    BY <1>5 DEF TakeLock
  <2>. QED
    BY <1>2, <1>3, <2>1 DEF Pending, c
<1>6. CASE ReadHead(o)
  <2>1. tx[o].stage = "open" /\ tx' = [tx EXCEPT ![o] = [tx[o] EXCEPT !.head = HeadOf(rows)]]
    BY <1>6 DEF ReadHead
  <2>2. tx[o] = [stage |-> "open", content |-> tx[o].content, head |-> tx[o].head]
    BY <1>0, <2>1 DEF LedgerInv, Appends
  <2>3. tx'[o].stage = "open" /\ tx'[o].content = tx[o].content
    BY <1>0, <1>4, <2>1, <2>2
  <2>. QED
    BY <1>2, <1>3, <2>1, <2>3 DEF Pending, c
<1>7. CASE InsertEntry(o)
  <2>. DEFINE head == tx[o].head
              stored == [Entry(head.seq + 1, Stored[tx[o].content], head.hash) EXCEPT
                            !.hash = Digest(head.seq + 1, Hashed(tx[o].content), head.hash)]
              taken == \E r \in rows : r.seq = stored.seq \/ r.hash = stored.hash
              t == IF taken THEN [stage |-> "failed"] ELSE [stage |-> "written", entry |-> stored]
  <2>1. tx[o].stage = "open" /\ tx' = [tx EXCEPT ![o] = t]
    BY <1>7 DEF InsertEntry
  <2>2. stored.content = Stored[tx[o].content]
    BY DEF Entry
  <2>. HIDE DEF stored, taken
  <2>3. tx'[o] = t /\ t.stage \in {"failed", "written"} /\ (t.stage = "written" => t.entry = stored)
    BY <1>0, <1>4, <2>1
  <2>. HIDE DEF t
  <2>. QED
    BY <1>2, <1>3, <2>1, <2>2, <2>3 DEF Pending, c
<1>8. ASSUME NEW a \in Answers, CommitAppend(o, a) PROVE Pending(o)'
  <2>. DEFINE e == tx[o].entry
  <2>1. tx[o].stage = "written" /\ rows' = rows \cup {e} /\ tx' = [tx EXCEPT ![o] = a]
    BY <1>8 DEF CommitAppend
  <2>2. /\ e.content = Stored[c.content]
        /\ edits = <<>> => e.seq = HeadOf(rows).seq + 1
    BY <1>0, <1>2, <2>1 DEF LedgerInv, Appends
  <2>3. edits = <<>> => e.seq > c.since
    BY <1>0, <1>2, <2>2, HeadIsNatural
  <2>4. e \in rows' /\ tx'[o] = a /\ a.stage = "answered"
    BY <1>0, <1>4, <2>1 DEF Answers
  <2>. HIDE DEF e
  <2>. QED
    BY <1>1, <1>2, <1>3, <2>2, <2>3, <2>4 DEF Pending, c
<1>9. CASE RollBack(o, [stage |-> "answered", ok |-> FALSE])
  <2>. DEFINE a == [stage |-> "answered", ok |-> FALSE]
  <2>1. tx' = [tx EXCEPT ![o] = a]
    BY <1>9 DEF RollBack
  <2>2. tx'[o].stage = "answered" /\ tx'[o].ok = FALSE
    BY <1>0, <1>4, <2>1
  <2>. QED
    BY <1>2, <1>3, <2>2 DEF Pending, c
<1>. QED
  BY <1>5, <1>6, <1>7, <1>8, <1>9 DEF Chain

\* A step that leaves the chain alone leaves the waiting commands alone.
LEMMA OthersWait ==
    ASSUME MandateInv, NEW o \in Operators, command[o] # NoCommand,
           command'[o] = command[o], tx'[o] = tx[o], rows' = rows, edits' = edits
    PROVE  Pending(o)'
<1>1. Pending(o) /\ HeadOf(rows).seq \in Nat
  BY HeadIsNatural DEF MandateInv
<1>. QED
  BY <1>1, StillPending

\* What a step has to keep besides the ledger.
Kept ==
    /\ mandate \in Row /\ notice \in [Notifiers -> SUBSET Row]
    /\ DOMAIN command = Operators
    /\ \A o \in Operators : command[o] = NoCommand \/ Pending(o)

LEMMA KeptIs ==
    /\ MandateInv => LedgerInv /\ Kept
    /\ LedgerInv' /\ Kept' => MandateInv'
<1>1. MandateInv => LedgerInv /\ Kept
  BY DEF MandateInv, MandateTypeOK, Kept
<1>2. LedgerInv /\ Kept => MandateInv
  BY DEF MandateInv, MandateTypeOK, Kept, Pending, NoCommand
<1>. QED
  BY <1>1, <1>2, PTL

LEMMA AppendingStep ==
    ASSUME MandateInv, NEW p \in Procs, Appending(p)
    PROVE  MandateInv'
<1>. DEFINE no == [stage |-> "answered", ok |-> FALSE]
<1>1. LedgerInv /\ Kept /\ UNCHANGED <<mandate, command, notice>>
  BY KeptIs DEF Appending
<1>2. ASSUME NEW a \in Answers PROVE a.stage = "answered"
  BY DEF Answers
<1>3. no.stage = "answered" /\ Idle.stage = "idle"
  BY DEF Idle
<1>4. CASE \/ Chain(p) \/ (\E a \in Answers : CommitAppend(p, a)) \/ RollBack(p, no)
           \/ CommitAppend(p, Idle) \/ RollBack(p, Idle)
  <2>. HIDE DEF no
  <2>1. LedgerInv'
    BY <1>1, <1>2, <1>3, <1>4, ChainStep, CommitStep, RollBackStep
  <2>2. /\ edits' = edits /\ rows \subseteq rows'
        /\ edits = <<>> => HeadOf(rows').seq >= HeadOf(rows).seq
    BY <1>1, <1>4, Growth
  <2>3. HeadOf(rows).seq \in Nat /\ HeadOf(rows').seq \in Nat
    BY <1>1, <2>1, HeadIsNatural, HeadIsNaturalNext
  <2>4. \A q \in Procs : q # p => tx'[q] = tx[q]
    BY <1>1, <1>4 DEF LedgerInv, Chain, TakeLock, ReadHead, InsertEntry, CommitAppend, RollBack
  <2>5. p \in Operators => \/ Chain(p) \/ (\E a \in Answers : CommitAppend(p, a))
                           \/ RollBack(p, no)
    BY DEF Appending, no
  <2>6. ASSUME NEW o \in Operators, command[o] # NoCommand PROVE Pending(o)'
    <3>1. Pending(o) /\ command'[o] = command[o] /\ o \in Procs
      BY <1>1, <2>6, Constants DEF Kept
    <3>2. CASE o = p
      BY <2>1, <2>5, <3>1, <3>2, OwnAppend DEF no
    <3>3. CASE o # p
      BY <2>2, <2>3, <2>4, <3>1, <3>3, StillPending
    <3>. QED
      BY <3>2, <3>3
  <2>7. Kept'
    BY <1>1, <2>6 DEF Kept
  <2>. QED
    BY <2>1, <2>7, KeptIs
<1>5. ASSUME NEW c \in Contents, p \notin Operators, BeginAppend(p, c) PROVE MandateInv'
  <2>1. LedgerInv' /\ rows' = rows /\ edits' = edits
    BY <1>1, <1>5, BeginStep DEF BeginAppend
  <2>2. \A o \in Operators : tx'[o] = tx[o]
    BY <1>5 DEF BeginAppend
  <2>3. \A o \in Operators : command[o] # NoCommand => Pending(o)'
    BY <1>1, <2>1, <2>2, OthersWait
  <2>4. Kept'
    BY <1>1, <2>3 DEF Kept
  <2>. QED
    BY <2>1, <2>4, KeptIs
<1>. QED
  BY <1>4, <1>5 DEF Appending

\* The commands.
LEMMA CommandStep ==
    ASSUME MandateInv, NEW o \in Operators, NEW verb, NEW after \in Row, Command(o, verb, after)
    PROVE  MandateInv'
<1>1. LedgerInv /\ Kept /\ o \in Procs
  BY KeptIs, Constants
<1>2. PICK c \in Contents :
        /\ BeginAppend(o, c)
        /\ command' = [command EXCEPT ![o] =
              [step |-> "recording", verb |-> verb, after |-> after,
               content |-> c, since |-> HeadOf(rows).seq]]
  BY DEF Command
<1>. DEFINE cmd == [step |-> "recording", verb |-> verb, after |-> after,
                    content |-> c, since |-> HeadOf(rows).seq]
            t == [stage |-> "open", content |-> c, head |-> NoHead]
<1>3. /\ LedgerInv' /\ rows' = rows /\ edits' = edits /\ tx' = [tx EXCEPT ![o] = t]
      /\ mandate' = mandate /\ notice' = notice
  BY <1>1, <1>2, BeginStep DEF BeginAppend, Command
<1>4. command' = [command EXCEPT ![o] = cmd]
  BY <1>2
<1>5. /\ DOMAIN command' = Operators /\ command'[o] = cmd /\ tx'[o] = t
      /\ \A q \in Operators : q # o => command'[q] = command[q] /\ tx'[q] = tx[q]
  BY <1>1, <1>3, <1>4 DEF Kept, LedgerInv
<1>6. HeadOf(rows).seq \in Nat /\ HeadOf(rows') = HeadOf(rows)
  BY <1>1, <1>3, HeadIsNatural
<1>7. /\ t.stage = "open" /\ t.content = c
      /\ cmd.step = "recording" /\ cmd.after = after /\ cmd.content = c
      /\ cmd.since = HeadOf(rows).seq
  OBVIOUS
<1>. HIDE DEF cmd, t
<1>8. Pending(o)'
  BY <1>5, <1>6, <1>7 DEF Pending
<1>9. ASSUME NEW q \in Operators, q # o, command[q] # NoCommand PROVE Pending(q)'
  BY <1>3, <1>5, <1>9, OthersWait
<1>10. Kept'
  BY <1>1, <1>3, <1>5, <1>8, <1>9 DEF Kept
<1>. QED
  BY <1>3, <1>10, KeptIs

LEMMA RowsHaltedAndResumed ==
    ASSUME NEW row \in Row
    PROVE  /\ \A why \in Reasons : Halted(row, why) \in Row
           /\ Resumed(row) \in Row
           /\ [row EXCEPT !.noticed = TRUE] \in Row
  BY DEF Halted, Resumed, Row

\* A command that has its answer ends, with its effect or without.
LEMMA EndStep ==
    ASSUME MandateInv, NEW o \in Operators, command' = [command EXCEPT ![o] = NoCommand],
           tx' = [tx EXCEPT ![o] = Idle], UNCHANGED <<rows, lock, lost, edits, pin, notice>>,
           mandate' \in Row
    PROVE  MandateInv'
<1>1. LedgerInv /\ Kept /\ o \in Procs
  BY KeptIs, Constants
<1>2. LedgerInv'
  BY <1>1, ReleaseStep
<1>3. /\ DOMAIN command' = Operators /\ command'[o] = NoCommand
      /\ \A q \in Operators : q # o => command'[q] = command[q] /\ tx'[q] = tx[q]
  BY <1>1 DEF Kept, LedgerInv
<1>4. ASSUME NEW q \in Operators, q # o, command[q] # NoCommand PROVE Pending(q)'
  BY <1>3, <1>4, OthersWait
<1>5. Kept'
  BY <1>1, <1>3, <1>4 DEF Kept
<1>. QED
  BY <1>2, <1>5, KeptIs

\* The mandate and the notices change, and nothing else.
LEMMA AsideStep ==
    ASSUME MandateInv, UNCHANGED <<ledgerVars, command>>, mandate' \in Row,
           notice' \in [Notifiers -> SUBSET Row]
    PROVE  MandateInv'
<1>1. LedgerInv /\ Kept /\ LedgerInv' /\ UNCHANGED <<rows, edits, tx, command>>
  BY KeptIs, LedgerStutters DEF ledgerVars
<1>2. \A q \in Operators : command[q] # NoCommand => Pending(q)'
  BY <1>1, OthersWait
<1>3. Kept'
  BY <1>1, <1>2 DEF Kept
<1>. QED
  BY <1>1, <1>3, KeptIs

LEMMA AroundStep ==
    ASSUME MandateInv, Around
    PROVE  MandateInv'
<1>1. LedgerInv /\ Kept /\ UNCHANGED <<mandate, command, notice>>
  BY KeptIs DEF Around
<1>2. CASE PinHead
  <2>1. LedgerInv' /\ UNCHANGED <<rows, edits, tx>>
    BY <1>1, <1>2, PinStep DEF PinHead
  <2>2. \A q \in Operators : command[q] # NoCommand => Pending(q)'
    BY <1>1, <2>1, OthersWait
  <2>3. Kept'
    BY <1>1, <2>2 DEF Kept
  <2>. QED
    BY <2>1, <2>3, KeptIs
<1>3. ASSUME NEW how \in {"edited", "rewritten", "removed"}, EditRow(how) PROVE MandateInv'
  <2>1. LedgerInv'
    BY <1>1, <1>3, EditStep
  <2>2. tx' = tx
    BY <1>3 DEF EditRow
  <2>3. edits' # <<>>
    <3>1. edits \in Seq(Marks)
      BY <1>1 DEF LedgerInv, History
    <3>2. PICK m : edits' = Append(edits, m)
      BY <1>3 DEF EditRow
    <3>. QED
      BY <3>1, <3>2
  <2>4. \A q \in Operators : command[q] # NoCommand => Pending(q)'
    BY <1>1, <2>2, <2>3 DEF Kept, Pending
  <2>5. Kept'
    BY <1>1, <2>4 DEF Kept
  <2>. QED
    BY <2>1, <2>5, KeptIs
<1>. QED
  BY <1>2, <1>3 DEF Around

LEMMA MandateStep == MandateInv /\ [MandateNext]_mandateVars => MandateInv'
<1>. SUFFICES ASSUME MandateInv, [MandateNext]_mandateVars PROVE MandateInv'
  OBVIOUS
<1>1. Kept /\ mandate \in Row /\ notice \in [Notifiers -> SUBSET Row]
  BY KeptIs DEF Kept
<1>2. ASSUME NEW p \in Procs, Appending(p) PROVE MandateInv'
  BY <1>2, AppendingStep
<1>3. ASSUME NEW o \in Operators, HaltCommand(o) PROVE MandateInv'
  BY <1>1, <1>3, CommandStep, RowsHaltedAndResumed DEF HaltCommand
<1>4. ASSUME NEW o \in Operators, ResumeCommand(o) PROVE MandateInv'
  BY <1>1, <1>4, CommandStep, RowsHaltedAndResumed DEF ResumeCommand
<1>5. ASSUME NEW o \in Operators, SaveMandate(o) PROVE MandateInv'
  <2>1. command[o].step = "recording"
    BY <1>5 DEF SaveMandate
  <2>2. Pending(o)
    BY <1>1, <2>1 DEF Kept, NoCommand
  <2>3. mandate' \in Row
    BY <1>5, <2>2 DEF SaveMandate, Pending
  <2>. QED
    BY <1>5, <2>3, EndStep DEF SaveMandate
<1>6. ASSUME NEW o \in Operators, GiveUp(o) PROVE MandateInv'
  <2>1. mandate' \in Row
    BY <1>1, <1>6 DEF GiveUp
  <2>. QED
    BY <1>6, <2>1, EndStep DEF GiveUp
<1>7. ASSUME NEW w \in Notifiers, LoadForNotice(w) PROVE MandateInv'
  <2>1. mandate' \in Row /\ notice' \in [Notifiers -> SUBSET Row]
    BY <1>1, <1>7 DEF LoadForNotice
  <2>. QED
    BY <1>7, <2>1, AsideStep DEF LoadForNotice
<1>8. ASSUME NEW w \in Notifiers, SaveNotice(w) PROVE MandateInv'
  <2>1. notice' \in [Notifiers -> SUBSET Row]
    BY <1>1, <1>8 DEF SaveNotice
  <2>2. mandate' \in Row
    BY <1>1, <1>8, RowsHaltedAndResumed DEF SaveNotice
  <2>. QED
    BY <1>8, <2>1, <2>2, AsideStep DEF SaveNotice
<1>9. CASE Around
  BY <1>9, AroundStep
<1>10. CASE UNCHANGED mandateVars
  BY <1>1, <1>10, AsideStep DEF mandateVars
<1>. QED
  BY <1>2, <1>3, <1>4, <1>5, <1>6, <1>7, <1>8, <1>9, <1>10 DEF MandateNext

LEMMA MandateAlways == MandateSpec => []MandateInv
  BY MandateInitial, MandateStep, PTL DEF MandateSpec

\* The mandate, the commands under way and the copies that workers hold keep
\* their types.
THEOREM MandateTyped == MandateSpec => []MandateTypeOK
<1>1. MandateInv => MandateTypeOK
  BY DEF MandateInv
<1>. QED
  BY <1>1, MandateAlways, PTL

\* The commands of the console, whose appends are waited for and may be taken
\* for failed when they were not, leave the chain as whole as the others'.
THEOREM LedgerUnderCommands == MandateSpec => []LedgerSound
<1>1. MandateInv => LedgerSound
  BY LedgerInvSound DEF MandateInv
<1>. QED
  BY <1>1, MandateAlways, PTL

\* The mandate keeps its form meanwhile: what a command or a worker saves is a
\* row they have read, but for what they change in it.
THEOREM MandateIsSound == MandateSpec => []MandateSound
<1>1. MandateTypeOK /\ LedgerSound => MandateSound
  BY DEF MandateSound
<1>. QED
  BY <1>1, MandateTyped, LedgerUnderCommands, PTL

\* A halt or a resumption that takes effect has left its entry in the chain
\* since it read the mandate.
THEOREM Recorded == MandateSpec => EffectsAreOnRecord
<1>. DEFINE Effect == \A o \in Operators :
        LET cmd == command[o]
        IN  cmd.step = "recording" /\ command'[o] = NoCommand /\ mandate' # mandate
            /\ edits = <<>>
                => \E r \in rows : r.seq > cmd.since /\ r.content = Stored[cmd.content]
<1>1. MandateInv /\ [MandateNext]_mandateVars => [Effect]_mandateVars
  <2>. SUFFICES ASSUME MandateInv, MandateNext, NEW o \in Operators,
                       command[o].step = "recording", command'[o] = NoCommand,
                       mandate' # mandate, edits = <<>>
                PROVE  \E r \in rows : r.seq > command[o].since
                                       /\ r.content = Stored[command[o].content]
    OBVIOUS
  <2>1. command'[o] # command[o] /\ Pending(o) /\ DOMAIN command = Operators
    BY DEF NoCommand, MandateInv
  <2>2. ASSUME NEW q \in Operators, SaveMandate(q) PROVE q = o
    BY <2>1, <2>2 DEF SaveMandate
  <2>3. ASSUME NEW q \in Operators, HaltCommand(q) \/ ResumeCommand(q) \/ GiveUp(q) PROVE FALSE
    BY <2>3 DEF HaltCommand, ResumeCommand, Command, GiveUp
  <2>4. ASSUME NEW w \in Notifiers, LoadForNotice(w) \/ SaveNotice(w) PROVE FALSE
    BY <2>1, <2>4 DEF LoadForNotice, SaveNotice
  <2>5. ASSUME (\E p \in Procs : Appending(p)) \/ Around PROVE FALSE
    BY <2>5 DEF Appending, Around
  <2>6. SaveMandate(o)
    BY <2>2, <2>3, <2>4, <2>5 DEF MandateNext
  <2>7. tx[o].stage = "answered" /\ tx[o].ok
    BY <2>6 DEF SaveMandate, MaySave
  <2>. QED
    BY <2>1, <2>7 DEF Pending
<1>2. [][MandateNext]_mandateVars /\ []MandateInv => [][Effect]_mandateVars
  BY <1>1, PTL
<1>. QED
  BY <1>2, MandateAlways, PTL DEF MandateSpec, EffectsAreOnRecord

=============================================================================
