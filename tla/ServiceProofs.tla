--------------------------- MODULE ServiceProofs ---------------------------
(***************************************************************************)
(* Theorems about the components around the incidents, for any number of   *)
(* their actors and any values of their limits.                            *)
(*                                                                         *)
(*   Session    SessionTyped, Accounted, Retiring, HubBalanced, Gapless    *)
(*   RateLimit  LimiterIsSound   a client that the full table has not made *)
(*                               room from is limited as if it were alone  *)
(*   Edge       EdgeIsSound      a request that arrives has one answer     *)
(*   Gateway    GatewayIsSound   a payment is captured once, and what is   *)
(*                               recorded of it happened                   *)
(*   Emitter    EmitterIsSound   webhooks arrive as often as they should   *)
(*                               and stop when the sender does             *)
(*   Timeline   TimelineIsSound  an outage is seen to end, and what a      *)
(*                               notice tells is the rate payments fail at *)
(***************************************************************************)
EXTENDS Session, RateLimit, Edge, Gateway, Emitter, Timeline,
        FiniteSetTheorems, SequenceTheorems, WellFoundedInduction, TLAPS

-----------------------------------------------------------------------------
(* The live stream *)

Ref == [id : Sessions, epoch : Nat, age : 0..Retention]

\* Each reference belongs to a kept session and to no epoch still to come, and
\* the references of one session are in the order of its epochs.
Ordered(list, known_, epoch_) ==
    /\ list \in Seq(Ref)
    /\ \A i \in DOMAIN list : list[i].id \in known_ /\ list[i].epoch <= epoch_[list[i].id]
    /\ \A i, j \in DOMAIN list :
          i < j /\ list[i].id = list[j].id => list[i].epoch < list[j].epoch

\* The kept sessions are the occupied ones, whose references are all stale, and
\* those that have a reference of their present epoch.
Awaiting(list, members, known_, epoch_) ==
    /\ known_ \subseteq Sessions
    /\ \A s \in Sessions : members[s] # {} => s \in known_
    /\ \A s \in known_ : members[s] # {} =>
          \A i \in DOMAIN list : list[i].id = s => list[i].epoch < epoch_[s]
    /\ \A s \in known_ : members[s] = {} =>
          \E i \in DOMAIN list : list[i].id = s /\ list[i].epoch = epoch_[s]

Books(list, members, known_, epoch_) ==
    Ordered(list, known_, epoch_) /\ Awaiting(list, members, known_, epoch_)

\* A stream is attached while its handler serves it, and is short of eviction.
Attachment ==
    /\ streams = Cardinality(attached) /\ streams <= MaxStreams
    /\ active = Cardinality(Occupied)
    /\ \A c \in attached : conn[c] \in {"open", "greeted", "pumping"} /\ drops[c] < MaxDrops

HubInv ==
    /\ SessionTypeOK
    /\ Attachment
    /\ Books(retired, Members(attached), known, epoch)

\* The frames on the way to a browser: their numbers grow, and number and count
\* run in parallel, from the last frame written through the channel to the
\* counter of the session.
Parallel(c) ==
    LET s == SessionOf[c]
        q == chan[c]
    IN  /\ \A i, j \in DOMAIN q : i < j => q[i].seq < q[j].seq
        /\ \A i, j \in DOMAIN q : q[i].nth - q[i].seq = q[j].nth - q[j].seq
        /\ \A i \in DOMAIN q : lastSeq[c] < q[i].seq
        /\ \A i \in DOMAIN q : lastSeq[c] > 0 => heard[c] - lastSeq[c] = q[i].nth - q[i].seq
        /\ c \in attached =>
            /\ \A i \in DOMAIN q : q[i].seq <= seq[s] /\ q[i].nth - q[i].seq = handed[s] - seq[s]
            /\ lastSeq[c] <= seq[s]
            /\ lastSeq[c] > 0 => heard[c] - lastSeq[c] = handed[s] - seq[s]

SessionInv == HubInv /\ \A c \in Clients : Parallel(c)

-----------------------------------------------------------------------------
(* The retirement list *)

LEMMA LeastNatural ==
    ASSUME NEW T \in SUBSET Nat, T # {}
    PROVE  \E x \in T : \A y \in T : x <= y
<1>1. PICK x \in T : \A y \in T : ~(<<y, x>> \in OpToRel(<, Nat))
  BY WFMin, NatLessThanWellFounded
<1>2. \A y \in T : ~(y < x)
  BY <1>1 DEF OpToRel
<1>. QED
  BY <1>2

LEMMA Limits ==
    /\ SubscriberBuffer \in Nat \ {0} /\ MaxDrops \in Nat \ {0} /\ MaxStreams \in Nat \ {0}
    /\ MaxRetained \in Nat \ {0} /\ Retention \in Nat \ {0}
  BY SessionAssumption

LEMMA FirstKeptType ==
    ASSUME NEW list \in Seq(Ref), NEW members, NEW known_, NEW epoch_
    PROVE  FirstKept(list, members, known_, epoch_) \in 1..Len(list) + 1
<1>. DEFINE stays(i) == /\ ~Stale(list[i], members, known_, epoch_)
                        /\ Len(list) - i + 1 <= MaxRetained
                        /\ list[i].age < Retention
            T == {k \in 1..Len(list) + 1 : k = Len(list) + 1 \/ stays(k)}
<1>1. Len(list) \in Nat
  OBVIOUS
<1>2. T \in SUBSET Nat /\ Len(list) + 1 \in T
  BY <1>1
<1>3. PICK k \in T : \A j \in T : k <= j
  BY <1>2, LeastNatural
<1>4. \A i \in 1..k - 1 : ~stays(i)
  <2>. SUFFICES ASSUME NEW i \in 1..k - 1, stays(i) PROVE FALSE
    OBVIOUS
  <2>1. k \in 1..Len(list) + 1
    BY <1>3
  <2>2. i \in 1..Len(list) + 1 /\ i < k /\ i \in Nat /\ k \in Nat
    BY <1>1, <2>1
  <2>3. i \in T
    BY <2>2
  <2>. QED
    BY <1>3, <2>2, <2>3
<1>5. \E x \in 1..Len(list) + 1 :
          /\ x = Len(list) + 1 \/ stays(x)
          /\ \A i \in 1..x - 1 : ~stays(i)
  BY <1>3, <1>4
<1>. HIDE DEF stays, T
<1>6. (CHOOSE x \in 1..Len(list) + 1 :
          /\ x = Len(list) + 1 \/ stays(x)
          /\ \A i \in 1..x - 1 : ~stays(i)) \in 1..Len(list) + 1
  BY <1>5
<1>. QED
  BY <1>6 DEF FirstKept, stays

\* Pruning drops a counter only together with its last reference, and a
\* reference to a kept counter only if it is stale.
LEMMA PruningKeepsBooks ==
    ASSUME NEW list, NEW members, NEW known_, NEW epoch_ \in [Sessions -> Nat],
           Books(list, members, known_, epoch_)
    PROVE  LET p == Pruned(list, members, known_, epoch_)
           IN  /\ Books(p.list, members, p.known, epoch_)
               /\ p.known \subseteq known_
<1>. DEFINE k == FirstKept(list, members, known_, epoch_)
            gone == {list[i].id : i \in {j \in 1..k - 1 : ~Stale(list[j], members, known_, epoch_)}}
            rest == SubSeq(list, k, Len(list))
<1>1. list \in Seq(Ref) /\ Len(list) \in Nat /\ DOMAIN list = 1..Len(list)
  BY DEF Books, Ordered
<1>2. k \in 1..Len(list) + 1
  BY <1>1, FirstKeptType
<1>3. /\ Pruned(list, members, known_, epoch_).list = rest
      /\ Pruned(list, members, known_, epoch_).known = known_ \ gone
  BY DEF Pruned
<1>4. /\ \A x \in gone : \E i \in 1..k - 1 : list[i].id = x /\ ~Stale(list[i], members, known_, epoch_)
      /\ \A i \in 1..k - 1 : ~Stale(list[i], members, known_, epoch_) => list[i].id \in gone
  OBVIOUS
<1>. HIDE DEF k, gone
<1>5. /\ rest \in Seq(Ref) /\ DOMAIN rest = 1..(Len(list) - k + 1)
      /\ \A i \in DOMAIN rest : i + (k - 1) \in DOMAIN list /\ rest[i] = list[i + (k - 1)]
  <2>1. CASE k = Len(list) + 1
    BY <1>1, <2>1
  <2>2. CASE k \in 1..Len(list)
    BY <1>1, <2>2
  <2>. QED
    BY <1>1, <1>2, <2>1, <2>2
<1>. HIDE DEF rest
<1>6. \A i \in 1..k - 1 : i \in DOMAIN list
  BY <1>1, <1>2
<1>7. Ordered(rest, known_ \ gone, epoch_)
  <2>1. \A i \in DOMAIN rest : rest[i].id \in known_ /\ rest[i].epoch <= epoch_[rest[i].id]
    BY <1>5 DEF Books, Ordered
  <2>2. \A i, j \in DOMAIN rest :
            i < j /\ rest[i].id = rest[j].id => rest[i].epoch < rest[j].epoch
    <3>. SUFFICES ASSUME NEW i \in DOMAIN rest, NEW j \in DOMAIN rest, i < j, rest[i].id = rest[j].id
                  PROVE  rest[i].epoch < rest[j].epoch
      OBVIOUS
    <3>1. i + (k - 1) < j + (k - 1)
      BY <1>1, <1>2, <1>5
    <3>. QED
      BY <1>5, <3>1 DEF Books, Ordered
  <2>3. \A j \in DOMAIN rest : rest[j].id \notin gone
    <3>. SUFFICES ASSUME NEW j \in DOMAIN rest, rest[j].id \in gone PROVE FALSE
      OBVIOUS
    <3>1. PICK i \in 1..k - 1 : list[i].id = rest[j].id /\ ~Stale(list[i], members, known_, epoch_)
      BY <1>4
    <3>2. list[i].epoch = epoch_[rest[j].id]
      BY <3>1 DEF Stale
    <3>3. i < j + (k - 1) /\ i \in DOMAIN list /\ j + (k - 1) \in DOMAIN list
      BY <1>1, <1>2, <1>5, <1>6
    <3>4. list[i].epoch < rest[j].epoch
      BY <1>5, <3>1, <3>3 DEF Books, Ordered
    <3>5. rest[j] \in Ref /\ list[i] \in Ref
      BY <1>1, <1>5, <3>3
    <3>. QED
      BY <2>1, <3>2, <3>4, <3>5 DEF Ref
  <2>. QED
    BY <1>5, <2>1, <2>2, <2>3 DEF Ordered
<1>8. Awaiting(rest, members, known_ \ gone, epoch_)
  <2>1. \A s \in Sessions : members[s] # {} => s \in known_ \ gone
    BY <1>4 DEF Books, Awaiting, Stale
  <2>2. \A s \in known_ \ gone : members[s] # {} =>
            \A i \in DOMAIN rest : rest[i].id = s => rest[i].epoch < epoch_[s]
    BY <1>5 DEF Books, Awaiting
  <2>3. ASSUME NEW s \in known_ \ gone, members[s] = {}
        PROVE  \E i \in DOMAIN rest : rest[i].id = s /\ rest[i].epoch = epoch_[s]
    <3>1. PICK i \in DOMAIN list : list[i].id = s /\ list[i].epoch = epoch_[s]
      BY <2>3 DEF Books, Awaiting
    <3>2. ~Stale(list[i], members, known_, epoch_)
      BY <2>3, <3>1 DEF Stale
    <3>3. i \notin 1..k - 1
      BY <1>4, <2>3, <3>1, <3>2
    <3>4. i - k + 1 \in DOMAIN rest /\ (i - k + 1) + (k - 1) = i
      BY <1>1, <1>2, <1>5, <3>3
    <3>. QED
      BY <1>5, <3>1, <3>4
  <2>. QED
    BY <2>1, <2>2, <2>3 DEF Books, Awaiting
<1>. QED
  BY <1>3, <1>7, <1>8 DEF Books

\* The books speak of kept counters only.
LEMMA BooksOfKept ==
    ASSUME NEW list, NEW members, NEW known_, NEW e1, NEW e2,
           Books(list, members, known_, e1), \A s \in known_ : e2[s] = e1[s]
    PROVE  Books(list, members, known_, e2)
<1>1. \A i \in DOMAIN list : e2[list[i].id] = e1[list[i].id]
  BY DEF Books, Ordered
<1>2. Ordered(list, known_, e2)
  BY <1>1 DEF Books, Ordered
<1>3. Awaiting(list, members, known_, e2)
  BY DEF Books, Awaiting
<1>. QED
  BY <1>2, <1>3 DEF Books

\* Only which sessions are occupied matters to them.
LEMMA BooksOfOccupied ==
    ASSUME NEW list, NEW m1, NEW m2, NEW known_, NEW epoch_,
           Books(list, m1, known_, epoch_), \A s \in Sessions : m2[s] = {} <=> m1[s] = {}
    PROVE  Books(list, m2, known_, epoch_)
<1>1. \A s \in known_ : s \in Sessions
  BY DEF Books, Awaiting
<1>. QED
  BY <1>1 DEF Books, Awaiting

\* One reference of the present epoch for each session that is left.
References(refs, m1, m2, epoch_) ==
    /\ refs \in Seq(Ref)
    /\ \A i \in DOMAIN refs :
          /\ m1[refs[i].id] # {} /\ m2[refs[i].id] = {}
          /\ refs[i].epoch = epoch_[refs[i].id]
    /\ \A i, j \in DOMAIN refs : refs[i].id = refs[j].id => i = j
    /\ \A s \in Sessions : m2[s] # {} => m1[s] # {}
    /\ \A s \in Sessions : m1[s] # {} /\ m2[s] = {} => \E i \in DOMAIN refs : refs[i].id = s

LEMMA LeavingKeepsBooks ==
    ASSUME NEW list, NEW m1, NEW m2, NEW known_, NEW epoch_ \in [Sessions -> Nat],
           Books(list, m1, known_, epoch_), NEW refs, References(refs, m1, m2, epoch_)
    PROVE  Books(list \o refs, m2, known_, epoch_)
<1>. DEFINE all == list \o refs
            l == Len(list)
            n == Len(refs)
<1>1. list \in Seq(Ref) /\ l \in Nat /\ DOMAIN list = 1..l
  BY DEF Books, Ordered
<1>2. \A i \in 1..l : list[i] \in Ref
  BY <1>1
<1>3. refs \in Seq(Ref) /\ n \in Nat /\ DOMAIN refs = 1..n
  BY DEF References
<1>4. \A i \in 1..n : refs[i] \in Ref /\ refs[i].id \in Sessions
  <2>1. \A i \in 1..n : refs[i] \in Ref
    BY <1>3
  <2>. QED
    BY <2>1 DEF Ref
<1>5. \A i \in 1..n : /\ m1[refs[i].id] # {} /\ m2[refs[i].id] = {}
                      /\ refs[i].epoch = epoch_[refs[i].id]
  BY <1>3 DEF References
<1>6. /\ all \in Seq(Ref) /\ Len(all) = l + n /\ DOMAIN all = 1..(l + n)
      /\ \A i \in 1..l : all[i] = list[i]
      /\ \A i \in 1..n : all[l + i] = refs[i]
      /\ \A i \in 1..(l + n) : i \notin 1..l => i - l \in 1..n /\ all[i] = refs[i - l]
  BY <1>1, <1>3
<1>. HIDE DEF all, l, n
<1>7. \A i \in 1..l : list[i].id \in known_ /\ list[i].epoch <= epoch_[list[i].id]
  BY <1>1 DEF Books, Ordered
<1>8. \A s \in known_ : s \in Sessions
  BY DEF Books, Awaiting
<1>9. \A s \in Sessions : m1[s] # {} => s \in known_
  BY DEF Books, Awaiting
<1>10. \A i \in 1..l : m1[list[i].id] # {} => list[i].epoch < epoch_[list[i].id]
  BY <1>1, <1>7 DEF Books, Awaiting
<1>11. Ordered(all, known_, epoch_)
  <2>1. \A i \in DOMAIN all : all[i].id \in known_ /\ all[i].epoch <= epoch_[all[i].id]
    BY <1>4, <1>5, <1>6, <1>7, <1>9
  <2>2. ASSUME NEW i \in DOMAIN all, NEW j \in DOMAIN all, i < j, all[i].id = all[j].id
        PROVE  all[i].epoch < all[j].epoch
    <3>1. CASE j \in 1..l
      <4>1. i \in 1..l
        BY <1>1, <1>6, <2>2, <3>1
      <4>. QED
        BY <1>1, <1>6, <2>2, <3>1, <4>1 DEF Books, Ordered
    <3>2. CASE i \in 1..l /\ j \notin 1..l
      <4>1. j - l \in 1..n /\ all[j] = refs[j - l]
        BY <1>6, <3>2
      <4>2. m1[all[j].id] # {} /\ all[j].epoch = epoch_[all[j].id]
        BY <1>5, <4>1
      <4>3. all[i] = list[i]
        BY <1>6, <3>2
      <4>. QED
        BY <1>10, <2>2, <3>2, <4>2, <4>3
    <3>3. CASE i \notin 1..l /\ j \notin 1..l
      <4>1. i - l = j - l
        BY <1>3, <1>6, <2>2, <3>3 DEF References
      <4>. QED
        BY <1>1, <1>6, <2>2, <4>1
    <3>. QED
      BY <3>1, <3>2, <3>3
  <2>. QED
    BY <1>6, <2>1, <2>2 DEF Ordered
<1>12. Awaiting(all, m2, known_, epoch_)
  <2>1. \A s \in Sessions : m2[s] # {} => m1[s] # {}
    BY DEF References
  <2>2. ASSUME NEW s \in known_, m2[s] # {}, NEW i \in DOMAIN all, all[i].id = s
        PROVE  all[i].epoch < epoch_[s]
    <3>1. m1[s] # {}
      BY <1>8, <2>1, <2>2
    <3>2. i \in 1..l
      <4>. SUFFICES ASSUME i \notin 1..l PROVE FALSE
        OBVIOUS
      <4>1. i - l \in 1..n /\ all[i] = refs[i - l]
        BY <1>6
      <4>. QED
        BY <1>5, <2>2, <4>1
    <3>. QED
      BY <1>6, <1>10, <2>2, <3>1, <3>2
  <2>3. ASSUME NEW s \in known_, m2[s] = {}
        PROVE  \E i \in DOMAIN all : all[i].id = s /\ all[i].epoch = epoch_[s]
    <3>1. CASE m1[s] # {}
      <4>1. PICK i \in 1..n : refs[i].id = s
        BY <1>3, <1>8, <2>3, <3>1 DEF References
      <4>2. l + i \in DOMAIN all
        BY <1>1, <1>3, <1>6
      <4>. QED
        BY <1>5, <1>6, <4>1, <4>2
    <3>2. CASE m1[s] = {}
      <4>1. PICK i \in 1..l : list[i].id = s /\ list[i].epoch = epoch_[s]
        BY <1>1, <3>2 DEF Books, Awaiting
      <4>2. i \in DOMAIN all
        BY <1>1, <1>3, <1>6
      <4>. QED
        BY <1>6, <4>1, <4>2
    <3>. QED
      BY <3>1, <3>2
  <2>. QED
    BY <1>8, <1>9, <2>1, <2>2, <2>3 DEF Awaiting
<1>. QED
  BY <1>11, <1>12 DEF Books, all

-----------------------------------------------------------------------------
(* The critical sections of the hub *)

LEMMA OccupiedIs ==
    /\ Occupied = {s \in Sessions : Members(attached)[s] # {}}
    /\ Occupied' = {s \in Sessions : Members(attached')[s] # {}}
    /\ \A s \in Sessions : Subs(s) = Members(attached)[s]
  BY DEF Occupied, Members, Subs

LEMMA StoreKeeps ==
    ASSUME NEW p, NEW members, NEW epoch_ \in [Sessions -> Nat], NEW seq_ \in [Sessions -> Nat],
           Books(p.list, members, p.known, epoch_), Store(p, epoch_, seq_)
    PROVE  /\ Books(retired', members, known', epoch')
           /\ known' \subseteq Sessions
           /\ seq' \in [Sessions -> Nat] /\ epoch' \in [Sessions -> Nat]
           /\ \A s \in Sessions : members[s] # {} => seq'[s] = seq_[s]
<1>1. p.known \subseteq Sessions /\ \A s \in Sessions : members[s] # {} => s \in p.known
  BY DEF Books, Awaiting
<1>2. retired' = p.list /\ known' = p.known /\ \A s \in p.known : epoch'[s] = epoch_[s]
  BY <1>1 DEF Store
<1>3. Books(p.list, members, p.known, epoch')
  BY <1>2, BooksOfKept
<1>. QED
  BY <1>1, <1>2, <1>3 DEF Store

\* Whoever is taken off is taken off once, and the books stay in order.
LEMMA DetachKeeps ==
    ASSUME HubInv, NEW gone \in SUBSET Clients, NEW seq_ \in [Sessions -> Nat],
           Detach(gone, seq_)
    PROVE  /\ attached' = attached \ gone
           /\ streams' = Cardinality(attached') /\ streams' <= MaxStreams
           /\ active' = Cardinality(Occupied')
           /\ Books(retired', Members(attached'), known', epoch')
           /\ known' \subseteq Sessions
           /\ seq' \in [Sessions -> Nat] /\ epoch' \in [Sessions -> Nat]
           /\ \A c \in attached' : seq'[SessionOf[c]] = seq_[SessionOf[c]]
<1>. DEFINE parting == gone \cap attached
            left == attached \ parting
            emptied == {s \in Sessions : Subs(s) # {} /\ Subs(s) \subseteq parting}
            n == Cardinality(emptied)
            order == CHOOSE q \in [1..n -> emptied] : \A s \in emptied : \E i \in DOMAIN q : q[i] = s
            refs == [i \in DOMAIN order |->
                        [id |-> order[i], epoch |-> epoch[order[i]], age |-> 0]]
<1>1. /\ attached' = left /\ left = attached \ gone
      /\ streams' = streams - Cardinality(parting)
      /\ active' = active - n
      /\ emptied = {} => seq' = seq_ /\ UNCHANGED <<known, epoch, retired>>
      /\ emptied # {} =>
            Store(Pruned(retired \o refs, Members(left), known, epoch), epoch, seq_)
  BY Zenon DEF Detach
<1>2. /\ IsFiniteSet(attached) /\ IsFiniteSet(Sessions)
      /\ attached \subseteq Clients /\ epoch \in [Sessions -> Nat]
      /\ IsFiniteSet(emptied) /\ n \in Nat
      /\ IsFiniteSet(Occupied) /\ IsFiniteSet(left)
  <2>1. IsFiniteSet(attached) /\ attached \subseteq Clients /\ IsFiniteSet(Sessions)
    BY SessionAssumption, FS_Subset DEF HubInv, SessionTypeOK
  <2>2. emptied \subseteq Sessions /\ Occupied \subseteq Sessions /\ left \subseteq attached
    BY DEF Occupied
  <2>. QED
    BY <2>1, <2>2, FS_Subset, FS_CardinalityType DEF HubInv, SessionTypeOK
<1>3. streams' = Cardinality(attached') /\ streams' <= MaxStreams
  <2>1. attached \cap parting = parting /\ left \subseteq attached
    OBVIOUS
  <2>2. Cardinality(left) = Cardinality(attached) - Cardinality(parting)
    <3>. HIDE DEF parting
    <3>1. Cardinality(left) = Cardinality(attached) - Cardinality(attached \cap parting)
      BY <1>2, FS_Difference
    <3>. QED
      BY <2>1, <3>1
  <2>3. /\ Cardinality(left) \in Nat /\ Cardinality(attached) \in Nat
        /\ Cardinality(left) <= Cardinality(attached)
    BY <1>2, <2>1, FS_CardinalityType, FS_Subset
  <2>. QED
    BY <1>1, <2>2, <2>3, Limits DEF HubInv, Attachment
<1>4. \A s \in Sessions : /\ Members(left)[s] = Subs(s) \ parting
                          /\ Members(attached)[s] = Subs(s)
  BY DEF Members, Subs
<1>5. active' = Cardinality(Occupied')
  <2>1. Occupied' = Occupied \ emptied /\ Occupied \cap emptied = emptied
    <3>1. \A s \in Sessions : s \in Occupied' <=> Subs(s) \ parting # {}
      <4>. HIDE DEF left
      <4>. QED
        BY <1>1, <1>4, OccupiedIs
    <3>2. \A s \in Sessions : s \in Occupied <=> Subs(s) # {}
      BY DEF Occupied
    <3>3. Occupied' \subseteq Sessions /\ Occupied \subseteq Sessions
      BY DEF Occupied
    <3>4. \A s \in Sessions : s \in emptied <=> Subs(s) # {} /\ Subs(s) \ parting = {}
      OBVIOUS
    <3>5. emptied \subseteq Sessions
      OBVIOUS
    <3>. HIDE DEF emptied, parting
    <3>. QED
      BY <3>1, <3>2, <3>3, <3>4, <3>5
  <2>2. Cardinality(Occupied \ emptied) = Cardinality(Occupied) - n
    BY <1>2, <2>1, FS_Difference
  <2>. QED
    BY <1>1, <2>1, <2>2 DEF HubInv, Attachment
<1>6. /\ \A s \in emptied : Members(attached)[s] # {} /\ Members(left)[s] = {}
      /\ \A s \in Sessions \ emptied : Members(left)[s] = {} <=> Members(attached)[s] = {}
  BY <1>4
<1>7. Books(retired, Members(attached), known, epoch)
  BY DEF HubInv
<1>8. /\ order \in [1..n -> emptied] /\ \A s \in emptied : \E i \in 1..n : order[i] = s
      /\ \A i, j \in 1..n : order[i] = order[j] => i = j
  <2>1. ExistsBijection(1..n, emptied)
    BY <1>2, FS_CardinalityType
  <2>2. \E q \in [1..n -> emptied] : \A s \in emptied : \E i \in 1..n : q[i] = s
    BY <2>1 DEF ExistsBijection, Bijection, Surjection
  <2>3. \E q \in [1..n -> emptied] : \A s \in emptied : \E i \in DOMAIN q : q[i] = s
    BY <2>2
  <2>. HIDE DEF emptied, n
  <2>4. order \in [1..n -> emptied] /\ \A s \in emptied : \E i \in DOMAIN order : order[i] = s
    BY <2>3, Zenon
  <2>. HIDE DEF order
  <2>5. DOMAIN order = 1..n
    BY <2>4
  <2>6. order \in Surjection(1..n, emptied)
    BY <2>4, <2>5 DEF Surjection
  <2>7. IsFiniteSet(1..n) /\ Cardinality(1..n) = n
    BY <1>2, FS_Interval
  <2>8. order \in Injection(1..n, emptied)
    BY <2>6, <2>7, FS_SurjSameCardinalityImpliesInj DEF n
  <2>9. \A i, j \in 1..n : order[i] = order[j] => i = j
    BY <2>5, <2>8 DEF Injection, IsInjective
  <2>. QED
    BY <2>4, <2>5, <2>9
<1>9. \A c \in attached' : SessionOf[c] \in Sessions /\ Members(left)[SessionOf[c]] # {}
  BY <1>1, <1>2, SessionAssumption DEF Members
<1>10. CASE emptied = {}
  <2>1. Books(retired, Members(left), known, epoch)
    BY <1>6, <1>7, <1>10, BooksOfOccupied
  <2>. QED
    BY <1>1, <1>3, <1>5, <1>10, <2>1 DEF HubInv, SessionTypeOK
<1>11. CASE emptied # {}
  <2>1. Books(retired \o refs, Members(left), known, epoch)
    <3>. HIDE DEF order, n, emptied, left
    <3>1. n \in Nat /\ emptied \in SUBSET Sessions
      BY <1>2 DEF emptied
    <3>. DEFINE m1 == Members(attached)
                m2 == Members(left)
    <3>2. /\ \A s \in emptied : m1[s] # {} /\ m2[s] = {}
          /\ \A s \in Sessions \ emptied : m2[s] = {} <=> m1[s] = {}
          /\ Books(retired, m1, known, epoch)
      BY <1>6, <1>7
    <3>. HIDE DEF m1, m2
    <3>3. /\ DOMAIN refs = 1..n
          /\ \A i \in 1..n : /\ refs[i] \in Ref /\ refs[i].id = order[i]
                            /\ refs[i].epoch = epoch[order[i]]
      BY <1>2, <1>8, <3>1, Limits DEF Ref
    <3>4. refs \in Seq(Ref)
      <4>1. refs \in [1..n -> Ref]
        BY <3>3
      <4>. QED
        BY <3>1, <4>1
    <3>. HIDE DEF refs
    <3>5. \A i \in 1..n : refs[i].id \in emptied
      BY <1>8, <3>3
    <3>6. \A s \in Sessions : m1[s] # {} /\ m2[s] = {} => \E i \in 1..n : refs[i].id = s
      BY <1>8, <3>2, <3>3
    <3>7. References(refs, m1, m2, epoch)
      <4>1. \A i \in DOMAIN refs : /\ m1[refs[i].id] # {} /\ m2[refs[i].id] = {}
                                  /\ refs[i].epoch = epoch[refs[i].id]
        BY <3>2, <3>3, <3>5
      <4>2. \A i, j \in DOMAIN refs : refs[i].id = refs[j].id => i = j
        BY <1>8, <3>3
      <4>3. \A s \in Sessions : m2[s] # {} => m1[s] # {}
        BY <3>1, <3>2
      <4>. QED
        BY <3>3, <3>4, <3>6, <4>1, <4>2, <4>3 DEF References
    <3>8. Books(retired \o refs, m2, known, epoch)
      BY <1>2, <3>2, <3>7, LeavingKeepsBooks
    <3>. QED
      BY <3>8 DEF m2
  <2>. DEFINE p == Pruned(retired \o refs, Members(left), known, epoch)
  <2>2. Books(p.list, Members(left), p.known, epoch)
    <3>. HIDE DEF left, refs
    <3>. QED
      BY <1>2, <2>1, PruningKeepsBooks
  <2>3. Store(p, epoch, seq_)
    BY <1>1, <1>11
  <2>. HIDE DEF p, left
  <2>4. /\ Books(retired', Members(left), known', epoch')
        /\ known' \subseteq Sessions
        /\ seq' \in [Sessions -> Nat] /\ epoch' \in [Sessions -> Nat]
        /\ \A s \in Sessions : Members(left)[s] # {} => seq'[s] = seq_[s]
    BY <1>2, <2>2, <2>3, StoreKeeps
  <2>. QED
    BY <1>1, <1>3, <1>5, <1>9, <2>4
<1>. QED
  BY <1>10, <1>11

\* A session that is occupied anew begins an epoch beyond every reference to it.
LEMMA SubscribeKeeps ==
    ASSUME HubInv, NEW c \in Clients, c \notin attached, Subscribe(c)
    PROVE  /\ attached' = attached \cup {c}
           /\ streams' = Cardinality(attached') /\ streams' <= MaxStreams
           /\ active' = Cardinality(Occupied')
           /\ Books(retired', Members(attached'), known', epoch')
           /\ known' \subseteq Sessions
           /\ seq' \in [Sessions -> Nat] /\ epoch' \in [Sessions -> Nat]
           /\ \A d \in attached : seq'[SessionOf[d]] = seq[SessionOf[d]]
<1>. DEFINE s == SessionOf[c]
            p == Pruned(retired, Members(attached), known, epoch)
            first == Subs(s) = {}
            e1 == [x \in Sessions |-> IF x \in p.known THEN epoch[x] ELSE 0]
            m1 == Members(attached)
            m2 == Members(attached')
<1>1. s \in Sessions
  BY SessionAssumption
<1>2. /\ streams < MaxStreams
      /\ retired' = p.list
      /\ known' = p.known \cup {s}
      /\ seq' = [x \in Sessions |-> IF x \in p.known THEN seq[x] ELSE 0]
      /\ epoch' = IF first THEN [e1 EXCEPT ![s] = @ + 1] ELSE e1
      /\ active' = IF first THEN active + 1 ELSE active
      /\ attached' = attached \cup {c}
      /\ streams' = streams + 1
  BY Zenon DEF Subscribe
<1>3. /\ Books(retired, Members(attached), known, epoch)
      /\ epoch \in [Sessions -> Nat] /\ seq \in [Sessions -> Nat]
      /\ attached \subseteq Clients /\ IsFiniteSet(attached) /\ IsFiniteSet(Occupied)
  <2>1. attached \subseteq Clients /\ Occupied \subseteq Sessions
    BY DEF HubInv, SessionTypeOK, Occupied
  <2>. QED
    BY <2>1, SessionAssumption, FS_Subset DEF HubInv, SessionTypeOK
<1>4. Books(p.list, m1, p.known, epoch) /\ p.known \subseteq known
  BY <1>3, PruningKeepsBooks
<1>. HIDE DEF p
<1>5. e1 \in [Sessions -> Nat] /\ \A x \in p.known : e1[x] = epoch[x]
  <2>1. p.known \subseteq Sessions
    BY <1>4 DEF Books, Awaiting
  <2>. QED
    BY <1>3, <2>1
<1>6. Books(p.list, m1, p.known, e1)
  <2>. HIDE DEF e1, m1
  <2>. QED
    BY <1>4, <1>5, BooksOfKept
<1>. HIDE DEF e1
<1>7. /\ \A x \in Sessions : m1[x] = Subs(x)
      /\ \A x \in Sessions \ {s} : m2[x] = m1[x]
      /\ m2[s] = m1[s] \cup {c}
  <2>1. \A x \in Sessions : m2[x] = {d \in attached \cup {c} : SessionOf[d] = x}
    BY <1>2 DEF Members
  <2>. QED
    BY <1>1, <2>1 DEF Members, Subs
<1>. HIDE DEF m1, m2, s
<1>8. streams' = Cardinality(attached') /\ streams' <= MaxStreams
  <2>1. Cardinality(attached') = Cardinality(attached) + 1 /\ Cardinality(attached) \in Nat
    BY <1>2, <1>3, FS_AddElement, FS_CardinalityType
  <2>. QED
    BY <1>2, <2>1, Limits DEF HubInv, Attachment
<1>9. active' = Cardinality(Occupied')
  <2>1. /\ \A x \in Sessions : x \in Occupied' <=> m2[x] # {}
        /\ \A x \in Sessions : x \in Occupied <=> m1[x] # {}
        /\ Occupied' \subseteq Sessions /\ Occupied \subseteq Sessions
    BY <1>7, OccupiedIs DEF Occupied, m2
  <2>2. Occupied' = Occupied \cup {s} /\ (s \in Occupied <=> ~first)
    BY <1>1, <1>7, <2>1
  <2>3. Cardinality(Occupied') = IF first THEN Cardinality(Occupied) + 1 ELSE Cardinality(Occupied)
    BY <1>3, <2>2, FS_AddElement
  <2>. QED
    BY <1>2, <2>3 DEF HubInv, Attachment
<1>10. \A x \in Sessions : m1[x] # {} => x \in p.known
  BY <1>6 DEF Books, Awaiting
<1>11. known' \subseteq Sessions
  BY <1>1, <1>2, <1>6 DEF Books, Awaiting
<1>12. seq' \in [Sessions -> Nat] /\ \A d \in attached : seq'[SessionOf[d]] = seq[SessionOf[d]]
  <2>1. \A d \in attached : SessionOf[d] \in Sessions /\ m1[SessionOf[d]] # {}
    BY <1>3, <1>7, SessionAssumption DEF Subs
  <2>. QED
    BY <1>2, <1>3, <1>10, <2>1
<1>13. CASE ~first
  <2>1. s \in p.known /\ known' = p.known /\ epoch' = e1
    BY <1>1, <1>2, <1>7, <1>10, <1>13
  <2>2. \A x \in Sessions : m2[x] = {} <=> m1[x] = {}
    BY <1>1, <1>7, <1>13
  <2>3. Books(p.list, m2, p.known, e1)
    BY <1>6, <2>2, BooksOfOccupied
  <2>. QED
    BY <1>2, <1>5, <1>8, <1>9, <1>11, <1>12, <2>1, <2>3 DEF m2
<1>14. CASE first
  <2>1. /\ epoch' \in [Sessions -> Nat] /\ epoch'[s] = e1[s] + 1
        /\ \A x \in Sessions \ {s} : epoch'[x] = e1[x]
    BY <1>1, <1>2, <1>5, <1>14
  <2>2. p.list \in Seq(Ref) /\ \A i \in DOMAIN p.list : p.list[i] \in Ref
    BY <1>6 DEF Books, Ordered
  <2>3. \A i \in DOMAIN p.list : p.list[i].id \in Sessions /\ p.list[i].epoch \in Nat
    BY <2>2 DEF Ref
  <2>4. \A i \in DOMAIN p.list : p.list[i].epoch <= e1[p.list[i].id] /\ p.list[i].id \in p.known
    BY <1>6 DEF Books, Ordered
  <2>5. \A i \in DOMAIN p.list : p.list[i].epoch <= epoch'[p.list[i].id] /\ p.list[i].id \in known'
    BY <1>2, <1>5, <2>1, <2>3, <2>4
  <2>6. Ordered(p.list, known', epoch')
    BY <1>6, <2>5 DEF Books, Ordered
  <2>7. ASSUME NEW x \in known', m2[x] # {}, NEW i \in DOMAIN p.list, p.list[i].id = x
        PROVE  p.list[i].epoch < epoch'[x]
    <3>1. CASE x = s
      BY <1>1, <1>5, <2>1, <2>3, <2>4, <2>7, <3>1
    <3>2. CASE x # s
      <4>1. x \in p.known /\ x \in Sessions /\ m1[x] # {}
        BY <1>2, <1>7, <1>11, <2>7, <3>2
      <4>. QED
        BY <1>6, <2>1, <2>7, <3>2, <4>1 DEF Books, Awaiting
    <3>. QED
      BY <3>1, <3>2
  <2>8. ASSUME NEW x \in known', m2[x] = {}
        PROVE  \E i \in DOMAIN p.list : p.list[i].id = x /\ p.list[i].epoch = epoch'[x]
    <3>1. x # s /\ x \in p.known /\ x \in Sessions /\ m1[x] = {}
      BY <1>2, <1>7, <1>11, <2>8
    <3>. QED
      BY <1>6, <2>1, <3>1 DEF Books, Awaiting
  <2>9. \A x \in Sessions : m2[x] # {} => x \in known'
    BY <1>2, <1>7, <1>10
  <2>10. Awaiting(p.list, m2, known', epoch')
    BY <1>11, <2>7, <2>8, <2>9 DEF Awaiting
  <2>. QED
    BY <1>2, <1>8, <1>9, <1>11, <1>12, <2>1, <2>6, <2>10 DEF Books, m2
<1>. QED
  BY <1>13, <1>14

-----------------------------------------------------------------------------
(* The hub's books *)

HandlerType ==
    /\ chan \in [Clients -> Seq(Frame)]
    /\ \A c \in Clients : Len(chan[c]) <= SubscriberBuffer
    /\ drops \in [Clients -> 0..MaxDrops]
    /\ conn \in [Clients -> Stage]
    /\ lastSeq \in [Clients -> Nat] /\ lastId \in [Clients -> Nat]
    /\ handed \in [Sessions -> Nat] /\ heard \in [Clients -> Nat]

InUse == \A c \in attached : conn[c] \in {"open", "greeted", "pumping"} /\ drops[c] < MaxDrops

\* HubInv, each fact once.
HubFacts ==
    /\ HandlerType /\ InUse
    /\ attached \subseteq Clients
    /\ streams = Cardinality(attached) /\ streams <= MaxStreams
    /\ active = Cardinality(Occupied)
    /\ seq \in [Sessions -> Nat] /\ epoch \in [Sessions -> Nat]
    /\ Books(retired, Members(attached), known, epoch)

LEMMA HubInvIs == HubInv <=> HubFacts
<1>1. Books(retired, Members(attached), known, epoch) =>
        /\ known \subseteq Sessions
        /\ \A i \in DOMAIN retired : retired[i] \in Ref
  BY DEF Books, Ordered, Awaiting
<1>2. attached \subseteq Clients => Cardinality(attached) \in Int /\ Cardinality(Occupied) \in Int
  <2>. SUFFICES ASSUME attached \subseteq Clients
                PROVE  Cardinality(attached) \in Int /\ Cardinality(Occupied) \in Int
    OBVIOUS
  <2>1. IsFiniteSet(attached) /\ IsFiniteSet(Occupied)
    <3>1. Occupied \subseteq Sessions
      BY DEF Occupied
    <3>. QED
      BY <3>1, FS_Subset, SessionAssumption
  <2>. QED
    BY <2>1, FS_CardinalityType
<1>. QED
  BY <1>1, <1>2 DEF HubInv, HubFacts, HandlerType, InUse, SessionTypeOK, Attachment, Ref

LEMMA HubInvNext == HubFacts' => HubInv'
  BY HubInvIs, PTL

LEMMA HubStep == HubInv /\ [SessionNext]_sessionVars => HubInv'
<1>. SUFFICES ASSUME HubInv, [SessionNext]_sessionVars PROVE HubInv'
  OBVIOUS
<1>. USE DEF setVars, subVars, connVars
<1>1. /\ HandlerType /\ InUse /\ attached \subseteq Clients
      /\ streams = Cardinality(attached) /\ streams <= MaxStreams
      /\ active = Cardinality(Occupied)
      /\ seq \in [Sessions -> Nat] /\ epoch \in [Sessions -> Nat]
      /\ Books(retired, Members(attached), known, epoch)
  BY HubInvIs DEF HubFacts
<1>2. ASSUME UNCHANGED setVars, HandlerType', InUse' PROVE HubInv'
  <2>1. Occupied' = Occupied
    BY <1>2 DEF Occupied, Subs
  <2>. QED
    BY <1>1, <1>2, <2>1, HubInvNext DEF HubFacts
<1>3. ASSUME NEW gone \in SUBSET Clients, NEW seq_ \in [Sessions -> Nat], Detach(gone, seq_),
             HandlerType', InUse'
      PROVE  HubInv'
  <2>1. /\ attached' = attached \ gone
        /\ streams' = Cardinality(attached') /\ streams' <= MaxStreams
        /\ active' = Cardinality(Occupied')
        /\ Books(retired', Members(attached'), known', epoch')
        /\ seq' \in [Sessions -> Nat] /\ epoch' \in [Sessions -> Nat]
    BY <1>3, DetachKeeps
  <2>. QED
    BY <1>1, <1>3, <2>1, HubInvNext DEF HubFacts
<1>4. ASSUME NEW s \in Sessions, Publish(s) PROVE HubInv'
  <2>1. CASE PublishToNobody(s)
    BY <1>1, <1>2, <1>4, <2>1 DEF Publish, PublishToNobody, HandlerType, InUse
  <2>2. CASE PublishToStreams(s)
    <3>. DEFINE full == {c \in Subs(s) : ~Fits(c)}
                gone == {c \in full : drops[c] + 1 >= MaxDrops}
                frame == [seq |-> Numbered(s)[s], nth |-> handed[s] + 1]
    <3>1. /\ chan' = [c \in Clients |->
                        IF c \in Subs(s) \ full THEN Append(chan[c], frame) ELSE chan[c]]
          /\ drops' = [c \in Clients |-> IF c \in full THEN drops[c] + 1
                                         ELSE IF c \in Subs(s) THEN 0 ELSE drops[c]]
          /\ Detach(gone, Numbered(s))
      BY <2>2 DEF PublishToStreams
    <3>2. /\ Numbered(s) \in [Sessions -> Nat] /\ Numbered(s)[s] = seq[s] + 1
          /\ frame \in Frame
      BY <1>1 DEF Numbered, Frame, HandlerType
    <3>3. gone \in SUBSET Clients /\ full \subseteq attached /\ Subs(s) \subseteq attached
      BY <1>1 DEF Subs
    <3>4. attached' = attached \ gone
      BY <3>1, <3>2, <3>3, DetachKeeps
    <3>. HIDE DEF frame
    <3>5. chan' \in [Clients -> Seq(Frame)] /\ \A c \in Clients : Len(chan'[c]) <= SubscriberBuffer
      <4>1. ASSUME NEW c \in Clients
            PROVE  chan'[c] \in Seq(Frame) /\ Len(chan'[c]) <= SubscriberBuffer
        <5>1. CASE c \in Subs(s) \ full
          <6>1. chan'[c] = Append(chan[c], frame) /\ Len(chan[c]) < SubscriberBuffer
            BY <3>1, <5>1 DEF Fits
          <6>2. chan[c] \in Seq(Frame)
            BY <1>1 DEF HandlerType
          <6>. QED
            BY <3>2, <6>1, <6>2, Limits
        <5>2. CASE c \notin Subs(s) \ full
          BY <1>1, <3>1, <5>2 DEF HandlerType
        <5>. QED
          BY <5>1, <5>2
      <4>. QED
        BY <3>1, <4>1
    <3>6. drops' \in [Clients -> 0..MaxDrops] /\ \A c \in attached' : drops'[c] < MaxDrops
      <4>. HIDE DEF full
      <4>1. \A c \in Clients : drops[c] \in 0..MaxDrops
        BY <1>1 DEF HandlerType
      <4>2. \A c \in attached : drops[c] < MaxDrops
        BY <1>1 DEF InUse
      <4>3. \A c \in Clients : drops'[c] \in 0..MaxDrops /\ (c \in attached' => drops'[c] < MaxDrops)
        <5>. SUFFICES ASSUME NEW c \in Clients
                      PROVE  drops'[c] \in 0..MaxDrops /\ (c \in attached' => drops'[c] < MaxDrops)
          OBVIOUS
        <5>1. CASE c \in full
          BY <3>1, <3>3, <3>4, <4>1, <4>2, <5>1, Limits
        <5>2. CASE c \notin full
          BY <3>1, <3>4, <4>1, <4>2, <5>2, Limits
        <5>. QED
          BY <5>1, <5>2
      <4>. QED
        BY <1>1, <3>1, <3>4, <4>3
    <3>. HIDE DEF gone, full
    <3>7. HandlerType' /\ InUse'
      BY <1>1, <1>4, <3>4, <3>5, <3>6 DEF Publish, HandlerType, InUse
    <3>. QED
      BY <1>3, <3>1, <3>2, <3>3, <3>7
  <2>. QED
    BY <1>4, <2>1, <2>2 DEF Publish
<1>5. CASE HubShutdown
  <2>1. Detach(attached, seq) /\ attached \in SUBSET Clients
    BY <1>1, <1>5 DEF HubShutdown
  <2>2. attached' = attached \ attached
    BY <1>1, <2>1, DetachKeeps
  <2>3. HandlerType' /\ InUse'
    BY <1>1, <1>5, <2>2 DEF HubShutdown, HandlerType, InUse
  <2>. QED
    BY <1>1, <1>3, <2>1, <2>3
<1>6. ASSUME NEW c \in Clients, Request(c) PROVE HubInv'
  <2>1. CASE Connect(c) \/ Refuse(c)
    BY <1>1, <1>2, <2>1 DEF Connect, Refuse, At, HandlerType, InUse, Stage
  <2>2. CASE Greet(c) \/ Resume(c)
    <3>1. SessionOf[c] \in Sessions
      BY SessionAssumption
    <3>. QED
      BY <1>1, <1>2, <2>2, <3>1 DEF Greet, Resume, At, HandlerType, InUse, Stage
  <2>3. CASE Admit(c)
    <3>1. c \notin attached
      BY <1>1, <2>3 DEF Admit, InUse
    <3>2. /\ attached' = attached \cup {c}
          /\ streams' = Cardinality(attached') /\ streams' <= MaxStreams
          /\ active' = Cardinality(Occupied')
          /\ Books(retired', Members(attached'), known', epoch')
          /\ seq' \in [Sessions -> Nat] /\ epoch' \in [Sessions -> Nat]
      BY <2>3, <3>1, SubscribeKeeps DEF Admit
    <3>3. /\ chan' = [chan EXCEPT ![c] = <<>>] /\ drops' = [drops EXCEPT ![c] = 0]
          /\ conn' = [conn EXCEPT ![c] = "open"] /\ lastSeq' = [lastSeq EXCEPT ![c] = 0]
          /\ UNCHANGED <<lastId, handed, heard>>
      BY <2>3 DEF Admit, Subscribe, At
    <3>4. HandlerType'
      <4>1. \A d \in Clients : chan'[d] \in Seq(Frame) /\ Len(chan'[d]) <= SubscriberBuffer
        BY <1>1, <3>3, Limits DEF HandlerType
      <4>. QED
        BY <1>1, <3>3, <4>1, Limits DEF HandlerType, Stage
    <3>5. InUse'
      BY <1>1, <3>2, <3>3, Limits DEF InUse, HandlerType
    <3>. QED
      BY <1>1, <3>2, <3>4, <3>5, HubInvNext DEF HubFacts
  <2>4. CASE Deliver(c)
    <3>1. /\ conn[c] = "pumping" /\ chan[c] # <<>>
          /\ chan' = [chan EXCEPT ![c] = Tail(@)]
          /\ lastSeq' = [lastSeq EXCEPT ![c] = Head(chan[c]).seq]
          /\ lastId' = [lastId EXCEPT ![c] = Head(chan[c]).seq]
          /\ heard' = [heard EXCEPT ![c] = Head(chan[c]).nth]
          /\ UNCHANGED <<setVars, drops, conn, handed>>
      BY <2>4 DEF Deliver
    <3>2. chan[c] \in Seq(Frame) /\ Len(chan[c]) <= SubscriberBuffer
      BY <1>1 DEF HandlerType
    <3>3. Head(chan[c]) \in Frame /\ Tail(chan[c]) \in Seq(Frame) /\ Len(Tail(chan[c])) <= SubscriberBuffer
      BY <3>1, <3>2, Limits
    <3>4. Head(chan[c]).seq \in Nat /\ Head(chan[c]).nth \in Nat
      BY <3>3 DEF Frame
    <3>5. HandlerType'
      <4>1. \A d \in Clients : chan'[d] \in Seq(Frame) /\ Len(chan'[d]) <= SubscriberBuffer
        BY <1>1, <3>1, <3>3 DEF HandlerType
      <4>. QED
        BY <1>1, <3>1, <3>4, <4>1 DEF HandlerType
    <3>. QED
      BY <1>1, <1>2, <3>1, <3>5 DEF InUse
  <2>5. CASE Close(c)
    <3>1. Detach({c}, seq) /\ conn' = [conn EXCEPT ![c] = "away"] /\ c \notin attached
          /\ UNCHANGED <<subVars, lastSeq, lastId, handed, heard>>
      BY <2>5 DEF Close, At
    <3>2. attached' = attached \ {c}
      BY <1>1, <3>1, DetachKeeps
    <3>3. HandlerType' /\ InUse'
      BY <1>1, <3>1, <3>2 DEF HandlerType, InUse, Stage
    <3>. QED
      BY <1>1, <1>3, <3>1, <3>3
  <2>6. CASE Disconnect(c)
    <3>1. Detach({c}, seq) /\ conn' = [conn EXCEPT ![c] = "away"]
          /\ chan' = [chan EXCEPT ![c] = <<>>]
          /\ UNCHANGED <<drops, lastSeq, lastId, handed, heard>>
      BY <2>6 DEF Disconnect, At
    <3>2. attached' = attached \ {c}
      BY <1>1, <3>1, DetachKeeps
    <3>3. \A d \in Clients : chan'[d] \in Seq(Frame) /\ Len(chan'[d]) <= SubscriberBuffer
      BY <1>1, <3>1, Limits DEF HandlerType
    <3>4. HandlerType' /\ InUse'
      BY <1>1, <3>1, <3>2, <3>3 DEF HandlerType, InUse, Stage
    <3>. QED
      BY <1>1, <1>3, <3>1, <3>4
  <2>. QED
    BY <1>6, <2>1, <2>2, <2>3, <2>4, <2>5, <2>6 DEF Request
<1>7. CASE Tick
  <2>1. /\ retired' = [i \in DOMAIN retired |-> [retired[i] EXCEPT !.age = Bounded(@ + 1)]]
        /\ UNCHANGED <<attached, known, seq, epoch, streams, active, subVars, connVars,
                       handed, heard>>
    BY <1>7 DEF Tick
  <2>2. retired \in Seq(Ref) /\ DOMAIN retired = 1..Len(retired) /\ Len(retired) \in Nat
    BY <1>1 DEF Books, Ordered
  <2>3. \A i \in DOMAIN retired : retired[i] \in Ref
    BY <2>2
  <2>4. \A i \in DOMAIN retired :
          /\ retired'[i] \in Ref
          /\ retired'[i].id = retired[i].id /\ retired'[i].epoch = retired[i].epoch
    BY <2>1, <2>3, Limits DEF Ref, Bounded
  <2>5. retired' \in Seq(Ref) /\ DOMAIN retired' = DOMAIN retired
    <3>1. retired' \in [1..Len(retired) -> Ref]
      BY <2>1, <2>2, <2>4
    <3>. QED
      BY <2>1, <2>2, <3>1
  <2>6. Books(retired', Members(attached), known, epoch)
    <3>1. Ordered(retired', known, epoch)
      BY <1>1, <2>4, <2>5 DEF Books, Ordered
    <3>2. Awaiting(retired', Members(attached), known, epoch)
      <4>. DEFINE m == Members(attached)
      <4>. HIDE DEF m
      <4>1. Awaiting(retired, m, known, epoch)
        BY <1>1 DEF Books, m
      <4>2. Awaiting(retired', m, known, epoch)
        BY <2>4, <2>5, <4>1 DEF Awaiting
      <4>. QED
        BY <4>2 DEF m
    <3>. QED
      BY <3>1, <3>2 DEF Books
  <2>7. HandlerType' /\ InUse' /\ Occupied' = Occupied
    BY <1>1, <2>1 DEF HandlerType, InUse, Occupied, Subs
  <2>. QED
    BY <1>1, <2>1, <2>6, <2>7, HubInvNext DEF HubFacts
<1>8. CASE UNCHANGED sessionVars
  BY <1>1, <1>2, <1>8 DEF sessionVars, HandlerType, InUse
<1>. QED
  BY <1>4, <1>5, <1>6, <1>7, <1>8 DEF SessionNext

-----------------------------------------------------------------------------
(* The numbers of a stream *)

LEMMA ParallelFrame ==
    ASSUME NEW c, Parallel(c),
           chan'[c] = chan[c], lastSeq'[c] = lastSeq[c], heard'[c] = heard[c],
           c \in attached' => /\ c \in attached
                              /\ seq'[SessionOf[c]] = seq[SessionOf[c]]
                              /\ handed'[SessionOf[c]] = handed[SessionOf[c]]
    PROVE  Parallel(c)'
  BY DEF Parallel

\* Nothing on the way.
LEMMA ParallelEmpty ==
    ASSUME NEW c, chan'[c] = <<>>,
           c \in attached' => lastSeq'[c] = 0 /\ seq'[SessionOf[c]] \in Nat
    PROVE  Parallel(c)'
<1>1. DOMAIN chan'[c] = {}
  OBVIOUS
<1>. QED
  BY <1>1 DEF Parallel

\* One more frame, numbered next.
LEMMA ParallelAppend ==
    ASSUME HubInv, NEW c \in Clients, Parallel(c), c \in attached,
           NEW s, s = SessionOf[c], NEW frame \in Frame,
           frame.seq = seq[s] + 1, frame.nth = handed[s] + 1,
           seq'[s] = seq[s] + 1, handed'[s] = handed[s] + 1,
           lastSeq'[c] = lastSeq[c], heard'[c] = heard[c]
    PROVE  chan'[c] = chan[c] \/ chan'[c] = Append(chan[c], frame) => Parallel(c)'
<1>. DEFINE q == chan[c]
            l == Len(q)
<1>1. /\ q \in Seq(Frame) /\ l \in Nat /\ DOMAIN q = 1..l
      /\ seq[s] \in Nat /\ handed[s] \in Nat /\ lastSeq[c] \in Nat /\ heard[c] \in Nat
  BY SessionAssumption DEF HubInv, SessionTypeOK
<1>2. \A i \in 1..l : q[i].seq \in Nat /\ q[i].nth \in Nat
  <2>1. \A i \in 1..l : q[i] \in Frame
    BY <1>1
  <2>. QED
    BY <2>1 DEF Frame
<1>3. /\ \A i, j \in 1..l : i < j => q[i].seq < q[j].seq
      /\ \A i \in 1..l : lastSeq[c] < q[i].seq
      /\ \A i \in 1..l : q[i].seq <= seq[s] /\ q[i].nth - q[i].seq = handed[s] - seq[s]
      /\ lastSeq[c] <= seq[s]
      /\ lastSeq[c] > 0 => heard[c] - lastSeq[c] = handed[s] - seq[s]
  BY <1>1 DEF Parallel
<1>. HIDE DEF q, l
<1>4. handed'[s] - seq'[s] = handed[s] - seq[s]
  BY <1>1
<1>5. /\ frame.nth - frame.seq = handed[s] - seq[s]
      /\ frame.seq <= seq'[s]
  <2>1. \A a, b \in Nat : (a + 1) - (b + 1) = a - b /\ a + 1 <= a + 1
    OBVIOUS
  <2>2. seq[s] \in Nat /\ handed[s] \in Nat
    BY <1>1
  <2>. QED
    BY <2>1, <2>2, Zenon
<1>6. lastSeq[c] < frame.seq /\ lastSeq[c] <= seq'[s]
  BY <1>1, <1>3
<1>7. \A i \in 1..l : q[i].seq < frame.seq /\ q[i].seq <= seq'[s]
  BY <1>1, <1>2, <1>3
<1>8. CASE chan'[c] = q
  <2>1. \A i, j \in 1..l : q[i].nth - q[i].seq = q[j].nth - q[j].seq
    BY <1>3
  <2>3. \A i \in 1..l : q[i].seq <= seq'[s] /\ q[i].nth - q[i].seq = handed'[s] - seq'[s]
    BY <1>3, <1>4, <1>7
  <2>4. /\ lastSeq[c] <= seq'[s]
        /\ lastSeq[c] > 0 => heard[c] - lastSeq[c] = handed'[s] - seq'[s]
    BY <1>3, <1>4, <1>6
  <2>5. \A i \in 1..l : lastSeq[c] > 0 => heard[c] - lastSeq[c] = q[i].nth - q[i].seq
    BY <1>3
  <2>. QED
    BY <1>1, <1>3, <1>8, <2>1, <2>3, <2>4, <2>5 DEF Parallel
<1>9. CASE chan'[c] = Append(q, frame)
  <2>1. /\ DOMAIN chan'[c] = 1..l + 1
        /\ \A i \in 1..l : chan'[c][i] = q[i]
        /\ chan'[c][l + 1] = frame
        /\ \A i \in 1..l + 1 : i \in 1..l \/ i = l + 1
    BY <1>1, <1>9 DEF l
  <2>2. \A i \in 1..l + 1 :
          /\ chan'[c][i].seq <= seq'[s] /\ lastSeq[c] < chan'[c][i].seq
          /\ chan'[c][i].nth - chan'[c][i].seq = handed[s] - seq[s]
    <3>. SUFFICES ASSUME NEW i \in 1..l + 1
                  PROVE  /\ chan'[c][i].seq <= seq'[s] /\ lastSeq[c] < chan'[c][i].seq
                         /\ chan'[c][i].nth - chan'[c][i].seq = handed[s] - seq[s]
      OBVIOUS
    <3>1. CASE i \in 1..l
      <4>1. chan'[c][i] = q[i]
        BY <2>1, <3>1
      <4>2. /\ q[i].seq <= seq'[s] /\ lastSeq[c] < q[i].seq
            /\ q[i].nth - q[i].seq = handed[s] - seq[s]
        BY <1>3, <1>7, <3>1
      <4>. QED
        BY <4>1, <4>2
    <3>2. CASE i = l + 1
      <4>1. chan'[c][i] = frame
        BY <2>1, <3>2
      <4>. QED
        BY <1>5, <1>6, <4>1
    <3>. QED
      BY <2>1, <3>1, <3>2
  <2>3. \A i, j \in 1..l + 1 : i < j => chan'[c][i].seq < chan'[c][j].seq
    <3>. SUFFICES ASSUME NEW i \in 1..l + 1, NEW j \in 1..l + 1, i < j
                  PROVE  chan'[c][i].seq < chan'[c][j].seq
      OBVIOUS
    <3>1. i \in 1..l /\ chan'[c][i] = q[i]
      BY <1>1, <2>1
    <3>2. CASE j \in 1..l
      BY <1>3, <2>1, <3>1, <3>2
    <3>3. CASE j = l + 1
      <4>1. chan'[c][j] = frame
        BY <2>1, <3>3
      <4>. QED
        BY <1>7, <3>1, <4>1
    <3>. QED
      BY <2>1, <3>2, <3>3
  <2>4. \A i, j \in 1..l + 1 :
          chan'[c][i].nth - chan'[c][i].seq = chan'[c][j].nth - chan'[c][j].seq
    BY <2>2
  <2>. QED
    BY <1>3, <1>4, <1>6, <2>1, <2>2, <2>3, <2>4 DEF Parallel
<1>. QED
  BY <1>8, <1>9 DEF q

\* What writing the first frame of the channel leaves.
LEMMA ParallelDeliver ==
    ASSUME HubInv, NEW c \in Clients, Parallel(c), Deliver(c)
    PROVE  /\ Parallel(c)'
           /\ lastSeq'[c] > lastSeq[c]
           /\ lastSeq[c] > 0 => heard'[c] - lastSeq'[c] = heard[c] - lastSeq[c]
           /\ lastSeq[c] \in Nat /\ lastSeq'[c] \in Nat /\ heard[c] \in Nat /\ heard'[c] \in Nat
<1>. DEFINE q == chan[c]
            l == Len(q)
            s == SessionOf[c]
<1>1. /\ q \in Seq(Frame) /\ l \in Nat /\ DOMAIN q = 1..l /\ q # <<>>
      /\ lastSeq[c] \in Nat /\ heard[c] \in Nat
      /\ lastSeq \in [Clients -> Nat] /\ heard \in [Clients -> Nat] /\ chan \in [Clients -> Seq(Frame)]
  BY DEF HubInv, SessionTypeOK, Deliver
<1>2. \A i \in 1..l : q[i].seq \in Nat /\ q[i].nth \in Nat
  <2>1. \A i \in 1..l : q[i] \in Frame
    BY <1>1
  <2>. QED
    BY <2>1 DEF Frame
<1>3. 1 \in 1..l /\ Head(q) = q[1]
  BY <1>1
<1>4. /\ chan'[c] = Tail(q) /\ lastSeq'[c] = q[1].seq /\ heard'[c] = q[1].nth
      /\ UNCHANGED <<attached, seq, handed>>
  BY <1>1, <1>3 DEF Deliver, setVars
<1>5. /\ DOMAIN Tail(q) = 1..l - 1
      /\ \A i \in 1..l - 1 : i + 1 \in 1..l /\ Tail(q)[i] = q[i + 1]
  BY <1>1
<1>6. /\ \A i, j \in 1..l : i < j => q[i].seq < q[j].seq
      /\ \A i, j \in 1..l : q[i].nth - q[i].seq = q[j].nth - q[j].seq
      /\ \A i \in 1..l : lastSeq[c] < q[i].seq
      /\ \A i \in 1..l : lastSeq[c] > 0 => heard[c] - lastSeq[c] = q[i].nth - q[i].seq
      /\ c \in attached => \A i \in 1..l : /\ q[i].seq <= seq[s]
                                           /\ q[i].nth - q[i].seq = handed[s] - seq[s]
  BY <1>1 DEF Parallel
<1>. HIDE DEF q, l, s
<1>7. \A i, j \in DOMAIN chan'[c] : i < j => chan'[c][i].seq < chan'[c][j].seq
  <2>. SUFFICES ASSUME NEW i \in 1..l - 1, NEW j \in 1..l - 1, i < j
                PROVE  chan'[c][i].seq < chan'[c][j].seq
    BY <1>4, <1>5
  <2>1. i + 1 < j + 1
    BY <1>1
  <2>. QED
    BY <1>4, <1>5, <1>6, <2>1
<1>8. \A i, j \in DOMAIN chan'[c] :
        chan'[c][i].nth - chan'[c][i].seq = chan'[c][j].nth - chan'[c][j].seq
  <2>. SUFFICES ASSUME NEW i \in 1..l - 1, NEW j \in 1..l - 1
                PROVE  chan'[c][i].nth - chan'[c][i].seq = chan'[c][j].nth - chan'[c][j].seq
    BY <1>4, <1>5
  <2>1. i + 1 \in 1..l /\ j + 1 \in 1..l
    BY <1>5
  <2>2. q[i + 1].nth - q[i + 1].seq = q[j + 1].nth - q[j + 1].seq
    BY <1>6, <2>1
  <2>. QED
    BY <1>4, <1>5, <2>2
<1>9. \A i \in DOMAIN chan'[c] : /\ lastSeq'[c] < chan'[c][i].seq
                                 /\ heard'[c] - lastSeq'[c] = chan'[c][i].nth - chan'[c][i].seq
  <2>. SUFFICES ASSUME NEW i \in 1..l - 1
                PROVE  /\ lastSeq'[c] < chan'[c][i].seq
                       /\ heard'[c] - lastSeq'[c] = chan'[c][i].nth - chan'[c][i].seq
    BY <1>4, <1>5
  <2>1. 1 < i + 1 /\ i + 1 \in 1..l /\ chan'[c][i] = q[i + 1]
    BY <1>1, <1>4, <1>5
  <2>2. q[1].seq < q[i + 1].seq
    BY <1>3, <1>6, <2>1
  <2>3. q[1].nth - q[1].seq = q[i + 1].nth - q[i + 1].seq
    BY <1>3, <1>6, <2>1
  <2>. QED
    BY <1>4, <2>1, <2>2, <2>3
<1>10. c \in attached' =>
         /\ \A i \in DOMAIN chan'[c] :
              /\ chan'[c][i].seq <= seq'[s]
              /\ chan'[c][i].nth - chan'[c][i].seq = handed'[s] - seq'[s]
         /\ lastSeq'[c] <= seq'[s]
         /\ heard'[c] - lastSeq'[c] = handed'[s] - seq'[s]
  <2>. SUFFICES ASSUME c \in attached
                PROVE  /\ \A i \in DOMAIN chan'[c] :
                            /\ chan'[c][i].seq <= seq[s]
                            /\ chan'[c][i].nth - chan'[c][i].seq = handed[s] - seq[s]
                       /\ q[1].seq <= seq[s]
                       /\ q[1].nth - q[1].seq = handed[s] - seq[s]
    BY <1>4
  <2>1. \A i \in 1..l : q[i].seq <= seq[s] /\ q[i].nth - q[i].seq = handed[s] - seq[s]
    BY <1>6
  <2>2. \A i \in DOMAIN chan'[c] : i + 1 \in 1..l /\ chan'[c][i] = q[i + 1]
    BY <1>4, <1>5
  <2>. QED
    BY <1>3, <2>1, <2>2
<1>11. Parallel(c)'
  BY <1>7, <1>8, <1>9, <1>10 DEF Parallel, s
<1>. QED
  BY <1>1, <1>2, <1>3, <1>4, <1>6, <1>11

LEMMA ParallelStep ==
    ASSUME SessionInv, [SessionNext]_sessionVars, NEW c \in Clients
    PROVE  Parallel(c)'
<1>. USE DEF setVars, subVars, connVars
<1>1. HubInv /\ Parallel(c)
  BY DEF SessionInv
<1>2. /\ attached \subseteq Clients /\ seq \in [Sessions -> Nat]
      /\ handed \in [Sessions -> Nat] /\ SessionOf[c] \in Sessions
      /\ chan \in [Clients -> Seq(Frame)] /\ lastSeq \in [Clients -> Nat]
      /\ heard \in [Clients -> Nat]
  BY <1>1, SessionAssumption DEF HubInv, SessionTypeOK
<1>3. ASSUME NEW s \in Sessions, Publish(s) PROVE Parallel(c)'
  <2>1. handed' = [handed EXCEPT ![s] = @ + 1] /\ UNCHANGED <<lastSeq, heard>>
    BY <1>3 DEF Publish
  <2>2. CASE PublishToNobody(s)
    <3>1. c \in attached' => c \in attached /\ SessionOf[c] # s
      BY <2>2 DEF PublishToNobody, Subs
    <3>. QED
      BY <1>1, <1>2, <2>1, <2>2, <3>1, ParallelFrame DEF PublishToNobody
  <2>3. CASE PublishToStreams(s)
    <3>. DEFINE full == {d \in Subs(s) : ~Fits(d)}
                gone == {d \in full : drops[d] + 1 >= MaxDrops}
                frame == [seq |-> Numbered(s)[s], nth |-> handed[s] + 1]
    <3>1. /\ chan' = [d \in Clients |->
                        IF d \in Subs(s) \ full THEN Append(chan[d], frame) ELSE chan[d]]
          /\ Detach(gone, Numbered(s))
      BY <2>3 DEF PublishToStreams
    <3>2. /\ Numbered(s) \in [Sessions -> Nat] /\ Numbered(s)[s] = seq[s] + 1
          /\ \A x \in Sessions \ {s} : Numbered(s)[x] = seq[x]
      BY <1>2 DEF Numbered
    <3>3. frame \in Frame /\ frame.seq = seq[s] + 1 /\ frame.nth = handed[s] + 1
      BY <1>2, <3>2 DEF Frame
    <3>4. gone \in SUBSET Clients
      BY <1>2 DEF Subs
    <3>5. /\ attached' = attached \ gone
          /\ \A d \in attached' : seq'[SessionOf[d]] = Numbered(s)[SessionOf[d]]
      BY <1>1, <3>1, <3>2, <3>4, DetachKeeps
    <3>. HIDE DEF frame
    <3>6. CASE c \in attached' /\ SessionOf[c] = s
      <4>1. seq'[s] = seq[s] + 1 /\ handed'[s] = handed[s] + 1 /\ c \in attached
        BY <1>2, <2>1, <3>2, <3>5, <3>6
      <4>2. chan'[c] = chan[c] \/ chan'[c] = Append(chan[c], frame)
        BY <3>1
      <4>. QED
        BY <1>1, <2>1, <3>3, <3>6, <4>1, <4>2, ParallelAppend
    <3>7. CASE ~(c \in attached' /\ SessionOf[c] = s)
      <4>1. chan'[c] = chan[c]
        <5>1. c \notin Subs(s) \ full
          BY <3>5, <3>7 DEF Subs
        <5>. QED
          BY <3>1, <5>1
      <4>2. c \in attached' => /\ c \in attached
                               /\ seq'[SessionOf[c]] = seq[SessionOf[c]]
                               /\ handed'[SessionOf[c]] = handed[SessionOf[c]]
        BY <1>2, <2>1, <3>2, <3>5, <3>7
      <4>. QED
        BY <1>1, <2>1, <4>1, <4>2, ParallelFrame
    <3>. QED
      BY <3>6, <3>7
  <2>. QED
    BY <1>3, <2>2, <2>3 DEF Publish
<1>4. CASE HubShutdown
  <2>1. attached' = attached \ attached
    BY <1>1, <1>2, <1>4, DetachKeeps DEF HubShutdown
  <2>. QED
    BY <1>1, <1>4, <2>1, ParallelFrame DEF HubShutdown
<1>5. ASSUME NEW d \in Clients, Request(d) PROVE Parallel(c)'
  <2>1. CASE Connect(d) \/ Refuse(d) \/ Greet(d) \/ Resume(d)
    BY <1>1, <2>1, ParallelFrame DEF Connect, Refuse, Greet, Resume
  <2>2. CASE Admit(d)
    <3>1. d \notin attached
      BY <1>1, <2>2 DEF Admit, HubInv, Attachment
    <3>2. /\ attached' = attached \cup {d} /\ seq' \in [Sessions -> Nat]
          /\ \A x \in attached : seq'[SessionOf[x]] = seq[SessionOf[x]]
      BY <1>1, <2>2, <3>1, SubscribeKeeps DEF Admit
    <3>3. /\ chan' = [chan EXCEPT ![d] = <<>>] /\ lastSeq' = [lastSeq EXCEPT ![d] = 0]
          /\ UNCHANGED <<handed, heard>>
      BY <2>2 DEF Admit, Subscribe
    <3>4. CASE c = d
      BY <1>2, <3>2, <3>3, <3>4, ParallelEmpty
    <3>5. CASE c # d
      BY <1>1, <1>2, <3>2, <3>3, <3>5, ParallelFrame
    <3>. QED
      BY <3>4, <3>5
  <2>3. CASE Deliver(d)
    <3>1. CASE c = d
      BY <1>1, <2>3, <3>1, ParallelDeliver
    <3>2. CASE c # d
      BY <1>1, <1>2, <2>3, <3>2, ParallelFrame DEF Deliver
    <3>. QED
      BY <3>1, <3>2
  <2>4. CASE Close(d)
    <3>1. attached' = attached \ {d} /\ \A x \in attached' : seq'[SessionOf[x]] = seq[SessionOf[x]]
      BY <1>1, <1>2, <2>4, DetachKeeps DEF Close
    <3>. QED
      BY <1>1, <2>4, <3>1, ParallelFrame DEF Close
  <2>5. CASE Disconnect(d)
    <3>1. attached' = attached \ {d} /\ \A x \in attached' : seq'[SessionOf[x]] = seq[SessionOf[x]]
      BY <1>1, <1>2, <2>5, DetachKeeps DEF Disconnect
    <3>2. chan' = [chan EXCEPT ![d] = <<>>] /\ UNCHANGED <<lastSeq, handed, heard>>
      BY <2>5 DEF Disconnect
    <3>3. CASE c = d
      BY <1>2, <3>1, <3>2, <3>3, ParallelEmpty
    <3>4. CASE c # d
      BY <1>1, <1>2, <3>1, <3>2, <3>4, ParallelFrame
    <3>. QED
      BY <3>3, <3>4
  <2>. QED
    BY <1>5, <2>1, <2>2, <2>3, <2>4, <2>5 DEF Request
<1>6. CASE Tick \/ UNCHANGED sessionVars
  BY <1>1, <1>6, ParallelFrame DEF Tick, sessionVars
<1>. QED
  BY <1>3, <1>4, <1>5, <1>6 DEF SessionNext

-----------------------------------------------------------------------------
(* The theorems *)

LEMMA SessionStart == SessionInit => SessionInv
<1>. SUFFICES ASSUME SessionInit PROVE SessionInv
  OBVIOUS
<1>1. Occupied = {} /\ \A s \in Sessions : Members(attached)[s] = {}
  BY DEF SessionInit, Occupied, Subs, Members
<1>2. Books(retired, Members(attached), known, epoch)
  <2>. DEFINE m == Members(attached)
  <2>. HIDE DEF m
  <2>1. \A s \in Sessions : m[s] = {}
    BY <1>1 DEF m
  <2>2. Books(retired, m, known, epoch)
    BY <2>1 DEF SessionInit, Books, Ordered, Awaiting
  <2>. QED
    BY <2>2 DEF m
<1>3. Cardinality({}) = 0
  BY FS_EmptySet
<1>4. HandlerType
  BY Limits DEF SessionInit, HandlerType, Stage
<1>5. HubFacts
  BY <1>1, <1>2, <1>3, <1>4, Limits DEF SessionInit, HubFacts, InUse
<1>6. \A c \in Clients : Parallel(c)
  BY DEF SessionInit, Parallel
<1>. QED
  BY <1>5, <1>6, HubInvIs DEF SessionInv

LEMMA SessionStep == SessionInv /\ [SessionNext]_sessionVars => SessionInv'
<1>. SUFFICES ASSUME SessionInv, [SessionNext]_sessionVars PROVE SessionInv'
  OBVIOUS
<1>1. HubInv'
  BY HubStep DEF SessionInv
<1>2. \A c \in Clients : Parallel(c)'
  BY ParallelStep
<1>. QED
  BY <1>1, <1>2 DEF SessionInv

LEMMA SessionInvariant == SessionSpec => []SessionInv
  BY SessionStart, SessionStep, PTL DEF SessionSpec

\* Every variable of the hub, its handlers and its browsers keeps its type.
THEOREM SessionTyped == SessionSpec => []SessionTypeOK
<1>1. SessionInv => SessionTypeOK
  BY DEF SessionInv, HubInv
<1>. QED
  BY <1>1, SessionInvariant, PTL

\* However evictions, shutdowns and the handlers' own deferred unsubscribes
\* race, the gauges count the streams and the sessions there are, and the
\* ceiling that admission enforces is never exceeded.
THEOREM Accounted == SessionSpec => []StreamsAccounted
<1>1. SessionInv => StreamsAccounted
  BY DEF SessionInv, HubInv, Attachment, StreamsAccounted
<1>. QED
  BY <1>1, SessionInvariant, PTL

\* A session without a stream waits for its retirement behind exactly one
\* reference of its epoch, an occupied one behind none, and no reference
\* outlives its session.
THEOREM Retiring == SessionSpec => []CountersAwaitRetirement
<1>1. SessionInv => CountersAwaitRetirement
  <2>. SUFFICES ASSUME SessionInv PROVE CountersAwaitRetirement
    OBVIOUS
  <2>. DEFINE m == Members(attached)
  <2>1. Books(retired, m, known, epoch) /\ epoch \in [Sessions -> Nat]
    BY DEF SessionInv, HubInv, SessionTypeOK
  <2>2. /\ Occupied \subseteq Sessions
        /\ \A s \in Sessions : s \in Occupied <=> m[s] # {}
    BY OccupiedIs DEF Occupied
  <2>. HIDE DEF m
  <2>3. /\ retired \in Seq(Ref) /\ DOMAIN retired \subseteq Nat
        /\ \A i \in DOMAIN retired : retired[i] \in Ref
    BY <2>1 DEF Books, Ordered
  <2>4. known \subseteq Sessions /\ Occupied \subseteq known
    BY <2>1, <2>2 DEF Books, Awaiting
  <2>5. ASSUME NEW s \in known \ Occupied PROVE Cardinality(CurrentRefs(s)) = 1
    <3>1. PICK i \in DOMAIN retired : retired[i].id = s /\ retired[i].epoch = epoch[s]
      BY <2>1, <2>2, <2>4 DEF Books, Awaiting
    <3>2. \A j \in CurrentRefs(s) : j = i
      <4>. SUFFICES ASSUME NEW j \in CurrentRefs(s), j # i PROVE FALSE
        OBVIOUS
      <4>1. j \in DOMAIN retired /\ retired[j].id = s /\ retired[j].epoch = epoch[s]
        BY DEF CurrentRefs
      <4>2. i < j \/ j < i
        BY <2>3, <3>1, <4>1
      <4>3. retired[i].epoch < retired[j].epoch \/ retired[j].epoch < retired[i].epoch
        BY <2>1, <3>1, <4>1, <4>2 DEF Books, Ordered
      <4>4. epoch[s] \in Nat
        BY <2>1, <2>4
      <4>. QED
        BY <3>1, <4>1, <4>3, <4>4
    <3>3. CurrentRefs(s) = {i}
      BY <3>1, <3>2 DEF CurrentRefs
    <3>. QED
      BY <3>3, FS_Singleton
  <2>6. ASSUME NEW s \in Occupied PROVE CurrentRefs(s) = {}
    <3>1. \A i \in DOMAIN retired : retired[i].id = s => retired[i].epoch < epoch[s]
      BY <2>1, <2>2, <2>4 DEF Books, Awaiting
    <3>2. epoch[s] \in Nat
      BY <2>1, <2>4
    <3>. QED
      BY <3>1, <3>2 DEF CurrentRefs
  <2>7. \A i \in DOMAIN retired : retired[i].id \in known
    BY <2>1 DEF Books, Ordered
  <2>. QED
    BY <2>4, <2>5, <2>6, <2>7 DEF CountersAwaitRetirement
<1>. QED
  BY <1>1, SessionInvariant, PTL

\* The books of the hub balance in every reachable state.
THEOREM HubBalanced == SessionSpec => []HubAccounts
<1>1. SessionTypeOK /\ StreamsAccounted /\ CountersAwaitRetirement => HubAccounts
  BY DEF HubAccounts
<1>. QED
  BY <1>1, SessionTyped, Accounted, Retiring, PTL

\* On one connection the numbers only grow, and a frame that is numbered next
\* to the last one was published next to it: a lost frame leaves a gap.
THEOREM Gapless == SessionSpec => GapShows
<1>1. SessionInv /\ [SessionNext]_sessionVars =>
        [\A c \in Clients :
            heard'[c] # heard[c] /\ lastSeq[c] > 0 =>
                /\ lastSeq'[c] > lastSeq[c]
                /\ lastSeq'[c] = lastSeq[c] + 1 => heard'[c] = heard[c] + 1]_sessionVars
  <2>. SUFFICES ASSUME SessionInv, SessionNext, NEW c \in Clients,
                       heard'[c] # heard[c], lastSeq[c] > 0
                PROVE  /\ lastSeq'[c] > lastSeq[c]
                       /\ lastSeq'[c] = lastSeq[c] + 1 => heard'[c] = heard[c] + 1
    OBVIOUS
  <2>1. heard \in [Clients -> Nat] /\ HubInv /\ Parallel(c)
    BY DEF SessionInv, HubInv, SessionTypeOK
  <2>2. PICK d \in Clients : Deliver(d)
    BY DEF SessionNext, Publish, HubShutdown, Tick, Request, Connect, Admit, Refuse, Greet,
           Resume, Close, Disconnect
  <2>3. Deliver(c)
    BY <2>1, <2>2 DEF Deliver
  <2>. QED
    BY <2>1, <2>3, ParallelDeliver
<1>. QED
  BY <1>1, SessionInvariant, PTL DEF SessionSpec, GapShows

-----------------------------------------------------------------------------
(* The limiter *)

Buckets == [key : Keys, seen : Nat, tokens : 0..Full, last : Nat]

\* While the clock runs forward: the key watched has what the bucket it has for
\* ever has, or has been let through more often for it.  Until a bucket in use
\* had to make room the two buckets are one, or the limiter's is forgotten and
\* the other one full.
Forward ==
    /\ passed >= earned /\ ideal.last <= time
    /\ \A i \in DOMAIN recent : recent[i].last <= recent[i].seen /\ recent[i].seen <= time
    /\ OldestIsLast
    /\ \A i \in DOMAIN recent : recent[i].key = Watched =>
          Available(ideal) <= Available(recent[i]) + (passed - earned) * Cost
    /\ ~pressed =>
          /\ passed = earned
          /\ Has(recent, Watched) \/ Available(ideal) = Full
          /\ \A i \in DOMAIN recent : recent[i].key = Watched =>
                recent[i].tokens = ideal.tokens /\ recent[i].last = ideal.last

Alone(list) == \A i, j \in DOMAIN list : list[i].key = list[j].key => i = j

RateInv ==
    /\ time \in 0..MaxTime /\ stepsBack \in 0..MaxStepsBack
    /\ passed \in 0..MaxAdmitted /\ earned \in Nat /\ pressed \in BOOLEAN
    /\ recent \in Seq(Buckets) /\ Len(recent) <= Capacity /\ Alone(recent)
    /\ ideal \in [tokens : 0..Full, last : Nat]
    /\ stepsBack = 0 => Forward

LEMMA RateConstants ==
    /\ Capacity \in Nat /\ Capacity >= 1 /\ IdleTTL \in Nat /\ MaxSweep \in Nat
    /\ Refill \in Nat /\ Cost \in Nat /\ Cost >= 1 /\ Full \in Nat /\ Cost <= Full
    /\ Full <= IdleTTL * Refill /\ Watched \in Keys
    /\ MaxTime \in Nat /\ MaxAdmitted \in Nat /\ MaxStepsBack \in Nat
  BY RateAssumption

LEMMA Products ==
    /\ \A x, y \in Nat : x * y \in Nat /\ (x + 1) * y = x * y + y
    /\ \A x, y, z \in Nat : x <= y => x * z <= y * z
<1>1. \A x, y \in Nat : x * y \in Nat /\ (x + 1) * y = x * y + y
  OBVIOUS
<1>2. ASSUME NEW x \in Nat, NEW y \in Nat, NEW z \in Nat, x <= y PROVE x * z <= y * z
  <2>1. y * z = x * z + (y - x) * z
    OBVIOUS
  <2>2. y - x \in Nat
    BY <1>2
  <2>3. (y - x) * z \in Nat /\ x * z \in Nat /\ y * z \in Nat
    BY <2>2, <1>1
  <2>. QED
    BY <2>1, <2>3
<1>. QED
  BY <1>1, <1>2

LEMMA AvailableIs ==
    ASSUME time \in Nat, NEW b, b.tokens \in 0..Full, b.last \in Nat
    PROVE  /\ Available(b) \in 0..Full /\ Available(b) >= b.tokens
           /\ b.last <= time => Available(b) = Smaller(Full, b.tokens + (time - b.last) * Refill)
<1>. DEFINE passed_ == time - Smaller(b.last, time)
<1>1. passed_ \in Nat /\ (b.last <= time => passed_ = time - b.last)
  BY DEF Smaller
<1>. HIDE DEF passed_
<1>2. passed_ * Refill \in Nat
  BY <1>1, RateConstants, Products
<1>3. Available(b) = Smaller(Full, b.tokens + passed_ * Refill)
  BY DEF Available, passed_
<1>4. Available(b) \in 0..Full /\ Available(b) >= b.tokens
  BY <1>2, <1>3, RateConstants DEF Smaller
<1>. QED
  BY <1>1, <1>3, <1>4

LEMMA DrawnIs ==
    ASSUME time \in Nat, NEW b, b.tokens \in 0..Full, b.last \in Nat,
           NEW d, d.tokens = (IF Ok(b) THEN Available(b) - Cost ELSE b.tokens),
           d.last = (IF Ok(b) THEN time ELSE b.last)
    PROVE  /\ d.tokens \in 0..Full /\ d.last \in Nat
           /\ b.last <= time =>
                 /\ d.last <= time
                 /\ Available(d) = IF Ok(b) THEN Available(b) - Cost ELSE Available(b)
<1>1. Available(b) \in 0..Full
  BY AvailableIs
<1>2. CASE Ok(b)
  <2>1. d.tokens = Available(b) - Cost /\ d.last = time
    BY <1>2
  <2>2. d.tokens \in 0..Full
    BY <1>1, <1>2, <2>1, RateConstants DEF Ok
  <2>3. Available(d) = Smaller(Full, d.tokens + (time - time) * Refill)
    BY <2>1, <2>2, AvailableIs
  <2>4. (time - time) * Refill = 0
    BY RateConstants
  <2>5. Available(d) = d.tokens
    BY <2>2, <2>3, <2>4, RateConstants DEF Smaller
  <2>. QED
    BY <1>2, <2>1, <2>2, <2>5
<1>3. CASE ~Ok(b)
  <2>1. d.tokens = b.tokens /\ d.last = b.last
    BY <1>3
  <2>2. Available(d) = Available(b)
    BY <2>1 DEF Available
  <2>. QED
    BY <1>3, <2>1, <2>2
<1>. QED
  BY <1>2, <1>3

\* A tick brings Refill of tokens, up to a full bucket.
LEMMA TickIs ==
    ASSUME time \in Nat, time' = time + 1, NEW b, b.tokens \in 0..Full, b.last \in Nat,
           b.last <= time, NEW a, a = Smaller(Full, b.tokens + (time + 1 - b.last) * Refill)
    PROVE  a = Smaller(Full, Available(b) + Refill)
<1>1. Available(b) = Smaller(Full, b.tokens + (time - b.last) * Refill)
  BY AvailableIs
<1>2. time - b.last \in Nat
  OBVIOUS
<1>. DEFINE x == time - b.last
<1>3. x \in Nat /\ x * Refill \in Nat /\ (x + 1) * Refill = x * Refill + Refill
  BY <1>2, RateConstants, Products
<1>4. time + 1 - b.last = x + 1
  OBVIOUS
<1>5. a = Smaller(Full, b.tokens + (x * Refill + Refill))
  BY <1>3, <1>4
<1>6. Available(b) = Smaller(Full, b.tokens + x * Refill)
  BY <1>1
<1>. HIDE DEF x
<1>. DEFINE y == x * Refill
<1>7. y \in Nat /\ a = Smaller(Full, b.tokens + (y + Refill)) /\ Available(b) = Smaller(Full, b.tokens + y)
  BY <1>3, <1>5, <1>6
<1>. HIDE DEF y
<1>. QED
  BY <1>7, RateConstants DEF Smaller

\* What the sweep leaves is the front of the list; what it takes is idle.
LEMMA SweptIs ==
    ASSUME recent \in Seq(Buckets)
    PROVE  /\ Swept \in Seq(Buckets) /\ Len(Swept) \in 0..Len(recent)
           /\ \A i \in 1..Len(Swept) : i \in DOMAIN recent /\ Swept[i] = recent[i]
           /\ \A i \in DOMAIN recent : i > Len(Swept) => IsIdle(recent[i])
<1>. DEFINE left == {i \in DOMAIN recent : ~Sweeps(i)}
            n == Cardinality(left)
<1>1. /\ Len(recent) \in Nat /\ DOMAIN recent = 1..Len(recent)
  OBVIOUS
<1>2. /\ IsFiniteSet(1..Len(recent)) /\ Cardinality(1..Len(recent)) = Len(recent)
  BY <1>1, FS_Interval
<1>3. /\ IsFiniteSet(left) /\ n <= Len(recent) /\ n \in Nat
  <2>1. left \subseteq 1..Len(recent)
    BY <1>1
  <2>. HIDE DEF left
  <2>. QED
    BY <1>2, <2>1, FS_Subset, FS_CardinalityType
<1>4. ASSUME NEW i \in left PROVE i <= n
  <2>1. i \in 1..Len(recent)
    BY <1>1
  <2>2. ASSUME NEW j \in 1..i PROVE j \in left
    <3>1. j \in 1..Len(recent) /\ (j > Len(recent) - MaxSweep => i > Len(recent) - MaxSweep)
      BY <1>1, <2>1, RateConstants
    <3>2. i..Len(recent) \subseteq j..Len(recent)
      BY <1>1, <2>1
    <3>3. ~Sweeps(i)
      OBVIOUS
    <3>. QED
      BY <1>1, <3>1, <3>2, <3>3 DEF Sweeps
  <2>3. 1..i \subseteq left
    BY <2>2
  <2>4. Cardinality(1..i) = i
    BY <2>1, FS_Interval
  <2>. HIDE DEF left
  <2>. QED
    BY <1>3, <2>1, <2>3, <2>4, FS_Subset
<1>5. \A i \in DOMAIN recent : i > n => IsIdle(recent[i])
  <2>1. SUFFICES ASSUME NEW i \in DOMAIN recent, i > n PROVE IsIdle(recent[i])
    OBVIOUS
  <2>2. Sweeps(i)
    <3>1. i \notin left
      <4>. HIDE DEF left
      <4>. QED
        BY <1>1, <1>3, <1>4, <2>1
    <3>. QED
      BY <3>1
  <2>3. i \in i..Len(recent)
    BY <1>1
  <2>. QED
    BY <2>2, <2>3 DEF Sweeps
<1>6. Swept = SubSeq(recent, 1, n)
  BY DEF Swept
<1>. HIDE DEF left, n
<1>. DEFINE X == Buckets
<1>7. recent \in Seq(X)
  OBVIOUS
<1>. HIDE DEF X
<1>8. \A m \in Nat : m <= Len(recent) =>
         /\ SubSeq(recent, 1, m) \in Seq(X) /\ Len(SubSeq(recent, 1, m)) = m
         /\ \A i \in 1..m : SubSeq(recent, 1, m)[i] = recent[i]
  BY <1>7
<1>9. /\ Swept \in Seq(X) /\ Len(Swept) = n /\ \A i \in 1..n : Swept[i] = recent[i]
  BY <1>3, <1>6, <1>8
<1>. QED
  BY <1>1, <1>3, <1>5, <1>9 DEF X

\* A request puts the bucket of its key in front, and keeps the others in order.
LEMMA TouchedIs ==
    ASSUME time \in Nat, NEW list \in Seq(Buckets), Len(list) <= Capacity, Alone(list),
           NEW k \in Keys, NEW touched, touched = Touched(list, k)
    PROVE  /\ touched \in Seq(Buckets) /\ Len(touched) \in 1..Capacity /\ Alone(touched)
           /\ \/ ~Has(list, k) /\ touched[1] = FreshBucket(k)
              \/ \E i \in DOMAIN list : list[i].key = k /\ touched[1] = [list[i] EXCEPT !.seen = time]
           /\ \A j \in 2..Len(touched) : \E i \in DOMAIN list :
                 list[i].key # k /\ touched[j] = list[i]
           /\ Has(list, k) \/ Len(list) < Capacity =>
                 \A i \in DOMAIN list : list[i].key # k =>
                    \E j \in 2..Len(touched) : touched[j] = list[i]
           /\ (\A i, j \in DOMAIN list : i < j => list[i].seen >= list[j].seen) =>
                 \A i, j \in 2..Len(touched) : i < j => touched[i].seen >= touched[j].seen
<1>1. /\ DOMAIN list = 1..Len(list) /\ Len(list) \in Nat /\ \A i \in 1..Len(list) : list[i] \in Buckets
  OBVIOUS
<1>2. CASE Has(list, k)
  <2>. DEFINE n == CHOOSE i \in DOMAIN list : list[i].key = k
              moved == [list[n] EXCEPT !.seen = time]
  <2>1. n \in 1..Len(list) /\ list[n].key = k
    BY <1>1, <1>2 DEF Has
  <2>2. moved \in Buckets /\ moved.key = k
    BY <1>1, <2>1 DEF Buckets
  <2>. HIDE DEF n
  <2>3. touched = MovedToFront(list, n)
    BY <1>2 DEF Touched, n
  <2>4. touched = [j \in 1..Len(list) |-> IF j = 1 THEN moved
                                          ELSE IF j <= n THEN list[j - 1] ELSE list[j]]
    BY <1>1, <2>3 DEF MovedToFront
  <2>. HIDE DEF moved
  <2>5. \A j \in 2..Len(list) : j \in 1..Len(list) /\ j - 1 \in 1..Len(list) /\ j # 1
    BY <1>1
  <2>6. \A j \in 1..Len(list) : touched[j] \in Buckets
    BY <1>1, <2>2, <2>4, <2>5
  <2>7. touched \in Seq(Buckets) /\ Len(touched) = Len(list)
    <3>. DEFINE X == Buckets
                f(j) == IF j = 1 THEN moved ELSE IF j <= n THEN list[j - 1] ELSE list[j]
    <3>1. touched = [j \in 1..Len(list) |-> f(j)]
      BY <2>4
    <3>2. \A j \in 1..Len(list) : f(j) \in X
      BY <2>6, <3>1
    <3>. HIDE DEF X, f
    <3>3. touched \in [1..Len(list) -> X]
      BY <3>1, <3>2
    <3>4. touched \in Seq(X) /\ DOMAIN touched = 1..Len(list)
      BY <1>1, <3>3
    <3>5. Len(touched) = Len(list)
      BY <1>1, <3>4
    <3>. QED
      BY <3>4, <3>5 DEF X
  <2>8. touched[1] = moved
    BY <1>1, <2>1, <2>4
  <2>9. \A j \in 2..Len(list) : touched[j] = IF j <= n THEN list[j - 1] ELSE list[j]
    BY <2>4, <2>5
  <2>10. \A i \in 1..Len(list) : list[i].key = k => i = n
    BY <1>1, <2>1 DEF Alone
  <2>11. \A j \in 2..Len(list) : \E i \in 1..Len(list) :
            i # n /\ list[i].key # k /\ touched[j] = list[i]
            /\ i = (IF j <= n THEN j - 1 ELSE j)
    <3>1. TAKE j \in 2..Len(list)
    <3>2. CASE j <= n
      BY <1>1, <2>1, <2>5, <2>9, <2>10, <3>2
    <3>3. CASE ~(j <= n)
      BY <1>1, <2>1, <2>5, <2>9, <2>10, <3>3
    <3>. QED
      BY <3>2, <3>3
  <2>12. \A i \in 1..Len(list) : i # n => \E j \in 2..Len(list) : touched[j] = list[i]
    <3>1. SUFFICES ASSUME NEW i \in 1..Len(list), i # n
                   PROVE  \E j \in 2..Len(list) : touched[j] = list[i]
      OBVIOUS
    <3>2. CASE i < n
      <4>1. i + 1 \in 2..Len(list) /\ i + 1 <= n /\ (i + 1) - 1 = i
        BY <1>1, <2>1, <3>2
      <4>. QED
        BY <2>9, <4>1
    <3>3. CASE i > n
      <4>1. i \in 2..Len(list) /\ ~(i <= n)
        BY <1>1, <2>1, <3>3
      <4>. QED
        BY <2>9, <4>1
    <3>. QED
      BY <1>1, <2>1, <3>1, <3>2, <3>3
  <2>13. \A i, j \in 2..Len(list) : i < j =>
            (IF i <= n THEN i - 1 ELSE i) < (IF j <= n THEN j - 1 ELSE j)
    BY <1>1, <2>1
  <2>14. ASSUME NEW i \in 2..Len(list), NEW j \in 2..Len(list), touched[i].key = touched[j].key
         PROVE  i = j
    <3>1. PICK a \in 1..Len(list) : touched[i] = list[a] /\ a = (IF i <= n THEN i - 1 ELSE i)
      BY <2>11
    <3>2. PICK b \in 1..Len(list) : touched[j] = list[b] /\ b = (IF j <= n THEN j - 1 ELSE j)
      BY <2>11
    <3>3. a = b
      BY <1>1, <2>14, <3>1, <3>2 DEF Alone
    <3>. QED
      BY <1>1, <2>1, <2>13, <3>1, <3>2, <3>3
  <2>15. Alone(touched)
    <3>1. DOMAIN touched = 1..Len(list)
      BY <2>4
    <3>2. \A i \in 1..Len(list) : i = 1 \/ i \in 2..Len(list)
      BY <1>1
    <3>3. \A i \in 2..Len(list) : touched[i].key # touched[1].key
      BY <2>2, <2>8, <2>11
    <3>. QED
      BY <2>14, <3>1, <3>2, <3>3 DEF Alone
  <2>16. ASSUME \A i, j \in DOMAIN list : i < j => list[i].seen >= list[j].seen,
                NEW i \in 2..Len(list), NEW j \in 2..Len(list), i < j
         PROVE  touched[i].seen >= touched[j].seen
    <3>1. PICK a \in 1..Len(list) : touched[i] = list[a] /\ a = (IF i <= n THEN i - 1 ELSE i)
      BY <2>11
    <3>2. PICK b \in 1..Len(list) : touched[j] = list[b] /\ b = (IF j <= n THEN j - 1 ELSE j)
      BY <2>11
    <3>3. a < b
      BY <2>13, <2>16, <3>1, <3>2
    <3>. QED
      BY <1>1, <2>16, <3>1, <3>2, <3>3
  <2>17. Len(touched) \in 1..Capacity
    BY <1>1, <2>1, <2>7, RateConstants
  <2>18. \E i \in DOMAIN list : list[i].key = k /\ touched[1] = [list[i] EXCEPT !.seen = time]
    BY <1>1, <2>1, <2>8 DEF moved
  <2>19. \A j \in 2..Len(touched) : \E i \in DOMAIN list : list[i].key # k /\ touched[j] = list[i]
    BY <1>1, <2>7, <2>11
  <2>20. \A i \in DOMAIN list : list[i].key # k => \E j \in 2..Len(touched) : touched[j] = list[i]
    BY <1>1, <2>1, <2>7, <2>12
  <2>. QED
    BY <2>7, <2>15, <2>16, <2>17, <2>18, <2>19, <2>20
<1>3. CASE ~Has(list, k)
  <2>. DEFINE m == Smaller(Len(list), Capacity - 1)
              X == Buckets
              new == FreshBucket(k)
              kept == SubSeq(list, 1, m)
  <2>1. m \in Nat /\ m <= Len(list) /\ m + 1 \in 1..Capacity /\ (Len(list) < Capacity => m = Len(list))
    BY <1>1, RateConstants DEF Smaller
  <2>2. new \in X /\ new.key = k
    BY RateConstants DEF FreshBucket, Buckets
  <2>3. touched = <<new>> \o kept
    BY <1>3 DEF Touched
  <2>. HIDE DEF X, new, m
  <2>4. list \in Seq(X)
    BY DEF X
  <2>5. kept \in Seq(X) /\ Len(kept) = m /\ \A i \in 1..m : kept[i] = list[i]
    BY <2>1, <2>4
  <2>. HIDE DEF kept
  <2>6. /\ touched \in Seq(X) /\ Len(touched) = m + 1 /\ touched[1] = new
        /\ \A j \in 2..(m + 1) : touched[j] = kept[j - 1]
    <3>1. <<new>> \in Seq(X) /\ Len(<<new>>) = 1 /\ <<new>>[1] = new
      BY <2>2
    <3>. DEFINE front == <<new>>
    <3>2. front \in Seq(X) /\ Len(front) = 1 /\ front[1] = new /\ touched = front \o kept
      BY <2>3, <3>1
    <3>. HIDE DEF front
    <3>6. /\ touched \in Seq(X) /\ Len(touched) = Len(front) + Len(kept)
          /\ \A i \in 1..Len(front) + Len(kept) :
                touched[i] = IF i <= Len(front) THEN front[i] ELSE kept[i - Len(front)]
      <4>1. \A s, t \in Seq(X) :
               /\ s \o t \in Seq(X) /\ Len(s \o t) = Len(s) + Len(t)
               /\ \A i \in 1..Len(s) + Len(t) :
                     (s \o t)[i] = IF i <= Len(s) THEN s[i] ELSE t[i - Len(s)]
        BY ConcatProperties
      <4>2. front \in Seq(X) /\ kept \in Seq(X)
        BY <2>5, <3>2
      <4>3. /\ front \o kept \in Seq(X) /\ Len(front \o kept) = Len(front) + Len(kept)
            /\ \A i \in 1..Len(front) + Len(kept) :
                  (front \o kept)[i] = IF i <= Len(front) THEN front[i] ELSE kept[i - Len(front)]
        BY <4>1, <4>2, Zenon
      <4>4. touched = front \o kept
        BY <3>2
      <4>. QED
        BY <4>3, <4>4, Zenon
    <3>3. touched \in Seq(X) /\ Len(touched) = m + 1
      BY <2>1, <2>5, <3>2, <3>6
    <3>4. touched[1] = new
      BY <2>1, <2>5, <3>2, <3>6
    <3>5. ASSUME NEW j \in 2..(m + 1) PROVE touched[j] = kept[j - 1]
      <4>1. j \in 1..(Len(front) + Len(kept)) /\ j > Len(front) /\ j - Len(front) = j - 1
        BY <2>1, <2>5, <3>2
      <4>. QED
        BY <2>5, <3>2, <3>6, <4>1
    <3>. QED
      BY <3>3, <3>4, <3>5
  <2>7. /\ \A j \in 2..(m + 1) : j - 1 \in 1..m /\ j - 1 \in 1..Len(list)
        /\ \A j \in 2..(m + 1) : touched[j] = list[j - 1]
    <3>1. \A j \in 2..(m + 1) : j - 1 \in 1..m /\ j - 1 \in 1..Len(list)
      <4>1. Len(list) \in Nat /\ m \in Nat /\ m <= Len(list)
        BY <1>1, <2>1
      <4>2. ASSUME NEW j \in 2..(m + 1) PROVE j - 1 \in 1..m /\ j - 1 \in 1..Len(list)
        BY <4>1
      <4>. QED
        BY <4>2
    <3>2. \A j \in 2..(m + 1) : touched[j] = list[j - 1]
      <4>. TAKE j \in 2..(m + 1)
      <4>1. j - 1 \in 1..m
        BY <3>1
      <4>2. kept[j - 1] = list[j - 1]
        BY <2>5, <4>1
      <4>. QED
        BY <2>6, <4>2
    <3>. QED
      BY <3>1, <3>2
  <2>8. \A i \in 1..Len(list) : list[i].key # k
    BY <1>1, <1>3 DEF Has
  <2>9. Alone(touched)
    <3>1. DOMAIN touched = 1..(m + 1)
      BY <2>1, <2>6
    <3>2. \A i \in 1..(m + 1) : i = 1 \/ i \in 2..(m + 1)
      BY <2>1
    <3>3. \A i \in 2..(m + 1) : touched[i].key # touched[1].key
      BY <2>2, <2>6, <2>7, <2>8
    <3>4. \A i, j \in 2..(m + 1) : touched[i].key = touched[j].key => i - 1 = j - 1
      BY <1>1, <2>7 DEF Alone
    <3>5. \A i, j \in 2..(m + 1) : i - 1 = j - 1 => i = j
      BY <2>1
    <3>. QED
      BY <3>1, <3>2, <3>3, <3>4, <3>5 DEF Alone
  <2>10. \A j \in 2..Len(touched) : \E i \in DOMAIN list : list[i].key # k /\ touched[j] = list[i]
    BY <1>1, <2>6, <2>7, <2>8
  <2>11. ASSUME Len(list) < Capacity, NEW i \in DOMAIN list
         PROVE  \E j \in 2..Len(touched) : touched[j] = list[i]
    <3>1. i + 1 \in 2..(m + 1) /\ (i + 1) - 1 = i
      BY <1>1, <2>1, <2>11
    <3>. QED
      BY <2>6, <2>7, <3>1
  <2>12. ASSUME \A i, j \in DOMAIN list : i < j => list[i].seen >= list[j].seen,
                NEW i \in 2..Len(touched), NEW j \in 2..Len(touched), i < j
         PROVE  touched[i].seen >= touched[j].seen
    <3>1. i - 1 < j - 1
      BY <2>1, <2>6, <2>12
    <3>2. /\ i - 1 \in 1..Len(list) /\ j - 1 \in 1..Len(list)
          /\ touched[i] = list[i - 1] /\ touched[j] = list[j - 1]
      BY <2>6, <2>7
    <3>. QED
      BY <1>1, <2>12, <3>1, <3>2
  <2>13. touched \in Seq(Buckets) /\ Len(touched) \in 1..Capacity /\ touched[1] = FreshBucket(k)
    BY <2>1, <2>6 DEF X, new
  <2>. QED
    BY <1>3, <2>9, <2>10, <2>11, <2>12, <2>13
<1>. QED
  BY <1>2, <1>3

LEMMA BucketDrawn ==
    ASSUME time \in Nat, NEW b \in Buckets
    PROVE  /\ Drawn(b) \in Buckets /\ Drawn(b).key = b.key /\ Drawn(b).seen = b.seen
           /\ Drawn(b).tokens = (IF Ok(b) THEN Available(b) - Cost ELSE b.tokens)
           /\ Drawn(b).last = (IF Ok(b) THEN time ELSE b.last)
<1>1. b.tokens \in 0..Full /\ b.last \in Nat
  BY DEF Buckets
<1>2. /\ Drawn(b).key = b.key /\ Drawn(b).seen = b.seen
      /\ Drawn(b).tokens = (IF Ok(b) THEN Available(b) - Cost ELSE b.tokens)
      /\ Drawn(b).last = (IF Ok(b) THEN time ELSE b.last)
  BY DEF Drawn, Buckets
<1>3. Drawn(b).tokens \in 0..Full /\ Drawn(b).last \in Nat
  BY <1>1, <1>2, DrawnIs
<1>4. Drawn(b) \in Buckets
  <2>1. CASE Ok(b)
    <3>1. Drawn(b) = [b EXCEPT !.tokens = Available(b) - Cost, !.last = time]
      BY <2>1 DEF Drawn
    <3>2. Available(b) - Cost \in 0..Full
      BY <1>2, <1>3, <2>1
    <3>. QED
      BY <3>1, <3>2 DEF Buckets
  <2>2. CASE ~Ok(b)
    BY <2>2 DEF Drawn
  <2>. QED
    BY <2>1, <2>2
<1>. QED
  BY <1>2, <1>4

LEMMA IdealDrawn ==
    ASSUME time \in Nat, NEW b \in [tokens : 0..Full, last : Nat]
    PROVE  /\ Drawn(b) \in [tokens : 0..Full, last : Nat]
           /\ Drawn(b).tokens = (IF Ok(b) THEN Available(b) - Cost ELSE b.tokens)
           /\ Drawn(b).last = (IF Ok(b) THEN time ELSE b.last)
<1>1. b.tokens \in 0..Full /\ b.last \in Nat
  OBVIOUS
<1>2. /\ Drawn(b).tokens = (IF Ok(b) THEN Available(b) - Cost ELSE b.tokens)
      /\ Drawn(b).last = (IF Ok(b) THEN time ELSE b.last)
  BY DEF Drawn
<1>3. Drawn(b).tokens \in 0..Full /\ Drawn(b).last \in Nat
  BY <1>1, <1>2, DrawnIs
<1>4. Drawn(b) \in [tokens : 0..Full, last : Nat]
  <2>1. CASE Ok(b)
    <3>1. Drawn(b) = [b EXCEPT !.tokens = Available(b) - Cost, !.last = time]
      BY <2>1 DEF Drawn
    <3>2. Available(b) - Cost \in 0..Full
      BY <1>2, <1>3, <2>1
    <3>. QED
      BY <3>1, <3>2
  <2>2. CASE ~Ok(b)
    BY <2>2 DEF Drawn
  <2>. QED
    BY <2>1, <2>2
<1>. QED
  BY <1>2, <1>4

\* What is idle has filled up.
LEMMA IdleIsFull ==
    ASSUME time \in Nat, NEW b \in Buckets, b.last <= b.seen, b.seen <= time, IsIdle(b)
    PROVE  Available(b) = Full
<1>1. b.tokens \in 0..Full /\ b.last \in Nat /\ b.seen \in Nat
  BY DEF Buckets
<1>2. time - b.last \in Nat /\ IdleTTL <= time - b.last /\ b.last <= time
  BY <1>1, RateConstants DEF IsIdle
<1>3. IdleTTL * Refill <= (time - b.last) * Refill
  BY <1>2, RateConstants, Products
<1>4. IdleTTL * Refill \in Nat /\ (time - b.last) * Refill \in Nat
  BY <1>2, RateConstants, Products
<1>5. Available(b) = Smaller(Full, b.tokens + (time - b.last) * Refill)
  BY <1>1, <1>2, AvailableIs
<1>. DEFINE x == IdleTTL * Refill  y == (time - b.last) * Refill
<1>6. x \in Nat /\ y \in Nat /\ x <= y /\ Full <= x /\ Available(b) = Smaller(Full, b.tokens + y)
  BY <1>3, <1>4, <1>5, RateConstants
<1>. HIDE DEF x, y
<1>. QED
  BY <1>1, <1>6, RateConstants DEF Smaller

\* The front of the list, as a request leaves it.
LEMMA AllowedIs ==
    ASSUME RateInv, NEW k \in Keys, AllowKey(k)
    PROVE  /\ recent' \in Seq(Buckets) /\ Len(recent') \in 1..Capacity /\ Alone(recent')
           /\ recent'[1].key = k /\ recent'[1].seen = time
           /\ \E b \in Buckets :
                 /\ recent'[1] = Drawn(b)
                 /\ k = Watched => /\ ideal' = Drawn(ideal)
                                   /\ passed < MaxAdmitted
                                   /\ passed' = IF Ok(b) THEN passed + 1 ELSE passed
                                   /\ earned' = IF Ok(ideal) THEN earned + 1 ELSE earned
                 /\ \/ ~Has(Swept, k) /\ b = FreshBucket(k)
                    \/ \E i \in DOMAIN Swept : /\ Swept[i].key = k
                                               /\ b = [Swept[i] EXCEPT !.seen = time]
           /\ \A j \in 2..Len(recent') : \E i \in DOMAIN Swept :
                 Swept[i].key # k /\ recent'[j] = Swept[i]
           /\ ~pressed' => /\ ~pressed
                           /\ \A i \in DOMAIN Swept : Swept[i].key # k =>
                                 \E j \in 2..Len(recent') : recent'[j] = Swept[i]
           /\ (\A i, j \in DOMAIN Swept : i < j => Swept[i].seen >= Swept[j].seen) =>
                 \A i, j \in 2..Len(recent') : i < j => recent'[i].seen >= recent'[j].seen
<1>. DEFINE list == Touched(Swept, k)
<1>1. /\ recent' = [list EXCEPT ![1] = Drawn(list[1])]
      /\ k = Watched => /\ ideal' = Drawn(ideal)
                        /\ passed < MaxAdmitted
                        /\ passed' = IF Ok(list[1]) THEN passed + 1 ELSE passed
                        /\ earned' = IF Ok(ideal) THEN earned + 1 ELSE earned
      /\ pressed' = (pressed \/ (~Has(Swept, k) /\ Len(Swept) >= Capacity))
  BY DEF AllowKey
<1>2. time \in Nat /\ recent \in Seq(Buckets) /\ Len(recent) <= Capacity /\ Alone(recent)
  BY RateConstants DEF RateInv
<1>3. /\ Swept \in Seq(Buckets) /\ Len(Swept) \in Nat /\ Len(Swept) <= Capacity
      /\ \A i \in 1..Len(Swept) : i \in DOMAIN recent /\ Swept[i] = recent[i]
  <2>1. /\ Swept \in Seq(Buckets) /\ Len(Swept) \in 0..Len(recent)
        /\ \A i \in 1..Len(Swept) : i \in DOMAIN recent /\ Swept[i] = recent[i]
    BY <1>2, SweptIs
  <2>2. Len(recent) \in Nat
    BY <1>2
  <2>. QED
    BY <1>2, <2>1, <2>2, RateConstants
<1>4. Alone(Swept)
  BY <1>2, <1>3 DEF Alone
<1>5. /\ list \in Seq(Buckets) /\ Len(list) \in 1..Capacity /\ Alone(list)
      /\ \/ ~Has(Swept, k) /\ list[1] = FreshBucket(k)
         \/ \E i \in DOMAIN Swept : Swept[i].key = k /\ list[1] = [Swept[i] EXCEPT !.seen = time]
      /\ \A j \in 2..Len(list) : \E i \in DOMAIN Swept : Swept[i].key # k /\ list[j] = Swept[i]
      /\ Has(Swept, k) \/ Len(Swept) < Capacity =>
            \A i \in DOMAIN Swept : Swept[i].key # k => \E j \in 2..Len(list) : list[j] = Swept[i]
      /\ (\A i, j \in DOMAIN Swept : i < j => Swept[i].seen >= Swept[j].seen) =>
            \A i, j \in 2..Len(list) : i < j => list[i].seen >= list[j].seen
  BY <1>2, <1>3, <1>4, TouchedIs
<1>. HIDE DEF list
<1>6. DOMAIN list = 1..Len(list) /\ 1 \in 1..Len(list) /\ list[1] \in Buckets
  BY <1>5
<1>7. list[1].key = k /\ list[1].seen = time
  <2>1. CASE ~Has(Swept, k) /\ list[1] = FreshBucket(k)
    BY <2>1 DEF FreshBucket
  <2>2. ASSUME NEW i \in DOMAIN Swept, Swept[i].key = k, list[1] = [Swept[i] EXCEPT !.seen = time]
        PROVE  list[1].key = k /\ list[1].seen = time
    <3>1. Swept[i] \in Buckets
      BY <1>3
    <3>. QED
      BY <2>2, <3>1 DEF Buckets
  <2>. QED
    BY <1>5, <2>1, <2>2
<1>8. /\ Drawn(list[1]) \in Buckets /\ Drawn(list[1]).key = k /\ Drawn(list[1]).seen = time
  BY <1>2, <1>6, <1>7, BucketDrawn
<1>9. /\ recent' \in Seq(Buckets) /\ Len(recent') = Len(list) /\ recent'[1] = Drawn(list[1])
      /\ \A j \in 2..Len(list) : recent'[j] = list[j]
  <2>. DEFINE X == Buckets  d == Drawn(list[1])
  <2>1. list \in Seq(X) /\ d \in X /\ recent' = [list EXCEPT ![1] = d]
    BY <1>1, <1>5, <1>8
  <2>. HIDE DEF X, d
  <2>2. recent' \in Seq(X) /\ Len(recent') = Len(list) /\ recent'[1] = d
    BY <1>6, <2>1
  <2>3. \A j \in 2..Len(list) : j \in 1..Len(list) /\ j # 1
    BY <1>5
  <2>4. \A j \in 2..Len(list) : recent'[j] = list[j]
    BY <1>6, <2>1, <2>3
  <2>. QED
    BY <2>2, <2>4 DEF X, d
<1>10. Alone(recent')
  <2>1. DOMAIN recent' = 1..Len(list)
    BY <1>5, <1>9
  <2>2. \A j \in 1..Len(list) : j = 1 \/ j \in 2..Len(list)
    BY <1>5
  <2>3. \A j \in 1..Len(list) : recent'[j].key = list[j].key
    BY <1>7, <1>8, <1>9, <2>2
  <2>. QED
    BY <1>5, <1>6, <2>1, <2>3 DEF Alone
<1>11. ~pressed' => ~pressed /\ (Has(Swept, k) \/ Len(Swept) < Capacity)
  <2>1. ~(Len(Swept) >= Capacity) => Len(Swept) < Capacity
    BY <1>3, RateConstants
  <2>. QED
    BY <1>1, <2>1, Zenon
<1>12. \E b \in Buckets :
          /\ recent'[1] = Drawn(b)
          /\ k = Watched => /\ ideal' = Drawn(ideal)
                            /\ passed < MaxAdmitted
                            /\ passed' = IF Ok(b) THEN passed + 1 ELSE passed
                            /\ earned' = IF Ok(ideal) THEN earned + 1 ELSE earned
          /\ \/ ~Has(Swept, k) /\ b = FreshBucket(k)
             \/ \E i \in DOMAIN Swept : Swept[i].key = k /\ b = [Swept[i] EXCEPT !.seen = time]
  <2>. DEFINE Goes(b) ==
          /\ recent'[1] = Drawn(b)
          /\ k = Watched => /\ ideal' = Drawn(ideal)
                            /\ passed < MaxAdmitted
                            /\ passed' = IF Ok(b) THEN passed + 1 ELSE passed
                            /\ earned' = IF Ok(ideal) THEN earned + 1 ELSE earned
          /\ \/ ~Has(Swept, k) /\ b = FreshBucket(k)
             \/ \E i \in DOMAIN Swept : Swept[i].key = k /\ b = [Swept[i] EXCEPT !.seen = time]
  <2>1. Goes(list[1])
    BY <1>1, <1>5, <1>9
  <2>. HIDE DEF Goes
  <2>2. \E b \in Buckets : Goes(b)
    BY <1>6, <2>1
  <2>. QED
    BY <2>2 DEF Goes
<1>13. \A j \in 2..Len(recent') : \E i \in DOMAIN Swept : Swept[i].key # k /\ recent'[j] = Swept[i]
  BY <1>5, <1>9
<1>14. ~pressed' => \A i \in DOMAIN Swept : Swept[i].key # k =>
                       \E j \in 2..Len(recent') : recent'[j] = Swept[i]
  BY <1>5, <1>9, <1>11
<1>15. (\A i, j \in DOMAIN Swept : i < j => Swept[i].seen >= Swept[j].seen) =>
          \A i, j \in 2..Len(recent') : i < j => recent'[i].seen >= recent'[j].seen
  BY <1>5, <1>9
<1>. QED
  BY <1>5, <1>8, <1>9, <1>10, <1>11, <1>12, <1>13, <1>14, <1>15

\* The surplus of requests let through pays for what the bucket lacks.
LEMMA Surplus ==
    ASSUME NEW d \in Nat, NEW a \in 0..Full, NEW i \in 0..Full, i <= a + d * Cost
    PROVE  /\ a >= Cost => i <= (a - Cost) + (d + 1) * Cost
           /\ a < Cost /\ i >= Cost => d >= 1 /\ i - Cost <= a + (d - 1) * Cost
           /\ i - Cost <= (a - Cost) + d * Cost
<1>. DEFINE e == d * Cost
<1>1. e \in Nat /\ (d + 1) * Cost = e + Cost
  BY RateConstants, Products
<1>2. d >= 1 => (d - 1) * Cost = e - Cost
  <2>1. CASE d >= 1
    <3>1. d - 1 \in Nat
      BY <2>1
    <3>2. ((d - 1) + 1) * Cost = (d - 1) * Cost + Cost /\ (d - 1) * Cost \in Nat
      BY <3>1, RateConstants, Products
    <3>3. (d - 1) + 1 = d
      OBVIOUS
    <3>. QED
      BY <3>2, <3>3, RateConstants
  <2>. QED
    BY <2>1
<1>3. d = 0 => e = 0
  BY RateConstants
<1>4. i <= a + e
  OBVIOUS
<1>. HIDE DEF e
<1>5. a >= Cost => i <= (a - Cost) + (d + 1) * Cost
  BY <1>1, <1>4, RateConstants
<1>6. i - Cost <= (a - Cost) + e
  BY <1>1, <1>4, RateConstants
<1>7. ASSUME a < Cost, i >= Cost PROVE d >= 1 /\ i - Cost <= a + (d - 1) * Cost
  <2>1. d >= 1
    BY <1>1, <1>3, <1>4, <1>7, RateConstants
  <2>. QED
    BY <1>1, <1>2, <1>4, <2>1, RateConstants
<1>. QED
  BY <1>5, <1>6, <1>7 DEF e

LEMMA AllowStep ==
    ASSUME RateInv, NEW k \in Keys, AllowKey(k)
    PROVE  RateInv'
<1>1. /\ recent' \in Seq(Buckets) /\ Len(recent') \in 1..Capacity /\ Alone(recent')
      /\ recent'[1].key = k /\ recent'[1].seen = time
      /\ \A j \in 2..Len(recent') : \E i \in DOMAIN Swept :
            Swept[i].key # k /\ recent'[j] = Swept[i]
      /\ ~pressed' => /\ ~pressed
                      /\ \A i \in DOMAIN Swept : Swept[i].key # k =>
                            \E j \in 2..Len(recent') : recent'[j] = Swept[i]
      /\ (\A i, j \in DOMAIN Swept : i < j => Swept[i].seen >= Swept[j].seen) =>
            \A i, j \in 2..Len(recent') : i < j => recent'[i].seen >= recent'[j].seen
  BY AllowedIs
<1>2. PICK b \in Buckets :
        /\ recent'[1] = Drawn(b)
        /\ k = Watched => /\ ideal' = Drawn(ideal)
                          /\ passed < MaxAdmitted
                          /\ passed' = IF Ok(b) THEN passed + 1 ELSE passed
                          /\ earned' = IF Ok(ideal) THEN earned + 1 ELSE earned
        /\ \/ ~Has(Swept, k) /\ b = FreshBucket(k)
           \/ \E i \in DOMAIN Swept : Swept[i].key = k /\ b = [Swept[i] EXCEPT !.seen = time]
  BY AllowedIs
<1>3. /\ k # Watched => UNCHANGED <<passed, ideal, earned>>
      /\ UNCHANGED <<time, stepsBack>> /\ pressed' \in BOOLEAN
  BY DEF AllowKey, RateInv
<1>4. /\ time \in Nat /\ recent \in Seq(Buckets) /\ passed \in Nat /\ earned \in Nat
      /\ ideal \in [tokens : 0..Full, last : Nat] /\ ideal.tokens \in 0..Full /\ ideal.last \in Nat
      /\ passed <= MaxAdmitted
  BY RateConstants DEF RateInv
<1>5. /\ Swept \in Seq(Buckets) /\ Len(Swept) \in 0..Len(recent)
      /\ \A i \in 1..Len(Swept) : i \in DOMAIN recent /\ Swept[i] = recent[i]
      /\ \A i \in DOMAIN recent : i > Len(Swept) => IsIdle(recent[i])
  BY <1>4, SweptIs
<1>6. /\ DOMAIN Swept = 1..Len(Swept) /\ DOMAIN recent = 1..Len(recent) /\ Len(recent) \in Nat
      /\ DOMAIN recent' = 1..Len(recent') /\ \A i \in 1..Len(recent) : recent[i] \in Buckets
      /\ Len(Swept) \in Nat
  BY <1>1, <1>4, <1>5
<1>7. /\ passed' \in 0..MaxAdmitted /\ earned' \in Nat
      /\ ideal' \in [tokens : 0..Full, last : Nat]
  <2>1. CASE k = Watched
    <3>1. passed < MaxAdmitted /\ (passed' = passed + 1 \/ passed' = passed)
          /\ (earned' = earned + 1 \/ earned' = earned) /\ ideal' = Drawn(ideal)
      BY <1>2, <2>1
    <3>. QED
      BY <1>4, <3>1, RateConstants, IdealDrawn
  <2>2. CASE k # Watched
    BY <1>3, <2>2 DEF RateInv
  <2>. QED
    BY <2>1, <2>2
<1>8. ASSUME stepsBack = 0 PROVE Forward'
  <2>. DEFINE D == passed - earned
  <2>1. /\ passed >= earned /\ ideal.last <= time
        /\ \A i \in DOMAIN recent : recent[i].last <= recent[i].seen /\ recent[i].seen <= time
        /\ \A i, j \in DOMAIN recent : i < j => recent[i].seen >= recent[j].seen
        /\ \A i \in DOMAIN recent : recent[i].key = Watched =>
              Available(ideal) <= Available(recent[i]) + D * Cost
    BY <1>8 DEF RateInv, Forward, OldestIsLast
  <2>2. ~pressed =>
          /\ passed = earned
          /\ Has(recent, Watched) \/ Available(ideal) = Full
          /\ \A i \in DOMAIN recent : recent[i].key = Watched =>
                recent[i].tokens = ideal.tokens /\ recent[i].last = ideal.last
    BY <1>8 DEF RateInv, Forward
  <2>3. D \in Nat /\ D * Cost \in Nat
    BY <1>4, <2>1, RateConstants, Products
  <2>4. \A i \in DOMAIN Swept : /\ i \in DOMAIN recent /\ Swept[i] = recent[i]
    BY <1>5, <1>6
  <2>5. \A i \in DOMAIN recent : recent[i] \in Buckets
    BY <1>6
  <2>6. Available(ideal) \in 0..Full
    BY <1>4, AvailableIs
  <2>7. ~pressed /\ ~Has(Swept, Watched) => Available(ideal) = Full
    <3>1. SUFFICES ASSUME ~pressed, ~Has(Swept, Watched), Has(recent, Watched)
                   PROVE  Available(ideal) = Full
      BY <2>2
    <3>2. PICK i \in DOMAIN recent : recent[i].key = Watched
      BY <3>1 DEF Has
    <3>3. i > Len(Swept)
      <4>1. i \notin DOMAIN Swept
        BY <2>4, <3>1, <3>2 DEF Has
      <4>. QED
        BY <1>6, <4>1
    <3>4. Available(recent[i]) = Full
      BY <1>4, <1>5, <2>1, <2>5, <3>3, IdleIsFull
    <3>5. recent[i].tokens = ideal.tokens /\ recent[i].last = ideal.last
      BY <2>2, <3>1, <3>2
    <3>. QED
      BY <3>4, <3>5 DEF Available
  <2>8. b.last <= time /\ b.tokens \in 0..Full /\ b.last \in Nat
    <3>1. CASE b = FreshBucket(k)
      BY <1>4, <3>1, RateConstants DEF FreshBucket
    <3>2. ASSUME NEW i \in DOMAIN Swept, b = [Swept[i] EXCEPT !.seen = time]
          PROVE  b.last <= time
      <4>1. b.last = recent[i].last /\ recent[i].last \in Nat /\ recent[i].seen \in Nat
        BY <2>4, <2>5, <3>2 DEF Buckets
      <4>. QED
        BY <1>4, <2>1, <2>4, <4>1
    <3>. QED
      BY <1>2, <3>1, <3>2 DEF Buckets
  <2>9. /\ recent'[1].last <= time /\ recent'[1].last \in Nat
        /\ recent'[1].tokens = (IF Ok(b) THEN Available(b) - Cost ELSE b.tokens)
        /\ recent'[1].last = (IF Ok(b) THEN time ELSE b.last)
        /\ Available(recent'[1]) = (IF Ok(b) THEN Available(b) - Cost ELSE Available(b))
    <3>. DEFINE d == Drawn(b)
    <3>1. /\ d.tokens = (IF Ok(b) THEN Available(b) - Cost ELSE b.tokens)
          /\ d.last = (IF Ok(b) THEN time ELSE b.last)
      BY <1>4, BucketDrawn
    <3>. HIDE DEF d
    <3>2. d.last \in Nat /\ d.last <= time
          /\ Available(d) = (IF Ok(b) THEN Available(b) - Cost ELSE Available(b))
      BY <1>4, <2>8, <3>1, DrawnIs
    <3>3. recent'[1] = d
      BY <1>2 DEF d
    <3>. QED
      BY <3>1, <3>2, <3>3
  <2>10. \A j \in DOMAIN recent' : j = 1 \/ j \in 2..Len(recent')
    BY <1>1, <1>6
  <2>11. \A j \in 2..Len(recent') : \E i \in DOMAIN recent :
            i \in DOMAIN Swept /\ recent[i].key # k /\ recent'[j] = recent[i]
    BY <1>1, <2>4
  <2>12. \A j \in DOMAIN recent' : recent'[j].last <= recent'[j].seen /\ recent'[j].seen <= time
    BY <1>1, <1>4, <2>1, <2>9, <2>10, <2>11
  <2>13. OldestIsLast'
    <3>1. \A i, j \in 2..Len(recent') : i < j => recent'[i].seen >= recent'[j].seen
      BY <1>1, <2>1, <2>4
    <3>2. \A j \in 2..Len(recent') : recent'[j].seen <= recent'[1].seen
      BY <1>1, <2>1, <2>11
    <3>3. \A i, j \in DOMAIN recent' : i < j => j # 1
      BY <1>1, <1>6
    <3>4. \A j \in DOMAIN recent' : recent'[j].seen \in Nat
      <4>1. \A j \in 1..Len(recent') : recent'[j] \in Buckets
        BY <1>1
      <4>. QED
        BY <1>6, <4>1 DEF Buckets
    <3>. QED
      BY <1>1, <2>10, <3>1, <3>2, <3>3, <3>4 DEF OldestIsLast
  <2>14. CASE k = Watched
    <3>1. /\ ideal' = Drawn(ideal)
          /\ passed' = (IF Ok(b) THEN passed + 1 ELSE passed)
          /\ earned' = (IF Ok(ideal) THEN earned + 1 ELSE earned)
      BY <1>2, <2>14
    <3>2. /\ ideal'.tokens = (IF Ok(ideal) THEN Available(ideal) - Cost ELSE ideal.tokens)
          /\ ideal'.last = (IF Ok(ideal) THEN time ELSE ideal.last)
      BY <1>4, <3>1, IdealDrawn
    <3>3. /\ ideal'.last <= time
          /\ Available(ideal') = (IF Ok(ideal) THEN Available(ideal) - Cost ELSE Available(ideal))
      <4>. DEFINE d == ideal'
      <4>1. /\ d.tokens = (IF Ok(ideal) THEN Available(ideal) - Cost ELSE ideal.tokens)
            /\ d.last = (IF Ok(ideal) THEN time ELSE ideal.last)
        BY <3>2
      <4>2. \A x : /\ x.tokens = (IF Ok(ideal) THEN Available(ideal) - Cost ELSE ideal.tokens)
                   /\ x.last = (IF Ok(ideal) THEN time ELSE ideal.last)
                   => /\ x.last <= time
                      /\ Available(x) = (IF Ok(ideal) THEN Available(ideal) - Cost ELSE Available(ideal))
        BY <1>4, <2>1, DrawnIs
      <4>. HIDE DEF d
      <4>. QED
        BY <4>1, <4>2 DEF d
    <3>4. Available(b) \in 0..Full
      BY <1>4, <2>8, AvailableIs
    <3>5. Available(ideal) <= Available(b) + D * Cost
      <4>1. CASE b = FreshBucket(k)
        <5>1. b.tokens = Full /\ Available(b) >= b.tokens
          BY <1>4, <2>8, <4>1, AvailableIs DEF FreshBucket
        <5>. QED
          BY <2>3, <2>6, <3>4, <5>1, RateConstants
      <4>2. ASSUME NEW i \in DOMAIN Swept, Swept[i].key = k, b = [Swept[i] EXCEPT !.seen = time]
            PROVE  Available(ideal) <= Available(b) + D * Cost
        <5>1. b.last = recent[i].last /\ b.tokens = recent[i].tokens
          BY <2>4, <2>5, <4>2 DEF Buckets
        <5>2. Available(b) = Available(recent[i])
          BY <5>1 DEF Available
        <5>. QED
          BY <2>1, <2>4, <2>14, <4>2, <5>2
      <4>. QED
        BY <1>2, <4>1, <4>2
    <3>6. /\ passed' >= earned'
          /\ Available(ideal') <= Available(recent'[1]) + (passed' - earned') * Cost
      <4>1. (passed + 1) - earned = D + 1 /\ passed - (earned + 1) = D - 1
            /\ (passed + 1) - (earned + 1) = D
        BY <1>4
      <4>2. /\ Available(b) >= Cost => Available(ideal) <= (Available(b) - Cost) + (D + 1) * Cost
            /\ Available(b) < Cost /\ Available(ideal) >= Cost =>
                  D >= 1 /\ Available(ideal) - Cost <= Available(b) + (D - 1) * Cost
            /\ Available(ideal) - Cost <= (Available(b) - Cost) + D * Cost
        BY <2>3, <2>6, <3>4, <3>5, Surplus
      <4>3. CASE Ok(b) /\ Ok(ideal)
        BY <1>4, <2>1, <2>9, <3>1, <3>3, <4>1, <4>2, <4>3
      <4>4. CASE Ok(b) /\ ~Ok(ideal)
        BY <1>4, <2>1, <2>9, <3>1, <3>3, <4>1, <4>2, <4>4 DEF Ok
      <4>5. CASE ~Ok(b) /\ Ok(ideal)
        <5>1. Available(b) < Cost /\ Available(ideal) >= Cost
          BY <2>6, <3>4, <4>5, RateConstants DEF Ok
        <5>. QED
          BY <1>4, <2>1, <2>9, <3>1, <3>3, <4>1, <4>2, <4>5, <5>1
      <4>6. CASE ~Ok(b) /\ ~Ok(ideal)
        BY <1>4, <2>1, <2>9, <3>1, <3>3, <3>5, <4>6
      <4>. QED
        BY <4>3, <4>4, <4>5, <4>6
    <3>7. \A j \in DOMAIN recent' : recent'[j].key = Watched => j = 1
      BY <1>1, <2>10, <2>11, <2>14
    <3>8. ASSUME ~pressed'
          PROVE  passed' = earned' /\ recent'[1].tokens = ideal'.tokens /\ recent'[1].last = ideal'.last
      <4>1. ~pressed /\ passed = earned
        BY <1>1, <2>2, <3>8
      <4>2. /\ Ok(b) <=> Ok(ideal)
            /\ Ok(b) => Available(b) = Available(ideal)
            /\ ~Ok(b) => b.tokens = ideal.tokens /\ b.last = ideal.last
        <5>1. CASE ~Has(Swept, k) /\ b = FreshBucket(k)
          <6>1. Available(ideal) = Full
            BY <2>7, <2>14, <4>1, <5>1
          <6>2. b.tokens = Full /\ Available(b) >= b.tokens
            BY <1>4, <2>8, <5>1, AvailableIs DEF FreshBucket
          <6>3. Available(b) = Full
            BY <3>4, <6>2, RateConstants
          <6>. QED
            BY <6>1, <6>3, RateConstants DEF Ok
        <5>2. ASSUME NEW i \in DOMAIN Swept, Swept[i].key = k, b = [Swept[i] EXCEPT !.seen = time]
              PROVE  /\ b.tokens = ideal.tokens /\ b.last = ideal.last
                     /\ Available(b) = Available(ideal)
          <6>1. b.last = recent[i].last /\ b.tokens = recent[i].tokens
            BY <2>4, <2>5, <5>2 DEF Buckets
          <6>2. b.tokens = ideal.tokens /\ b.last = ideal.last
            BY <2>2, <2>4, <2>14, <4>1, <5>2, <6>1
          <6>. QED
            BY <6>2 DEF Available
        <5>. QED
          BY <1>2, <5>1, <5>2 DEF Ok
      <4>. QED
        BY <2>9, <3>1, <3>2, <4>1, <4>2
    <3>9. ideal'.last <= time' /\ \A x : Available(x)' = Available(x)
      BY <1>3, <3>3 DEF Available
    <3>10. 1 \in DOMAIN recent' /\ recent'[1].key = Watched
      BY <1>1, <1>6, <2>14
    <3>. QED
      BY <1>3, <2>12, <2>13, <3>6, <3>7, <3>8, <3>9, <3>10 DEF Forward, Has, Available
  <2>15. CASE k # Watched
    <3>1. UNCHANGED <<passed, ideal, earned, time>>
      BY <1>3, <2>15
    <3>2. \A j \in DOMAIN recent' : recent'[j].key = Watched =>
             \E i \in DOMAIN recent : recent[i].key = Watched /\ recent'[j] = recent[i]
      BY <1>1, <2>10, <2>11, <2>15
    <3>3. \A j \in DOMAIN recent' : recent'[j].key = Watched =>
             Available(ideal) <= Available(recent'[j]) + D * Cost
      BY <2>1, <3>2
    <3>4. ASSUME ~pressed'
          PROVE  /\ passed = earned
                 /\ Has(recent, Watched)' \/ Available(ideal) = Full
                 /\ \A j \in DOMAIN recent' : recent'[j].key = Watched =>
                       recent'[j].tokens = ideal.tokens /\ recent'[j].last = ideal.last
      <4>1. ~pressed /\ \A i \in DOMAIN Swept : Swept[i].key # k =>
                            \E j \in 2..Len(recent') : recent'[j] = Swept[i]
        BY <1>1, <3>4
      <4>2. Has(Swept, Watched) => Has(recent, Watched)'
        <5>1. SUFFICES ASSUME NEW i \in DOMAIN Swept, Swept[i].key = Watched
                       PROVE  \E j \in DOMAIN recent' : recent'[j].key = Watched
          BY DEF Has
        <5>2. PICK j \in 2..Len(recent') : recent'[j] = Swept[i]
          BY <2>15, <4>1, <5>1
        <5>3. j \in DOMAIN recent'
          BY <1>6
        <5>. QED
          BY <5>1, <5>2, <5>3
      <4>. QED
        BY <2>2, <2>7, <3>2, <4>1, <4>2
    <3>5. \A x : Available(x)' = Available(x)
      BY <3>1 DEF Available
    <3>. QED
      BY <2>1, <2>12, <2>13, <3>1, <3>3, <3>4, <3>5 DEF Forward, Available
  <2>. QED
    BY <2>14, <2>15
<1>. QED
  BY <1>1, <1>3, <1>7, <1>8 DEF RateInv

LEMMA ClockRunsStep ==
    ASSUME RateInv, ClockRuns
    PROVE  RateInv'
<1>1. /\ time \in Nat /\ time < MaxTime /\ time' = time + 1
      /\ UNCHANGED <<recent, ideal, passed, earned, stepsBack, pressed>>
  BY RateConstants DEF RateInv, ClockRuns
<1>2. /\ recent \in Seq(Buckets) /\ passed \in Nat /\ earned \in Nat
      /\ ideal.tokens \in 0..Full /\ ideal.last \in Nat
  BY RateConstants DEF RateInv
<1>3. \A i \in DOMAIN recent : recent[i] \in Buckets
  BY <1>2
<1>4. \A i \in DOMAIN recent : /\ recent[i].tokens \in 0..Full /\ recent[i].last \in Nat
                               /\ recent[i].seen \in Nat
  BY <1>3 DEF Buckets
<1>5. ASSUME stepsBack = 0 PROVE Forward'
  <2>. DEFINE Later(x) == Smaller(Full, x.tokens + (time' - Smaller(x.last, time')) * Refill)
  <2>1. /\ passed >= earned /\ ideal.last <= time
        /\ \A i \in DOMAIN recent : recent[i].last <= recent[i].seen /\ recent[i].seen <= time
        /\ OldestIsLast
        /\ \A i \in DOMAIN recent : recent[i].key = Watched =>
              Available(ideal) <= Available(recent[i]) + (passed - earned) * Cost
    BY <1>5 DEF RateInv, Forward
  <2>2. ~pressed =>
          /\ passed = earned
          /\ Has(recent, Watched) \/ Available(ideal) = Full
          /\ \A i \in DOMAIN recent : recent[i].key = Watched =>
                recent[i].tokens = ideal.tokens /\ recent[i].last = ideal.last
    BY <1>5 DEF RateInv, Forward
  <2>3. ASSUME NEW x, x.tokens \in 0..Full, x.last \in Nat, x.last <= time
        PROVE  Later(x) = Smaller(Full, Available(x) + Refill)
    <3>1. time' - Smaller(x.last, time') = time + 1 - x.last
      BY <1>1, <2>3 DEF Smaller
    <3>2. Later(x) = Smaller(Full, x.tokens + (time + 1 - x.last) * Refill)
      BY <3>1
    <3>. QED
      BY <1>1, <2>3, <3>2, TickIs
  <2>4. Available(ideal)' = Later(ideal)
    <3>1. Available(ideal)' =
             Smaller(Full, ideal'.tokens + (time' - Smaller(ideal'.last, time')) * Refill)
      BY DEF Available
    <3>2. ideal' = ideal
      BY <1>1
    <3>. QED
      BY <3>1, <3>2
  <2>5. \A i \in DOMAIN recent : Available(recent[i])' = Later(recent[i])
    <3>1. \A i \in DOMAIN recent : Available(recent[i])' =
             Smaller(Full, recent'[i].tokens + (time' - Smaller(recent'[i].last, time')) * Refill)
      BY DEF Available
    <3>2. recent' = recent
      BY <1>1
    <3>. QED
      BY <3>1, <3>2
  <2>6. Later(ideal) = Smaller(Full, Available(ideal) + Refill)
    BY <1>2, <2>1, <2>3
  <2>7. \A i \in DOMAIN recent : Later(recent[i]) = Smaller(Full, Available(recent[i]) + Refill)
    BY <1>1, <1>4, <2>1, <2>3
  <2>. HIDE DEF Later
  <2>8. Available(ideal) \in 0..Full /\ \A i \in DOMAIN recent : Available(recent[i]) \in 0..Full
    BY <1>1, <1>2, <1>4, AvailableIs
  <2>9. passed - earned \in Nat /\ (passed - earned) * Cost \in Nat
    BY <1>2, <2>1, RateConstants, Products
  <2>10. ASSUME NEW i \in DOMAIN recent, recent[i].key = Watched
         PROVE  Available(ideal)' <= Available(recent[i])' + (passed - earned) * Cost
    <3>1. Available(ideal) <= Available(recent[i]) + (passed - earned) * Cost
      BY <2>1, <2>10
    <3>2. /\ Available(ideal)' = Smaller(Full, Available(ideal) + Refill)
          /\ Available(recent[i])' = Smaller(Full, Available(recent[i]) + Refill)
      BY <2>4, <2>5, <2>6, <2>7, <2>10
    <3>3. \A a, c \in 0..Full, e \in Nat : a <= c + e =>
             Smaller(Full, a + Refill) <= Smaller(Full, c + Refill) + e
      BY RateConstants DEF Smaller
    <3>. QED
      BY <2>8, <2>9, <3>1, <3>2, <3>3
  <2>11. Available(ideal) = Full => Available(ideal)' = Full
    BY <2>4, <2>6, <2>8, RateConstants DEF Smaller
  <2>12. /\ passed' >= earned' /\ ideal'.last <= time' /\ OldestIsLast'
         /\ \A i \in DOMAIN recent' : recent'[i].last <= recent'[i].seen /\ recent'[i].seen <= time'
    BY <1>1, <1>2, <1>4, <2>1 DEF OldestIsLast
  <2>13. Has(recent, Watched)' <=> Has(recent, Watched)
    BY <1>1 DEF Has
  <2>14. \A i \in DOMAIN recent' : recent'[i].key = Watched =>
            Available(ideal)' <= Available(recent[i])' + (passed' - earned') * Cost
    BY <1>1, <2>10
  <2>15. ~pressed' =>
          /\ passed' = earned'
          /\ Has(recent, Watched)' \/ Available(ideal)' = Full
          /\ \A i \in DOMAIN recent' : recent'[i].key = Watched =>
                recent'[i].tokens = ideal'.tokens /\ recent'[i].last = ideal'.last
    BY <1>1, <2>2, <2>11, <2>13
  <2>. QED
    BY <2>12, <2>14, <2>15 DEF Forward
<1>. QED
  BY <1>1, <1>5, RateConstants DEF RateInv, Alone

LEMMA ClockStepsBackStep ==
    ASSUME RateInv, ClockStepsBack
    PROVE  RateInv'
<1>1. /\ time \in 0..MaxTime /\ time' \in 0..time - 1 /\ stepsBack \in 0..MaxStepsBack
      /\ stepsBack < MaxStepsBack /\ stepsBack' = stepsBack + 1
      /\ UNCHANGED <<recent, ideal, passed, earned, pressed>>
  BY DEF RateInv, ClockStepsBack
<1>2. time' \in 0..MaxTime /\ stepsBack' \in 0..MaxStepsBack /\ stepsBack' # 0
  BY <1>1, RateConstants
<1>. QED
  BY <1>1, <1>2 DEF RateInv, Alone

LEMMA RateInductive ==
    ASSUME RateInv, [RateNext]_rateVars
    PROVE  RateInv'
<1>1. ASSUME NEW k \in Keys, AllowKey(k) PROVE RateInv'
  BY <1>1, AllowStep
<1>2. CASE ClockRuns
  BY <1>2, ClockRunsStep
<1>3. CASE ClockStepsBack
  BY <1>3, ClockStepsBackStep
<1>4. CASE UNCHANGED rateVars
  BY <1>4 DEF RateInv, rateVars, Forward, Alone, OldestIsLast, Has, Available
<1>. QED
  BY <1>1, <1>2, <1>3, <1>4 DEF RateNext

LEMMA RateInitial == RateInit => RateInv
<1>. SUFFICES ASSUME RateInit PROVE RateInv
  OBVIOUS
<1>1. recent = <<>> /\ Len(recent) = 0 /\ DOMAIN recent = {} /\ recent \in Seq(Buckets)
  BY DEF RateInit
<1>2. time = 0 /\ ideal = [tokens |-> Full, last |-> 0] /\ passed = 0 /\ earned = 0
      /\ stepsBack = 0 /\ pressed = FALSE
  BY DEF RateInit
<1>3. Available(ideal) = Full
  BY <1>2, RateConstants DEF Available, Smaller
<1>4. Forward
  BY <1>1, <1>2, <1>3 DEF Forward, OldestIsLast, Has
<1>5. ideal \in [tokens : 0..Full, last : Nat]
  BY <1>2, RateConstants
<1>6. time \in 0..MaxTime /\ stepsBack \in 0..MaxStepsBack /\ passed \in 0..MaxAdmitted
      /\ earned \in Nat /\ Len(recent) <= Capacity
  BY <1>1, <1>2, RateConstants
<1>7. Alone(recent)
  BY <1>1 DEF Alone
<1>. QED
  BY <1>1, <1>2, <1>4, <1>5, <1>6, <1>7, Zenon DEF RateInv

\* The list of the limiter stays bounded and holds no key twice, and while the
\* clock runs forward no key is let through less often than alone, nor, before
\* a bucket in use had to make room, more often.
THEOREM LimiterIsSound == RateSpec => []LimiterSound
<1>1. RateInv => LimiterSound
  <2>. SUFFICES ASSUME RateInv PROVE LimiterSound
    OBVIOUS
  <2>1. \A i \in DOMAIN recent : recent[i].tokens \in 0..Full
    <3>1. \A i \in DOMAIN recent : recent[i] \in Buckets
      BY DEF RateInv
    <3>. QED
      BY <3>1 DEF Buckets
  <2>2. RateTypeOK
    BY <2>1 DEF RateInv, RateTypeOK, Alone
  <2>3. LimiterFair
    BY DEF RateInv, Forward, LimiterFair, NeverPunitive, SweepIsExact
  <2>. QED
    BY <2>2, <2>3 DEF LimiterSound
<1>. QED
  BY RateInitial, RateInductive, <1>1, PTL DEF RateSpec

-----------------------------------------------------------------------------
(* The middleware *)

Answers == {0, 200, 401, 413, 429, 500, 503}

Middlewares ==
    {"Recover", "RequestID", "SecurityHeaders", "AccessLog", "BodyLimit", "RateLimit", "OpsToken"}

Leavings == {"return", "panic", "abort"}

Acts == {"status", "body", "flush"} \cup Leavings

Recorded ==
    /\ recorder \in [wrote : BOOLEAN, status : Answers]
    /\ wire = IF recorder.wrote THEN <<recorder.status>> ELSE <<>>

EdgeInv ==
    /\ route \in Routes /\ refused \subseteq DOMAIN Refusal
    /\ phase \in {"in", "handler", "out"} /\ leaving \in Leavings
    /\ stack \in Seq(Middlewares)
    /\ Len(stack) <= Len(Frames)
    /\ \A i \in DOMAIN stack : stack[i] = Frames[i]
    /\ Recorded
    \* On the way in nothing is answered and nothing entered refuses.
    /\ phase = "in" => /\ ~recorder.wrote /\ acts = <<>> /\ leaving = "return"
                       /\ \A i \in DOMAIN stack : stack[i] \notin refused
    /\ phase = "handler" => Len(stack) = Len(Frames) /\ (acts = <<>> => ~recorder.wrote)
    /\ phase = "handler" \/ acts # <<>> => refused \cap Range(Guards(route)) = {}
    /\ acts \in Seq(Acts)
    \* On the way out a panic is under way until Recover has answered for it.
    /\ phase = "out" =>
          /\ leaving = "panic" => stack # <<>>
          /\ acts = <<"panic">> =>
                \/ leaving = "panic" /\ ~recorder.wrote
                \/ leaving = "return" /\ recorder.wrote /\ recorder.status = 500 /\ panicLine # "none"
          /\ acts = <<"abort">> => leaving = "abort" /\ ~recorder.wrote

LEMMA FramesAre ==
    ASSUME route \in Routes
    PROVE  /\ Frames \in Seq(Middlewares) /\ Len(Frames) >= 4 /\ Frames[1] = "Recover"
           /\ \A i \in DOMAIN Guards(route) : i + 4 \in 1..Len(Frames) /\ Frames[i + 4] = Guards(route)[i]
<1>. DEFINE g == Guards(route)
<1>1. /\ g \in Seq(Middlewares)
  <2>1. CASE route = "webhook"
    BY <2>1 DEF Guards, Middlewares
  <2>2. CASE route = "session"
    BY <2>2 DEF Guards, Middlewares
  <2>3. CASE route = "ops"
    BY <2>3 DEF Guards, Middlewares
  <2>4. CASE route = "health"
    BY <2>4 DEF Guards
  <2>. QED
    BY <2>1, <2>2, <2>3, <2>4 DEF Routes
<1>2. /\ MountedOrder \in Seq(Middlewares) /\ Len(MountedOrder) = 4 /\ MountedOrder[1] = "Recover"
  BY DEF MountedOrder, Middlewares
<1>. HIDE DEF g
<1>3. /\ MountedOrder \o g \in Seq(Middlewares) /\ Len(MountedOrder \o g) = 4 + Len(g)
      /\ \A i \in 1..4 + Len(g) :
            (MountedOrder \o g)[i] = IF i <= 4 THEN MountedOrder[i] ELSE g[i - 4]
  <2>1. \A s, t \in Seq(Middlewares) :
           /\ s \o t \in Seq(Middlewares) /\ Len(s \o t) = Len(s) + Len(t)
           /\ \A i \in 1..Len(s) + Len(t) : (s \o t)[i] = IF i <= Len(s) THEN s[i] ELSE t[i - Len(s)]
    BY ConcatProperties
  <2>. DEFINE m == MountedOrder
  <2>2. m \in Seq(Middlewares) /\ Len(m) = 4
    BY <1>2
  <2>. HIDE DEF m
  <2>3. /\ m \o g \in Seq(Middlewares) /\ Len(m \o g) = Len(m) + Len(g)
        /\ \A i \in 1..Len(m) + Len(g) : (m \o g)[i] = IF i <= Len(m) THEN m[i] ELSE g[i - Len(m)]
    BY <1>1, <2>1, <2>2, Zenon
  <2>. QED
    BY <2>2, <2>3 DEF m
<1>4. Len(g) \in Nat /\ DOMAIN g = 1..Len(g)
  BY <1>1
<1>5. \A i \in DOMAIN g : i + 4 \in 1..4 + Len(g) /\ ~(i + 4 <= 4) /\ (i + 4) - 4 = i
  BY <1>4
<1>6. \A i \in DOMAIN g : i + 4 \in 1..4 + Len(g) /\ (MountedOrder \o g)[i + 4] = g[i]
  BY <1>3, <1>5
<1>. QED
  BY <1>2, <1>3, <1>4, <1>6 DEF Frames, g

LEMMA WriteHeaderIs ==
    ASSUME Recorded, NEW status \in Answers, WriteHeader(status)
    PROVE  /\ Recorded' /\ recorder'.wrote
           /\ recorder.wrote => recorder' = recorder
           /\ ~recorder.wrote => recorder'.status = status
<1>1. CASE recorder.wrote
  BY <1>1 DEF WriteHeader, Recorded
<1>2. CASE ~recorder.wrote
  <2>1. recorder' = [wrote |-> TRUE, status |-> status] /\ wire' = Append(wire, status) /\ wire = <<>>
    BY <1>2 DEF WriteHeader, Recorded
  <2>2. recorder' \in [wrote : BOOLEAN, status : Answers] /\ recorder'.wrote /\ recorder'.status = status
    BY <2>1
  <2>3. wire' = <<status>>
    BY <2>1
  <2>. QED
    BY <1>2, <2>2, <2>3 DEF Recorded
<1>. QED
  BY <1>1, <1>2

LEMMA EnterStep ==
    ASSUME EdgeInv, Enter
    PROVE  EdgeInv'
<1>. DEFINE frame == Frames[Len(stack) + 1]
<1>1. /\ phase = "in" /\ Len(stack) < Len(Frames)
      /\ UNCHANGED <<route, refused, acts, logged, panicLine>>
  BY DEF Enter
<1>2. /\ ~recorder.wrote /\ acts = <<>> /\ leaving = "return"
      /\ \A i \in DOMAIN stack : stack[i] \notin refused
      /\ stack \in Seq(Middlewares) /\ Len(stack) \in Nat /\ Recorded
      /\ \A i \in DOMAIN stack : stack[i] = Frames[i]
      /\ refused \subseteq DOMAIN Refusal /\ route \in Routes
  BY <1>1 DEF EdgeInv
<1>3. Frames \in Seq(Middlewares) /\ Len(Frames) \in Nat /\ frame \in Middlewares
  BY <1>1, <1>2, FramesAre
<1>4. Frames' = Frames /\ Guards(route)' = Guards(route)
  BY <1>1 DEF Frames
<1>5. CASE Refuses(frame)
  <2>1. WriteHeader(Refusal[frame]) /\ phase' = "out" /\ leaving' = "return" /\ stack' = stack
    BY <1>5 DEF Enter
  <2>2. Refusal[frame] \in Answers
    BY <1>2, <1>5 DEF Refuses, Refusal, Answers
  <2>3. Recorded'
    BY <1>2, <2>1, <2>2, WriteHeaderIs
  <2>. QED
    BY <1>1, <1>2, <1>4, <2>1, <2>3 DEF EdgeInv, Leavings
<1>6. CASE ~Refuses(frame)
  <2>1. stack' = Append(stack, frame) /\ UNCHANGED <<recorder, wire, phase, leaving>>
    BY <1>6 DEF Enter
  <2>. HIDE DEF frame
  <2>2. /\ stack' \in Seq(Middlewares) /\ Len(stack') = Len(stack) + 1
        /\ \A i \in 1..Len(stack) : stack'[i] = stack[i]
        /\ stack'[Len(stack) + 1] = frame
    BY <1>2, <1>3, <2>1, AppendProperties
  <2>3. \A i \in DOMAIN stack' : (i \in DOMAIN stack /\ stack'[i] = stack[i]) \/ i = Len(stack) + 1
    BY <1>2, <2>2
  <2>4. \A i \in DOMAIN stack' : stack'[i] = Frames[i] /\ stack'[i] \notin refused
    BY <1>2, <1>6, <2>2, <2>3 DEF Refuses, frame
  <2>5. Len(stack') <= Len(Frames)
    BY <1>1, <1>2, <1>3, <2>2
  <2>. QED
    BY <1>1, <1>2, <1>4, <2>1, <2>2, <2>4, <2>5 DEF EdgeInv, Recorded
<1>. QED
  BY <1>5, <1>6

LEMMA ArriveStep ==
    ASSUME EdgeInv, Arrive
    PROVE  EdgeInv'
<1>1. /\ phase = "in" /\ Len(stack) = Len(Frames) /\ phase' = "handler"
      /\ UNCHANGED <<route, refused, stack, leaving, recorder, wire, acts, logged, panicLine>>
  BY DEF Arrive
<1>2. Frames' = Frames /\ Guards(route)' = Guards(route)
  BY <1>1 DEF Frames
<1>3. refused \cap Range(Guards(route)) = {}
  <2>1. ASSUME NEW i \in DOMAIN Guards(route) PROVE Guards(route)[i] \notin refused
    <3>1. i + 4 \in 1..Len(Frames) /\ Frames[i + 4] = Guards(route)[i]
      BY FramesAre DEF EdgeInv
    <3>2. i + 4 \in DOMAIN stack
      BY <1>1, <3>1 DEF EdgeInv
    <3>. QED
      BY <1>1, <3>1, <3>2 DEF EdgeInv
  <2>. QED
    BY <2>1 DEF Range
<1>. QED
  BY <1>1, <1>2, <1>3 DEF EdgeInv, Recorded

LEMMA HandleStep ==
    ASSUME EdgeInv, Handle
    PROVE  EdgeInv'
<1>1. /\ phase = "handler" /\ UNCHANGED <<route, refused, stack, phase, leaving, logged, panicLine>>
      /\ acts \in Seq(Acts) /\ Recorded /\ \E a \in Acts : acts' = Append(acts, a)
  BY DEF EdgeInv, Handle, Acts
<1>2. acts' \in Seq(Acts) /\ acts' # <<>>
  BY <1>1
<1>3. Recorded'
  <2>1. CASE \E status \in {200, 503} : WriteHeader(status)
    BY <1>1, <2>1, WriteHeaderIs DEF Answers
  <2>2. CASE WriteBody
    BY <1>1, <2>2, WriteHeaderIs DEF WriteBody, Answers
  <2>3. CASE FlushBody
    BY <1>1, <2>3 DEF FlushBody, Recorded, Answers
  <2>. QED
    BY <2>1, <2>2, <2>3 DEF Handle
<1>4. Frames' = Frames /\ Guards(route)' = Guards(route)
  BY <1>1 DEF Frames
<1>. QED
  BY <1>1, <1>2, <1>3, <1>4 DEF EdgeInv

LEMMA HandlerLeavesStep ==
    ASSUME EdgeInv, HandlerLeaves
    PROVE  EdgeInv'
<1>1. /\ phase = "handler" /\ leaving' \in Leavings /\ acts' = Append(acts, leaving') /\ phase' = "out"
      /\ UNCHANGED <<route, refused, stack, recorder, wire, logged, panicLine>>
      /\ acts \in Seq(Acts) /\ leaving' \in Acts
  BY DEF EdgeInv, HandlerLeaves, Acts, Leavings
<1>2. /\ acts' \in Seq(Acts) /\ acts' # <<>>
      /\ \A a : acts' = <<a>> => acts = <<>> /\ leaving' = a
  <2>1. /\ acts' \in Seq(Acts) /\ Len(acts') = Len(acts) + 1 /\ acts'[Len(acts) + 1] = leaving'
        /\ Len(acts) \in Nat
    BY <1>1, AppendProperties
  <2>2. \A a : acts' = <<a>> => Len(acts') = 1 /\ acts'[1] = a
    OBVIOUS
  <2>3. Len(acts) = 0 => acts = <<>>
    BY <1>1
  <2>4. acts' # <<>>
    BY <2>1
  <2>. QED
    BY <2>1, <2>2, <2>3, <2>4
<1>3. stack # <<>>
  <2>1. Len(stack) >= 4
    BY <1>1, FramesAre DEF EdgeInv
  <2>. QED
    BY <2>1
<1>4. Frames' = Frames /\ Guards(route)' = Guards(route)
  BY <1>1 DEF Frames
<1>. QED
  BY <1>1, <1>2, <1>3, <1>4 DEF EdgeInv, Recorded

LEMMA LeaveStep ==
    ASSUME EdgeInv, Leave
    PROVE  EdgeInv'
<1>1. /\ phase = "out" /\ stack # <<>> /\ stack' = Front(stack)
      /\ UNCHANGED <<route, refused, phase, acts>>
      /\ stack \in Seq(Middlewares) /\ Recorded /\ leaving \in Leavings
  BY DEF EdgeInv, Leave
<1>2. /\ Len(stack) \in Nat /\ Len(stack) >= 1 /\ stack' \in Seq(Middlewares)
      /\ Len(stack') = Len(stack) - 1 /\ \A i \in 1..Len(stack) - 1 : stack'[i] = stack[i]
  <2>1. Len(stack) \in Nat /\ Len(stack) >= 1 /\ \A i \in 1..Len(stack) - 1 : stack[i] \in Middlewares
    BY <1>1
  <2>2. stack' = SubSeq(stack, 1, Len(stack) - 1)
    BY <1>1 DEF Front
  <2>. DEFINE X == Middlewares
              n == Len(stack) - 1
  <2>3. n \in Nat /\ n <= Len(stack) /\ stack \in Seq(X)
    BY <1>1, <2>1
  <2>. HIDE DEF X, n
  <2>4. /\ SubSeq(stack, 1, n) \in Seq(X) /\ Len(SubSeq(stack, 1, n)) = n
        /\ \A i \in 1..n : SubSeq(stack, 1, n)[i] = stack[i]
    BY <2>3
  <2>. QED
    BY <2>1, <2>2, <2>4 DEF X, n
<1>3. Frames' = Frames /\ Guards(route)' = Guards(route)
  BY <1>1 DEF Frames
<1>4. /\ Len(stack') <= Len(Frames') /\ \A i \in DOMAIN stack' : stack'[i] = Frames'[i]
  <2>1. Len(Frames) \in Nat /\ Len(stack) <= Len(Frames)
    BY FramesAre DEF EdgeInv
  <2>2. \A i \in DOMAIN stack' : i \in DOMAIN stack /\ stack'[i] = stack[i]
    BY <1>1, <1>2
  <2>3. \A i \in DOMAIN stack : stack[i] = Frames[i]
    BY DEF EdgeInv
  <2>. QED
    BY <1>2, <1>3, <2>1, <2>2, <2>3
<1>5. Last(stack) # "Recover" => stack' # <<>>
  <2>1. stack[1] = "Recover"
    BY <1>1, <1>2, FramesAre DEF EdgeInv
  <2>2. Len(stack') = 0 => Len(stack) = 1
    BY <1>2
  <2>. QED
    BY <1>2, <2>1, <2>2 DEF Last
<1>6. /\ Recorded' /\ leaving' \in Leavings
      /\ Last(stack) = "Recover" => leaving' # "panic"
      /\ \/ recorder' = recorder /\ leaving' = leaving /\ panicLine' = panicLine
         \/ /\ leaving = "panic" /\ leaving' = "return" /\ recorder'.wrote
            /\ ~recorder.wrote => recorder'.status = 500
            /\ panicLine' # "none"
  <2>1. CASE Last(stack) = "Recover"
    <3>1. RecoverLeaves
      BY <2>1 DEF Leave
    <3>2. CASE leaving = "panic"
      <4>1. /\ WriteHeader(500) /\ leaving' = "return"
            /\ panicLine' = IF IdKnownTo("Recover") THEN "correlated" ELSE "plain"
        BY <3>1, <3>2 DEF RecoverLeaves, Recovers
      <4>2. Recorded' /\ recorder'.wrote /\ (~recorder.wrote => recorder'.status = 500)
        BY <1>1, <4>1, WriteHeaderIs DEF Answers
      <4>. QED
        BY <3>2, <4>1, <4>2 DEF Leavings
    <3>3. CASE leaving # "panic"
      BY <1>1, <3>1, <3>3 DEF RecoverLeaves, Recovers, Recorded
    <3>. QED
      BY <3>2, <3>3
  <2>2. CASE Last(stack) # "Recover"
    <3>1. UNCHANGED <<recorder, wire, leaving, panicLine>>
      BY <2>2 DEF Leave, AccessLogLeaves
    <3>. QED
      BY <1>1, <2>2, <3>1 DEF Recorded
  <2>. QED
    BY <2>1, <2>2
<1>7. leaving' = "panic" => stack' # <<>>
  BY <1>5, <1>6
<1>8. /\ acts' = <<"panic">> =>
            \/ leaving' = "panic" /\ ~recorder'.wrote
            \/ leaving' = "return" /\ recorder'.wrote /\ recorder'.status = 500 /\ panicLine' # "none"
      /\ acts' = <<"abort">> => leaving' = "abort" /\ ~recorder'.wrote
  BY <1>1, <1>6 DEF EdgeInv
<1>. QED
  BY <1>1, <1>2, <1>3, <1>4, <1>6, <1>7, <1>8 DEF EdgeInv

\* Through whatever a handler does, the client is given one status, the one on
\* record; a panic becomes an opaque 500 and an abort no answer.
THEOREM EdgeIsSound == EdgeSpec => []EdgeSound
<1>1. EdgeInit => EdgeInv
  <2>. SUFFICES ASSUME EdgeInit PROVE EdgeInv
    OBVIOUS
  <2>1. /\ stack = <<>> /\ acts = <<>> /\ wire = <<>> /\ phase = "in" /\ leaving = "return"
        /\ recorder = [wrote |-> FALSE, status |-> 0] /\ route \in Routes
        /\ refused \subseteq DOMAIN Refusal
    BY DEF EdgeInit
  <2>2. Recorded
    BY <2>1 DEF Recorded, Answers
  <2>3. Len(stack) <= Len(Frames)
    BY <2>1, FramesAre
  <2>. QED
    BY <2>1, <2>2, <2>3 DEF EdgeInv, Leavings
<1>2. EdgeInv /\ [EdgeNext]_edgeVars => EdgeInv'
  <2>. SUFFICES ASSUME EdgeInv, [EdgeNext]_edgeVars PROVE EdgeInv'
    OBVIOUS
  <2>1. CASE UNCHANGED edgeVars
    BY <2>1 DEF edgeVars, EdgeInv, Recorded, Frames
  <2>. QED
    BY <2>1, EnterStep, ArriveStep, HandleStep, HandlerLeavesStep, LeaveStep DEF EdgeNext
<1>3. EdgeInv => EdgeSound
  <2>. SUFFICES ASSUME EdgeInv PROVE EdgeSound
    OBVIOUS
  <2>1. EdgeTypeOK
    BY DEF EdgeInv, EdgeTypeOK, Recorded, Answers, Leavings
  <2>2. OneStatus
    BY DEF EdgeInv, OneStatus, Recorded
  <2>3. PanicsEndOpaque
    BY DEF EdgeInv, PanicsEndOpaque, Through, Seen, Recorded
  <2>. QED
    BY <2>1, <2>2, <2>3 DEF EdgeSound, OneAnswer
<1>. QED
  BY <1>1, <1>2, <1>3, PTL DEF EdgeSpec

-----------------------------------------------------------------------------
(* The executor and the simulated gateway *)

Progress == {"idle", "sent", "missing", "read", "tried", "answered", "moving", "done"}

Requests ==
    [at : Progress, kind : {"retry", "morph", "notice"}, presentation : {"unchanged", "network_token"},
     awaited : BOOLEAN, copy : Entities, verdict : Codes \cup {"none", "captured"},
     answer : {OfPayment, OfError(400), OfError(404), NoAnswer}, page : Nat, morphs : Nat,
     told : {"nothing", "unknown", "succeeded"}]

\* Commands that may yet capture the payment.
Undecided == {"sent", "missing", "read", "tried"}

Pending == {s \in Slots : request[s].at \in Undecided}

Capturing == charged >= 1

GatewayTypes ==
    /\ book \in Seq(Entities) /\ Len(book) <= Limit
    /\ charged \in Nat /\ disturbed \in BOOLEAN
    /\ request \in [Slots -> Requests]
    /\ commands \in 0..MaxCommands
    /\ page \in [id : 1..MaxReloads + 1, morphs : Nat]
    /\ frames \in [1..MaxReloads + 1 -> Nat]

\* The payment is in the registry once at most.
OneEntry == \A j, k \in DOMAIN book : book[j].id = Payment /\ book[k].id = Payment => j = k

\* Every capture is of a command of its own.
Paid ==
    /\ IsFiniteSet(Pending) /\ charged + Cardinality(Pending) <= commands

\* A capture that is read, answered, recorded or shown has happened.
Backs(r) ==
    /\ r.copy.id = Payment
    /\ r.copy.status = "captured" \/ r.answer = OfPayment \/ r.told = "succeeded" => Capturing
    /\ r.at = "moving" => r.told = "succeeded" /\ r.kind = "morph"

Backed ==
    /\ \A k \in DOMAIN book : book[k].status = "captured" => Capturing
    /\ \A s \in Slots : Backs(request[s])
    /\ \A p \in DOMAIN frames : frames[p] > 0 => Capturing

\* No count of a session, stored or held by a command, is ahead of its page.
Shows(r) == r.kind = "morph" => r.page \in 1..MaxReloads + 1 /\ r.morphs <= frames[r.page]

Shown ==
    /\ page.morphs <= frames[page.id]
    /\ \A s \in Slots : Shows(request[s])

\* Until two requests meet in the registry or it has forgotten the payment, a
\* request in it holds the payment as it is.
Holds(r) ==
    /\ r.at # "missing"
    /\ \A k \in DOMAIN book : book[k].id = Payment => r.copy = book[k]
    /\ r.at = "tried" => r.copy.status # "captured"

Undisturbed ==
    ~disturbed =>
        /\ Known(Payment)
        /\ \A s, t \in Slots : InRegistry(s) /\ InRegistry(t) => s = t
        /\ \A s \in Slots : InRegistry(s) => Holds(request[s])
        /\ charged <= 1
        /\ charged = 1 => \A k \in DOMAIN book : book[k].id = Payment => book[k].status = "captured"

GatewayInv == GatewayTypes /\ OneEntry /\ Paid /\ Backed /\ Shown /\ Undisturbed

LEMMA GatewayConstants ==
    /\ Payment # Stranger /\ Limit \in Nat /\ Limit >= 1 /\ MaxCommands \in Nat /\ MaxReloads \in Nat
  BY GatewayAssumption

\* What the executor makes of what this gateway answers.
LEMMA Understanding ==
    ASSUME NEW a \in {OfPayment, OfError(400), OfError(404), NoAnswer}
    PROVE  Understood(a) = IF a = OfPayment THEN "succeeded" ELSE "unknown"
  BY DEF Understood, OfPayment, OfError, NoAnswer

\* An entry is replaced where it is, or a new one is appended and the oldest
\* may go.
LEMMA PutIs ==
    ASSUME book \in Seq(Entities), Len(book) <= Limit, OneEntry, disturbed \in BOOLEAN,
           NEW entity \in Entities, Put(entity)
    PROVE  /\ book' \in Seq(Entities) /\ Len(book') <= Limit /\ OneEntry'
           /\ \A k \in DOMAIN book' : book'[k] = entity \/ \E j \in DOMAIN book : book'[k] = book[j]
           /\ entity.id = Payment => \A k \in DOMAIN book' : book'[k].id = Payment => book'[k] = entity
           /\ entity.id # Payment => \A k \in DOMAIN book' : book'[k].id = Payment =>
                 \E j \in DOMAIN book : book'[k] = book[j]
           /\ disturbed' \in BOOLEAN /\ (~disturbed' => ~disturbed /\ Known(Payment)')
<1>. DEFINE stored == IF entity.id = Payment /\ Known(Payment)
                      THEN [k \in DOMAIN book |-> IF book[k].id = entity.id THEN entity ELSE book[k]]
                      ELSE Append(book, entity)
            kept == IF Len(stored) > Limit THEN Tail(stored) ELSE stored
<1>1. /\ book' = kept
      /\ disturbed' = (disturbed \/ \A k \in DOMAIN kept : kept[k].id # Payment)
  BY DEF Put
<1>2. /\ Len(book) \in Nat /\ DOMAIN book = 1..Len(book)
      /\ \A k \in 1..Len(book) : book[k] \in Entities
  OBVIOUS
<1>3. /\ stored \in Seq(Entities) /\ Len(stored) <= Limit + 1
      /\ \A k \in 1..Len(stored) : stored[k] = entity \/ \E j \in DOMAIN book : stored[k] = book[j]
      /\ entity.id = Payment => \A k \in 1..Len(stored) : stored[k].id = Payment => stored[k] = entity
      /\ entity.id # Payment => \A k \in 1..Len(stored) : stored[k].id = Payment =>
            \E j \in DOMAIN book : stored[k] = book[j]
      /\ \A j, k \in 1..Len(stored) : stored[j].id = Payment /\ stored[k].id = Payment => j = k
  <2>1. CASE entity.id = Payment /\ Known(Payment)
    <3>1. stored = [k \in 1..Len(book) |-> IF book[k].id = entity.id THEN entity ELSE book[k]]
      BY <1>2, <2>1
    <3>2. stored \in Seq(Entities) /\ Len(stored) = Len(book)
      <4>. DEFINE X == Entities
                  f(k) == IF book[k].id = entity.id THEN entity ELSE book[k]
      <4>1. stored = [k \in 1..Len(book) |-> f(k)] /\ \A k \in 1..Len(book) : f(k) \in X
        BY <1>2, <3>1
      <4>. HIDE DEF stored, f, X
      <4>2. stored \in Seq(X) /\ DOMAIN stored = 1..Len(book)
        BY <1>2, <4>1
      <4>3. Len(stored) = Len(book)
        BY <1>2, <4>2
      <4>. QED
        BY <4>2, <4>3 DEF X
    <3>. HIDE DEF stored
    <3>3. \A k \in 1..Len(stored) : /\ k \in DOMAIN book
                                    /\ stored[k] = IF book[k].id = Payment THEN entity ELSE book[k]
      BY <1>2, <2>1, <3>1, <3>2
    <3>4. Len(stored) <= Limit + 1
      BY <1>2, <3>2, GatewayConstants
    <3>5. \A k \in 1..Len(stored) :
             /\ stored[k] = entity \/ \E j \in DOMAIN book : stored[k] = book[j]
             /\ stored[k].id = Payment => stored[k] = entity /\ book[k].id = Payment
      BY <2>1, <3>3
    <3>6. \A j, k \in 1..Len(stored) : stored[j].id = Payment /\ stored[k].id = Payment => j = k
      BY <3>3, <3>5 DEF OneEntry
    <3>. QED
      BY <2>1, <3>2, <3>4, <3>5, <3>6
  <2>2. CASE ~(entity.id = Payment /\ Known(Payment))
    <3>1. stored = Append(book, entity)
      BY <2>2
    <3>2. /\ stored \in Seq(Entities) /\ Len(stored) = Len(book) + 1
          /\ \A k \in 1..Len(book) : stored[k] = book[k]
          /\ stored[Len(book) + 1] = entity
      BY <3>1, AppendProperties
    <3>3. \A k \in 1..Len(stored) : \/ k \in DOMAIN book /\ stored[k] = book[k]
                                    \/ k = Len(book) + 1 /\ stored[k] = entity
      BY <1>2, <3>2
    <3>. HIDE DEF stored
    <3>4. entity.id = Payment => \A k \in DOMAIN book : book[k].id # Payment
      BY <2>2 DEF Known
    <3>. QED
      BY <1>2, <2>2, <3>2, <3>3, <3>4, GatewayConstants DEF OneEntry
  <2>. QED
    BY <2>1, <2>2
<1>. HIDE DEF stored
<1>4. /\ kept \in Seq(Entities) /\ Len(kept) <= Limit
      /\ \E d \in {0, 1} : \A k \in 1..Len(kept) : k + d \in 1..Len(stored) /\ kept[k] = stored[k + d]
  <2>1. CASE Len(stored) > Limit
    <3>1. stored # <<>> /\ kept = Tail(stored)
      BY <1>3, <2>1, GatewayConstants
    <3>2. kept \in Seq(Entities) /\ Len(kept) = Len(stored) - 1
          /\ \A k \in 1..Len(kept) : kept[k] = stored[k + 1]
      BY <1>3, <3>1
    <3>3. \A k \in 1..Len(kept) : k + 1 \in 1..Len(stored)
      BY <1>3, <3>2
    <3>. QED
      BY <1>3, <3>2, <3>3, GatewayConstants
  <2>2. CASE ~(Len(stored) > Limit)
    BY <1>3, <2>2, GatewayConstants
  <2>. QED
    BY <2>1, <2>2
<1>. HIDE DEF kept
<1>5. PICK d \in {0, 1} : \A k \in 1..Len(kept) : k + d \in 1..Len(stored) /\ kept[k] = stored[k + d]
  BY <1>4
<1>6. DOMAIN book' = 1..Len(kept) /\ Len(kept) \in Nat /\ book' = kept
  BY <1>1, <1>4
<1>7. OneEntry'
  <2>1. \A j, k \in 1..Len(stored) : stored[j].id = Payment /\ stored[k].id = Payment => j = k
    BY <1>3
  <2>2. \A j, k \in 1..Len(kept) : kept[j].id = Payment /\ kept[k].id = Payment => j + d = k + d
    BY <1>5, <2>1
  <2>. QED
    BY <1>5, <1>6, <2>2 DEF OneEntry
<1>8. disturbed' \in BOOLEAN /\ (~disturbed' => ~disturbed /\ Known(Payment)')
  BY <1>1, Zenon DEF Known
<1>9. \A k \in DOMAIN book' : \E i \in 1..Len(stored) : book'[k] = stored[i]
  BY <1>5, <1>6
<1>10. \A k \in DOMAIN book' : book'[k] = entity \/ \E j \in DOMAIN book : book'[k] = book[j]
  BY <1>3, <1>9
<1>11. entity.id = Payment => \A k \in DOMAIN book' : book'[k].id = Payment => book'[k] = entity
  BY <1>3, <1>9
<1>12. entity.id # Payment => \A k \in DOMAIN book' : book'[k].id = Payment =>
          \E j \in DOMAIN book : book'[k] = book[j]
  BY <1>3, <1>9
<1>. QED
  BY <1>4, <1>6, <1>7, <1>8, <1>10, <1>11, <1>12

LEMMA RecordsAre ==
    /\ NoCopy \in Entities /\ NoCopy.id = Payment /\ NoCopy.status = "failed"
    /\ NoRequest \in Requests /\ NoRequest.at = "idle" /\ NoRequest.kind = "retry"
    /\ NoRequest.copy = NoCopy /\ NoRequest.answer = NoAnswer /\ NoRequest.told = "nothing"
    /\ Unheard \in Requests /\ Unheard.at = "done" /\ Unheard.kind = "retry"
    /\ Unheard.copy = NoCopy /\ Unheard.answer = NoAnswer /\ Unheard.told = "unknown"
    /\ OfPayment # NoAnswer /\ OfPayment # OfError(400) /\ OfPayment # OfError(404)
<1>1. NoCopy \in Entities /\ NoCopy.id = Payment /\ NoCopy.status = "failed"
  BY DEF NoCopy, Entities, Codes
<1>2. /\ NoRequest \in Requests /\ NoRequest.at = "idle" /\ NoRequest.kind = "retry"
      /\ NoRequest.copy = NoCopy /\ NoRequest.answer = NoAnswer /\ NoRequest.told = "nothing"
  BY <1>1 DEF NoRequest, Requests, Progress
<1>3. /\ Unheard \in Requests /\ Unheard.at = "done" /\ Unheard.kind = "retry"
      /\ Unheard.copy = NoCopy /\ Unheard.answer = NoAnswer /\ Unheard.told = "unknown"
  <2>. DEFINE y == [NoRequest EXCEPT !.at = "done"]
  <2>1. /\ y \in Requests /\ y.at = "done" /\ y.kind = "retry"
        /\ y.copy = NoCopy /\ y.answer = NoAnswer
    BY <1>2 DEF Requests, Progress
  <2>2. Unheard = [y EXCEPT !.told = "unknown"]
    BY DEF Unheard, NoRequest
  <2>. HIDE DEF y
  <2>. QED
    BY <2>1, <2>2 DEF Requests
<1>4. OfPayment # NoAnswer /\ OfPayment # OfError(400) /\ OfPayment # OfError(404)
  BY DEF OfPayment, NoAnswer, OfError
<1>. QED
  BY <1>1, <1>2, <1>3, <1>4

LEMMA ReturnedIs ==
    ASSUME NEW r \in Requests, NEW outcome \in {"nothing", "unknown", "succeeded"},
           NEW x, x = Returned(r, outcome)
    PROVE  /\ x \in Requests /\ x.at = "done" /\ x.kind = "retry" /\ x.copy = NoCopy
           /\ x.answer = r.answer /\ x.told = outcome
<1>1. r.answer \in {OfPayment, OfError(400), OfError(404), NoAnswer}
      /\ r.verdict \in Codes \cup {"none", "captured"}
  BY DEF Requests
<1>2. NoCopy \in Entities
  BY RecordsAre
<1>3. x = [at |-> "done", kind |-> "retry", presentation |-> "unchanged", awaited |-> FALSE,
           copy |-> NoCopy, verdict |-> r.verdict, answer |-> r.answer, page |-> 0, morphs |-> 0,
           told |-> outcome]
  BY DEF Returned, NoRequest
<1>. QED
  BY <1>1, <1>2, <1>3 DEF Requests, Progress

\* A command that ends, succeeds or is sent keeps the account of captures.
LEMMA PaidStep ==
    ASSUME Paid, charged \in Nat, commands \in Nat, NEW s \in Slots,
           \A t \in Slots : t # s => request'[t] = request[t],
           \/ commands' = commands + 1 /\ charged' = charged
           \/ /\ commands' = commands /\ charged' = charged
              /\ request'[s].at \in Undecided => request[s].at \in Undecided
           \/ /\ commands' = commands /\ charged' = charged + 1
              /\ request[s].at \in Undecided /\ request'[s].at \notin Undecided
    PROVE  Paid'
<1>. DEFINE more == Pending \cup {s}
            less == Pending \ {s}
<1>1. IsFiniteSet(Pending) /\ Cardinality(Pending) \in Nat
      /\ charged + Cardinality(Pending) <= commands
  BY FS_CardinalityType DEF Paid
<1>2. /\ IsFiniteSet(more)
      /\ Cardinality(more) = IF s \in Pending THEN Cardinality(Pending) ELSE Cardinality(Pending) + 1
  BY <1>1, FS_AddElement
<1>3. /\ IsFiniteSet(less)
      /\ Cardinality(less) = IF s \in Pending THEN Cardinality(Pending) - 1 ELSE Cardinality(Pending)
  BY <1>1, FS_RemoveElement
<1>4. /\ s \in Pending <=> request[s].at \in Undecided
      /\ s \in Pending' <=> request'[s].at \in Undecided
      /\ \A t \in Slots : t # s => (t \in Pending' <=> t \in Pending)
      /\ Pending \subseteq Slots /\ Pending' \subseteq Slots
  BY DEF Pending
<1>5. Pending' = IF request'[s].at \in Undecided THEN more ELSE less
  BY <1>4
<1>. HIDE DEF more, less
<1>6. CASE request'[s].at \in Undecided
  BY <1>1, <1>2, <1>4, <1>5, <1>6 DEF Paid
<1>7. CASE request'[s].at \notin Undecided
  BY <1>1, <1>3, <1>4, <1>5, <1>7 DEF Paid
<1>. QED
  BY <1>6, <1>7

\* The actions of one command that leave the registry and the pages alone.
LEMMA TalkStep ==
    ASSUME GatewayInv, NEW s \in Slots,
           request' = [request EXCEPT ![s] = request'[s]], request'[s] \in Requests,
           UNCHANGED <<bookVars, pageVars>>, Backs(request'[s]), Shows(request'[s]),
           InRegistry(s)' => InRegistry(s) /\ (Holds(request[s]) => Holds(request'[s])),
           \/ commands' = commands + 1 /\ commands < MaxCommands
           \/ /\ commands' = commands
              /\ request'[s].at \in Undecided => request[s].at \in Undecided
    PROVE  GatewayInv'
<1>1. /\ book' = book /\ charged' = charged /\ disturbed' = disturbed
      /\ page' = page /\ frames' = frames
      /\ request \in [Slots -> Requests] /\ commands \in 0..MaxCommands /\ charged \in Nat
  BY DEF bookVars, pageVars, GatewayInv, GatewayTypes
<1>2. request' \in [Slots -> Requests] /\ \A t \in Slots : t # s => request'[t] = request[t]
  BY <1>1
<1>3. commands' \in 0..MaxCommands /\ commands \in Nat
  BY <1>1, GatewayConstants
<1>4. GatewayTypes'
  BY <1>1, <1>2, <1>3 DEF GatewayInv, GatewayTypes
<1>5. OneEntry'
  BY <1>1 DEF GatewayInv, OneEntry
<1>6. Paid'
  BY <1>1, <1>2, <1>3, PaidStep DEF GatewayInv
<1>7. Backed'
  BY <1>1, <1>2 DEF GatewayInv, Backed, Backs, Capturing
<1>8. Shown'
  BY <1>1, <1>2 DEF GatewayInv, Shown, Shows
<1>9. \A t \in Slots : /\ InRegistry(t)' => InRegistry(t)
                       /\ InRegistry(t)' /\ Holds(request[t]) => Holds(request'[t])
  BY <1>2 DEF InRegistry
<1>10. Undisturbed'
  BY <1>1, <1>9 DEF GatewayInv, Undisturbed, Holds, Known
<1>. QED
  BY <1>4, <1>5, <1>6, <1>7, <1>8, <1>10 DEF GatewayInv

LEMMA SendStep ==
    ASSUME GatewayInv, NEW s \in Slots, Send(s)
    PROVE  GatewayInv'
<1>1. PICK kind \in {"retry", "morph"}, presentation \in {"unchanged", "network_token"} :
         request' = [request EXCEPT ![s] =
            [NoRequest EXCEPT !.at = "sent", !.kind = kind, !.presentation = presentation,
                         !.awaited = TRUE, !.page = page.id, !.morphs = page.morphs]]
  BY DEF Send
<1>2. commands' = commands + 1 /\ commands < MaxCommands /\ UNCHANGED <<bookVars, pageVars>>
  BY DEF Send
<1>3. /\ request \in [Slots -> Requests] /\ page.id \in 1..MaxReloads + 1 /\ page.morphs \in Nat
      /\ page.morphs <= frames[page.id] /\ page.id \in Nat
  BY GatewayConstants DEF GatewayInv, GatewayTypes, Shown
<1>. DEFINE x == request'[s]
<1>4. x = [at |-> "sent", kind |-> kind, presentation |-> presentation, awaited |-> TRUE,
           copy |-> NoCopy, verdict |-> "none", answer |-> NoAnswer, page |-> page.id,
           morphs |-> page.morphs, told |-> "nothing"]
  BY <1>1, <1>3 DEF NoRequest
<1>5. request' = [request EXCEPT ![s] = x]
  BY <1>1, <1>3
<1>6. NoCopy \in Entities /\ NoCopy.id = Payment /\ NoCopy.status = "failed" /\ OfPayment # NoAnswer
  BY RecordsAre
<1>. HIDE DEF x
<1>7. x \in Requests /\ x.at = "sent"
  BY <1>3, <1>4, <1>6 DEF Requests, Progress
<1>8. Backs(x)
  BY <1>4, <1>6 DEF Backs
<1>9. Shows(x)
  BY <1>3, <1>4 DEF Shows
<1>10. ~InRegistry(s)'
  BY <1>7 DEF InRegistry, x
<1>. QED
  BY <1>2, <1>5, <1>7, <1>8, <1>9, <1>10, TalkStep DEF x

LEMMA NotifyStep ==
    ASSUME GatewayInv, NEW s \in Slots, Notify(s)
    PROVE  GatewayInv'
<1>1. request' = [request EXCEPT ![s] =
          [NoRequest EXCEPT !.at = "answered", !.kind = "notice", !.awaited = TRUE, !.answer = OfError(404)]]
  BY DEF Notify
<1>2. commands' = commands + 1 /\ commands < MaxCommands /\ UNCHANGED <<bookVars, pageVars>>
  BY DEF Notify
<1>3. request \in [Slots -> Requests]
  BY DEF GatewayInv, GatewayTypes
<1>. DEFINE x == request'[s]
            e == OfError(404)
<1>. HIDE DEF e
<1>4. x = [at |-> "answered", kind |-> "notice", presentation |-> "unchanged", awaited |-> TRUE,
           copy |-> NoCopy, verdict |-> "none", answer |-> e, page |-> 0,
           morphs |-> 0, told |-> "nothing"]
  <2>1. x = [NoRequest EXCEPT !.at = "answered", !.kind = "notice", !.awaited = TRUE, !.answer = e]
    BY <1>1, <1>3 DEF e
  <2>. QED
    BY <2>1 DEF NoRequest
<1>5. request' = [request EXCEPT ![s] = x]
  BY <1>1, <1>3
<1>6. /\ NoCopy \in Entities /\ NoCopy.id = Payment /\ NoCopy.status = "failed"
      /\ OfPayment # OfError(404)
  BY RecordsAre
<1>. HIDE DEF x
<1>7. x \in Requests /\ x.at = "answered"
  BY <1>3, <1>4, <1>6 DEF Requests, Progress, e
<1>8. Backs(x) /\ Shows(x)
  BY <1>4, <1>6 DEF Backs, Shows, e
<1>9. ~InRegistry(s)'
  BY <1>7 DEF InRegistry, x
<1>. QED
  BY <1>2, <1>5, <1>7, <1>8, <1>9, TalkStep DEF x

\* Who stops waiting changes nothing else of the command.
LEMMA UnawaitedIs ==
    ASSUME NEW r \in Requests, NEW y, y = [r EXCEPT !.awaited = FALSE]
    PROVE  /\ y \in Requests /\ y.at = r.at /\ y.kind = r.kind /\ y.copy = r.copy
           /\ y.answer = r.answer /\ y.page = r.page /\ y.morphs = r.morphs
<1>1. r = [at |-> r.at, kind |-> r.kind, presentation |-> r.presentation, awaited |-> r.awaited,
           copy |-> r.copy, verdict |-> r.verdict, answer |-> r.answer, page |-> r.page,
           morphs |-> r.morphs, told |-> r.told]
  BY DEF Requests
<1>2. /\ r.at \in Progress /\ r.kind \in {"retry", "morph", "notice"}
      /\ r.presentation \in {"unchanged", "network_token"} /\ r.copy \in Entities
      /\ r.verdict \in Codes \cup {"none", "captured"}
      /\ r.answer \in {OfPayment, OfError(400), OfError(404), NoAnswer}
      /\ r.page \in Nat /\ r.morphs \in Nat /\ r.told \in {"nothing", "unknown", "succeeded"}
  BY DEF Requests
<1>3. y = [at |-> r.at, kind |-> r.kind, presentation |-> r.presentation, awaited |-> FALSE,
           copy |-> r.copy, verdict |-> r.verdict, answer |-> r.answer, page |-> r.page,
           morphs |-> r.morphs, told |-> r.told]
  BY <1>1
<1>4. FALSE \in BOOLEAN
  OBVIOUS
<1>5. y \in Requests
  BY ONLY <1>2, <1>3, <1>4 DEF Requests
<1>. QED
  BY <1>3, <1>5

LEMMA AbandonedIs ==
    ASSUME NEW r \in Requests, NEW x, x = [r EXCEPT !.awaited = FALSE, !.told = "unknown"]
    PROVE  /\ x \in Requests /\ x.at = r.at /\ x.kind = r.kind /\ x.copy = r.copy
           /\ x.answer = r.answer /\ x.page = r.page /\ x.morphs = r.morphs /\ x.told = "unknown"
<1>. DEFINE y == [r EXCEPT !.awaited = FALSE]
<1>1. /\ y \in Requests /\ y.at = r.at /\ y.kind = r.kind /\ y.copy = r.copy
      /\ y.answer = r.answer /\ y.page = r.page /\ y.morphs = r.morphs
  BY UnawaitedIs
<1>2. x = [y EXCEPT !.told = "unknown"]
  BY DEF Requests
<1>. HIDE DEF y
<1>. QED
  BY <1>1, <1>2 DEF Requests

AnsweredBy(r, answer) ==
    [r EXCEPT !.at = "answered", !.answer = answer, !.copy = NoCopy, !.presentation = "unchanged"]

LEMMA AnsweredIs ==
    ASSUME NEW r \in Requests, NEW answer \in {OfPayment, OfError(400), OfError(404), NoAnswer},
           NEW x, x = AnsweredBy(r, answer)
    PROVE  /\ x \in Requests /\ x.at = "answered" /\ x.kind = r.kind /\ x.copy = NoCopy
           /\ x.answer = answer /\ x.page = r.page /\ x.morphs = r.morphs /\ x.told = r.told
<1>. DEFINE y == [r EXCEPT !.at = "answered"]
            z == [y EXCEPT !.answer = answer]
            u == [z EXCEPT !.copy = NoCopy]
<1>1. /\ y \in Requests /\ y.at = "answered" /\ y.kind = r.kind /\ y.page = r.page
      /\ y.morphs = r.morphs /\ y.told = r.told
  BY DEF Requests, Progress
<1>2. x = [u EXCEPT !.presentation = "unchanged"]
  BY DEF Requests, AnsweredBy
<1>. HIDE DEF y
<1>3. /\ z \in Requests /\ z.at = "answered" /\ z.kind = r.kind /\ z.page = r.page
      /\ z.morphs = r.morphs /\ z.told = r.told /\ z.answer = answer
  BY <1>1 DEF Requests
<1>. HIDE DEF z
<1>4. /\ u \in Requests /\ u.at = "answered" /\ u.kind = r.kind /\ u.page = r.page
      /\ u.morphs = r.morphs /\ u.told = r.told /\ u.answer = answer /\ u.copy = NoCopy
  BY <1>3, RecordsAre DEF Requests
<1>. HIDE DEF u
<1>. QED
  BY <1>2, <1>4 DEF Requests

LEMMA StopWaitingStep ==
    ASSUME GatewayInv, NEW s \in Slots, StopWaiting(s)
    PROVE  GatewayInv'
<1>1. commands' = commands /\ UNCHANGED <<bookVars, pageVars>>
  BY DEF StopWaiting
<1>2. request \in [Slots -> Requests] /\ request[s] \in Requests /\ Backs(request[s]) /\ Shows(request[s])
  BY DEF GatewayInv, GatewayTypes, Backed, Shown
<1>3. CASE request' = [request EXCEPT ![s] = Unheard]
  <2>1. request'[s] = Unheard
    BY <1>2, <1>3
  <2>2. /\ request'[s] \in Requests /\ Backs(request'[s]) /\ Shows(request'[s])
        /\ request'[s].at = "done"
    BY <2>1, RecordsAre DEF Backs, Shows
  <2>3. ~InRegistry(s)' /\ request'[s].at \notin Undecided
    BY <2>2 DEF InRegistry, Undecided
  <2>. QED
    BY <1>1, <1>2, <1>3, <2>1, <2>2, <2>3, TalkStep
<1>4. CASE request' = [request EXCEPT ![s].awaited = FALSE, ![s].told = "unknown"]
  <2>. DEFINE x == request'[s]
  <2>1. x = [request[s] EXCEPT !.awaited = FALSE, !.told = "unknown"]
    BY <1>2, <1>4
  <2>2. request' = [request EXCEPT ![s] = x]
    BY <1>2, <1>4
  <2>. HIDE DEF x
  <2>3. /\ x \in Requests /\ x.at = request[s].at /\ x.kind = request[s].kind
        /\ x.copy = request[s].copy /\ x.answer = request[s].answer /\ x.page = request[s].page
        /\ x.morphs = request[s].morphs /\ x.told = "unknown"
    BY <1>2, <2>1, AbandonedIs
  <2>4. request[s].at # "moving"
    BY DEF StopWaiting
  <2>5. Backs(x) /\ Shows(x)
    BY <1>2, <2>3, <2>4 DEF Backs, Shows
  <2>6. InRegistry(s)' => InRegistry(s)
    BY <2>3 DEF InRegistry, x
  <2>7. Holds(request[s]) => Holds(x)
    BY <2>3 DEF Holds
  <2>. QED
    BY <1>1, <2>2, <2>3, <2>5, <2>6, <2>7, TalkStep DEF x
<1>. QED
  BY <1>3, <1>4 DEF StopWaiting

\* An answer, awaited or not, to the command.
LEMMA ReplyIs ==
    ASSUME request \in [Slots -> Requests], NEW s \in Slots,
           NEW answer \in {OfPayment, OfError(400), OfError(404), NoAnswer}, Reply(s, answer)
    PROVE  /\ request' = [request EXCEPT ![s] = request'[s]] /\ request'[s] \in Requests
           /\ request'[s].at \in {"answered", "done"}
           /\ \/ request'[s] = Unheard
              \/ /\ request'[s].kind = request[s].kind /\ request'[s].copy = NoCopy
                 /\ request'[s].answer = answer /\ request'[s].page = request[s].page
                 /\ request'[s].morphs = request[s].morphs /\ request'[s].told = request[s].told
<1>. DEFINE x == request'[s]
<1>1. x = IF request[s].awaited
          THEN [request[s] EXCEPT !.at = "answered", !.answer = answer, !.copy = NoCopy,
                                  !.presentation = "unchanged"]
          ELSE Unheard
  BY DEF Reply
<1>2. request' = [request EXCEPT ![s] = x]
  BY DEF Reply
<1>3. request[s] \in Requests
  OBVIOUS
<1>. HIDE DEF x
<1>4. CASE request[s].awaited
  <2>1. x = AnsweredBy(request[s], answer)
    BY <1>1, <1>4 DEF AnsweredBy
  <2>2. /\ x \in Requests /\ x.at = "answered" /\ x.kind = request[s].kind /\ x.copy = NoCopy
        /\ x.answer = answer /\ x.page = request[s].page /\ x.morphs = request[s].morphs
        /\ x.told = request[s].told
    BY <1>3, <2>1, AnsweredIs
  <2>. QED
    BY <1>2, <2>2 DEF x
<1>5. CASE ~request[s].awaited
  BY <1>1, <1>2, <1>5, RecordsAre DEF x
<1>. QED
  BY <1>4, <1>5

LEMMA InterceptStep ==
    ASSUME GatewayInv, NEW s \in Slots, Intercept(s)
    PROVE  GatewayInv'
<1>1. commands' = commands /\ UNCHANGED <<bookVars, pageVars>>
  BY DEF Intercept
<1>2. request \in [Slots -> Requests] /\ request[s] \in Requests /\ Backs(request[s]) /\ Shows(request[s])
  BY DEF GatewayInv, GatewayTypes, Backed, Shown
<1>. DEFINE x == request'[s]
<1>3. x = AnsweredBy(request[s], NoAnswer) /\ request' = [request EXCEPT ![s] = x]
  BY <1>2 DEF Intercept, AnsweredBy
<1>. HIDE DEF x
<1>4. /\ x \in Requests /\ x.at = "answered" /\ x.kind = request[s].kind /\ x.copy = NoCopy
      /\ x.answer = NoAnswer /\ x.page = request[s].page /\ x.morphs = request[s].morphs
      /\ x.told = request[s].told
  BY <1>2, <1>3, AnsweredIs
<1>5. Backs(x) /\ Shows(x)
  BY <1>2, <1>4, RecordsAre DEF Backs, Shows
<1>6. ~InRegistry(s)' /\ x.at \notin Undecided
  BY <1>4 DEF InRegistry, Undecided, x
<1>. QED
  BY <1>1, <1>3, <1>4, <1>5, <1>6, TalkStep DEF x

MovingOn(r, outcome) == [r EXCEPT !.at = "moving", !.told = outcome, !.awaited = FALSE]

LEMMA MovingOnIs ==
    ASSUME NEW r \in Requests, NEW outcome \in {"nothing", "unknown", "succeeded"},
           NEW x, x = MovingOn(r, outcome)
    PROVE  /\ x \in Requests /\ x.at = "moving" /\ x.kind = r.kind /\ x.copy = r.copy
           /\ x.answer = r.answer /\ x.page = r.page /\ x.morphs = r.morphs /\ x.told = outcome
<1>. DEFINE y == [r EXCEPT !.awaited = FALSE]
            z == [y EXCEPT !.at = "moving"]
<1>1. /\ y \in Requests /\ y.kind = r.kind /\ y.copy = r.copy
      /\ y.answer = r.answer /\ y.page = r.page /\ y.morphs = r.morphs
  BY UnawaitedIs
<1>2. x = [z EXCEPT !.told = outcome]
  BY DEF Requests, MovingOn
<1>. HIDE DEF y
<1>3. /\ z \in Requests /\ z.at = "moving" /\ z.kind = r.kind /\ z.copy = r.copy
      /\ z.answer = r.answer /\ z.page = r.page /\ z.morphs = r.morphs
  BY <1>1 DEF Requests, Progress
<1>. HIDE DEF z
<1>. QED
  BY <1>2, <1>3 DEF Requests

LEMMA HearStep ==
    ASSUME GatewayInv, NEW s \in Slots, Hear(s)
    PROVE  GatewayInv'
<1>1. commands' = commands /\ UNCHANGED <<bookVars, pageVars>>
  BY DEF Hear
<1>2. request \in [Slots -> Requests] /\ request[s] \in Requests /\ Backs(request[s]) /\ Shows(request[s])
  BY DEF GatewayInv, GatewayTypes, Backed, Shown
<1>. DEFINE x == request'[s]
            outcome == Understood(request[s].answer)
<1>3. /\ outcome \in {"unknown", "succeeded"}
      /\ outcome = "succeeded" => Capturing
  <2>1. request[s].answer \in {OfPayment, OfError(400), OfError(404), NoAnswer}
    BY <1>2 DEF Requests
  <2>2. outcome = IF request[s].answer = OfPayment THEN "succeeded" ELSE "unknown"
    BY <2>1, Understanding
  <2>. QED
    BY <1>2, <2>2 DEF Backs
<1>4. /\ x = IF Moves(s, outcome) THEN MovingOn(request[s], outcome) ELSE Returned(request[s], outcome)
      /\ request' = [request EXCEPT ![s] = x]
  BY <1>2 DEF Hear, MovingOn
<1>. HIDE DEF x, outcome
<1>5. CASE Moves(s, outcome)
  <2>1. x = MovingOn(request[s], outcome)
    BY <1>4, <1>5
  <2>2. /\ x \in Requests /\ x.at = "moving" /\ x.kind = request[s].kind /\ x.copy = request[s].copy
        /\ x.answer = request[s].answer /\ x.page = request[s].page
        /\ x.morphs = request[s].morphs /\ x.told = outcome
    BY <1>2, <1>3, <2>1, MovingOnIs
  <2>3. outcome = "succeeded" /\ request[s].kind = "morph"
    BY <1>3, <1>5 DEF Moves
  <2>4. Backs(x) /\ Shows(x)
    BY <1>2, <1>3, <2>2, <2>3 DEF Backs, Shows
  <2>5. ~InRegistry(s)' /\ x.at \notin Undecided
    BY <2>2 DEF InRegistry, Undecided, x
  <2>. QED
    BY <1>1, <1>4, <2>2, <2>4, <2>5, TalkStep DEF x
<1>6. CASE ~Moves(s, outcome)
  <2>1. x = Returned(request[s], outcome)
    BY <1>4, <1>6
  <2>2. /\ x \in Requests /\ x.at = "done" /\ x.kind = "retry" /\ x.copy = NoCopy
        /\ x.answer = request[s].answer /\ x.told = outcome
    BY <1>2, <1>3, <2>1, ReturnedIs
  <2>3. Backs(x) /\ Shows(x)
    BY <1>2, <1>3, <2>2, RecordsAre DEF Backs, Shows
  <2>4. ~InRegistry(s)' /\ x.at \notin Undecided
    BY <2>2 DEF InRegistry, Undecided, x
  <2>. QED
    BY <1>1, <1>4, <2>2, <2>3, <2>4, TalkStep DEF x
<1>. QED
  BY <1>5, <1>6

\* An answer that is no capture, or of one that has happened.
LEMMA ReplyStep ==
    ASSUME GatewayInv, NEW s \in Slots,
           NEW answer \in {OfPayment, OfError(400), OfError(404), NoAnswer}, Reply(s, answer),
           answer = OfPayment => Capturing, UNCHANGED <<bookVars, commands, pageVars>>
    PROVE  GatewayInv'
<1>1. request \in [Slots -> Requests] /\ request[s] \in Requests /\ Backs(request[s]) /\ Shows(request[s])
  BY DEF GatewayInv, GatewayTypes, Backed, Shown
<1>2. /\ request' = [request EXCEPT ![s] = request'[s]] /\ request'[s] \in Requests
      /\ request'[s].at \in {"answered", "done"}
      /\ \/ request'[s] = Unheard
         \/ /\ request'[s].kind = request[s].kind /\ request'[s].copy = NoCopy
            /\ request'[s].answer = answer /\ request'[s].page = request[s].page
            /\ request'[s].morphs = request[s].morphs /\ request'[s].told = request[s].told
  BY <1>1, ReplyIs
<1>3. Backs(request'[s]) /\ Shows(request'[s])
  BY <1>1, <1>2, RecordsAre DEF Backs, Shows
<1>4. ~InRegistry(s)' /\ request'[s].at \notin Undecided
  BY <1>2 DEF InRegistry, Undecided
<1>. QED
  BY <1>2, <1>3, <1>4, TalkStep

LEMMA TryStep ==
    ASSUME GatewayInv, NEW s \in Slots, Try(s)
    PROVE  GatewayInv'
<1>1. UNCHANGED <<bookVars, commands, pageVars>> /\ request[s].at = "read"
  BY DEF Try, bookVars
<1>2. request \in [Slots -> Requests] /\ request[s] \in Requests /\ Backs(request[s]) /\ Shows(request[s])
  BY DEF GatewayInv, GatewayTypes, Backed, Shown
<1>3. CASE Reply(s, OfError(400))
  BY <1>1, <1>3, ReplyStep, RecordsAre
<1>4. CASE Already(request[s].copy) /\ Reply(s, OfPayment)
  BY <1>1, <1>2, <1>4, ReplyStep DEF Already, Backs
<1>5. ASSUME ~Already(request[s].copy), NEW verdict \in Verdicts(request[s].copy, request[s].presentation),
             request' = [request EXCEPT ![s].at = "tried", ![s].verdict = verdict]
      PROVE  GatewayInv'
  <2>. DEFINE x == request'[s]
              y == [request[s] EXCEPT !.at = "tried"]
  <2>1. x = [y EXCEPT !.verdict = verdict] /\ request' = [request EXCEPT ![s] = x]
    BY <1>2, <1>5
  <2>2. verdict \in Codes \cup {"none", "captured"}
    BY <1>5 DEF Verdicts, Codes
  <2>. HIDE DEF x
  <2>3. /\ y \in Requests /\ y.at = "tried" /\ y.kind = request[s].kind /\ y.copy = request[s].copy
        /\ y.answer = request[s].answer /\ y.page = request[s].page
        /\ y.morphs = request[s].morphs /\ y.told = request[s].told
    BY <1>2 DEF Requests, Progress
  <2>. HIDE DEF y
  <2>4. /\ x \in Requests /\ x.at = "tried" /\ x.kind = request[s].kind /\ x.copy = request[s].copy
        /\ x.answer = request[s].answer /\ x.page = request[s].page
        /\ x.morphs = request[s].morphs /\ x.told = request[s].told
    BY <2>1, <2>2, <2>3 DEF Requests
  <2>5. Backs(x) /\ Shows(x)
    BY <1>2, <2>4 DEF Backs, Shows
  <2>6. InRegistry(s) /\ request[s].at \in Undecided
    BY <1>1 DEF InRegistry, Undecided
  <2>7. Holds(request[s]) => Holds(x)
    BY <1>5, <2>4 DEF Holds, Already
  <2>. QED
    BY <1>1, <2>1, <2>4, <2>5, <2>6, <2>7, TalkStep DEF x
<1>. QED
  BY <1>3, <1>4, <1>5 DEF Try

ReadAs(r, at, copy) == [r EXCEPT !.at = at, !.copy = copy]

LEMMA ReadAsIs ==
    ASSUME NEW r \in Requests, NEW at \in {"read", "missing"}, NEW copy \in Entities,
           NEW x, x = ReadAs(r, at, copy)
    PROVE  /\ x \in Requests /\ x.at = at /\ x.kind = r.kind /\ x.copy = copy
           /\ x.answer = r.answer /\ x.page = r.page /\ x.morphs = r.morphs /\ x.told = r.told
<1>. DEFINE y == [r EXCEPT !.at = at]
<1>1. /\ y \in Requests /\ y.at = at /\ y.kind = r.kind /\ y.told = r.told
      /\ y.answer = r.answer /\ y.page = r.page /\ y.morphs = r.morphs
  BY DEF Requests, Progress
<1>2. x = [y EXCEPT !.copy = copy]
  BY DEF Requests, ReadAs
<1>. HIDE DEF y
<1>. QED
  BY <1>1, <1>2 DEF Requests

LEMMA ReadStep ==
    ASSUME GatewayInv, NEW s \in Slots, Read(s)
    PROVE  GatewayInv'
<1>1. /\ UNCHANGED <<book, charged, commands, pageVars>> /\ request[s].at = "sent"
      /\ disturbed' = (disturbed \/ \E other \in Slots : InRegistry(other))
  BY DEF Read
<1>2. /\ request \in [Slots -> Requests] /\ request[s] \in Requests /\ Backs(request[s])
      /\ Shows(request[s]) /\ book \in Seq(Entities) /\ OneEntry /\ charged \in Nat
      /\ commands \in Nat /\ page' = page /\ frames' = frames
  BY <1>1, GatewayConstants DEF GatewayInv, GatewayTypes, Backed, Shown, pageVars
<1>. DEFINE x == request'[s]
            at == IF Known(Payment) THEN "read" ELSE "missing"
            copy == IF Known(Payment) THEN EntityOf(Payment) ELSE NoCopy
<1>3. x = ReadAs(request[s], at, copy) /\ request' = [request EXCEPT ![s] = x]
  BY <1>2 DEF Read, ReadAs
<1>4. /\ copy \in Entities /\ copy.id = Payment
      /\ copy.status = "captured" => Capturing
      /\ Known(Payment) => \A k \in DOMAIN book : book[k].id = Payment => copy = book[k]
  <2>1. CASE Known(Payment)
    <3>. DEFINE n == CHOOSE k \in DOMAIN book : book[k].id = Payment
    <3>1. n \in DOMAIN book /\ book[n].id = Payment
      BY <2>1 DEF Known
    <3>2. copy = book[n]
      BY <2>1 DEF EntityOf
    <3>. HIDE DEF n, copy
    <3>3. book[n] \in Entities
      BY <1>2, <3>1
    <3>4. book[n].status = "captured" => Capturing
      BY <3>1 DEF GatewayInv, Backed
    <3>. QED
      BY <1>2, <3>1, <3>2, <3>3, <3>4 DEF OneEntry
  <2>2. CASE ~Known(Payment)
    BY <2>2, RecordsAre
  <2>. QED
    BY <2>1, <2>2
<1>5. at \in {"read", "missing"} /\ (Known(Payment) => at = "read")
  OBVIOUS
<1>. HIDE DEF x, at, copy
<1>6. /\ x \in Requests /\ x.at = at /\ x.kind = request[s].kind /\ x.copy = copy
      /\ x.answer = request[s].answer /\ x.page = request[s].page /\ x.morphs = request[s].morphs
      /\ x.told = request[s].told
  BY <1>2, <1>3, <1>4, <1>5, ReadAsIs
<1>7. \A t \in Slots : t # s => request'[t] = request[t]
  BY <1>2, <1>3
<1>8. GatewayTypes'
  <2>1. request' \in [Slots -> Requests]
    BY <1>2, <1>3, <1>6
  <2>2. disturbed' \in BOOLEAN
    BY <1>1, Zenon DEF GatewayInv, GatewayTypes
  <2>. QED
    BY <1>1, <1>2, <2>1, <2>2 DEF GatewayInv, GatewayTypes
<1>9. OneEntry'
  BY <1>1, <1>2 DEF OneEntry
<1>10. Paid'
  <2>1. request[s].at \in Undecided
    BY <1>1 DEF Undecided
  <2>. QED
    BY <1>1, <1>2, <1>7, <2>1, PaidStep DEF GatewayInv
<1>11. Backed'
  <2>1. Backs(x)
    BY <1>1, <1>2, <1>4, <1>5, <1>6 DEF Backs
  <2>. QED
    BY <1>1, <1>2, <1>7, <2>1 DEF GatewayInv, Backed, Backs, Capturing, x
<1>12. Shown'
  <2>1. Shows(x)
    BY <1>2, <1>6 DEF Shows
  <2>. QED
    BY <1>2, <1>7, <2>1 DEF GatewayInv, Shown, Shows, x
<1>13. Undisturbed'
  <2>1. SUFFICES ASSUME ~disturbed' PROVE Undisturbed'
    BY DEF Undisturbed
  <2>2. ~disturbed /\ \A t \in Slots : ~InRegistry(t)
    BY <1>1, <2>1, Zenon
  <2>3. \A t \in Slots : InRegistry(t)' => t = s
    BY <1>7, <2>2 DEF InRegistry
  <2>4. Known(Payment) /\ Holds(x)
    BY <1>4, <1>5, <1>6, <2>2 DEF GatewayInv, Undisturbed, Holds
  <2>. QED
    BY <1>1, <2>2, <2>3, <2>4 DEF GatewayInv, Undisturbed, Holds, Known, x
<1>. QED
  BY <1>8, <1>9, <1>10, <1>11, <1>12, <1>13 DEF GatewayInv

\* A command that writes the payment.
LEMMA PutStep ==
    ASSUME GatewayInv, NEW s \in Slots, NEW entity \in Entities, entity.id = Payment, Put(entity),
           request' = [request EXCEPT ![s] = request'[s]], request'[s] \in Requests,
           UNCHANGED <<commands, pageVars>>, Backs(request[s])', Shows(request'[s]),
           entity.status = "captured" => Capturing',
           request[s].at \in Undecided,
           \/ charged' = charged
           \/ charged' = charged + 1 /\ request'[s].at \notin Undecided,
           ~disturbed => /\ InRegistry(s) /\ ~InRegistry(s)' /\ charged' <= 1
                         /\ charged' = 1 => entity.status = "captured"
    PROVE  GatewayInv'
<1>1. /\ request \in [Slots -> Requests] /\ book \in Seq(Entities) /\ Len(book) <= Limit /\ OneEntry
      /\ charged \in Nat /\ commands \in 0..MaxCommands /\ commands \in Nat /\ disturbed \in BOOLEAN
      /\ page' = page /\ frames' = frames /\ commands' = commands
  BY GatewayConstants DEF GatewayInv, GatewayTypes, pageVars
<1>2. /\ book' \in Seq(Entities) /\ Len(book') <= Limit /\ OneEntry'
      /\ \A k \in DOMAIN book' : book'[k] = entity \/ \E j \in DOMAIN book : book'[k] = book[j]
      /\ \A k \in DOMAIN book' : book'[k].id = Payment => book'[k] = entity
      /\ disturbed' \in BOOLEAN /\ (~disturbed' => ~disturbed /\ Known(Payment)')
  BY <1>1, PutIs
<1>3. request' \in [Slots -> Requests] /\ \A t \in Slots : t # s => request'[t] = request[t]
  BY <1>1
<1>4. charged' \in Nat /\ charged' >= charged
  BY <1>1
<1>5. GatewayTypes'
  BY <1>1, <1>2, <1>3, <1>4 DEF GatewayInv, GatewayTypes
<1>6. Paid'
  BY <1>1, <1>3, PaidStep DEF GatewayInv
<1>7. Capturing => Capturing'
  BY <1>1, <1>4 DEF Capturing
<1>8. Backed'
  BY <1>1, <1>2, <1>3, <1>7 DEF GatewayInv, Backed, Backs
<1>9. Shown'
  BY <1>1, <1>3 DEF GatewayInv, Shown, Shows
<1>10. Undisturbed'
  <2>1. SUFFICES ASSUME ~disturbed' PROVE Undisturbed'
    BY DEF Undisturbed
  <2>2. ~disturbed /\ Known(Payment)'
    BY <1>2, <2>1
  <2>3. \A t \in Slots : InRegistry(t) => t = s
    BY <2>2 DEF GatewayInv, Undisturbed
  <2>4. \A t \in Slots : ~InRegistry(t)'
    BY <1>3, <2>2, <2>3 DEF InRegistry
  <2>. QED
    BY <1>2, <2>2, <2>4 DEF Undisturbed
<1>. QED
  BY <1>2, <1>5, <1>6, <1>8, <1>9, <1>10 DEF GatewayInv

LEMMA SynthesiseStep ==
    ASSUME GatewayInv, NEW s \in Slots, Synthesise(s)
    PROVE  GatewayInv'
<1>1. PICK entity \in Synthesised(Payment) :
         Put(entity) /\ request' = [request EXCEPT ![s].at = "read", ![s].copy = entity]
  BY DEF Synthesise
<1>2. UNCHANGED <<charged, commands, pageVars>> /\ request[s].at = "missing"
  BY DEF Synthesise
<1>3. entity \in Entities /\ entity.id = Payment /\ entity.status = "failed"
  BY <1>1 DEF Synthesised
<1>4. request \in [Slots -> Requests] /\ request[s] \in Requests /\ Backs(request[s]) /\ Shows(request[s])
  BY DEF GatewayInv, GatewayTypes, Backed, Shown
<1>. DEFINE x == request'[s]
<1>5. x = ReadAs(request[s], "read", entity) /\ request' = [request EXCEPT ![s] = x]
  BY <1>1, <1>4 DEF ReadAs
<1>. HIDE DEF x
<1>6. /\ x \in Requests /\ x.at = "read" /\ x.kind = request[s].kind /\ x.copy = entity
      /\ x.answer = request[s].answer /\ x.page = request[s].page /\ x.morphs = request[s].morphs
      /\ x.told = request[s].told
  BY <1>3, <1>4, <1>5, ReadAsIs
<1>7. Backs(request[s])' /\ Shows(x)
  BY <1>2, <1>3, <1>4, <1>6 DEF Backs, Shows, Capturing, x
<1>8. disturbed
  <2>1. InRegistry(s) /\ ~Holds(request[s])
    BY <1>2 DEF InRegistry, Holds
  <2>. QED
    BY <2>1 DEF GatewayInv, Undisturbed
<1>9. request[s].at \in Undecided
  BY <1>2 DEF Undecided
<1>. QED
  BY <1>1, <1>2, <1>3, <1>5, <1>6, <1>7, <1>8, <1>9, PutStep DEF x

Written(copy, status, code) == [copy EXCEPT !.status = status, !.code = code]

LEMMA WrittenIs ==
    ASSUME NEW copy \in Entities, NEW status \in {"failed", "captured"},
           NEW code \in Codes \cup {"none"}, NEW x, x = Written(copy, status, code)
    PROVE  x \in Entities /\ x.id = copy.id /\ x.status = status
<1>. DEFINE y == [copy EXCEPT !.status = status]
<1>1. y \in Entities /\ y.id = copy.id /\ y.status = status
  BY DEF Entities
<1>2. x = [y EXCEPT !.code = code]
  BY DEF Entities, Written
<1>. HIDE DEF y
<1>. QED
  BY <1>1, <1>2 DEF Entities

LEMMA SettleStep ==
    ASSUME GatewayInv, NEW s \in Slots, Settle(s)
    PROVE  GatewayInv'
<1>1. UNCHANGED <<commands, pageVars>> /\ request[s].at = "tried"
  BY DEF Settle
<1>2. /\ request \in [Slots -> Requests] /\ request[s] \in Requests /\ Backs(request[s])
      /\ Shows(request[s]) /\ request[s].copy \in Entities /\ request[s].copy.id = Payment
      /\ charged \in Nat /\ request[s].verdict \in Codes \cup {"none", "captured"}
  BY DEF GatewayInv, GatewayTypes, Backed, Shown, Requests, Backs
<1>3. request[s].at \in Undecided /\ InRegistry(s)
  BY <1>1 DEF Undecided, InRegistry
<1>4. ~disturbed => charged = 0
  <2>1. SUFFICES ASSUME ~disturbed PROVE charged = 0
    OBVIOUS
  <2>2. Known(Payment) /\ Holds(request[s]) /\ charged <= 1
        /\ (charged = 1 => \A k \in DOMAIN book : book[k].id = Payment => book[k].status = "captured")
    BY <1>3, <2>1 DEF GatewayInv, Undisturbed
  <2>3. PICK k \in DOMAIN book : book[k].id = Payment
    BY <2>2 DEF Known
  <2>4. book[k].status # "captured"
    BY <1>1, <2>2, <2>3 DEF Holds
  <2>. QED
    BY <1>2, <2>2, <2>3, <2>4
<1>5. ASSUME NEW answer \in {OfPayment, OfError(400)}, Reply(s, answer)
      PROVE  /\ request' = [request EXCEPT ![s] = request'[s]] /\ request'[s] \in Requests
             /\ ~InRegistry(s)' /\ request'[s].at \notin Undecided /\ Shows(request'[s])
             /\ request'[s].copy = NoCopy /\ request'[s].at # "moving"
             /\ request'[s].answer \in {answer, NoAnswer}
             /\ request'[s].told \in {request[s].told, "unknown"}
  <2>1. /\ request' = [request EXCEPT ![s] = request'[s]] /\ request'[s] \in Requests
        /\ request'[s].at \in {"answered", "done"}
        /\ \/ request'[s] = Unheard
           \/ /\ request'[s].kind = request[s].kind /\ request'[s].copy = NoCopy
              /\ request'[s].answer = answer /\ request'[s].page = request[s].page
              /\ request'[s].morphs = request[s].morphs /\ request'[s].told = request[s].told
    BY <1>2, <1>5, ReplyIs
  <2>2. ~InRegistry(s)' /\ request'[s].at \notin Undecided
    BY <2>1 DEF InRegistry, Undecided
  <2>3. Shows(request'[s])
    BY <1>2, <2>1, RecordsAre DEF Shows
  <2>. QED
    BY <2>1, <2>2, <2>3, RecordsAre
<1>6. CASE request[s].verdict = "captured"
  <2>1. \E entity : /\ entity = Written(request[s].copy, "captured", "none") /\ Put(entity)
                    /\ charged' = charged + 1 /\ Reply(s, OfPayment)
    BY <1>6 DEF Settle, Written
  <2>2. PICK entity : /\ entity = Written(request[s].copy, "captured", "none") /\ Put(entity)
                      /\ charged' = charged + 1 /\ Reply(s, OfPayment)
    BY <2>1
  <2>3. entity \in Entities /\ entity.id = Payment /\ entity.status = "captured"
    BY <1>2, <2>2, WrittenIs
  <2>4. Capturing'
    BY <1>2, <2>2 DEF Capturing
  <2>5. Backs(request[s])'
    BY <1>5, <2>2, <2>4, RecordsAre DEF Backs
  <2>6. ~disturbed => charged' <= 1
    BY <1>4, <2>2
  <2>. QED
    BY <1>1, <1>3, <1>5, <2>2, <2>3, <2>4, <2>5, <2>6, PutStep
<1>7. CASE request[s].verdict # "captured"
  <2>1. \E entity : /\ entity = Written(request[s].copy, "failed", request[s].verdict) /\ Put(entity)
                    /\ charged' = charged /\ Reply(s, OfError(400))
    BY <1>7 DEF Settle, Written
  <2>2. PICK entity : /\ entity = Written(request[s].copy, "failed", request[s].verdict) /\ Put(entity)
                      /\ charged' = charged /\ Reply(s, OfError(400))
    BY <2>1
  <2>3. entity \in Entities /\ entity.id = Payment /\ entity.status = "failed"
    BY <1>2, <1>7, <2>2, WrittenIs
  <2>4. Capturing' <=> Capturing
    BY <2>2 DEF Capturing
  <2>5. Backs(request[s])'
    BY <1>2, <1>5, <2>2, <2>4, RecordsAre DEF Backs
  <2>6. ~disturbed => charged' = 0
    BY <1>4, <2>2
  <2>. QED
    BY <1>1, <1>3, <1>5, <2>2, <2>3, <2>5, <2>6, PutStep
<1>. QED
  BY <1>6, <1>7

LEMMA StrangeStep ==
    ASSUME GatewayInv, Strange
    PROVE  GatewayInv'
<1>1. PICK entity \in Synthesised(Stranger) : Put(entity)
  BY DEF Strange
<1>2. charged' = charged /\ request' = request /\ commands' = commands /\ page' = page /\ frames' = frames
  BY DEF Strange, pageVars
<1>3. entity \in Entities /\ entity.id # Payment /\ entity.status = "failed"
  BY <1>1, GatewayConstants DEF Synthesised
<1>4. /\ book \in Seq(Entities) /\ Len(book) <= Limit /\ OneEntry /\ disturbed \in BOOLEAN
  BY DEF GatewayInv, GatewayTypes
<1>5. /\ book' \in Seq(Entities) /\ Len(book') <= Limit /\ OneEntry'
      /\ \A k \in DOMAIN book' : book'[k] = entity \/ \E j \in DOMAIN book : book'[k] = book[j]
      /\ \A k \in DOMAIN book' : book'[k].id = Payment => \E j \in DOMAIN book : book'[k] = book[j]
      /\ disturbed' \in BOOLEAN /\ (~disturbed' => ~disturbed /\ Known(Payment)')
  BY <1>1, <1>3, <1>4, PutIs
<1>6. GatewayTypes' /\ Paid' /\ Shown'
  BY <1>2, <1>5 DEF GatewayInv, GatewayTypes, Paid, Pending, Shown, Shows
<1>7. Backed'
  BY <1>2, <1>3, <1>5 DEF GatewayInv, Backed, Backs, Capturing
<1>8. Undisturbed'
  <2>1. SUFFICES ASSUME ~disturbed' PROVE Undisturbed'
    BY DEF Undisturbed
  <2>2. ~disturbed /\ Known(Payment)'
    BY <1>5, <2>1
  <2>. QED
    BY <1>2, <1>5, <2>2 DEF GatewayInv, Undisturbed, Holds, InRegistry
<1>. QED
  BY <1>5, <1>6, <1>7, <1>8 DEF GatewayInv

LEMMA MoveStep ==
    ASSUME GatewayInv, NEW s \in Slots, Move(s)
    PROVE  GatewayInv'
<1>1. /\ book' = book /\ charged' = charged /\ disturbed' = disturbed /\ commands' = commands
      /\ request[s].at = "moving" /\ frames' = [frames EXCEPT ![request[s].page] = @ + 1]
  BY DEF Move, bookVars
<1>2. /\ request \in [Slots -> Requests] /\ request[s] \in Requests /\ Backs(request[s])
      /\ Shows(request[s]) /\ charged \in Nat /\ commands \in Nat
      /\ page \in [id : 1..MaxReloads + 1, morphs : Nat] /\ frames \in [1..MaxReloads + 1 -> Nat]
  BY GatewayConstants DEF GatewayInv, GatewayTypes, Backed, Shown
<1>3. /\ request[s].told = "succeeded" /\ request[s].kind = "morph" /\ Capturing
      /\ request[s].page \in 1..MaxReloads + 1 /\ request[s].morphs <= frames[request[s].page]
      /\ request[s].morphs \in Nat
  BY <1>1, <1>2 DEF Backs, Shows, Requests
<1>. DEFINE x == request'[s]
<1>4. x = Returned(request[s], request[s].told) /\ request' = [request EXCEPT ![s] = x]
  BY <1>2 DEF Move
<1>. HIDE DEF x
<1>5. /\ x \in Requests /\ x.at = "done" /\ x.kind = "retry" /\ x.copy = NoCopy
      /\ x.answer = request[s].answer /\ x.told = request[s].told
  BY <1>2, <1>3, <1>4, ReturnedIs
<1>6. request' \in [Slots -> Requests] /\ \A t \in Slots : t # s => request'[t] = request[t]
  BY <1>2, <1>4, <1>5
<1>7. /\ frames' \in [1..MaxReloads + 1 -> Nat]
      /\ \A p \in 1..MaxReloads + 1 : frames'[p] >= frames[p]
      /\ frames'[request[s].page] = frames[request[s].page] + 1
  BY <1>1, <1>2, <1>3
<1>8. page' \in [id : 1..MaxReloads + 1, morphs : Nat] /\ page'.morphs <= frames'[page'.id]
  <2>1. CASE page' = page
    BY <1>2, <1>7, <2>1 DEF GatewayInv, Shown
  <2>2. CASE page.id = request[s].page /\ page' = [page EXCEPT !.morphs = request[s].morphs + 1]
    <3>1. page'.id = request[s].page /\ page'.morphs = request[s].morphs + 1
          /\ page' \in [id : 1..MaxReloads + 1, morphs : Nat]
      BY <1>2, <1>3, <2>2
    <3>. QED
      BY <1>2, <1>3, <1>7, <3>1
  <2>. QED
    BY <2>1, <2>2 DEF Move
<1>9. GatewayTypes'
  BY <1>1, <1>6, <1>7, <1>8 DEF GatewayInv, GatewayTypes
<1>10. Paid'
  <2>1. request'[s].at \notin Undecided
    BY <1>5 DEF Undecided, x
  <2>. QED
    BY <1>1, <1>2, <1>6, <2>1, PaidStep DEF GatewayInv
<1>11. Backed'
  <2>1. Backs(x)
    BY <1>2, <1>3, <1>5, RecordsAre DEF Backs
  <2>2. Capturing'
    BY <1>1, <1>3 DEF Capturing
  <2>. QED
    BY <1>1, <1>6, <2>1, <2>2 DEF GatewayInv, Backed, Backs, x
<1>12. Shown'
  <2>1. Shows(request[s])'
    BY <1>5 DEF Shows, x
  <2>2. \A t \in Slots : Shows(request[t]) => Shows(request[t])'
    <3>1. TAKE t \in Slots
    <3>2. CASE t = s
      BY <2>1, <3>2
    <3>3. CASE t # s
      <4>1. request[t].morphs \in Nat /\ request'[t] = request[t]
        BY <1>2, <1>6, <3>3 DEF Requests
      <4>2. request[t].page \in 1..MaxReloads + 1 =>
               frames[request[t].page] \in Nat /\ frames'[request[t].page] \in Nat
        BY <1>2, <1>7
      <4>. QED
        BY <1>7, <4>1, <4>2 DEF Shows
    <3>. QED
      BY <3>2, <3>3
  <2>. QED
    BY <1>8, <2>2 DEF GatewayInv, Shown
<1>13. OneEntry'
  BY <1>1 DEF GatewayInv, OneEntry
<1>14. Undisturbed'
  <2>1. ~InRegistry(s)'
    BY <1>5 DEF InRegistry, x
  <2>. QED
    BY <1>1, <1>6, <2>1 DEF GatewayInv, Undisturbed, Holds, Known, InRegistry
<1>. QED
  BY <1>9, <1>10, <1>11, <1>12, <1>13, <1>14 DEF GatewayInv

LEMMA ReloadStep ==
    ASSUME GatewayInv, Reload
    PROVE  GatewayInv'
<1>1. /\ book' = book /\ charged' = charged /\ disturbed' = disturbed /\ commands' = commands
      /\ request' = request /\ frames' = frames /\ page.id <= MaxReloads
      /\ page' = [id |-> page.id + 1, morphs |-> 0]
  BY DEF Reload, bookVars
<1>2. page.id \in 1..MaxReloads + 1 /\ frames \in [1..MaxReloads + 1 -> Nat]
  BY DEF GatewayInv, GatewayTypes
<1>3. page' \in [id : 1..MaxReloads + 1, morphs : Nat] /\ page'.morphs <= frames'[page'.id]
  BY <1>1, <1>2, GatewayConstants
<1>4. GatewayTypes'
  BY <1>1, <1>3 DEF GatewayInv, GatewayTypes
<1>5. OneEntry' /\ Paid' /\ Backed' /\ Undisturbed'
  BY <1>1 DEF GatewayInv, OneEntry, Paid, Pending, Backed, Backs, Capturing, Undisturbed, Holds,
              Known, InRegistry
<1>6. Shown'
  BY <1>1, <1>3 DEF GatewayInv, Shown, Shows
<1>. QED
  BY <1>4, <1>5, <1>6 DEF GatewayInv

LEMMA GatewayInitial == GatewayInit => GatewayInv
<1>. SUFFICES ASSUME GatewayInit PROVE GatewayInv
  OBVIOUS
<1>1. PICK code \in Codes :
         book = <<[id |-> Payment, status |-> "failed", code |-> code, amount |-> "own"]>>
  BY DEF GatewayInit
<1>2. /\ charged = 0 /\ disturbed = FALSE /\ request = [s \in Slots |-> NoRequest] /\ commands = 0
      /\ page = [id |-> 1, morphs |-> 0] /\ frames = [p \in 1..(MaxReloads + 1) |-> 0]
  BY DEF GatewayInit
<1>3. /\ book \in Seq(Entities) /\ Len(book) = 1 /\ DOMAIN book = 1..1
      /\ book[1].id = Payment /\ book[1].status = "failed"
  <2>. DEFINE e == [id |-> Payment, status |-> "failed", code |-> code, amount |-> "own"]
  <2>1. e \in Entities /\ e.id = Payment /\ e.status = "failed" /\ book = <<e>>
    BY <1>1 DEF Entities
  <2>. HIDE DEF e
  <2>. QED
    BY <2>1
<1>4. request \in [Slots -> Requests] /\ \A s \in Slots : request[s] = NoRequest
  BY <1>2, RecordsAre
<1>5. GatewayTypes
  <2>1. /\ page \in [id : 1..MaxReloads + 1, morphs : Nat] /\ frames \in [1..MaxReloads + 1 -> Nat]
        /\ charged \in Nat /\ commands \in 0..MaxCommands /\ Len(book) <= Limit
    BY <1>2, <1>3, GatewayConstants
  <2>2. disturbed \in BOOLEAN
    BY <1>2
  <2>. QED
    BY <1>3, <1>4, <2>1, <2>2 DEF GatewayTypes
<1>6. OneEntry
  BY <1>3 DEF OneEntry
<1>7. Paid
  <2>1. Pending = {}
    BY <1>4, RecordsAre DEF Pending, Undecided
  <2>. QED
    BY <1>2, <2>1, FS_EmptySet DEF Paid
<1>8. Backed
  <2>1. Backs(NoRequest)
    BY RecordsAre DEF Backs
  <2>. QED
    BY <1>2, <1>3, <1>4, <2>1 DEF Backed
<1>9. Shown
  <2>1. Shows(NoRequest)
    BY RecordsAre DEF Shows
  <2>. QED
    BY <1>2, <1>4, <2>1, GatewayConstants DEF Shown
<1>10. Undisturbed
  <2>1. Known(Payment) /\ \A s \in Slots : ~InRegistry(s)
    BY <1>3, <1>4, RecordsAre DEF Known, InRegistry
  <2>. QED
    BY <1>2, <2>1 DEF Undisturbed
<1>. QED
  BY <1>5, <1>6, <1>7, <1>8, <1>9, <1>10 DEF GatewayInv

LEMMA GatewayInductive ==
    ASSUME GatewayInv, [GatewayNext]_gatewayVars
    PROVE  GatewayInv'
<1>1. ASSUME NEW s \in Slots,
             \/ Send(s) \/ Notify(s) \/ StopWaiting(s) \/ Read(s) \/ Synthesise(s) \/ Try(s) \/ Settle(s)
             \/ Intercept(s) \/ Hear(s) \/ Move(s)
      PROVE  GatewayInv'
  BY <1>1, SendStep, NotifyStep, StopWaitingStep, ReadStep, SynthesiseStep, TryStep, SettleStep,
     InterceptStep, HearStep, MoveStep
<1>2. CASE Strange \/ Reload
  BY <1>2, StrangeStep, ReloadStep
<1>3. CASE UNCHANGED gatewayVars
  BY <1>3 DEF gatewayVars, bookVars, pageVars, GatewayInv, GatewayTypes, OneEntry, Paid, Pending,
              Backed, Backs, Capturing, Shown, Shows, Undisturbed, Holds, Known, InRegistry
<1>. QED
  BY <1>1, <1>2, <1>3 DEF GatewayNext

\* Whatever is lost, intercepted, given up or sent again under a new key, the
\* payment is captured once unless two requests met in the registry or it
\* forgot the payment; what the mesh records or shows as moved was captured.
THEOREM GatewayIsSound == GatewaySpec => []GatewaySound
<1>1. GatewayInv => GatewaySound
  <2>. SUFFICES ASSUME GatewayInv PROVE GatewaySound
    OBVIOUS
  <2>1. charged <= commands /\ commands <= MaxCommands /\ charged \in Nat /\ commands \in Nat
    <3>1. Cardinality(Pending) \in Nat /\ charged + Cardinality(Pending) <= commands
      BY FS_CardinalityType DEF GatewayInv, Paid
    <3>. QED
      BY <3>1, GatewayConstants DEF GatewayInv, GatewayTypes
  <2>2. \A s \in Slots : request[s].answer \in GatewayAnswers /\ request[s].copy \in Entities
    <3>1. {OfPayment, OfError(400), OfError(404), NoAnswer} \subseteq GatewayAnswers
      BY DEF OfPayment, OfError, NoAnswer, GatewayAnswers
    <3>2. \A s \in Slots : request[s] \in Requests
      BY DEF GatewayInv, GatewayTypes
    <3>. QED
      BY <3>1, <3>2 DEF Requests
  <2>3. GatewayTypeOK
    BY <2>1, <2>2, GatewayConstants DEF GatewayInv, GatewayTypes, GatewayTypeOK
  <2>4. ChargedOnce
    BY DEF GatewayInv, Undisturbed, ChargedOnce
  <2>5. RecordsAreTrue
    <3>1. (\E s \in Slots : request[s].told = "succeeded") => charged >= 1
      BY DEF GatewayInv, Backed, Backs, Capturing
    <3>2. (\E p \in DOMAIN frames : frames[p] > 0) => charged >= 1
      BY DEF GatewayInv, Backed, Capturing
    <3>. QED
      BY <3>1, <3>2 DEF GatewayInv, Shown, RecordsAreTrue
  <2>. QED
    BY <2>3, <2>4, <2>5 DEF GatewaySound
<1>. QED
  BY GatewayInitial, GatewayInductive, <1>1, PTL DEF GatewaySpec

-----------------------------------------------------------------------------
(* The webhooks of the simulator *)

Jobs ==
    [at : {"unborn", "posting", "waiting", "over"}, repeat : 1..2, attempt : 1..MaxDeliveryAttempts,
     outcome : {"none", "delivered", "rejected", "cancelled", "undelivered"}]

EmitterTypes ==
    /\ walked \in 0..Script
    /\ job \in [Scheduled -> Jobs]
    /\ taken \in [Scheduled -> Nat] /\ unheard \in [Scheduled -> Nat]

\* Posts of the copies before this one.
Earlier(repeat) == IF repeat = 1 THEN 0 ELSE MaxDeliveryAttempts

\* What the receiver has of an event, and the sender knows of it.
Account(e) ==
    LET known_ == taken[e] - unheard[e]
        j == job[e]
    IN  /\ j.repeat <= Copies(e) /\ unheard[e] <= taken[e]
        /\ j.at = "unborn" <=> e > walked
        /\ j.at = "over" <=> j.outcome # "none"
        /\ j.at = "unborn" => taken[e] = 0 /\ j.repeat = 1 /\ j.attempt = 1
        /\ j.outcome = "delivered" => known_ = Copies(e)
        /\ j.outcome # "delivered" => known_ = j.repeat - 1
        /\ j.at = "waiting" => j.attempt < MaxDeliveryAttempts
        /\ j.at = "posting" => taken[e] <= Earlier(j.repeat) + j.attempt - 1
        /\ taken[e] <= Earlier(j.repeat) + j.attempt

EmitterInv ==
    /\ EmitterTypes
    /\ \A e \in Scheduled : Account(e)
    /\ IsFiniteSet(InFlight) /\ Cardinality(InFlight) <= MaxConcurrent
    /\ dispatcher = "done" => InFlight = {}
    /\ runner = "returned" => dispatcher = "done"

LEMMA EmitterConstants ==
    /\ Script \in Nat /\ MaxConcurrent \in Nat /\ MaxConcurrent >= 1
    /\ MaxDeliveryAttempts \in Nat /\ MaxDeliveryAttempts >= 1
    /\ \A e \in Scheduled : Copies(e) \in {1, 2}
  BY EmitterAssumption DEF Copies

\* A step of a delivery changes its event and ends no other.
LEMMA EventStep ==
    ASSUME EmitterInv, NEW e \in Scheduled, e \in InFlight,
           job' = [job EXCEPT ![e] = job'[e]], job'[e] \in Jobs,
           taken' = [taken EXCEPT ![e] = taken'[e]], taken'[e] \in Nat,
           unheard' = [unheard EXCEPT ![e] = unheard'[e]], unheard'[e] \in Nat,
           UNCHANGED <<walked, dispatcher, runner>>, Account(e)'
    PROVE  EmitterInv'
<1>1. /\ job \in [Scheduled -> Jobs] /\ taken \in [Scheduled -> Nat] /\ unheard \in [Scheduled -> Nat]
      /\ walked' = walked /\ dispatcher' = dispatcher /\ runner' = runner /\ walked \in 0..Script
  BY DEF EmitterInv, EmitterTypes
<1>2. EmitterTypes'
  BY <1>1 DEF EmitterTypes
<1>3. \A f \in Scheduled : f # e => job'[f] = job[f] /\ taken'[f] = taken[f] /\ unheard'[f] = unheard[f]
  BY <1>1
<1>4. \A f \in Scheduled : Account(f)'
  BY <1>1, <1>3 DEF EmitterInv, Account
<1>5. InFlight' \subseteq InFlight
  BY <1>3 DEF InFlight
<1>6. IsFiniteSet(InFlight) /\ Cardinality(InFlight) <= MaxConcurrent /\ dispatcher # "done"
  BY DEF EmitterInv
<1>7. IsFiniteSet(InFlight') /\ Cardinality(InFlight') <= Cardinality(InFlight)
      /\ Cardinality(InFlight) \in Nat /\ Cardinality(InFlight') \in Nat
  BY <1>5, <1>6, FS_Subset, FS_CardinalityType
<1>. QED
  BY <1>1, <1>2, <1>4, <1>6, <1>7, EmitterConstants DEF EmitterInv

\* What is known of an event that is under way.
LEMMA UnderWay ==
    ASSUME EmitterInv, NEW e \in Scheduled, job[e].at \in {"posting", "waiting"}
    PROVE  /\ e \in InFlight /\ job \in [Scheduled -> Jobs] /\ job[e] \in Jobs
           /\ taken \in [Scheduled -> Nat] /\ unheard \in [Scheduled -> Nat]
           /\ taken[e] \in Nat /\ unheard[e] \in Nat /\ walked \in Nat
           /\ job[e].repeat \in 1..2 /\ job[e].attempt \in 1..MaxDeliveryAttempts
           /\ job[e].repeat <= Copies(e) /\ ~(e > walked) /\ job[e].outcome = "none"
           /\ taken[e] - unheard[e] = job[e].repeat - 1
           /\ job[e].at = "waiting" => job[e].attempt < MaxDeliveryAttempts
           /\ job[e].at = "posting" => taken[e] <= Earlier(job[e].repeat) + job[e].attempt - 1
           /\ taken[e] <= Earlier(job[e].repeat) + job[e].attempt
<1>1. /\ job \in [Scheduled -> Jobs] /\ taken \in [Scheduled -> Nat] /\ unheard \in [Scheduled -> Nat]
      /\ walked \in Nat /\ Account(e)
  BY EmitterConstants DEF EmitterInv, EmitterTypes
<1>2. e \in InFlight
  BY DEF InFlight
<1>. QED
  BY <1>1, <1>2 DEF Account, Jobs

LEMMA EndedIs ==
    ASSUME job \in [Scheduled -> Jobs], NEW e \in Scheduled,
           NEW outcome \in {"delivered", "rejected", "cancelled", "undelivered"},
           job' = Ended(e, outcome)
    PROVE  /\ job' = [job EXCEPT ![e] = job'[e]] /\ job'[e] \in Jobs
           /\ job'[e].repeat = job[e].repeat /\ job'[e].attempt = job[e].attempt
           /\ job'[e].at = "over" /\ job'[e].outcome = outcome
<1>. DEFINE y == [job[e] EXCEPT !.at = "over"]
            x == [y EXCEPT !.outcome = outcome]
<1>1. job' = [job EXCEPT ![e] = x]
  BY DEF Ended
<1>2. /\ y \in Jobs /\ y.repeat = job[e].repeat /\ y.attempt = job[e].attempt /\ y.at = "over"
  BY DEF Jobs
<1>. HIDE DEF y
<1>3. /\ x \in Jobs /\ x.repeat = job[e].repeat /\ x.attempt = job[e].attempt /\ x.at = "over"
      /\ x.outcome = outcome
  BY <1>2 DEF Jobs
<1>. HIDE DEF x
<1>. QED
  BY <1>1, <1>3

\* A delivery that ends undelivered, or waits for another try, or is cancelled.
LEMMA LeavesPosting ==
    ASSUME EmitterInv, NEW e \in Scheduled, job[e].at = "posting",
           \/ UNCHANGED <<taken, unheard>>
           \/ /\ taken' = [taken EXCEPT ![e] = @ + 1]
              /\ unheard' = [unheard EXCEPT ![e] = @ + 1],
           UNCHANGED <<walked, dispatcher, runner>>,
           \/ \E outcome \in {"rejected", "cancelled", "undelivered"} : job' = Ended(e, outcome)
           \/ job[e].attempt # MaxDeliveryAttempts /\ job' = [job EXCEPT ![e].at = "waiting"]
    PROVE  EmitterInv'
<1>1. /\ e \in InFlight /\ job \in [Scheduled -> Jobs] /\ job[e] \in Jobs
      /\ taken \in [Scheduled -> Nat] /\ unheard \in [Scheduled -> Nat]
      /\ taken[e] \in Nat /\ unheard[e] \in Nat /\ walked \in Nat
      /\ job[e].repeat \in 1..2 /\ job[e].attempt \in 1..MaxDeliveryAttempts
      /\ job[e].repeat <= Copies(e) /\ ~(e > walked) /\ job[e].outcome = "none"
      /\ taken[e] - unheard[e] = job[e].repeat - 1
      /\ taken[e] <= Earlier(job[e].repeat) + job[e].attempt - 1
  BY UnderWay
<1>2. Earlier(job[e].repeat) \in Nat
  BY EmitterConstants DEF Earlier
<1>3. /\ taken' = [taken EXCEPT ![e] = taken'[e]] /\ unheard' = [unheard EXCEPT ![e] = unheard'[e]]
      /\ taken'[e] \in Nat /\ unheard'[e] \in Nat /\ unheard'[e] <= taken'[e]
      /\ taken'[e] - unheard'[e] = job[e].repeat - 1
      /\ taken'[e] <= Earlier(job[e].repeat) + job[e].attempt
  <2>1. CASE UNCHANGED <<taken, unheard>>
    BY <1>1, <1>2, <2>1
  <2>2. CASE taken' = [taken EXCEPT ![e] = @ + 1] /\ unheard' = [unheard EXCEPT ![e] = @ + 1]
    BY <1>1, <1>2, <2>2
  <2>. QED
    BY <2>1, <2>2
<1>4. /\ job' = [job EXCEPT ![e] = job'[e]] /\ job'[e] \in Jobs
      /\ job'[e].repeat = job[e].repeat /\ job'[e].attempt = job[e].attempt
      /\ \/ job'[e].at = "over" /\ job'[e].outcome \in {"rejected", "cancelled", "undelivered"}
         \/ /\ job'[e].at = "waiting" /\ job'[e].outcome = "none"
            /\ job[e].attempt # MaxDeliveryAttempts
  <2>1. CASE \E outcome \in {"rejected", "cancelled", "undelivered"} : job' = Ended(e, outcome)
    <3>1. PICK outcome \in {"rejected", "cancelled", "undelivered"} : job' = Ended(e, outcome)
      BY <2>1
    <3>. QED
      BY <1>1, <3>1, EndedIs
  <2>2. CASE job[e].attempt # MaxDeliveryAttempts /\ job' = [job EXCEPT ![e].at = "waiting"]
    <3>1. job' = [job EXCEPT ![e] = [job[e] EXCEPT !.at = "waiting"]]
      BY <1>1, <2>2
    <3>. QED
      BY <1>1, <2>2, <3>1 DEF Jobs
  <2>. QED
    BY <2>1, <2>2
<1>5. Account(e)'
  BY <1>1, <1>3, <1>4, EmitterConstants DEF Account
<1>. QED
  BY <1>1, <1>3, <1>4, <1>5, EventStep

LEMMA DeliveredStep ==
    ASSUME EmitterInv, NEW e \in Scheduled, Delivered(e)
    PROVE  EmitterInv'
<1>1. /\ job[e].at = "posting" /\ taken' = [taken EXCEPT ![e] = @ + 1]
      /\ UNCHANGED <<walked, dispatcher, runner>> /\ unheard' = unheard
  BY DEF Delivered
<1>2. /\ e \in InFlight /\ job \in [Scheduled -> Jobs] /\ job[e] \in Jobs
      /\ taken \in [Scheduled -> Nat] /\ unheard \in [Scheduled -> Nat]
      /\ taken[e] \in Nat /\ unheard[e] \in Nat /\ walked \in Nat
      /\ job[e].repeat \in 1..2 /\ job[e].attempt \in 1..MaxDeliveryAttempts
      /\ job[e].repeat <= Copies(e) /\ ~(e > walked) /\ job[e].outcome = "none"
      /\ taken[e] - unheard[e] = job[e].repeat - 1
      /\ taken[e] <= Earlier(job[e].repeat) + job[e].attempt - 1
  BY <1>1, UnderWay
<1>3. /\ taken' = [taken EXCEPT ![e] = taken'[e]] /\ unheard' = [unheard EXCEPT ![e] = unheard'[e]]
      /\ taken'[e] = taken[e] + 1 /\ unheard'[e] = unheard[e]
      /\ taken'[e] \in Nat /\ unheard'[e] \in Nat
  BY <1>1, <1>2
<1>4. Earlier(job[e].repeat) \in Nat
  BY EmitterConstants DEF Earlier
<1>5. CASE job[e].repeat = Copies(e)
  <2>1. job' = Ended(e, "delivered")
    BY <1>5 DEF Delivered
  <2>3. /\ job' = [job EXCEPT ![e] = job'[e]] /\ job'[e] \in Jobs
        /\ job'[e].repeat = job[e].repeat /\ job'[e].attempt = job[e].attempt
        /\ job'[e].at = "over" /\ job'[e].outcome = "delivered"
    BY <1>2, <2>1, EndedIs
  <2>4. /\ taken'[e] - unheard'[e] = Copies(e) /\ unheard'[e] <= taken'[e]
        /\ taken'[e] <= Earlier(job[e].repeat) + job[e].attempt
    BY <1>2, <1>3, <1>5, <1>4, EmitterConstants
  <2>5. Account(e)'
    BY <1>1, <1>2, <2>3, <2>4 DEF Account
  <2>. QED
    BY <1>1, <1>2, <1>3, <2>3, <2>5, EventStep
<1>6. CASE job[e].repeat # Copies(e)
  <2>1. job' = [job EXCEPT ![e].repeat = @ + 1, ![e].attempt = 1]
    BY <1>6 DEF Delivered
  <2>2. job[e].repeat = 1 /\ Copies(e) = 2
    BY <1>2, <1>6, EmitterConstants
  <2>3. Earlier(job[e].repeat) = 0 /\ Earlier(2) = MaxDeliveryAttempts
    BY <2>2 DEF Earlier
  <2>4. /\ job' = [job EXCEPT ![e] = job'[e]] /\ job'[e] \in Jobs
        /\ job'[e].repeat = 2 /\ job'[e].attempt = 1
        /\ job'[e].at = "posting" /\ job'[e].outcome = "none"
    <3>. DEFINE y == [job[e] EXCEPT !.repeat = job[e].repeat + 1]
                x == [y EXCEPT !.attempt = 1]
    <3>1. job' = [job EXCEPT ![e] = x]
      BY <1>2, <2>1
    <3>2. y \in Jobs /\ y.repeat = 2 /\ y.at = "posting" /\ y.outcome = "none"
      BY <1>1, <1>2, <2>2 DEF Jobs
    <3>. HIDE DEF y
    <3>3. x \in Jobs /\ x.repeat = 2 /\ x.at = "posting" /\ x.outcome = "none" /\ x.attempt = 1
      BY <3>2, EmitterConstants DEF Jobs
    <3>. HIDE DEF x
    <3>. QED
      BY <1>2, <3>1, <3>3
  <2>5. /\ taken'[e] - unheard'[e] = 1 /\ unheard'[e] <= taken'[e]
        /\ taken'[e] <= Earlier(2) + 1 - 1
    BY <1>2, <1>3, <2>2, <2>3, EmitterConstants
  <2>6. Account(e)'
    BY <1>1, <1>2, <1>3, <2>2, <2>3, <2>4, <2>5, EmitterConstants DEF Account
  <2>. QED
    BY <1>1, <1>2, <1>3, <2>4, <2>6, EventStep
<1>. QED
  BY <1>5, <1>6

LEMMA WaitEndsStep ==
    ASSUME EmitterInv, NEW e \in Scheduled, WaitEnds(e)
    PROVE  EmitterInv'
<1>1. /\ job[e].at = "waiting" /\ taken' = taken /\ unheard' = unheard
      /\ UNCHANGED <<walked, dispatcher, runner>>
  BY DEF WaitEnds
<1>2. /\ e \in InFlight /\ job \in [Scheduled -> Jobs] /\ job[e] \in Jobs
      /\ taken \in [Scheduled -> Nat] /\ unheard \in [Scheduled -> Nat]
      /\ taken[e] \in Nat /\ unheard[e] \in Nat /\ walked \in Nat
      /\ job[e].repeat \in 1..2 /\ job[e].attempt \in 1..MaxDeliveryAttempts
      /\ job[e].repeat <= Copies(e) /\ ~(e > walked) /\ job[e].outcome = "none"
      /\ taken[e] - unheard[e] = job[e].repeat - 1
      /\ job[e].attempt < MaxDeliveryAttempts
      /\ taken[e] <= Earlier(job[e].repeat) + job[e].attempt
  BY <1>1, UnderWay
<1>3. /\ taken' = [taken EXCEPT ![e] = taken'[e]] /\ unheard' = [unheard EXCEPT ![e] = unheard'[e]]
      /\ taken'[e] = taken[e] /\ unheard'[e] = unheard[e]
  BY <1>1, <1>2
<1>4. Earlier(job[e].repeat) \in Nat
  BY EmitterConstants DEF Earlier
<1>5. CASE context = "cancelled"
  <2>1. job' = Ended(e, "cancelled")
    BY <1>5 DEF WaitEnds
  <2>3. /\ job' = [job EXCEPT ![e] = job'[e]] /\ job'[e] \in Jobs
        /\ job'[e].repeat = job[e].repeat /\ job'[e].attempt = job[e].attempt
        /\ job'[e].at = "over" /\ job'[e].outcome = "cancelled"
    BY <1>2, <2>1, EndedIs
  <2>4. Account(e)'
    BY <1>1, <1>2, <1>3, <1>4, <2>3, EmitterConstants DEF Account
  <2>. QED
    BY <1>1, <1>2, <1>3, <2>3, <2>4, EventStep
<1>6. CASE context # "cancelled"
  <2>1. job' = [job EXCEPT ![e].at = "posting", ![e].attempt = @ + 1]
    BY <1>6 DEF WaitEnds
  <2>3. /\ job' = [job EXCEPT ![e] = job'[e]] /\ job'[e] \in Jobs
        /\ job'[e].repeat = job[e].repeat /\ job'[e].attempt = job[e].attempt + 1
        /\ job'[e].at = "posting" /\ job'[e].outcome = "none"
    <3>. DEFINE y == [job[e] EXCEPT !.at = "posting"]
                x == [y EXCEPT !.attempt = job[e].attempt + 1]
    <3>1. job' = [job EXCEPT ![e] = x]
      BY <1>2, <2>1
    <3>2. /\ y \in Jobs /\ y.repeat = job[e].repeat /\ y.at = "posting" /\ y.outcome = "none"
      BY <1>2 DEF Jobs
    <3>. HIDE DEF y
    <3>3. /\ x \in Jobs /\ x.repeat = job[e].repeat /\ x.at = "posting" /\ x.outcome = "none"
          /\ x.attempt = job[e].attempt + 1
      BY <1>2, <3>2, EmitterConstants DEF Jobs
    <3>. HIDE DEF x
    <3>. QED
      BY <1>2, <3>1, <3>3
  <2>4. Account(e)'
    BY <1>1, <1>2, <1>3, <1>4, <2>3, EmitterConstants DEF Account
  <2>. QED
    BY <1>1, <1>2, <1>3, <2>3, <2>4, EventStep
<1>. QED
  BY <1>5, <1>6

LEMMA HandOutStep ==
    ASSUME EmitterInv, HandOut
    PROVE  EmitterInv'
<1>. DEFINE n == walked + 1
<1>1. /\ walked < Script /\ Cardinality(InFlight) < MaxConcurrent /\ walked' = n
      /\ job' = [job EXCEPT ![n].at = "posting"] /\ dispatcher = "walking"
      /\ UNCHANGED <<dispatcher, taken, unheard, runner>>
  BY DEF HandOut
<1>2. /\ job \in [Scheduled -> Jobs] /\ taken \in [Scheduled -> Nat] /\ unheard \in [Scheduled -> Nat]
      /\ walked \in 0..Script /\ \A e \in Scheduled : Account(e)
      /\ IsFiniteSet(InFlight) /\ Cardinality(InFlight) <= MaxConcurrent
  BY DEF EmitterInv, EmitterTypes
<1>3. n \in Scheduled /\ walked' \in 0..Script /\ n > walked /\ n \in Nat
  BY <1>1, <1>2, EmitterConstants DEF Scheduled
<1>4. job' = [job EXCEPT ![n] = [job[n] EXCEPT !.at = "posting"]]
  BY <1>1
<1>5. /\ job'[n] \in Jobs /\ job'[n].at = "posting" /\ job'[n].repeat = job[n].repeat
      /\ job'[n].attempt = job[n].attempt /\ job'[n].outcome = job[n].outcome
  BY <1>2, <1>3, <1>4 DEF Jobs
<1>6. /\ job[n].at = "unborn" /\ taken[n] = 0 /\ job[n].repeat = 1 /\ job[n].attempt = 1
      /\ job[n].outcome = "none" /\ unheard[n] <= taken[n] /\ taken[n] - unheard[n] = 0
  BY <1>2, <1>3 DEF Account
<1>7. EmitterTypes'
  BY <1>1, <1>2, <1>3, <1>4, <1>5 DEF EmitterTypes
<1>8. \A e \in Scheduled : Account(e)'
  <2>1. SUFFICES ASSUME NEW e \in Scheduled PROVE Account(e)'
    OBVIOUS
  <2>2. CASE e = n
    BY <1>1, <1>2, <1>3, <1>5, <1>6, <2>2, EmitterConstants DEF Account, Earlier
  <2>3. CASE e # n
    <3>1. job'[e] = job[e] /\ (e > walked' <=> e > walked)
      BY <1>1, <1>2, <1>4, <2>3 DEF Scheduled
    <3>. QED
      BY <1>1, <1>2, <3>1 DEF Account
  <2>. QED
    BY <2>2, <2>3
<1>9. InFlight' = InFlight \cup {n}
  <2>1. \A e \in Scheduled : e # n => job'[e] = job[e]
    BY <1>2, <1>4
  <2>. QED
    BY <1>3, <1>5, <2>1 DEF InFlight
<1>10. n \notin InFlight
  BY <1>6 DEF InFlight
<1>. HIDE DEF n
<1>11. IsFiniteSet(InFlight') /\ Cardinality(InFlight') = Cardinality(InFlight) + 1
       /\ Cardinality(InFlight) \in Nat
  BY <1>2, <1>9, <1>10, FS_AddElement, FS_CardinalityType
<1>. QED
  BY <1>1, <1>7, <1>8, <1>11, EmitterConstants DEF EmitterInv

\* The steps of the dispatcher and of the process around it.
LEMMA AroundStep ==
    ASSUME EmitterInv, UNCHANGED <<walked, job, taken, unheard>>,
           dispatcher' = "done" => InFlight = {},
           runner' = "returned" => dispatcher' = "done"
    PROVE  EmitterInv'
<1>1. walked' = walked /\ job' = job /\ taken' = taken /\ unheard' = unheard
  OBVIOUS
<1>2. InFlight' = InFlight
  BY <1>1 DEF InFlight
<1>3. \A e \in Scheduled : Account(e)'
  BY <1>1 DEF EmitterInv, Account
<1>. QED
  BY <1>1, <1>2, <1>3 DEF EmitterInv, EmitterTypes

LEMMA EmitterInductive ==
    ASSUME EmitterInv, [EmitterNext]_emitterVars
    PROVE  EmitterInv'
<1>1. ASSUME NEW e \in Scheduled, Refused(e) \/ AnswerLost(e) PROVE EmitterInv'
  <2>1. CASE Refused(e)
    BY <2>1, LeavesPosting DEF Refused
  <2>2. CASE AnswerLost(e)
    BY <2>2, LeavesPosting DEF AnswerLost
  <2>. QED
    BY <1>1, <2>1, <2>2
<1>2. CASE HandOut
  BY <1>2, HandOutStep
<1>3. CASE StopWalking \/ Drained
  <2>1. UNCHANGED <<walked, job, taken, unheard>> /\ runner' = runner
    BY <1>3 DEF StopWalking, Drained
  <2>2. /\ dispatcher # "done"
        /\ dispatcher' = "done" => InFlight = {}
    BY <1>3 DEF StopWalking, Drained
  <2>3. runner # "returned"
    BY <2>2 DEF EmitterInv
  <2>. QED
    BY <2>1, <2>2, <2>3, AroundStep
<1>4. CASE Cancel \/ ServeFails \/ StopByOwner \/ LeaveSelect \/ RunReturns
  <2>1. UNCHANGED <<walked, job, taken, unheard>> /\ dispatcher' = dispatcher
    BY <1>4 DEF Cancel, ServeFails, StopByOwner, LeaveSelect, RunReturns
  <2>2. runner' = runner \/ runner' = "waiting" \/ dispatcher = "done"
    BY <1>4 DEF Cancel, ServeFails, StopByOwner, LeaveSelect, RunReturns, Returnable
  <2>. QED
    BY <2>1, <2>2, AroundStep DEF EmitterInv
<1>5. CASE UNCHANGED emitterVars
  BY <1>5, AroundStep DEF emitterVars, EmitterInv
<1>. QED
  BY <1>1, <1>2, <1>3, <1>4, <1>5, DeliveredStep, WaitEndsStep DEF EmitterNext

LEMMA EmitterInitial == EmitterInit => EmitterInv
<1>. SUFFICES ASSUME EmitterInit PROVE EmitterInv
  OBVIOUS
<1>1. /\ walked = 0 /\ dispatcher = "walking" /\ runner = "serving"
      /\ job = [e \in Scheduled |-> [at |-> "unborn", repeat |-> 1, attempt |-> 1, outcome |-> "none"]]
      /\ taken = [e \in Scheduled |-> 0] /\ unheard = [e \in Scheduled |-> 0]
  BY DEF EmitterInit
<1>2. EmitterTypes
  BY <1>1, EmitterConstants DEF EmitterTypes, Jobs
<1>3. \A e \in Scheduled : Account(e)
  <2>1. \A e \in Scheduled : e > walked /\ 1 <= Copies(e)
    BY <1>1, EmitterConstants DEF Scheduled
  <2>2. \A e \in Scheduled : /\ taken[e] = 0 /\ unheard[e] = 0 /\ job[e].at = "unborn"
                             /\ job[e].repeat = 1 /\ job[e].attempt = 1 /\ job[e].outcome = "none"
    BY <1>1
  <2>. QED
    BY <2>1, <2>2 DEF Account, Earlier
<1>4. InFlight = {} /\ IsFiniteSet(InFlight) /\ Cardinality(InFlight) = 0
  <2>1. InFlight = {}
    BY <1>1 DEF InFlight
  <2>. QED
    BY <2>1, FS_EmptySet
<1>. QED
  BY <1>1, <1>2, <1>3, <1>4, EmitterConstants DEF EmitterInv

\* Every event reaches the receiver as often as the script says and once more
\* for each lost answer, within the attempts; no more deliveries run than the
\* semaphore has room for, and none once Run has returned.
THEOREM EmitterIsSound == EmitterSpec => []EmitterSound
<1>1. EmitterInv => EmitterSound
  <2>. SUFFICES ASSUME EmitterInv PROVE EmitterSound
    OBVIOUS
  <2>1. \A e \in Scheduled :
           /\ Account(e) /\ job[e].repeat \in 1..2 /\ job[e].attempt \in 1..MaxDeliveryAttempts
           /\ taken[e] \in Nat /\ unheard[e] \in Nat /\ Copies(e) \in {1, 2}
    <3>1. \A e \in Scheduled : Account(e) /\ job[e] \in Jobs /\ taken[e] \in Nat /\ unheard[e] \in Nat
      BY DEF EmitterInv, EmitterTypes
    <3>. QED
      BY <3>1, EmitterConstants DEF Jobs
  <2>2. \A e \in Scheduled :
           /\ job[e].repeat \in 1..Copies(e)
           /\ (job[e].at = "over") <=> (job[e].outcome # "none")
           /\ (job[e].at = "unborn") <=> (e > walked)
    BY <2>1 DEF Account
  <2>3. EmitterTypeOK
    BY <2>1, <2>2 DEF EmitterInv, EmitterTypes, EmitterTypeOK
  <2>4. QuietOnReturn
    BY DEF EmitterInv, QuietOnReturn
  <2>5. \A e \in Scheduled : taken[e] <= Copies(e) * MaxDeliveryAttempts
    <3>1. TAKE e \in Scheduled
    <3>2. taken[e] <= Earlier(job[e].repeat) + MaxDeliveryAttempts
      <4>1. taken[e] <= Earlier(job[e].repeat) + job[e].attempt /\ Earlier(job[e].repeat) \in Nat
        BY <2>1, EmitterConstants DEF Account, Earlier
      <4>. QED
        BY <2>1, <4>1, EmitterConstants
    <3>3. CASE Copies(e) = 1
      <4>1. job[e].repeat = 1
        BY <2>2, <3>3
      <4>. QED
        BY <3>2, <3>3, <4>1, EmitterConstants DEF Earlier
    <3>4. CASE Copies(e) = 2
      <4>1. Earlier(job[e].repeat) <= MaxDeliveryAttempts /\ Earlier(job[e].repeat) \in Nat
        BY EmitterConstants DEF Earlier
      <4>. QED
        BY <2>1, <3>2, <3>4, <4>1, EmitterConstants
    <3>. QED
      BY <2>1, <3>3, <3>4
  <2>6. DeliveriesAccounted
    <3>1. \A e \in Scheduled :
             /\ taken[e] - unheard[e] <= Copies(e)
             /\ job[e].outcome = "delivered" => taken[e] - unheard[e] = Copies(e)
             /\ job[e].outcome = "undelivered" => taken[e] - unheard[e] < Copies(e)
      BY <2>1, <2>2 DEF Account
    <3>. QED
      BY <2>5, <3>1 DEF DeliveriesAccounted
  <2>. QED
    BY <2>3, <2>4, <2>6 DEF EmitterSound
<1>. QED
  BY EmitterInitial, EmitterInductive, <1>1, PTL DEF EmitterSpec

-----------------------------------------------------------------------------
(* The outages of the simulator *)

\* The script keeps its form, and no two polls are further apart than PollGap.
Scripted ==
    /\ outages \in [Windows -> OutageWindow]
    /\ now \in Nat /\ polled \in 0..now /\ now <= polled + PollGap
    /\ noticed \in [Windows -> SUBSET {"scheduled", "started", "resolved"}]

\* A poller that saw an outage run saw it after its begin, and one that saw it
\* over saw it after its end; between the last poll and the next an outage
\* whose end it did not see cannot leave the list.
Watching ==
    \A w \in Windows :
        /\ "started" \in noticed[w] => outages[w].begin <= polled
        /\ "started" \in noticed[w] /\ "resolved" \notin noticed[w] => polled <= outages[w].end

TimelineInv == Scripted /\ Watching

\* A finite set of numbers that has a member has a greatest: among the sets of
\* what is above one of its members, one is the least.
LEMMA Greatest ==
    ASSUME NEW T, T \subseteq Int, IsFiniteSet(T), T # {}
    PROVE  Max(T) \in T /\ \A y \in T : y <= Max(T)
<1>. DEFINE Above(x) == {y \in T : y > x}
            Tails == {Above(x) : x \in T}
<1>1. Tails \subseteq FiniteSubsetsOf(T) /\ Tails # {}
  <2>1. \A x \in T : Above(x) \in SUBSET T /\ IsFiniteSet(Above(x))
    BY FS_Subset
  <2>. QED
    BY <2>1 DEF FiniteSubsetsOf
<1>2. IsWellFoundedOn(StrictSubsetOrdering(T), FiniteSubsetsOf(T))
  BY FS_StrictSubsetOrderingWellFounded
<1>3. PICK A \in Tails : \A B \in Tails : <<B, A>> \notin StrictSubsetOrdering(T)
  <2>. HIDE DEF Tails
  <2>. QED
    BY <1>1, <1>2, WFMin
<1>4. PICK x \in T : A = Above(x)
  BY <1>3
<1>5. \A y \in T : x >= y
  <2>1. SUFFICES ASSUME NEW y \in T, y > x PROVE FALSE
    OBVIOUS
  <2>2. Above(y) \in Tails /\ Above(y) \subseteq Above(x) /\ y \in Above(x) /\ y \notin Above(y)
    <3>1. x \in Int /\ y \in Int /\ \A z \in T : z \in Int
      OBVIOUS
    <3>2. Above(y) \in Tails
      OBVIOUS
    <3>3. \A z \in T : z > y => z > x
      BY <2>1, <3>1
    <3>4. Above(y) \subseteq Above(x)
      BY <3>3
    <3>5. y \in Above(x) /\ y \notin Above(y)
      BY <2>1, <3>1
    <3>. QED
      BY <3>2, <3>4, <3>5
  <2>3. <<Above(y), Above(x)>> \in StrictSubsetOrdering(T)
    BY <2>2 DEF StrictSubsetOrdering
  <2>. QED
    BY <1>3, <1>4, <2>2, <2>3
<1>6. \E z \in T : \A y \in T : z >= y
  BY <1>5
<1>7. Max(T) \in T /\ \A y \in T : Max(T) >= y
  BY <1>6 DEF Max
<1>. QED
  BY <1>7

LEMMA TimelineConstants ==
    /\ Lead \in Nat /\ ListedFor \in Nat /\ PollGap \in Nat /\ Horizon \in Nat
    /\ PollGap < ListedFor /\ Rates \subseteq 0..1000
    /\ \A i \in Issuers : Baseline[i] \in 0..1000
  BY TimelineAssumption

LEMMA WindowForm ==
    ASSUME Scripted, NEW w \in Windows
    PROVE  /\ outages[w].begin \in Nat /\ outages[w].end \in Nat /\ outages[w].begin <= outages[w].end
           /\ outages[w].rate \in Rates
  BY TimelineConstants DEF Scripted, OutageWindow

LEMMA Rated ==
    ASSUME TimelineInv
    PROVE  \A w \in Windows : outages[w].rate \in 0..1000
<1>. TAKE w \in Windows
<1>1. Rates \subseteq 0..1000 /\ Scripted
  BY TimelineConstants DEF TimelineInv
<1>2. outages[w].rate \in Rates
  BY <1>1, WindowForm
<1>. QED
  BY <1>1, <1>2

LEMMA TimelineInvStep ==
    ASSUME TimelineInv, [TimelineNext]_timelineVars
    PROVE  TimelineInv'
<1>1. CASE TimePasses
  BY <1>1, TimelineConstants DEF TimePasses, TimelineInv, Scripted, Watching
<1>2. CASE ListDowntimes
  <2>1. Scripted'
    BY <1>2, TimelineConstants DEF ListDowntimes, TimelineInv, Scripted, StatusAt
  <2>2. ASSUME NEW w \in Windows
        PROVE  /\ "started" \in noticed'[w] => outages'[w].begin <= polled'
               /\ "started" \in noticed'[w] /\ "resolved" \notin noticed'[w] => polled' <= outages'[w].end
    <3>1. noticed'[w] = noticed[w] \cup StatusAt(outages[w], now) /\ polled' = now /\ outages' = outages
      BY <1>2 DEF ListDowntimes
    <3>2. /\ now \in Nat /\ polled \in Nat /\ polled <= now /\ now <= polled + PollGap
          /\ "started" \in noticed[w] => outages[w].begin <= polled
          /\ "started" \in noticed[w] /\ "resolved" \notin noticed[w] => polled <= outages[w].end
      BY DEF TimelineInv, Scripted, Watching
    <3>3. outages[w].begin \in Nat /\ outages[w].end \in Nat /\ outages[w].begin <= outages[w].end
      BY WindowForm DEF TimelineInv
    <3>4. "started" \in StatusAt(outages[w], now) => outages[w].begin <= now /\ now <= outages[w].end
      BY <3>2, <3>3 DEF StatusAt
    <3>5. outages[w].end < now /\ now < outages[w].end + ListedFor => "resolved" \in StatusAt(outages[w], now)
      BY <3>2, <3>3 DEF StatusAt
    <3>. HIDE DEF StatusAt
    <3>. QED
      BY <3>1, <3>2, <3>3, <3>4, <3>5, TimelineConstants
  <2>. QED
    BY <2>1, <2>2 DEF TimelineInv, Watching
<1>3. CASE UNCHANGED timelineVars
  BY <1>3 DEF timelineVars, TimelineInv, Scripted, Watching
<1>. QED
  BY <1>1, <1>2, <1>3 DEF TimelineNext

LEMMA OneListing ==
    ASSUME TimelineInv
    PROVE  TimelineTypeOK
<1>1. \A w \in Windows : StatusAt(outages[w], now) = {} \/ \E s : StatusAt(outages[w], now) = {s}
  BY DEF StatusAt
<1>2. \A s : Cardinality({s}) = 1 /\ Cardinality({}) = 0
  BY FS_EmptySet, FS_Singleton
<1>3. \A w \in Windows : Cardinality(StatusAt(outages[w], now)) <= 1
  <2>. TAKE w \in Windows
  <2>. DEFINE S == StatusAt(outages[w], now)
  <2>1. S = {} \/ \E s : S = {s}
    BY <1>1
  <2>. HIDE DEF S
  <2>2. Cardinality(S) = 0 \/ Cardinality(S) = 1
    BY <1>2, <2>1
  <2>3. Cardinality(S) <= 1
    BY <2>2
  <2>. QED
    BY <2>3 DEF S
<1>. QED
  BY <1>3 DEF TimelineInv, Scripted, TimelineTypeOK

LEMMA Resolves ==
    ASSUME TimelineInv
    PROVE  ResolutionIsSeen
<1>. SUFFICES ASSUME NEW w \in Windows, "started" \in noticed[w], "resolved" \notin noticed[w]
              PROVE  StatusAt(outages[w], now) # {}
  BY DEF ResolutionIsSeen, Listed
<1>1. outages[w].begin <= polled /\ polled <= outages[w].end /\ now <= polled + PollGap
      /\ polled \in Nat /\ now \in Nat /\ polled <= now
  BY DEF TimelineInv, Watching, Scripted
<1>2. outages[w].begin \in Nat /\ outages[w].end \in Nat
  BY WindowForm DEF TimelineInv
<1>3. ~(now < outages[w].begin) /\ (now <= outages[w].end \/ now < outages[w].end + ListedFor)
  BY <1>1, <1>2, TimelineConstants
<1>. QED
  BY <1>3, Zenon DEF StatusAt

\* What an issuer's payments fail with is the greatest of its rates.
LEMMA Harshest ==
    ASSUME TimelineInv, NEW issuer \in Issuers
    PROVE  LET rates == {Baseline[issuer]} \cup {outages[w].rate : w \in Covering(issuer, now)}
           IN  FailPerMille(issuer, now) \in rates /\ \A r \in rates : r <= FailPerMille(issuer, now)
<1>. DEFINE rates == {Baseline[issuer]} \cup {outages[w].rate : w \in Covering(issuer, now)}
<1>1. rates \subseteq 0..1000 /\ rates # {}
  <2>1. Baseline[issuer] \in 0..1000
    BY TimelineConstants
  <2>2. \A w \in Windows : outages[w].rate \in 0..1000
    BY Rated
  <2>. QED
    BY <2>1, <2>2 DEF Covering
<1>2. IsFiniteSet(rates)
  <2>. DEFINE a == 0
              b == 1000
              range == a..b
  <2>. HIDE DEF rates
  <2>1. a \in Int /\ b \in Int
    OBVIOUS
  <2>3. rates \subseteq range
    BY <1>1
  <2>. HIDE DEF a, b
  <2>2. IsFiniteSet(range)
    BY <2>1, FS_Interval
  <2>. HIDE DEF range
  <2>. QED
    BY <2>2, <2>3, FS_Subset
<1>3. FailPerMille(issuer, now) = Max(rates)
  BY DEF FailPerMille
<1>4. rates \subseteq Int
  BY <1>1
<1>. HIDE DEF rates
<1>5. Max(rates) \in rates /\ \A r \in rates : r <= Max(rates)
  BY <1>1, <1>2, <1>4, Greatest
<1>6. FailPerMille(issuer, now) \in rates /\ \A r \in rates : r <= FailPerMille(issuer, now)
  BY <1>3, <1>5
<1>. QED
  BY <1>6 DEF rates

LEMMA Told ==
    ASSUME TimelineInv
    PROVE  NoticesTellRates
<1>. SUFFICES ASSUME NEW issuer \in Issuers
     PROVE LET running == {w \in Windows : outages[w].issuer = issuer /\ "started" \in StatusAt(outages[w], now)}
        IN  /\ FailPerMille(issuer, now) >= Baseline[issuer]
            /\ FailPerMille(issuer, now) # Baseline[issuer] => \E w \in running :
                  outages[w].rate = FailPerMille(issuer, now)
            /\ \A w \in running : outages[w].rate <= FailPerMille(issuer, now)
  BY DEF NoticesTellRates
<1>. DEFINE running == {w \in Windows : outages[w].issuer = issuer /\ "started" \in StatusAt(outages[w], now)}
<1>1. Covering(issuer, now) = running
  <2>1. \A w \in Windows : "started" \in StatusAt(outages[w], now)
            <=> outages[w].begin <= now /\ now <= outages[w].end
    <3>. TAKE w \in Windows
    <3>1. now \in Nat /\ outages[w].begin \in Nat /\ outages[w].end \in Nat
      BY WindowForm DEF TimelineInv, Scripted
    <3>. QED
      BY <3>1 DEF StatusAt
  <2>. QED
    BY <2>1 DEF Covering
<1>2. Baseline[issuer] \in Nat /\ \A w \in running : outages[w].rate \in Nat
  <2>1. Baseline[issuer] \in 0..1000
    BY TimelineConstants
  <2>2. \A w \in Windows : outages[w].rate \in 0..1000
    BY Rated
  <2>3. Baseline[issuer] \in Nat
    BY <2>1
  <2>4. ASSUME NEW w \in Windows PROVE outages[w].rate \in Nat
    <3>1. outages[w].rate \in 0..1000
      BY <2>2
    <3>2. \A r \in 0..1000 : r \in Nat
      OBVIOUS
    <3>. QED
      BY ONLY <3>1, <3>2, Zenon
  <2>. QED
    BY <2>3, <2>4
<1>3. /\ FailPerMille(issuer, now) \in {Baseline[issuer]} \cup {outages[w].rate : w \in running}
      /\ \A r \in {Baseline[issuer]} \cup {outages[w].rate : w \in running} : r <= FailPerMille(issuer, now)
  BY <1>1, Harshest
<1>. HIDE DEF running
<1>4. FailPerMille(issuer, now) \in Nat
  BY <1>2, <1>3
<1>5. /\ FailPerMille(issuer, now) >= Baseline[issuer]
      /\ FailPerMille(issuer, now) # Baseline[issuer] => \E w \in running : outages[w].rate = FailPerMille(issuer, now)
      /\ \A w \in running : outages[w].rate <= FailPerMille(issuer, now)
  BY <1>2, <1>3, <1>4
<1>. QED
  BY <1>5 DEF running

\* Whatever a poller saw running it sees end, and payments fail at the worst
\* rate of the outages that notices say are running.
THEOREM TimelineIsSound == TimelineSpec => []TimelineSound
<1>1. TimelineInit => TimelineInv
  BY TimelineConstants DEF TimelineInit, TimelineInv, Scripted, Watching
<1>2. TimelineInv /\ [TimelineNext]_timelineVars => TimelineInv'
  BY TimelineInvStep
<1>3. TimelineInv => TimelineSound
  BY OneListing, Resolves, Told DEF TimelineSound
<1>. QED
  BY <1>1, <1>2, <1>3, PTL DEF TimelineSpec

=============================================================================
