----------------------------- MODULE AgentProofs -----------------------------
(***************************************************************************)
(* Theorems about what is decided of a failed debit: Diagnosis, which says *)
(* why it failed, from a corpus of recorded answers or from the rules, and *)
(* Policy, which says when, on which rail and for what worth to try again. *)
(*                                                                         *)
(*   1. DiagnosisIsSound   whoever is asked, with whatever corpus on the   *)
(*                         disk: a process replays what the disk still     *)
(*                         has, a diagnosis fits its question and obeys    *)
(*                         the guardrails, and one question has one answer *)
(*                         by the rules                                    *)
(*   2. PolicyIsSound      waits are ordered and bounded, a rail is chosen *)
(*                         for what it earned and however the issuers are  *)
(*                         listed, and no worth is overstated              *)
(***************************************************************************)
EXTENDS Diagnosis, Policy, FiniteSetTheorems, NaturalsInduction, WellFoundedInduction, TLAPS

\* A property of some number is a property of a least one.
LEMMA LeastNatural ==
    ASSUME NEW S, S \subseteq Nat, S # {}
    PROVE  \E n \in S : \A m \in S : n <= m
<1>1. IsWellFoundedOn(OpToRel(<, Nat), Nat)
  BY NatLessThanWellFounded
<1>2. PICK n \in S : \A m \in S : ~(<<m, n>> \in OpToRel(<, Nat))
  BY <1>1, WFMin, Zenon
<1>3. \A m \in S : n <= m
  <2>1. SUFFICES ASSUME NEW m \in S PROVE n <= m
    OBVIOUS
  <2>2. m \in Nat /\ n \in Nat
    BY <2>1
  <2>3. ~(m < n)
    BY <1>2, <2>1, <2>2 DEF OpToRel
  <2> QED BY <2>2, <2>3
<1> QED BY <1>3

-----------------------------------------------------------------------------
(* The corpus and a diagnosis from it *)

\* Files are recordings under their own digests, or edited by hand; the edited
\* ones are what the disk was left with.
FilesKept ==
    /\ unsynced = {}
    /\ DOMAIN files \subseteq Questions /\ DOMAIN durable \subseteq Questions
    /\ \A d \in DOMAIN files :
         Kept(files[d], d) \/ (files[d] = Edited /\ d \in DOMAIN durable /\ durable[d] = Edited)
    /\ \A d \in DOMAIN durable : Kept(durable[d], d) \/ durable[d] = Edited

\* A process replays what is on the disk; one that loads has the rest before it,
\* and one that was refused met an edited file.
RunnerKept(r) ==
    /\ runner[r] = [at |-> runner[r].at, left |-> runner[r].left]
    /\ runner[r].at \in {"down", "loading", "up", "refused"}
    /\ DOMAIN memory[r] \subseteq DOMAIN files
    /\ \A d \in DOMAIN memory[r] :
         Kept(memory[r][d], d) /\ Loads(files[d])
    /\ runner[r].at = "loading" =>
         runner[r].left \subseteq DOMAIN files \ DOMAIN memory[r]
    /\ runner[r].at = "refused" => \E d \in DOMAIN durable : durable[d] = Edited

\* A recorder is inside a process that serves, and has a good recording in hand.
WriterKept(q) ==
    writer[q].at # "idle" =>
        LET w == writer[q] IN
        /\ w = [at |-> w.at, in |-> w.in, digest |-> w.digest, p |-> w.p]
        /\ w.at \in {"created", "written", "synced", "closed", "published"}
        /\ w.in \in Runners /\ runner[w.in].at = "up"
        /\ w.digest \in Questions /\ Kept(w.p, w.digest)
        /\ w.at = "published" => w.digest \in DOMAIN files /\ Loads(files[w.digest])

CorpusInv ==
    /\ FilesKept
    /\ DOMAIN runner = Runners /\ DOMAIN memory = Runners /\ DOMAIN writer = Scribes
    /\ \A r \in Runners : RunnerKept(r)
    /\ \A q \in Scribes : WriterKept(q)
    /\ recordings \in 0..MaxRecordings /\ crashes \in 0..MaxCrashes

\* What the diagnosis has sent, and what is still before it.
Walks == [at : {"idle", "next", "asking", "done"}, tier : Nat, sent : Nat, unread : Nat]

LiveAhead == \E k \in 1..Len(stack) : k >= walk.tier /\ stack[k] = "live"

WalkInv ==
    /\ stack \in Stacks /\ asker \in Runners /\ asked \in Contexts /\ cancelled \in BOOLEAN
    /\ walk \in Walks /\ walk.tier \in 0..(Len(stack) + 1)
    /\ TrafficIsBounded
    /\ walk.at = "idle" => walk = Idle
    /\ walk.at = "next" => walk.tier >= 1
    /\ walk.at = "next" /\ LiveAhead => walk.sent = 0 /\ walk.unread = 0
    /\ walk.at = "asking" =>
         /\ walk.tier \in 1..Len(stack) /\ stack[walk.tier] = "live"
         /\ walk.sent = 1 + walk.unread

\* A verdict of the program's own is accountable, and a verdict of the rules is theirs.
VerdictInv ==
    /\ verdict.by \in {"none", "breaker", "nobody", "live", "replay", "heuristic", "own"}
    /\ VerdictIsAccountable
    /\ verdict.by = "heuristic" => verdict.p = Heuristic(asked)

DiagnosisInv == CorpusInv /\ WalkInv /\ VerdictInv
LEMMA Shape ==
    ASSUME NEW p, IsProposal(p)
    PROVE  p \in [incident : {p.incident}, class : {p.class}, confidence : {p.confidence},
                  action : {p.action}, delay : {p.delay}, rail : {p.rail}, mode : {p.mode},
                  degraded : {p.degraded}]
  BY DEF IsProposal, Answer

LEMMA Fields ==
    ASSUME NEW i, NEW c, NEW n, NEW a, NEW t, NEW r, NEW m, NEW g
    PROVE  LET p == Answer(i, c, n, a, t, r, m, g)
           IN  /\ IsProposal(p)
               /\ p.incident = i /\ p.class = c /\ p.confidence = n /\ p.action = a
               /\ p.delay = t /\ p.rail = r /\ p.mode = m /\ p.degraded = g
  BY DEF IsProposal, Answer

\* A proposal with one field replaced.
LEMMA AnswerIsProposal ==
    ASSUME NEW i, NEW c, NEW n, NEW a, NEW t, NEW r, NEW m, NEW g
    PROVE  IsProposal(Answer(i, c, n, a, t, r, m, g))
  BY Fields

LEMMA Redone ==
    ASSUME NEW p, IsProposal(p), NEW v
    PROVE  /\ [p EXCEPT !.mode = v] =
                Answer(p.incident, p.class, p.confidence, p.action, p.delay, p.rail, v, p.degraded)
           /\ [p EXCEPT !.degraded = v] =
                Answer(p.incident, p.class, p.confidence, p.action, p.delay, p.rail, p.mode, v)
           /\ [p EXCEPT !.incident = v] =
                Answer(v, p.class, p.confidence, p.action, p.delay, p.rail, p.mode, p.degraded)
           /\ [p EXCEPT !.class = v] =
                Answer(p.incident, v, p.confidence, p.action, p.delay, p.rail, p.mode, p.degraded)
           /\ [p EXCEPT !.action = v] =
                Answer(p.incident, p.class, p.confidence, v, p.delay, p.rail, p.mode, p.degraded)
           /\ [p EXCEPT !.rail = v] =
                Answer(p.incident, p.class, p.confidence, p.action, p.delay, v, p.mode, p.degraded)
           /\ [p EXCEPT !.delay = v] =
                Answer(p.incident, p.class, p.confidence, p.action, v, p.rail, p.mode, p.degraded)
<1>. USE Shape
<1>1. [p EXCEPT !.mode = v] =
         Answer(p.incident, p.class, p.confidence, p.action, p.delay, p.rail, v, p.degraded)
  BY DEF Answer
<1>2. [p EXCEPT !.degraded = v] =
         Answer(p.incident, p.class, p.confidence, p.action, p.delay, p.rail, p.mode, v)
  BY DEF Answer
<1>3. [p EXCEPT !.incident = v] =
         Answer(v, p.class, p.confidence, p.action, p.delay, p.rail, p.mode, p.degraded)
  BY DEF Answer
<1>4. [p EXCEPT !.class = v] =
         Answer(p.incident, v, p.confidence, p.action, p.delay, p.rail, p.mode, p.degraded)
  BY DEF Answer
<1>5. [p EXCEPT !.action = v] =
         Answer(p.incident, p.class, p.confidence, v, p.delay, p.rail, p.mode, p.degraded)
  BY DEF Answer
<1>6. [p EXCEPT !.rail = v] =
         Answer(p.incident, p.class, p.confidence, p.action, p.delay, v, p.mode, p.degraded)
  BY DEF Answer
<1>7. [p EXCEPT !.delay = v] =
         Answer(p.incident, p.class, p.confidence, p.action, v, p.rail, p.mode, p.degraded)
  BY DEF Answer
<1>. QED
  BY <1>1, <1>2, <1>3, <1>4, <1>5, <1>6, <1>7

LEMMA NotAFault == Torn.mode # "REPLAY" /\ Edited.mode # "REPLAY"
  BY DEF Torn, Edited, AbstainProposal, Answer

LEMMA FinalizedIs ==
    ASSUME NEW p, IsProposal(p), NEW dc
    PROVE  /\ Finalized(p, dc) =
                Answer(dc.incident, IF p.class \in ClassesKnown THEN p.class ELSE "UNKNOWN",
                       p.confidence, p.action, p.delay, p.rail, p.mode, p.degraded)
           /\ Acceptable(p, dc) => Acceptable(Finalized(p, dc), dc)
           /\ Finalized(p, dc).class \in ClassesKnown
           /\ Finalized(p, dc).incident = dc.incident /\ Finalized(p, dc).mode = p.mode
<1>. DEFINE k == IF p.class \in ClassesKnown THEN p.class ELSE "UNKNOWN"
            f == Answer(dc.incident, k, p.confidence, p.action, p.delay, p.rail, p.mode, p.degraded)
<1>1. Finalized(p, dc) = f
  <2>. DEFINE q == [p EXCEPT !.incident = dc.incident]
  <2>1. q = Answer(dc.incident, p.class, p.confidence, p.action, p.delay, p.rail, p.mode, p.degraded)
    BY Redone
  <2>2. Finalized(p, dc) = [q EXCEPT !.class = IF q.class \in ClassesKnown THEN q.class ELSE "UNKNOWN"]
    BY Zenon DEF Finalized
  <2>. HIDE DEF q
  <2>3. /\ IsProposal(q) /\ q.class = p.class /\ q.confidence = p.confidence /\ q.action = p.action
        /\ q.delay = p.delay /\ q.rail = p.rail /\ q.mode = p.mode /\ q.degraded = p.degraded
        /\ q.incident = dc.incident
    BY <2>1, Fields
  <2>4. [q EXCEPT !.class = k] =
          Answer(q.incident, k, q.confidence, q.action, q.delay, q.rail, q.mode, q.degraded)
    BY <2>3, Redone
  <2>. QED
    BY <2>2, <2>3, <2>4
<1>2. k \in ClassesKnown
  BY DEF ClassesKnown
<1>. HIDE DEF k
<1>3. /\ f.class = k /\ f.confidence = p.confidence /\ f.action = p.action /\ f.delay = p.delay
      /\ f.rail = p.rail /\ f.incident = dc.incident /\ f.mode = p.mode
  BY Fields
<1>. QED
  BY <1>1, <1>2, <1>3 DEF Acceptable, Valid, RailOffered, k

LEMMA RedoneTwice ==
    ASSUME NEW p, IsProposal(p), NEW v, NEW w
    PROVE  [[p EXCEPT !.degraded = v] EXCEPT !.mode = w] =
             Answer(p.incident, p.class, p.confidence, p.action, p.delay, p.rail, w, v)
<1>. DEFINE q == [p EXCEPT !.degraded = v]
<1>1. q = Answer(p.incident, p.class, p.confidence, p.action, p.delay, p.rail, p.mode, v)
  BY Shape DEF Answer
<1>. HIDE DEF q
<1>2. /\ IsProposal(q) /\ q.class = p.class /\ q.confidence = p.confidence /\ q.action = p.action
      /\ q.delay = p.delay /\ q.rail = p.rail /\ q.degraded = v /\ q.incident = p.incident
  BY <1>1, Fields
<1>3. [q EXCEPT !.mode = w] =
         Answer(q.incident, q.class, q.confidence, q.action, q.delay, q.rail, w, q.degraded)
  BY <1>2, Redone
<1>. QED
  BY <1>2, <1>3 DEF q

LEMMA OnDiskIs ==
    ASSUME NEW p, IsProposal(p)
    PROVE  OnDisk(p) = Answer(p.incident, p.class, p.confidence, p.action, p.delay, p.rail, "REPLAY", FALSE)
  BY RedoneTwice, Zenon DEF OnDisk

\* A recording is as good on the disk and in the memory of a process as it was.
LEMMA KeptAgain ==
    ASSUME NEW c, NEW d, Kept(c, d)
    PROVE  /\ Kept(OnDisk(c), d) /\ Kept([c EXCEPT !.mode = "REPLAY"], d)
           /\ Loads(OnDisk(c)) /\ Loads(c)
<1>1. IsProposal(c) /\ Valid(c) /\ c.rail \in d.rails \cup {"none"}
  BY DEF Kept, Loads
<1>2. ASSUME NEW g PROVE
        LET p == Answer(c.incident, c.class, c.confidence, c.action, c.delay, c.rail, "REPLAY", g)
        IN  Kept(p, d) /\ Loads(p)
  <2>. DEFINE p == Answer(c.incident, c.class, c.confidence, c.action, c.delay, c.rail, "REPLAY", g)
  <2>1. p # Torn /\ p # Edited
    BY Fields, NotAFault
  <2>2. /\ IsProposal(p) /\ p.confidence = c.confidence /\ p.action = c.action
        /\ p.delay = c.delay /\ p.rail = c.rail /\ p.mode = "REPLAY"
    BY Fields
  <2>. HIDE DEF p
  <2>3. Valid(p)
    BY <1>1, <2>2 DEF Valid
  <2>4. Kept(p, d) /\ Loads(p)
    BY <1>1, <2>1, <2>2, <2>3 DEF Kept, Loads
  <2>. QED
    BY <2>4 DEF p
<1>3. \E g : OnDisk(c) = Answer(c.incident, c.class, c.confidence, c.action, c.delay, c.rail, "REPLAY", g)
  BY <1>1, OnDiskIs, Zenon
<1>4. [c EXCEPT !.mode = "REPLAY"] =
         Answer(c.incident, c.class, c.confidence, c.action, c.delay, c.rail, "REPLAY", c.degraded)
  BY <1>1, Redone
<1>. QED
  BY <1>2, <1>3, <1>4 DEF Kept

\* What a recorder takes in hand is a recording under its own digest.
LEMMA Recorded ==
    ASSUME NEW p, IsProposal(p), NEW dc, Acceptable(p, dc)
    PROVE  Kept([Finalized(p, dc) EXCEPT !.mode = "REPLAY"], ContextDigest(dc))
<1>. DEFINE f == Finalized(p, dc)
            g == [f EXCEPT !.mode = "REPLAY"]
<1>1. IsProposal(f) /\ Acceptable(f, dc)
  BY FinalizedIs, Fields
<1>. HIDE DEF f
<1>2. g = Answer(f.incident, f.class, f.confidence, f.action, f.delay, f.rail, "REPLAY", f.degraded)
  BY <1>1, Redone
<1>3. /\ IsProposal(g) /\ g.confidence = f.confidence /\ g.action = f.action
      /\ g.delay = f.delay /\ g.rail = f.rail /\ g.mode = "REPLAY"
  BY <1>2, Fields
<1>4. g # Torn /\ g # Edited
  BY <1>3, NotAFault
<1>. HIDE DEF g
<1>5. ContextDigest(dc).rails = dc.rails
  BY DEF ContextDigest
<1>6. Kept(g, ContextDigest(dc))
  BY <1>1, <1>3, <1>4, <1>5 DEF Kept, Loads, Acceptable, Valid, RailOffered
<1>. QED
  BY <1>6 DEF f, g
-----------------------------------------------------------------------------


LEMMA CorpusStarts == CassettesInit => CorpusInv
<1>. SUFFICES ASSUME CassettesInit PROVE CorpusInv
  OBVIOUS
<1>1. FilesKept
  BY FirstFilesAssumption DEF CassettesInit, FilesKept
<1>2. \A r \in Runners : RunnerKept(r)
  BY DEF CassettesInit, RunnerKept, Down, Nothing
<1>3. \A q \in Scribes : WriterKept(q)
  BY DEF CassettesInit, WriterKept, NoWriter
<1>. QED
  BY <1>1, <1>2, <1>3, CassetteConstants DEF CorpusInv, CassettesInit

\* A process that loads has files of the directory before it.
LEMMA BootKeeps == ASSUME CorpusInv, NEW r \in Runners, Boot(r) PROVE CorpusInv'
<1>1. /\ runner' = [runner EXCEPT ![r] = [at |-> "loading", left |-> DOMAIN files]]
      /\ memory' = [memory EXCEPT ![r] = Nothing]
      /\ UNCHANGED <<files, durable, unsynced, writer, recordings, crashes>>
      /\ runner[r].at = "down"
  BY DEF Boot
<1>2. DOMAIN runner = Runners /\ DOMAIN memory = Runners
  BY DEF CorpusInv
<1>3. /\ runner'[r] = [at |-> "loading", left |-> DOMAIN files] /\ memory'[r] = Nothing
      /\ \A o \in Runners \ {r} : runner'[o] = runner[o] /\ memory'[o] = memory[o]
      /\ DOMAIN runner' = Runners /\ DOMAIN memory' = Runners
  BY <1>1, <1>2
<1>4. RunnerKept(r)'
  BY <1>1, <1>3 DEF RunnerKept, Nothing
<1>5. ASSUME NEW o \in Runners \ {r} PROVE RunnerKept(o)'
  BY <1>1, <1>3 DEF RunnerKept, CorpusInv
<1>6. ASSUME NEW q \in Scribes PROVE WriterKept(q)'
  BY <1>1, <1>3 DEF WriterKept, CorpusInv
<1>7. FilesKept'
  BY <1>1 DEF FilesKept, CorpusInv
<1>. QED
  BY <1>1, <1>3, <1>4, <1>5, <1>6, <1>7 DEF CorpusInv

\* The corpus has room for every question there is: the recorder does not look
\* at the limit the next boot has.
CorpusFits == IsFiniteSet(Questions) /\ Cardinality(Questions) <= MaxCassettes

LEMMA StillFits ==
    ASSUME CorpusFits, NEW S, S \subseteq Questions, NEW d \in Questions \ S
    PROVE  Cardinality(S) < MaxCassettes
<1>1. /\ IsFiniteSet(S) /\ Cardinality(S) \in Nat /\ Cardinality(Questions) \in Nat
      /\ Cardinality(S) < Cardinality(Questions)
  <2>1. S # Questions
    OBVIOUS
  <2>. QED
    BY <2>1, FS_Subset, FS_CardinalityType DEF CorpusFits
<1>. QED
  BY <1>1, CassetteConstants DEF CorpusFits

LEMMA LoadKeeps == ASSUME CorpusFits, CorpusInv, NEW r \in Runners, Load(r) PROVE CorpusInv'
<1>1. PICK d \in runner[r].left :
        LET fits == Cardinality(DOMAIN memory[r]) < MaxCassettes
            p == [files[d] EXCEPT !.mode = "REPLAY"]
        IN  IF fits /\ Loads(files[d])
            THEN /\ runner' = [runner EXCEPT ![r].left = @ \ {d}]
                 /\ memory' = [memory EXCEPT ![r] =
                      [e \in DOMAIN @ \cup {d} |-> IF e = d THEN p ELSE @[e]]]
            ELSE /\ runner' = [runner EXCEPT ![r] = [at |-> "refused", left |-> {}]]
                 /\ UNCHANGED memory
  BY DEF Load
<1>2. runner[r].at = "loading" /\ UNCHANGED <<files, durable, unsynced, writer, recordings, crashes>>
  BY DEF Load
<1>3. /\ DOMAIN runner = Runners /\ DOMAIN memory = Runners /\ FilesKept
      /\ \A o \in Runners : RunnerKept(o)
      /\ \A q \in Scribes : WriterKept(q) /\ (writer[q].at # "idle" => writer[q].in # r)
  BY <1>2 DEF CorpusInv, WriterKept
<1>4. /\ runner[r].left \subseteq DOMAIN files \ DOMAIN memory[r]
      /\ DOMAIN memory[r] \subseteq Questions /\ d \in Questions /\ d \in DOMAIN files
  BY <1>2, <1>3 DEF RunnerKept, FilesKept
<1>5. Cardinality(DOMAIN memory[r]) < MaxCassettes
  BY <1>4, StillFits
<1>6. FilesKept' /\ \A o \in Runners \ {r} :
            runner'[o] = runner[o] /\ memory'[o] = memory[o] => RunnerKept(o)'
  BY <1>2, <1>3 DEF FilesKept, RunnerKept
<1>7. CASE Loads(files[d])
  <2>. DEFINE p == [files[d] EXCEPT !.mode = "REPLAY"]
              m == [e \in DOMAIN memory[r] \cup {d} |-> IF e = d THEN p ELSE memory[r][e]]
  <2>1. Kept(files[d], d)
    BY <1>3, <1>4, <1>7 DEF FilesKept, Loads
  <2>2. Kept(p, d)
    BY <2>1, KeptAgain
  <2>3. runner' = [runner EXCEPT ![r].left = @ \ {d}] /\ memory' = [memory EXCEPT ![r] = m]
    BY <1>1, <1>5, <1>7
  <2>. HIDE DEF p
  <2>4. /\ DOMAIN m = DOMAIN memory[r] \cup {d} /\ m[d] = p
        /\ \A e \in DOMAIN memory[r] \ {d} : m[e] = memory[r][e]
    OBVIOUS
  <2>. HIDE DEF m
  <2>5. /\ memory'[r] = m /\ \A o \in Runners \ {r} : runner'[o] = runner[o] /\ memory'[o] = memory[o]
        /\ DOMAIN runner' = Runners /\ DOMAIN memory' = Runners
    BY <1>3, <2>3
  <2>6. runner'[r] = [at |-> "loading", left |-> runner[r].left \ {d}]
    <3>1. runner[r] = [at |-> "loading", left |-> runner[r].left]
      BY <1>2, <1>3 DEF RunnerKept
    <3>2. runner'[r] = [runner[r] EXCEPT !.left = runner[r].left \ {d}]
      BY <1>3, <2>3
    <3>3. runner[r] \in [at : {"loading"}, left : {runner[r].left}]
      BY <3>1
    <3>. QED
      BY <3>2, <3>3
  <2>7. RunnerKept(r)'
    BY <1>2, <1>3, <1>4, <1>7, <2>2, <2>4, <2>5, <2>6 DEF RunnerKept
  <2>8. ASSUME NEW q \in Scribes PROVE WriterKept(q)'
    BY <1>2, <1>3, <2>5 DEF WriterKept
  <2>. QED
    BY <1>2, <1>6, <2>5, <2>7, <2>8 DEF CorpusInv
<1>8. CASE ~Loads(files[d])
  <2>1. /\ runner' = [runner EXCEPT ![r] = [at |-> "refused", left |-> {}]]
        /\ memory' = memory
    BY <1>1, <1>8
  <2>2. /\ runner'[r] = [at |-> "refused", left |-> {}]
        /\ \A o \in Runners \ {r} : runner'[o] = runner[o] /\ memory'[o] = memory[o]
        /\ DOMAIN runner' = Runners
    BY <1>3, <2>1
  <2>3. d \in DOMAIN durable /\ durable[d] = Edited
    BY <1>3, <1>4, <1>8 DEF FilesKept, Kept
  <2>4. RunnerKept(r)'
    BY <1>2, <1>3, <2>1, <2>2, <2>3 DEF RunnerKept
  <2>5. ASSUME NEW q \in Scribes PROVE WriterKept(q)'
    BY <1>2, <1>3, <2>2 DEF WriterKept
  <2>. QED
    BY <1>2, <1>3, <1>6, <2>1, <2>2, <2>4, <2>5 DEF CorpusInv
<1>. QED
  BY <1>7, <1>8

LEMMA ServeKeeps == ASSUME CorpusInv, NEW r \in Runners, Serve(r) PROVE CorpusInv'
<1>1. /\ runner' = [runner EXCEPT ![r].at = "up"] /\ runner[r].at = "loading"
      /\ UNCHANGED <<files, durable, unsynced, memory, writer, recordings, crashes>>
  BY DEF Serve
<1>2. /\ DOMAIN runner = Runners /\ DOMAIN memory = Runners /\ FilesKept
      /\ \A o \in Runners : RunnerKept(o)
  BY DEF CorpusInv
<1>3. runner'[r] = [at |-> "up", left |-> runner[r].left]
  <2>1. runner[r] \in [at : {"loading"}, left : {runner[r].left}]
    BY <1>1, <1>2 DEF RunnerKept
  <2>2. runner'[r] = [runner[r] EXCEPT !.at = "up"]
    BY <1>1, <1>2
  <2>. QED
    BY <2>1, <2>2
<1>4. (\A o \in Runners \ {r} : runner'[o] = runner[o]) /\ DOMAIN runner' = Runners
  BY <1>1, <1>2
<1>5. \A o \in Runners : RunnerKept(o)'
  <2>1. ASSUME NEW o \in Runners \ {r} PROVE RunnerKept(o)'
    BY <1>1, <1>2, <1>4 DEF RunnerKept
  <2>2. RunnerKept(r)'
    BY <1>1, <1>2, <1>3 DEF RunnerKept
  <2>. QED
    BY <2>1, <2>2
<1>6. ASSUME NEW q \in Scribes PROVE WriterKept(q)'
  BY <1>1, <1>3, <1>4 DEF WriterKept, CorpusInv
<1>7. FilesKept'
  BY <1>1, <1>2 DEF FilesKept
<1>. QED
  BY <1>1, <1>2, <1>4, <1>5, <1>6, <1>7 DEF CorpusInv

LEMMA BeginKeeps == ASSUME CorpusInv, NEW q \in Scribes, BeginRecord(q) PROVE CorpusInv'
<1>1. PICK r \in Runners, dc \in Recordable, p \in Recordings :
        /\ runner[r].at = "up"
        /\ writer' = IF Acceptable(p, dc)
                     THEN [writer EXCEPT ![q] =
                            [at |-> "created", in |-> r, digest |-> ContextDigest(dc),
                             p |-> [Finalized(p, dc) EXCEPT !.mode = "REPLAY"]]]
                     ELSE writer
  BY DEF BeginRecord
<1>2. /\ recordings < MaxRecordings /\ recordings' = recordings + 1
      /\ UNCHANGED <<files, durable, unsynced, runner, memory, crashes>>
  BY DEF BeginRecord
<1>3. /\ DOMAIN writer = Scribes /\ FilesKept /\ recordings \in 0..MaxRecordings
      /\ \A o \in Runners : RunnerKept(o)
      /\ \A o \in Scribes : WriterKept(o)
  BY DEF CorpusInv
<1>4. FilesKept' /\ \A o \in Runners : RunnerKept(o)'
  BY <1>2, <1>3 DEF FilesKept, RunnerKept
<1>5. DOMAIN writer' = Scribes /\ \A o \in Scribes : WriterKept(o)'
  <2>1. CASE ~Acceptable(p, dc)
    BY <1>1, <1>2, <1>3, <2>1 DEF WriterKept
  <2>2. CASE Acceptable(p, dc)
    <3>. DEFINE c == [Finalized(p, dc) EXCEPT !.mode = "REPLAY"]
                d == ContextDigest(dc)
    <3>1. Kept(c, d) /\ d \in Questions
      BY <2>2, Recorded, CassetteConstants DEF Questions
    <3>2. writer' = [writer EXCEPT ![q] = [at |-> "created", in |-> r, digest |-> d, p |-> c]]
      BY <1>1, <2>2
    <3>. HIDE DEF c, d
    <3>3. /\ writer'[q] = [at |-> "created", in |-> r, digest |-> d, p |-> c]
          /\ \A o \in Scribes \ {q} : writer'[o] = writer[o]
          /\ DOMAIN writer' = Scribes
      BY <1>3, <3>2
    <3>4. WriterKept(q)'
      BY <1>1, <1>2, <3>1, <3>3 DEF WriterKept
    <3>5. ASSUME NEW o \in Scribes \ {q} PROVE WriterKept(o)'
      BY <1>2, <1>3, <3>3 DEF WriterKept
    <3>. QED
      BY <3>3, <3>4, <3>5
  <2>. QED
    BY <2>1, <2>2
<1>6. recordings' \in 0..MaxRecordings
  BY <1>2, <1>3, CassetteConstants
<1>. QED
  BY <1>2, <1>4, <1>5, <1>6 DEF CorpusInv

\* A recorder whose stage alone changes, or who gives up.
LEMMA StagesKeep ==
    ASSUME CorpusInv, NEW q \in Scribes, writer[q].at # "idle",
           UNCHANGED <<files, durable, unsynced, runner, memory, recordings, crashes>>,
           \/ \E at \in {"written", "synced", "closed"} : writer' = [writer EXCEPT ![q].at = at]
           \/ writer' = [writer EXCEPT ![q] = NoWriter]
    PROVE  CorpusInv'
<1>1. /\ DOMAIN writer = Scribes /\ FilesKept
      /\ \A o \in Runners : RunnerKept(o)
      /\ \A o \in Scribes : WriterKept(o)
  BY DEF CorpusInv
<1>2. FilesKept' /\ \A o \in Runners : RunnerKept(o)'
  BY <1>1 DEF FilesKept, RunnerKept
<1>3. /\ DOMAIN writer' = Scribes
      /\ \A o \in Scribes \ {q} : writer'[o] = writer[o]
  BY <1>1
<1>4. ASSUME NEW o \in Scribes \ {q} PROVE WriterKept(o)'
  BY <1>1, <1>3 DEF WriterKept
<1>5. WriterKept(q)'
  <2>1. CASE writer' = [writer EXCEPT ![q] = NoWriter]
    BY <1>1, <2>1 DEF WriterKept, NoWriter
  <2>2. ASSUME NEW at \in {"written", "synced", "closed"}, writer' = [writer EXCEPT ![q].at = at]
        PROVE  WriterKept(q)'
    <3>. DEFINE w == writer[q]
    <3>1. w \in [at : {w.at}, in : {w.in}, digest : {w.digest}, p : {w.p}]
      BY <1>1 DEF WriterKept
    <3>2. writer'[q] = [w EXCEPT !.at = at]
      BY <1>1, <2>2
    <3>. HIDE DEF w
    <3>3. writer'[q] = [at |-> at, in |-> w.in, digest |-> w.digest, p |-> w.p]
      BY <3>1, <3>2
    <3>. QED
      BY <1>1, <3>3 DEF WriterKept, w
  <2>. QED
    BY <2>1, <2>2
<1>. QED
  BY <1>1, <1>2, <1>3, <1>4, <1>5 DEF CorpusInv

LEMMA WriteKeeps == ASSUME CorpusInv, NEW q \in Scribes, WriteStep(q) PROVE CorpusInv'
<1>1. /\ writer[q].at \in {"created", "written", "synced"}
      /\ \/ writer' = [writer EXCEPT ![q].at = NextStage(writer[q].at)]
         \/ writer' = [writer EXCEPT ![q] = NoWriter]
      /\ UNCHANGED <<files, durable, unsynced, runner, memory, recordings, crashes>>
  BY DEF WriteStep
<1>2. NextStage(writer[q].at) \in {"written", "synced", "closed"} /\ writer[q].at # "idle"
  BY <1>1 DEF NextStage
<1>. QED
  BY <1>1, <1>2, StagesKeep

LEMMA PublishKeeps == ASSUME CorpusInv, NEW q \in Scribes, Publish(q) PROVE CorpusInv'
<1>. DEFINE d == writer[q].digest
            c == OnDisk(writer[q].p)
            w == writer[q]
<1>1. writer[q].at = "closed" /\ UNCHANGED <<durable, runner, memory, recordings, crashes>>
  BY DEF Publish, Publishable
<1>2. /\ DOMAIN writer = Scribes /\ FilesKept
      /\ \A o \in Runners : RunnerKept(o)
      /\ \A o \in Scribes : WriterKept(o)
  BY DEF CorpusInv
<1>3. CASE writer' = [writer EXCEPT ![q] = NoWriter] /\ UNCHANGED <<files, unsynced>>
  BY <1>1, <1>3, StagesKeep
<1>4. CASE /\ files' = [e \in DOMAIN files \cup {d} |-> IF e = d THEN c ELSE files[e]]
           /\ unsynced' = unsynced \ {d}
           /\ writer' = [writer EXCEPT ![q].at = "published"]
  <2>1. /\ w = [at |-> "closed", in |-> w.in, digest |-> d, p |-> w.p]
        /\ w.in \in Runners /\ runner[w.in].at = "up" /\ d \in Questions /\ Kept(w.p, d)
    BY <1>1, <1>2 DEF WriterKept
  <2>2. Kept(c, d) /\ Loads(c)
    BY <2>1, KeptAgain
  <2>. HIDE DEF d, c
  <2>3. /\ DOMAIN files' = DOMAIN files \cup {d} /\ files'[d] = c
        /\ \A e \in DOMAIN files \ {d} : files'[e] = files[e]
    BY <1>4
  <2>4. FilesKept'
    BY <1>1, <1>2, <1>4, <2>1, <2>2, <2>3 DEF FilesKept
  <2>5. ASSUME NEW e \in DOMAIN files, Loads(files[e]) PROVE e \in DOMAIN files' /\ Loads(files'[e])
    BY <2>2, <2>3, <2>5
  <2>6. ASSUME NEW o \in Runners PROVE RunnerKept(o)'
    BY <1>1, <1>2, <2>3, <2>5 DEF RunnerKept
  <2>7. w \in [at : {"closed"}, in : {w.in}, digest : {d}, p : {w.p}]
    BY <2>1
  <2>8. writer'[q] = [w EXCEPT !.at = "published"]
    BY <1>2, <1>4
  <2>. HIDE DEF w
  <2>9. writer'[q] = [at |-> "published", in |-> w.in, digest |-> d, p |-> w.p]
    BY <2>7, <2>8
  <2>10. /\ DOMAIN writer' = Scribes
         /\ \A o \in Scribes \ {q} : writer'[o] = writer[o]
    BY <1>2, <1>4
  <2>11. WriterKept(q)'
    BY <1>1, <2>1, <2>2, <2>3, <2>9 DEF WriterKept
  <2>12. ASSUME NEW o \in Scribes \ {q} PROVE WriterKept(o)'
    BY <1>1, <1>2, <2>5, <2>10 DEF WriterKept
  <2>. QED
    BY <1>1, <2>4, <2>6, <2>10, <2>11, <2>12 DEF CorpusInv
<1>. QED
  BY <1>1, <1>3, <1>4 DEF Publish

LEMMA AdmitKeeps == ASSUME CorpusInv, NEW q \in Scribes, Admit(q) PROVE CorpusInv'
<1>1. /\ DOMAIN writer = Scribes /\ DOMAIN memory = Runners /\ FilesKept
      /\ \A o \in Runners : RunnerKept(o)
      /\ \A o \in Scribes : WriterKept(o)
  BY DEF CorpusInv
<1>2. /\ writer[q].at = "published"
      /\ writer' = [writer EXCEPT ![q] = NoWriter]
      /\ UNCHANGED <<files, durable, unsynced, runner, recordings, crashes>>
  BY DEF Admit
<1>3. PICK r, d, c :
        /\ r \in Runners /\ d \in DOMAIN files
        /\ r = writer[q].in /\ d = writer[q].digest /\ c = writer[q].p
        /\ runner[r].at = "up" /\ Kept(c, d) /\ Loads(files[d])
  BY <1>1, <1>2 DEF WriterKept
<1>. DEFINE m == [e \in DOMAIN memory[r] \cup {d} |-> IF e = d THEN c ELSE memory[r][e]]
<1>4. memory' = [memory EXCEPT ![r] = m]
  BY <1>3 DEF Admit
<1>5. /\ DOMAIN m = DOMAIN memory[r] \cup {d} /\ m[d] = c
      /\ \A e \in DOMAIN memory[r] \ {d} : m[e] = memory[r][e]
  OBVIOUS
<1>. HIDE DEF m
<1>6. /\ memory'[r] = m /\ \A o \in Runners \ {r} : memory'[o] = memory[o]
      /\ DOMAIN memory' = Runners
  BY <1>1, <1>3, <1>4
<1>7. RunnerKept(r)'
  <2>1. ASSUME NEW e \in DOMAIN m PROVE Kept(m[e], e) /\ e \in DOMAIN files /\ Loads(files[e])
    <3>1. CASE e = d
      BY <1>3, <1>5, <3>1
    <3>2. CASE e # d
      <4>1. e \in DOMAIN memory[r] /\ m[e] = memory[r][e]
        BY <1>5, <3>2
      <4>2. RunnerKept(r)
        BY <1>1, <1>3
      <4>. QED
        BY <4>1, <4>2 DEF RunnerKept
    <3>. QED
      BY <3>1, <3>2
  <2>. QED
    BY <1>1, <1>2, <1>3, <1>6, <2>1 DEF RunnerKept
<1>8. ASSUME NEW o \in Runners \ {r} PROVE RunnerKept(o)'
  BY <1>1, <1>2, <1>3, <1>6 DEF RunnerKept
<1>9. ASSUME NEW o \in Scribes PROVE WriterKept(o)'
  BY <1>1, <1>2 DEF WriterKept, NoWriter
<1>10. FilesKept' /\ DOMAIN writer' = Scribes
  BY <1>1, <1>2 DEF FilesKept
<1>. QED
  BY <1>2, <1>6, <1>7, <1>8, <1>9, <1>10 DEF CorpusInv

LEMMA StopKeeps == ASSUME CorpusInv, NEW r \in Runners, StopRunner(r) PROVE CorpusInv'
<1>1. /\ crashes < MaxCrashes /\ crashes' = crashes + 1
      /\ runner' = [runner EXCEPT ![r] = Down] /\ memory' = [memory EXCEPT ![r] = Nothing]
      /\ writer' = [q \in Scribes |->
           IF writer[q].at # "idle" /\ writer[q].in = r THEN NoWriter ELSE writer[q]]
      /\ UNCHANGED <<files, durable, unsynced, recordings>>
  BY DEF StopRunner
<1>2. /\ DOMAIN runner = Runners /\ DOMAIN memory = Runners /\ FilesKept
      /\ \A o \in Runners : RunnerKept(o)
      /\ \A o \in Scribes : WriterKept(o)
  BY DEF CorpusInv
<1>3. /\ runner'[r] = Down /\ memory'[r] = Nothing
      /\ \A o \in Runners \ {r} : runner'[o] = runner[o] /\ memory'[o] = memory[o]
      /\ DOMAIN runner' = Runners /\ DOMAIN memory' = Runners
  BY <1>1, <1>2
<1>4. RunnerKept(r)'
  BY <1>3 DEF RunnerKept, Down, Nothing
<1>5. ASSUME NEW o \in Runners \ {r} PROVE RunnerKept(o)'
  BY <1>1, <1>2, <1>3 DEF RunnerKept
<1>6. ASSUME NEW q \in Scribes PROVE WriterKept(q)'
  <2>1. writer'[q] = NoWriter \/ (writer'[q] = writer[q] /\ (writer[q].at # "idle" => writer[q].in # r))
    BY <1>1
  <2>2. CASE writer'[q] = NoWriter
    BY <2>2 DEF WriterKept, NoWriter
  <2>3. CASE writer'[q] = writer[q] /\ (writer[q].at # "idle" => writer[q].in # r)
    BY <1>1, <1>2, <1>3, <2>3 DEF WriterKept
  <2>. QED
    BY <2>1, <2>2, <2>3
<1>7. FilesKept' /\ DOMAIN writer' = Scribes /\ crashes' \in 0..MaxCrashes
  BY <1>1, <1>2, CassetteConstants DEF FilesKept, CorpusInv
<1>. QED
  BY <1>1, <1>3, <1>4, <1>5, <1>6, <1>7 DEF CorpusInv

LEMMA PowerCutKeeps == ASSUME CorpusInv, PowerCut PROVE CorpusInv'
<1>1. PICK lost \in SUBSET (DOMAIN files \ DOMAIN durable) :
        \E f \in [DOMAIN files \ lost -> UNION {AfterPowerCut(d) : d \in DOMAIN files}] :
            /\ \A d \in DOMAIN f : f[d] \in AfterPowerCut(d)
            /\ files' = f /\ durable' = f
  BY DEF PowerCut
<1>2. /\ crashes < MaxCrashes /\ crashes' = crashes + 1 /\ unsynced' = {}
      /\ runner' = [r \in Runners |-> Down] /\ memory' = [r \in Runners |-> Nothing]
      /\ writer' = [q \in Scribes |-> NoWriter] /\ UNCHANGED recordings
  BY DEF PowerCut
<1>3. /\ FilesKept /\ crashes \in 0..MaxCrashes /\ recordings \in 0..MaxRecordings
  BY DEF CorpusInv
<1>4. /\ DOMAIN files' = DOMAIN files \ lost /\ durable' = files'
      /\ \A d \in DOMAIN files' : files'[d] \in AfterPowerCut(d)
  BY <1>1
<1>5. ASSUME NEW d \in DOMAIN files' PROVE Kept(files'[d], d) \/ files'[d] = Edited
  <2>1. d \in DOMAIN files /\ (files'[d] = files[d] \/ (d \in DOMAIN durable /\ files'[d] = durable[d]))
    BY <1>3, <1>4 DEF AfterPowerCut, FilesKept
  <2>. QED
    BY <1>3, <2>1 DEF FilesKept
<1>6. FilesKept'
  BY <1>2, <1>3, <1>4, <1>5 DEF FilesKept
<1>7. \A r \in Runners : RunnerKept(r)'
  BY <1>2 DEF RunnerKept, Down, Nothing
<1>8. \A q \in Scribes : WriterKept(q)'
  BY <1>2 DEF WriterKept, NoWriter
<1>9. crashes' \in 0..MaxCrashes
  BY <1>2, <1>3, CassetteConstants
<1>. QED
  BY <1>2, <1>3, <1>6, <1>7, <1>8, <1>9 DEF CorpusInv

LEMMA CorpusStep ==
    ASSUME CorpusFits, CorpusInv, CassettesNext \/ UNCHANGED cassetteVars
    PROVE  CorpusInv'
<1>1. ASSUME UNCHANGED cassetteVars PROVE CorpusInv'
  BY <1>1 DEF cassetteVars, CorpusInv, FilesKept, RunnerKept, WriterKept
<1>. QED
  BY <1>1, BootKeeps, LoadKeeps, ServeKeeps, BeginKeeps, WriteKeeps, PublishKeeps, AdmitKeeps,
     StopKeeps, PowerCutKeeps DEF CassettesNext

\* What a process replays it has from the disk, and no file of the program's own
\* keeps it from starting.
LEMMA CorpusPromises ==
    CorpusInv => /\ CassettesTypeOK /\ OnlyEditsRefuseABoot
                 /\ ReplayedIsOnDisk /\ RecordedRailsAreOffered
<1>. SUFFICES ASSUME CorpusInv
              PROVE  /\ CassettesTypeOK /\ OnlyEditsRefuseABoot
                     /\ ReplayedIsOnDisk /\ RecordedRailsAreOffered
  OBVIOUS
<1>1. FilesKept /\ \A r \in Runners : RunnerKept(r)
  BY DEF CorpusInv
<1>2. CassettesTypeOK
  BY <1>1 DEF CassettesTypeOK, FilesKept, RunnerKept, CorpusInv
<1>3. OnlyEditsRefuseABoot
  BY <1>1 DEF OnlyEditsRefuseABoot, RunnerKept
<1>4. ReplayedIsOnDisk
  BY <1>1 DEF ReplayedIsOnDisk, RunnerKept
<1>5. RecordedRailsAreOffered
  BY <1>1 DEF RecordedRailsAreOffered, RunnerKept, Kept
<1>. QED
  BY <1>2, <1>3, <1>4, <1>5

-----------------------------------------------------------------------------
(* The rules *)

LEMMA MorphRailOffered ==
    ASSUME NEW dc
    PROVE  \/ MorphRail(dc) = "none"
           \/ MorphRail(dc) \in RailsKnown \cap dc.rails /\ MorphRail(dc) # FailingRail(dc.method)
<1>1. CASE MorphRails(dc) = {}
  BY <1>1 DEF MorphRail
<1>2. CASE MorphRails(dc) # {}
  <2>1. MorphRails(dc) \subseteq Nat
    BY DEF MorphRails
  <2>2. PICK k \in MorphRails(dc) : \A y \in MorphRails(dc) : k <= y
    BY <1>2, <2>1, LeastNatural
  <2>3. Min(MorphRails(dc)) \in MorphRails(dc)
    BY <2>2 DEF Min
  <2>4. MorphRail(dc) = MorphPreference[Min(MorphRails(dc))]
    BY <1>2 DEF MorphRail
  <2>5. \A j \in 1..5 : MorphPreference[j] \in RailsKnown
    BY DEF MorphPreference, RailsKnown
  <2>. QED
    BY <2>3, <2>4, <2>5 DEF MorphRails
<1>. QED
  BY <1>1, <1>2

\* A proposal of the rules is one the program's own check accepts.
Ruled(p, dc) ==
    /\ IsProposal(p) /\ Acceptable(p, dc) /\ p.class \in ClassesKnown
    /\ p.incident = dc.incident /\ p.mode = "HEURISTIC" /\ p.degraded
    /\ p.action = "IN_SESSION_RAIL_MORPH" => dc.session /\ p.rail # FailingRail(dc.method)

LEMMA RetryRuled ==
    ASSUME NEW dc, NEW class \in ClassesKnown, NEW confidence \in 0..100, NEW delay \in 0..MaxDelay
    PROVE  Ruled(Retry(dc, class, confidence, delay), dc)
<1>. DEFINE p == Retry(dc, class, confidence, delay)
<1>1. /\ p.incident = dc.incident /\ p.class = class /\ p.confidence = confidence
      /\ p.action = "ASYNC_EXPONENTIAL_RETRY" /\ p.delay = delay /\ p.rail = "none"
      /\ p.mode = "HEURISTIC"
  BY DEF Retry, Answer
<1>2. p.degraded
  BY DEF Retry, Answer
<1>3. IsProposal(p)
  <2>. DEFINE yes == TRUE
  <2>1. p = Answer(dc.incident, class, confidence, "ASYNC_EXPONENTIAL_RETRY", delay, "none", "HEURISTIC", yes)
    BY Zenon DEF Retry
  <2>. HIDE DEF yes, p
  <2>. QED
    BY <2>1, AnswerIsProposal
<1>. HIDE DEF p
<1>5. Acceptable(p, dc)
  BY <1>1 DEF Acceptable, Valid, RailOffered, ActionsKnown, RailsKnown
<1>6. Ruled(p, dc)
  BY <1>1, <1>2, <1>3, <1>5 DEF Ruled
<1>. QED
  BY <1>6 DEF p

LEMMA MorphIs ==
    ASSUME NEW p, IsProposal(p), NEW dc
    PROVE  MorphIfPossible(p, dc) =
             IF dc.session /\ MorphRail(dc) # "none"
             THEN Answer(p.incident, p.class, p.confidence, "IN_SESSION_RAIL_MORPH", 0,
                         MorphRail(dc), p.mode, p.degraded)
             ELSE p
<1>. DEFINE r == MorphRail(dc)
            a == [p EXCEPT !.action = "IN_SESSION_RAIL_MORPH"]
            b == [a EXCEPT !.rail = r]
            c == [b EXCEPT !.delay = 0]
<1>1. CASE ~(dc.session /\ r # "none")
  BY <1>1 DEF MorphIfPossible
<1>2. CASE dc.session /\ r # "none"
  <2>1. MorphIfPossible(p, dc) = c
    BY <1>2, Zenon DEF MorphIfPossible
  <2>. HIDE DEF r
  <2>2. a = Answer(p.incident, p.class, p.confidence, "IN_SESSION_RAIL_MORPH", p.delay, p.rail, p.mode, p.degraded)
    BY Shape DEF Answer
  <2>. HIDE DEF a
  <2>3. /\ IsProposal(a) /\ a.incident = p.incident /\ a.class = p.class /\ a.confidence = p.confidence
        /\ a.action = "IN_SESSION_RAIL_MORPH" /\ a.mode = p.mode /\ a.degraded = p.degraded
    BY <2>2, Fields
  <2>4. b = Answer(a.incident, a.class, a.confidence, a.action, a.delay, r, a.mode, a.degraded)
    BY <2>3, Shape DEF Answer
  <2>. HIDE DEF b
  <2>5. /\ IsProposal(b) /\ b.incident = p.incident /\ b.class = p.class /\ b.confidence = p.confidence
        /\ b.action = "IN_SESSION_RAIL_MORPH" /\ b.mode = p.mode /\ b.degraded = p.degraded /\ b.rail = r
    BY <2>3, <2>4, Fields
  <2>6. c = Answer(b.incident, b.class, b.confidence, b.action, 0, b.rail, b.mode, b.degraded)
    BY <2>5, Shape DEF Answer
  <2>. HIDE DEF c
  <2>. QED
    BY <1>2, <2>1, <2>5, <2>6 DEF r
<1>. QED
  BY <1>1, <1>2

LEMMA MorphRuled ==
    ASSUME NEW dc, NEW p, Ruled(p, dc)
    PROVE  Ruled(MorphIfPossible(p, dc), dc)
<1>. DEFINE r == MorphRail(dc)
            c == MorphIfPossible(p, dc)
<1>1. IsProposal(p)
  BY DEF Ruled
<1>2. CASE ~(dc.session /\ r # "none")
  BY <1>2 DEF MorphIfPossible
<1>3. CASE dc.session /\ r # "none"
  <2>1. r \in RailsKnown \cap dc.rails /\ r # FailingRail(dc.method)
    BY <1>3, MorphRailOffered
  <2>2. c = Answer(p.incident, p.class, p.confidence, "IN_SESSION_RAIL_MORPH", 0, r, p.mode, p.degraded)
    BY <1>1, <1>3, MorphIs
  <2>. HIDE DEF c, r
  <2>3. /\ IsProposal(c) /\ c.incident = p.incident /\ c.class = p.class /\ c.confidence = p.confidence
        /\ c.action = "IN_SESSION_RAIL_MORPH" /\ c.mode = p.mode /\ c.degraded = p.degraded /\ c.rail = r
        /\ c.delay = 0
    BY <2>2, Fields
  <2>4. Ruled(c, dc)
    BY <1>3, <2>1, <2>3, ClassifierConstants DEF Ruled, Acceptable, Valid, RailOffered, ActionsKnown
  <2>. QED
    BY <2>4 DEF c
<1>. QED
  BY <1>2, <1>3

LEMMA AbstainRuled ==
    ASSUME NEW dc, NEW mode
    PROVE  LET p == AbstainProposal(dc.incident, mode)
           IN  /\ IsProposal(p) /\ Acceptable(p, dc) /\ p.class \in ClassesKnown
               /\ p.incident = dc.incident /\ p.mode = mode /\ p.degraded
               /\ p.action # "IN_SESSION_RAIL_MORPH"
<1>. DEFINE p == AbstainProposal(dc.incident, mode)
<1>1. /\ p.incident = dc.incident /\ p.class = "UNKNOWN" /\ p.confidence = 0
      /\ p.action = "PERMANENT_ABSTAIN" /\ p.delay = 0 /\ p.rail = "none" /\ p.mode = mode
  BY DEF AbstainProposal, Answer
<1>2. p.degraded
  BY DEF AbstainProposal, Answer
<1>3. IsProposal(p)
  BY Zenon, AnswerIsProposal DEF AbstainProposal
<1>. HIDE DEF p
<1>5. Acceptable(p, dc) /\ p.class \in ClassesKnown
  BY <1>1, ClassifierConstants DEF Acceptable, Valid, RailOffered, ActionsKnown, RailsKnown, ClassesKnown
<1>. QED
  BY <1>1, <1>2, <1>3, <1>5 DEF p

LEMMA ClassifyRuled == ASSUME NEW dc PROVE Ruled(Classify(dc), dc)
<1>1. Ruled(AbstainProposal(dc.incident, "HEURISTIC"), dc)
  BY AbstainRuled DEF Ruled
<1>0. {0, 30, 60, 120, 180, 600, 900, 6 * 3600} \subseteq 0..MaxDelay
  BY ClassifierConstants
<1>12. ASSUME NEW class \in ClassesKnown, NEW confidence \in 0..100, NEW delay \in 0..MaxDelay
       PROVE  Ruled(Retry(dc, class, confidence, delay), dc)
  BY RetryRuled
<1>2. Ruled(Retry(dc, "ISSUER_OUTAGE", 80, 900), dc)
  BY <1>0, <1>12 DEF ClassesKnown
<1>10. Ruled(Retry(dc, "NETWORK_TIMEOUT", 70, 30), dc)
  BY <1>0, <1>12 DEF ClassesKnown
<1>11. Ruled(Retry(dc, "INSTRUMENT_STALE", 66, 0), dc)
  BY <1>0, <1>12 DEF ClassesKnown
<1>3. ASSUME NEW class \in ClassesKnown, NEW confidence \in 0..100, NEW delay \in 0..MaxDelay
      PROVE  Ruled(MorphIfPossible(Retry(dc, class, confidence, delay), dc), dc)
  <2>1. Ruled(Retry(dc, class, confidence, delay), dc)
    BY RetryRuled
  <2>. QED
    BY <2>1, MorphRuled
<1>4. Ruled(MorphIfPossible(Retry(dc, "TRANSIENT_ISSUER_DEGRADATION", 65, 120), dc), dc)
  BY <1>0, <1>3 DEF ClassesKnown
<1>5. Ruled(MorphIfPossible(Retry(dc, "PSP_DEGRADATION", 68, 180), dc), dc)
  BY <1>0, <1>3 DEF ClassesKnown
<1>6. Ruled(MorphIfPossible(Retry(dc, "INSUFFICIENT_FUNDS", 66, 6 * 3600), dc), dc)
  BY <1>0, <1>3 DEF ClassesKnown
<1>7. Ruled(MorphIfPossible(Retry(dc, "CUSTOMER_ACTION_REQUIRED", 66, 600), dc), dc)
  BY <1>0, <1>3 DEF ClassesKnown
<1>8. Ruled(MorphIfPossible(Retry(dc, "TRANSIENT_ISSUER_DEGRADATION", 60, 60), dc), dc)
  BY <1>0, <1>3 DEF ClassesKnown
<1>9. Ruled([Retry(dc, "INSTRUMENT_STALE", 66, 0) EXCEPT !.action = "INSTRUMENT_REFRESH"], dc)
  <2>. DEFINE p == Retry(dc, "INSTRUMENT_STALE", 66, 0)
              q == [p EXCEPT !.action = "INSTRUMENT_REFRESH"]
  <2>1. Ruled(p, dc)
    BY <1>11
  <2>. HIDE DEF p
  <2>5. IsProposal(p)
    BY <2>1 DEF Ruled
  <2>2. q = Answer(p.incident, p.class, p.confidence, "INSTRUMENT_REFRESH", p.delay, p.rail, p.mode, p.degraded)
    BY <2>5, Shape DEF Answer
  <2>. HIDE DEF q
  <2>3. /\ IsProposal(q) /\ q.incident = p.incident /\ q.class = p.class /\ q.confidence = p.confidence
        /\ q.action = "INSTRUMENT_REFRESH" /\ q.delay = p.delay /\ q.mode = p.mode
        /\ q.degraded = p.degraded /\ q.rail = p.rail
    BY <2>2, Fields
  <2>4. Ruled(q, dc)
    BY <2>1, <2>3 DEF Ruled, Acceptable, Valid, RailOffered, ActionsKnown
  <2>. QED
    BY <2>4 DEF p, q
<1>. QED
  BY <1>1, <1>2, <1>4, <1>5, <1>6, <1>7, <1>8, <1>9, <1>10 DEF Classify

\* What the heuristic tier says is what its rules say.
LEMMA HeuristicIsClassify == ASSUME NEW dc PROVE Heuristic(dc) = Classify(dc)
<1>. DEFINE p == Classify(dc)
<1>1. Ruled(p, dc)
  BY ClassifyRuled
<1>2. Heuristic(dc) = Finalized(p, dc)
  BY <1>1 DEF Heuristic, Ruled
<1>. HIDE DEF p
<1>3. Finalized(p, dc) =
        Answer(dc.incident, p.class, p.confidence, p.action, p.delay, p.rail, p.mode, p.degraded)
  BY <1>1, FinalizedIs DEF Ruled
<1>. QED
  BY <1>1, <1>2, <1>3 DEF Ruled, IsProposal, p

\* A digest covers all the notices of every context.
FewNotices ==
    \A dc \in Contexts : IsFiniteSet(dc.notices) /\ Cardinality(dc.notices) <= MaxNotices

LEMMA RendersAll ==
    ASSUME FewNotices, NEW dc \in Contexts
    PROVE  Rendered(dc) = {[n EXCEPT !.age = BucketAge(n.age)] : n \in dc.notices}
<1>. DEFINE S == dc.notices
            Lower(m) == {o \in S : o.key < m.key}
<1>1. ASSUME NEW m \in S PROVE Cardinality(Lower(m)) < MaxNotices
  <2>1. IsFiniteSet(S) /\ Cardinality(S) <= MaxNotices /\ Cardinality(S) \in Nat
    BY FS_CardinalityType DEF FewNotices
  <2>2. m.key \in Int
    BY DiagnosisConstants
  <2>3. Lower(m) \subseteq S /\ m \notin Lower(m)
    BY <2>2
  <2>4. Cardinality(Lower(m)) \in Nat /\ Cardinality(Lower(m)) < Cardinality(S)
    <3>. HIDE DEF Lower
    <3>. QED
      BY <2>1, <2>3, FS_Subset, FS_CardinalityType
  <2>. QED
    BY <2>1, <2>4, ClassifierConstants
<1>2. S = {m \in S : Cardinality(Lower(m)) < MaxNotices}
  BY <1>1
<1>. QED
  BY <1>2, Zenon DEF Rendered

\* The evidence of notices is whether one matches, and whether a high one does.
LEMMA OutageIs ==
    ASSUME NEW dc
    PROVE  DeclaredOutage(dc) <=> \E n \in Matching(dc) : n.severity = "high"
<1>. DEFINE S == Matching(dc)
            Top(n) == \A o \in S : SeverityRank(n.severity) >= SeverityRank(o.severity)
<1>1. \A s : SeverityRank(s) \in 0..3 /\ (SeverityRank(s) = 3 <=> s = "high")
  BY DEF SeverityRank
<1>2. ASSUME S # {} PROVE \E n \in S : Top(n)
  <2>. DEFINE T == {3 - SeverityRank(n.severity) : n \in S}
  <2>1. T \subseteq Nat /\ T # {}
    BY <1>1, <1>2
  <2>2. PICK x \in T : \A y \in T : x <= y
    BY <2>1, LeastNatural
  <2>3. PICK n \in S : x = 3 - SeverityRank(n.severity)
    BY <2>2
  <2>4. ASSUME NEW o \in S PROVE SeverityRank(n.severity) >= SeverityRank(o.severity)
    <3>1. 3 - SeverityRank(n.severity) <= 3 - SeverityRank(o.severity)
      BY <2>2, <2>3
    <3>2. SeverityRank(n.severity) \in 0..3 /\ SeverityRank(o.severity) \in 0..3
      BY <1>1
    <3>. QED
      BY <3>1, <3>2
  <2>. QED
    BY <2>4
<1>3. ASSUME S # {} PROVE MatchingDowntime(dc) \in S /\ Top(MatchingDowntime(dc))
  BY <1>2, <1>3 DEF MatchingDowntime
<1>4. ASSUME NEW n \in S, n.severity = "high" PROVE MatchingDowntime(dc).severity = "high"
  <2>1. SeverityRank(MatchingDowntime(dc).severity) >= SeverityRank(n.severity)
    BY <1>3
  <2>2. SeverityRank(n.severity) = 3 /\ SeverityRank(MatchingDowntime(dc).severity) \in 0..3
    BY <1>1, <1>4
  <2>3. SeverityRank(MatchingDowntime(dc).severity) = 3
    BY <2>1, <2>2
  <2>. QED
    BY <1>1, <2>3
<1>. QED
  BY <1>3, <1>4 DEF DeclaredOutage

LEMMA SameEvidence ==
    ASSUME FewNotices, NEW a \in Contexts, NEW b \in Contexts, ContextDigest(a) = ContextDigest(b)
    PROVE  /\ a.code = b.code /\ a.method = b.method /\ a.session = b.session /\ a.rails = b.rails
           /\ WindowDegraded(a.window) = WindowDegraded(b.window)
           /\ \A n \in Matching(a) : \E m \in Matching(b) : m.severity = n.severity
<1>1. /\ a.code = b.code /\ a.method = b.method /\ a.session = b.session /\ a.rails = b.rails
      /\ WindowDegraded(a.window) = WindowDegraded(b.window)
      /\ Rendered(a) = Rendered(b)
  BY DEF ContextDigest
<1>2. ASSUME NEW n \in Matching(a) PROVE \E m \in Matching(b) : m.severity = n.severity
  <2>. DEFINE Old(x) == [x EXCEPT !.age = BucketAge(x.age)]
  <2>1. Old(n) \in Rendered(a)
    BY RendersAll, Zenon DEF Matching
  <2>2. PICK m \in b.notices : Old(n) = Old(m)
    BY <1>1, <2>1, RendersAll
  <2>3. ASSUME NEW dc \in Contexts, NEW x \in dc.notices
        PROVE  /\ Old(x).severity = x.severity /\ Old(x).status = x.status
               /\ Old(x).matches = x.matches
    <3>1. x = [key |-> x.key, severity |-> x.severity, status |-> x.status,
               matches |-> x.matches, age |-> x.age]
      BY DiagnosisConstants
    <3>2. x \in [key : {x.key}, severity : {x.severity}, status : {x.status},
                 matches : {x.matches}, age : {x.age}]
      BY <3>1
    <3>3. ASSUME NEW v PROVE [x EXCEPT !.age = v] =
             [key |-> x.key, severity |-> x.severity, status |-> x.status,
              matches |-> x.matches, age |-> v]
      BY <3>2
    <3>4. Old(x) = [key |-> x.key, severity |-> x.severity, status |-> x.status,
                    matches |-> x.matches, age |-> BucketAge(x.age)]
      BY <3>3
    <3>. QED
      BY <3>4
  <2>4. n \in a.notices /\ n.matches /\ n.status # "resolved"
    BY DEF Matching
  <2>5. m.matches = n.matches /\ m.status = n.status /\ m.severity = n.severity
    BY <2>2, <2>3, <2>4
  <2>. QED
    BY <2>4, <2>5 DEF Matching
<1>. QED
  BY <1>1, <1>2

Renamed(p, i) == [p EXCEPT !.incident = i]

LEMMA RenamedIs ==
    ASSUME NEW p, IsProposal(p), NEW i
    PROVE  Renamed(p, i) =
             Answer(i, p.class, p.confidence, p.action, p.delay, p.rail, p.mode, p.degraded)
  BY Shape DEF Renamed, Answer

LEMMA RetryRenamed ==
    ASSUME NEW a, NEW b, NEW class, NEW confidence, NEW delay
    PROVE  /\ IsProposal(Retry(a, class, confidence, delay))
           /\ Renamed(Retry(a, class, confidence, delay), b.incident) = Retry(b, class, confidence, delay)
<1>. DEFINE p == Retry(a, class, confidence, delay)
            q == Retry(b, class, confidence, delay)
<1>1. PICK g : g = TRUE
  OBVIOUS
<1>2. /\ p = Answer(a.incident, class, confidence, "ASYNC_EXPONENTIAL_RETRY", delay, "none", "HEURISTIC", g)
      /\ q = Answer(b.incident, class, confidence, "ASYNC_EXPONENTIAL_RETRY", delay, "none", "HEURISTIC", g)
  BY <1>1, Zenon DEF Retry
<1>. HIDE DEF p, q
<1>3. /\ IsProposal(p) /\ p.class = class /\ p.confidence = confidence
      /\ p.action = "ASYNC_EXPONENTIAL_RETRY" /\ p.delay = delay /\ p.rail = "none"
      /\ p.mode = "HEURISTIC" /\ p.degraded = g
  BY <1>2, Fields
<1>4. Renamed(p, b.incident) = q
  BY <1>2, <1>3, RenamedIs
<1>. QED
  BY <1>3, <1>4 DEF p, q

LEMMA MorphRenamed ==
    ASSUME NEW a, NEW b, a.session = b.session, a.rails = b.rails, a.method = b.method,
           NEW p, IsProposal(p), NEW i
    PROVE  /\ IsProposal(MorphIfPossible(p, a))
           /\ Renamed(MorphIfPossible(p, a), i) = MorphIfPossible(Renamed(p, i), b)
<1>. DEFINE r == MorphRail(a)
            q == Renamed(p, i)
<1>1. MorphRail(b) = r
  BY DEF MorphRail, MorphRails
<1>2. q = Answer(i, p.class, p.confidence, p.action, p.delay, p.rail, p.mode, p.degraded)
  BY RenamedIs
<1>. HIDE DEF q, r
<1>3. /\ IsProposal(q) /\ q.incident = i /\ q.class = p.class /\ q.confidence = p.confidence
      /\ q.mode = p.mode /\ q.degraded = p.degraded
  BY <1>2, Fields
<1>4. CASE ~(a.session /\ r # "none")
  <2>1. MorphIfPossible(p, a) = p /\ MorphIfPossible(q, b) = q
    BY <1>1, <1>4 DEF MorphIfPossible, r
  <2>. QED
    BY <2>1 DEF q
<1>5. CASE a.session /\ r # "none"
  <2>. DEFINE m == MorphIfPossible(p, a)
  <2>1. m = Answer(p.incident, p.class, p.confidence, "IN_SESSION_RAIL_MORPH", 0, r, p.mode, p.degraded)
    BY <1>5, MorphIs DEF r
  <2>2. MorphIfPossible(q, b) =
          Answer(i, p.class, p.confidence, "IN_SESSION_RAIL_MORPH", 0, r, p.mode, p.degraded)
    <3>1. b.session /\ MorphRail(b) # "none"
      BY <1>1, <1>5
    <3>2. MorphIfPossible(q, b) =
            Answer(q.incident, q.class, q.confidence, "IN_SESSION_RAIL_MORPH", 0, MorphRail(b), q.mode, q.degraded)
      BY <1>3, <3>1, MorphIs
    <3>. QED
      BY <1>1, <1>3, <3>2
  <2>. HIDE DEF m
  <2>3. /\ IsProposal(m) /\ m.class = p.class /\ m.confidence = p.confidence
        /\ m.action = "IN_SESSION_RAIL_MORPH" /\ m.delay = 0 /\ m.rail = r
        /\ m.mode = p.mode /\ m.degraded = p.degraded
    BY <2>1, Fields
  <2>4. Renamed(m, i) = Answer(i, p.class, p.confidence, "IN_SESSION_RAIL_MORPH", 0, r, p.mode, p.degraded)
    BY <2>3, RenamedIs
  <2>. QED
    BY <2>2, <2>3, <2>4 DEF m, q
<1>. QED
  BY <1>4, <1>5

\* Contexts of one digest are proposed the same.
LEMMA OneRule ==
    ASSUME FewNotices, NEW a \in Contexts, NEW b \in Contexts, ContextDigest(a) = ContextDigest(b)
    PROVE  Renamed(Classify(a), b.incident) = Classify(b)
<1>1. /\ a.code = b.code /\ a.method = b.method /\ a.session = b.session /\ a.rails = b.rails
      /\ (WindowDegraded(a.window) <=> WindowDegraded(b.window))
  BY SameEvidence
<1>2. DeclaredOutage(a) <=> DeclaredOutage(b)
  <2>1. /\ \A n \in Matching(a) : \E m \in Matching(b) : m.severity = n.severity
        /\ \A n \in Matching(b) : \E m \in Matching(a) : m.severity = n.severity
    BY SameEvidence
  <2>. QED
    BY <2>1, OutageIs
<1>3. Matching(a) # {} <=> Matching(b) # {}
  BY SameEvidence
<1>4. ASSUME NEW class, NEW confidence, NEW delay
      PROVE  Renamed(Retry(a, class, confidence, delay), b.incident) = Retry(b, class, confidence, delay)
  BY RetryRenamed
<1>5. ASSUME NEW class, NEW confidence, NEW delay
      PROVE  Renamed(MorphIfPossible(Retry(a, class, confidence, delay), a), b.incident) =
                MorphIfPossible(Retry(b, class, confidence, delay), b)
  BY <1>1, RetryRenamed, MorphRenamed
<1>6. Renamed(AbstainProposal(a.incident, "HEURISTIC"), b.incident) = AbstainProposal(b.incident, "HEURISTIC")
  <2>. DEFINE p == AbstainProposal(a.incident, "HEURISTIC")
  <2>1. PICK g : g = TRUE
    OBVIOUS
  <2>2. \A i : AbstainProposal(i, "HEURISTIC") =
                  Answer(i, "UNKNOWN", 0, "PERMANENT_ABSTAIN", 0, "none", "HEURISTIC", g)
    BY <2>1, Zenon DEF AbstainProposal
  <2>. HIDE DEF p
  <2>3. /\ IsProposal(p) /\ p.class = "UNKNOWN" /\ p.confidence = 0 /\ p.action = "PERMANENT_ABSTAIN"
        /\ p.delay = 0 /\ p.rail = "none" /\ p.mode = "HEURISTIC" /\ p.degraded = g
    BY <2>2, Fields DEF p
  <2>4. Renamed(p, b.incident) =
          Answer(b.incident, "UNKNOWN", 0, "PERMANENT_ABSTAIN", 0, "none", "HEURISTIC", g)
    BY <2>3, RenamedIs
  <2>. QED
    BY <2>2, <2>4 DEF p
<1>7. Renamed([Retry(a, "INSTRUMENT_STALE", 66, 0) EXCEPT !.action = "INSTRUMENT_REFRESH"], b.incident)
        = [Retry(b, "INSTRUMENT_STALE", 66, 0) EXCEPT !.action = "INSTRUMENT_REFRESH"]
  <2>. DEFINE p == Retry(a, "INSTRUMENT_STALE", 66, 0)
              q == Retry(b, "INSTRUMENT_STALE", 66, 0)
              pp == [p EXCEPT !.action = "INSTRUMENT_REFRESH"]
              qq == [q EXCEPT !.action = "INSTRUMENT_REFRESH"]
  <2>1. IsProposal(p) /\ IsProposal(q) /\ Renamed(p, b.incident) = q
    BY RetryRenamed
  <2>. HIDE DEF p, q
  <2>2. q = Answer(b.incident, p.class, p.confidence, p.action, p.delay, p.rail, p.mode, p.degraded)
    BY <2>1, RenamedIs
  <2>3. /\ q.incident = b.incident /\ q.class = p.class /\ q.confidence = p.confidence
        /\ q.delay = p.delay /\ q.rail = p.rail /\ q.mode = p.mode /\ q.degraded = p.degraded
    BY <2>2, Fields
  <2>4. /\ pp = Answer(p.incident, p.class, p.confidence, "INSTRUMENT_REFRESH", p.delay, p.rail, p.mode, p.degraded)
        /\ qq = Answer(q.incident, q.class, q.confidence, "INSTRUMENT_REFRESH", q.delay, q.rail, q.mode, q.degraded)
    BY <2>1, Shape DEF Answer
  <2>. HIDE DEF pp, qq
  <2>5. /\ IsProposal(pp) /\ pp.class = p.class /\ pp.confidence = p.confidence
        /\ pp.action = "INSTRUMENT_REFRESH" /\ pp.delay = p.delay /\ pp.rail = p.rail
        /\ pp.mode = p.mode /\ pp.degraded = p.degraded
    BY <2>4, Fields
  <2>6. Renamed(pp, b.incident) = qq
    BY <2>3, <2>4, <2>5, RenamedIs
  <2>. QED
    BY <2>6 DEF p, q, pp, qq
<1>8. CASE DeclaredOutage(a)
  BY <1>2, <1>4, <1>8 DEF Classify
<1>9. CASE ~DeclaredOutage(a) /\ (WindowDegraded(a.window) \/ Matching(a) # {})
  BY <1>1, <1>2, <1>3, <1>5, <1>9 DEF Classify
<1>10. CASE ~DeclaredOutage(a) /\ ~(WindowDegraded(a.window) \/ Matching(a) # {})
  BY <1>1, <1>2, <1>3, <1>4, <1>5, <1>6, <1>7, <1>10 DEF Classify
<1>. QED
  BY <1>8, <1>9, <1>10

-----------------------------------------------------------------------------
(* The walk down the tiers *)

Told == WalkInv /\ VerdictInv

LEMMA WalkRedone ==
    ASSUME walk \in Walks, NEW v, NEW w
    PROVE  /\ [walk EXCEPT !.at = v] = [at |-> v, tier |-> walk.tier, sent |-> walk.sent, unread |-> walk.unread]
           /\ [[walk EXCEPT !.at = v] EXCEPT !.tier = w] =
                 [at |-> v, tier |-> w, sent |-> walk.sent, unread |-> walk.unread]
           /\ [[walk EXCEPT !.at = v] EXCEPT !.sent = w] =
                 [at |-> v, tier |-> walk.tier, sent |-> w, unread |-> walk.unread]
           /\ [[walk EXCEPT !.sent = v] EXCEPT !.unread = w] =
                 [at |-> walk.at, tier |-> walk.tier, sent |-> v, unread |-> w]
<1>. DEFINE a == [walk EXCEPT !.at = v]
            b == [walk EXCEPT !.sent = v]
<1>1. /\ a = [at |-> v, tier |-> walk.tier, sent |-> walk.sent, unread |-> walk.unread]
      /\ b = [at |-> walk.at, tier |-> walk.tier, sent |-> v, unread |-> walk.unread]
  BY DEF Walks
<1>. HIDE DEF a, b
<1>2. /\ a \in [at : {v}, tier : {walk.tier}, sent : {walk.sent}, unread : {walk.unread}]
      /\ b \in [at : {walk.at}, tier : {walk.tier}, sent : {v}, unread : {walk.unread}]
  BY <1>1
<1>3. [a EXCEPT !.tier = w] = [at |-> v, tier |-> w, sent |-> walk.sent, unread |-> walk.unread]
  BY <1>2
<1>4. [a EXCEPT !.sent = w] = [at |-> v, tier |-> walk.tier, sent |-> w, unread |-> walk.unread]
  BY <1>2
<1>5. [b EXCEPT !.unread = w] = [at |-> walk.at, tier |-> walk.tier, sent |-> v, unread |-> w]
  BY <1>2
<1>. QED
  BY <1>1, <1>3, <1>4, <1>5 DEF a, b

LEMMA StackTypes ==
    ASSUME WalkInv
    PROVE  /\ Len(stack) \in Nat /\ \A j, k \in 1..Len(stack) : stack[j] = "live" /\ stack[k] = "live" => j = k
           /\ walk.tier \in Nat /\ walk.sent \in Nat /\ walk.unread \in Nat
  BY DiagnosisConstants DEF WalkInv, Walks

\* A tier that declines leaves the rest of the stack to the next one.
LEMMA DeclinedKeeps ==
    ASSUME Told, walk.at \in {"next", "asking"}, walk.tier \in 1..Len(stack), Declined, Quiet
    PROVE  Told'
<1>. USE DEF Told
<1>1. walk' = [at |-> "next", tier |-> walk.tier + 1, sent |-> walk.sent, unread |-> walk.unread]
  BY WalkRedone, Zenon DEF Declined, WalkInv
<1>2. UNCHANGED <<stack, asker, asked, cancelled, verdict>>
  BY DEF Declined, Quiet
<1>3. LiveAhead' => walk.at = "next" /\ LiveAhead
  <2>1. SUFFICES ASSUME NEW k \in 1..Len(stack), k >= walk.tier + 1, stack[k] = "live"
                 PROVE  walk.at = "next" /\ LiveAhead
    BY <1>1, <1>2 DEF LiveAhead
  <2>2. k >= walk.tier /\ k # walk.tier
    BY <2>1, StackTypes
  <2>3. walk.at # "asking"
    BY <2>1, <2>2, StackTypes DEF WalkInv
  <2>. QED
    BY <2>1, <2>2, <2>3 DEF LiveAhead
<1>4. WalkInv'
  BY <1>1, <1>2, <1>3, StackTypes DEF WalkInv, Walks, TrafficIsBounded
<1>5. VerdictInv'
  BY <1>1, <1>2 DEF VerdictInv, VerdictIsAccountable
<1>. QED
  BY <1>4, <1>5

\* What may be said of an answer and the tier it came from.
Accountable(by, p) ==
    /\ by \in {"breaker", "nobody", "live", "replay", "heuristic", "own"}
    /\ p.incident = asked.incident /\ p.mode \in Modes
    /\ by # "own" =>
         /\ Acceptable(p, asked) /\ p.class \in ClassesKnown
         /\ (p.mode = "LIVE") <=> (by = "live")
         /\ (p.mode = "REPLAY") <=> (by = "replay")
         /\ by \in {"heuristic", "nobody"} => p.degraded
    /\ by = "heuristic" => p = Heuristic(asked)
    /\ by = "breaker" => walk.sent = 0

LEMMA ConcludeKeeps ==
    ASSUME Told, NEW by, NEW p, Accountable(by, p), Conclude(by, p), Quiet
    PROVE  Told'
<1>. USE DEF Told
<1>1. walk' = [at |-> "done", tier |-> walk.tier, sent |-> walk.sent, unread |-> walk.unread]
  BY WalkRedone, Zenon DEF Conclude, WalkInv
<1>2. /\ UNCHANGED <<stack, asker, asked, cancelled>>
      /\ verdict'.by = by /\ verdict'.p = p
  BY DEF Conclude, Quiet
<1>3. WalkInv'
  BY <1>1, <1>2, StackTypes DEF WalkInv, Walks, TrafficIsBounded, Accountable
<1>4. VerdictInv'
  BY <1>1, <1>2 DEF VerdictInv, VerdictIsAccountable, Accountable
<1>. QED
  BY <1>3, <1>4

\* What the program's own tiers end with.
LEMMA FinalizeKeeps ==
    ASSUME Told, walk.at \in {"next", "asking"}, walk.tier \in 1..Len(stack),
           NEW by, NEW p, IsProposal(p),
           \/ by = "live" /\ p.mode = "LIVE"
           \/ by = "replay" /\ p.mode = "REPLAY",
           Finalize(by, p), Quiet
    PROVE  Told'
<1>1. CASE ~Acceptable(p, asked)
  BY <1>1, DeclinedKeeps DEF Finalize
<1>2. CASE Acceptable(p, asked)
  <2>. DEFINE f == Finalized(p, asked)
  <2>1. Acceptable(f, asked) /\ f.class \in ClassesKnown
    BY <1>2, FinalizedIs
  <2>2. f.incident = asked.incident /\ f.mode = p.mode
    BY FinalizedIs
  <2>3. Conclude(by, f)
    BY <1>2 DEF Finalize
  <2>. HIDE DEF f
  <2>4. Accountable(by, f)
    BY <2>1, <2>2 DEF Accountable, Modes
  <2>. QED
    BY <2>3, <2>4, ConcludeKeeps
<1>. QED
  BY <1>1, <1>2

LEMMA BreakerAnswers == ASSUME Told, PassBreaker PROVE Told'
<1>1. CASE /\ walk' = [walk EXCEPT !.at = "next", !.tier = 1]
           /\ UNCHANGED verdict
  <2>1. walk' = [at |-> "next", tier |-> 1, sent |-> walk.sent, unread |-> walk.unread]
    BY <1>1, WalkRedone, Zenon DEF Told, WalkInv
  <2>2. /\ UNCHANGED <<stack, asker, asked, cancelled, verdict>>
        /\ walk.sent = 0 /\ walk.unread = 0
    BY <1>1 DEF PassBreaker, Quiet, Told, WalkInv, Idle
  <2>3. WalkInv'
    BY <2>1, <2>2, StackTypes DEF Told, WalkInv, Walks, TrafficIsBounded
  <2>4. VerdictInv'
    BY <2>1, <2>2 DEF Told, VerdictInv, VerdictIsAccountable
  <2>. QED
    BY <2>3, <2>4 DEF Told
<1>2. CASE Conclude("breaker", Answer(asked.incident, "ISSUER_OUTAGE", 90,
                       "ASYNC_EXPONENTIAL_RETRY", 0, "none", "SKIPPED", FALSE))
  <2>. DEFINE p == Answer(asked.incident, "ISSUER_OUTAGE", 90, "ASYNC_EXPONENTIAL_RETRY", 0,
                          "none", "SKIPPED", FALSE)
  <2>1. /\ p.incident = asked.incident /\ p.class = "ISSUER_OUTAGE" /\ p.confidence = 90
        /\ p.action = "ASYNC_EXPONENTIAL_RETRY" /\ p.delay = 0 /\ p.rail = "none" /\ p.mode = "SKIPPED"
    BY DEF Answer
  <2>2. Conclude("breaker", p) /\ Quiet
    BY <1>2 DEF PassBreaker
  <2>3. walk.sent = 0
    BY DEF PassBreaker, Told, WalkInv, Idle
  <2>. HIDE DEF p
  <2>4. Accountable("breaker", p)
    BY <2>1, <2>3, ClassifierConstants
    DEF Accountable, Acceptable, Valid, RailOffered, ActionsKnown, RailsKnown, ClassesKnown, Modes
  <2>. QED
    BY <2>2, <2>4, ConcludeKeeps
<1>. QED
  BY <1>1, <1>2 DEF PassBreaker

LEMMA NobodyAnswers == ASSUME Told, Exhausted PROVE Told'
<1>. DEFINE p == AbstainProposal(asked.incident, "HEURISTIC")
<1>1. /\ Acceptable(p, asked) /\ p.class \in ClassesKnown /\ p.incident = asked.incident
      /\ p.mode = "HEURISTIC" /\ p.degraded
  BY AbstainRuled
<1>2. Conclude("nobody", p) /\ Quiet
  BY DEF Exhausted
<1>. HIDE DEF p
<1>3. Accountable("nobody", p)
  BY <1>1 DEF Accountable, Modes
<1>. QED
  BY <1>2, <1>3, ConcludeKeeps

LEMMA TierIs ==
    ASSUME WalkInv, NEW name, Tier(name)
    PROVE  walk.at = "next" /\ walk.tier \in 1..Len(stack) /\ stack[walk.tier] = name
<1>1. walk.at = "next" => walk.tier >= 1
  BY DEF WalkInv
<1>. QED
  BY <1>1, StackTypes DEF Tier, WalkInv

LEMMA LiveAsks == ASSUME Told, AskLive PROVE Told'
<1>. USE DEF Told
<1>1. walk' = [at |-> "asking", tier |-> walk.tier, sent |-> walk.sent + 1, unread |-> walk.unread]
  BY WalkRedone, Zenon DEF AskLive, WalkInv
<1>2. UNCHANGED <<stack, asker, asked, cancelled, verdict>>
  BY DEF AskLive, Quiet
<1>3. walk.at = "next" /\ walk.tier \in 1..Len(stack) /\ stack[walk.tier] = "live"
  BY TierIs DEF AskLive
<1>4. walk.sent = 0 /\ walk.unread = 0
  BY <1>3, StackTypes DEF WalkInv, LiveAhead
<1>5. WalkInv'
  BY <1>1, <1>2, <1>3, <1>4 DEF WalkInv, Walks, TrafficIsBounded
<1>6. VerdictInv'
  BY <1>1, <1>2 DEF VerdictInv, VerdictIsAccountable
<1>. QED
  BY <1>5, <1>6

LEMMA LiveCannotRead == ASSUME Told, Unparsed PROVE Told'
<1>. USE DEF Told
<1>1. walk.at = "asking" /\ walk.tier \in 1..Len(stack) /\ Quiet
  BY DEF Unparsed, WalkInv
<1>2. CASE ~Repairable
  BY <1>1, <1>2, DeclinedKeeps DEF Unparsed
<1>3. CASE Repairable
  <2>1. walk' = [at |-> walk.at, tier |-> walk.tier, sent |-> walk.sent + 1, unread |-> walk.unread + 1]
    BY <1>3, WalkRedone, Zenon DEF Unparsed, WalkInv
  <2>2. UNCHANGED <<stack, asker, asked, cancelled, verdict>>
    BY <1>1, <1>3 DEF Unparsed, Quiet
  <2>3. walk.sent = 1 /\ walk.unread = 0
    BY <1>1, <1>3, StackTypes DEF Repairable, WalkInv
  <2>4. WalkInv'
    BY <1>1, <2>1, <2>2, <2>3 DEF WalkInv, Walks, TrafficIsBounded
  <2>5. VerdictInv'
    BY <1>1, <2>1, <2>2 DEF VerdictInv, VerdictIsAccountable
  <2>. QED
    BY <2>4, <2>5
<1>. QED
  BY <1>2, <1>3

LEMMA LiveSays == ASSUME Told, LiveAnswers PROVE Told'
<1>1. PICK p \in Contents : Finalize("live", LiveStamped(p))
  BY DEF LiveAnswers
<1>2. walk.at = "asking" /\ walk.tier \in 1..Len(stack) /\ Quiet
  BY DEF LiveAnswers, Told, WalkInv
<1>3. IsProposal(p)
  BY DiagnosisConstants
<1>. DEFINE q == LiveStamped(p)
<1>4. IsProposal(q) /\ q.mode = "LIVE"
  <2>. DEFINE a == [p EXCEPT !.mode = "LIVE"]
  <2>1. PICK g : g = FALSE
    OBVIOUS
  <2>2. q = [a EXCEPT !.degraded = g]
    BY <2>1, Zenon DEF LiveStamped
  <2>3. a = Answer(p.incident, p.class, p.confidence, p.action, p.delay, p.rail, "LIVE", p.degraded)
    BY <1>3, Shape DEF Answer
  <2>. HIDE DEF a, q
  <2>4. IsProposal(a) /\ a.mode = "LIVE"
    BY <2>3, Fields
  <2>5. q = Answer(a.incident, a.class, a.confidence, a.action, a.delay, a.rail, a.mode, g)
    BY <2>2, <2>4, Shape DEF Answer
  <2>. QED
    BY <2>4, <2>5, Fields
<1>. HIDE DEF q
<1>. QED
  BY <1>1, <1>2, <1>4, FinalizeKeeps DEF q

LEMMA ReplaySays == ASSUME CorpusInv, Told, AskReplay PROVE Told'
<1>. DEFINE d == ContextDigest(asked)
            c == memory[asker][d]
            p == [c EXCEPT !.mode = "REPLAY"]
<1>1. walk.at = "next" /\ walk.tier \in 1..Len(stack) /\ Quiet
  BY TierIs DEF AskReplay, Told
<1>2. CASE d \notin DOMAIN memory[asker]
  BY <1>1, <1>2, DeclinedKeeps DEF AskReplay
<1>3. CASE d \in DOMAIN memory[asker]
  <2>1. Finalize("replay", p)
    BY <1>3 DEF AskReplay
  <2>2. Kept(c, d)
    <3>. HIDE DEF d
    <3>. QED
      BY <1>3 DEF CorpusInv, RunnerKept, Told, WalkInv
  <2>. HIDE DEF d, c
  <2>3. Kept(p, d)
    BY <2>2, KeptAgain
  <2>4. IsProposal(p) /\ p.mode = "REPLAY"
    BY <2>3 DEF Kept
  <2>. HIDE DEF p
  <2>. QED
    BY <1>1, <2>1, <2>4, FinalizeKeeps
<1>. QED
  BY <1>2, <1>3

LEMMA RulesSay == ASSUME Told, AskHeuristic PROVE Told'
<1>. DEFINE p == Heuristic(asked)
<1>1. Conclude("heuristic", p) /\ Quiet
  BY DEF AskHeuristic
<1>2. Ruled(p, asked)
  BY ClassifyRuled, HeuristicIsClassify
<1>. HIDE DEF p
<1>3. Accountable("heuristic", p)
  BY <1>2 DEF Accountable, Ruled, Modes, p
<1>. QED
  BY <1>1, <1>3, ConcludeKeeps

LEMMA OwnSays == ASSUME Told, AskOwn PROVE Told'
<1>1. walk.at = "next" /\ walk.tier \in 1..Len(stack) /\ Quiet
  BY TierIs DEF AskOwn, Told
<1>2. CASE Declined
  BY <1>1, <1>2, DeclinedKeeps
<1>3. ASSUME NEW p \in Claims, p.mode \in Modes, Conclude("own", [p EXCEPT !.incident = asked.incident])
      PROVE  Told'
  <2>. DEFINE q == [p EXCEPT !.incident = asked.incident]
  <2>1. IsProposal(p)
    BY DiagnosisConstants
  <2>2. q = Answer(asked.incident, p.class, p.confidence, p.action, p.delay, p.rail, p.mode, p.degraded)
    BY <2>1, Shape DEF Answer
  <2>3. Conclude("own", q)
    BY <1>3
  <2>. HIDE DEF q
  <2>4. q.incident = asked.incident /\ q.mode = p.mode
    BY <2>2, Fields
  <2>5. Accountable("own", q)
    BY <1>3, <2>4 DEF Accountable
  <2>. QED
    BY <1>1, <2>3, <2>5, ConcludeKeeps
<1>. QED
  BY <1>1, <1>2, <1>3 DEF AskOwn

LEMMA OthersMove == ASSUME Told, CorpusMoves PROVE Told'
<1>. USE DEF Told
<1>1. UNCHANGED <<stack, asker, asked, verdict>>
  BY DEF CorpusMoves
<1>2. CASE UNCHANGED <<walk, cancelled>>
  BY <1>1, <1>2 DEF WalkInv, VerdictInv, LiveAhead, TrafficIsBounded, VerdictIsAccountable
<1>3. CASE walk' = Idle /\ cancelled' = FALSE
  <2>1. /\ walk' \in Walks /\ walk'.at = "idle" /\ walk'.tier = 0 /\ walk'.sent = 0 /\ walk'.unread = 0
    BY <1>3 DEF Idle, Walks
  <2>4. walk' = Idle /\ cancelled' \in BOOLEAN
    BY <1>3
  <2>2. WalkInv'
    BY <1>1, <2>1, <2>4, StackTypes DEF WalkInv, TrafficIsBounded
  <2>3. VerdictInv'
    BY <1>1, <2>1 DEF VerdictInv, VerdictIsAccountable
  <2>. QED
    BY <2>2, <2>3
<1>. QED
  BY <1>2, <1>3 DEF CorpusMoves

LEMMA DiagnosisStarts == DiagnosisInit => DiagnosisInv
<1>. SUFFICES ASSUME DiagnosisInit PROVE DiagnosisInv
  OBVIOUS
<1>1. CorpusInv
  BY CorpusStarts DEF DiagnosisInit, Unasked
<1>2. /\ walk \in Walks /\ walk.at = "idle" /\ walk.tier = 0 /\ walk.sent = 0 /\ walk.unread = 0
      /\ walk = Idle /\ cancelled \in BOOLEAN
  BY DEF DiagnosisInit, Unasked, Idle, Walks
<1>3. WalkInv
  BY <1>2, DiagnosisConstants DEF WalkInv, TrafficIsBounded, DiagnosisInit
<1>4. verdict.by = "none"
  BY DEF DiagnosisInit, Unasked
<1>5. VerdictInv
  BY <1>2, <1>4 DEF VerdictInv, VerdictIsAccountable
<1>. QED
  BY <1>1, <1>3, <1>5 DEF DiagnosisInv

LEMMA DiagnosisStep ==
    ASSUME CorpusFits, DiagnosisInv, [DiagnosisNext]_<<cassetteVars, diagnosisVars>>
    PROVE  DiagnosisInv'
<1>. USE DEF Told, DiagnosisInv
<1>1. ASSUME UNCHANGED cassetteVars, Told' PROVE DiagnosisInv'
  BY <1>1, CorpusStep
<1>2. ASSUME UNCHANGED <<cassetteVars, diagnosisVars>> PROVE DiagnosisInv'
  <2>1. Told'
    BY <1>2 DEF diagnosisVars, WalkInv, VerdictInv, LiveAhead, TrafficIsBounded, VerdictIsAccountable
  <2>. QED
    BY <1>1, <1>2, <2>1
<1>3. CASE PassBreaker
  BY <1>1, <1>3, BreakerAnswers DEF PassBreaker
<1>4. CASE Exhausted
  BY <1>1, <1>4, NobodyAnswers DEF Exhausted
<1>5. CASE AskLive
  BY <1>1, <1>5, LiveAsks DEF AskLive
<1>6. CASE LiveFails
  <2>1. walk.at = "asking" /\ walk.tier \in 1..Len(stack) /\ Quiet /\ Declined /\ UNCHANGED cassetteVars
    BY <1>6 DEF LiveFails, WalkInv
  <2>. QED
    BY <1>1, <2>1, DeclinedKeeps
<1>7. CASE Unparsed
  BY <1>1, <1>7, LiveCannotRead DEF Unparsed
<1>8. CASE LiveAnswers
  BY <1>1, <1>8, LiveSays DEF LiveAnswers
<1>9. CASE AskReplay
  BY <1>1, <1>9, ReplaySays DEF AskReplay
<1>10. CASE AskHeuristic
  BY <1>1, <1>10, RulesSay DEF AskHeuristic
<1>11. CASE AskOwn
  BY <1>1, <1>11, OwnSays DEF AskOwn
<1>12. CASE Cancel
  <2>1. /\ UNCHANGED <<stack, asker, asked, walk, verdict>> /\ UNCHANGED cassetteVars
        /\ cancelled' = TRUE
    BY <1>12 DEF Cancel
  <2>2. Told'
    BY <2>1 DEF WalkInv, VerdictInv, LiveAhead, TrafficIsBounded, VerdictIsAccountable
  <2>. QED
    BY <1>1, <2>1, <2>2
<1>13. CASE CorpusMoves
  BY <1>13, OthersMove, CorpusStep DEF CorpusMoves
<1>. QED
  BY <1>2, <1>3, <1>4, <1>5, <1>6, <1>7, <1>8, <1>9, <1>10, <1>11, <1>12, <1>13 DEF DiagnosisNext

LEMMA DiagnosisPromises == ASSUME FewNotices, DiagnosisInv PROVE DiagnosisSound
<1>1. CorpusInv /\ WalkInv /\ VerdictInv
  BY DEF DiagnosisInv
<1>2. /\ CassettesTypeOK /\ OnlyEditsRefuseABoot /\ ReplayedIsOnDisk /\ RecordedRailsAreOffered
  BY <1>1, CorpusPromises
<1>3. DiagnosisTypeOK /\ VerdictIsAccountable /\ TrafficIsBounded
  BY <1>1, <1>2 DEF DiagnosisTypeOK, WalkInv, Walks, VerdictInv
<1>4. OneQuestionOneRule
  <2>1. SUFFICES ASSUME verdict.by = "heuristic", NEW dc \in Contexts, ContextDigest(dc) = ContextDigest(asked)
                 PROVE  [Heuristic(dc) EXCEPT !.incident = asked.incident] = verdict.p
    BY DEF OneQuestionOneRule
  <2>2. Renamed(Classify(dc), asked.incident) = Classify(asked)
    BY <1>1, <2>1, OneRule DEF WalkInv
  <2>3. verdict.p = Classify(asked) /\ Heuristic(dc) = Classify(dc)
    BY <1>1, <2>1, HeuristicIsClassify DEF VerdictInv
  <2>. QED
    BY <2>2, <2>3 DEF Renamed
<1>5. RulesAreAcceptable
  BY ClassifyRuled DEF RulesAreAcceptable, Ruled
<1>. QED
  BY <1>2, <1>3, <1>4, <1>5 DEF DiagnosisSound

THEOREM DiagnosisIsSound ==
    ASSUME CorpusFits, FewNotices PROVE DiagnosisSpec => []DiagnosisSound
<1>1. DiagnosisInit => DiagnosisInv
  BY DiagnosisStarts
<1>2. DiagnosisInv /\ [DiagnosisNext]_<<cassetteVars, diagnosisVars>> => DiagnosisInv'
  BY DiagnosisStep
<1>3. DiagnosisInv => DiagnosisSound
  BY DiagnosisPromises
<1>. QED
  BY <1>1, <1>2, <1>3, PTL DEF DiagnosisSpec

-----------------------------------------------------------------------------
(* Sums over the issuers of a rail *)

First(s) == CHOOSE x \in s : TRUE

\* The value of a recursive sum at a set, from its values at smaller sets.
Step(f, g, s) == IF s = {} THEN 0 ELSE f[First(s)] + g[s \ {First(s)}]

\* The sums of f over the subsets of K with at most n elements.
IsSum(f, g, K, n) == g = [s \in {t \in SUBSET K : Cardinality(t) <= n} |-> Step(f, g, s)]

LEMMA FirstIn == ASSUME NEW s, s # {} PROVE First(s) \in s
  BY DEF First

\* What is left of a set without its first element.
LEMMA RestIs ==
    ASSUME NEW K, IsFiniteSet(K), NEW s, s \subseteq K, s # {}
    PROVE  /\ s \ {First(s)} \subseteq K /\ First(s) \in K
           /\ Cardinality(s) \in Nat \ {0}
           /\ Cardinality(s \ {First(s)}) = Cardinality(s) - 1
<1>1. IsFiniteSet(s) /\ First(s) \in s
  BY FS_Subset, FirstIn
<1>2. Cardinality(s) \in Nat /\ Cardinality(s) # 0
  BY <1>1, FS_CardinalityType, FS_EmptySet
<1>3. Cardinality(s \ {First(s)}) = Cardinality(s) - 1
  BY <1>1, FS_RemoveElement
<1> QED BY <1>1, <1>2, <1>3

LEMMA SumsExist ==
    ASSUME NEW f, NEW K, IsFiniteSet(K), NEW n \in Nat
    PROVE  \E g : IsSum(f, g, K, n)
<1> DEFINE Bad == {m \in Nat : ~\E g : IsSum(f, g, K, m)}
<1>1. SUFFICES ASSUME Bad # {} PROVE FALSE
  OBVIOUS
<1>2. PICK m \in Bad : \A k \in Bad : m <= k
  BY <1>1, LeastNatural
<1>3. \A s \in SUBSET K : Cardinality(s) \in Nat /\ (Cardinality(s) = 0 <=> s = {})
  BY FS_Subset, FS_CardinalityType, FS_EmptySet
<1>4. \E g : IsSum(f, g, K, 0)
  <2> DEFINE g == [s \in {t \in SUBSET K : Cardinality(t) <= 0} |-> 0]
  <2>1. \A s \in {t \in SUBSET K : Cardinality(t) <= 0} : Step(f, g, s) = 0
    BY <1>3 DEF Step
  <2>2. g = [s \in {t \in SUBSET K : Cardinality(t) <= 0} |-> Step(f, g, s)]
    BY <2>1
  <2> QED BY <2>2 DEF IsSum
<1>5. m # 0 /\ m \in Nat /\ m - 1 \in Nat
  BY <1>2, <1>4
<1>6. m - 1 \notin Bad
  <2>1. ~(m <= m - 1)
    BY <1>5
  <2> QED BY <1>2, <2>1, Zenon
<1>7. PICK g : IsSum(f, g, K, m - 1)
  BY <1>5, <1>6
<1> DEFINE D == {t \in SUBSET K : Cardinality(t) <= m}
           h == [s \in D |-> Step(f, g, s)]
<1>8. \A s \in SUBSET K : Cardinality(s) <= m - 1 => g[s] = Step(f, g, s)
  BY <1>7 DEF IsSum
<1>9. ASSUME NEW s \in D PROVE h[s] = Step(f, h, s)
  <2>1. CASE s = {}
    BY <2>1 DEF Step
  <2>2. CASE s # {}
    <3>1. PICK r : r = s \ {First(s)}
      OBVIOUS
    <3>2. r \in SUBSET K /\ Cardinality(r) <= m - 1 /\ r \in D
      BY <1>5, <2>2, <3>1, RestIs
    <3>3. g[r] = h[r]
      BY <1>8, <3>2
    <3> QED BY <2>2, <3>1, <3>3 DEF Step
  <2> QED BY <2>1, <2>2
<1> HIDE DEF h
<1>10. h = [s \in D |-> h[s]]
  BY Zenon DEF h
<1>11. h = [s \in D |-> Step(f, h, s)]
  BY <1>9, <1>10, Zenon
<1>12. IsSum(f, h, K, m)
  BY <1>11, Zenon DEF IsSum
<1> QED BY <1>2, <1>12

\* A sum satisfies its recursive definition.
SumOver(f, g) == \A s \in SUBSET DOMAIN f : g[s] = Step(f, g, s)

LEMMA TotalIs ==
    ASSUME NEW f, IsFiniteSet(DOMAIN f)
    PROVE  \E g : SumOver(f, g) /\ Total(f) = g[DOMAIN f]
<1> DEFINE K == DOMAIN f
           T == [s \in SUBSET K |-> 0]
<1>1. PICK n \in Nat : n = Cardinality(K)
  BY FS_CardinalityType
<1>2. PICK g : IsSum(f, g, K, n)
  BY SumsExist
<1>3. {t \in SUBSET K : Cardinality(t) <= n} = SUBSET K
  BY <1>1, FS_Subset
<1>4. g = [s \in SUBSET K |-> Step(f, g, s)]
  BY <1>2, <1>3 DEF IsSum
<1> DEFINE iter == CHOOSE e : e = [s \in SUBSET K |-> Step(f, e, s)]
<1>5. iter = [s \in SUBSET K |-> Step(f, iter, s)]
  BY <1>4, Zenon
<1>6. Total(f) = iter[K]
  BY DEF Total, FoldFunction, FoldFunctionOnSet, MapThenFoldSet, Step, First
<1>7. SumOver(f, iter)
  BY <1>5 DEF SumOver
<1> QED BY <1>6, <1>7

\* Counters, and sums that grow with them.
Counters(f) == \A i \in DOMAIN f : f[i] \in Nat

NoLess(f, g) == DOMAIN f = DOMAIN g /\ \A i \in DOMAIN f : f[i] <= g[i]

LEMMA TotalsOrdered ==
    ASSUME NEW f, NEW g, IsFiniteSet(DOMAIN f), Counters(f), Counters(g), NoLess(f, g)
    PROVE  Total(f) \in Nat /\ Total(g) \in Nat /\ Total(f) <= Total(g)
<1>1. PICK u : SumOver(f, u) /\ Total(f) = u[DOMAIN f]
  BY TotalIs
<1>2. PICK v : SumOver(g, v) /\ Total(g) = v[DOMAIN f]
  BY TotalIs DEF NoLess
<1> DEFINE K == DOMAIN f
           Fine(s) == u[s] \in Nat /\ v[s] \in Nat /\ u[s] <= v[s]
           Bad == {n \in Nat : \E s \in SUBSET K : Cardinality(s) = n /\ ~Fine(s)}
<1>3. Bad = {}
  <2>1. SUFFICES ASSUME Bad # {} PROVE FALSE
    OBVIOUS
  <2>2. PICK n \in Bad : \A m \in Bad : n <= m
    BY <2>1, LeastNatural
  <2>3. PICK s \in SUBSET K : Cardinality(s) = n /\ ~Fine(s)
    BY <2>2
  <2>4. u[s] = Step(f, u, s) /\ v[s] = Step(g, v, s)
    BY <1>1, <1>2 DEF SumOver, NoLess
  <2>5. s # {}
    BY <2>3, <2>4 DEF Step
  <2>6. PICK x : x = First(s)
    OBVIOUS
  <2>7. PICK r : r = s \ {x}
    OBVIOUS
  <2>8. r \in SUBSET K /\ x \in K /\ n \in Nat /\ n # 0 /\ Cardinality(r) = n - 1
    BY <2>3, <2>5, <2>6, <2>7, RestIs
  <2>9. n - 1 \in Nat /\ ~(n <= n - 1)
    BY <2>8
  <2>10. Fine(r)
    <3>1. n - 1 \notin Bad
      BY <2>2, <2>9, Zenon
    <3> QED BY <2>8, <2>9, <3>1
  <2>11. u[s] = f[x] + u[r] /\ v[s] = g[x] + v[r]
    BY <2>4, <2>5, <2>6, <2>7 DEF Step
  <2>12. PICK a, b \in Nat : a = f[x] /\ b = g[x] /\ a <= b
    BY <2>8 DEF Counters, NoLess
  <2>13. Fine(s)
    BY <2>10, <2>11, <2>12
  <2> QED BY <2>3, <2>13
<1>4. Cardinality(K) \in Nat
  BY FS_CardinalityType
<1>5. Fine(K)
  BY <1>3, <1>4
<1> QED BY <1>1, <1>2, <1>5

LEMMA TotalOfOne ==
    ASSUME NEW f, NEW i, DOMAIN f = {i}, f[i] \in Nat
    PROVE  Total(f) = f[i]
<1>1. IsFiniteSet(DOMAIN f)
  BY FS_Singleton
<1>2. PICK u : SumOver(f, u) /\ Total(f) = u[{i}]
  BY <1>1, TotalIs
<1>3. First({i}) = i
  BY FirstIn
<1>4. {i} \ {i} = {}
  OBVIOUS
<1>5. u[{i}] = f[i] + u[{}] /\ u[{}] = 0
  BY <1>2, <1>3, <1>4 DEF SumOver, Step
<1> QED BY <1>2, <1>5

-----------------------------------------------------------------------------
(* The windows of a rail, and its tally *)

IsWindow(w) == w \in Readings

IsLandscape(snaps) == DOMAIN snaps \subseteq IssuerNames /\ \A i \in DOMAIN snaps : IsWindow(snaps[i])

\* A window that differs from another in its successes only.
SameButSuccesses(w, v) ==
    v.open = w.open /\ v.attempts = w.attempts /\ v.baseline = w.baseline /\ v.age = w.age

LEMMA WindowFields ==
    ASSUME NEW w, IsWindow(w)
    PROVE  /\ w.open \in BOOLEAN /\ w.attempts \in Nat /\ w.successes \in Nat
           /\ w.baseline \in Nat /\ w.age \in Int
  BY DEF IsWindow, Readings

LEMMA ClampsCount ==
    ASSUME NEW n \in Nat
    PROVE  ClampCount(n) = (IF n > MaxSamples THEN MaxSamples ELSE n) /\ ClampCount(n) \in 0..MaxSamples
  BY PolicyConstants DEF ClampCount, Clamp

LEMMA ClampsOrdered ==
    ASSUME NEW m \in Nat, NEW n \in Nat, m <= n
    PROVE  ClampCount(m) <= ClampCount(n)
  BY PolicyConstants, ClampsCount

LEMMA SucceededIs ==
    ASSUME NEW w, IsWindow(w)
    PROVE  /\ Succeeded(w) \in Nat /\ ClampCount(w.attempts) \in Nat
           /\ Succeeded(w) = IF ClampCount(w.successes) > ClampCount(w.attempts)
                             THEN ClampCount(w.attempts) ELSE ClampCount(w.successes)
<1>1. w.attempts \in Nat /\ w.successes \in Nat
  BY WindowFields
<1>2. ClampCount(w.attempts) \in Nat /\ ClampCount(w.successes) \in Nat
  BY <1>1, ClampsCount
<1> QED BY <1>2 DEF Succeeded

LEMMA OneMoreSuccess ==
    ASSUME NEW w, IsWindow(w), NEW v, v = [w EXCEPT !.successes = @ + 1]
    PROVE  IsWindow(v) /\ SameButSuccesses(w, v) /\ v.successes = w.successes + 1
<1>1. w \in [open : BOOLEAN, attempts : Nat, successes : Nat, baseline : Nat, age : Int]
  BY DEF IsWindow, Readings
<1>2. v \in [open : BOOLEAN, attempts : Nat, successes : Nat, baseline : Nat, age : Int]
  BY <1>1
<1>3. v.successes = w.successes + 1
  BY <1>1
<1>4. v.attempts = w.attempts /\ v.baseline = w.baseline /\ v.age = w.age
  BY <1>1
<1>5. v.open = w.open
  BY <1>1, Zenon
<1> QED BY <1>2, <1>3, <1>4, <1>5 DEF IsWindow, Readings, SameButSuccesses

LEMMA OneLessSuccess ==
    ASSUME NEW w, IsWindow(w), w.successes > 0, NEW v, v = [w EXCEPT !.successes = @ - 1]
    PROVE  IsWindow(v) /\ SameButSuccesses(w, v) /\ v.successes = w.successes - 1
<1>1. w \in [open : BOOLEAN, attempts : Nat, successes : Nat, baseline : Nat, age : Int]
  BY DEF IsWindow, Readings
<1>2. w.successes - 1 \in Nat
  BY <1>1
<1>3. v \in [open : BOOLEAN, attempts : Nat, successes : Nat, baseline : Nat, age : Int]
  BY <1>1, <1>2
<1>4. v.successes = w.successes - 1
  BY <1>1
<1>5. v.attempts = w.attempts /\ v.baseline = w.baseline /\ v.age = w.age
  BY <1>1
<1>6. v.open = w.open
  BY <1>1, Zenon
<1> QED BY <1>3, <1>4, <1>5, <1>6 DEF IsWindow, Readings, SameButSuccesses

WobblesAt(n, k, e) ==
    /\ n >= FewSamples
    /\ \/ 100 * k < FloorPct * n
       \/ e > 0 /\ 200 * k < e * n

LEMMA WobblesLess ==
    ASSUME NEW n, n \in Nat, NEW k, k \in Nat, NEW l, l \in Nat, NEW e, e \in Nat, k <= l,
           WobblesAt(n, l, e)
    PROVE  WobblesAt(n, k, e)
<1>1. PICK a, b : a \in Int /\ b \in Int /\ a = FloorPct * n /\ b = e * n
  BY PolicyConstants
<1> QED BY <1>1 DEF WobblesAt

\* More successes make a wobble no likelier and count for no less.
LEMMA MoreIsBetter ==
    ASSUME NEW w, IsWindow(w), NEW v, IsWindow(v), SameButSuccesses(w, v), w.successes <= v.successes
    PROVE  /\ Wobbles(v) => Wobbles(w)
           /\ Blocked(v) => Blocked(w)
           /\ Fresh(v) <=> Fresh(w)
           /\ Succeeded(w) <= Succeeded(v)
           /\ ClampCount(v.attempts) = ClampCount(w.attempts)
<1>1. /\ w.attempts \in Nat /\ w.successes \in Nat /\ v.successes \in Nat /\ w.baseline \in Nat
      /\ v.attempts = w.attempts /\ v.baseline = w.baseline
  BY WindowFields DEF SameButSuccesses
<1>2. Wobbles(v) => Wobbles(w)
  <2>1. PICK n, k, l, e :
          /\ n = w.attempts /\ n = v.attempts /\ k = w.successes /\ l = v.successes
          /\ e = w.baseline /\ e = v.baseline
    BY <1>1
  <2>2. Wobbles(w) = WobblesAt(n, k, e) /\ Wobbles(v) = WobblesAt(n, l, e)
    <3>1. Wobbles(w) = WobblesAt(w.attempts, w.successes, w.baseline)
      BY Zenon DEF Wobbles, WobblesAt
    <3>2. Wobbles(v) = WobblesAt(v.attempts, v.successes, v.baseline)
      BY Zenon DEF Wobbles, WobblesAt
    <3> QED BY <2>1, <3>1, <3>2, Zenon
  <2>3. n \in Nat /\ k \in Nat /\ l \in Nat /\ e \in Nat /\ k <= l
    BY <1>1, <2>1
  <2> QED BY <2>2, <2>3, WobblesLess, Zenon
<1>3. Blocked(v) => Blocked(w)
  BY <1>2, Zenon DEF Blocked, SameButSuccesses
<1>4. Fresh(v) <=> Fresh(w)
  BY Zenon DEF Fresh, SameButSuccesses
<1>5. ClampCount(v.attempts) = ClampCount(w.attempts) /\ ClampCount(w.attempts) \in Nat
  BY <1>1, ClampsCount
<1>6. /\ ClampCount(w.successes) <= ClampCount(v.successes)
      /\ ClampCount(w.successes) \in Nat /\ ClampCount(v.successes) \in Nat
  BY <1>1, ClampsCount, ClampsOrdered
<1>7. Succeeded(w) <= Succeeded(v)
  BY <1>5, <1>6, SucceededIs
<1> QED BY <1>2, <1>3, <1>4, <1>5, <1>7

\* What the windows that speak for a rail say, one by one and together.
AttemptsHeard(rail, snaps) == [i \in Heard(rail, snaps) |-> ClampCount(snaps[i].attempts)]

SuccessesHeard(rail, snaps) == [i \in Heard(rail, snaps) |-> Succeeded(snaps[i])]

Tried(rail, snaps) == Tally(rail, snaps).attempts

Won(rail, snaps) == Tally(rail, snaps).successes

LEMMA TallyIs ==
    ASSUME NEW rail, NEW snaps
    PROVE  /\ Tried(rail, snaps) = ClampCount(Total(AttemptsHeard(rail, snaps)))
           /\ Won(rail, snaps) = IF ClampCount(Total(SuccessesHeard(rail, snaps))) > Tried(rail, snaps)
                                 THEN Tried(rail, snaps)
                                 ELSE ClampCount(Total(SuccessesHeard(rail, snaps)))
  BY DEF Tried, Won, Tally, AttemptsHeard, SuccessesHeard

LEMMA IssuersFinite ==
    ASSUME NEW S, S \subseteq IssuerNames
    PROVE  IsFiniteSet(S)
<1> DEFINE M == {"upi", "card", "emi", "netbanking", "wallet"}
<1>1. IsFiniteSet(M)
  <2>1. IsFiniteSet({"upi"}) /\ IsFiniteSet({"card"}) /\ IsFiniteSet({"emi"})
        /\ IsFiniteSet({"netbanking"}) /\ IsFiniteSet({"wallet"})
    BY FS_Singleton
  <2>2. IsFiniteSet({"upi"} \cup {"card"}) /\ IsFiniteSet({"netbanking"} \cup {"wallet"})
    BY <2>1, FS_Union
  <2>3. IsFiniteSet({"upi"} \cup {"card"} \cup {"emi"})
    BY <2>1, <2>2, FS_Union
  <2>4. IsFiniteSet(({"upi"} \cup {"card"} \cup {"emi"}) \cup ({"netbanking"} \cup {"wallet"}))
    BY <2>2, <2>3, FS_Union
  <2>5. M = ({"upi"} \cup {"card"} \cup {"emi"}) \cup ({"netbanking"} \cup {"wallet"})
    OBVIOUS
  <2> QED BY <2>4, <2>5
<1>2. IsFiniteSet(M \X IssuerIds)
  BY <1>1, PolicyConstants, FS_Product
<1> QED BY <1>2, FS_Subset DEF IssuerNames

LEMMA HeardAre ==
    ASSUME NEW rail, NEW snaps, IsLandscape(snaps)
    PROVE  /\ IsFiniteSet(Heard(rail, snaps))
           /\ Heard(rail, snaps) \subseteq DOMAIN snaps
           /\ \A i \in Heard(rail, snaps) : IsWindow(snaps[i])
<1>1. Heard(rail, snaps) \subseteq DOMAIN snaps
  BY DEF Heard, IssuerKeys
<1>2. IsFiniteSet(Heard(rail, snaps))
  BY <1>1, IssuersFinite DEF IsLandscape
<1> QED BY <1>1, <1>2 DEF IsLandscape

LEMMA TallyTyped ==
    ASSUME NEW rail, NEW snaps, IsLandscape(snaps)
    PROVE  /\ Counters(AttemptsHeard(rail, snaps)) /\ Counters(SuccessesHeard(rail, snaps))
           /\ Tried(rail, snaps) \in 0..MaxSamples
           /\ Won(rail, snaps) \in 0..Tried(rail, snaps)
<1>1. PICK f : f = AttemptsHeard(rail, snaps)
  OBVIOUS
<1>2. PICK g : g = SuccessesHeard(rail, snaps)
  OBVIOUS
<1>3. IsFiniteSet(DOMAIN f) /\ Counters(f)
  BY <1>1, HeardAre, SucceededIs DEF AttemptsHeard, Counters
<1>4. IsFiniteSet(DOMAIN g) /\ Counters(g)
  BY <1>2, HeardAre, SucceededIs DEF SuccessesHeard, Counters
<1>5. Total(f) \in Nat
  <2>1. NoLess(f, f)
    BY <1>3 DEF NoLess, Counters
  <2> QED BY <1>3, <2>1, TotalsOrdered
<1>6. Total(g) \in Nat
  <2>1. NoLess(g, g)
    BY <1>4 DEF NoLess, Counters
  <2> QED BY <1>4, <2>1, TotalsOrdered
<1>7. ClampCount(Total(f)) \in 0..MaxSamples /\ ClampCount(Total(g)) \in 0..MaxSamples
  BY <1>5, <1>6, ClampsCount
<1>8. MaxSamples \in Nat
  BY PolicyConstants
<1> QED BY <1>1, <1>2, <1>3, <1>4, <1>7, <1>8, TallyIs

-----------------------------------------------------------------------------
(* One failure less *)

\* Readings that differ in successes of the windows that speak for one rail.
Improved(snaps, better, rail) ==
    /\ IsLandscape(better) /\ DOMAIN better = DOMAIN snaps
    /\ \A i \in DOMAIN snaps :
         /\ SameButSuccesses(snaps[i], better[i])
         /\ snaps[i].successes <= better[i].successes
         /\ i \notin Heard(rail, snaps) => better[i] = snaps[i]
         /\ Blocked(better[i]) <=> Blocked(snaps[i])

LEMMA BetterIsImproved ==
    ASSUME NEW snaps, IsLandscape(snaps), NEW rail
    PROVE  Improved(snaps, Better(rail, snaps), rail)
<1>1. PICK b : b = Better(rail, snaps)
  OBVIOUS
<1>2. DOMAIN b = DOMAIN snaps
  BY <1>1 DEF Better
<1>3. ASSUME NEW i \in DOMAIN snaps
      PROVE  /\ SameButSuccesses(snaps[i], b[i]) /\ snaps[i].successes <= b[i].successes
             /\ i \notin Heard(rail, snaps) => b[i] = snaps[i]
             /\ Blocked(b[i]) <=> Blocked(snaps[i])
             /\ IsWindow(b[i])
  <2>1. IsWindow(snaps[i])
    BY DEF IsLandscape
  <2>2. CASE i \in Heard(rail, snaps) /\ snaps[i].successes < snaps[i].attempts
    <3>1. b[i] = [snaps[i] EXCEPT !.successes = @ + 1]
      BY <1>1, <2>2 DEF Better
    <3>2. /\ IsWindow(b[i]) /\ SameButSuccesses(snaps[i], b[i])
          /\ b[i].successes = snaps[i].successes + 1
      BY <2>1, <3>1, OneMoreSuccess, Zenon
    <3>3. snaps[i].successes <= b[i].successes
      BY <2>1, <3>2, WindowFields
    <3>4. ~Blocked(snaps[i])
      BY <2>2 DEF Heard
    <3>5. Blocked(b[i]) => Blocked(snaps[i])
      BY <2>1, <3>2, <3>3, MoreIsBetter, Zenon
    <3> QED BY <2>2, <3>2, <3>3, <3>4, <3>5
  <2>3. CASE ~(i \in Heard(rail, snaps) /\ snaps[i].successes < snaps[i].attempts)
    <3>1. b[i] = snaps[i]
      BY <1>1, <2>3 DEF Better
    <3>2. snaps[i].successes <= snaps[i].successes
      BY <2>1, WindowFields
    <3> QED BY <2>1, <3>1, <3>2, Zenon DEF SameButSuccesses
  <2> QED BY <2>2, <2>3
<1>4. IsLandscape(b)
  BY <1>2, <1>3 DEF IsLandscape
<1> QED BY <1>1, <1>2, <1>3, <1>4 DEF Improved

LEMMA ImprovedUsable ==
    ASSUME NEW snaps, NEW better, NEW rail, Improved(snaps, better, rail), NEW o
    PROVE  /\ IssuerKeys(o, better) = IssuerKeys(o, snaps)
           /\ Usable(o, better) <=> Usable(o, snaps)
<1>1. IssuerKeys(o, better) = IssuerKeys(o, snaps)
  BY DEF Improved, IssuerKeys
<1>2. \A i \in IssuerKeys(o, snaps) : Blocked(better[i]) <=> Blocked(snaps[i])
  BY DEF Improved, IssuerKeys
<1> QED BY <1>1, <1>2 DEF Usable

LEMMA ImprovedTally ==
    ASSUME NEW snaps, IsLandscape(snaps), NEW better, NEW rail, Improved(snaps, better, rail), NEW o
    PROVE  /\ Tried(o, better) = Tried(o, snaps)
           /\ Won(o, snaps) <= Won(o, better)
           /\ Methods(o) \cap Methods(rail) = {} => Won(o, better) = Won(o, snaps)
<1>1. IssuerKeys(o, better) = IssuerKeys(o, snaps) /\ IsLandscape(better)
  BY ImprovedUsable DEF Improved
<1>2. ASSUME NEW i \in IssuerKeys(o, snaps)
      PROVE  /\ IsWindow(snaps[i]) /\ IsWindow(better[i])
             /\ Blocked(better[i]) <=> Blocked(snaps[i])
             /\ Fresh(better[i]) <=> Fresh(snaps[i])
             /\ Succeeded(snaps[i]) <= Succeeded(better[i])
             /\ ClampCount(better[i].attempts) = ClampCount(snaps[i].attempts)
  <2>1. /\ i \in DOMAIN snaps /\ SameButSuccesses(snaps[i], better[i])
        /\ snaps[i].successes <= better[i].successes
        /\ Blocked(better[i]) <=> Blocked(snaps[i])
    BY DEF IssuerKeys, Improved
  <2>2. IsWindow(snaps[i]) /\ IsWindow(better[i])
    BY <1>1, <2>1 DEF IsLandscape, Improved
  <2> QED BY <2>1, <2>2, MoreIsBetter, Zenon
<1>3. Heard(o, better) = Heard(o, snaps)
  BY <1>1, <1>2 DEF Heard
<1>4. Heard(o, snaps) \subseteq IssuerKeys(o, snaps)
  BY DEF Heard
<1>5. AttemptsHeard(o, better) = AttemptsHeard(o, snaps)
  BY <1>2, <1>3, <1>4 DEF AttemptsHeard
<1>6. Tried(o, better) = Tried(o, snaps)
  BY <1>5, TallyIs
<1>7. PICK f : f = SuccessesHeard(o, snaps)
  OBVIOUS
<1>8. PICK g : g = SuccessesHeard(o, better)
  OBVIOUS
<1>9. Counters(f) /\ Counters(g)
  BY <1>1, <1>7, <1>8, TallyTyped
<1>10. NoLess(f, g)
  BY <1>2, <1>3, <1>4, <1>7, <1>8 DEF NoLess, SuccessesHeard
<1>11. IsFiniteSet(DOMAIN f)
  BY <1>7, HeardAre DEF SuccessesHeard
<1>12. Total(f) \in Nat /\ Total(g) \in Nat /\ Total(f) <= Total(g)
  BY <1>9, <1>10, <1>11, TotalsOrdered
<1>13. PICK m, n : m = ClampCount(Total(f)) /\ n = ClampCount(Total(g))
  OBVIOUS
<1>14. m \in Nat /\ n \in Nat /\ m <= n
  BY <1>12, <1>13, ClampsCount, ClampsOrdered
<1>15. Won(o, snaps) <= Won(o, better)
  <2>1. PICK t : t = Tried(o, snaps) /\ t = Tried(o, better) /\ t \in Nat
    BY <1>6, TallyTyped
  <2>2. /\ Won(o, snaps) = (IF m > t THEN t ELSE m)
        /\ Won(o, better) = (IF n > t THEN t ELSE n)
    BY <1>7, <1>8, <1>13, <2>1, TallyIs
  <2> QED BY <1>14, <2>1, <2>2
<1>16. ASSUME Methods(o) \cap Methods(rail) = {} PROVE Won(o, better) = Won(o, snaps)
  <2>1. \A i \in IssuerKeys(o, snaps) : i \in DOMAIN snaps /\ i \notin Heard(rail, snaps)
    BY <1>16 DEF Heard, IssuerKeys
  <2>2. \A i \in IssuerKeys(o, snaps) : better[i] = snaps[i]
    BY <2>1 DEF Improved
  <2>3. f = g
    BY <1>3, <1>4, <1>7, <1>8, <2>2 DEF SuccessesHeard
  <2> QED BY <1>6, <1>7, <1>8, <2>3, TallyIs
<1> QED BY <1>6, <1>15, <1>16

-----------------------------------------------------------------------------
(* The order of the rails *)

LEMMA NamesOrdered ==
    /\ \A a, b \in KnownRails : a # b => Before(a, b) \/ Before(b, a)
    /\ \A a, b : Before(a, b) => ~Before(b, a)
    /\ \A a, b, c : Before(a, b) /\ Before(b, c) => Before(a, c)
  BY DEF Before, KnownRails, NameOrder

\* (j+1)/(m+2) against (k+1)/(n+2).
Above(j, m, k, n) == (j + 1) * (n + 2) > (k + 1) * (m + 2)

LEMMA AboveTransitive ==
    ASSUME NEW a \in Nat, NEW b \in Nat, NEW c \in Nat, NEW d \in Nat, NEW e \in Nat, NEW f \in Nat,
           ~Above(c, d, a, b), ~Above(e, f, c, d)
    PROVE  /\ ~Above(e, f, a, b)
           /\ Above(a, b, c, d) \/ Above(c, d, e, f) => Above(a, b, e, f)
<1>1. PICK x1, y1, x2, y2, x3, y3 \in Nat \ {0} :
        x1 = a + 1 /\ y1 = b + 2 /\ x2 = c + 1 /\ y2 = d + 2 /\ x3 = e + 1 /\ y3 = f + 2
  OBVIOUS
<1>2. ~(x2 * y1 > x1 * y2) /\ ~(x3 * y2 > x2 * y3)
  BY <1>1 DEF Above
<1>3. ~(x3 * y1 > x1 * y3)
  BY <1>2
<1>4. x1 * y2 > x2 * y1 \/ x2 * y3 > x3 * y2 => x1 * y3 > x3 * y1
  BY <1>2
<1> QED BY <1>1, <1>3, <1>4 DEF Above

\* One is above the other, or they stand level.
Level(j, m, k, n) == ~Above(j, m, k, n) /\ ~Above(k, n, j, m)

LEMMA OutranksIs ==
    ASSUME NEW snaps, IsLandscape(snaps), NEW a, NEW b
    PROVE  Outranks(a, b, snaps) <=>
             \/ Above(Won(a, snaps), Tried(a, snaps), Won(b, snaps), Tried(b, snaps))
             \/ /\ Level(Won(a, snaps), Tried(a, snaps), Won(b, snaps), Tried(b, snaps))
                /\ Before(a, b)
<1>1. PICK j, m, k, n : /\ j = Won(a, snaps) /\ m = Tried(a, snaps)
                        /\ k = Won(b, snaps) /\ n = Tried(b, snaps)
  OBVIOUS
<1>2. j \in Nat /\ m \in Nat /\ k \in Nat /\ n \in Nat
  BY <1>1, TallyTyped
<1>3. PICK g : g = Before(a, b)
  OBVIOUS
<1>4. Outranks(a, b, snaps) <=>
        (j + 1) * (n + 2) > (k + 1) * (m + 2) \/ ((j + 1) * (n + 2) = (k + 1) * (m + 2) /\ Before(a, b))
  BY <1>1, Zenon DEF Outranks, Won, Tried
<1>5. PICK x, y : x = (j + 1) * (n + 2) /\ y = (k + 1) * (m + 2) /\ x \in Int /\ y \in Int
  BY <1>2
<1>6. x = y <=> ~(x > y) /\ ~(y > x)
  BY <1>5
<1>7. Above(j, m, k, n) <=> x > y
  BY <1>5 DEF Above
<1>8. Above(k, n, j, m) <=> y > x
  BY <1>5 DEF Above
<1>9. Outranks(a, b, snaps) <=> x > y \/ (x = y /\ Before(a, b))
  BY <1>4, <1>5, Zenon
<1>10. Level(j, m, k, n) <=> x = y
  BY <1>6, <1>7, <1>8, Zenon DEF Level
<1> QED BY <1>1, <1>7, <1>9, <1>10, Zenon

LEMMA OutranksIsAnOrder ==
    ASSUME NEW snaps, IsLandscape(snaps)
    PROVE  /\ \A a, b \in KnownRails : a # b => Outranks(a, b, snaps) \/ Outranks(b, a, snaps)
           /\ \A a, b : Outranks(a, b, snaps) => ~Outranks(b, a, snaps)
           /\ \A a, b, c : Outranks(a, b, snaps) /\ Outranks(b, c, snaps) => Outranks(a, c, snaps)
<1> DEFINE W(r) == Won(r, snaps)
           T(r) == Tried(r, snaps)
           Up(a, b) == Above(W(a), T(a), W(b), T(b))
<1>1. \A r : W(r) \in Nat /\ T(r) \in Nat
  BY TallyTyped
<1>2. \A a, b : Outranks(a, b, snaps) <=> Up(a, b) \/ (~Up(a, b) /\ ~Up(b, a) /\ Before(a, b))
  BY OutranksIs DEF Level
<1>3. \A a, b, c : ~Up(b, a) /\ ~Up(c, b) => ~Up(c, a) /\ (Up(a, b) \/ Up(b, c) => Up(a, c))
  BY <1>1, AboveTransitive
<1>4. \A a, b : Up(a, b) => ~Up(b, a)
  <2> SUFFICES ASSUME NEW a, NEW b, Up(a, b), Up(b, a) PROVE FALSE
    OBVIOUS
  <2>1. PICK x, y : x \in Int /\ y \in Int /\ x = (W(a) + 1) * (T(b) + 2) /\ y = (W(b) + 1) * (T(a) + 2)
    BY <1>1
  <2>2. x > y /\ y > x
    BY <2>1 DEF Above
  <2> QED BY <2>1, <2>2
<1> HIDE DEF Up
<1>5. \A a, b \in KnownRails : a # b => Outranks(a, b, snaps) \/ Outranks(b, a, snaps)
  BY <1>2, NamesOrdered
<1>6. \A a, b : Outranks(a, b, snaps) => ~Outranks(b, a, snaps)
  BY <1>2, <1>4, NamesOrdered
<1>7. \A a, b, c : Outranks(a, b, snaps) /\ Outranks(b, c, snaps) => Outranks(a, c, snaps)
  <2> SUFFICES ASSUME NEW a, NEW b, NEW c, Outranks(a, b, snaps), Outranks(b, c, snaps)
               PROVE  Outranks(a, c, snaps)
    OBVIOUS
  <2>1. ~Up(b, a) /\ ~Up(c, b) /\ ~Up(c, a)
    BY <1>2, <1>3, <1>4
  <2>2. CASE Up(a, c)
    BY <1>2, <2>2
  <2>3. CASE ~Up(a, c)
    <3>1. ~Up(a, b) /\ ~Up(b, c)
      BY <1>3, <2>1, <2>3
    <3>2. Before(a, b) /\ Before(b, c)
      BY <1>2, <3>1
    <3> QED BY <1>2, <2>1, <2>3, <3>2, NamesOrdered
  <2> QED BY <2>2, <2>3
<1> QED BY <1>5, <1>6, <1>7

\* A rail that no other candidate outranks.
IsBest(r, cands, snaps) == r \in cands /\ \A o \in cands \ {r} : Outranks(r, o, snaps)

LEMMA BestExists ==
    ASSUME NEW snaps, IsLandscape(snaps), NEW cands, cands \subseteq KnownRails, cands # {}
    PROVE  \E r : IsBest(r, cands, snaps)
<1> DEFINE Over(r) == {o \in cands : Outranks(o, r, snaps)}
           Ranks == {Cardinality(Over(r)) : r \in cands}
<1>1. \A S \in SUBSET cands : IsFiniteSet(S) /\ Cardinality(S) \in Nat
  <2>1. IsFiniteSet(KnownRails)
    <3>1. IsFiniteSet({"upi_intent"}) /\ IsFiniteSet({"upi_collect"}) /\ IsFiniteSet({"card"})
          /\ IsFiniteSet({"netbanking"}) /\ IsFiniteSet({"wallet"})
      BY FS_Singleton
    <3>2. IsFiniteSet({"upi_intent"} \cup {"upi_collect"}) /\ IsFiniteSet({"card"} \cup {"netbanking"})
      BY <3>1, FS_Union
    <3>3. IsFiniteSet(({"upi_intent"} \cup {"upi_collect"}) \cup ({"card"} \cup {"netbanking"}))
      BY <3>2, FS_Union
    <3>4. IsFiniteSet((({"upi_intent"} \cup {"upi_collect"}) \cup ({"card"} \cup {"netbanking"})) \cup {"wallet"})
      BY <3>1, <3>3, FS_Union
    <3>5. KnownRails = (({"upi_intent"} \cup {"upi_collect"}) \cup ({"card"} \cup {"netbanking"})) \cup {"wallet"}
      BY DEF KnownRails
    <3> QED BY <3>4, <3>5
  <2> QED BY <2>1, FS_Subset, FS_CardinalityType
<1>2. Ranks \subseteq Nat /\ Ranks # {}
  BY <1>1
<1>3. PICK n \in Ranks : \A m \in Ranks : n <= m
  BY <1>2, LeastNatural
<1>4. PICK r \in cands : n = Cardinality(Over(r))
  BY <1>3
<1>5. ASSUME NEW o \in cands, Outranks(o, r, snaps) PROVE FALSE
  <2>1. Over(o) \subseteq Over(r) /\ o \in Over(r) /\ o \notin Over(o)
    BY <1>5, OutranksIsAnOrder
  <2>2. PICK S, T : S = Over(o) /\ T = Over(r) /\ S \subseteq T /\ S # T /\ T \subseteq cands
    BY <2>1
  <2>3. Cardinality(S) <= Cardinality(T) /\ Cardinality(S) # Cardinality(T)
    BY <1>1, <2>2, FS_Subset
  <2>4. Cardinality(S) \in Nat /\ Cardinality(T) \in Nat
    BY <1>1, <2>2
  <2>5. n <= Cardinality(S)
    BY <1>3, <2>2
  <2> QED BY <1>4, <2>2, <2>3, <2>4, <2>5
<1>6. IsBest(r, cands, snaps)
  BY <1>4, <1>5, OutranksIsAnOrder DEF IsBest
<1> QED BY <1>6

\* What the engine answers: none, or the best of the candidates, of which there
\* is one only.
LEMMA Chosen ==
    ASSUME NEW snaps, IsLandscape(snaps), NEW stopped \in BOOLEAN, NEW current, NEW available
    PROVE  LET cands == Candidates(current, available, snaps)
               r == ChooseRail(stopped, current, available, snaps)
           IN  /\ stopped \/ cands = {} => r = "none"
               /\ ~stopped /\ cands # {} => IsBest(r, cands, snaps)
<1> DEFINE cands == Candidates(current, available, snaps)
<1>2. cands \subseteq KnownRails
  BY DEF Candidates, Scanned
<1>3. ChooseRail(stopped, current, available, snaps) =
        IF stopped \/ cands = {} THEN "none"
        ELSE CHOOSE r \in cands : \A o \in cands \ {r} : Outranks(r, o, snaps)
  BY Zenon DEF ChooseRail
<1> HIDE DEF cands
<1>4. ASSUME cands # {}
      PROVE  IsBest(CHOOSE r \in cands : \A o \in cands \ {r} : Outranks(r, o, snaps), cands, snaps)
  <2>1. \E r \in cands : \A o \in cands \ {r} : Outranks(r, o, snaps)
    BY <1>2, <1>4, BestExists DEF IsBest
  <2> QED BY <2>1, Zenon DEF IsBest
<1> QED BY <1>3, <1>4 DEF cands

LEMMA BestIsUnique ==
    ASSUME NEW snaps, IsLandscape(snaps), NEW cands, NEW a, NEW b,
           IsBest(a, cands, snaps), IsBest(b, cands, snaps)
    PROVE  a = b
  BY OutranksIsAnOrder DEF IsBest

-----------------------------------------------------------------------------
(* The rail a payer is moved to *)

\* A merchant's list is read to its end.
IsList(available) ==
    available \in Seq(KnownRails \cup {"none"}) /\ Len(available) <= MaxRailsScanned

LEMMA ListRead ==
    ASSUME NEW available, IsList(available), NEW current
    PROVE  Scanned(current, available) = Range(available) \cap (KnownRails \ {current})
<1>1. PICK n \in Nat : n = Len(available) /\ n <= MaxRailsScanned
  BY DEF IsList
<1>2. Clamp(n, 0, MaxRailsScanned) = n
  BY <1>1, PolicyConstants DEF Clamp
<1>3. DOMAIN available = 1..n
  BY <1>1 DEF IsList
<1> QED BY <1>1, <1>2, <1>3 DEF Scanned, Range

LEMMA ListPermuted ==
    ASSUME NEW available, IsList(available), NEW p \in Bijection(1..Len(available), 1..Len(available)), NEW current
    PROVE  Scanned(current, [k \in 1..Len(available) |-> available[p[k]]]) = Scanned(current, available)
<1>1. PICK n \in Nat : n = Len(available) /\ n <= MaxRailsScanned
  BY DEF IsList
<1>2. p \in [1..n -> 1..n] /\ \A w \in 1..n : \E v \in 1..n : p[v] = w
  BY <1>1 DEF Bijection, Injection, Surjection, IsInjective
<1>3. PICK s : s = [k \in 1..n |-> available[p[k]]]
  OBVIOUS
<1>4. Len(s) = n
  BY <1>3
<1>5. Clamp(n, 0, MaxRailsScanned) = n
  BY <1>1, PolicyConstants DEF Clamp
<1>6. {s[k] : k \in 1..n} = {available[k] : k \in 1..n}
  BY <1>2, <1>3
<1>7. Scanned(current, s) = {s[k] : k \in 1..n} \cap (KnownRails \ {current})
  BY <1>4, <1>5 DEF Scanned
<1>8. Scanned(current, available) = {available[k] : k \in 1..n} \cap (KnownRails \ {current})
  BY <1>1, <1>5 DEF Scanned
<1> QED BY <1>1, <1>3, <1>6, <1>7, <1>8

LEMMA MethodsApart ==
    ASSUME NEW a \in KnownRails, NEW b \in KnownRails, Methods(a) # Methods(b)
    PROVE  Methods(a) \cap Methods(b) = {}
  BY DEF Methods, KnownRails

LEMMA ImprovedCandidates ==
    ASSUME NEW snaps, NEW better, NEW rail, Improved(snaps, better, rail), NEW current, NEW available
    PROVE  Candidates(current, available, better) = Candidates(current, available, snaps)
  BY ImprovedUsable DEF Candidates

\* One failure less of the chosen rail leaves the choice with its issuers.
LEMMA BestStaysBest ==
    ASSUME NEW snaps, IsLandscape(snaps), NEW cands, cands \subseteq KnownRails,
           NEW r, IsBest(r, cands, snaps), NEW better, Improved(snaps, better, r),
           NEW s, IsBest(s, cands, better)
    PROVE  Methods(s) = Methods(r)
<1>1. SUFFICES ASSUME Methods(s) # Methods(r) PROVE FALSE
  OBVIOUS
<1>2. r \in KnownRails /\ s \in KnownRails /\ r # s
  BY <1>1 DEF IsBest
<1>3. IsLandscape(better)
  BY DEF Improved
<1>4. Outranks(r, s, snaps) /\ Outranks(s, r, better)
  BY <1>2 DEF IsBest
<1>5. PICK j, k, m, n, l : /\ j = Won(r, snaps) /\ l = Won(r, better) /\ k = Won(s, snaps)
                           /\ m = Tried(r, snaps) /\ n = Tried(s, snaps)
  OBVIOUS
<1>6. k = Won(s, better) /\ m = Tried(r, better) /\ n = Tried(s, better) /\ j <= l
  BY <1>1, <1>2, <1>5, MethodsApart, ImprovedTally
<1>7. j \in Nat /\ k \in Nat /\ m \in Nat /\ n \in Nat /\ l \in Nat
  BY <1>3, <1>5, TallyTyped
<1>8. Above(j, m, k, n) \/ (Level(j, m, k, n) /\ Before(r, s))
  BY <1>4, <1>5, OutranksIs
<1>9. Above(k, n, l, m) \/ (Level(k, n, l, m) /\ Before(s, r))
  BY <1>3, <1>4, <1>5, <1>6, OutranksIs
<1>10. PICK x, y, z : x \in Int /\ y \in Int /\ z \in Int
          /\ x = (j + 1) * (n + 2) /\ y = (k + 1) * (m + 2) /\ z = (l + 1) * (n + 2)
  BY <1>7
<1>11. x <= z
  BY <1>6, <1>7, <1>10
<1>12. x > y \/ (~(x > y) /\ ~(y > x) /\ Before(r, s))
  BY <1>8, <1>10 DEF Above, Level
<1>13. y > z \/ (~(y > z) /\ ~(z > y) /\ Before(s, r))
  BY <1>9, <1>10 DEF Above, Level
<1> QED BY <1>10, <1>11, <1>12, <1>13, NamesOrdered

\* A rail of one window with three successes in four over ten payments outranks
\* a rail that was tried once at most.
LEMMA ProvenOutranks ==
    ASSUME NEW snaps, IsLandscape(snaps), NEW o, NEW i, Heard(o, snaps) = {i},
           snaps[i].attempts >= 10, 4 * snaps[i].successes >= 3 * snaps[i].attempts,
           NEW r, Tried(r, snaps) <= 1
    PROVE  ~Outranks(r, o, snaps) /\ Tried(o, snaps) >= 10
<1>1. IsWindow(snaps[i])
  BY HeardAre
<1>2. PICK a, k : a \in Nat /\ k \in Nat /\ a = snaps[i].attempts /\ k = snaps[i].successes
  BY <1>1, WindowFields
<1>3. PICK n, m : n = ClampCount(a) /\ m = Succeeded(snaps[i])
  OBVIOUS
<1>4. n \in Nat /\ n <= MaxSamples /\ m \in Nat /\ n >= 10 /\ 4 * m >= 3 * n
  <2>1. n = IF a > MaxSamples THEN MaxSamples ELSE a
    BY <1>2, <1>3, ClampsCount
  <2>2. PICK l : l = ClampCount(k)
    OBVIOUS
  <2>3. l = IF k > MaxSamples THEN MaxSamples ELSE k
    BY <1>2, <2>2, ClampsCount
  <2>4. m = IF l > n THEN n ELSE l
    BY <1>1, <1>2, <1>3, <2>2, SucceededIs
  <2>5. a >= 10 /\ 4 * k >= 3 * a
    BY <1>2
  <2> QED BY <1>2, <2>1, <2>3, <2>4, <2>5, PolicyConstants
<1>5. Total(AttemptsHeard(o, snaps)) = n /\ Total(SuccessesHeard(o, snaps)) = m
  <2>1. PICK f : f = AttemptsHeard(o, snaps)
    OBVIOUS
  <2>2. PICK g : g = SuccessesHeard(o, snaps)
    OBVIOUS
  <2>3. DOMAIN f = {i} /\ f[i] = n /\ DOMAIN g = {i} /\ g[i] = m
    BY <1>2, <1>3, <2>1, <2>2 DEF AttemptsHeard, SuccessesHeard
  <2> QED BY <1>4, <2>1, <2>2, <2>3, TotalOfOne
<1>6. Tried(o, snaps) = n
  BY <1>4, <1>5, TallyIs, ClampsCount, PolicyConstants
<1>7. PICK w : w = Won(o, snaps)
  OBVIOUS
<1>8. w \in Nat /\ w <= n /\ 4 * w >= 3 * n
  <2>1. PICK c : c = ClampCount(m)
    OBVIOUS
  <2>2. c = IF m > MaxSamples THEN MaxSamples ELSE m
    BY <1>4, <2>1, ClampsCount
  <2>3. w = IF c > n THEN n ELSE c
    BY <1>5, <1>6, <1>7, <2>1, TallyIs
  <2> QED BY <1>4, <2>2, <2>3, PolicyConstants
<1>9. PICK j, t : j = Won(r, snaps) /\ t = Tried(r, snaps)
  OBVIOUS
<1>10. t \in 0..1 /\ j \in 0..t
  BY <1>9, TallyTyped
<1>11. (w + 1) * (t + 2) > (j + 1) * (n + 2)
  <2>1. CASE t = 0
    <3>1. j = 0
      BY <1>10, <2>1
    <3> QED BY <1>4, <1>8, <2>1, <3>1
  <2>2. CASE t = 1 /\ j = 0
    BY <1>4, <1>8, <2>2
  <2>3. CASE t = 1 /\ j = 1
    BY <1>4, <1>8, <2>3
  <2> QED BY <1>10, <2>1, <2>2, <2>3
<1>12. Above(w, n, j, t)
  BY <1>11 DEF Above
<1>13. Outranks(o, r, snaps)
  BY <1>6, <1>7, <1>9, <1>12, OutranksIs
<1> QED BY <1>4, <1>6, <1>13, OutranksIsAnOrder

LEMMA RailEarned ==
    ASSUME NEW q, IsMove(q), Len(q.available) <= MaxRailsScanned
    PROVE  Earned(q, ChooseRail(q.cancelled, q.current, q.available, q.snaps))
<1>1. PICK g, cur, av, snaps : g = q.cancelled /\ cur = q.current /\ av = q.available /\ snaps = q.snaps
  OBVIOUS
<1>2. g \in BOOLEAN /\ IsList(av) /\ IsLandscape(snaps)
  BY <1>1 DEF IsMove, IsList, IsLandscape, IsWindow
<1>3. PICK r : r = ChooseRail(g, cur, av, snaps)
  OBVIOUS
<1>4. PICK cands : cands = Candidates(cur, av, snaps)
  OBVIOUS
<1>5. (g \/ cands = {} => r = "none") /\ (~g /\ cands # {} => IsBest(r, cands, snaps))
  BY <1>2, <1>3, <1>4, Chosen
<1>6. Offers(q) = Scanned(cur, av)
  BY <1>1, <1>2, ListRead DEF Offers
<1>7. \A o \in Offers(q) : o \in KnownRails /\ (o \in cands <=> ~OutOfUse(o, snaps))
  BY <1>4, <1>6 DEF Candidates, Usable, OutOfUse, Scanned
<1>8. cands \subseteq Offers(q)
  BY <1>4, <1>6 DEF Candidates
<1>9. CASE r = "none"
  <2>1. IsBest(r, cands, snaps) => FALSE
    BY <1>7, <1>8, <1>9 DEF IsBest, KnownRails
  <2>2. g \/ \A o \in Offers(q) : OutOfUse(o, snaps)
    BY <1>5, <1>7, <2>1
  <2> QED BY <1>1, <1>3, <1>9, <2>2, Zenon DEF Earned
<1>10. CASE r # "none"
  <2>1. ~g /\ cands # {} /\ IsBest(r, cands, snaps)
    BY <1>5, <1>10
  <2>2. r \in Offers(q) /\ ~OutOfUse(r, snaps) /\ r \in cands
    BY <1>7, <1>8, <2>1 DEF IsBest
  <2>3. ASSUME NEW p \in Bijection(DOMAIN av, DOMAIN av)
        PROVE  ChooseRail(g, cur, [k \in DOMAIN av |-> av[p[k]]], snaps) = r
    <3>1. PICK s : s = [k \in DOMAIN av |-> av[p[k]]]
      OBVIOUS
    <3>2. DOMAIN av = 1..Len(av)
      BY <1>2 DEF IsList
    <3>3. Scanned(cur, s) = Scanned(cur, av)
      BY <1>2, <3>1, <3>2, ListPermuted
    <3>4. Candidates(cur, s, snaps) = cands
      BY <1>4, <3>3 DEF Candidates
    <3>5. IsBest(ChooseRail(g, cur, s, snaps), cands, snaps)
      BY <1>2, <2>1, <3>4, Chosen
    <3> QED BY <1>2, <2>1, <3>1, <3>5, BestIsUnique
  <2>4. Methods(ChooseRail(g, cur, av, Better(r, snaps))) = Methods(r)
    <3>1. PICK b : b = Better(r, snaps)
      OBVIOUS
    <3>2. Improved(snaps, b, r)
      BY <1>2, <3>1, BetterIsImproved
    <3>3. Candidates(cur, av, b) = cands
      BY <1>4, <3>2, ImprovedCandidates
    <3>4. IsLandscape(b)
      BY <3>2 DEF Improved
    <3>5. PICK s : s = ChooseRail(g, cur, av, b)
      OBVIOUS
    <3>6. IsBest(s, cands, b)
      BY <1>2, <2>1, <3>3, <3>4, <3>5, Chosen
    <3>7. cands \subseteq KnownRails
      BY <1>7, <1>8
    <3>8. Methods(s) = Methods(r)
      BY <1>2, <2>1, <3>2, <3>6, <3>7, BestStaysBest
    <3> QED BY <3>1, <3>5, <3>8
  <2>5. ASSUME Tally(r, snaps).attempts <= 1, NEW o \in Offers(q), NEW i \in Heard(o, snaps),
               Proven(snaps[i])
        PROVE  Heard(o, snaps) # {i}
    <3>1. SUFFICES ASSUME Heard(o, snaps) = {i} PROVE FALSE
      OBVIOUS
    <3>2. Tried(r, snaps) <= 1
      BY <2>5 DEF Tried
    <3>3. ~Outranks(r, o, snaps) /\ Tried(o, snaps) >= 10
      BY <1>2, <2>5, <3>1, <3>2, ProvenOutranks DEF Proven
    <3>4. o \in cands
      <4>1. i \in IssuerKeys(o, snaps) /\ ~Blocked(snaps[i])
        BY DEF Heard
      <4> QED BY <1>7, <4>1 DEF OutOfUse
    <3>5. o # r
      <4>1. Tried(r, snaps) \in Int
        BY <1>2, TallyTyped
      <4> QED BY <3>2, <3>3, <4>1
    <3> QED BY <2>1, <3>3, <3>4, <3>5 DEF IsBest
  <2> QED BY <1>1, <1>3, <1>10, <2>2, <2>3, <2>4, <2>5, Zenon DEF Earned
<1> QED BY <1>1, <1>3, <1>9, <1>10

-----------------------------------------------------------------------------
(* The wait *)

\* The wait after the one before.
Twice(n) == IF n < LargestBackoff THEN 2 * n ELSE n

Doubles(first, g) ==
    g = [n \in 0..MaxDoublings |-> IF n = 0 THEN first ELSE Twice(g[n - 1])]

LEMMA DoublesExist ==
    ASSUME NEW first
    PROVE  \E g : Doubles(first, g)
<1> DEFINE Has(m) == \E g : g = [h \in 0..m |-> IF h = 0 THEN first ELSE Twice(g[h - 1])]
<1> DEFINE Bad == {m \in Nat : ~Has(m)}
<1>1. SUFFICES ASSUME Bad # {} PROVE FALSE
  BY PolicyConstants DEF Doubles
<1>2. PICK m \in Bad : \A k \in Bad : m <= k
  BY <1>1, LeastNatural
<1>3. Has(0)
  <2> DEFINE g == [h \in 0..0 |-> first]
  <2>1. g = [h \in 0..0 |-> IF h = 0 THEN first ELSE Twice(g[h - 1])]
    OBVIOUS
  <2> QED BY <2>1
<1>4. m # 0 /\ m \in Nat /\ m - 1 \in Nat
  BY <1>2, <1>3
<1>5. Has(m - 1)
  <2>1. ~(m <= m - 1)
    BY <1>4
  <2>2. m - 1 \notin Bad
    BY <1>2, <2>1, Zenon
  <2> QED BY <1>4, <2>2
<1>6. PICK g : g = [h \in 0..(m - 1) |-> IF h = 0 THEN first ELSE Twice(g[h - 1])]
  BY <1>5
<1> DEFINE f == [h \in 0..m |-> IF h = m THEN Twice(g[m - 1]) ELSE g[h]]
<1>7. \A h \in 0..m : f[h] = IF h = 0 THEN first ELSE Twice(f[h - 1])
  <2> SUFFICES ASSUME NEW h \in 0..m PROVE f[h] = IF h = 0 THEN first ELSE Twice(f[h - 1])
    OBVIOUS
  <2>1. CASE h = m
    <3>1. f[h] = Twice(g[m - 1]) /\ h # 0
      BY <2>1, <1>4
    <3>2. f[h - 1] = g[m - 1]
      BY <2>1, <1>4
    <3> QED BY <3>1, <3>2
  <2>2. CASE h # m
    <3>1. h \in 0..(m - 1) /\ f[h] = g[h]
      BY <2>2, <1>4
    <3>2. g[h] = IF h = 0 THEN first ELSE Twice(g[h - 1])
      BY <3>1, <1>6
    <3>3. h # 0 => f[h - 1] = g[h - 1]
      BY <3>1, <1>4
    <3> QED BY <3>1, <3>2, <3>3
  <2> QED BY <2>1, <2>2
<1>8. f = [h \in 0..m |-> IF h = 0 THEN first ELSE Twice(f[h - 1])]
  <2> HIDE <1>6
  <2>1. f = [h \in 0..m |-> f[h]]
    BY Zenon
  <2> QED BY <1>7, <2>1, Zenon
<1>9. Has(m)
  BY <1>8
<1> QED BY <1>2, <1>9

LEMMA DoubledIs ==
    ASSUME NEW first
    PROVE  \E g : Doubles(first, g) /\ \A n : Doubled(first, n) = g[n]
<1>1. PICK h : Doubles(first, h)
  BY DoublesExist
<1> DEFINE wait == CHOOSE g : g = [n \in 0..MaxDoublings |->
                      IF n = 0 THEN first
                      ELSE LET before == g[n - 1]
                           IN  IF before < LargestBackoff THEN 2 * before ELSE before]
<1>2. h = [n \in 0..MaxDoublings |->
                      IF n = 0 THEN first
                      ELSE LET before == h[n - 1]
                           IN  IF before < LargestBackoff THEN 2 * before ELSE before]
  BY <1>1, Zenon DEF Doubles, Twice
<1>3. wait = [n \in 0..MaxDoublings |->
                      IF n = 0 THEN first
                      ELSE LET before == wait[n - 1]
                           IN  IF before < LargestBackoff THEN 2 * before ELSE before]
  BY <1>2, Zenon
<1>4. Doubles(first, wait)
  BY <1>3, Zenon DEF Doubles, Twice
<1>5. \A n : Doubled(first, n) = wait[n]
  BY Zenon DEF Doubled
<1> HIDE DEF wait
<1> QED BY <1>4, <1>5

LEMMA DoublesSteps ==
    ASSUME NEW first \in Nat, NEW g, Doubles(first, g)
    PROVE  /\ g[0] = first
           /\ \A n \in 0..MaxDoublings : g[n] \in Nat /\ first <= g[n]
           /\ \A n \in 1..MaxDoublings : g[n] = Twice(g[n - 1]) /\ g[n - 1] <= g[n]
<1>1. MaxDoublings \in Nat /\ LargestBackoff \in Nat
  BY PolicyConstants
<1>2. g[0] = first
  BY <1>1 DEF Doubles
<1>3. \A n \in 1..MaxDoublings : g[n] = Twice(g[n - 1])
  BY <1>1 DEF Doubles
<1>4. \A n \in Nat : Twice(n) \in Nat /\ n <= Twice(n)
  BY <1>1 DEF Twice
<1> DEFINE Fine(n) == g[n] \in Nat /\ first <= g[n]
           Bad == {n \in Nat : n <= MaxDoublings /\ ~Fine(n)}
<1>5. Bad = {}
  <2>1. SUFFICES ASSUME Bad # {} PROVE FALSE
    OBVIOUS
  <2>2. PICK n \in Bad : \A m \in Bad : n <= m
    BY <2>1, LeastNatural
  <2>3. n # 0 /\ n \in Nat /\ n <= MaxDoublings
    BY <1>2, <2>2
  <2>4. n - 1 \in Nat /\ ~(n <= n - 1) /\ n - 1 <= MaxDoublings
    BY <1>1, <2>3
  <2>5. n - 1 \notin Bad
    BY <2>2, <2>4, Zenon
  <2>6. Fine(n - 1)
    BY <2>4, <2>5
  <2>7. n \in 1..MaxDoublings
    BY <1>1, <2>3
  <2>8. PICK a \in Nat : a = g[n - 1] /\ first <= a /\ g[n] = Twice(a)
    BY <1>3, <2>6, <2>7
  <2>9. Fine(n)
    BY <1>4, <2>8
  <2> QED BY <2>2, <2>9
<1>6. \A n \in 0..MaxDoublings : Fine(n)
  BY <1>1, <1>5
<1>7. \A n \in 1..MaxDoublings : g[n - 1] <= g[n]
  <2> SUFFICES ASSUME NEW n \in 1..MaxDoublings PROVE g[n - 1] <= g[n]
    OBVIOUS
  <2>1. n - 1 \in 0..MaxDoublings
    BY <1>1
  <2> QED BY <1>3, <1>4, <1>6, <2>1
<1> QED BY <1>2, <1>3, <1>6, <1>7

\* What is below the limit keeps its order as it is doubled.
LEMMA DoublesOrdered ==
    ASSUME NEW a \in Nat, NEW b \in Nat, a <= b, NEW g, Doubles(a, g), NEW h, Doubles(b, h)
    PROVE  \A n \in 0..MaxDoublings : g[n] <= h[n] \/ LargestBackoff <= h[n]
<1>1. MaxDoublings \in Nat /\ LargestBackoff \in Nat
  BY PolicyConstants
<1> DEFINE Fine(n) == g[n] <= h[n] \/ LargestBackoff <= h[n]
           Bad == {n \in Nat : n <= MaxDoublings /\ ~Fine(n)}
<1>2. Bad = {}
  <2>1. SUFFICES ASSUME Bad # {} PROVE FALSE
    OBVIOUS
  <2>2. PICK n \in Bad : \A m \in Bad : n <= m
    BY <2>1, LeastNatural
  <2>3. n # 0 /\ n \in Nat /\ n <= MaxDoublings
    BY <2>2, DoublesSteps
  <2>4. n - 1 \in Nat /\ ~(n <= n - 1) /\ n - 1 <= MaxDoublings
    BY <1>1, <2>3
  <2>5. n - 1 \notin Bad
    BY <2>2, <2>4, Zenon
  <2>6. Fine(n - 1)
    BY <2>4, <2>5
  <2>7. n \in 1..MaxDoublings /\ n - 1 \in 0..MaxDoublings
    BY <1>1, <2>3
  <2>8. PICK x \in Nat : x = g[n - 1] /\ g[n] = Twice(x)
    BY <2>7, DoublesSteps
  <2>9. PICK y \in Nat : y = h[n - 1] /\ h[n] = Twice(y)
    BY <2>7, DoublesSteps
  <2>10. Fine(n)
    BY <1>1, <2>6, <2>8, <2>9 DEF Twice
  <2> QED BY <2>2, <2>10
<1> QED BY <1>1, <1>2

\* A clamp keeps the order.
LEMMA ClampIs ==
    ASSUME NEW v \in Int, NEW lo \in Int, NEW hi \in Int, lo <= hi
    PROVE  /\ Clamp(v, lo, hi) = (IF v < lo THEN lo ELSE IF v > hi THEN hi ELSE v)
           /\ Clamp(v, lo, hi) \in lo..hi
  BY DEF Clamp

LEMMA BaseTyped == \A class : BaseBackoff(class) \in Nat
<1> SUFFICES ASSUME NEW class PROVE BaseBackoff(class) \in Nat
  OBVIOUS
<1>1. LargestBackoff \in Nat
  BY PolicyConstants
<1> QED BY <1>1 DEF BaseBackoff

\* Fewer than one success in twenty.
FaintAt(n, a) == n > 0 /\ (a * 10000) \div n < 500

Faint(s) == FaintAt(ClampCount(s.attempts), Succeeded(s))

LEMMA DivisionOrdered ==
    ASSUME NEW a \in Nat, NEW b \in Nat, NEW n \in Nat \ {0}, a <= b
    PROVE  (a * 10000) \div n <= (b * 10000) \div n /\ (b * 10000) \div n \in Nat
<1>1. PICK x, y : x \in Int /\ y \in Int /\ x = (a * 10000) \div n /\ y = (b * 10000) \div n
  OBVIOUS
<1>2. n * x <= a * 10000 /\ b * 10000 < n * y + n
  BY <1>1
<1>3. n * x < n * y + n
  BY <1>1, <1>2
<1>4. x < y + 1
  BY <1>1, <1>3
<1>5. y >= 0
  BY <1>1
<1> QED BY <1>1, <1>4, <1>5

LEMMA DepthIs ==
    ASSUME NEW s, IsWindow(s)
    PROVE  /\ s.open => OutageDepth(s) = 4
           /\ ~s.open /\ ~Wobbles(s) => OutageDepth(s) = 1
           /\ ~s.open /\ Wobbles(s) => OutageDepth(s) = IF Faint(s) THEN 4 ELSE 2
           /\ OutageDepth(s) \in {1, 2, 4}
<1>1. CASE s.open
  <2>1. OutageDepth(s) = 4
    BY <1>1, Zenon DEF OutageDepth
  <2> QED BY <1>1, <2>1
<1>2. CASE ~s.open /\ ~Wobbles(s)
  <2>1. OutageDepth(s) = 1
    BY <1>2, Zenon DEF OutageDepth
  <2> QED BY <1>2, <2>1
<1>3. CASE ~s.open /\ Wobbles(s)
  <2>1. OutageDepth(s) = IF Faint(s) THEN 4 ELSE 2
    BY <1>3, Zenon DEF OutageDepth, Faint, FaintAt
  <2> QED BY <1>3, <2>1
<1> QED BY <1>1, <1>2, <1>3

\* Worse news of an issuer: fewer successes.
LEMMA DepthOrdered ==
    ASSUME NEW w, IsWindow(w), NEW v, IsWindow(v), SameButSuccesses(w, v), w.successes <= v.successes
    PROVE  OutageDepth(v) <= OutageDepth(w)
<1>1. (Wobbles(v) => Wobbles(w)) /\ (v.open <=> w.open)
  BY MoreIsBetter, Zenon DEF SameButSuccesses
<1>2. Faint(v) => Faint(w)
  <2>1. PICK n, a, b : n = ClampCount(w.attempts) /\ a = Succeeded(w) /\ b = Succeeded(v)
    OBVIOUS
  <2>2. n = ClampCount(v.attempts) /\ a <= b
    BY <2>1, MoreIsBetter
  <2>3. n \in Nat /\ a \in Nat /\ b \in Nat
    BY <2>1, SucceededIs
  <2>9. SUFFICES ASSUME FaintAt(n, b) PROVE FaintAt(n, a)
    BY <2>1, <2>2, Zenon DEF Faint
  <2>4. n > 0 /\ (b * 10000) \div n < 500
    BY <2>9 DEF FaintAt
  <2>5. PICK x, y : x = (a * 10000) \div n /\ y = (b * 10000) \div n
    OBVIOUS
  <2>6. n \in Nat \ {0}
    BY <2>3, <2>4
  <2>7. x <= y /\ y \in Nat /\ x \in Int
    BY <2>2, <2>3, <2>5, <2>6, DivisionOrdered
  <2> QED BY <2>4, <2>5, <2>7 DEF FaintAt
<1>3. CASE w.open
  BY <1>1, <1>3, DepthIs
<1>4. CASE ~w.open /\ ~Wobbles(v)
  <2>1. OutageDepth(v) = 1
    BY <1>1, <1>4, DepthIs
  <2> QED BY <2>1, DepthIs
<1>5. CASE ~w.open /\ Wobbles(v)
  <2>1. /\ OutageDepth(v) = IF Faint(v) THEN 4 ELSE 2
        /\ OutageDepth(w) = IF Faint(w) THEN 4 ELSE 2
    BY <1>1, <1>5, DepthIs
  <2> QED BY <1>2, <2>1
<1> QED BY <1>3, <1>4, <1>5

LEMMA FirstTyped ==
    ASSUME NEW class, NEW s, IsWindow(s)
    PROVE  FirstBackoff(class, s) \in Nat
<1>1. BaseBackoff(class) \in Nat /\ OutageDepth(s) \in {1, 2, 4}
  BY BaseTyped, DepthIs
<1> QED BY <1>1 DEF FirstBackoff

LEMMA FirstOrdered ==
    ASSUME NEW class, NEW w, IsWindow(w), NEW v, IsWindow(v), OutageDepth(v) <= OutageDepth(w)
    PROVE  FirstBackoff(class, v) <= FirstBackoff(class, w)
<1>1. PICK b, d, e : b = BaseBackoff(class) /\ d = OutageDepth(v) /\ e = OutageDepth(w)
  OBVIOUS
<1>2. b \in Nat /\ d \in {1, 2, 4} /\ e \in {1, 2, 4} /\ d <= e
  BY <1>1, BaseTyped, DepthIs
<1> QED BY <1>1, <1>2 DEF FirstBackoff

LEMMA CeilingIs ==
    ASSUME NEW class, NEW s
    PROVE  \E g : /\ Doubles(FirstBackoff(class, s), g)
                  /\ \A a : BackoffCeiling(a, class, s) =
                        Clamp(g[Clamp(a, 1, MaxDoublings) - 1], SmallestBackoff, LargestBackoff)
<1>1. PICK f : f = FirstBackoff(class, s)
  OBVIOUS
<1>2. PICK g : Doubles(f, g) /\ \A n : Doubled(f, n) = g[n]
  BY DoubledIs
<1> QED BY <1>1, <1>2 DEF BackoffCeiling

\* The bounds of a schedule, by the number of doublings.
LEMMA ScheduleBounds ==
    ASSUME NEW first \in Nat, NEW g, Doubles(first, g), NEW n \in 0..MaxDoublings
    PROVE  Clamp(g[n], SmallestBackoff, LargestBackoff) \in SmallestBackoff..LargestBackoff
<1>1. g[n] \in Int
  BY DoublesSteps
<1>2. SmallestBackoff \in Int /\ LargestBackoff \in Int /\ SmallestBackoff <= LargestBackoff
  BY PolicyConstants
<1> QED BY <1>1, <1>2, ClampIs

LEMMA CeilingBounds ==
    ASSUME NEW class, NEW s, IsWindow(s), NEW a \in Int
    PROVE  BackoffCeiling(a, class, s) \in SmallestBackoff..LargestBackoff
<1>1. PICK first : first = FirstBackoff(class, s) /\ first \in Nat
  BY FirstTyped
<1>2. PICK g : /\ Doubles(first, g)
               /\ BackoffCeiling(a, class, s) =
                    Clamp(g[Clamp(a, 1, MaxDoublings) - 1], SmallestBackoff, LargestBackoff)
  BY <1>1, CeilingIs
<1>3. Clamp(a, 1, MaxDoublings) - 1 \in 0..MaxDoublings
  BY PolicyConstants DEF Clamp
<1> QED BY <1>1, <1>2, <1>3, ScheduleBounds

\* One attempt more waits no less; it waits twice as long within the bounds.
LEMMA CeilingGrows ==
    ASSUME NEW class, NEW s, IsWindow(s), NEW a \in Int
    PROVE  LET top == BackoffCeiling(a, class, s)
               next == BackoffCeiling(a + 1, class, s)
           IN  /\ top <= next
               /\ a <= 1 => top = Clamp(FirstBackoff(class, s), SmallestBackoff, LargestBackoff)
               /\ a \in 1..(MaxDoublings - 1) /\ FirstBackoff(class, s) >= SmallestBackoff =>
                    next = Clamp(2 * top, SmallestBackoff, LargestBackoff)
<1>1. PICK first : first = FirstBackoff(class, s) /\ first \in Nat
  BY FirstTyped
<1>2. PICK g : /\ Doubles(first, g)
               /\ \A b : BackoffCeiling(b, class, s) =
                    Clamp(g[Clamp(b, 1, MaxDoublings) - 1], SmallestBackoff, LargestBackoff)
  BY <1>1, CeilingIs
<1>3. PICK m, n : m = Clamp(a, 1, MaxDoublings) - 1 /\ n = Clamp(a + 1, 1, MaxDoublings) - 1
  OBVIOUS
<1>4. MaxDoublings \in Nat \ {0}
  BY PolicyConstants
<1>5. /\ m = (IF a < 1 THEN 0 ELSE IF a > MaxDoublings THEN MaxDoublings - 1 ELSE a - 1)
      /\ n = (IF a + 1 < 1 THEN 0 ELSE IF a + 1 > MaxDoublings THEN MaxDoublings - 1 ELSE a)
  BY <1>3, <1>4 DEF Clamp
<1>6. /\ m \in 0..MaxDoublings /\ n \in 0..MaxDoublings /\ n \in {m, m + 1}
      /\ a <= 1 => m = 0
      /\ a \in 1..(MaxDoublings - 1) => n = m + 1
  BY <1>4, <1>5
<1>7. PICK x, y : x = g[m] /\ y = g[n] /\ x \in Nat /\ y \in Nat /\ first <= x /\ x <= y
  <2>1. g[m] \in Nat /\ g[n] \in Nat /\ first <= g[m]
    BY <1>1, <1>2, <1>6, DoublesSteps
  <2>2. g[m] <= g[n]
    <3>1. CASE n = m
      BY <2>1, <3>1
    <3>2. CASE n = m + 1
      <4>1. n \in 1..MaxDoublings /\ n - 1 = m
        BY <1>4, <1>6, <3>2
      <4> QED BY <1>1, <1>2, <4>1, DoublesSteps
    <3> QED BY <1>6, <3>1, <3>2
  <2> QED BY <2>1, <2>2
<1>8. PICK top, next : /\ top = BackoffCeiling(a, class, s) /\ next = BackoffCeiling(a + 1, class, s)
                       /\ top = Clamp(x, SmallestBackoff, LargestBackoff)
                       /\ next = Clamp(y, SmallestBackoff, LargestBackoff)
  BY <1>2, <1>3, <1>7
<1>9. SmallestBackoff \in Nat /\ LargestBackoff \in Nat /\ SmallestBackoff < LargestBackoff
  BY PolicyConstants
<1>10. top <= next
  BY <1>7, <1>8, <1>9 DEF Clamp
<1>11. ASSUME a <= 1 PROVE top = Clamp(first, SmallestBackoff, LargestBackoff)
  <2>1. x = first
    BY <1>1, <1>2, <1>6, <1>7, <1>11, DoublesSteps
  <2> QED BY <1>8, <2>1
<1>12. ASSUME a \in 1..(MaxDoublings - 1), first >= SmallestBackoff
       PROVE  next = Clamp(2 * top, SmallestBackoff, LargestBackoff)
  <2>1. n \in 1..MaxDoublings /\ n - 1 = m
    BY <1>4, <1>6, <1>12
  <2>2. y = Twice(x)
    BY <1>1, <1>2, <1>7, <2>1, DoublesSteps
  <2> QED BY <1>1, <1>7, <1>8, <1>9, <1>12, <2>2 DEF Clamp, Twice
<1> QED BY <1>1, <1>8, <1>10, <1>11, <1>12

\* Worse news waits no less.
LEMMA CeilingOrdered ==
    ASSUME NEW class, NEW w, IsWindow(w), NEW v, IsWindow(v), OutageDepth(v) <= OutageDepth(w),
           NEW a \in Int
    PROVE  BackoffCeiling(a, class, v) <= BackoffCeiling(a, class, w)
<1>1. PICK d, e : d = FirstBackoff(class, v) /\ e = FirstBackoff(class, w)
  OBVIOUS
<1>2. d \in Nat /\ e \in Nat /\ d <= e
  BY <1>1, FirstTyped, FirstOrdered
<1>3. PICK n : n = Clamp(a, 1, MaxDoublings) - 1
  OBVIOUS
<1>4. n \in 0..MaxDoublings
  BY <1>3, PolicyConstants DEF Clamp
<1>5. PICK g : Doubles(d, g) /\ BackoffCeiling(a, class, v) = Clamp(g[n], SmallestBackoff, LargestBackoff)
  BY <1>1, <1>3, CeilingIs
<1>6. PICK h : Doubles(e, h) /\ BackoffCeiling(a, class, w) = Clamp(h[n], SmallestBackoff, LargestBackoff)
  BY <1>1, <1>3, CeilingIs
<1>7. PICK x, y : x = g[n] /\ y = h[n] /\ x \in Nat /\ y \in Nat
  BY <1>2, <1>4, <1>5, <1>6, DoublesSteps
<1>8. x <= y \/ LargestBackoff <= y
  BY <1>2, <1>4, <1>5, <1>6, <1>7, DoublesOrdered
<1>9. SmallestBackoff \in Nat /\ LargestBackoff \in Nat /\ SmallestBackoff < LargestBackoff
  BY PolicyConstants
<1>10. Clamp(x, SmallestBackoff, LargestBackoff) <= Clamp(y, SmallestBackoff, LargestBackoff)
  BY <1>7, <1>8, <1>9 DEF Clamp
<1> QED BY <1>5, <1>6, <1>7, <1>10

LEMMA Opened ==
    ASSUME NEW w, IsWindow(w), NEW v, v = [w EXCEPT !.open = TRUE]
    PROVE  IsWindow(v) /\ v.open
<1>1. w \in [open : BOOLEAN, attempts : Nat, successes : Nat, baseline : Nat, age : Int]
  BY DEF IsWindow, Readings
<1>2. PICK g \in BOOLEAN : g = TRUE
  OBVIOUS
<1>3. v = [w EXCEPT !.open = g]
  BY <1>2, Zenon
<1>4. v \in [open : BOOLEAN, attempts : Nat, successes : Nat, baseline : Nat, age : Int] /\ v.open = g
  <2> HIDE <1>2
  <2> QED BY <1>1, <1>3
<1> QED BY <1>2, <1>4, Zenon DEF IsWindow, Readings

LEMMA WaitOrdered ==
    ASSUME NEW q, q.snap \in Readings, q.attempt \in Int, NEW d \in Draws(q), q.cancelled \in BOOLEAN
    PROVE  Ordered(q, d)
<1>1. PICK a, c, s : a = q.attempt /\ c = q.class /\ s = q.snap
  OBVIOUS
<1>2. a \in Int /\ IsWindow(s)
  BY <1>1 DEF IsWindow
<1>3. PICK top, next : top = BackoffCeiling(a, c, s) /\ next = BackoffCeiling(a + 1, c, s)
  OBVIOUS
<1>4. top \in SmallestBackoff..LargestBackoff
  BY <1>2, <1>3, CeilingBounds
<1>5. d \in SmallestBackoff..top /\ top <= LargestBackoff
  <2>1. d \in {top} \cup {SmallestBackoff, (SmallestBackoff + top) \div 2, top}
    BY <1>1, <1>3, Zenon DEF Draws
  <2>2. SmallestBackoff \in Nat /\ LargestBackoff \in Nat
    BY PolicyConstants
  <2> QED BY <1>4, <2>1, <2>2
<1>6. /\ top <= next
      /\ a <= 1 => top = Clamp(FirstBackoff(c, s), SmallestBackoff, LargestBackoff)
      /\ a \in 1..(MaxDoublings - 1) /\ FirstBackoff(c, s) >= SmallestBackoff =>
           next = Clamp(2 * top, SmallestBackoff, LargestBackoff)
  BY <1>2, <1>3, CeilingGrows
<1>7. ASSUME s.successes > 0
      PROVE  top <= BackoffCeiling(a, c, [s EXCEPT !.successes = @ - 1])
  <2>1. PICK w : w = [s EXCEPT !.successes = @ - 1]
    OBVIOUS
  <2>2. IsWindow(w) /\ SameButSuccesses(s, w) /\ w.successes = s.successes - 1
    BY <1>2, <1>7, <2>1, OneLessSuccess, Zenon
  <2>3. SameButSuccesses(w, s)
    BY <2>2, Zenon DEF SameButSuccesses
  <2>4. w.successes <= s.successes
    BY <1>2, <2>2, WindowFields
  <2>5. OutageDepth(s) <= OutageDepth(w)
    BY <1>2, <2>2, <2>3, <2>4, DepthOrdered
  <2>6. top <= BackoffCeiling(a, c, w)
    BY <1>2, <1>3, <2>2, <2>5, CeilingOrdered
  <2> QED BY <2>1, <2>6
<1>8. top <= BackoffCeiling(a, c, [s EXCEPT !.open = TRUE])
  <2>1. PICK w : w = [s EXCEPT !.open = TRUE]
    OBVIOUS
  <2>2. IsWindow(w) /\ w.open
    BY <1>2, <2>1, Opened, Zenon
  <2>3. OutageDepth(s) <= OutageDepth(w)
    <3>1. OutageDepth(w) = 4 /\ OutageDepth(s) \in {1, 2, 4}
      BY <1>2, <2>2, DepthIs
    <3> QED BY <3>1
  <2>4. top <= BackoffCeiling(a, c, w)
    BY <1>2, <1>3, <2>2, <2>3, CeilingOrdered
  <2> QED BY <2>1, <2>4
<1> QED BY <1>1, <1>3, <1>5, <1>6, <1>7, <1>8, Zenon DEF Ordered

-----------------------------------------------------------------------------
(* The worth *)

LEMMA ShareBounds ==
    ASSUME NEW m, m \in Nat \ {0}, NEW a, a \in Nat, NEW b, b \in Nat, b <= m
    PROVE  /\ (a * b) \div m \in Nat
           /\ m * ((a * b) \div m) <= a * b
           /\ (a * b) \div m <= a
           /\ b = 0 => (a * b) \div m = 0
<1>1. PICK p : p \in Nat /\ p = a * b /\ p <= a * m /\ (b = 0 => p = 0)
  OBVIOUS
<1>2. PICK x : x = p \div m
  OBVIOUS
<1>3. x \in Nat /\ m * x <= p
  BY <1>1, <1>2
<1>4. m * x <= m * a
  BY <1>1, <1>3
<1>5. x <= a
  BY <1>3, <1>4
<1>6. p = 0 => x = 0
  BY <1>2, <1>3
<1> QED BY <1>1, <1>2, <1>3, <1>5, <1>6

LEMMA WorthHolds ==
    ASSUME NEW q \in Prices
    PROVE  NotOverstated(q, ExpectedValue(q))
<1>1. /\ q.amount \in Int /\ q.bps \in Int /\ q.attempts \in Int /\ q.fee \in Int /\ q.friction \in Int
      /\ q.cancelled \in BOOLEAN
  BY DEF Prices
<1>2. MaxAmount \in Nat /\ MaxCost \in Nat /\ MaxPriced \in Nat
  BY PolicyConstants
<1>3. PICK m : m = BasisPoints
  OBVIOUS
<1>4. m \in Nat \ {0}
  BY <1>3 DEF BasisPoints
<1>5. PICK a, b, n, f, l : /\ a = Clamp(q.amount, 0, MaxAmount) /\ b = Clamp(q.bps, 0, m)
                           /\ n = Clamp(q.attempts, 0, MaxPriced) /\ f = Clamp(q.fee, 0, MaxCost)
                           /\ l = Clamp(q.friction, 0, MaxCost)
  OBVIOUS
<1> HIDE <1>3
<1>6. /\ a \in Nat /\ a <= MaxAmount /\ b \in Nat /\ b <= m /\ n \in Nat /\ f \in Nat /\ l \in Nat
  BY <1>1, <1>2, <1>4, <1>5 DEF Clamp
<1>7. PICK c : c = (IF q.cancelled THEN 0 ELSE b)
  OBVIOUS
<1>8. c \in Nat /\ c <= b /\ c <= m /\ (q.cancelled => c = 0)
  BY <1>4, <1>6, <1>7
<1>9. PICK g, k : g = (a * c) \div m /\ k = n * f
  OBVIOUS
<1>10. g \in Nat /\ m * g <= a * c /\ g <= a /\ (c = 0 => g = 0)
  BY <1>4, <1>6, <1>8, <1>9, ShareBounds
<1>11. k \in Nat
  BY <1>6, <1>9
<1>12. PICK v : v = ExpectedValue(q)
  OBVIOUS
<1>13. v = g - k - l
  <2>1. ExpectedValue(q) =
          (Clamp(q.amount, 0, MaxAmount) * (IF q.cancelled THEN 0 ELSE Clamp(q.bps, 0, BasisPoints))) \div BasisPoints
            - Clamp(q.attempts, 0, MaxPriced) * Clamp(q.fee, 0, MaxCost) - Clamp(q.friction, 0, MaxCost)
    BY Zenon DEF ExpectedValue
  <2>2. c = IF q.cancelled THEN 0 ELSE Clamp(q.bps, 0, BasisPoints)
    BY <1>3, <1>5, <1>7, Zenon
  <2>3. ExpectedValue(q) = (a * c) \div BasisPoints - n * f - l
    BY <1>5, <2>1, <2>2, Zenon
  <2> QED BY <1>3, <1>9, <1>12, <2>3, Zenon
<1>14. PICK x, y : x = a * c /\ y = a * b /\ x \in Nat /\ y \in Nat /\ x <= y
  BY <1>6, <1>8
<1>15. m * (v + l) <= y
  <2>1. v + l = g - k /\ g - k <= g /\ g - k \in Int
    BY <1>6, <1>10, <1>11, <1>13
  <2>2. m * (g - k) <= m * g
    BY <1>4, <1>10, <2>1
  <2>3. m * (g - k) \in Int /\ m * g \in Int
    BY <1>4, <1>10, <1>11
  <2> QED BY <1>10, <1>14, <2>1, <2>2, <2>3
<1>16. q.cancelled => v <= 0
  BY <1>6, <1>8, <1>10, <1>11, <1>13
<1>17. v <= MaxAmount
  BY <1>2, <1>6, <1>10, <1>11, <1>13
<1>18. NotOverstated(q, v) <=> m * (v + l) <= y /\ (q.cancelled => v <= 0) /\ v <= MaxAmount
  <2>1. NotOverstated(q, v) <=>
          /\ BasisPoints * (v + Clamp(q.friction, 0, MaxCost)) <= Clamp(q.amount, 0, MaxAmount) * Clamp(q.bps, 0, BasisPoints)
          /\ q.cancelled => v <= 0
          /\ v <= MaxAmount
    BY Zenon DEF NotOverstated
  <2>2. l = Clamp(q.friction, 0, MaxCost) /\ y = Clamp(q.amount, 0, MaxAmount) * Clamp(q.bps, 0, BasisPoints)
    BY <1>3, <1>5, <1>14, Zenon
  <2> QED BY <1>3, <2>1, <2>2, Zenon
<1> QED BY <1>12, <1>15, <1>16, <1>17, <1>18

-----------------------------------------------------------------------------
(* The engine *)

\* No merchant's list is longer than what is read of it.
ListsFit == \A q \in PolicyQuestions : q.kind = "rail" => Len(q.available) <= MaxRailsScanned

\* The engine has not answered, or its answer is that to its question.
Answered ==
    \/ Unreplied
    \/ /\ question.kind = "rail" /\ reply.kind = "rail"
       /\ reply.rail = ChooseRail(question.cancelled, question.current, question.available, question.snaps)
    \/ /\ question.kind = "backoff" /\ reply.kind = "backoff" /\ reply.delay \in Draws(question)
    \/ /\ question.kind = "value" /\ reply.kind = "value" /\ reply.paisa = ExpectedValue(question)

PolicyInv == question \in PolicyQuestions /\ Answered

LEMMA PolicyStarts == PolicyInit => PolicyInv
  BY DEF PolicyInit, PolicyInv, Answered

LEMMA PolicyStep ==
    ASSUME PolicyInv, [PolicyNext]_policyVars
    PROVE  PolicyInv'
<1>1. CASE PickRail
  BY <1>1 DEF PolicyInv, Answered, PickRail, AnswerWith
<1>2. CASE BackoffFor
  <2>1. PICK d \in Draws(question) : AnswerWith([kind |-> "backoff", delay |-> d])
    BY <1>2 DEF BackoffFor
  <2>2. question' = question /\ question.kind = "backoff" /\ reply'.kind = "backoff" /\ reply'.delay = d
    BY <1>2, <2>1 DEF BackoffFor, AnswerWith
  <2> QED BY <2>2 DEF PolicyInv, Answered
<1>3. CASE Price
  BY <1>3 DEF PolicyInv, Answered, Price, AnswerWith
<1>4. CASE UNCHANGED policyVars
  BY <1>4 DEF PolicyInv, Answered, Unreplied, policyVars
<1> QED BY <1>1, <1>2, <1>3, <1>4 DEF PolicyNext

LEMMA PolicyFollows ==
    ASSUME ListsFit, PolicyInv
    PROVE  PolicySound
<1>1. PICK q : q = question /\ q \in PolicyQuestions
  BY DEF PolicyInv
<1>2. /\ q \in Waits \/ q \in Prices \/ IsMove(q)
      /\ q \in Waits => q.kind = "backoff" /\ q.snap \in Readings /\ q.attempt \in Int /\ q.cancelled \in BOOLEAN
      /\ q \in Prices => q.kind = "value"
      /\ IsMove(q) => q.kind = "rail"
  BY <1>1, PolicyConstants DEF Waits, Prices, IsMove
<1>3. CASE Unreplied
  BY <1>3 DEF Unreplied, Unanswered, PolicySound, BackoffIsOrdered, RailIsEarned, WorthIsNotOverstated
<1>4. CASE q.kind = "rail" /\ reply.kind = "rail" /\ reply.rail = ChooseRail(q.cancelled, q.current, q.available, q.snaps)
  <2>1. IsMove(q) /\ Len(q.available) <= MaxRailsScanned
    BY <1>1, <1>2, <1>4 DEF ListsFit
  <2>2. Earned(q, reply.rail)
    BY <1>4, <2>1, RailEarned
  <2> QED BY <1>1, <1>4, <2>2 DEF PolicySound, BackoffIsOrdered, RailIsEarned, WorthIsNotOverstated
<1>5. CASE q.kind = "backoff" /\ reply.kind = "backoff" /\ reply.delay \in Draws(q)
  <2>1. Ordered(q, reply.delay)
    BY <1>2, <1>5, WaitOrdered
  <2> QED BY <1>1, <1>5, <2>1 DEF PolicySound, BackoffIsOrdered, RailIsEarned, WorthIsNotOverstated
<1>6. CASE q.kind = "value" /\ reply.kind = "value" /\ reply.paisa = ExpectedValue(q)
  <2>1. q \in Prices
    BY <1>2, <1>6
  <2>2. NotOverstated(q, reply.paisa)
    BY <1>6, <2>1, WorthHolds
  <2> QED BY <1>1, <1>6, <2>2 DEF PolicySound, BackoffIsOrdered, RailIsEarned, WorthIsNotOverstated
<1> QED BY <1>1, <1>3, <1>4, <1>5, <1>6 DEF PolicyInv, Answered

\* The engine's answers are sound: the waits are ordered, the rail is earned, the
\* worth is not overstated (internal/policy/policy.go).
THEOREM PolicyIsSound ==
    ASSUME ListsFit
    PROVE  PolicySpec => []PolicySound
<1>1. PolicyInit => PolicyInv
  BY PolicyStarts
<1>2. PolicyInv /\ [PolicyNext]_policyVars => PolicyInv'
  BY PolicyStep
<1>3. PolicyInv => PolicySound
  BY PolicyFollows
<1> QED BY <1>1, <1>2, <1>3, PTL DEF PolicySpec
==============================================================================
