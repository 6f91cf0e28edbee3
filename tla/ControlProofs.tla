--------------------------- MODULE ControlProofs ----------------------------
(***************************************************************************)
(* Theorems about components around the gate: the windows of outcomes it   *)
(* reads issuer health from (Telemetry), the feed of downtime notices      *)
(* (Downtime), the learner whose delays it checks (Learner), the settings  *)
(* a run starts with (Settings), the runs of the program, with the         *)
(* database server a run starts (Process), and the evidence handed out of  *)
(* what was decided (Attest).                                              *)
(*                                                                         *)
(*   WindowsAreSound     a window holds what it should and nothing twice,  *)
(*                       and a snapshot's baseline misses little           *)
(*   ProcessesAreSound   a run leaves nothing open or running behind it,   *)
(*                       closes nothing in use, and serves on a server of  *)
(*                       its own                                           *)
(*   LearningIsSound     only a regulation's hold overrides a draw, and no *)
(*                       belief is without its decision                    *)
(*   ReleasesInTime      no release is announced for an outage that lasts, *)
(*                       and no stale view passes for a fresh one          *)
(*   SettingsAreSound    a run has the credentials its mode asks for and   *)
(*                       passes its own checks again, every layer of the   *)
(*                       configuration counts, and few restarts repair it  *)
(*   ProofProvesItsEntry the path to a leaf proves that entry and no other *)
(*   OneRootOneLedger    and one root is the root of one ledger, of        *)
(*                       whatever length                                   *)
(*   EvidenceHolds       so what a bundle shows is what the ledger held    *)
(*                                                                         *)
(* Each rests on an inductive invariant, kept by one lemma per action.     *)
(***************************************************************************)
EXTENDS Telemetry, Process, Learner, Downtime, Settings, Attest,
        FiniteSetTheorems, NaturalsInduction, WellFoundedInduction, TLAPS

-----------------------------------------------------------------------------
(* The windows of outcomes *)

\* The member that stands for an outcome.
MemberOf(log, n) == [n |-> n, issuer |-> log[n].issuer, ok |-> log[n].ok, at |-> log[n].at]

\* What the calls have recorded, none of it from the future.
Log ==
    /\ now \in 0..MaxNow /\ repeats \in 0..MaxRepeats
    /\ recorded \in Seq(Outcomes) /\ Len(recorded) <= MaxOutcomes
    /\ \A n \in 1..Len(recorded) : recorded[n].at <= now

\* A key holds of the outcomes that reached it those of the window, and perhaps
\* older ones; it outlives all it holds by the window and more.
Keyed(key) ==
    /\ landed[key] \subseteq 1..Len(recorded)
    /\ \A m \in zset[key] : /\ m.n \in landed[key] /\ m = MemberOf(recorded, m.n)
                            /\ m.at + TTL <= expiry[key]
    /\ \A n \in landed[key] : MemberOf(recorded, n) \in zset[key] \/ recorded[n].at < now - Window
    /\ expiry[key] \in 0..(MaxNow + TTL)

\* A pipeline carries an outcome to the keys of its issuer and its method.
InFlight(r) ==
    sending[r] = {} \/ \E p : /\ sending[r] = {p}
                              /\ p = [member |-> MemberOf(recorded, p.call), call |-> p.call, to |-> p.to]
                              /\ p.call \in 1..Len(recorded)
                              /\ p.to \subseteq {recorded[p.call].issuer, "method"}

\* A snapshot knows outcomes only, and of the issuer none older than the window.
Reading ==
    \A s \in reading : /\ s.at \in 0..now
                       /\ \A m \in s.own : /\ m.n \in 1..Len(recorded) /\ m = MemberOf(recorded, m.n)
                                           /\ m.at >= s.at - Window

Taken == (\A s \in snapshot : s.own \cup s.base \subseteq Members) /\ BaselineMissesLittle

TelemetryInv ==
    /\ Log /\ Reading /\ Taken
    /\ DOMAIN zset = Keys /\ DOMAIN landed = Keys /\ DOMAIN expiry = Keys
    /\ zset = [key \in Keys |-> zset[key]] /\ landed = [key \in Keys |-> landed[key]]
    /\ expiry = [key \in Keys |-> expiry[key]] /\ sending = [r \in Recorders |-> sending[r]]
    /\ \A key \in Keys : Keyed(key)
    /\ \A r \in Recorders : InFlight(r)


\* Of the constants, what the steps need.
LEMMA Windows ==
    /\ Window \in Nat /\ MaxNow \in Nat /\ MaxOutcomes \in Nat /\ MaxRepeats \in Nat
    /\ TTL \in Nat /\ TTL >= Window /\ "method" \notin Issuers /\ Issuers \subseteq Keys
    /\ "method" \in Keys
<1>1. /\ Window \in Nat /\ Window >= 1 /\ TTLMultiplier \in Nat /\ TTLMultiplier >= 1
      /\ MaxOutcomes \in Nat /\ MaxNow \in Nat /\ MaxRepeats \in Nat
  BY TelemetryAssumption
<1>2. \A w, k \in Nat : k >= 1 => w * k \in Nat /\ w * k >= w
  OBVIOUS
<1>3. TTL \in Nat /\ TTL >= Window
  BY <1>1, <1>2 DEF TTL
<1>. QED
  BY <1>1, <1>3, TelemetryAssumption DEF Keys

LEMMA MemberFields ==
    ASSUME NEW log \in Seq(Outcomes), Len(log) <= MaxOutcomes, NEW n \in 1..Len(log)
    PROVE  /\ MemberOf(log, n).n = n /\ MemberOf(log, n).issuer = log[n].issuer
           /\ MemberOf(log, n).ok = log[n].ok /\ MemberOf(log, n).at = log[n].at
           /\ MemberOf(log, n) \in Members
           /\ log[n].issuer \in Issuers /\ log[n].at \in 0..MaxNow
<1>1. log[n] \in Outcomes /\ n \in 1..MaxOutcomes
  BY Windows
<1>. QED
  BY <1>1 DEF MemberOf, Members, Outcomes

\* The pipeline a recorder has in flight, which is one at most.
LEMMA Carried ==
    ASSUME NEW r \in Recorders, InFlight(r), NEW p \in sending[r]
    PROVE  /\ sending[r] = {p} /\ p.call \in 1..Len(recorded)
           /\ p = [member |-> MemberOf(recorded, p.call), call |-> p.call, to |-> p.to]
           /\ p.to \subseteq {recorded[p.call].issuer, "method"}
<1>1. PICK q : /\ sending[r] = {q}
               /\ q = [member |-> MemberOf(recorded, q.call), call |-> q.call, to |-> q.to]
               /\ q.call \in 1..Len(recorded)
               /\ q.to \subseteq {recorded[q.call].issuer, "method"}
  BY DEF InFlight
<1>2. p = q
  BY <1>1
<1>. QED
  BY <1>1, <1>2

\* A key's members are in order of what they stand for.
LEMMA KeyedMembers ==
    ASSUME Log, NEW key \in Keys, Keyed(key)
    PROVE  /\ zset[key] \subseteq Members /\ landed[key] \subseteq 1..MaxOutcomes
           /\ Live(key) \subseteq zset[key]
           /\ \A n \in landed[key] :
                recorded[n].at >= now - Window => MemberOf(recorded, n) \in Live(key)
<1>1. \A m \in zset[key] : m \in Members
  BY MemberFields DEF Keyed, Log
<1>2. landed[key] \subseteq 1..MaxOutcomes
  BY Windows DEF Keyed, Log
<1>3. Live(key) \subseteq zset[key]
  BY DEF Live
<1>4. ASSUME NEW n \in landed[key], recorded[n].at >= now - Window
      PROVE  MemberOf(recorded, n) \in Live(key)
  <2>. DEFINE m == MemberOf(recorded, n)
  <2>1. n \in 1..Len(recorded) /\ now \in Nat /\ recorded[n].at \in Nat /\ m.at = recorded[n].at
    BY MemberFields DEF Keyed, Log
  <2>2. m \in zset[key]
    BY <1>4, <2>1, Windows DEF Keyed
  <2>3. m.at + TTL <= expiry[key] /\ expiry[key] \in Nat
    BY <2>2, Windows DEF Keyed
  <2>. HIDE DEF m
  <2>4. ~(expiry[key] < now)
    BY <1>4, <2>1, <2>3, Windows
  <2>. QED
    BY <2>2, <2>4 DEF Live, m
<1>. QED
  BY <1>1, <1>2, <1>3, <1>4

\* The window of a key against the outcomes that reached it.
LEMMA Exact ==
    ASSUME Log, NEW key \in Keys, Keyed(key), NEW i \in Issuers, NEW ok \in BOOLEAN
    PROVE  Cardinality({m \in InWindow(Live(key), now) : m.issuer = i /\ m.ok = ok})
           = Cardinality({n \in landed[key] : /\ recorded[n].issuer = i /\ recorded[n].ok = ok
                                              /\ recorded[n].at >= now - Window})
<1>. DEFINE A == {n \in landed[key] : /\ recorded[n].issuer = i /\ recorded[n].ok = ok
                                      /\ recorded[n].at >= now - Window}
            B == {m \in InWindow(Live(key), now) : m.issuer = i /\ m.ok = ok}
            f == [n \in A |-> MemberOf(recorded, n)]
<1>1. IsFiniteSet(A)
  <2>1. A \subseteq 1..MaxOutcomes /\ IsFiniteSet(1..MaxOutcomes)
    BY KeyedMembers, Windows, FS_Interval
  <2>. QED
    BY <2>1, FS_Subset
<1>2. ASSUME NEW n \in A PROVE f[n] \in B /\ f[n].n = n
  <2>1. /\ n \in 1..Len(recorded) /\ n \in landed[key] /\ recorded[n].issuer = i
        /\ recorded[n].ok = ok /\ recorded[n].at >= now - Window
    BY DEF Keyed
  <2>2. MemberOf(recorded, n) \in Live(key)
    BY <2>1, KeyedMembers
  <2>3. /\ MemberOf(recorded, n).n = n /\ MemberOf(recorded, n).issuer = i
        /\ MemberOf(recorded, n).ok = ok /\ MemberOf(recorded, n).at >= now - Window
    BY <2>1, MemberFields DEF Log
  <2>. QED
    BY <2>2, <2>3 DEF InWindow
<1>3. ASSUME NEW m \in B PROVE m.n \in A /\ f[m.n] = m
  <2>1. m \in zset[key] /\ m.at >= now - Window /\ m.issuer = i /\ m.ok = ok
    BY KeyedMembers DEF InWindow
  <2>2. m.n \in landed[key] /\ m.n \in 1..Len(recorded) /\ m = MemberOf(recorded, m.n)
    BY <2>1 DEF Keyed
  <2>3. /\ m.issuer = recorded[m.n].issuer /\ m.ok = recorded[m.n].ok
        /\ m.at = recorded[m.n].at
    BY <2>2, MemberFields DEF Log
  <2>. QED
    BY <2>1, <2>2, <2>3
<1>. HIDE DEF A, B
<1>4. f \in Bijection(A, B)
  <2>1. f \in [A -> B]
    BY <1>2
  <2>. HIDE DEF f
  <2>2. \A a, b \in A : f[a] = f[b] => a = b
    BY <1>2
  <2>3. \A b \in B : \E a \in A : f[a] = b
    BY <1>3
  <2>. QED
    BY <2>1, <2>2, <2>3 DEF Bijection, Injection, Surjection, IsInjective
<1>. HIDE DEF f
<1>5. Cardinality(B) = Cardinality(A)
  BY <1>1, <1>4, FS_Bijection DEF ExistsBijection
<1>. QED
  BY <1>5 DEF A, B

\* What the run checks follows from the invariant.
LEMMA TelemetryInvTypes == TelemetryInv => TelemetryTypeOK
<1>. SUFFICES ASSUME TelemetryInv PROVE TelemetryTypeOK
  OBVIOUS
<1>1. Log /\ (\A key \in Keys : Keyed(key)) /\ Reading /\ Taken
  BY DEF TelemetryInv
<1>2. zset \in [Keys -> SUBSET Members] /\ landed \in [Keys -> SUBSET (1..MaxOutcomes)]
  BY <1>1, KeyedMembers DEF TelemetryInv
<1>3. expiry \in [Keys -> 0..(MaxNow + TTL)]
  BY <1>1 DEF TelemetryInv, Keyed
<1>4. \A r \in Recorders : /\ sending[r] \subseteq [member : Members, call : 1..MaxOutcomes, to : SUBSET Keys]
                           /\ Cardinality(sending[r]) <= 1
  <2>. TAKE r \in Recorders
  <2>1. CASE sending[r] = {}
    BY <2>1, FS_EmptySet
  <2>2. ASSUME NEW p, sending[r] = {p},
               p = [member |-> MemberOf(recorded, p.call), call |-> p.call, to |-> p.to],
               p.call \in 1..Len(recorded), p.to \subseteq {recorded[p.call].issuer, "method"}
        PROVE  /\ sending[r] \subseteq [member : Members, call : 1..MaxOutcomes, to : SUBSET Keys]
               /\ Cardinality(sending[r]) <= 1
    <3>1. MemberOf(recorded, p.call) \in Members /\ recorded[p.call].issuer \in Issuers
      BY <1>1, <2>2, MemberFields DEF Log
    <3>2. p.call \in 1..MaxOutcomes /\ p.to \in SUBSET Keys
      BY <1>1, <2>2, <3>1, Windows DEF Log
    <3>3. p \in [member : Members, call : 1..MaxOutcomes, to : SUBSET Keys]
      BY <2>2, <3>1, <3>2
    <3>4. Cardinality({p}) = 1
      BY FS_Singleton
    <3>. QED
      BY <2>2, <3>3, <3>4
  <2>. QED
    BY <2>1, <2>2 DEF TelemetryInv, InFlight
<1>5. sending \in [Recorders -> SUBSET [member : Members, call : 1..MaxOutcomes, to : SUBSET Keys]]
  BY <1>4 DEF TelemetryInv
<1>6. \A s \in reading : s.own \subseteq Members
  BY <1>1, MemberFields DEF Reading, Log
<1>. QED
  BY <1>1, <1>2, <1>3, <1>4, <1>5, <1>6 DEF TelemetryTypeOK, Log, Taken

LEMMA TelemetryInvSound == TelemetryInv => WindowsSound
<1>. SUFFICES ASSUME TelemetryInv PROVE WindowsSound
  OBVIOUS
<1>1. WindowIsExact
  BY Exact DEF TelemetryInv, WindowIsExact
<1>2. BaselineMissesLittle
  BY DEF TelemetryInv, Taken
<1>. QED
  BY <1>1, <1>2, TelemetryInvTypes DEF WindowsSound, TelemetryExact

LEMMA TelemetryInitial == TelemetryInit => TelemetryInv
<1>. SUFFICES ASSUME TelemetryInit PROVE TelemetryInv
  OBVIOUS
<1>1. Log
  BY Windows DEF TelemetryInit, Log
<1>2. Reading /\ Taken
  BY DEF TelemetryInit, Reading, Taken, BaselineMissesLittle
<1>3. \A key \in Keys : Keyed(key)
  BY Windows DEF TelemetryInit, Keyed
<1>4. \A r \in Recorders : InFlight(r)
  BY DEF TelemetryInit, InFlight
<1>. QED
  BY <1>1, <1>2, <1>3, <1>4 DEF TelemetryInit, TelemetryInv

\* A recorder notes an outcome: what was recorded stays what it was.
LEMMA RecordStep ==
    ASSUME TelemetryInv, NEW r \in Recorders, RecordOutcome(r)
    PROVE  TelemetryInv'
<1>1. PICK i \in Issuers, ok \in BOOLEAN :
        /\ recorded' = Append(recorded, [issuer |-> i, ok |-> ok, at |-> now])
        /\ sending' = [sending EXCEPT ![r] =
              {[member |-> Member(i, ok), call |-> Len(recorded'), to |-> {i, "method"}]}]
  BY DEF RecordOutcome
<1>2. /\ Len(recorded) < MaxOutcomes
      /\ UNCHANGED <<now, zset, expiry, reading, snapshot, landed, repeats>>
  BY DEF RecordOutcome
<1>3. Log /\ now \in 0..MaxNow /\ recorded \in Seq(Outcomes)
  BY DEF TelemetryInv, Log
<1>. DEFINE o == [issuer |-> i, ok |-> ok, at |-> now]
            n == Len(recorded) + 1
            p == [member |-> Member(i, ok), call |-> n, to |-> {i, "method"}]
<1>4. o \in Outcomes /\ o.issuer = i /\ o.ok = ok /\ o.at = now
  BY <1>3 DEF Outcomes
<1>. HIDE DEF o
<1>5. /\ recorded' \in Seq(Outcomes) /\ Len(recorded') = n
      /\ n \in Nat /\ recorded'[n] = o /\ \A k \in 1..Len(recorded) : recorded'[k] = recorded[k]
  BY <1>1, <1>3, <1>4 DEF o
<1>6. Log'
  <2>1. \A k \in 1..n : k = n \/ k \in 1..Len(recorded)
    BY <1>3
  <2>2. \A k \in 1..n : recorded'[k].at <= now
    BY <1>3, <1>4, <1>5, <2>1 DEF Log
  <2>3. n <= MaxOutcomes
    BY <1>2, <1>3, Windows
  <2>. QED
    BY <1>2, <1>5, <2>2, <2>3 DEF TelemetryInv, Log
<1>7. \A k \in 1..Len(recorded) : MemberOf(recorded', k) = MemberOf(recorded, k)
  BY <1>5 DEF MemberOf
<1>8. 1..Len(recorded) \subseteq 1..Len(recorded')
  BY <1>3, <1>5
<1>9. ASSUME NEW key \in Keys PROVE Keyed(key)'
  <2>1. Keyed(key)
    BY DEF TelemetryInv
  <2>2. landed[key] \subseteq 1..Len(recorded') /\ \A k \in landed[key] : recorded'[k] = recorded[k]
    BY <1>5, <1>8, <2>1 DEF Keyed
  <2>. QED
    BY <1>2, <1>7, <2>1, <2>2 DEF Keyed
<1>10. p = [member |-> MemberOf(recorded', n), call |-> n, to |-> {i, "method"}]
  BY <1>4, <1>5 DEF Member, MemberOf
<1>11. ASSUME NEW q \in Recorders PROVE InFlight(q)'
  <2>1. CASE q = r
    <3>1. sending'[r] = {p} /\ p.call = n /\ p.to = {i, "method"} /\ n \in 1..Len(recorded')
      BY <1>1, <1>3, <1>5 DEF TelemetryInv
    <3>2. p.to \subseteq {recorded'[p.call].issuer, "method"}
      BY <1>4, <1>5, <3>1
    <3>. QED
      BY <1>10, <2>1, <3>1, <3>2 DEF InFlight
  <2>2. CASE q # r
    <3>1. sending'[q] = sending[q] /\ InFlight(q)
      BY <1>1, <2>2 DEF TelemetryInv
    <3>. QED
      BY <1>5, <1>7, <1>8, <3>1 DEF InFlight
  <2>. QED
    BY <2>1, <2>2
<1>12. Reading' /\ Taken'
  BY <1>2, <1>7, <1>8 DEF TelemetryInv, Reading, Taken, BaselineMissesLittle
<1>13. sending' = [q \in Recorders |-> sending'[q]]
  BY <1>1 DEF TelemetryInv
<1>. QED
  BY <1>2, <1>6, <1>9, <1>11, <1>12, <1>13 DEF TelemetryInv

\* A pipeline reaches a key: what it brings is there, and what the trim takes is
\* too old already.
LEMMA WriteStep ==
    ASSUME TelemetryInv, NEW r \in Recorders, Write(r)
    PROVE  TelemetryInv'
<1>1. PICK p \in sending[r] :
          LET key == IF p.member.issuer \in p.to THEN p.member.issuer ELSE "method"
          IN  /\ key \in p.to
              /\ zset' = [zset EXCEPT ![key] = InWindow(Live(key) \cup {p.member}, p.member.at)]
              /\ expiry' = [expiry EXCEPT ![key] = now + TTL]
              /\ landed' = [landed EXCEPT ![key] = @ \cup {p.call}]
              /\ sending' = [sending EXCEPT ![r] = {[p EXCEPT !.to = @ \ {key}]}]
  BY DEF Write
<1>. DEFINE key == IF p.member.issuer \in p.to THEN p.member.issuer ELSE "method"
            kept == InWindow(Live(key) \cup {p.member}, p.member.at)
<1>2. /\ key \in p.to /\ zset' = [zset EXCEPT ![key] = kept]
      /\ expiry' = [expiry EXCEPT ![key] = now + TTL]
      /\ landed' = [landed EXCEPT ![key] = landed[key] \cup {p.call}]
      /\ sending' = [sending EXCEPT ![r] = {[p EXCEPT !.to = p.to \ {key}]}]
  BY <1>1
<1>3. UNCHANGED <<now, reading, snapshot, recorded, repeats>>
  BY DEF Write
<1>4. /\ sending[r] = {p} /\ p.call \in 1..Len(recorded)
      /\ p = [member |-> MemberOf(recorded, p.call), call |-> p.call, to |-> p.to]
      /\ p.to \subseteq {recorded[p.call].issuer, "method"}
  BY Carried DEF TelemetryInv
<1>. HIDE DEF kept
<1>5. Log /\ now \in 0..MaxNow /\ recorded[p.call].issuer \in Issuers
      /\ p.member = MemberOf(recorded, p.call) /\ p.member.n = p.call
      /\ p.member.at \in Nat /\ p.member.at <= now
  BY <1>4, MemberFields DEF TelemetryInv, Log
<1>6. key \in Keys
  BY <1>2, <1>4, <1>5, Windows
<1>. HIDE DEF key
<1>7. /\ zset'[key] = kept /\ expiry'[key] = now + TTL
      /\ landed'[key] = landed[key] \cup {p.call}
      /\ \A k \in Keys : k # key => /\ zset'[k] = zset[k] /\ expiry'[k] = expiry[k]
                                    /\ landed'[k] = landed[k]
  BY <1>2, <1>6 DEF TelemetryInv
<1>8. Keyed(key)
  BY <1>6 DEF TelemetryInv
<1>9. Keyed(key)'
  <2>1. landed'[key] \subseteq 1..Len(recorded)
    BY <1>4, <1>7, <1>8 DEF Keyed
  <2>2. ASSUME NEW m \in kept
        PROVE  /\ m.n \in landed'[key] /\ m = MemberOf(recorded, m.n) /\ m.at + TTL <= now + TTL
    <3>1. m \in zset[key] \/ m = p.member
      BY <1>5, <1>6, <1>8, KeyedMembers DEF kept, InWindow
    <3>2. m.n \in landed'[key] /\ m = MemberOf(recorded, m.n) /\ m.n \in 1..Len(recorded)
      BY <1>4, <1>5, <1>7, <1>8, <3>1 DEF Keyed
    <3>3. m.at \in Nat /\ m.at <= now
      BY <1>5, <3>2, MemberFields DEF Log
    <3>. QED
      BY <1>5, <3>2, <3>3, Windows
  <2>3. ASSUME NEW n \in landed'[key], recorded[n].at >= now - Window
        PROVE  MemberOf(recorded, n) \in kept
    <3>1. n \in 1..Len(recorded) /\ recorded[n].at \in Nat
          /\ MemberOf(recorded, n).at = recorded[n].at
      BY <1>5, <2>1, MemberFields DEF Log
    <3>2. MemberOf(recorded, n) \in Live(key) \cup {p.member}
      BY <1>5, <1>6, <1>7, <1>8, <2>3, KeyedMembers
    <3>3. recorded[n].at >= p.member.at - Window
      BY <1>5, <2>3, <3>1, Windows
    <3>. QED
      BY <3>1, <3>2, <3>3 DEF kept, InWindow
  <2>4. now + TTL \in 0..(MaxNow + TTL)
    BY <1>5, Windows
  <2>5. \A n \in landed'[key] : recorded[n].at >= now - Window \/ recorded[n].at < now - Window
    BY <1>5, <2>1, MemberFields, Windows DEF Log
  <2>. QED
    BY <1>3, <1>7, <2>1, <2>2, <2>3, <2>4, <2>5 DEF Keyed
<1>10. ASSUME NEW k \in Keys PROVE Keyed(k)'
  <2>1. CASE k = key
    BY <1>9, <2>1
  <2>2. CASE k # key
    <3>1. Keyed(k)
      BY DEF TelemetryInv
    <3>. QED
      BY <1>3, <1>7, <2>2, <3>1 DEF Keyed
  <2>. QED
    BY <2>1, <2>2
<1>11. ASSUME NEW q \in Recorders PROVE InFlight(q)'
  <2>1. CASE q = r
    <3>. DEFINE m == MemberOf(recorded, p.call)
                c == p.call
                left == p.to \ {key}
                rest == [p EXCEPT !.to = left]
    <3>1. sending'[r] = {rest}
      BY <1>2 DEF TelemetryInv
    <3>2. p = [member |-> m, call |-> c, to |-> p.to] /\ left \subseteq p.to
      BY <1>4
    <3>. HIDE DEF m, c, left
    <3>3. rest = [member |-> m, call |-> c, to |-> left]
      BY <3>2
    <3>. HIDE DEF rest
    <3>4. rest.call = c /\ rest.to = left
      BY <3>3
    <3>. QED
      BY <1>3, <1>4, <2>1, <3>1, <3>2, <3>3, <3>4 DEF InFlight, m, c
  <2>2. CASE q # r
    <3>1. sending'[q] = sending[q] /\ InFlight(q)
      BY <1>2, <2>2 DEF TelemetryInv
    <3>. QED
      BY <1>3, <3>1 DEF InFlight
  <2>. QED
    BY <2>1, <2>2
<1>12. Log' /\ Reading' /\ Taken'
  BY <1>3 DEF TelemetryInv, Log, Reading, Taken, BaselineMissesLittle
<1>13. /\ zset' = [k \in Keys |-> zset'[k]] /\ landed' = [k \in Keys |-> landed'[k]]
       /\ expiry' = [k \in Keys |-> expiry'[k]] /\ sending' = [q \in Recorders |-> sending'[q]]
  BY <1>2 DEF TelemetryInv
<1>14. DOMAIN zset' = Keys /\ DOMAIN landed' = Keys /\ DOMAIN expiry' = Keys
  BY <1>13
<1>. QED
  BY <1>10, <1>11, <1>12, <1>13, <1>14 DEF TelemetryInv

\* Steps that change pipelines, or what is being read, only.
LEMMA WindowsStay ==
    ASSUME TelemetryInv, UNCHANGED <<now, zset, expiry, recorded, landed>>,
           repeats' \in 0..MaxRepeats, sending' = [q \in Recorders |-> sending'[q]],
           \A q \in Recorders : InFlight(q)', Reading', Taken'
    PROVE  TelemetryInv'
<1>1. Log'
  BY DEF TelemetryInv, Log
<1>2. \A key \in Keys : Keyed(key)'
  BY DEF TelemetryInv, Keyed
<1>. QED
  BY <1>1, <1>2 DEF TelemetryInv

LEMMA PipelineStep ==
    ASSUME TelemetryInv, NEW r \in Recorders, Return(r) \/ Repeat(r)
    PROVE  TelemetryInv'
<1>1. UNCHANGED <<now, zset, expiry, reading, snapshot, recorded, landed>>
  BY DEF Return, Repeat
<1>2. repeats' \in 0..MaxRepeats
  <2>1. repeats \in 0..MaxRepeats
    BY DEF TelemetryInv, Log
  <2>. QED
    BY <2>1, Windows DEF Return, Repeat
<1>3. Reading' /\ Taken'
  BY <1>1 DEF TelemetryInv, Reading, Taken, BaselineMissesLittle
<1>4. InFlight(r)' /\ sending' = [q \in Recorders |-> sending'[q]]
      /\ \A q \in Recorders : q # r => sending'[q] = sending[q]
  <2>1. CASE Return(r)
    BY <2>1 DEF Return, TelemetryInv, InFlight
  <2>2. CASE Repeat(r)
    <3>1. PICK p \in sending[r] :
            sending' = [sending EXCEPT ![r] = {[p EXCEPT !.to = {p.member.issuer, "method"}]}]
      BY <2>2 DEF Repeat
    <3>2. /\ sending[r] = {p} /\ p.call \in 1..Len(recorded)
          /\ p = [member |-> MemberOf(recorded, p.call), call |-> p.call, to |-> p.to]
      BY Carried DEF TelemetryInv
    <3>. DEFINE m == MemberOf(recorded, p.call)
                c == p.call
                both == {p.member.issuer, "method"}
                again == [p EXCEPT !.to = both]
    <3>3. p = [member |-> m, call |-> c, to |-> p.to] /\ both = {recorded[c].issuer, "method"}
      BY <3>2, MemberFields DEF TelemetryInv, Log
    <3>4. /\ sending'[r] = {again} /\ sending' = [q \in Recorders |-> sending'[q]]
          /\ \A q \in Recorders : q # r => sending'[q] = sending[q]
      BY <3>1 DEF TelemetryInv
    <3>. HIDE DEF m, c, both
    <3>5. again = [member |-> m, call |-> c, to |-> both]
      BY <3>3
    <3>. HIDE DEF again
    <3>6. again.call = c /\ again.to = both
      BY <3>5
    <3>7. InFlight(r)'
      BY <1>1, <3>2, <3>3, <3>4, <3>5, <3>6 DEF InFlight, m, c
    <3>. QED
      BY <3>4, <3>7
  <2>. QED
    BY <2>1, <2>2
<1>5. \A q \in Recorders : InFlight(q)'
  <2>. TAKE q \in Recorders
  <2>1. CASE q = r
    BY <1>4, <2>1
  <2>2. CASE q # r
    BY <1>1, <1>4, <2>2 DEF TelemetryInv, InFlight
  <2>. QED
    BY <2>1, <2>2
<1>. QED
  BY <1>1, <1>2, <1>3, <1>4, <1>5, WindowsStay

LEMMA ReadIssuerStep ==
    ASSUME TelemetryInv, ReadIssuer
    PROVE  TelemetryInv'
<1>1. PICK i \in Issuers : reading' = {[at |-> now, own |-> InWindow(Live(i), now)]}
  BY DEF ReadIssuer
<1>2. UNCHANGED <<now, zset, expiry, sending, snapshot, recorded, landed, repeats>>
  BY DEF ReadIssuer
<1>3. Log /\ i \in Keys /\ Keyed(i)
  BY Windows DEF TelemetryInv
<1>. DEFINE own == InWindow(Live(i), now)
<1>4. \A m \in own : /\ m.n \in 1..Len(recorded) /\ m = MemberOf(recorded, m.n)
                     /\ m.at >= now - Window
  BY <1>3, KeyedMembers DEF InWindow, Keyed
<1>. HIDE DEF own
<1>5. Reading'
  <2>1. \A s \in reading' : s.at = now /\ s.own = own
    BY <1>1 DEF own
  <2>. QED
    BY <1>2, <1>3, <1>4, <2>1 DEF Reading, Log
<1>6. Taken' /\ \A q \in Recorders : InFlight(q)'
  BY <1>2 DEF TelemetryInv, Taken, BaselineMissesLittle, InFlight
<1>7. repeats' \in 0..MaxRepeats /\ sending' = [q \in Recorders |-> sending'[q]]
  BY <1>2 DEF TelemetryInv, Log
<1>. QED
  BY <1>2, <1>5, <1>6, <1>7, WindowsStay

\* What the method's window lacks of the issuer's had not reached it, or has
\* left it.
LEMMA ReadMethodStep ==
    ASSUME TelemetryInv, ReadMethod
    PROVE  TelemetryInv'
<1>1. PICK s \in reading :
          snapshot' = {[at |-> s.at, own |-> s.own, base |-> InWindow(Live("method"), s.at),
                        until |-> now, landed |-> landed["method"]]}
  BY DEF ReadMethod
<1>2. UNCHANGED <<now, zset, expiry, sending, recorded, landed, repeats>> /\ reading' = {}
  BY DEF ReadMethod
<1>3. Log /\ "method" \in Keys /\ Keyed("method") /\ now \in Nat
  BY Windows DEF TelemetryInv, Log
<1>4. /\ s.at \in 0..now
      /\ \A m \in s.own : /\ m.n \in 1..Len(recorded) /\ m = MemberOf(recorded, m.n)
                          /\ m.at >= s.at - Window
  BY DEF TelemetryInv, Reading
<1>. DEFINE base == InWindow(Live("method"), s.at)
<1>5. s.own \cup base \subseteq Members
  <2>1. \A m \in s.own : m \in Members
    BY <1>3, <1>4, MemberFields DEF Log
  <2>2. base \subseteq Members
    BY <1>3, KeyedMembers DEF InWindow
  <2>. QED
    BY <2>1, <2>2
<1>6. ASSUME NEW m \in s.own \ base, m.n \in landed["method"] PROVE m.at < now - Window
  <2>1. m = MemberOf(recorded, m.n) /\ m.at >= s.at - Window /\ m.n \in 1..Len(recorded)
    BY <1>4
  <2>2. m.at = recorded[m.n].at /\ m.at \in Nat
    BY <1>3, <2>1, MemberFields DEF Log
  <2>3. ~(m.at >= now - Window)
    BY <1>3, <1>6, <2>1, <2>2, KeyedMembers DEF InWindow
  <2>. QED
    BY <1>3, <2>2, <2>3, Windows
<1>. HIDE DEF base
<1>7. \A t \in snapshot' : t.own = s.own /\ t.base = base /\ t.until = now
                           /\ t.landed = landed["method"]
  BY <1>1 DEF base
<1>8. Taken'
  BY <1>5, <1>6, <1>7 DEF Taken, BaselineMissesLittle
<1>9. Reading' /\ \A q \in Recorders : InFlight(q)'
  BY <1>2 DEF TelemetryInv, Reading, InFlight
<1>10. repeats' \in 0..MaxRepeats /\ sending' = [q \in Recorders |-> sending'[q]]
  BY <1>2 DEF TelemetryInv, Log
<1>. QED
  BY <1>2, <1>8, <1>9, <1>10, WindowsStay

LEMMA ClockStep ==
    ASSUME TelemetryInv, ClockTicks
    PROVE  TelemetryInv'
<1>1. /\ now < MaxNow /\ now' = now + 1
      /\ UNCHANGED <<zset, expiry, sending, reading, snapshot, recorded, landed, repeats>>
  BY DEF ClockTicks
<1>2. Log /\ now \in Nat /\ now' \in 0..MaxNow
  BY <1>1, Windows DEF TelemetryInv, Log
<1>3. \A n \in 1..Len(recorded) : recorded[n].at \in Nat /\ recorded[n].at <= now
  BY <1>2, MemberFields DEF Log
<1>4. Log'
  BY <1>1, <1>2, <1>3 DEF Log
<1>5. ASSUME NEW key \in Keys PROVE Keyed(key)'
  <2>1. Keyed(key)
    BY DEF TelemetryInv
  <2>2. \A n \in landed[key] : recorded[n].at < now - Window => recorded[n].at < now' - Window
    BY <1>1, <1>2, <1>3, <2>1, Windows DEF Keyed
  <2>. QED
    BY <1>1, <2>1, <2>2 DEF Keyed
<1>6. Reading'
  <2>1. \A s \in reading : s.at \in 0..now'
    BY <1>1, <1>2 DEF TelemetryInv, Reading
  <2>. QED
    BY <1>1, <2>1 DEF TelemetryInv, Reading
<1>7. Taken' /\ \A q \in Recorders : InFlight(q)'
  BY <1>1 DEF TelemetryInv, Taken, BaselineMissesLittle, InFlight
<1>. QED
  BY <1>1, <1>4, <1>5, <1>6, <1>7 DEF TelemetryInv

LEMMA TelemetryStutters == TelemetryInv /\ UNCHANGED telemetryVars => TelemetryInv'
<1>. SUFFICES ASSUME TelemetryInv, UNCHANGED telemetryVars PROVE TelemetryInv'
  OBVIOUS
<1>1. UNCHANGED <<now, zset, expiry, sending, reading, snapshot, recorded, landed, repeats>>
  BY DEF telemetryVars
<1>2. Reading' /\ Taken' /\ \A q \in Recorders : InFlight(q)'
  BY <1>1 DEF TelemetryInv, Reading, Taken, BaselineMissesLittle, InFlight
<1>3. repeats' \in 0..MaxRepeats /\ sending' = [q \in Recorders |-> sending'[q]]
  BY <1>1 DEF TelemetryInv, Log
<1>. QED
  BY <1>1, <1>2, <1>3, WindowsStay

LEMMA TelemetryStep == TelemetryInv /\ [TelemetryNext]_telemetryVars => TelemetryInv'
  BY RecordStep, WriteStep, PipelineStep, ReadIssuerStep, ReadMethodStep, ClockStep,
     TelemetryStutters DEF TelemetryNext

LEMMA TelemetryAlways == TelemetrySpec => []TelemetryInv
  BY TelemetryInitial, TelemetryStep, PTL DEF TelemetrySpec

\* However the pipelines of the recorders interleave, are repeated or cut short,
\* a window holds what reached its key and is young enough, once each; and a
\* snapshot's baseline lacks of the issuer's outcomes only what had not reached
\* it or was too old when it was read.
THEOREM WindowsAreSound == TelemetrySpec => []WindowsSound
  BY TelemetryAlways, TelemetryInvSound, PTL

-----------------------------------------------------------------------------
(* A run of the program *)

RunRecords ==
    [phase : {"off", "building", "serving", "closing", "exited"},
     roles : SUBSET {"api", "worker"}, step : 1..Len(Steps),
     open : SUBSET Resources, up : SUBSET Tasks({"api", "worker"}),
     cancelled : BOOLEAN, held : SUBSET Runs, boots : 0..PgPortAttempts,
     reaper : BOOLEAN]

\* What a run has open, by its phase and step.
Shape(r) ==
    /\ r \in RunRecords
    /\ r.phase # "serving" => r.up = {}
    /\ r.phase \in {"off", "exited"} => r.open = {}
    /\ r.phase = "building" =>
        /\ r.step <= 4 => r.boots < PgPortAttempts
        /\ r.step <= 5 => "database" \notin r.open
        /\ r.step >= 6 /\ "cache" \in r.open => "database" \in r.open
        /\ r.step >= 7 => "store" \in r.open
        /\ r.step >= 8 => "redis" \in r.open
        /\ r.step >= 9 => "queue" \in r.open
    /\ r.phase = "serving" =>
        /\ r.step = 1
        /\ \A task \in r.up : Uses(task) \subseteq r.open
        /\ "cache" \in r.open => "database" \in r.open
    /\ r.phase = "closing" => \A n \in 1..6 : n < r.step => Closing[n] \notin r.open

\* A run has a server while that starts, and from then until it is closed.
Holding(r) == (r.phase = "building" /\ r.step = 5) \/ "database" \in r.open

Hosts(p) ==
    /\ run[p].phase \in {"off", "building", "serving"} => fate[p] = {}
    /\ run[p].reaper => "abandoned" \in fate[p]
    /\ fate[p] = {} => \A s \in servers : s.by = p => lockFile = {p} /\ Holding(run[p])
    /\ run[p].phase = "building" /\ run[p].step = 3 => lockFile \subseteq run[p].held

\* No run was stopped while its server started.
Undisturbed == \A q \in Runs : fate[q] \cap {"killed booting", "abandoned"} = {}

Files ==
    /\ servers \subseteq [by : Runs, up : BOOLEAN]
    /\ lockFile = {} \/ \E q \in Runs : lockFile = {q}
    /\ \A s, t \in servers : s.by = t.by => s = t

OneAtATime == \A p, q \in Runs : Alive(p) /\ Alive(q) => p = q

\* As long as none was, a server has its lock file, and is up unless its run
\* waits for it; and a run that has the database open has a server.
Settled ==
    Undisturbed =>
        /\ \A s \in servers : /\ lockFile = {s.by}
                              /\ s.up \/ (run[s.by].phase = "building" /\ run[s.by].step = 5)
        /\ \A p \in Runs : run[p].phase \in {"building", "serving"} /\ "database" \in run[p].open
                            => [by |-> p, up |-> TRUE] \in servers

ProcessInv ==
    /\ run = [p \in Runs |-> run[p]] /\ fate \in [Runs -> SUBSET {"abandoned", "killed booting", "killed"}]
    /\ kills \in 0..MaxKills
    /\ Files /\ OneAtATime /\ Settled
    /\ \A p \in Runs : Shape(run[p]) /\ Hosts(p)

\* The steps by their numbers, and the resources by their names.
LEMMA StepNames ==
    /\ Len(Steps) = 10 /\ Len(Closing) = 6
    /\ Steps[1] = "cache" /\ Steps[2] = "read" /\ Steps[3] = "recover" /\ Steps[4] = "launch"
    /\ Steps[5] = "database" /\ Steps[6] = "store" /\ Steps[7] = "redis" /\ Steps[8] = "queue"
    /\ Steps[9] = "parts" /\ Steps[10] = "listener"
    /\ Closing[1] = "listener" /\ Closing[2] = "queue" /\ Closing[3] = "redis"
    /\ Closing[4] = "store" /\ Closing[5] = "cache" /\ Closing[6] = "database"
  BY DEF Steps, Closing

LEMMA ResourceNames ==
    Resources = {"listener", "queue", "redis", "store", "cache", "database"}
<1>1. DOMAIN Closing = 1..6
  BY DEF Closing
<1>2. Resources = {Closing[n] : n \in 1..6}
  BY <1>1 DEF Resources
<1>3. \A n \in 1..6 : n = 1 \/ n = 2 \/ n = 3 \/ n = 4 \/ n = 5 \/ n = 6
  OBVIOUS
<1>4. \A x : x \in Resources <=> \/ x = Closing[1] \/ x = Closing[2] \/ x = Closing[3]
                                 \/ x = Closing[4] \/ x = Closing[5] \/ x = Closing[6]
  BY <1>2, <1>3
<1>. QED
  BY <1>4, StepNames

LEMMA AtIs ==
    ASSUME NEW p \in Runs, Shape(run[p])
    PROVE  /\ At(p, "cache") <=> run[p].phase = "building" /\ run[p].step = 1
           /\ At(p, "read") <=> run[p].phase = "building" /\ run[p].step = 2
           /\ At(p, "recover") <=> run[p].phase = "building" /\ run[p].step = 3
           /\ At(p, "launch") <=> run[p].phase = "building" /\ run[p].step = 4
           /\ At(p, "database") <=> run[p].phase = "building" /\ run[p].step = 5
           /\ \A step \in {"cache", "store", "redis", "queue", "parts", "listener"} :
                At(p, step) => run[p].phase = "building" /\ (run[p].step = 1 \/ run[p].step >= 6)
<1>1. run[p].step \in 1..10
  BY StepNames DEF Shape, RunRecords
<1>2. \A n \in 1..10 : \/ n = 1 \/ n = 2 \/ n = 3 \/ n = 4 \/ n = 5
                       \/ n = 6 \/ n = 7 \/ n = 8 \/ n = 9 \/ n = 10
  OBVIOUS
<1>. QED
  BY <1>1, <1>2, StepNames DEF At

LEMMA OpensIs ==
    ASSUME NEW p \in Runs, Shape(run[p])
    PROVE  /\ Opens(p) \subseteq Resources
           /\ "database" \in Opens(p) <=> run[p].step = 5
           /\ "cache" \in Opens(p) <=> run[p].step = 1
           /\ run[p].step = 6 => "store" \in Opens(p)
           /\ run[p].step = 7 => "redis" \in Opens(p)
           /\ run[p].step = 8 => "queue" \in Opens(p)
           /\ run[p].step = 10 /\ "api" \in run[p].roles => "listener" \in Opens(p)
<1>1. run[p].step \in 1..10
  BY StepNames DEF Shape, RunRecords
<1>2. \A n \in 1..10 : \/ n = 1 \/ n = 2 \/ n = 3 \/ n = 4 \/ n = 5
                       \/ n = 6 \/ n = 7 \/ n = 8 \/ n = 9 \/ n = 10
  OBVIOUS
<1>3. Opens(p) = IF Steps[run[p].step] = "listener" /\ "api" \notin run[p].roles THEN {}
                 ELSE {Steps[run[p].step]} \cap Resources
  BY DEF Opens, Resources
<1>. DEFINE n == run[p].step
<1>4. /\ Steps[n] = "database" <=> n = 5
      /\ Steps[n] = "cache" <=> n = 1
      /\ n = 6 => Steps[n] = "store"
      /\ n = 7 => Steps[n] = "redis"
      /\ n = 8 => Steps[n] = "queue"
      /\ n = 10 => Steps[n] = "listener"
  BY <1>1, <1>2, StepNames
<1>5. \A x : x \in Opens(p) <=> /\ x = Steps[n] /\ x \in Resources
                                /\ x = "listener" => "api" \in run[p].roles
  BY <1>3
<1>. HIDE DEF n
<1>6. Opens(p) \subseteq Resources
  BY <1>5
<1>. QED
  BY <1>4, <1>5, <1>6, ResourceNames DEF n

LEMMA TasksUse ==
    ASSUME NEW roles \in SUBSET {"api", "worker"}, NEW open, {"store", "redis", "queue"} \subseteq open,
           "api" \in roles => "listener" \in open
    PROVE  /\ Tasks(roles) \subseteq Tasks({"api", "worker"})
           /\ \A task \in Tasks(roles) : Uses(task) \subseteq open
  BY DEF Tasks, Uses

\* A step done, or failed.
LEMMA DoneShape ==
    ASSUME NEW p \in Runs, Shape(run[p]), run[p].phase = "building"
    PROVE  /\ Shape(Done(p))
           /\ Done(p).phase = IF run[p].step = 10 THEN "serving" ELSE "building"
           /\ Done(p).step = IF run[p].step = 10 THEN 1 ELSE run[p].step + 1
           /\ Done(p).open = run[p].open \cup Opens(p)
           /\ Done(p).reaper = run[p].reaper /\ Done(p).boots = run[p].boots
           /\ Done(p).held = run[p].held /\ Done(p).up \subseteq Tasks({"api", "worker"})
<1>. DEFINE r == run[p]
            last == r.step = 10
            open == r.open \cup Opens(p)
            d == Done(p)
<1>1. r \in RunRecords /\ r.step \in 1..10 /\ r.up = {}
  BY StepNames DEF Shape, RunRecords
<1>2. d = [r EXCEPT !.open = open, !.step = IF last THEN 1 ELSE r.step + 1,
                    !.phase = IF last THEN "serving" ELSE r.phase,
                    !.up = IF last THEN Tasks(r.roles) ELSE r.up]
  BY StepNames DEF Done
<1>3. open \subseteq Resources /\ Tasks(r.roles) \subseteq Tasks({"api", "worker"})
  BY <1>1, OpensIs DEF RunRecords, Tasks
<1>. DEFINE e1 == [r EXCEPT !.open = open]
            e2 == [e1 EXCEPT !.step = IF last THEN 1 ELSE r.step + 1]
            e3 == [e2 EXCEPT !.phase = IF last THEN "serving" ELSE r.phase]
            e4 == [e3 EXCEPT !.up = IF last THEN Tasks(r.roles) ELSE r.up]
<1>. HIDE DEF open
<1>31. /\ e1 \in RunRecords /\ e1.open = open
       /\ e1.reaper = r.reaper /\ e1.boots = r.boots /\ e1.held = r.held
  BY <1>1, <1>3 DEF RunRecords
<1>. HIDE DEF e1
<1>32. /\ e2 \in RunRecords /\ e2.open = open /\ e2.step = (IF last THEN 1 ELSE r.step + 1)
       /\ e2.reaper = r.reaper /\ e2.boots = r.boots /\ e2.held = r.held
  BY <1>1, <1>31, StepNames DEF RunRecords
<1>. HIDE DEF e2
<1>33. /\ e3 \in RunRecords /\ e3.open = open /\ e3.step = (IF last THEN 1 ELSE r.step + 1)
       /\ e3.phase = IF last THEN "serving" ELSE r.phase
       /\ e3.reaper = r.reaper /\ e3.boots = r.boots /\ e3.held = r.held
  BY <1>1, <1>32 DEF RunRecords
<1>. HIDE DEF e3
<1>34. /\ e4 \in RunRecords /\ e4.open = open /\ e4.step = (IF last THEN 1 ELSE r.step + 1)
       /\ e4.phase = (IF last THEN "serving" ELSE r.phase)
       /\ e4.up = (IF last THEN Tasks(r.roles) ELSE r.up)
       /\ e4.reaper = r.reaper /\ e4.boots = r.boots /\ e4.held = r.held
  BY <1>1, <1>3, <1>33 DEF RunRecords
<1>35. d = e4
  BY <1>2 DEF e1, e2, e3
<1>. HIDE DEF d, e4
<1>4. /\ d.phase = IF last THEN "serving" ELSE "building"
      /\ d.step = IF last THEN 1 ELSE r.step + 1
      /\ d.open = open /\ d.up = IF last THEN Tasks(r.roles) ELSE {}
      /\ d.reaper = r.reaper /\ d.boots = r.boots /\ d.held = r.held
      /\ d \in RunRecords
  BY <1>1, <1>34, <1>35
<1>. HIDE DEF last
<1>5. CASE last
  <2>1. {"store", "redis", "queue"} \subseteq open /\ ("api" \in r.roles => "listener" \in open)
    BY <1>1, <1>5, OpensIs DEF Shape, open, last
  <2>2. \A task \in Tasks(r.roles) : Uses(task) \subseteq open
    BY <1>1, <2>1, TasksUse DEF RunRecords
  <2>3. "cache" \in open => "database" \in open
    BY <1>1, <1>5, OpensIs DEF Shape, open, last
  <2>4. Shape(d)
    BY <1>4, <1>5, <2>2, <2>3 DEF Shape
  <2>. QED
    BY <1>3, <1>4, <2>4 DEF d, open, last
<1>6. CASE ~last
  <2>1. Shape(d)
    BY <1>1, <1>4, <1>6, OpensIs DEF Shape, open, last
  <2>. QED
    BY <1>1, <1>4, <2>1, <1>6 DEF d, open, last
<1>. QED
  BY <1>5, <1>6

LEMMA FailedShape ==
    ASSUME NEW p \in Runs, Shape(run[p]), run[p].phase = "building"
    PROVE  /\ Shape(Failed(p)) /\ Failed(p).phase = "closing" /\ Failed(p).step = 1
           /\ "database" \in Failed(p).open <=> "database" \in run[p].open
           /\ Failed(p).reaper = run[p].reaper
<1>. DEFINE r == run[p]
            open == r.open \cup ({Steps[r.step]} \cap {"redis", "queue"})
            f == Failed(p)
<1>1. r \in RunRecords /\ r.up = {}
  BY DEF Shape
<1>2. f = [r EXCEPT !.phase = "closing", !.step = 1, !.open = open]
  BY DEF Failed
<1>3. open \subseteq Resources /\ ("database" \in open <=> "database" \in r.open)
  BY <1>1, ResourceNames DEF RunRecords
<1>. DEFINE e1 == [r EXCEPT !.phase = "closing"]
            e2 == [e1 EXCEPT !.step = 1]
            e3 == [e2 EXCEPT !.open = open]
<1>. HIDE DEF open
<1>31. e1 \in RunRecords /\ e1.phase = "closing" /\ e1.up = {} /\ e1.reaper = r.reaper
  BY <1>1 DEF RunRecords
<1>. HIDE DEF e1
<1>32. e2 \in RunRecords /\ e2.phase = "closing" /\ e2.step = 1 /\ e2.up = {} /\ e2.reaper = r.reaper
  BY <1>31, StepNames DEF RunRecords
<1>. HIDE DEF e2
<1>33. /\ e3 \in RunRecords /\ e3.phase = "closing" /\ e3.step = 1 /\ e3.open = open
       /\ e3.up = {} /\ e3.reaper = r.reaper
  BY <1>3, <1>32 DEF RunRecords
<1>34. f = e3
  BY <1>2 DEF e1, e2
<1>. HIDE DEF f, e3
<1>4. /\ f.phase = "closing" /\ f.step = 1 /\ f.open = open /\ f.up = {}
      /\ f.reaper = r.reaper /\ f \in RunRecords
  BY <1>33, <1>34
<1>. QED
  BY <1>3, <1>4 DEF Shape, f

\* What the run checks follows from the invariant.
LEMMA ProcessInvTypes == ProcessInv => ProcessTypeOK
<1>. SUFFICES ASSUME ProcessInv PROVE ProcessTypeOK
  OBVIOUS
<1>1. \A p \in Runs : run[p] \in RunRecords
  BY DEF ProcessInv, Shape
<1>2. run \in [Runs -> RunRecords]
  <2>1. run = [p \in Runs |-> run[p]]
    BY DEF ProcessInv
  <2>. QED
    BY <1>1, <2>1
<1>3. lockFile \subseteq Runs /\ Cardinality(lockFile) <= 1
  <2>1. CASE lockFile = {}
    <3>1. Cardinality({}) = 0
      BY FS_EmptySet
    <3>. QED
      BY <2>1, <3>1
  <2>2. ASSUME NEW q \in Runs, lockFile = {q} PROVE lockFile \subseteq Runs /\ Cardinality(lockFile) <= 1
    <3>1. Cardinality({q}) = 1
      BY FS_Singleton
    <3>. QED
      BY <2>2, <3>1
  <2>. QED
    BY <2>1, <2>2 DEF ProcessInv, Files, OneAtATime, Settled
<1>. QED
  BY <1>2, <1>3 DEF ProcessInv, ProcessTypeOK, Files, OneAtATime, Settled, RunRecords

LEMMA ProcessInvSound == ProcessInv => ProcessesSound
<1>. SUFFICES ASSUME ProcessInv PROVE ProcessesSound
  OBVIOUS
<1>1. NothingLeaks
  <2>. SUFFICES ASSUME NEW p \in Runs, run[p].phase = "exited", fate[p] = {}
                PROVE  run[p].open = {} /\ \A s \in servers : s.by # p
    BY DEF NothingLeaks
  <2>1. Shape(run[p]) /\ Hosts(p)
    BY DEF ProcessInv
  <2>2. run[p].open = {} /\ ~Holding(run[p])
    BY <2>1 DEF Shape, Holding
  <2>. QED
    BY <2>1, <2>2 DEF Hosts
<1>2. ClosedAfterUse
  <2>. SUFFICES ASSUME NEW p \in Runs
                PROVE  /\ \A task \in run[p].up : Uses(task) \subseteq run[p].open
                       /\ run[p].phase = "serving" /\ "cache" \in run[p].open
                            => "database" \in run[p].open
    BY DEF ClosedAfterUse
  <2>1. Shape(run[p])
    BY DEF ProcessInv
  <2>. QED
    BY <2>1 DEF Shape
<1>3. OwnServer
  <2>. SUFFICES ASSUME NEW p \in Runs, run[p].phase = "serving", "database" \in run[p].open,
                       Undisturbed
                PROVE  servers = {[by |-> p, up |-> TRUE]} /\ lockFile = {p}
    BY DEF OwnServer, Undisturbed
  <2>. DEFINE own == [by |-> p, up |-> TRUE]
  <2>1. own \in servers /\ \A s \in servers : lockFile = {s.by}
    BY DEF ProcessInv, Files, OneAtATime, Settled
  <2>2. lockFile = {p}
    BY <2>1
  <2>3. \A s \in servers : s = own
    BY <2>1, <2>2 DEF ProcessInv, Files, OneAtATime, Settled
  <2>. QED
    BY <2>1, <2>2, <2>3
<1>. QED
  BY <1>1, <1>2, <1>3, ProcessInvTypes DEF ProcessesSound, RunsAreTidy

LEMMA ProcessInitial == ProcessInit => ProcessInv
<1>. SUFFICES ASSUME ProcessInit PROVE ProcessInv
  OBVIOUS
<1>1. /\ Off \in RunRecords /\ Off.phase = "off" /\ Off.up = {} /\ Off.open = {} /\ ~Off.reaper
  BY StepNames, ProcessAssumption DEF Off, RunRecords
<1>2. \A p \in Runs : run[p] = Off
  BY DEF ProcessInit
<1>3. \A p \in Runs : Shape(run[p])
  BY <1>1, <1>2 DEF Shape
<1>4. \A p \in Runs : Hosts(p)
  BY <1>1, <1>2 DEF Hosts, ProcessInit
<1>5. Files /\ OneAtATime /\ Settled
  BY <1>1, <1>2 DEF Files, OneAtATime, Settled, Alive, ProcessInit
<1>. QED
  BY <1>3, <1>4, <1>5, ProcessAssumption DEF ProcessInit, ProcessInv

\* A run goes on, and the directory stays as it is.
GoesOn(p, r) ==
    /\ Shape(r)
    /\ r.phase = "off" => run[p].phase = "off"
    /\ r.phase \in {"building", "serving"} => run[p].phase \in {"off", "building", "serving"}
    /\ r.reaper => run[p].reaper
    /\ Holding(run[p]) /\ fate[p] = {} => Holding(r) \/ \A s \in servers : s.by # p
    /\ r.phase = "building" /\ r.step = 3 => lockFile \subseteq r.held
    /\ run[p].phase = "building" /\ run[p].step = 5 =>
         \/ r.phase = "building" /\ r.step = 5
         \/ (\A s \in servers : s.by = p => s.up)
    /\ r.phase \in {"building", "serving"} /\ "database" \in r.open =>
         \/ run[p].phase \in {"building", "serving"} /\ "database" \in run[p].open
         \/ [by |-> p, up |-> TRUE] \in servers

LEMMA RunMoves ==
    ASSUME ProcessInv, NEW p \in Runs, NEW r, run' = [run EXCEPT ![p] = r], GoesOn(p, r),
           Alive(p) \/ \A q \in Runs : ~Alive(q),
           UNCHANGED <<fate, servers, lockFile, kills>>
    PROVE  ProcessInv'
<1>1. /\ run' = [q \in Runs |-> run'[q]] /\ run'[p] = r
      /\ \A q \in Runs : q # p => run'[q] = run[q]
  BY DEF ProcessInv
<1>2. \A q \in Runs : Shape(run'[q])
  BY <1>1 DEF ProcessInv, GoesOn
<1>3. Hosts(p)'
  <2>1. Hosts(p)
    BY DEF ProcessInv
  <2>2. r.phase \in {"off", "building", "serving"} => fate[p] = {}
    BY <2>1 DEF Hosts, GoesOn
  <2>3. r.reaper => "abandoned" \in fate[p]
    BY <2>1 DEF Hosts, GoesOn
  <2>4. fate[p] = {} => \A s \in servers : s.by = p => lockFile = {p} /\ Holding(r)
    BY <2>1 DEF Hosts, GoesOn
  <2>5. r.phase = "building" /\ r.step = 3 => lockFile \subseteq r.held
    BY DEF GoesOn
  <2>. QED
    BY <1>1, <2>2, <2>3, <2>4, <2>5 DEF Hosts
<1>4. \A q \in Runs : Hosts(q)'
  <2>. TAKE q \in Runs
  <2>1. CASE q = p
    BY <1>3, <2>1
  <2>2. CASE q # p
    <3>1. Hosts(q) /\ run'[q] = run[q]
      BY <1>1, <2>2 DEF ProcessInv
    <3>. QED
      BY <3>1 DEF Hosts
  <2>. QED
    BY <2>1, <2>2
<1>5. \A q \in Runs : q # p => ~Alive(q)
  BY DEF ProcessInv, Files, OneAtATime, Settled
<1>6. \A q, o \in Runs : Alive(q)' /\ Alive(o)' => q = o
  BY <1>1, <1>5 DEF Alive
<1>7. Undisturbed' => Undisturbed
  BY DEF Undisturbed
<1>8. ASSUME Undisturbed, NEW s \in servers
      PROVE  lockFile = {s.by} /\ (s.up \/ (run'[s.by].phase = "building" /\ run'[s.by].step = 5))
  <2>1. /\ lockFile = {s.by} /\ s.by \in Runs
        /\ s.up \/ (run[s.by].phase = "building" /\ run[s.by].step = 5)
    BY <1>8 DEF ProcessInv, Files, OneAtATime, Settled
  <2>2. CASE s.by = p
    BY <1>1, <2>1, <2>2 DEF GoesOn
  <2>3. CASE s.by # p
    BY <1>1, <2>1, <2>3
  <2>. QED
    BY <2>1, <2>2, <2>3
<1>9. ASSUME Undisturbed, NEW q \in Runs, run'[q].phase \in {"building", "serving"},
             "database" \in run'[q].open
      PROVE  [by |-> q, up |-> TRUE] \in servers
  <2>1. CASE q = p
    BY <1>1, <1>9, <2>1 DEF GoesOn, ProcessInv, Files, OneAtATime, Settled
  <2>2. CASE q # p
    BY <1>1, <1>9, <2>2 DEF ProcessInv, Files, OneAtATime, Settled
  <2>. QED
    BY <2>1, <2>2
<1>10. Files' /\ OneAtATime' /\ Settled'
  BY <1>6, <1>7, <1>8, <1>9 DEF ProcessInv, Files, OneAtATime, Settled
<1>. QED
  BY <1>1, <1>2, <1>4, <1>10 DEF ProcessInv

\* A run that is over, or has not begun, has no servers unless something befell it.
LEMMA DeadHosts ==
    ASSUME ProcessInv, NEW q \in Runs, ~Alive(q), run'[q] = run[q], fate'[q] = fate[q],
           \A s \in servers' : s.by = q => \E t \in servers : t.by = q
    PROVE  Hosts(q)'
<1>1. Shape(run[q]) /\ Hosts(q)
  BY DEF ProcessInv
<1>2. run[q].phase \in {"off", "exited"}
  BY DEF Alive
<1>3. ~Holding(run[q])
  BY <1>1, <1>2 DEF Shape, Holding
<1>4. fate[q] = {} => \A s \in servers : s.by # q
  BY <1>1, <1>3 DEF Hosts
<1>. QED
  BY <1>1, <1>2, <1>4 DEF Hosts

\* A run moves and the directory with it: what is left to show.
LEMMA Rearranged ==
    ASSUME ProcessInv, NEW p \in Runs, Alive(p), NEW r, run' = [run EXCEPT ![p] = r], Shape(r),
           fate' \in [Runs -> SUBSET {"abandoned", "killed booting", "killed"}],
           kills' \in 0..MaxKills, \A q \in Runs : q # p => fate'[q] = fate[q],
           \A s \in servers' : s.by # p => \E t \in servers : t.by = s.by,
           Hosts(p)', Files', Settled'
    PROVE  ProcessInv'
<1>1. /\ run' = [q \in Runs |-> run'[q]] /\ run'[p] = r
      /\ \A q \in Runs : q # p => run'[q] = run[q]
  BY DEF ProcessInv
<1>2. \A q \in Runs : q # p => ~Alive(q)
  BY DEF ProcessInv, OneAtATime
<1>3. \A q \in Runs : Shape(run'[q])
  BY <1>1 DEF ProcessInv
<1>4. \A q \in Runs : Hosts(q)'
  <2>. TAKE q \in Runs
  <2>1. CASE q = p
    BY <2>1
  <2>2. CASE q # p
    BY <1>1, <1>2, <2>2, DeadHosts
  <2>. QED
    BY <2>1, <2>2
<1>5. OneAtATime'
  BY <1>1, <1>2 DEF OneAtATime, Alive
<1>. QED
  BY <1>1, <1>3, <1>4, <1>5 DEF ProcessInv

LEMMA BeginStep ==
    ASSUME ProcessInv, NEW p \in Runs, Begin(p)
    PROVE  ProcessInv'
<1>1. PICK roles \in SUBSET {"api", "worker"} \ {{}}, first \in {"cache", "store"} :
          Becomes(p, [Off EXCEPT !.phase = "building", !.roles = roles,
                                 !.step = CHOOSE n \in 1..Len(Steps) : Steps[n] = first])
  BY DEF Begin
<1>2. /\ run[p].phase = "off" /\ \A q \in Runs : ~Alive(q)
      /\ UNCHANGED <<fate, servers, lockFile, kills>>
  BY DEF Begin
<1>. DEFINE k == CHOOSE n \in 1..Len(Steps) : Steps[n] = first
            e1 == [Off EXCEPT !.phase = "building"]
            e2 == [e1 EXCEPT !.roles = roles]
            r == [e2 EXCEPT !.step = k]
<1>3. k \in {1, 6}
  <2>1. k \in 1..Len(Steps) /\ Steps[k] = first
    BY StepNames
  <2>2. \A n \in 1..10 : n = 1 \/ n = 2 \/ n = 3 \/ n = 4 \/ n = 5
                         \/ n = 6 \/ n = 7 \/ n = 8 \/ n = 9 \/ n = 10
    OBVIOUS
  <2>. HIDE DEF k
  <2>. QED
    BY <2>1, <2>2, StepNames
<1>. HIDE DEF k
<1>4. Off \in RunRecords
  BY StepNames, ProcessAssumption DEF Off, RunRecords
<1>5. e1 \in RunRecords /\ e1.phase = "building" /\ e1.up = {} /\ e1.open = {} /\ ~e1.reaper
      /\ e1.boots = 0
  BY <1>4 DEF RunRecords, Off
<1>. HIDE DEF e1
<1>6. e2 \in RunRecords /\ e2.phase = "building" /\ e2.up = {} /\ e2.open = {} /\ ~e2.reaper
      /\ e2.boots = 0
  BY <1>5 DEF RunRecords
<1>. HIDE DEF e2
<1>7. /\ r \in RunRecords /\ r.phase = "building" /\ r.up = {} /\ r.open = {} /\ ~r.reaper
      /\ r.boots = 0 /\ r.step = k
  BY <1>3, <1>6, StepNames DEF RunRecords
<1>8. run' = [run EXCEPT ![p] = r]
  BY <1>1 DEF Becomes, e1, e2, k
<1>. HIDE DEF r
<1>9. Shape(r)
  BY <1>3, <1>7, ProcessAssumption DEF Shape
<1>10. ~Holding(run[p])
  <2>1. Shape(run[p])
    BY DEF ProcessInv
  <2>. QED
    BY <1>2, <2>1 DEF Shape, Holding
<1>11. GoesOn(p, r)
  BY <1>2, <1>3, <1>7, <1>9, <1>10 DEF GoesOn
<1>. QED
  BY <1>2, <1>8, <1>11, RunMoves

\* What the invariant says of a run that is building.
LEMMA Building ==
    ASSUME ProcessInv, NEW p \in Runs, run[p].phase = "building"
    PROVE  /\ Shape(run[p]) /\ Hosts(p) /\ Alive(p) /\ fate[p] = {} /\ ~run[p].reaper
           /\ run[p].step \in 1..10
           /\ run[p].step <= 4 => \A s \in servers : s.by # p
           /\ \A s \in servers : s.by = p => lockFile = {p}
           /\ \A q \in Runs : q # p => ~Alive(q)
<1>1. Shape(run[p]) /\ Hosts(p) /\ Alive(p)
  BY DEF ProcessInv, Alive
<1>2. run[p].step \in 1..10
  BY <1>1, StepNames DEF Shape, RunRecords
<1>3. fate[p] = {} /\ ~run[p].reaper
  BY <1>1 DEF Hosts
<1>4. run[p].step <= 4 => ~Holding(run[p])
  BY <1>1, <1>2 DEF Shape, Holding
<1>. QED
  BY <1>1, <1>2, <1>3, <1>4 DEF Hosts, ProcessInv, Files, OneAtATime, Settled

LEMMA DoneGoesOn ==
    ASSUME ProcessInv, NEW p \in Runs, run[p].phase = "building", run[p].step # 2,
           run[p].step = 5 => [by |-> p, up |-> TRUE] \in servers
    PROVE  GoesOn(p, Done(p))
<1>. DEFINE r == Done(p)
<1>1. Shape(run[p]) /\ run[p].step \in 1..10 /\ Shape(r)
  BY Building, DoneShape
<1>2. /\ r.phase = IF run[p].step = 10 THEN "serving" ELSE "building"
      /\ r.step = IF run[p].step = 10 THEN 1 ELSE run[p].step + 1
      /\ r.open = run[p].open \cup Opens(p) /\ r.reaper = run[p].reaper
  BY <1>1, DoneShape
<1>. HIDE DEF r
<1>3. "database" \in r.open <=> "database" \in run[p].open \/ run[p].step = 5
  BY <1>1, <1>2, OpensIs
<1>4. Holding(run[p]) => Holding(r)
  BY <1>1, <1>2, <1>3 DEF Holding
<1>5. run[p].step = 5 => \A s \in servers : s.by = p => s.up
  BY DEF ProcessInv, Files, OneAtATime, Settled
<1>. QED
  BY <1>1, <1>2, <1>3, <1>4, <1>5 DEF GoesOn, r

LEMMA FailedGoesOn ==
    ASSUME ProcessInv, NEW p \in Runs, run[p].phase = "building",
           run[p].step = 5 => \A s \in servers : s.by # p
    PROVE  GoesOn(p, Failed(p))
<1>1. Shape(run[p]) /\ run[p].step \in 1..10
  BY Building
<1>2. /\ Shape(Failed(p)) /\ Failed(p).phase = "closing" /\ Failed(p).step = 1
      /\ "database" \in Failed(p).open <=> "database" \in run[p].open
      /\ Failed(p).reaper = run[p].reaper
  BY <1>1, FailedShape
<1>3. Holding(run[p]) => Holding(Failed(p)) \/ \A s \in servers : s.by # p
  BY <1>2 DEF Holding
<1>. QED
  BY <1>2, <1>3 DEF GoesOn

LEMMA BuildStepped ==
    ASSUME ProcessInv, NEW p \in Runs, BuildStep(p)
    PROVE  ProcessInv'
<1>1. Shape(run[p])
  BY DEF ProcessInv
<1>2. run[p].phase = "building" /\ (run[p].step = 1 \/ run[p].step >= 6)
  BY <1>1, AtIs DEF BuildStep
<1>3. Alive(p) /\ run[p].step \in 1..10
  BY <1>2, Building
<1>4. GoesOn(p, Done(p)) /\ GoesOn(p, Failed(p))
  <2>1. run[p].step # 2 /\ run[p].step # 5
    BY <1>2, <1>3
  <2>. QED
    BY <1>2, <2>1, DoneGoesOn, FailedGoesOn
<1>. QED
  BY <1>3, <1>4, RunMoves DEF BuildStep, Becomes

LEMMA ReadLockStep ==
    ASSUME ProcessInv, NEW p \in Runs, ReadLock(p)
    PROVE  ProcessInv'
<1>1. Shape(run[p])
  BY DEF ProcessInv
<1>2. run[p].phase = "building" /\ run[p].step = 2
  BY <1>1, AtIs DEF ReadLock
<1>3. Alive(p) /\ ~run[p].reaper
  BY <1>2, Building
<1>. DEFINE d == Done(p)
            r == [d EXCEPT !.held = lockFile]
<1>4. /\ Shape(d) /\ d.phase = "building" /\ d.step = 3 /\ d.open = run[p].open \cup Opens(p)
      /\ ~d.reaper
  BY <1>1, <1>2, <1>3, DoneShape
<1>. HIDE DEF d
<1>5. lockFile \subseteq Runs
  BY DEF ProcessInv, Files, OneAtATime, Settled
<1>6. /\ r \in RunRecords /\ r.held = lockFile /\ r.phase = d.phase /\ r.step = d.step
      /\ r.open = d.open /\ r.up = d.up /\ r.boots = d.boots /\ r.reaper = d.reaper
  BY <1>4, <1>5 DEF Shape, RunRecords
<1>. HIDE DEF r
<1>7. Shape(r)
  BY <1>4, <1>6 DEF Shape
<1>8. "database" \notin r.open /\ ~Holding(run[p])
  BY <1>1, <1>2, <1>4, <1>6, OpensIs DEF Holding, Shape
<1>9. GoesOn(p, r)
  BY <1>2, <1>4, <1>6, <1>7, <1>8 DEF GoesOn
<1>10. GoesOn(p, Failed(p))
  BY <1>2, FailedGoesOn
<1>. QED
  BY <1>3, <1>9, <1>10, RunMoves DEF ReadLock, Becomes, r, d

LEMMA AwaitStep ==
    ASSUME ProcessInv, NEW p \in Runs, Await(p)
    PROVE  ProcessInv'
<1>1. Shape(run[p])
  BY DEF ProcessInv
<1>2. run[p].phase = "building" /\ run[p].step = 5
  BY <1>1, AtIs DEF Await
<1>3. Alive(p) /\ ~run[p].reaper
  BY <1>2, Building
<1>4. CASE [by |-> p, up |-> TRUE] \in servers /\ Becomes(p, Done(p))
  <2>1. GoesOn(p, Done(p))
    BY <1>2, <1>4, DoneGoesOn
  <2>. QED
    BY <1>3, <1>4, <2>1, RunMoves DEF Await, Becomes
<1>5. CASE (\A s \in servers : s.by # p) /\ Becomes(p, Failed(p))
  <2>1. GoesOn(p, Failed(p))
    BY <1>2, <1>5, FailedGoesOn
  <2>. QED
    BY <1>3, <1>5, <2>1, RunMoves DEF Await, Becomes
<1>6. CASE /\ \A s \in servers : s.by # p
           /\ MayTryAnotherPort(p) /\ Becomes(p, [run[p] EXCEPT !.step = 2])
  <2>. DEFINE r == [run[p] EXCEPT !.step = 2]
  <2>1. /\ r \in RunRecords /\ r.phase = "building" /\ r.step = 2 /\ r.open = run[p].open
        /\ r.up = run[p].up /\ r.boots = run[p].boots /\ r.reaper = run[p].reaper
    BY <1>1, <1>2, StepNames DEF Shape, RunRecords
  <2>. HIDE DEF r
  <2>2. Shape(r)
    BY <1>1, <1>2, <1>6, <2>1 DEF Shape, MayTryAnotherPort
  <2>3. GoesOn(p, r)
    BY <1>1, <1>2, <1>3, <1>6, <2>1, <2>2 DEF GoesOn, Shape
  <2>. QED
    BY <1>3, <1>6, <2>3, RunMoves DEF Await, Becomes, r
<1>. QED
  BY <1>4, <1>5, <1>6 DEF Await


\* A run stays where it is, but for what it has up and its marks.
LEMMA SamePlace ==
    ASSUME ProcessInv, NEW p \in Runs, NEW r \in RunRecords, r.phase = run[p].phase,
           r.step = run[p].step, r.open = run[p].open, r.boots = run[p].boots,
           r.reaper => run[p].reaper, r.held = run[p].held, r.up \subseteq run[p].up
    PROVE  GoesOn(p, r)
<1>1. Shape(run[p]) /\ Hosts(p)
  BY DEF ProcessInv
<1>2. Shape(r)
  BY <1>1 DEF Shape
<1>3. r.phase = "building" /\ r.step = 3 => lockFile \subseteq r.held
  BY <1>1 DEF Hosts
<1>4. Holding(run[p]) => Holding(r)
  BY DEF Holding
<1>. QED
  BY <1>2, <1>3, <1>4 DEF GoesOn

LEMMA RunningSteps ==
    ASSUME ProcessInv, NEW p \in Runs, Signal(p) \/ ServeFails(p) \/ TaskEnds(p)
    PROVE  ProcessInv'
<1>1. Shape(run[p]) /\ run[p] \in RunRecords
  BY DEF ProcessInv, Shape
<1>2. Alive(p) /\ UNCHANGED <<fate, servers, lockFile, kills>>
  <2>1. CASE Signal(p)
    BY <2>1 DEF Signal, Alive
  <2>2. CASE ServeFails(p) \/ TaskEnds(p)
    <3>1. run[p].phase = "serving"
      BY <1>1, <2>2 DEF ServeFails, TaskEnds, Shape
    <3>. QED
      BY <2>2, <3>1 DEF ServeFails, TaskEnds, Alive
  <2>. QED
    BY <2>1, <2>2
<1>3. CASE Signal(p)
  <2>. DEFINE r == [run[p] EXCEPT !.cancelled = TRUE]
  <2>1. /\ r \in RunRecords /\ r.phase = run[p].phase /\ r.step = run[p].step
        /\ r.open = run[p].open /\ r.boots = run[p].boots /\ r.reaper = run[p].reaper
        /\ r.held = run[p].held /\ r.up = run[p].up
    BY <1>1 DEF RunRecords
  <2>2. run' = [run EXCEPT ![p] = r]
    BY <1>3 DEF Signal, Becomes
  <2>. HIDE DEF r
  <2>. QED
    BY <1>2, <2>1, <2>2, SamePlace, RunMoves
<1>4. ASSUME NEW task, run' = [run EXCEPT ![p] = [run[p] EXCEPT !.up = run[p].up \ {task}]]
      PROVE  ProcessInv'
  <2>. DEFINE left == run[p].up \ {task}
              r == [run[p] EXCEPT !.up = left]
  <2>1. left \in SUBSET Tasks({"api", "worker"}) /\ left \subseteq run[p].up
    BY <1>1 DEF RunRecords
  <2>2. run' = [run EXCEPT ![p] = r]
    BY <1>4
  <2>. HIDE DEF left
  <2>3. /\ r \in RunRecords /\ r.phase = run[p].phase /\ r.step = run[p].step
        /\ r.open = run[p].open /\ r.boots = run[p].boots /\ r.reaper = run[p].reaper
        /\ r.held = run[p].held /\ r.up = left
    BY <1>1, <2>1 DEF RunRecords
  <2>. HIDE DEF r
  <2>. QED
    BY <1>2, <2>1, <2>2, <2>3, SamePlace, RunMoves
<1>5. CASE ServeFails(p)
  <2>. DEFINE left == run[p].up \ {"http"}
              e1 == [run[p] EXCEPT !.up = left]
              r == [e1 EXCEPT !.cancelled = TRUE]
  <2>1. left \in SUBSET Tasks({"api", "worker"}) /\ left \subseteq run[p].up
    BY <1>1 DEF RunRecords
  <2>2. run' = [run EXCEPT ![p] = r]
    BY <1>5 DEF ServeFails, Becomes
  <2>. HIDE DEF left
  <2>3. /\ e1 \in RunRecords /\ e1.phase = run[p].phase /\ e1.step = run[p].step
        /\ e1.open = run[p].open /\ e1.boots = run[p].boots /\ e1.reaper = run[p].reaper
        /\ e1.held = run[p].held /\ e1.up = left
    BY <1>1, <2>1 DEF RunRecords
  <2>. HIDE DEF e1
  <2>4. /\ r \in RunRecords /\ r.phase = run[p].phase /\ r.step = run[p].step
        /\ r.open = run[p].open /\ r.boots = run[p].boots /\ r.reaper = run[p].reaper
        /\ r.held = run[p].held /\ r.up = left
    BY <2>3 DEF RunRecords
  <2>. HIDE DEF r
  <2>. QED
    BY <1>2, <2>1, <2>2, <2>4, SamePlace, RunMoves
<1>. QED
  BY <1>3, <1>4, <1>5 DEF TaskEnds, Becomes

LEMMA ReturnStep ==
    ASSUME ProcessInv, NEW p \in Runs, RunReturns(p)
    PROVE  ProcessInv'
<1>1. Shape(run[p]) /\ run[p] \in RunRecords /\ run[p].phase = "serving" /\ Alive(p)
  BY DEF ProcessInv, Shape, RunReturns, Alive
<1>. DEFINE r == [run[p] EXCEPT !.phase = "closing"]
<1>2. /\ r \in RunRecords /\ r.phase = "closing" /\ r.step = run[p].step
      /\ r.open = run[p].open /\ r.boots = run[p].boots /\ r.reaper = run[p].reaper
      /\ r.up = run[p].up
  BY <1>1 DEF RunRecords
<1>3. run' = [run EXCEPT ![p] = r] /\ UNCHANGED <<fate, servers, lockFile, kills>>
      /\ run[p].up = {}
  BY DEF RunReturns, Becomes, AllEnded
<1>. HIDE DEF r
<1>4. Shape(r)
  BY <1>1, <1>2, <1>3 DEF Shape
<1>5. GoesOn(p, r)
  BY <1>1, <1>2, <1>4 DEF GoesOn, Holding
<1>. QED
  BY <1>1, <1>3, <1>5, RunMoves

\* A run that has come to an end leaves nothing open.
LEMMA ExitStep ==
    ASSUME ProcessInv, NEW p \in Runs, Exit(p)
    PROVE  ProcessInv'
<1>1. /\ Shape(run[p]) /\ run[p] \in RunRecords /\ run[p].phase = "closing" /\ Alive(p)
      /\ run[p].step \in 1..10 /\ run[p].step > 6
  BY StepNames DEF ProcessInv, Shape, RunRecords, Exit, Alive
<1>2. run[p].open = {}
  <2>1. \A n \in 1..6 : Closing[n] \notin run[p].open
    BY <1>1 DEF Shape
  <2>2. run[p].open \subseteq Resources
    BY <1>1 DEF RunRecords
  <2>. QED
    BY <2>1, <2>2, ResourceNames, StepNames
<1>. DEFINE e1 == [Off EXCEPT !.phase = "exited"]
            r == [e1 EXCEPT !.open = run[p].open]
<1>3. Off \in RunRecords
  BY StepNames, ProcessAssumption DEF Off, RunRecords
<1>4. e1 \in RunRecords /\ e1.phase = "exited" /\ e1.up = {} /\ ~e1.reaper
  BY <1>3 DEF RunRecords, Off
<1>. HIDE DEF e1
<1>5. r \in RunRecords /\ r.phase = "exited" /\ r.up = {} /\ ~r.reaper /\ r.open = {}
  BY <1>2, <1>4 DEF RunRecords
<1>6. run' = [run EXCEPT ![p] = r] /\ UNCHANGED <<fate, servers, lockFile, kills>>
  BY DEF Exit, Becomes, e1
<1>. HIDE DEF r
<1>7. Shape(r)
  BY <1>5 DEF Shape
<1>8. ~Holding(run[p])
  BY <1>1, <1>2 DEF Holding
<1>9. GoesOn(p, r)
  BY <1>1, <1>5, <1>7, <1>8 DEF GoesOn
<1>. QED
  BY <1>1, <1>6, <1>9, RunMoves


LEMMA RecoverStep ==
    ASSUME ProcessInv, NEW p \in Runs, Recover(p)
    PROVE  ProcessInv'
<1>1. Shape(run[p])
  BY DEF ProcessInv
<1>2. run[p].phase = "building" /\ run[p].step = 3
  BY <1>1, AtIs DEF Recover
<1>3. /\ Alive(p) /\ ~run[p].reaper /\ fate[p] = {} /\ lockFile \subseteq run[p].held
      /\ \A s \in servers : s.by # p
      /\ \A q \in Runs : q # p => ~Alive(q)
  BY <1>2, Building DEF Hosts
<1>4. UNCHANGED <<fate, kills>>
  BY DEF Recover
<1>5. GoesOn(p, Done(p)) /\ GoesOn(p, Failed(p))
  <2>1. run[p].step # 2 /\ run[p].step # 5
    BY <1>2
  <2>. QED
    BY <1>2, <2>1, DoneGoesOn, FailedGoesOn
<1>6. CASE UNCHANGED <<servers, lockFile>> /\ (Becomes(p, Done(p)) \/ Becomes(p, Failed(p)))
  BY <1>3, <1>4, <1>5, <1>6, RunMoves DEF Becomes
<1>7. CASE /\ Becomes(p, [Done(p) EXCEPT !.held = {}])
           /\ servers' = servers \ {[by |-> q, up |-> TRUE] : q \in run[p].held}
           /\ lockFile' = {}
  <2>. DEFINE d == Done(p)
              r == [d EXCEPT !.held = {}]
  <2>1. /\ Shape(d) /\ d.phase = "building" /\ d.step = 4 /\ ~d.reaper
    BY <1>1, <1>2, <1>3, DoneShape
  <2>. HIDE DEF d
  <2>2. /\ r \in RunRecords /\ r.phase = "building" /\ r.step = 4 /\ r.open = d.open
        /\ r.up = d.up /\ r.boots = d.boots /\ ~r.reaper
    BY <2>1 DEF Shape, RunRecords
  <2>3. run' = [run EXCEPT ![p] = r]
    BY <1>7 DEF Becomes, d
  <2>. HIDE DEF r
  <2>4. Shape(r) /\ run'[p] = r
    BY <2>1, <2>2, <2>3 DEF Shape, ProcessInv
  <2>5. servers' \subseteq servers
    BY <1>7
  <2>6. Hosts(p)'
    BY <1>3, <1>4, <2>2, <2>4, <2>5 DEF Hosts
  <2>7. Files'
    BY <1>7, <2>5 DEF ProcessInv, Files
  <2>8. ASSUME Undisturbed, NEW s \in servers PROVE s \notin servers'
    <3>1. /\ lockFile = {s.by} /\ s \in [by : Runs, up : BOOLEAN]
          /\ s.up \/ (run[s.by].phase = "building" /\ run[s.by].step = 5)
      BY <2>8 DEF ProcessInv, Settled, Files
    <3>2. s.up
      BY <1>2, <1>3, <3>1 DEF Alive
    <3>3. s.by \in run[p].held /\ s = [by |-> s.by, up |-> TRUE]
      BY <1>3, <3>1, <3>2
    <3>. QED
      BY <1>7, <3>3
  <2>9. ASSUME NEW q \in Runs, run'[q].phase \in {"building", "serving"} PROVE "database" \notin run'[q].open
    <3>1. CASE q = p
      BY <2>2, <2>4, <3>1 DEF Shape
    <3>2. CASE q # p
      BY <1>3, <2>3, <2>9, <3>2 DEF Alive, ProcessInv
    <3>. QED
      BY <3>1, <3>2
  <2>10. Settled'
    <3>1. Undisturbed' => servers' = {}
      BY <1>4, <2>5, <2>8 DEF Undisturbed
    <3>. QED
      BY <2>9, <3>1 DEF Settled
  <2>. QED
    BY <1>3, <1>4, <2>3, <2>4, <2>5, <2>6, <2>7, <2>10, Rearranged DEF ProcessInv
<1>. QED
  BY <1>6, <1>7 DEF Recover

LEMMA LaunchStep ==
    ASSUME ProcessInv, NEW p \in Runs, Launch(p)
    PROVE  ProcessInv'
<1>1. Shape(run[p])
  BY DEF ProcessInv
<1>2. run[p].phase = "building" /\ run[p].step = 4
  BY <1>1, AtIs DEF Launch
<1>3. /\ Alive(p) /\ ~run[p].reaper /\ fate[p] = {}
      /\ \A s \in servers : s.by # p
      /\ \A q \in Runs : q # p => ~Alive(q)
  BY <1>2, Building
<1>4. UNCHANGED <<fate, kills>>
  BY DEF Launch
<1>5. CASE UNCHANGED <<servers, lockFile>> /\ Becomes(p, Failed(p))
  BY <1>2, <1>3, <1>4, <1>5, FailedGoesOn, RunMoves DEF Becomes
<1>6. CASE /\ lockFile = {} /\ lockFile' = {p}
           /\ servers' = servers \cup {[by |-> p, up |-> FALSE]}
           /\ Becomes(p, [Done(p) EXCEPT !.boots = @ + 1])
  <2>. DEFINE d == Done(p)
              r == [d EXCEPT !.boots = d.boots + 1]
              new == [by |-> p, up |-> FALSE]
  <2>1. /\ Shape(d) /\ d.phase = "building" /\ d.step = 5 /\ ~d.reaper
        /\ d.boots = run[p].boots
    BY <1>1, <1>2, <1>3, DoneShape
  <2>. HIDE DEF d
  <2>2. d.boots + 1 \in 0..PgPortAttempts
    BY <1>1, <1>2, <2>1, ProcessAssumption DEF Shape, RunRecords
  <2>3. /\ r \in RunRecords /\ r.phase = "building" /\ r.step = 5 /\ r.open = d.open
        /\ r.up = d.up /\ ~r.reaper
    BY <2>1, <2>2 DEF Shape, RunRecords
  <2>4. run' = [run EXCEPT ![p] = r]
    BY <1>6 DEF Becomes, d
  <2>. HIDE DEF r
  <2>5. Shape(r) /\ run'[p] = r
    <3>1. d.up = {} /\ "database" \notin d.open
      BY <2>1 DEF Shape
    <3>2. Shape(r)
      BY <2>3, <3>1 DEF Shape
    <3>. QED
      BY <2>4, <3>2 DEF ProcessInv
  <2>6. new \in [by : Runs, up : BOOLEAN] /\ new.by = p /\ servers' = servers \cup {new}
    BY <1>6
  <2>. HIDE DEF new
  <2>7. Hosts(p)'
    BY <1>3, <1>4, <1>6, <2>3, <2>5, <2>6 DEF Hosts, Holding
  <2>8. Files'
    BY <1>3, <1>6, <2>6 DEF ProcessInv, Files
  <2>9. Undisturbed => servers' = {new}
    BY <1>6, <2>6 DEF ProcessInv, Settled
  <2>10. ASSUME NEW q \in Runs, run'[q].phase \in {"building", "serving"} PROVE "database" \notin run'[q].open
    <3>1. CASE q = p
      BY <2>3, <2>5, <3>1 DEF Shape
    <3>2. CASE q # p
      BY <1>3, <2>4, <2>10, <3>2 DEF Alive, ProcessInv
    <3>. QED
      BY <3>1, <3>2
  <2>11. Settled'
    <3>1. Undisturbed' => Undisturbed
      BY <1>4 DEF Undisturbed
    <3>. QED
      BY <1>6, <2>3, <2>5, <2>6, <2>9, <2>10, <3>1 DEF Settled
  <2>. QED
    BY <1>3, <1>4, <2>4, <2>5, <2>6, <2>7, <2>8, <2>11, Rearranged DEF ProcessInv
<1>. QED
  BY <1>5, <1>6 DEF Launch

\* A start that is given up: nothing is said of the directory from then on.
LEMMA AbandonStep ==
    ASSUME ProcessInv, NEW p \in Runs, Abandon(p)
    PROVE  ProcessInv'
<1>1. Shape(run[p])
  BY DEF ProcessInv
<1>2. run[p].phase = "building" /\ run[p].step = 5
  BY <1>1, AtIs DEF Abandon
<1>3. Alive(p)
  BY <1>2, Building
<1>. DEFINE f == Failed(p)
            r == [f EXCEPT !.reaper = TRUE]
<1>4. Shape(f) /\ f.phase = "closing"
  BY <1>1, <1>2, FailedShape
<1>5. /\ run' = [run EXCEPT ![p] = r] /\ UNCHANGED <<servers, lockFile, kills>>
      /\ fate' = [fate EXCEPT ![p] = fate[p] \cup {"abandoned"}]
  BY DEF Abandon, Becomes
<1>. HIDE DEF f
<1>6. /\ r \in RunRecords /\ r.phase = "closing" /\ r.step = f.step /\ r.open = f.open
      /\ r.up = f.up
  BY <1>4 DEF Shape, RunRecords
<1>. HIDE DEF r
<1>7. Shape(r) /\ run'[p] = r
  BY <1>4, <1>5, <1>6 DEF Shape, ProcessInv
<1>8. /\ fate' \in [Runs -> SUBSET {"abandoned", "killed booting", "killed"}]
      /\ "abandoned" \in fate'[p] /\ \A q \in Runs : q # p => fate'[q] = fate[q]
  BY <1>5 DEF ProcessInv
<1>9. Hosts(p)'
  BY <1>6, <1>7, <1>8 DEF Hosts
<1>10. ~Undisturbed'
  BY <1>8 DEF Undisturbed
<1>11. Files' /\ Settled'
  BY <1>5, <1>10 DEF ProcessInv, Files, Settled
<1>. QED
  BY <1>3, <1>5, <1>7, <1>8, <1>9, <1>11, Rearranged DEF ProcessInv

LEMMA ReapStep ==
    ASSUME ProcessInv, NEW p \in Runs, Reap(p)
    PROVE  ProcessInv'
<1>1. Shape(run[p]) /\ Hosts(p) /\ run[p].reaper /\ Alive(p) /\ run[p] \in RunRecords
  BY DEF ProcessInv, Reap, Shape
<1>2. "abandoned" \in fate[p] /\ run[p].phase \notin {"off", "building", "serving"}
  BY <1>1 DEF Hosts
<1>. DEFINE r == [run[p] EXCEPT !.reaper = FALSE]
<1>3. /\ run' = [run EXCEPT ![p] = r] /\ UNCHANGED <<fate, kills>>
      /\ servers' \subseteq servers /\ lockFile' \in {lockFile, {}}
  BY DEF Reap, Becomes, StopServer
<1>4. /\ r \in RunRecords /\ r.phase = run[p].phase /\ r.step = run[p].step
      /\ r.open = run[p].open /\ r.up = run[p].up /\ r.boots = run[p].boots /\ ~r.reaper
  BY <1>1 DEF RunRecords
<1>. HIDE DEF r
<1>5. Shape(r) /\ run'[p] = r
  BY <1>1, <1>3, <1>4 DEF Shape, ProcessInv
<1>6. Hosts(p)'
  BY <1>2, <1>3, <1>4, <1>5 DEF Hosts
<1>7. ~Undisturbed'
  BY <1>2, <1>3 DEF Undisturbed
<1>8. Files' /\ Settled'
  BY <1>3, <1>7 DEF ProcessInv, Files, Settled
<1>. QED
  BY <1>1, <1>3, <1>5, <1>6, <1>8, Rearranged DEF ProcessInv

LEMMA CloseStepped ==
    ASSUME ProcessInv, NEW p \in Runs, CloseStep(p)
    PROVE  ProcessInv'
<1>1. /\ Shape(run[p]) /\ Hosts(p) /\ run[p] \in RunRecords /\ run[p].phase = "closing"
      /\ run[p].step \in 1..6 /\ Alive(p)
  <2>1. Shape(run[p]) /\ Hosts(p) /\ run[p] \in RunRecords
    BY DEF ProcessInv, Shape
  <2>2. run[p].phase = "closing" /\ run[p].step <= 6
    BY StepNames DEF CloseStep
  <2>3. run[p].step \in 1..10
    BY <2>1, StepNames DEF RunRecords
  <2>. QED
    BY <2>1, <2>2, <2>3 DEF Alive
<1>. DEFINE k == run[p].step
            it == Closing[k]
            open == run[p].open \ {it}
            e1 == [run[p] EXCEPT !.step = k + 1]
            r == [e1 EXCEPT !.open = open]
<1>2. /\ run' = [run EXCEPT ![p] = r] /\ UNCHANGED <<fate, kills>>
      /\ IF it = "database" /\ it \in run[p].open THEN StopServer(p)
         ELSE UNCHANGED <<servers, lockFile>>
  BY DEF CloseStep, Becomes
<1>3. open \in SUBSET Resources /\ k + 1 \in 1..10
  BY <1>1 DEF RunRecords
<1>. HIDE DEF open
<1>4. /\ e1 \in RunRecords /\ e1.phase = "closing" /\ e1.step = k + 1 /\ e1.up = run[p].up
      /\ e1.boots = run[p].boots /\ e1.reaper = run[p].reaper
  BY <1>1, <1>3, StepNames DEF RunRecords
<1>. HIDE DEF e1
<1>5. /\ r \in RunRecords /\ r.phase = "closing" /\ r.step = k + 1 /\ r.up = run[p].up
      /\ r.open = open /\ r.boots = run[p].boots /\ r.reaper = run[p].reaper
  BY <1>3, <1>4 DEF RunRecords
<1>. HIDE DEF r
<1>6. Shape(r) /\ run'[p] = r
  <2>1. \A n \in 1..6 : n < k + 1 => n < k \/ n = k
    BY <1>1
  <2>2. \A n \in 1..6 : n < k + 1 => Closing[n] \notin open
    BY <1>1, <2>1 DEF Shape, open
  <2>. QED
    BY <1>1, <1>2, <1>5, <2>2 DEF Shape, ProcessInv
<1>7. CASE UNCHANGED <<servers, lockFile>>
  <2>1. Holding(run[p]) /\ fate[p] = {} => Holding(r) \/ \A s \in servers : s.by # p
    <3>1. CASE it = "database" /\ it \in run[p].open
      <4>1. lockFile # {p} \/ \A s \in servers : s.by # p
        BY <1>2, <1>7, <3>1 DEF StopServer
      <4>. QED
        BY <1>1, <4>1 DEF Hosts
    <3>2. CASE ~(it = "database" /\ it \in run[p].open)
      BY <1>1, <1>5, <3>2 DEF Holding, open
    <3>. QED
      BY <3>1, <3>2
  <2>2. GoesOn(p, r)
    BY <1>1, <1>5, <1>6, <2>1 DEF GoesOn
  <2>. QED
    BY <1>1, <1>2, <1>7, <2>2, RunMoves
<1>8. CASE lockFile = {p} /\ servers' = {s \in servers : s.by # p} /\ lockFile' = {}
  <2>1. Hosts(p)'
    BY <1>1, <1>2, <1>5, <1>6, <1>8 DEF Hosts
  <2>2. Files'
    BY <1>8 DEF ProcessInv, Files
  <2>3. Undisturbed' => servers' = {}
    <3>1. Undisturbed' => Undisturbed
      BY <1>2 DEF Undisturbed
    <3>2. Undisturbed => \A s \in servers : {s.by} = {p}
      BY <1>8 DEF ProcessInv, Settled
    <3>. QED
      BY <1>8, <3>1, <3>2
  <2>4. \A q \in Runs : run'[q].phase \notin {"building", "serving"}
    BY <1>1, <1>2, <1>5, <1>6 DEF ProcessInv, OneAtATime, Alive
  <2>5. Settled'
    BY <2>3, <2>4 DEF Settled
  <2>6. \A s \in servers' : s.by # p => \E t \in servers : t.by = s.by
    BY <1>8
  <2>. QED
    BY <1>1, <1>2, <1>6, <2>1, <2>2, <2>5, <2>6, Rearranged DEF ProcessInv
<1>. QED
  BY <1>2, <1>7, <1>8 DEF StopServer

LEMMA KillStep ==
    ASSUME ProcessInv, NEW p \in Runs, Kill(p)
    PROVE  ProcessInv'
<1>. DEFINE r == [Off EXCEPT !.phase = "exited"]
            mark == IF [by |-> p, up |-> FALSE] \in servers THEN "killed booting" ELSE "killed"
<1>1. /\ run' = [run EXCEPT ![p] = r] /\ fate' = [fate EXCEPT ![p] = fate[p] \cup {mark}]
      /\ UNCHANGED <<servers, lockFile>> /\ Alive(p) /\ kills < MaxKills /\ kills' = kills + 1
  BY DEF Kill, Becomes
<1>2. Off \in RunRecords
  BY StepNames, ProcessAssumption DEF Off, RunRecords
<1>3. /\ r \in RunRecords /\ r.phase = "exited" /\ r.up = {} /\ r.open = {} /\ ~r.reaper
  BY <1>2 DEF RunRecords, Off
<1>. HIDE DEF r
<1>4. Shape(r) /\ run'[p] = r /\ \A q \in Runs : q # p => run'[q] = run[q] /\ ~Alive(q)
  BY <1>1, <1>3 DEF Shape, ProcessInv, OneAtATime
<1>5. /\ fate' \in [Runs -> SUBSET {"abandoned", "killed booting", "killed"}]
      /\ mark \in fate'[p] /\ \A q \in Runs : q # p => fate'[q] = fate[q]
      /\ fate[p] \subseteq fate'[p] /\ kills' \in 0..MaxKills
  <2>1. mark \in {"abandoned", "killed booting", "killed"}
    OBVIOUS
  <2>2. kills' \in 0..MaxKills
    <3>1. kills < MaxKills /\ kills' = kills + 1
      BY <1>1
    <3>2. kills \in 0..MaxKills
      BY DEF ProcessInv
    <3>3. MaxKills \in Nat
      BY ProcessAssumption
    <3>. QED
      BY ONLY <3>1, <3>2, <3>3
  <2>. HIDE DEF mark
  <2>. QED
    BY <1>1, <2>1, <2>2 DEF ProcessInv
<1>6. Hosts(p)'
  BY <1>3, <1>4, <1>5 DEF Hosts
<1>7. Undisturbed' => Undisturbed /\ [by |-> p, up |-> FALSE] \notin servers
  BY <1>5 DEF Undisturbed
<1>. HIDE DEF mark
<1>8. ASSUME Undisturbed', NEW s \in servers PROVE lockFile = {s.by} /\ s.up
  <2>1. /\ lockFile = {s.by} /\ s \in [by : Runs, up : BOOLEAN]
        /\ s.up \/ (run[s.by].phase = "building" /\ run[s.by].step = 5)
    BY <1>7, <1>8 DEF ProcessInv, Settled, Files
  <2>2. CASE s.by = p
    BY <1>7, <1>8, <2>1, <2>2
  <2>3. CASE s.by # p
    BY <1>4, <2>1, <2>3 DEF Alive
  <2>. QED
    BY <2>1, <2>2, <2>3
<1>9. \A q \in Runs : run'[q].phase \notin {"building", "serving"}
  BY <1>3, <1>4 DEF Alive
<1>10. Files' /\ Settled'
  BY <1>1, <1>8, <1>9 DEF ProcessInv, Files, Settled
<1>. QED
  BY <1>1, <1>4, <1>5, <1>6, <1>10, Rearranged


LEMMA ServerStep ==
    ASSUME ProcessInv, ServerSteps
    PROVE  ProcessInv'
<1>1. UNCHANGED <<run, fate, kills>> /\ (Undisturbed' <=> Undisturbed)
  BY DEF ServerSteps, Undisturbed
<1>2. PICK s \in servers :
          \/ /\ ~s.up /\ servers' = (servers \ {s}) \cup {[s EXCEPT !.up = TRUE]}
             /\ UNCHANGED lockFile
          \/ /\ ~s.up \/ lockFile # {s.by}
             /\ servers' = servers \ {s} /\ lockFile' = lockFile \ {s.by}
  BY DEF ServerSteps
<1>3. /\ servers \subseteq [by : Runs, up : BOOLEAN]
      /\ lockFile = {} \/ \E q \in Runs : lockFile = {q}
      /\ \A t, u \in servers : t.by = u.by => t = u
  BY DEF ProcessInv, Files
<1>4. ASSUME ~s.up, servers' = (servers \ {s}) \cup {[s EXCEPT !.up = TRUE]}, UNCHANGED lockFile
      PROVE  ProcessInv'
  <2>. DEFINE u == [s EXCEPT !.up = TRUE]
  <2>1. u \in [by : Runs, up : BOOLEAN] /\ u.by = s.by /\ u.up = TRUE
    BY <1>3
  <2>2. servers' = (servers \ {s}) \cup {u}
    BY <1>4
  <2>. HIDE DEF u
  <2>3. Files'
    BY <1>3, <1>4, <2>1, <2>2 DEF Files
  <2>4. ASSUME NEW q \in Runs PROVE Hosts(q)'
    <3>1. Hosts(q)
      BY DEF ProcessInv
    <3>2. \A t \in servers' : t.by = q => \E v \in servers : v.by = q
      BY <2>1, <2>2
    <3>. QED
      BY <1>1, <1>4, <3>1, <3>2 DEF Hosts, Holding
  <2>5. Settled'
    <3>1. ASSUME Undisturbed, NEW t \in servers'
          PROVE  lockFile = {t.by} /\ (t.up \/ (run[t.by].phase = "building" /\ run[t.by].step = 5))
      BY <2>1, <2>2, <3>1 DEF ProcessInv, Settled
    <3>2. ASSUME Undisturbed, NEW q \in Runs, run[q].phase \in {"building", "serving"},
                 "database" \in run[q].open
          PROVE  [by |-> q, up |-> TRUE] \in servers'
      <4>1. [by |-> q, up |-> TRUE] \in servers
        BY <3>2 DEF ProcessInv, Settled
      <4>. QED
        BY <1>4, <2>2, <4>1
    <3>. QED
      BY <1>1, <1>4, <3>1, <3>2 DEF Settled
  <2>. QED
    BY <1>1, <2>3, <2>4, <2>5 DEF ProcessInv, OneAtATime, Alive
<1>5. ASSUME ~s.up \/ lockFile # {s.by}, servers' = servers \ {s}, lockFile' = lockFile \ {s.by}
      PROVE  ProcessInv'
  <2>1. Files'
    BY <1>3, <1>5 DEF Files
  <2>2. ASSUME NEW q \in Runs PROVE Hosts(q)'
    <3>1. Hosts(q)
      BY DEF ProcessInv
    <3>2. \A t \in servers' : t.by = q => t \in servers /\ q # s.by
      BY <1>3, <1>5
    <3>3. lockFile' \subseteq lockFile /\ (lockFile = {q} /\ q # s.by => lockFile' = {q})
      BY <1>5
    <3>. QED
      BY <1>1, <3>1, <3>2, <3>3 DEF Hosts, Holding
  <2>3. Settled'
    <3>1. ASSUME Undisturbed PROVE servers = {s}
      <4>1. \A t \in servers : {t.by} = {s.by}
        BY <3>1 DEF ProcessInv, Settled
      <4>. QED
        BY <1>3, <4>1
    <3>2. ASSUME Undisturbed PROVE ~s.up
      BY <1>5, <3>2 DEF ProcessInv, Settled
    <3>3. ASSUME Undisturbed, NEW q \in Runs, run[q].phase \in {"building", "serving"},
                 "database" \in run[q].open
          PROVE  FALSE
      <4>1. [by |-> q, up |-> TRUE] = s
        BY <3>1, <3>3 DEF ProcessInv, Settled
      <4>. QED
        BY <3>2, <3>3, <4>1
    <3>. QED
      BY <1>1, <1>5, <3>1, <3>3 DEF Settled
  <2>. QED
    BY <1>1, <2>1, <2>2, <2>3 DEF ProcessInv, OneAtATime, Alive
<1>. QED
  BY <1>2, <1>4, <1>5

LEMMA ProcessStutters == ProcessInv /\ UNCHANGED processVars => ProcessInv'
<1>. SUFFICES ASSUME ProcessInv, UNCHANGED <<run, fate, servers, lockFile, kills>> PROVE ProcessInv'
  BY DEF processVars
<1>1. \A q \in Runs : Hosts(q)'
  BY DEF ProcessInv, Hosts
<1>2. Files' /\ OneAtATime' /\ Settled'
  BY DEF ProcessInv, Files, OneAtATime, Settled, Alive, Undisturbed
<1>. QED
  BY <1>1, <1>2 DEF ProcessInv

LEMMA ProcessStep == ProcessInv /\ [ProcessNext]_processVars => ProcessInv'
  BY BeginStep, BuildStepped, ReadLockStep, RecoverStep, LaunchStep, AwaitStep, AbandonStep,
     ReapStep, RunningSteps, ReturnStep, CloseStepped, ExitStep, KillStep, ServerStep,
     ProcessStutters DEF ProcessNext

LEMMA ProcessAlways == ProcessSpec => []ProcessInv
  BY ProcessInitial, ProcessStep, PTL DEF ProcessSpec

\* Wherever New fails, however Run ends and whatever earlier runs left in the
\* directory: a run that exits by itself leaves nothing open and no server, but
\* where it gave up on one that still started; nothing is closed under a task
\* that uses it; and a run in managed mode serves on a server of its own.
THEOREM ProcessesAreSound == ProcessSpec => []ProcessesSound
  BY ProcessAlways, ProcessInvSound, PTL

-----------------------------------------------------------------------------
(* The learner *)

CellKeys == Cells \cup {Overflow}

\* The processes' cells, no more than MaxCells of their own.
Beliefs ==
    /\ beliefs = [l \in Learners |-> beliefs[l]]
    /\ \A l \in Learners :
        /\ Known(l) \subseteq CellKeys /\ IsFiniteSet(Known(l))
        /\ beliefs[l] \in [Known(l) -> [Arms -> Nat]]
        /\ Cardinality(Known(l) \ {Overflow}) <= MaxCells

WrittenFor(i, d) ==
    /\ d \in [arm : Arms, cell : CellKeys, honoured : BOOLEAN, gate : SUBSET Nat]
    /\ IF d.honoured THEN d.gate = {d.arm}
       ELSE d.gate = {} \/ (i \in Debits /\ d.gate = {CoolingWindow} /\ CoolingWindow > d.arm)

Trails ==
    /\ trail = [i \in Failures |-> trail[i]]
    /\ \A i \in Failures :
        /\ trail[i] \in Seq([arm : Arms, cell : CellKeys, honoured : BOOLEAN, gate : SUBSET Nat])
        /\ \A n \in 1..Len(trail[i]) : WrittenFor(i, trail[i][n])

\* A pass that finds its incident due is not its first; what is drawn is one arm
\* that reaches the ceiling.
Pass(t) ==
    \/ t.at = "waiting" /\ \E n \in 0..LastAttempt, due \in BOOLEAN : 
           t = Waiting(n, due) /\ (due => n >= 1)
    \/ /\ t.at = "gate"
       /\ t.attempt \in 1..(LastAttempt + 1) /\ t.due \in BOOLEAN /\ (t.due => t.attempt >= 2)
       /\ t.l \in Learners /\ t.ceiling \in Ceilings
       /\ t.choice = {} \/ \E c \in [cell : CellKeys, arm : Arms] : t.choice = {c} /\ c.arm >= t.ceiling
    \/ /\ t.at = "act"
       /\ t.attempt \in 1..LastAttempt /\ t.due \in BOOLEAN /\ (t.due => t.attempt >= 2)
       /\ t.l \in Learners /\ t.kept \subseteq Arms
    \/ \E n \in 0..(LastAttempt + 1) : t = Over(n)

Backed ==
    \A l \in Learners : \A k \in Known(l), a \in Arms :
        beliefs[l][k][a] > 0 =>
            \E i \in Failures : \E n \in 1..Len(trail[i]) :
                LET d == trail[i][n]
                IN  d.honoured /\ d.arm = a /\ (k = d.cell \/ k = Overflow)

\* The attempts whose outcome is in, without the first passes.
Concluded == {t \in Failures \X (2..LastAttempt) :
                \/ t[2] < turn[t[1]].attempt
                \/ t[2] = turn[t[1]].attempt /\ turn[t[1]].at \notin {"gate", "act"}}

LearnerInv ==
    /\ Beliefs /\ Trails /\ Backed
    /\ turn = [i \in Failures |-> turn[i]] /\ \A i \in Failures : Pass(turn[i])
    /\ served \in [Failures -> SUBSET Arms] /\ credited \in [Failures -> SUBSET Arms]
    /\ stops \in 0..MaxStops
    /\ IsFiniteSet(Counted) /\ Cardinality(Counted) <= Cardinality(Concluded)

LEMMA Scale ==
    /\ Arms \subseteq Nat /\ Ceilings \subseteq Nat /\ MinBackoff \in Nat /\ CoolingWindow \in Nat
    /\ MaxCells \in Nat /\ LastAttempt \in Nat /\ LastAttempt >= 1 /\ MaxStops \in Nat
    /\ IsFiniteSet(Failures)
  BY LearnerAssumption

LEMMA PassIs ==
    ASSUME NEW t, Pass(t)
    PROVE  /\ t.at \in {"waiting", "gate", "act", "closed"}
           /\ t.attempt \in 0..(LastAttempt + 1)
           /\ t.at = "waiting" => /\ t.attempt <= LastAttempt /\ t.due \in BOOLEAN
                                  /\ (t.due => t.attempt >= 1)
           /\ t.at = "gate" =>
                /\ t.attempt >= 1 /\ t.due \in BOOLEAN /\ (t.due => t.attempt >= 2)
                /\ t.l \in Learners /\ t.ceiling \in Ceilings
                /\ t.choice = {} \/ \E c \in [cell : CellKeys, arm : Arms] :
                                        t.choice = {c} /\ c.arm >= t.ceiling
           /\ t.at = "act" =>
                /\ t.attempt >= 1 /\ t.attempt <= LastAttempt
                /\ t.due \in BOOLEAN /\ (t.due => t.attempt >= 2)
                /\ t.l \in Learners /\ t.kept \subseteq Arms
<1>1. CASE t.at = "waiting" /\ \E n \in 0..LastAttempt, due \in BOOLEAN :
               t = Waiting(n, due) /\ (due => n >= 1)
  BY <1>1, Scale DEF Waiting
<1>2. CASE \E n \in 0..(LastAttempt + 1) : t = Over(n)
  BY <1>2, Scale DEF Over
<1>3. CASE t.at = "gate"
  BY <1>3, Scale DEF Pass, Waiting, Over
<1>4. CASE t.at = "act"
  BY <1>4, Scale DEF Pass, Waiting, Over
<1>. QED
  BY <1>1, <1>2, <1>3, <1>4 DEF Pass

\* What the set of outcomes is.
OutcomesCounted ==
    \A o : o \in Counted <=>
        \E l \in Learners : \E k \in Known(l), a \in Arms,
           n \in 1..(LastAttempt * Cardinality(Failures)) :
               o = <<l, k, a, n>> /\ n <= beliefs[l][k][a]

LEMMA CountedIs == OutcomesCounted
  BY DEF OutcomesCounted, Counted, Believed

LEMMA ConcludedFinite ==
    IsFiniteSet(Concluded) /\ Cardinality(Concluded) \in Nat
<1>1. IsFiniteSet(Failures \X (2..LastAttempt))
  <2>1. IsFiniteSet(2..LastAttempt)
    BY FS_Interval, Scale
  <2>2. IsFiniteSet(Failures)
    BY Scale
  <2>. QED
    BY <2>1, <2>2, FS_Product
<1>2. Concluded \in SUBSET (Failures \X (2..LastAttempt))
  BY DEF Concluded
<1>3. IsFiniteSet(Concluded)
  BY <1>1, <1>2, FS_Subset
<1>. QED
  BY <1>3, FS_CardinalityType

\* What concludes nothing anew, and believes nothing more, keeps the count.
LEMMA NoMoreCounted ==
    ASSUME LearnerInv, Concluded \subseteq Concluded', Counted' \subseteq Counted
    PROVE  IsFiniteSet(Counted)' /\ Cardinality(Counted)' <= Cardinality(Concluded)'
<1>1. IsFiniteSet(Counted) /\ Cardinality(Counted) <= Cardinality(Concluded)
  BY DEF LearnerInv
<1>2. IsFiniteSet(Counted') /\ Cardinality(Counted') <= Cardinality(Counted)
  BY <1>1, FS_Subset
<1>3. (IsFiniteSet(Concluded) /\ Cardinality(Concluded) \in Nat)'
  BY ConcludedFinite, PTL
<1>4. Cardinality(Concluded) <= Cardinality(Concluded')
  BY <1>3, FS_Subset
<1>5. /\ Cardinality(Counted) \in Nat /\ Cardinality(Counted') \in Nat
      /\ Cardinality(Concluded) \in Nat
  BY <1>1, <1>2, ConcludedFinite, FS_CardinalityType
<1>. QED
  BY <1>1, <1>2, <1>3, <1>4, <1>5

LEMMA OneMoreCounted ==
    ASSUME LearnerInv, NEW o, Counted' \subseteq Counted \cup {o},
           NEW t, t \in Concluded', t \notin Concluded, Concluded \subseteq Concluded'
    PROVE  IsFiniteSet(Counted)' /\ Cardinality(Counted)' <= Cardinality(Concluded)'
<1>1. IsFiniteSet(Counted) /\ Cardinality(Counted) <= Cardinality(Concluded)
  BY DEF LearnerInv
<1>2. /\ IsFiniteSet(Counted \cup {o}) /\ Cardinality(Counted) \in Nat
      /\ Cardinality(Counted \cup {o}) <= Cardinality(Counted) + 1
      /\ Cardinality(Counted \cup {o}) \in Nat
  <2>1. Cardinality(Counted) \in Nat
    BY <1>1, FS_CardinalityType
  <2>2. /\ IsFiniteSet(Counted \cup {o})
        /\ Cardinality(Counted \cup {o}) =
             IF o \in Counted THEN Cardinality(Counted) ELSE Cardinality(Counted) + 1
    BY <1>1, FS_AddElement
  <2>. QED
    BY <2>1, <2>2
<1>3. /\ IsFiniteSet(Counted') /\ Cardinality(Counted') <= Cardinality(Counted \cup {o})
      /\ Cardinality(Counted') \in Nat
  BY <1>2, FS_Subset, FS_CardinalityType
<1>4. (IsFiniteSet(Concluded) /\ Cardinality(Concluded) \in Nat)'
  BY ConcludedFinite, PTL
<1>5. /\ IsFiniteSet(Concluded \cup {t})
      /\ Cardinality(Concluded \cup {t}) = Cardinality(Concluded) + 1
  BY ConcludedFinite, FS_AddElement
<1>6. Cardinality(Concluded \cup {t}) <= Cardinality(Concluded')
  BY <1>4, FS_Subset
<1>. QED
  BY <1>1, <1>2, <1>3, <1>4, <1>5, <1>6, ConcludedFinite

\* The pass of one incident goes on.
LEMMA Goes ==
    ASSUME LearnerInv, NEW i \in Failures, NEW r, turn' = [turn EXCEPT ![i] = r],
           r.attempt \in Int,
           \/ r.attempt > turn[i].attempt
           \/ r.attempt = turn[i].attempt /\ (turn[i].at \in {"gate", "act"} \/ r.at \notin {"gate", "act"})
    PROVE  Concluded \subseteq Concluded'
<1>1. turn'[i] = r /\ \A j \in Failures : j # i => turn'[j] = turn[j]
  BY DEF LearnerInv
<1>2. turn[i].attempt \in Int
  BY PassIs, Scale DEF LearnerInv
<1>. SUFFICES ASSUME NEW t \in Failures \X (2..LastAttempt), t \in Concluded PROVE t \in Concluded'
  BY DEF Concluded
<1>3. t[1] \in Failures /\ t[2] \in Int
  BY Scale
<1>4. CASE t[1] = i
  BY <1>1, <1>2, <1>3, <1>4 DEF Concluded
<1>5. CASE t[1] # i
  BY <1>1, <1>3, <1>5 DEF Concluded
<1>. QED
  BY <1>4, <1>5

\* A step of one pass that leaves the beliefs alone.
LEMMA Passes ==
    ASSUME LearnerInv, NEW i \in Failures, NEW r, turn' = [turn EXCEPT ![i] = r],
           Concluded \subseteq Concluded', Pass(r), UNCHANGED <<beliefs, credited, stops>>,
           Trails', Backed', served' \in [Failures -> SUBSET Arms]
    PROVE  LearnerInv'
<1>1. Beliefs'
  BY DEF LearnerInv, Beliefs, Known
<1>2. Counted' = Counted
  BY DEF Counted, Believed, Known
<1>3. IsFiniteSet(Counted)' /\ Cardinality(Counted)' <= Cardinality(Concluded)'
  BY <1>2, NoMoreCounted
<1>4. turn' = [j \in Failures |-> turn'[j]] /\ \A j \in Failures : Pass(turn'[j])
  BY DEF LearnerInv
<1>. QED
  BY <1>1, <1>3, <1>4 DEF LearnerInv

LEMMA SameTrails ==
    ASSUME LearnerInv, UNCHANGED <<trail, beliefs>> PROVE Trails' /\ Backed'
<1>1. Trails'
  BY DEF LearnerInv, Trails, WrittenFor
<1>2. Backed'
  BY DEF LearnerInv, Backed, Known
<1>. QED
  BY <1>1, <1>2

LEMMA ChooseStep ==
    ASSUME LearnerInv, NEW i \in Failures, NEW l \in Learners, Choose(i, l)
    PROVE  LearnerInv'
<1>. DEFINE cell == CellKey(l, Context[<<i, turn[i].attempt + 1>>])
<1>1. PICK ceiling \in Ceilings :
         \E drawn \in {{}} \cup {{a} : a \in PermittedFor(ceiling)} :
            turn' = [turn EXCEPT ![i] =
               [at |-> "gate", attempt |-> turn[i].attempt + 1, due |-> turn[i].due, l |-> l,
                ceiling |-> ceiling, choice |-> {[cell |-> cell, arm |-> a] : a \in drawn}]]
  BY DEF Choose
<1>10. PICK drawn \in {{}} \cup {{a} : a \in PermittedFor(ceiling)} :
            turn' = [turn EXCEPT ![i] =
               [at |-> "gate", attempt |-> turn[i].attempt + 1, due |-> turn[i].due, l |-> l,
                ceiling |-> ceiling, choice |-> {[cell |-> cell, arm |-> a] : a \in drawn}]]
  BY <1>1
<1>2. turn[i].at = "waiting" /\ UNCHANGED <<beliefs, trail, served, credited, stops>>
  BY DEF Choose
<1>3. /\ turn[i].attempt \in 0..LastAttempt /\ turn[i].due \in BOOLEAN
      /\ turn[i].due => turn[i].attempt >= 1
  BY <1>2, PassIs, Scale DEF LearnerInv
<1>4. cell \in CellKeys
  <2>1. Context[<<i, turn[i].attempt + 1>>] \in Cells
    BY <1>3, Scale DEF Cells
  <2>. QED
    BY <2>1 DEF CellKey, CellKeys
<1>. DEFINE choice == {[cell |-> cell, arm |-> a] : a \in drawn}
            r == [at |-> "gate", attempt |-> turn[i].attempt + 1, due |-> turn[i].due, l |-> l,
                  ceiling |-> ceiling, choice |-> choice]
<1>5. choice = {} \/ \E c \in [cell : CellKeys, arm : Arms] : choice = {c} /\ c.arm >= ceiling
  <2>. HIDE DEF cell
  <2>1. CASE drawn = {}
    BY <2>1
  <2>2. ASSUME NEW a \in PermittedFor(ceiling), drawn = {a}
        PROVE  \E c \in [cell : CellKeys, arm : Arms] : choice = {c} /\ c.arm >= ceiling
    <3>1. choice = {[cell |-> cell, arm |-> a]}
      BY <2>2
    <3>2. a \in Arms /\ a >= ceiling
      BY DEF PermittedFor
    <3>3. [cell |-> cell, arm |-> a] \in [cell : CellKeys, arm : Arms]
      BY <1>4, <3>2
    <3>. QED
      BY <3>1, <3>2, <3>3
  <2>. QED
    BY <2>1, <2>2
<1>. HIDE DEF choice, cell
<1>6. turn' = [turn EXCEPT ![i] = r]
  BY <1>10 DEF choice
<1>7. /\ r.at = "gate" /\ r.attempt = turn[i].attempt + 1 /\ r.due = turn[i].due /\ r.l = l
      /\ r.ceiling = ceiling /\ r.choice = choice
  OBVIOUS
<1>. HIDE DEF r
<1>8. Pass(r)
  <2>1. r.attempt \in 1..(LastAttempt + 1) /\ (r.due => r.attempt >= 2)
    BY <1>3, <1>7, Scale
  <2>2. r.choice = {} \/ \E c \in [cell : CellKeys, arm : Arms] : r.choice = {c} /\ c.arm >= r.ceiling
    BY <1>5, <1>7
  <2>. QED
    BY <1>3, <1>7, <2>1, <2>2 DEF Pass
<1>9. Concluded \subseteq Concluded'
  <2>1. r.attempt \in Int /\ r.attempt > turn[i].attempt
    BY <1>3, <1>7, Scale
  <2>. QED
    BY <1>6, <2>1, Goes
<1>. QED
  BY <1>2, <1>6, <1>8, <1>9, SameTrails, Passes DEF LearnerInv

\* The gate waits as long as was drawn, or the cooling window of a debit.
LEMMA GateWaits ==
    ASSUME NEW i \in Failures, NEW backoff \in Nat,
           \/ turn[i].choice = {}
           \/ \E c \in [cell : CellKeys, arm : Arms] : turn[i].choice = {c} /\ c.arm >= backoff
    PROVE  /\ GateDelay(i, backoff) \in Nat
           /\ \A c \in [cell : CellKeys, arm : Arms] : turn[i].choice = {c} =>
                \/ GateDelay(i, backoff) = c.arm
                \/ /\ i \in Debits /\ GateDelay(i, backoff) = CoolingWindow
                   /\ CoolingWindow > c.arm
<1>. DEFINE S == {backoff} \cup {d.arm : d \in turn[i].choice} \cup
                 (IF i \in Debits THEN {CoolingWindow} ELSE {})
<1>1. \A a, b, c \in Nat : \E n \in {a, b, c} : n >= a /\ n >= b /\ n >= c
  OBVIOUS
<1>2. PICK a, c \in Nat : S = {backoff, a, c} /\ \A d \in turn[i].choice : a = d.arm
  <2>1. PICK a \in Nat : /\ {backoff} \cup {d.arm : d \in turn[i].choice} = {backoff, a}
                         /\ \A d \in turn[i].choice : a = d.arm
    <3>1. CASE turn[i].choice = {}
      BY <3>1
    <3>2. ASSUME NEW c \in [cell : CellKeys, arm : Arms], turn[i].choice = {c}
          PROVE  \E a \in Nat : /\ {backoff} \cup {d.arm : d \in turn[i].choice} = {backoff, a}
                                 /\ \A d \in turn[i].choice : a = d.arm
      <4>1. c.arm \in Nat
        BY Scale
      <4>2. {d.arm : d \in {c}} = {c.arm}
        OBVIOUS
      <4>. QED
        BY <3>2, <4>1, <4>2
    <3>. QED
      BY <3>1, <3>2
  <2>2. PICK c \in Nat : {backoff} \cup (IF i \in Debits THEN {CoolingWindow} ELSE {}) = {backoff, c}
    BY Scale
  <2>. QED
    BY <2>1, <2>2
<1>3. \E n \in S : \A k \in S : k <= n
  BY <1>1, <1>2
<1>4. GateDelay(i, backoff) = Longest(S)
  BY DEF GateDelay
<1>5. Longest(S) \in S /\ \A k \in S : k <= Longest(S)
  BY <1>3 DEF Longest
<1>6. S \subseteq Nat
  BY <1>2
<1>7. ASSUME NEW d \in [cell : CellKeys, arm : Arms], turn[i].choice = {d}
      PROVE  \/ Longest(S) = d.arm
             \/ i \in Debits /\ Longest(S) = CoolingWindow /\ CoolingWindow > d.arm
  <2>1. d.arm \in S /\ d.arm \in Nat /\ d.arm >= backoff
    BY <1>7, Scale
  <2>2. \A n \in S : n = backoff \/ n = d.arm \/ (i \in Debits /\ n = CoolingWindow)
    BY <1>7
  <2>. HIDE DEF S
  <2>3. Longest(S) \in Nat /\ d.arm <= Longest(S)
    BY <1>5, <1>6, <2>1
  <2>4. \/ Longest(S) = backoff \/ Longest(S) = d.arm
        \/ i \in Debits /\ Longest(S) = CoolingWindow
    BY <1>5, <2>2
  <2>5. CASE Longest(S) = backoff
    BY <2>1, <2>3, <2>5
  <2>6. CASE i \in Debits /\ Longest(S) = CoolingWindow
    BY <2>1, <2>3, <2>6, Scale
  <2>. QED
    BY <2>4, <2>5, <2>6
<1>. QED
  BY <1>4, <1>5, <1>6, <1>7

LEMMA RuleStep ==
    ASSUME LearnerInv, NEW i \in Failures, Rule(i)
    PROVE  LearnerInv'
<1>1. turn[i].at = "gate" /\ UNCHANGED <<beliefs, served, credited, stops>>
  BY DEF Rule
<1>2. PICK vetoed \in BOOLEAN, backoff \in MinBackoff..turn[i].ceiling :
        LET delays == IF vetoed THEN {} ELSE {GateDelay(i, backoff)}
        IN  /\ turn[i].attempt > LastAttempt => vetoed
            /\ turn' = [turn EXCEPT ![i] =
                          IF vetoed THEN Over(turn[i].attempt)
                          ELSE [at |-> "act", attempt |-> turn[i].attempt, due |-> turn[i].due,
                                l |-> turn[i].l,
                                kept |-> {d.arm : d \in turn[i].choice} \cap delays]]
            /\ \/ \E d \in turn[i].choice :
                      trail' = [trail EXCEPT ![i] = Append(trail[i], Recorded(d, delays))]
               \/ UNCHANGED trail
  BY <1>1 DEF Rule
<1>3. /\ turn[i].attempt \in 1..(LastAttempt + 1) /\ turn[i].due \in BOOLEAN
      /\ turn[i].due => turn[i].attempt >= 2
      /\ turn[i].l \in Learners /\ turn[i].ceiling \in Nat
      /\ \/ turn[i].choice = {}
         \/ \E c \in [cell : CellKeys, arm : Arms] : turn[i].choice = {c} /\ c.arm >= turn[i].ceiling
  BY <1>1, PassIs, Scale DEF LearnerInv
<1>4. backoff \in Nat /\ backoff <= turn[i].ceiling
  BY <1>3, Scale
<1>5. \/ turn[i].choice = {}
      \/ \E c \in [cell : CellKeys, arm : Arms] : turn[i].choice = {c} /\ c.arm >= backoff
  <2>1. \A m, n, k \in Nat : k >= n /\ m <= n => k >= m
    OBVIOUS
  <2>2. \A c \in [cell : CellKeys, arm : Arms] : c.arm \in Nat
    BY Scale
  <2>3. \A c \in [cell : CellKeys, arm : Arms] : c.arm >= turn[i].ceiling => c.arm >= backoff
    BY <1>3, <1>4, <2>1, <2>2
  <2>. QED
    BY <1>3, <2>3
<1>. DEFINE delays == IF vetoed THEN {} ELSE {GateDelay(i, backoff)}
            r == IF vetoed THEN Over(turn[i].attempt)
                 ELSE [at |-> "act", attempt |-> turn[i].attempt, due |-> turn[i].due,
                       l |-> turn[i].l, kept |-> {d.arm : d \in turn[i].choice} \cap delays]
<1>6. turn' = [turn EXCEPT ![i] = r] /\ (turn[i].attempt > LastAttempt => vetoed)
  BY <1>2
<1>7. Pass(r) /\ r.attempt = turn[i].attempt
  <2>1. CASE vetoed
    BY <1>3, <2>1, Scale DEF Pass, Over
  <2>2. CASE ~vetoed
    <3>1. {d.arm : d \in turn[i].choice} \subseteq Arms
      BY <1>3
    <3>. DEFINE kept == {d.arm : d \in turn[i].choice} \cap delays
    <3>2. kept \subseteq Arms
      BY <3>1
    <3>. HIDE DEF kept
    <3>3. r = [at |-> "act", attempt |-> turn[i].attempt, due |-> turn[i].due,
               l |-> turn[i].l, kept |-> kept]
      BY <2>2 DEF kept
    <3>. HIDE DEF r
    <3>4. turn[i].attempt \in 1..LastAttempt
      BY <1>3, <1>6, <2>2, Scale
    <3>. QED
      BY <1>3, <3>2, <3>3, <3>4 DEF Pass
  <2>. QED
    BY <2>1, <2>2
<1>8. Concluded \subseteq Concluded'
  <2>. HIDE DEF r
  <2>1. r.attempt \in Int
    BY <1>3, <1>7, Scale
  <2>. QED
    BY <1>1, <1>6, <1>7, <2>1, Goes
<1>9. Trails' /\ Backed'
  <2>. DEFINE Records == [arm : Arms, cell : CellKeys, honoured : BOOLEAN, gate : SUBSET Nat]
  <2>1. CASE UNCHANGED trail
    BY <1>1, <2>1, SameTrails
  <2>2. ASSUME NEW d \in turn[i].choice,
               trail' = [trail EXCEPT ![i] = Append(trail[i], Recorded(d, delays))]
        PROVE  Trails' /\ Backed'
    <3>1. d \in [cell : CellKeys, arm : Arms] /\ turn[i].choice = {d}
      BY <1>3
    <3>2. /\ GateDelay(i, backoff) \in Nat
          /\ \/ GateDelay(i, backoff) = d.arm
             \/ /\ i \in Debits /\ GateDelay(i, backoff) = CoolingWindow
                /\ CoolingWindow > d.arm
      BY <1>4, <1>5, <3>1, GateWaits
    <3>. DEFINE w == Recorded(d, delays)
    <3>3. delays \in SUBSET Nat
      BY <3>2
    <3>4. w \in Records /\ w.arm = d.arm /\ w.gate = delays /\ w.honoured = (d.arm \in delays)
      <4>. HIDE DEF delays
      <4>. QED
        BY <3>1, <3>3 DEF Recorded
    <3>5. WrittenFor(i, w)
      <4>1. d.arm \in Nat
        BY <3>1, Scale
      <4>2. CASE vetoed
        BY <3>4, <4>2 DEF WrittenFor
      <4>3. CASE ~vetoed
        BY <3>2, <3>4, <4>1, <4>3 DEF WrittenFor
      <4>. QED
        BY <4>2, <4>3
    <3>. HIDE DEF w, Records, delays
    <3>6. /\ trail[i] \in Seq(Records) /\ trail'[i] = Append(trail[i], w)
          /\ trail' = [j \in Failures |-> trail'[j]]
          /\ \A j \in Failures : j # i => trail'[j] = trail[j]
      BY <2>2 DEF LearnerInv, Trails, Records, w
    <3>7. /\ trail'[i] \in Seq(Records) /\ Len(trail'[i]) = Len(trail[i]) + 1
          /\ trail'[i][Len(trail[i]) + 1] = w
          /\ \A n \in 1..Len(trail[i]) : trail'[i][n] = trail[i][n]
      BY <3>4, <3>6
    <3>8. \A j \in Failures : \A n \in 1..Len(trail[j]) :
             n \in 1..Len(trail'[j]) /\ trail'[j][n] = trail[j][n]
      BY <3>6, <3>7
    <3>9. Trails'
      <4>1. \A n \in 1..Len(trail'[i]) : WrittenFor(i, trail'[i][n])
        <5>1. \A n \in 1..Len(trail'[i]) : n \in 1..Len(trail[i]) \/ n = Len(trail[i]) + 1
          BY <3>6, <3>7
        <5>. QED
          BY <3>5, <3>7, <5>1 DEF LearnerInv, Trails
      <4>2. \A j \in Failures : trail'[j] \in Seq(Records)
        BY <3>6, <3>7 DEF LearnerInv, Trails, Records
      <4>3. \A j \in Failures : \A n \in 1..Len(trail'[j]) : WrittenFor(j, trail'[j][n])
        BY <3>6, <4>1 DEF LearnerInv, Trails
      <4>. QED
        BY <3>6, <4>2, <4>3 DEF Trails, WrittenFor, Records
    <3>10. Backed'
      <4>1. UNCHANGED beliefs /\ \A q \in Learners : Known(q)' = Known(q)
        BY <1>1 DEF Known
      <4>2. ASSUME NEW q \in Learners, NEW k \in Known(q), NEW a \in Arms, beliefs[q][k][a] > 0
            PROVE  \E j \in Failures : \E n \in 1..Len(trail'[j]) :
                      /\ trail'[j][n].honoured /\ trail'[j][n].arm = a
                      /\ k = trail'[j][n].cell \/ k = Overflow
        <5>1. PICK j \in Failures :
                 \E n \in 1..Len(trail[j]) :
                    /\ trail[j][n].honoured /\ trail[j][n].arm = a
                    /\ k = trail[j][n].cell \/ k = Overflow
          BY <4>2 DEF LearnerInv, Backed
        <5>. QED
          BY <3>8, <5>1
      <4>. QED
        BY <4>1, <4>2 DEF Backed
    <3>. QED
      BY <3>9, <3>10
  <2>. QED
    BY <1>2, <2>1, <2>2
<1>. HIDE DEF r
<1>. QED
  BY <1>1, <1>6, <1>7, <1>8, <1>9, Passes DEF LearnerInv

LEMMA DeferStep ==
    ASSUME LearnerInv, NEW i \in Failures, Defer(i)
    PROVE  LearnerInv'
<1>. DEFINE r == Waiting(turn[i].attempt, TRUE)
<1>1. /\ turn[i].at = "act" /\ turn' = [turn EXCEPT ![i] = r]
      /\ served' = [served EXCEPT ![i] = turn[i].kept]
      /\ UNCHANGED <<beliefs, trail, credited, stops>>
  BY DEF Defer
<1>2. turn[i].attempt \in 1..LastAttempt /\ turn[i].kept \subseteq Arms
  BY <1>1, PassIs, Scale DEF LearnerInv
<1>3. Pass(r) /\ r.attempt = turn[i].attempt
  <2>1. r.at = "waiting" /\ r.attempt = turn[i].attempt
    BY DEF Waiting
  <2>2. turn[i].attempt \in 0..LastAttempt /\ turn[i].attempt >= 1
    BY <1>2, Scale
  <2>. QED
    BY <2>1, <2>2 DEF Pass
<1>. HIDE DEF r
<1>4. Concluded \subseteq Concluded'
  <2>1. r.attempt \in Int
    BY <1>2, <1>3, Scale
  <2>. QED
    BY <1>1, <1>3, <2>1, Goes
<1>5. served' \in [Failures -> SUBSET Arms]
  BY <1>1, <1>2 DEF LearnerInv
<1>. QED
  BY <1>1, <1>3, <1>4, <1>5, SameTrails, Passes

\* One outcome more, in a cell of its own or the shared one.
LEMMA Updates ==
    ASSUME Beliefs, NEW l \in Learners, NEW cell \in CellKeys, NEW arm \in Arms, Update(l, cell, arm)
    PROVE  \E key \in {cell, Overflow} : \E o :
              /\ Beliefs' /\ Counted' \subseteq Counted \cup {o}
              /\ \A m \in Learners : \A k \in Known(m)', a \in Arms :
                    beliefs'[m][k][a] > 0 =>
                        \/ m = l /\ k = key /\ a = arm
                        \/ k \in Known(m) /\ beliefs[m][k][a] > 0
<1>. DEFINE key == CellKey(l, cell)
            More(k, a) == IF k = key /\ a = arm THEN 1 ELSE 0
            f == [k \in Known(l) \cup {key} |-> [a \in Arms |-> Observations(l, k, a) + More(k, a)]]
            o == <<l, key, arm, Observations(l, key, arm) + 1>>
<1>1. key \in {cell, Overflow} /\ key \in CellKeys
  BY DEF CellKey, CellKeys
<1>3. beliefs' = [beliefs EXCEPT ![l] = f]
  BY DEF Update
<1>4. IsFiniteSet(Known(l)) /\ Known(l) \subseteq CellKeys /\ beliefs[l] \in [Known(l) -> [Arms -> Nat]]
      /\ Cardinality(Known(l) \ {Overflow}) <= MaxCells
  BY DEF Beliefs
<1>5. \A k \in Known(l) \cup {key}, a \in Arms :
         Observations(l, k, a) \in Nat /\ f[k][a] = Observations(l, k, a) + More(k, a)
  BY <1>4 DEF Observations
<1>6. f \in [Known(l) \cup {key} -> [Arms -> Nat]]
  <2>1. \A k \in Known(l) \cup {key}, a \in Arms : Observations(l, k, a) + More(k, a) \in Nat
    <3>1. \A k, a : More(k, a) \in {0, 1}
      OBVIOUS
    <3>2. \A k \in Known(l) \cup {key}, a \in Arms : Observations(l, k, a) \in Nat
      BY <1>5
    <3>3. \A x \in Nat, y \in {0, 1} : x + y \in Nat
      OBVIOUS
    <3>. HIDE DEF More, f, key
    <3>. SUFFICES ASSUME NEW k \in Known(l) \cup {key}, NEW a \in Arms
                  PROVE  Observations(l, k, a) + More(k, a) \in Nat
      OBVIOUS
    <3>4. Observations(l, k, a) \in Nat /\ More(k, a) \in {0, 1}
      BY <3>1, <3>2
    <3>. QED
      BY <3>3, <3>4
  <2>. HIDE DEF More, key
  <2>. QED
    BY <2>1
<1>7. DOMAIN f = Known(l) \cup {key}
  OBVIOUS
<1>. HIDE DEF f, key
<1>8. /\ beliefs' = [m \in Learners |-> beliefs'[m]] /\ beliefs'[l] = f
      /\ \A m \in Learners : m # l => beliefs'[m] = beliefs[m]
  BY <1>3 DEF Beliefs
<1>9. /\ Known(l)' = Known(l) \cup {key}
      /\ \A m \in Learners : m # l => Known(m)' = Known(m)
  BY <1>7, <1>8 DEF Known
<1>10. IsFiniteSet(Known(l)') /\ Cardinality(Known(l)' \ {Overflow}) <= MaxCells
  <2>1. IsFiniteSet(Known(l) \cup {key})
    BY <1>4, FS_AddElement
  <2>2. CASE key = Overflow \/ key \in Known(l)
    <3>1. (Known(l) \cup {key}) \ {Overflow} = Known(l) \ {Overflow}
      BY <2>2
    <3>. QED
      BY <1>4, <1>9, <2>1, <3>1
  <2>3. CASE key # Overflow /\ key \notin Known(l)
    <3>1. Cardinality(Known(l)) < MaxCells
      BY <2>3 DEF CellKey, key
    <3>2. /\ IsFiniteSet(Known(l) \ {Overflow}) /\ Cardinality(Known(l) \ {Overflow}) <= Cardinality(Known(l))
          /\ Cardinality(Known(l)) \in Nat /\ Cardinality(Known(l) \ {Overflow}) \in Nat
      <4>1. Known(l) \ {Overflow} \in SUBSET Known(l)
        OBVIOUS
      <4>2. IsFiniteSet(Known(l) \ {Overflow}) /\ Cardinality(Known(l) \ {Overflow}) <= Cardinality(Known(l))
        BY <1>4, <4>1, FS_Subset
      <4>. QED
        BY <1>4, <4>2, FS_CardinalityType
    <3>3. (Known(l) \cup {key}) \ {Overflow} = (Known(l) \ {Overflow}) \cup {key}
      BY <2>3
    <3>4. Cardinality((Known(l) \ {Overflow}) \cup {key}) = Cardinality(Known(l) \ {Overflow}) + 1
      BY <2>3, <3>2, FS_AddElement
    <3>5. MaxCells \in Nat
      BY Scale
    <3>6. Cardinality((Known(l) \ {Overflow}) \cup {key}) <= MaxCells
      BY <3>1, <3>2, <3>4, <3>5
    <3>. QED
      BY <1>9, <2>1, <3>3, <3>6
  <2>. QED
    BY <2>2, <2>3
<1>11. Beliefs'
  <2>1. \A m \in Learners :
           /\ Known(m)' \subseteq CellKeys /\ IsFiniteSet(Known(m)')
           /\ beliefs'[m] \in [Known(m)' -> [Arms -> Nat]]
           /\ Cardinality(Known(m)' \ {Overflow}) <= MaxCells
    BY <1>1, <1>4, <1>6, <1>8, <1>9, <1>10 DEF Beliefs
  <2>. QED
    BY <1>8, <2>1 DEF Beliefs
<1>12. \A k \in Known(l)', a \in Arms :
          /\ k = key /\ a = arm => f[k][a] = Observations(l, k, a) + 1
          /\ ~(k = key /\ a = arm) => f[k][a] = Observations(l, k, a)
  BY <1>5, <1>9
<1>. HIDE DEF More
<1>13. Counted' \subseteq Counted \cup {o}
  <2>. SUFFICES ASSUME NEW c \in Counted', c # o PROVE c \in Counted
    OBVIOUS
  <2>1. OutcomesCounted'
    BY CountedIs, PTL
  <2>2. PICK m \in Learners : \E k \in Known(m)', a \in Arms,
             n \in 1..(LastAttempt * Cardinality(Failures)) :
                 c = <<m, k, a, n>> /\ n <= beliefs'[m][k][a]
    BY <2>1 DEF OutcomesCounted
  <2>3. PICK k \in Known(m)', a \in Arms, n \in 1..(LastAttempt * Cardinality(Failures)) :
                 c = <<m, k, a, n>> /\ n <= beliefs'[m][k][a]
    BY <2>2
  <2>4. n >= 1 /\ n \in Int
    <3>1. \A h \in Int : \A j \in 1..h : j >= 1 /\ j \in Int
      OBVIOUS
    <3>2. Cardinality(Failures) \in Nat /\ LastAttempt \in Nat
      BY Scale, FS_CardinalityType
    <3>3. LastAttempt * Cardinality(Failures) \in Int
      BY <3>2
    <3>. QED
      BY <3>1, <3>3
  <2>5. CASE m # l
    BY <1>8, <1>9, <2>3, <2>5, CountedIs DEF OutcomesCounted
  <2>6. CASE m = l
    <3>1. Observations(l, k, a) \in Nat
      BY <1>5, <1>9, <2>6
    <3>2. n <= Observations(l, k, a)
      <4>1. CASE k = key /\ a = arm
        <5>1. n <= Observations(l, k, a) + 1
          BY <1>8, <1>12, <2>3, <2>6, <4>1
        <5>2. n # Observations(l, k, a) + 1
          BY <2>3, <2>6, <4>1
        <5>. QED
          BY <2>4, <3>1, <5>1, <5>2
      <4>2. CASE ~(k = key /\ a = arm)
        BY <1>8, <1>12, <2>3, <2>6, <4>2
      <4>. QED
        BY <4>1, <4>2
    <3>3. k \in Known(l) /\ n <= beliefs[l][k][a]
      <4>1. k \in Known(l)
        BY <2>4, <3>2 DEF Observations
      <4>. QED
        BY <3>2, <4>1 DEF Observations
    <3>. QED
      BY <2>3, <2>6, <3>3, CountedIs DEF OutcomesCounted
  <2>. QED
    BY <2>5, <2>6
<1>14. \A m \in Learners : \A k \in Known(m)', a \in Arms :
          beliefs'[m][k][a] > 0 =>
              \/ m = l /\ k = key /\ a = arm
              \/ k \in Known(m) /\ beliefs[m][k][a] > 0
  <2>. SUFFICES ASSUME NEW m \in Learners, NEW k \in Known(m)', NEW a \in Arms,
                       beliefs'[m][k][a] > 0, ~(m = l /\ k = key /\ a = arm)
                PROVE  k \in Known(m) /\ beliefs[m][k][a] > 0
    OBVIOUS
  <2>1. CASE m # l
    BY <1>8, <1>9, <2>1
  <2>2. CASE m = l
    BY <1>5, <1>8, <1>9, <1>12, <2>2 DEF Observations
  <2>. QED
    BY <2>1, <2>2
<1>. HIDE DEF o
<1>. QED
  BY <1>1, <1>11, <1>13, <1>14

LEMMA AnsweredStep ==
    ASSUME LearnerInv, NEW i \in Failures, Answered(i)
    PROVE  LearnerInv'
<1>1. /\ turn[i].at = "act" /\ turn[i].due /\ UNCHANGED <<trail, served, stops>>
      /\ Learn(i) \/ UNCHANGED <<beliefs, credited>>
  BY DEF Answered
<1>2. /\ turn[i].attempt \in 2..LastAttempt /\ turn[i].l \in Learners
  BY <1>1, PassIs, Scale DEF LearnerInv
<1>3. PICK r : /\ turn' = [turn EXCEPT ![i] = r]
               /\ r \in {Over(turn[i].attempt), Waiting(turn[i].attempt, TRUE)}
  BY DEF Answered
<1>4. r.at \in {"waiting", "closed"} /\ r.attempt = turn[i].attempt
  BY <1>3 DEF Over, Waiting
<1>5. Pass(r)
  <2>1. turn[i].attempt \in 0..LastAttempt /\ turn[i].attempt \in 0..(LastAttempt + 1)
        /\ turn[i].attempt >= 1
    BY <1>2, Scale
  <2>2. CASE r = Over(turn[i].attempt)
    BY <2>1, <2>2 DEF Pass
  <2>3. CASE r = Waiting(turn[i].attempt, TRUE)
    BY <2>1, <2>3 DEF Pass, Waiting
  <2>. QED
    BY <1>3, <2>2, <2>3
<1>6. Concluded \subseteq Concluded'
  <2>1. r.attempt \in Int
    BY <1>2, <1>4, Scale
  <2>. QED
    BY <1>1, <1>3, <1>4, <2>1, Goes
<1>7. CASE UNCHANGED <<beliefs, credited>>
  BY <1>1, <1>3, <1>5, <1>6, <1>7, SameTrails, Passes DEF LearnerInv
<1>8. CASE Learn(i)
  <2>1. PICK d \in Latest(i) : /\ d.honoured /\ Update(turn[i].l, d.cell, d.arm)
                               /\ credited' = [credited EXCEPT ![i] = {d.arm}]
    BY <1>8 DEF Learn
  <2>2. /\ d = trail[i][Len(trail[i])] /\ Len(trail[i]) \in 1..Len(trail[i])
        /\ d \in [arm : Arms, cell : CellKeys, honoured : BOOLEAN, gate : SUBSET Nat]
    <3>1. trail[i] # <<>> /\ d = trail[i][Len(trail[i])]
      BY <2>1 DEF Latest
    <3>2. trail[i] \in Seq([arm : Arms, cell : CellKeys, honoured : BOOLEAN, gate : SUBSET Nat])
      BY DEF LearnerInv, Trails
    <3>. DEFINE Records == [arm : Arms, cell : CellKeys, honoured : BOOLEAN, gate : SUBSET Nat]
    <3>3. trail[i] \in Seq(Records)
      BY <3>2
    <3>. HIDE DEF Records
    <3>4. \A seq \in Seq(Records) :
             seq # <<>> => Len(seq) \in 1..Len(seq) /\ seq[Len(seq)] \in Records
      OBVIOUS
    <3>5. Len(trail[i]) \in 1..Len(trail[i]) /\ trail[i][Len(trail[i])] \in Records
      BY <3>1, <3>3, <3>4
    <3>. QED
      BY <3>1, <3>5 DEF Records
  <2>3. d.cell \in CellKeys /\ d.arm \in Arms
    BY <2>2
  <2>4. PICK key \in {d.cell, Overflow} : \E o :
              /\ Beliefs' /\ Counted' \subseteq Counted \cup {o}
              /\ \A m \in Learners : \A k \in Known(m)', a \in Arms :
                    beliefs'[m][k][a] > 0 =>
                        \/ m = turn[i].l /\ k = key /\ a = d.arm
                        \/ k \in Known(m) /\ beliefs[m][k][a] > 0
    <3>1. Beliefs
      BY DEF LearnerInv
    <3>. QED
      BY <1>2, <2>1, <2>3, <3>1, Updates
  <2>5. Trails'
    BY <1>1 DEF LearnerInv, Trails, WrittenFor
  <2>6. Backed'
    <3>. SUFFICES ASSUME NEW m \in Learners, NEW k \in Known(m)', NEW a \in Arms,
                         beliefs'[m][k][a] > 0
                  PROVE  \E j \in Failures : \E n \in 1..Len(trail[j]) :
                            /\ trail[j][n].honoured /\ trail[j][n].arm = a
                            /\ k = trail[j][n].cell \/ k = Overflow
      BY <1>1 DEF Backed
    <3>1. CASE k = key /\ a = d.arm
      BY <2>1, <2>2, <3>1
    <3>2. CASE k \in Known(m) /\ beliefs[m][k][a] > 0
      BY <3>2 DEF LearnerInv, Backed
    <3>. QED
      BY <2>4, <3>1, <3>2
  <2>7. /\ <<i, turn[i].attempt>> \in Concluded' /\ <<i, turn[i].attempt>> \notin Concluded
    <3>1. turn'[i] = r
      BY <1>3 DEF LearnerInv
    <3>2. <<i, turn[i].attempt>> \in Failures \X (2..LastAttempt)
      BY <1>2
    <3>3. <<i, turn[i].attempt>> \in Concluded'
      BY <1>4, <3>1, <3>2 DEF Concluded
    <3>4. ~(turn[i].attempt < turn[i].attempt)
      BY <1>2, Scale
    <3>5. <<i, turn[i].attempt>> \notin Concluded
      BY <1>1, <3>4 DEF Concluded
    <3>. QED
      BY <3>3, <3>5
  <2>8. IsFiniteSet(Counted)' /\ Cardinality(Counted)' <= Cardinality(Concluded)'
    <3>1. PICK o : Counted' \subseteq Counted \cup {o}
      BY <2>4
    <3>. QED
      BY <1>6, <2>7, <3>1, OneMoreCounted
  <2>9. turn' = [j \in Failures |-> turn'[j]] /\ \A j \in Failures : Pass(turn'[j])
    BY <1>3, <1>5 DEF LearnerInv
  <2>10. credited' \in [Failures -> SUBSET Arms]
    BY <2>1, <2>3 DEF LearnerInv
  <2>. QED
    BY <1>1, <2>4, <2>5, <2>6, <2>8, <2>9, <2>10 DEF LearnerInv
<1>. QED
  BY <1>1, <1>7, <1>8

LEMMA StopStep ==
    ASSUME LearnerInv, NEW l \in Learners, Stop(l)
    PROVE  LearnerInv'
<1>1. /\ stops < MaxStops /\ stops' = stops + 1 /\ UNCHANGED <<trail, served, credited>>
      /\ beliefs' = [beliefs EXCEPT ![l] = <<>>]
      /\ turn' = [i \in Failures |-> IF turn[i].at \in {"gate", "act"} /\ turn[i].l = l
                                     THEN Over(turn[i].attempt) ELSE turn[i]]
  BY DEF Stop
<1>2. DOMAIN <<>> = {} /\ <<>> \in [{} -> [Arms -> Nat]]
  <2>1. <<>> \in Seq([Arms -> Nat]) /\ Len(<<>>) = 0
    OBVIOUS
  <2>2. <<>> \in [1..0 -> [Arms -> Nat]] /\ 1..0 = {}
    BY <2>1
  <2>. QED
    BY <2>2
<1>3. /\ beliefs' = [m \in Learners |-> beliefs'[m]] /\ beliefs'[l] = <<>>
      /\ \A m \in Learners : m # l => beliefs'[m] = beliefs[m]
  BY <1>1 DEF LearnerInv, Beliefs
<1>4. Known(l)' = {} /\ \A m \in Learners : m # l => Known(m)' = Known(m)
  BY <1>2, <1>3 DEF Known
<1>5. Beliefs'
  <2>1. /\ Known(l)' \subseteq CellKeys /\ IsFiniteSet(Known(l)')
        /\ beliefs'[l] \in [Known(l)' -> [Arms -> Nat]]
        /\ Cardinality(Known(l)' \ {Overflow}) <= MaxCells
    <3>1. {} \ {Overflow} = {}
      OBVIOUS
    <3>. QED
      BY <1>2, <1>3, <1>4, <3>1, FS_EmptySet, Scale
  <2>2. \A m \in Learners : m # l =>
           /\ Known(m)' \subseteq CellKeys /\ IsFiniteSet(Known(m)')
           /\ beliefs'[m] \in [Known(m)' -> [Arms -> Nat]]
           /\ Cardinality(Known(m)' \ {Overflow}) <= MaxCells
    BY <1>3, <1>4 DEF LearnerInv, Beliefs
  <2>. QED
    BY <1>3, <2>1, <2>2 DEF Beliefs
<1>6. Trails'
  BY <1>1 DEF LearnerInv, Trails, WrittenFor
<1>7. Backed'
  BY <1>1, <1>3, <1>4 DEF LearnerInv, Backed
<1>8. turn' = [j \in Failures |-> turn'[j]] /\ \A j \in Failures : Pass(turn'[j])
  <2>1. ASSUME NEW j \in Failures PROVE Pass(turn'[j])
    <3>1. turn[j].attempt \in 0..(LastAttempt + 1) /\ Pass(turn[j])
      BY PassIs DEF LearnerInv
    <3>2. Pass(Over(turn[j].attempt))
      BY <3>1 DEF Pass
    <3>. QED
      BY <1>1, <3>1, <3>2
  <2>. QED
    BY <1>1, <2>1
<1>9. Concluded \subseteq Concluded'
  <2>. SUFFICES ASSUME NEW t \in Failures \X (2..LastAttempt), t \in Concluded PROVE t \in Concluded'
    BY DEF Concluded
  <2>1. t[1] \in Failures
    OBVIOUS
  <2>2. \/ turn'[t[1]] = turn[t[1]]
        \/ /\ turn'[t[1]].at = "closed" /\ turn'[t[1]].attempt = turn[t[1]].attempt
    BY <1>1, <2>1 DEF Over
  <2>. QED
    BY <2>2 DEF Concluded
<1>10. Counted' \subseteq Counted
  <2>1. OutcomesCounted'
    BY CountedIs, PTL
  <2>2. ASSUME NEW c \in Counted' PROVE c \in Counted
    <3>1. PICK m \in Learners : \E k \in Known(m)', a \in Arms,
             n \in 1..(LastAttempt * Cardinality(Failures)) :
                 c = <<m, k, a, n>> /\ n <= beliefs'[m][k][a]
      BY <2>1 DEF OutcomesCounted
    <3>. QED
      BY <1>3, <1>4, <3>1, CountedIs DEF OutcomesCounted
  <2>. QED
    BY <2>2
<1>11. IsFiniteSet(Counted)' /\ Cardinality(Counted)' <= Cardinality(Concluded)'
  BY <1>9, <1>10, NoMoreCounted
<1>12. stops' \in 0..MaxStops
  <2>1. stops \in 0..MaxStops /\ stops < MaxStops /\ stops' = stops + 1 /\ MaxStops \in Nat
    BY <1>1, Scale DEF LearnerInv
  <2>. QED
    BY <2>1
<1>. QED
  BY <1>1, <1>5, <1>6, <1>7, <1>8, <1>11, <1>12 DEF LearnerInv

LEMMA LearnerInitial == LearnerInit => LearnerInv
<1>. SUFFICES ASSUME LearnerInit PROVE LearnerInv
  OBVIOUS
<1>1. DOMAIN <<>> = {} /\ <<>> \in [{} -> [Arms -> Nat]]
  <2>1. <<>> \in Seq([Arms -> Nat]) /\ Len(<<>>) = 0
    OBVIOUS
  <2>2. <<>> \in [1..0 -> [Arms -> Nat]] /\ 1..0 = {}
    BY <2>1
  <2>. QED
    BY <2>2
<1>2. \A l \in Learners : beliefs[l] = <<>> /\ Known(l) = {}
  BY <1>1 DEF LearnerInit, Known
<1>3. Beliefs
  <2>1. {} \ {Overflow} = {}
    OBVIOUS
  <2>2. \A l \in Learners :
        /\ Known(l) \subseteq CellKeys /\ IsFiniteSet(Known(l))
        /\ beliefs[l] \in [Known(l) -> [Arms -> Nat]]
        /\ Cardinality(Known(l) \ {Overflow}) <= MaxCells
    <3>. SUFFICES ASSUME NEW l \in Learners
                  PROVE  /\ {} \subseteq CellKeys /\ IsFiniteSet({}) /\ <<>> \in [{} -> [Arms -> Nat]]
                         /\ Cardinality({}) <= MaxCells
      BY <1>2, <2>1
    <3>. QED
      BY <1>1, FS_EmptySet, Scale
  <2>3. beliefs = [l \in Learners |-> beliefs[l]]
    BY DEF LearnerInit
  <2>. QED
    BY <2>2, <2>3 DEF Beliefs
<1>4. Trails
  BY DEF LearnerInit, Trails
<1>5. Backed
  BY <1>2 DEF Backed
<1>6. turn = [i \in Failures |-> turn[i]] /\ \A i \in Failures : Pass(turn[i])
  <2>1. Pass(Waiting(0, FALSE))
    <3>1. Waiting(0, FALSE).at = "waiting" /\ 0 \in 0..LastAttempt
      BY Scale DEF Waiting
    <3>2. \E n \in 0..LastAttempt, due \in BOOLEAN :
             Waiting(0, FALSE) = Waiting(n, due) /\ (due => n >= 1)
      BY <3>1
    <3>. QED
      BY <3>1, <3>2 DEF Pass
  <2>. QED
    BY <2>1 DEF LearnerInit
<1>7. IsFiniteSet(Counted) /\ Cardinality(Counted) <= Cardinality(Concluded)
  <2>1. Counted = {}
    BY <1>2, CountedIs DEF OutcomesCounted
  <2>. QED
    BY <2>1, ConcludedFinite, FS_EmptySet
<1>8. served \in [Failures -> SUBSET Arms] /\ credited \in [Failures -> SUBSET Arms] /\ stops \in 0..MaxStops
  BY Scale DEF LearnerInit
<1>. QED
  BY <1>3, <1>4, <1>5, <1>6, <1>7, <1>8 DEF LearnerInv

LEMMA LearnerStep == LearnerInv /\ [LearnerNext]_learnerVars => LearnerInv'
<1>1. LearnerInv /\ LearnerNext => LearnerInv'
  BY ChooseStep, RuleStep, DeferStep, AnsweredStep, StopStep DEF LearnerNext
<1>2. ASSUME LearnerInv, UNCHANGED learnerVars PROVE LearnerInv'
  <2>1. UNCHANGED <<beliefs, trail, turn, served, credited, stops>>
    BY <1>2 DEF learnerVars
  <2>2. Beliefs' /\ Counted' = Counted /\ Concluded' = Concluded
    BY <1>2, <2>1 DEF LearnerInv, Beliefs, Known, Counted, Believed, Concluded
  <2>3. IsFiniteSet(Counted)' /\ Cardinality(Counted)' <= Cardinality(Concluded)'
    BY <1>2, <2>2, NoMoreCounted
  <2>4. Trails' /\ Backed'
    BY <1>2, <2>1, SameTrails
  <2>. QED
    BY <1>2, <2>1, <2>2, <2>3, <2>4 DEF LearnerInv
<1>. QED
  BY <1>1, <1>2

LEMMA LearnerInvSound == LearnerInv => LearningSound
<1>. SUFFICES ASSUME LearnerInv PROVE LearningSound
  OBVIOUS
<1>1. LearnerTypeOK
  <2>1. \A i \in Failures : /\ turn[i].at \in {"waiting", "gate", "act", "closed"}
                            /\ turn[i].attempt \in 0..(LastAttempt + 1)
    BY PassIs DEF LearnerInv
  <2>. QED
    BY <2>1 DEF LearnerInv, LearnerTypeOK, Beliefs, Trails, CellKeys
<1>2. OverridesAreRegulatory
  <2>1. \A i \in Failures : DOMAIN trail[i] = 1..Len(trail[i])
    BY DEF LearnerInv, Trails
  <2>. QED
    BY <2>1 DEF LearnerInv, Trails, WrittenFor, OverridesAreRegulatory
<1>3. EvidenceIsDecided
  <2>1. \A i \in Failures : DOMAIN trail[i] = 1..Len(trail[i])
    BY DEF LearnerInv, Trails
  <2>2. IsFiniteSet(Attempted)
    <3>1. IsFiniteSet(2..LastAttempt)
      BY FS_Interval, Scale
    <3>2. IsFiniteSet(Failures)
      BY Scale
    <3>3. IsFiniteSet(Failures \X (2..LastAttempt))
      BY <3>1, <3>2, FS_Product
    <3>4. Attempted \in SUBSET (Failures \X (2..LastAttempt))
      BY DEF Attempted
    <3>. QED
      BY <3>3, <3>4, FS_Subset
  <2>3. Concluded \subseteq Attempted
    <3>. SUFFICES ASSUME NEW t \in Failures \X (2..LastAttempt), t \in Concluded PROVE t \in Attempted
      BY DEF Concluded
    <3>1. t[2] \in Int /\ turn[t[1]].attempt \in Int
      BY PassIs, Scale DEF LearnerInv
    <3>. QED
      BY <3>1 DEF Concluded, Attempted
  <2>4. Cardinality(Counted) <= Cardinality(Attempted)
    <3>1. Cardinality(Concluded) <= Cardinality(Attempted)
      BY <2>2, <2>3, FS_Subset
    <3>2. Cardinality(Attempted) \in Nat /\ Cardinality(Counted) \in Nat /\ Cardinality(Concluded) \in Nat
      BY <2>2, ConcludedFinite, FS_CardinalityType DEF LearnerInv
    <3>. QED
      BY <3>1, <3>2 DEF LearnerInv
  <2>5. \A l \in Learners : \A k \in Known(l), a \in Arms :
          beliefs[l][k][a] > 0 =>
            \E i \in Failures : \E n \in DOMAIN trail[i] :
                LET d == trail[i][n]
                IN  d.honoured /\ d.arm = a /\ (k = d.cell \/ k = Overflow)
    BY <2>1 DEF LearnerInv, Backed
  <2>. QED
    BY <2>4, <2>5 DEF EvidenceIsDecided
<1>4. CellsAreBounded
  BY DEF LearnerInv, Beliefs, CellsAreBounded
<1>. QED
  BY <1>1, <1>2, <1>3, <1>4 DEF LearningSound, LearnerSound

LEMMA LearnerAlways == LearnerSpec => []LearnerInv
  BY LearnerInitial, LearnerStep, PTL DEF LearnerSpec

\* Whatever is drawn, vetoed, raised, lost or forgotten by a process that stops:
\* the gate does what was drawn but for a veto or the cooling window, a process
\* believes only what the ledger can show, never more than there were attempts,
\* and keeps no more cells than it may.
THEOREM LearningIsSound == LearnerSpec => []LearningSound
  BY LearnerAlways, LearnerInvSound, PTL

-----------------------------------------------------------------------------
(* The downtime feed *)

Releases == [id : Notices, spell : Nat, standing : BOOLEAN, ended : BOOLEAN]

\* The view of a process: what it saw, when, what it waits for and has to announce.
Views == [seen : SUBSET Items, polled : SUBSET (0..MaxTime), asked : SUBSET (0..MaxTime),
          failed : BOOLEAN, listing : SUBSET [items : SUBSET Items, asked : 0..MaxTime],
          releasing : SUBSET Releases]

OneEach(set) == \A a, b \in set : a.id = b.id => a = b

Published ==
    /\ time \in 0..MaxTime /\ changes \in 0..MaxChanges /\ restarts \in 0..MaxRestarts
    /\ feed \subseteq Entities /\ OneEach(feed)
    /\ spell \in [Notices -> Nat] /\ parked \subseteq Parked

\* An item whose spell still lasts is what it was: active, if it was active, and
\* untouched, if it was not.
AsListed(i) ==
    /\ i.n.id = i.id /\ i.spell <= spell[i.id]
    /\ i.spell = spell[i.id] => /\ i.standing => Standing(i.id)
                                /\ ~i.standing => ~Standing(i.id) /\ Entries(i.id) = {i.n}

\* The listing asked for has every notice whose spell a seen one still lasts in.
Lists(v, l) ==
    /\ l.asked <= time /\ time - l.asked <= Timeout
    /\ OneEach(l.items) /\ \A j \in l.items : AsListed(j)
    /\ \A i \in v.seen : i.spell = spell[i.id] =>
         \E j \in l.items : j.id = i.id /\ ~j.n.resolved /\ j.n.begin <= time

\* What has been announced is of a spell that is over, and older than any on view.
After(p, x) ==
    \A a \in announced : a.by = p /\ ~a.ended /\ a.id = x.id => a.spell < x.spell

Viewing(p) ==
    LET v == poller[p] IN
    /\ v \in Views
    /\ OneEach(v.seen)
    /\ \A i \in v.seen : AsListed(i) /\ After(p, i) /\ ~i.n.resolved /\ i.n.begin <= time
    /\ v.listing = {} \/ \E l \in v.listing : v.listing = {l} /\ Lists(v, l) /\ \A j \in l.items : After(p, j)
    /\ \/ v.polled = {} /\ v.asked = {}
       \/ \E t, a \in 0..time : v.polled = {t} /\ v.asked = {a} /\ t - a <= Timeout
    /\ v.releasing # {} => v.listing = {} /\ p \in Workers
    /\ OneEach(v.releasing)
    /\ \A r \in v.releasing : /\ r.ended \/ r.spell < spell[r.id]
                              /\ After(p, r) /\ \A i \in v.seen : i.id # r.id

DowntimeInv ==
    /\ Published
    /\ poller = [p \in Pollers |-> poller[p]] /\ \A p \in Pollers : Viewing(p)
    /\ announced \subseteq [by : Pollers, id : Notices, spell : Nat, ended : BOOLEAN]
    /\ \A a \in announced : ~a.ended => a.spell < spell[a.id]

LEMMA Spans ==
    /\ Notices \subseteq Nat /\ Workers \subseteq Pollers
    /\ Timeout \in Nat /\ StaleAfter \in Nat /\ MaxTime \in Nat /\ MaxChanges \in Nat
    /\ MaxRestarts \in Nat
  BY DowntimeAssumption

LEMMA SpellsGrow ==
    ASSUME spell \in [Notices -> Nat], Spells
    PROVE  /\ spell' \in [Notices -> Nat]
           /\ \A n \in Notices :
                /\ spell[n] <= spell'[n]
                /\ spell'[n] = spell[n] =>
                     \/ Standing(n) /\ Standing(n)'
                     \/ Entries(n) = Entries(n)' /\ ~Standing(n) /\ ~Standing(n)'
<1>. DEFINE lasts(n) == \/ Standing(n) /\ Standing(n)'
                        \/ Entries(n) = Entries(n)' /\ ~Standing(n) /\ ~Standing(n)'
<1>1. spell' = [n \in Notices |-> IF lasts(n) THEN spell[n] ELSE spell[n] + 1]
  BY DEF Spells
<1>. HIDE DEF lasts
<1>2. \A n \in Notices : /\ spell'[n] \in Nat /\ spell[n] <= spell'[n]
                         /\ spell'[n] = spell[n] => lasts(n)
  BY <1>1
<1>. QED
  BY <1>1, <1>2 DEF lasts

\* An item stays what it is as the gateway moves.
LEMMA StaysListed ==
    ASSUME spell \in [Notices -> Nat], Spells, NEW i \in Items, AsListed(i)
    PROVE  AsListed(i)' /\ (i.spell = spell'[i.id] => i.spell = spell[i.id])
<1>1. i.id \in Notices /\ i.spell \in Nat
  BY DEF Items
<1>2. /\ spell[i.id] \in Nat /\ spell'[i.id] \in Nat /\ spell[i.id] <= spell'[i.id]
      /\ spell'[i.id] = spell[i.id] =>
             \/ Standing(i.id) /\ Standing(i.id)'
             \/ Entries(i.id) = Entries(i.id)' /\ ~Standing(i.id) /\ ~Standing(i.id)'
  BY <1>1, SpellsGrow
<1>3. i.spell = spell'[i.id] => i.spell = spell[i.id] /\ spell'[i.id] = spell[i.id]
  BY <1>1, <1>2 DEF AsListed
<1>4. i.spell <= spell'[i.id]
  BY <1>1, <1>2 DEF AsListed
<1>. QED
  BY <1>2, <1>3, <1>4 DEF AsListed

\* The gateway changes a notice, or time goes.
LEMMA GatewayStep ==
    ASSUME DowntimeInv, Spells, time' \in 0..MaxTime, time <= time',
           changes' \in 0..MaxChanges, feed' \subseteq Entities, OneEach(feed'),
           \A p \in Pollers : \A l \in poller[p].listing : time' - l.asked <= Timeout,
           UNCHANGED <<restarts, poller, announced, parked>>
    PROVE  DowntimeInv'
<1>1. spell \in [Notices -> Nat] /\ time \in Nat /\ time' \in Nat
  BY Spans DEF DowntimeInv, Published
<1>2. /\ spell' \in [Notices -> Nat]
      /\ \A n \in Notices : spell[n] \in Nat /\ spell'[n] \in Nat /\ spell[n] <= spell'[n]
  BY <1>1, SpellsGrow
<1>3. Published'
  BY <1>2 DEF DowntimeInv, Published
<1>4. ASSUME NEW p \in Pollers PROVE Viewing(p)'
  <2>. DEFINE v == poller[p]
  <2>1. Viewing(p) /\ v \in Views /\ poller' = poller
    BY DEF DowntimeInv, Viewing
  <2>2. \A x : After(p, x)' <=> After(p, x)
    BY DEF After
  <2>3. v.seen \subseteq Items /\ v.releasing \subseteq Releases
        /\ \A l \in v.listing : l.items \subseteq Items /\ l.asked \in 0..MaxTime
    BY <2>1 DEF Views
  <2>4. \A i \in v.seen : AsListed(i)' /\ (i.spell = spell'[i.id] => i.spell = spell[i.id])
    BY <1>1, <2>1, <2>3, StaysListed DEF Viewing
  <2>5. \A i \in v.seen : i.n.begin <= time' /\ ~i.n.resolved
    <3>1. \A i \in v.seen : i.n.begin \in Nat /\ i.n.begin <= time /\ ~i.n.resolved
      BY <2>1, <2>3, Spans DEF Viewing, Items, Entities
    <3>. QED
      BY <1>1, <3>1
  <2>6. ASSUME NEW l \in v.listing, Lists(v, l) PROVE Lists(v, l)'
    <3>1. \A j \in l.items : AsListed(j)'
      BY <1>1, <2>3, <2>6, StaysListed DEF Lists
    <3>2. l.asked <= time' /\ time' - l.asked <= Timeout
      BY <1>1, <2>3, <2>6, Spans DEF Lists
    <3>3. \A j \in l.items : j.n.begin \in Nat
      BY <2>3, Spans DEF Items, Entities
    <3>4. ASSUME NEW i \in v.seen, i.spell = spell'[i.id]
          PROVE  \E j \in l.items : j.id = i.id /\ ~j.n.resolved /\ j.n.begin <= time'
      <4>1. PICK j \in l.items : j.id = i.id /\ ~j.n.resolved /\ j.n.begin <= time
        BY <2>4, <2>6, <3>4 DEF Lists
      <4>2. j.n.begin <= time'
        BY <1>1, <3>3, <4>1
      <4>. QED
        BY <4>1, <4>2
    <3>. HIDE DEF v
    <3>. QED
      BY <2>6, <3>1, <3>2, <3>4, <2>1 DEF Lists, v
  <2>7. v.listing = {} \/ \E l \in v.listing :
           v.listing = {l} /\ Lists(v, l)' /\ \A j \in l.items : After(p, j)
    BY <2>1, <2>6 DEF Viewing
  <2>8. \/ v.polled = {} /\ v.asked = {}
        \/ \E t, a \in 0..time' : v.polled = {t} /\ v.asked = {a} /\ t - a <= Timeout
    <3>1. 0..time \subseteq 0..time'
      BY <1>1
    <3>. QED
      BY <2>1, <3>1 DEF Viewing
  <2>9. \A r \in v.releasing : r.ended \/ r.spell < spell'[r.id]
    <3>1. \A r \in v.releasing : r.id \in Notices /\ r.spell \in Nat
      BY <2>3 DEF Releases
    <3>. QED
      BY <1>2, <2>1, <3>1 DEF Viewing
  <2>. HIDE DEF v
  <2>. QED
    BY <2>1, <2>2, <2>4, <2>5, <2>7, <2>8, <2>9 DEF Viewing, v
<1>5. \A a \in announced : ~a.ended => a.spell < spell'[a.id]
  <2>1. \A a \in announced : a.id \in Notices /\ a.spell \in Nat
    BY DEF DowntimeInv
  <2>. QED
    BY <1>2, <2>1 DEF DowntimeInv
<1>. QED
  BY <1>3, <1>4, <1>5 DEF DowntimeInv

LEMMA ChangeStep ==
    ASSUME DowntimeInv, NEW n \in Notices, Change(n)
    PROVE  DowntimeInv'
<1>1. /\ changes < MaxChanges /\ changes' = changes + 1 /\ UNCHANGED time /\ Spells
      /\ UNCHANGED <<restarts, poller, announced, parked>>
  BY DEF Change
<1>2. time \in 0..MaxTime /\ feed \subseteq Entities /\ OneEach(feed) /\ changes \in 0..MaxChanges
  BY DEF DowntimeInv, Published
<1>. DEFINE Changes(new) == /\ new \subseteq Entities /\ feed' = Others(n) \cup new
                             /\ \A d, e \in new : d.id = n /\ d = e
<1>3. \E new : Changes(new)
  <2>1. ASSUME NEW begin \in time..(time + 1), NEW end \in {{}, {time + 1}},
               feed' = Others(n) \cup {[id |-> n, resolved |-> FALSE, begin |-> begin, end |-> end]}
        PROVE  \E new : Changes(new)
    <3>1. [id |-> n, resolved |-> FALSE, begin |-> begin, end |-> end] \in Entities
      <4>1. begin \in 0..(MaxTime + 1) /\ time + 1 \in 0..(MaxTime + 1)
        BY <1>2, Spans
      <4>. QED
        BY <4>1 DEF Entities
    <3>2. Changes({[id |-> n, resolved |-> FALSE, begin |-> begin, end |-> end]})
      BY <2>1, <3>1
    <3>. HIDE DEF Changes
    <3>. QED
      BY <3>2
  <2>2. ASSUME NEW d \in Entries(n), feed' = Others(n) \cup {[d EXCEPT !.resolved = TRUE]}
        PROVE  \E new : Changes(new)
    <3>1. d \in Entities /\ d.id = n
      BY <1>2 DEF Entries
    <3>2. [d EXCEPT !.resolved = TRUE] \in Entities /\ [d EXCEPT !.resolved = TRUE].id = n
      BY <3>1 DEF Entities
    <3>3. Changes({[d EXCEPT !.resolved = TRUE]})
      BY <2>2, <3>2
    <3>. HIDE DEF Changes
    <3>. QED
      BY <3>3
  <2>3. CASE feed' = Others(n)
    <3>1. Changes({})
      BY <2>3
    <3>. HIDE DEF Changes
    <3>. QED
      BY <3>1
  <2>. HIDE DEF Changes
  <2>. QED
    BY <2>1, <2>2, <2>3 DEF Change
<1>4. feed' \subseteq Entities /\ OneEach(feed')
  <2>1. PICK new : Changes(new)
    BY <1>3
  <2>2. Others(n) = {d \in feed : d.id # n}
    BY DEF Others, Entries
  <2>. QED
    BY <1>2, <2>1, <2>2 DEF OneEach
<1>5. changes' \in 0..MaxChanges /\ time' \in 0..MaxTime /\ time <= time'
  BY <1>1, <1>2, Spans
<1>6. \A p \in Pollers : \A l \in poller[p].listing : time' - l.asked <= Timeout
  BY <1>1 DEF DowntimeInv, Viewing, Lists
<1>. QED
  BY <1>1, <1>4, <1>5, <1>6, GatewayStep

LEMMA TimeStep ==
    ASSUME DowntimeInv, TimeGoes
    PROVE  DowntimeInv'
<1>1. /\ time < MaxTime /\ time' = time + 1 /\ UNCHANGED feed /\ Spells
      /\ \A p \in Pollers : \A l \in poller[p].listing : time - l.asked < Timeout
      /\ UNCHANGED <<changes, restarts, poller, announced, parked>>
  BY DEF TimeGoes
<1>2. time \in 0..MaxTime /\ feed \subseteq Entities /\ OneEach(feed) /\ changes \in 0..MaxChanges
  BY DEF DowntimeInv, Published
<1>3. \A p \in Pollers : \A l \in poller[p].listing : l.asked \in Nat
  BY Spans DEF DowntimeInv, Viewing, Views
<1>4. \A p \in Pollers : \A l \in poller[p].listing : time' - l.asked <= Timeout
  BY <1>1, <1>2, <1>3, Spans
<1>5. time' \in 0..MaxTime /\ time <= time' /\ changes' \in 0..MaxChanges
  BY <1>1, <1>2, Spans
<1>6. feed' \subseteq Entities /\ OneEach(feed')
  BY <1>1, <1>2
<1>. QED
  BY <1>1, <1>4, <1>5, <1>6, GatewayStep

\* A step of one process: only its view, and what it announces, change.
LEMMA ViewStep ==
    ASSUME DowntimeInv, NEW p \in Pollers, NEW view, poller' = [poller EXCEPT ![p] = view],
           UNCHANGED <<time, feed, spell, changes>>,
           restarts' \in 0..MaxRestarts, parked' \subseteq Parked,
           announced' \subseteq [by : Pollers, id : Notices, spell : Nat, ended : BOOLEAN],
           \A a \in announced' : ~a.ended => a.spell < spell[a.id],
           \A a \in announced' \ announced : a.by = p,
           Viewing(p)'
    PROVE  DowntimeInv'
<1>1. Published'
  BY DEF DowntimeInv, Published
<1>2. poller' = [q \in Pollers |-> poller'[q]]
  BY DEF DowntimeInv
<1>3. ASSUME NEW q \in Pollers PROVE Viewing(q)'
  <2>1. CASE q = p
    BY <2>1
  <2>2. CASE q # p
    <3>1. poller'[q] = poller[q] /\ Viewing(q)
      BY <2>2 DEF DowntimeInv
    <3>2. \A x : After(q, x) => After(q, x)'
      BY <2>2 DEF After
    <3>3. \A x : AsListed(x)' <=> AsListed(x)
      BY DEF AsListed, Standing, Entries
    <3>4. \A v, l : Lists(v, l)' <=> Lists(v, l)
      BY <3>3 DEF Lists
    <3>. QED
      BY <3>1, <3>2, <3>3, <3>4 DEF Viewing
  <2>. QED
    BY <2>1, <2>2
<1>. QED
  BY <1>1, <1>2, <1>3 DEF DowntimeInv

LEMMA AskStep ==
    ASSUME DowntimeInv, NEW p \in Pollers, Ask(p)
    PROVE  DowntimeInv'
<1>. DEFINE l == [items |-> {Listed(d) : d \in feed}, asked |-> time]
            view == [poller[p] EXCEPT !.listing = {l}]
<1>1. /\ poller[p].listing = {} /\ poller[p].releasing = {}
      /\ poller' = [poller EXCEPT ![p] = view]
      /\ UNCHANGED <<time, feed, spell, changes, restarts, announced, parked>>
  BY DEF Ask, Free
<1>2. Viewing(p) /\ poller[p] \in Views /\ Published
  BY DEF DowntimeInv, Viewing
<1>3. \A d \in feed : /\ d \in Entities /\ d.id \in Notices /\ spell[d.id] \in Nat
                      /\ Entries(d.id) = {d}
  BY <1>2 DEF Published, Entities, Entries, OneEach
<1>4. \A j \in l.items : \E d \in feed :
         j = [n |-> d, id |-> d.id, spell |-> spell[d.id], standing |-> Standing(d.id)]
  BY DEF Listed
<1>5. \A j \in l.items : j \in Items /\ AsListed(j)
  <2>1. TAKE j \in l.items
  <2>2. PICK d \in feed :
           j = [n |-> d, id |-> d.id, spell |-> spell[d.id], standing |-> Standing(d.id)]
    BY <1>4
  <2>3. j.n = d /\ j.id = d.id /\ j.spell = spell[d.id] /\ j.standing = Standing(d.id)
    BY <2>2
  <2>4. AsListed(j)
    BY <1>3, <2>3 DEF AsListed
  <2>5. Standing(d.id) \in BOOLEAN
    BY DEF Standing
  <2>. QED
    BY <1>3, <2>2, <2>4, <2>5 DEF Items
<1>6. OneEach(l.items)
  BY <1>2, <1>4 DEF Published, OneEach
<1>7. \A j \in l.items : After(p, j)
  <2>1. TAKE j \in l.items
  <2>2. PICK d \in feed : j.id = d.id /\ j.spell = spell[d.id]
    BY <1>4
  <2>. QED
    BY <2>2 DEF After, DowntimeInv
<1>8. ASSUME NEW i \in poller[p].seen, i.spell = spell[i.id]
      PROVE  \E j \in l.items : j.id = i.id /\ ~j.n.resolved /\ j.n.begin <= time
  <2>1. AsListed(i) /\ ~i.n.resolved /\ i.n.begin <= time /\ i.standing \in BOOLEAN
    BY <1>2 DEF Viewing, Views, Items
  <2>2. \E d \in feed : d.id = i.id /\ ~d.resolved /\ d.begin <= time
    <3>1. CASE i.standing
      BY <1>8, <2>1, <3>1 DEF AsListed, Standing, Entries, Active
    <3>2. CASE ~i.standing
      BY <1>8, <2>1, <3>2 DEF AsListed, Entries
    <3>. QED
      BY <2>1, <3>1, <3>2
  <2>3. PICK d \in feed : d.id = i.id /\ ~d.resolved /\ d.begin <= time
    BY <2>2
  <2>4. Listed(d) \in l.items /\ Listed(d).id = d.id /\ Listed(d).n = d
    BY DEF Listed
  <2>. HIDE DEF l
  <2>. QED
    BY <2>3, <2>4
<1>9. time \in 0..MaxTime /\ time - time <= Timeout
  BY <1>2, Spans DEF Published
<1>10. l.asked = time /\ l \in [items : SUBSET Items, asked : 0..MaxTime]
  BY <1>5, <1>9
<1>. HIDE DEF l
<1>11. /\ view \in Views /\ view.seen = poller[p].seen /\ view.polled = poller[p].polled
       /\ view.asked = poller[p].asked /\ view.listing = {l} /\ view.releasing = {}
  BY <1>1, <1>2, <1>10 DEF Views
<1>12. Lists(view, l)
  BY <1>5, <1>6, <1>8, <1>9, <1>10, <1>11, Spans DEF Lists, Published
<1>. HIDE DEF view
<1>13. Viewing(p)'
  <2>1. poller'[p] = view
    BY <1>1 DEF DowntimeInv
  <2>2. \A x : (AsListed(x)' <=> AsListed(x)) /\ (After(p, x)' <=> After(p, x))
    BY <1>1 DEF AsListed, Standing, Entries, After
  <2>3. \A v, x : Lists(v, x)' <=> Lists(v, x)
    BY <1>1, <2>2 DEF Lists
  <2>. QED
    BY <1>1, <1>2, <1>7, <1>11, <1>12, <2>1, <2>2, <2>3 DEF Viewing, OneEach
<1>. QED
  BY <1>1, <1>13, ViewStep DEF DowntimeInv, Published

LEMMA RejectedStep ==
    ASSUME DowntimeInv, NEW p \in Pollers,
           poller' = [poller EXCEPT ![p].listing = {}, ![p].failed = TRUE],
           UNCHANGED <<time, feed, spell, changes, restarts, announced, parked>>
    PROVE  DowntimeInv'
<1>. DEFINE view == [poller[p] EXCEPT !.listing = {}, !.failed = TRUE]
<1>1. poller' = [poller EXCEPT ![p] = view]
  OBVIOUS
<1>2. Viewing(p) /\ poller[p] \in Views
  BY DEF DowntimeInv, Viewing
<1>3. /\ view \in Views /\ view.seen = poller[p].seen /\ view.polled = poller[p].polled
      /\ view.asked = poller[p].asked /\ view.listing = {}
      /\ view.releasing = poller[p].releasing
  BY <1>2 DEF Views
<1>. HIDE DEF view
<1>4. Viewing(p)'
  <2>1. poller'[p] = view
    BY <1>1 DEF DowntimeInv
  <2>2. \A x : (AsListed(x)' <=> AsListed(x)) /\ (After(p, x)' <=> After(p, x))
    BY DEF AsListed, Standing, Entries, After
  <2>. QED
    BY <1>2, <1>3, <2>1, <2>2 DEF Viewing, OneEach
<1>. QED
  BY <1>1, <1>4, ViewStep DEF DowntimeInv, Published

\* What a listing that is not rejected makes of the view of a process.
Refreshes(p, l, present, release) ==
    /\ present = {i \in l.items : Active(i.n, time)}
    /\ \A r \in release : \E i \in poller[p].seen :
          /\ i.id \notin {a.id : a \in present}
          /\ r = [id |-> i.id, spell |-> i.spell, standing |-> i.standing,
                  ended |-> i.id \in {j.id : j \in {k \in l.items : \E e \in k.n.end : time > e}}]
    /\ release # {} => p \in Workers
    /\ poller' = [poller EXCEPT ![p] =
            [seen |-> present, polled |-> {time}, asked |-> {l.asked},
             failed |-> FALSE, listing |-> {}, releasing |-> release]]

LEMMA ListedStep ==
    ASSUME DowntimeInv, NEW p \in Pollers, NEW l \in poller[p].listing, NEW present, NEW release,
           Refreshes(p, l, present, release),
           UNCHANGED <<time, feed, spell, changes, restarts, announced, parked>>
    PROVE  DowntimeInv'
<1>. DEFINE over(id) == id \in {j.id : j \in {k \in l.items : \E e \in k.n.end : time > e}}
            view == [seen |-> present, polled |-> {time}, asked |-> {l.asked},
                     failed |-> FALSE, listing |-> {}, releasing |-> release]
<1>1. /\ Viewing(p) /\ poller[p] \in Views /\ time \in 0..MaxTime
      /\ spell \in [Notices -> Nat]
  BY DEF DowntimeInv, Viewing, Published
<1>2. /\ l.items \subseteq Items /\ l.asked \in 0..MaxTime /\ Lists(poller[p], l)
      /\ \A j \in l.items : After(p, j)
  BY <1>1 DEF Views, Viewing
<1>3. \A i \in poller[p].seen : i \in Items /\ AsListed(i) /\ After(p, i)
  BY <1>1 DEF Views, Viewing
<1>4. ASSUME NEW r \in release
      PROVE  \E i \in poller[p].seen :
               /\ i.id \notin {a.id : a \in present}
               /\ r.id = i.id /\ r.spell = i.spell /\ r.standing = i.standing
               /\ r.ended = over(i.id) /\ r \in Releases
  <2>1. PICK i \in poller[p].seen :
              /\ i.id \notin {a.id : a \in present}
              /\ r = [id |-> i.id, spell |-> i.spell, standing |-> i.standing,
                      ended |-> over(i.id)]
    BY DEF Refreshes
  <2>2. i.id \in Notices /\ i.spell \in Nat /\ i.standing \in BOOLEAN
    BY <1>3 DEF Items
  <2>3. over(i.id) \in BOOLEAN
    OBVIOUS
  <2>. HIDE DEF over
  <2>. QED
    BY <2>1, <2>2, <2>3 DEF Releases
<1>5. ASSUME NEW r \in release PROVE r.ended \/ r.spell < spell[r.id]
  <2>1. PICK i \in poller[p].seen :
           /\ i.id \notin {a.id : a \in present}
           /\ r.id = i.id /\ r.spell = i.spell /\ r.ended = over(i.id)
    BY <1>4
  <2>2. /\ i.id \in Notices /\ i.spell \in Nat /\ spell[i.id] \in Nat
        /\ i.spell <= spell[i.id]
    BY <1>1, <1>3 DEF Items, AsListed
  <2>3. CASE i.spell = spell[i.id]
    <3>1. PICK j \in l.items : j.id = i.id /\ ~j.n.resolved /\ j.n.begin <= time
      BY <1>2, <2>3 DEF Lists
    <3>2. ~Active(j.n, time)
      BY <2>1, <3>1 DEF Refreshes
    <3>3. \E e \in j.n.end : ~(time <= e)
      BY <3>1, <3>2 DEF Active
    <3>4. \A e \in j.n.end : e \in Nat
      BY <1>2, Spans DEF Items, Entities
    <3>5. \E e \in j.n.end : time > e
      BY <1>1, <3>3, <3>4, Spans
    <3>. QED
      BY <2>1, <3>1, <3>5
  <2>4. CASE i.spell # spell[i.id]
    BY <2>1, <2>2, <2>4
  <2>. QED
    BY <2>3, <2>4
<1>. HIDE DEF over
<1>6. \A r \in release : After(p, r) /\ \A i \in present : i.id # r.id
  <2>1. TAKE r \in release
  <2>2. PICK i \in poller[p].seen :
           /\ i.id \notin {a.id : a \in present} /\ r.id = i.id /\ r.spell = i.spell
    BY <1>4
  <2>. QED
    BY <1>3, <2>2 DEF After
<1>7. OneEach(release)
  <2>1. SUFFICES ASSUME NEW r \in release, NEW s \in release, r.id = s.id PROVE r = s
    BY DEF OneEach
  <2>2. PICK i \in poller[p].seen :
           /\ r.id = i.id /\ r.spell = i.spell /\ r.standing = i.standing
           /\ r.ended = over(i.id) /\ r \in Releases
    BY <1>4
  <2>3. PICK j \in poller[p].seen :
           /\ s.id = j.id /\ s.spell = j.spell /\ s.standing = j.standing
           /\ s.ended = over(j.id) /\ s \in Releases
    BY <1>4
  <2>4. i = j
    BY <1>1, <2>1, <2>2, <2>3 DEF Viewing, OneEach
  <2>. QED
    BY <2>2, <2>3, <2>4 DEF Releases
<1>8. \A i \in present : i \in l.items /\ i \in Items /\ AsListed(i) /\ After(p, i)
                         /\ ~i.n.resolved /\ i.n.begin <= time
  BY <1>2 DEF Lists, Active, Refreshes
<1>9. OneEach(present)
  BY <1>2, <1>8 DEF Lists, OneEach
<1>10. /\ view \in Views /\ view.seen = present /\ view.polled = {time} /\ view.asked = {l.asked}
       /\ view.listing = {} /\ view.releasing = release
  <2>1. release \subseteq Releases
    BY <1>4
  <2>. QED
    BY <1>1, <1>2, <1>8, <2>1 DEF Views
<1>. HIDE DEF view
<1>11. \E t, a \in 0..time : view.polled = {t} /\ view.asked = {a} /\ t - a <= Timeout
  <2>1. time \in 0..time /\ l.asked \in 0..time /\ time - l.asked <= Timeout
    BY <1>1, <1>2, Spans DEF Lists
  <2>. QED
    BY <1>10, <2>1
<1>12. Viewing(p)'
  <2>1. poller'[p] = view
    BY DEF DowntimeInv, view, Refreshes
  <2>2. \A x : (AsListed(x)' <=> AsListed(x)) /\ (After(p, x)' <=> After(p, x))
    BY DEF AsListed, Standing, Entries, After
  <2>. QED
    BY <1>5, <1>6, <1>7, <1>8, <1>9, <1>10, <1>11, <2>1, <2>2 DEF Viewing, Refreshes
<1>. QED
  BY <1>12, ViewStep DEF Refreshes, DowntimeInv, Published

LEMMA PollStep ==
    ASSUME DowntimeInv, NEW p \in Pollers, Poll(p)
    PROVE  DowntimeInv'
<1>1. PICK l \in poller[p].listing, answer \in {"list", "error", "null"} :
        LET items == IF answer = "list" THEN l.items ELSE {}
            present == {i \in items : Active(i.n, time)}
            resolved == {i \in poller[p].seen : i.id \notin {a.id : a \in present}}
            ended == {i.id : i \in {j \in items : \E e \in j.n.end : time > e}}
            release == {[id |-> i.id, spell |-> i.spell, standing |-> i.standing,
                        ended |-> i.id \in ended] : i \in resolved}
        IN  /\ poller' = IF Rejected(answer)
                         THEN [poller EXCEPT ![p].listing = {}, ![p].failed = TRUE]
                         ELSE [poller EXCEPT ![p] =
                                 [seen |-> present, polled |-> {time}, asked |-> {l.asked},
                                  failed |-> FALSE, listing |-> {},
                                  releasing |-> IF p \in Workers THEN release ELSE {}]]
            /\ UNCHANGED <<time, feed, spell, changes, restarts, announced, parked>>
  BY DEF Poll
<1>2. CASE Rejected(answer)
  BY <1>1, <1>2, RejectedStep
<1>3. CASE ~Rejected(answer)
  <2>1. answer = "list" /\ l \in poller[p].listing
    BY <1>1, <1>3 DEF Rejected
  <2>2. \E present, release : Refreshes(p, l, present, release)
    <3>. DEFINE over == {j.id : j \in {k \in l.items : \E e \in k.n.end : time > e}}
                active == {i \in l.items : Active(i.n, time)}
                all == {[id |-> i.id, spell |-> i.spell, standing |-> i.standing,
                         ended |-> i.id \in over] :
                        i \in {k \in poller[p].seen : k.id \notin {a.id : a \in active}}}
                some == IF p \in Workers THEN all ELSE {}
    <3>1. poller' = [poller EXCEPT ![p] =
                        [seen |-> active, polled |-> {time}, asked |-> {l.asked},
                         failed |-> FALSE, listing |-> {}, releasing |-> some]]
      BY <1>1, <1>3, <2>1
    <3>. HIDE DEF over
    <3>2. \A r \in some : \E i \in poller[p].seen :
              /\ i.id \notin {a.id : a \in active}
              /\ r = [id |-> i.id, spell |-> i.spell, standing |-> i.standing,
                      ended |-> i.id \in over]
      OBVIOUS
    <3>3. some # {} => p \in Workers
      OBVIOUS
    <3>4. active = {i \in l.items : Active(i.n, time)}
      OBVIOUS
    <3>. HIDE DEF active, some
    <3>5. Refreshes(p, l, active, some)
      BY <3>1, <3>2, <3>3, <3>4 DEF Refreshes, over
    <3>. QED
      BY <3>5
  <2>3. PICK present, release : Refreshes(p, l, present, release)
    BY <2>2
  <2>4. UNCHANGED <<time, feed, spell, changes, restarts, announced, parked>>
    BY <1>1
  <2>. QED
    BY <2>1, <2>3, <2>4, ListedStep
<1>. QED
  BY <1>2, <1>3

LEMMA AnnounceStep ==
    ASSUME DowntimeInv, NEW p \in Pollers, Announce(p)
    PROVE  DowntimeInv'
<1>1. PICK r \in poller[p].releasing :
        /\ announced' = announced \cup {[by |-> p, id |-> r.id, spell |-> r.spell, ended |-> r.ended]}
        /\ poller' = [poller EXCEPT ![p].releasing = @ \ {r}]
  BY DEF Announce
<1>. DEFINE view == [poller[p] EXCEPT !.releasing = @ \ {r}]
            new == [by |-> p, id |-> r.id, spell |-> r.spell, ended |-> r.ended]
<1>2. UNCHANGED <<time, feed, spell, changes, restarts, parked>>
  BY DEF Announce
<1>3. /\ Viewing(p) /\ poller[p] \in Views
      /\ announced \subseteq [by : Pollers, id : Notices, spell : Nat, ended : BOOLEAN]
      /\ \A a \in announced : ~a.ended => a.spell < spell[a.id]
  BY DEF DowntimeInv, Viewing
<1>4. poller' = [poller EXCEPT ![p] = view]
  BY <1>1
<1>5. /\ view \in Views /\ view.seen = poller[p].seen /\ view.polled = poller[p].polled
      /\ view.asked = poller[p].asked /\ view.listing = {}
      /\ view.releasing = poller[p].releasing \ {r} /\ p \in Workers
  BY <1>3 DEF Views, Viewing
<1>6. r \in Releases
  BY <1>3 DEF Views
<1>7. new \in [by : Pollers, id : Notices, spell : Nat, ended : BOOLEAN]
      /\ (~new.ended => new.spell < spell[new.id]) /\ new.id = r.id /\ new.by = p
  BY <1>3, <1>6 DEF Releases, Viewing
<1>8. announced' = announced \cup {new}
  BY <1>1
<1>. HIDE DEF view, new
<1>9. \A x : x.id # r.id /\ After(p, x) => After(p, x)'
  BY <1>7, <1>8 DEF After
<1>10. \A i \in view.seen : After(p, i)'
  BY <1>3, <1>5, <1>9 DEF Viewing
<1>11. \A s \in view.releasing : After(p, s)'
  BY <1>3, <1>5, <1>9 DEF Viewing, OneEach
<1>12. Viewing(p)'
  <2>1. poller'[p] = view
    BY <1>4 DEF DowntimeInv
  <2>2. \A x : AsListed(x)' <=> AsListed(x)
    BY <1>2 DEF AsListed, Standing, Entries
  <2>. QED
    BY <1>2, <1>3, <1>5, <1>10, <1>11, <2>1, <2>2 DEF Viewing, OneEach
<1>13. /\ announced' \subseteq [by : Pollers, id : Notices, spell : Nat, ended : BOOLEAN]
       /\ \A a \in announced' : ~a.ended => a.spell < spell[a.id]
       /\ \A a \in announced' \ announced : a.by = p
  BY <1>3, <1>7, <1>8
<1>. QED
  BY <1>2, <1>4, <1>12, <1>13, ViewStep DEF DowntimeInv, Published

LEMMA RestartStep ==
    ASSUME DowntimeInv, NEW p \in Pollers, Restart(p)
    PROVE  DowntimeInv'
<1>1. /\ restarts' = restarts + 1 /\ restarts < MaxRestarts
      /\ poller' = [poller EXCEPT ![p] = NewPoller]
      /\ announced' = {a \in announced : a.by # p}
      /\ UNCHANGED <<time, feed, spell, changes, parked>>
  BY DEF Restart
<1>2. restarts' \in 0..MaxRestarts
  BY <1>1, Spans DEF DowntimeInv, Published
<1>3. Viewing(p)'
  <2>1. poller'[p] = NewPoller
    BY <1>1 DEF DowntimeInv
  <2>. QED
    BY <2>1 DEF Viewing, Views, NewPoller, OneEach
<1>. QED
  BY <1>1, <1>2, <1>3, ViewStep DEF DowntimeInv, Published

\* Nothing that the views are about has changed.
LEMMA FallDueStep ==
    ASSUME DowntimeInv, parked' \subseteq Parked,
           UNCHANGED <<time, feed, spell, changes, restarts, poller, announced>>
    PROVE  DowntimeInv'
<1>1. \A x : AsListed(x)' <=> AsListed(x)
  BY DEF AsListed, Standing, Entries
<1>2. \A p, x : After(p, x)' <=> After(p, x)
  BY DEF After
<1>3. \A v, l : Lists(v, l)' <=> Lists(v, l)
  BY <1>1 DEF Lists
<1>4. \A p \in Pollers : Viewing(p)'
  BY <1>1, <1>2, <1>3 DEF DowntimeInv, Viewing
<1>. QED
  BY <1>4 DEF DowntimeInv, Published

LEMMA DowntimeStarts == DowntimeInit => DowntimeInv
<1>1. SUFFICES ASSUME DowntimeInit PROVE DowntimeInv
  OBVIOUS
<1>2. Published
  <2>1. 0 \in 0..MaxTime /\ 0 \in 0..MaxChanges /\ 0 \in 0..MaxRestarts
    BY Spans
  <2>2. spell \in [Notices -> Nat]
    BY <1>1 DEF DowntimeInit
  <2>. QED
    BY <1>1, <2>1, <2>2 DEF DowntimeInit, Published, OneEach
<1>3. ASSUME NEW p \in Pollers PROVE Viewing(p)
  <2>1. poller[p] = NewPoller
    BY <1>1 DEF DowntimeInit
  <2>2. /\ NewPoller.seen = {} /\ NewPoller.polled = {} /\ NewPoller.asked = {}
        /\ NewPoller.listing = {} /\ NewPoller.releasing = {} /\ NewPoller \in Views
    BY DEF NewPoller, Views
  <2>. QED
    BY <2>1, <2>2 DEF Viewing, OneEach
<1>. QED
  BY <1>1, <1>2, <1>3 DEF DowntimeInit, DowntimeInv

LEMMA DowntimeSteps == DowntimeInv /\ [DowntimeNext]_downtimeVars => DowntimeInv'
<1>1. SUFFICES ASSUME DowntimeInv, [DowntimeNext]_downtimeVars PROVE DowntimeInv'
  OBVIOUS
<1>2. CASE \E n \in Notices : Change(n)
  BY <1>1, <1>2, ChangeStep
<1>3. ASSUME NEW p \in Pollers, Ask(p) \/ Poll(p) \/ Announce(p) \/ Restart(p)
      PROVE  DowntimeInv'
  BY <1>1, <1>3, AskStep, PollStep, AnnounceStep, RestartStep
<1>4. CASE \E key \in parked : FallDue(key)
  BY <1>1, <1>4, FallDueStep DEF FallDue, DowntimeInv, Published
<1>5. CASE TimeGoes
  BY <1>1, <1>5, TimeStep
<1>6. CASE UNCHANGED downtimeVars
  BY <1>1, <1>6, FallDueStep DEF downtimeVars, DowntimeInv, Published
<1>. QED
  BY <1>1, <1>2, <1>3, <1>4, <1>5, <1>6 DEF DowntimeNext

LEMMA DowntimeHolds == DowntimeSpec => []DowntimeInv
  BY DowntimeStarts, DowntimeSteps, PTL DEF DowntimeSpec

LEMMA FreshViews == DowntimeInv => ReadyMeansFresh
<1>1. SUFFICES ASSUME DowntimeInv, NEW p \in Pollers, Ready(p), NEW s \in poller[p].asked
               PROVE  time - s <= StaleAfter + Timeout
  BY DEF ReadyMeansFresh
<1>2. Viewing(p) /\ time \in Nat
  BY <1>1, Spans DEF DowntimeInv, Published
<1>3. PICK t \in poller[p].polled : time - t <= StaleAfter
  BY <1>1 DEF Ready
<1>4. PICK u, a \in 0..time : poller[p].polled = {u} /\ poller[p].asked = {a} /\ u - a <= Timeout
  BY <1>2, <1>3 DEF Viewing
<1>5. u = t /\ a = s /\ u \in Nat /\ a \in Nat
  BY <1>1, <1>2, <1>3, <1>4
<1>. QED
  BY <1>2, <1>3, <1>4, <1>5, Spans

\* What a process announces is one of what it waited to announce: the poll is over.
LEMMA DueReleases ==
    DowntimeInv /\ [DowntimeNext]_downtimeVars =>
        \A p \in Pollers : restarts' = restarts =>
           \A r \in poller[p].releasing \ poller'[p].releasing : Sound(r, p)
<1>1. SUFFICES ASSUME DowntimeInv, NEW p \in Pollers, NEW r \in poller[p].releasing
               PROVE  Sound(r, p)
  OBVIOUS
<1>2. Viewing(p) /\ poller[p] \in Views
  BY <1>1 DEF DowntimeInv, Viewing
<1>3. r \in Releases /\ After(p, r) /\ (r.ended \/ r.spell < spell[r.id])
  BY <1>1, <1>2 DEF Viewing, Views
<1>4. r.spell \in Nat
  BY <1>3 DEF Releases
<1>5. [by |-> p, id |-> r.id, spell |-> r.spell, ended |-> FALSE] \notin announced
  <2>. DEFINE same == [by |-> p, id |-> r.id, spell |-> r.spell, ended |-> FALSE]
  <2>1. same.by = p /\ ~same.ended /\ same.id = r.id /\ same.spell = r.spell
    OBVIOUS
  <2>. HIDE DEF same
  <2>2. same \notin announced
    BY <1>3, <1>4, <2>1 DEF After
  <2>. QED
    BY <2>2 DEF same
<1>. QED
  BY <1>3, <1>5 DEF Sound

LEMMA DowntimeInvTyped == DowntimeInv => DowntimeTypeOK
<1>1. SUFFICES ASSUME DowntimeInv PROVE DowntimeTypeOK
  OBVIOUS
<1>2. ASSUME NEW p \in Pollers
      PROVE  /\ poller[p].seen \subseteq Items
             /\ \A l \in poller[p].listing : l.items \subseteq Items
             /\ poller[p].releasing # {} => p \in Workers
             /\ Cardinality(poller[p].polled) <= 1
  <2>1. Viewing(p) /\ poller[p] \in Views
    BY <1>1 DEF DowntimeInv, Viewing
  <2>2. Cardinality({}) = 0 /\ \A t : Cardinality({t}) = 1
    BY FS_EmptySet, FS_Singleton
  <2>3. poller[p].polled = {} \/ \E t : poller[p].polled = {t}
    BY <2>1 DEF Viewing
  <2>4. Cardinality(poller[p].polled) \in {0, 1}
    BY <2>2, <2>3
  <2>. QED
    BY <2>1, <2>4 DEF Views, Viewing
<1>. QED
  BY <1>1, <1>2 DEF DowntimeInv, Published, OneEach, DowntimeTypeOK

\* What a poller keeps is of the types named, in every state.
THEOREM DowntimeTyped == DowntimeSpec => []DowntimeTypeOK
  BY DowntimeHolds, DowntimeInvTyped, PTL

\* A process that calls itself ready has a fresh view; and whatever polls fail,
\* cross or are answered late, no release is announced for an outage that goes
\* on, nor twice for one spell of it.
THEOREM ReleasesInTime == DowntimeSpec => ReleasesAreDue
  BY DowntimeHolds, FreshViews, DueReleases, DowntimeTyped, PTL DEF ReleasesAreDue, DowntimeSpec

-----------------------------------------------------------------------------
(* Numbers *)

\* A property of some number is a property of a least one.
LEMMA LeastNatural ==
    ASSUME NEW S, S \subseteq Nat, S # {}
    PROVE  \E n \in S : \A m \in S : n <= m
<1>1. IsWellFoundedOn(OpToRel(<, Nat), Nat)
  BY NatLessThanWellFounded
<1>2. PICK n \in S : \A m \in S : ~(<<m, n>> \in OpToRel(<, Nat))
  BY <1>1, WFMin, Zenon
<1>3. \A m \in S : n <= m
  <2>1. SUFFICES ASSUME NEW m \in S PROVE n <= m
    OBVIOUS
  <2>2. m \in Nat /\ n \in Nat
    BY <2>1
  <2>3. ~(m < n)
    BY <1>2, <2>1, <2>2 DEF OpToRel
  <2> QED BY <2>2, <2>3
<1> QED BY <1>3

-----------------------------------------------------------------------------
(* The lines of a file *)

FileOK(f) == f \in [size : {"plain", "large"}, lines : Seq(FileLines)]

LEMMA FirstOf ==
    ASSUME NEW S, S \subseteq Nat, S # {}
    PROVE  Min(S) \in S /\ \A y \in S : Min(S) <= y
<1>1. \E x \in S : \A y \in S : x =< y
  BY LeastNatural, Zenon
<1>2. Min(S) = CHOOSE x \in S : \A y \in S : x =< y
  BY Zenon DEF Min
<1> QED BY <1>1, <1>2, Zenon

LEMMA LastOf ==
    ASSUME NEW n \in Nat, NEW S, S \subseteq 1..n, S # {}
    PROVE  Max(S) \in S
<1> DEFINE D == {n - x : x \in S}
<1>1. D \subseteq Nat /\ D # {}
  <2>1. \A x \in S : n - x \in Nat
    OBVIOUS
  <2>2. D # {}
    OBVIOUS
  <2> QED BY <2>1, <2>2
<1>2. PICK d \in D : \A e \in D : d <= e
  BY <1>1, LeastNatural, Zenon
<1>3. PICK x \in S : d = n - x
  BY <1>2
<1>4. \A y \in S : x >= y
  <2>1. SUFFICES ASSUME NEW y \in S PROVE x >= y
    OBVIOUS
  <2>2. n - y \in D
    OBVIOUS
  <2>3. n - x <= n - y
    BY <1>2, <1>3, <2>2
  <2> QED BY <2>3
<1>5. Max(S) = CHOOSE x1 \in S : \A y \in S : x1 >= y
  BY Zenon DEF Max
<1> QED BY <1>4, <1>5, Zenon

LEMMA BadLinesFinite ==
    ASSUME NEW f, FileOK(f)
    PROVE  /\ Len(f.lines) \in Nat /\ DOMAIN f.lines = 1..Len(f.lines)
           /\ BadLines(f) \subseteq 1..Len(f.lines)
           /\ IsFiniteSet(BadLines(f)) /\ Cardinality(BadLines(f)) \in Nat
           /\ BadLines(f) # {} => Min(BadLines(f)) \in BadLines(f)
<1>1. Len(f.lines) \in Nat /\ DOMAIN f.lines = 1..Len(f.lines)
  BY DEF FileOK
<1>2. BadLines(f) \subseteq 1..Len(f.lines)
  BY <1>1 DEF BadLines
<1>3. IsFiniteSet(1..Len(f.lines))
  <2>1. 1 \in Int /\ Len(f.lines) \in Int
    BY <1>1
  <2> QED BY <2>1, FS_Interval, Zenon
<1>4. IsFiniteSet(BadLines(f))
  BY <1>2, <1>3, FS_Subset, Zenon
<1>5. Cardinality(BadLines(f)) \in Nat
  BY <1>4, FS_CardinalityType
<1>6. BadLines(f) # {} => Min(BadLines(f)) \in BadLines(f)
  <2>1. BadLines(f) \subseteq Nat
    BY <1>1, <1>2
  <2> QED BY <2>1, FirstOf
<1> QED BY <1>1, <1>2, <1>4, <1>5, <1>6

LEMMA FileValueWritten ==
    ASSUME NEW f, FileOK(f), NEW k
    PROVE  FileValue(f, k) \in Written
<1> DEFINE own == {n \in DOMAIN f.lines : Ours(f.lines[n]) /\ f.lines[n].key = k}
<1>1. Len(f.lines) \in Nat /\ DOMAIN f.lines = 1..Len(f.lines)
  BY DEF FileOK
<1>2. CASE own = {}
  <2>1. FileValue(f, k) = Absent
    BY <1>2 DEF FileValue
  <2> QED BY <2>1, SettingsConstants
<1>3. CASE own # {}
  <2>1. FileValue(f, k) = f.lines[Max(own)].value
    BY <1>3 DEF FileValue
  <2>2. own \subseteq 1..Len(f.lines)
    BY <1>1
  <2>3. Max(own) \in own
    BY <1>1, <1>3, <2>2, LastOf, Zenon
  <2>4. PICK n \in 1..Len(f.lines) : n = Max(own)
    BY <2>2, <2>3
  <2>5. f.lines[n] \in FileLines
    BY <2>4 DEF FileOK
  <2>6. f.lines[n].value \in Written
    BY <2>5 DEF FileLines
  <2> QED BY <2>1, <2>4, <2>6
<1> QED BY <1>2, <1>3

\* A bad line removed is one bad line less.
LEMMA LineRemoved ==
    ASSUME NEW f, FileOK(f), BadLines(f) # {}, NEW g,
           g = [f EXCEPT !.lines = Without(f.lines, Min(BadLines(f)))]
    PROVE  /\ FileOK(g) /\ g.size = f.size
           /\ Cardinality(BadLines(g)) <= Cardinality(BadLines(f)) - 1
<1>1. PICK bad : bad = BadLines(f)
  OBVIOUS
<1>2. PICK n : n = Min(bad)
  OBVIOUS
<1>3. PICK s \in Seq(FileLines) : s = f.lines
  BY DEF FileOK
<1>4. PICK l \in Nat : l = Len(s) /\ DOMAIN s = 1..l
  BY <1>3
<1>5. bad \subseteq 1..l /\ IsFiniteSet(bad) /\ Cardinality(bad) \in Nat /\ n \in bad
  BY <1>1, <1>2, <1>3, <1>4, BadLinesFinite
<1>6. n \in 1..l
  BY <1>5
<1>7. PICK w : w = Without(s, n)
  OBVIOUS
<1>8. w = [m \in 1..(l - 1) |-> IF m < n THEN s[m] ELSE s[m + 1]]
  BY <1>4, <1>7 DEF Without
<1>9. w \in Seq(FileLines) /\ DOMAIN w = 1..(l - 1)
  <2>1. \A m \in 1..l : s[m] \in FileLines
    BY <1>3, <1>4
  <2>2. \A m \in 1..(l - 1) : (IF m < n THEN s[m] ELSE s[m + 1]) \in FileLines
    <3>1. SUFFICES ASSUME NEW m \in 1..(l - 1) PROVE (IF m < n THEN s[m] ELSE s[m + 1]) \in FileLines
      OBVIOUS
    <3>2. m \in 1..l /\ m + 1 \in 1..l
      BY <1>6
    <3> QED BY <2>1, <3>2
  <2>3. l - 1 \in Nat
    BY <1>6
  <2>4. ASSUME NEW m \in Nat, NEW S, NEW e, \A i \in 1..m : e[i] \in S, e = [i \in 1..m |-> e[i]]
        PROVE  e \in Seq(S)
    BY <2>4
  <2>5. \A i \in 1..(l - 1) : w[i] \in FileLines
    BY <1>8, <2>2
  <2>6. w = [i \in 1..(l - 1) |-> w[i]]
    BY <1>8
  <2> QED BY <2>3, <2>4, <2>5, <2>6, <1>8
<1>10. FileOK(g) /\ g.size = f.size /\ g.lines = w
  BY <1>1, <1>2, <1>3, <1>7, <1>9 DEF FileOK
<1>11. PICK rest : rest = bad \ {n}
  OBVIOUS
<1>12. IsFiniteSet(rest) /\ Cardinality(rest) = Cardinality(bad) - 1
  BY <1>5, <1>11, FS_RemoveElement
<1> DEFINE Down == [m \in rest |-> m - 1]
           worse == {Down[m] : m \in rest}
<1>13. Down \in Surjection(rest, worse)
  BY DEF Surjection
<1>14. IsFiniteSet(worse) /\ Cardinality(worse) <= Cardinality(rest)
  BY <1>12, <1>13, FS_Surjection
<1>15. BadLines(g) \subseteq worse
  <2>1. SUFFICES ASSUME NEW m \in BadLines(g) PROVE m \in worse
    OBVIOUS
  <2>2. m \in 1..(l - 1) /\ Refused(w[m])
    BY <1>9, <1>10 DEF BadLines
  <2>3. CASE m < n
    <3>1. w[m] = s[m] /\ m \in 1..l
      BY <1>8, <2>2, <2>3
    <3>2. m \in bad
      BY <1>1, <1>3, <1>4, <2>2, <3>1 DEF BadLines
    <3>3. n <= m
      <4>1. bad \subseteq Nat
        BY <1>5
      <4> QED BY <1>2, <3>2, <4>1, FirstOf
    <3> QED BY <2>2, <2>3, <3>3, <1>6
  <2>4. CASE ~(m < n)
    <3>1. w[m] = s[m + 1] /\ m + 1 \in 1..l /\ m + 1 # n
      BY <1>6, <1>8, <2>2, <2>4
    <3>2. m + 1 \in bad
      BY <1>1, <1>3, <1>4, <2>2, <3>1 DEF BadLines
    <3>3. m + 1 \in rest /\ Down[m + 1] = m
      BY <1>11, <2>2, <3>1, <3>2
    <3> QED BY <3>3
  <2> QED BY <2>3, <2>4
<1>16. Cardinality(BadLines(g)) <= Cardinality(worse)
  BY <1>14, <1>15, FS_Subset
<1>17. Cardinality(BadLines(g)) \in Nat /\ Cardinality(worse) \in Nat
  BY <1>10, <1>14, BadLinesFinite, FS_CardinalityType
<1> HIDE DEF worse
<1> QED BY <1>1, <1>5, <1>10, <1>12, <1>14, <1>16, <1>17

-----------------------------------------------------------------------------
(* A configuration that passed is complete *)

LEMMA DerivedIs ==
    ASSUME NEW c, NEW X, c \in [Names -> X]
    PROVE  LET d == Derived(c)
           IN  /\ d = [k \in Names |-> d[k]]
               /\ d["mode"] = Lowered(c["mode"])
               /\ d["endpoint"] = IF c["endpoint"] # Unset THEN c["endpoint"]
                                  ELSE IF c["provider"] \in DOMAIN EndpointOf
                                       THEN EndpointOf[c["provider"]] ELSE Unset
               /\ d["pay"] = IF c["pay"] # Unset THEN c["pay"]
                             ELSE IF c["sim"] \in HostPorts THEN BaseOf[c["sim"]] ELSE Unset
               /\ \A k \in Names \ {"mode", "endpoint", "pay"} : d[k] = c[k]
<1> DEFINE n == [c EXCEPT !["mode"] = Lowered(c["mode"])]
<1>0. Derived(c) = [n EXCEPT
            !["endpoint"] = IF n["endpoint"] # Unset THEN n["endpoint"]
                            ELSE IF n["provider"] \in DOMAIN EndpointOf
                                 THEN EndpointOf[n["provider"]] ELSE Unset,
            !["pay"] = IF n["pay"] # Unset THEN n["pay"]
                       ELSE IF n["sim"] \in HostPorts THEN BaseOf[n["sim"]] ELSE Unset]
  BY Zenon DEF Derived
<1>1. {"mode", "endpoint", "pay", "provider", "sim"} \subseteq Names
  BY DEF Names, Texts
<1>2. PICK m : m = Lowered(c["mode"])
  OBVIOUS
<1>3. n = [c EXCEPT !["mode"] = m]
  BY <1>2
<1> HIDE DEF n
<1>4. PICK e : e = IF n["endpoint"] # Unset THEN n["endpoint"]
                   ELSE IF n["provider"] \in DOMAIN EndpointOf
                        THEN EndpointOf[n["provider"]] ELSE Unset
  OBVIOUS
<1>5. PICK p : p = IF n["pay"] # Unset THEN n["pay"]
                   ELSE IF n["sim"] \in HostPorts THEN BaseOf[n["sim"]] ELSE Unset
  OBVIOUS
<1>6. PICK d : d = [[n EXCEPT !["endpoint"] = e] EXCEPT !["pay"] = p]
  OBVIOUS
<1>7. n = [k \in Names |-> IF k = "mode" THEN m ELSE c[k]]
  BY <1>1, <1>3
<1>8. d = [k \in Names |-> IF k = "pay" THEN p ELSE IF k = "endpoint" THEN e ELSE n[k]]
  BY <1>1, <1>6, <1>7
<1>9. Derived(c) = d
  <2>1. [n EXCEPT !["endpoint"] = e, !["pay"] = p] = d
    BY <1>1, <1>6, <1>7, <1>8
  <2>2. Derived(c) = [n EXCEPT !["endpoint"] = e, !["pay"] = p]
    BY <1>0, <1>4, <1>5, Zenon
  <2> QED BY <2>1, <2>2
<1>10. n["endpoint"] = c["endpoint"] /\ n["provider"] = c["provider"] /\ n["pay"] = c["pay"] /\ n["sim"] = c["sim"]
  BY <1>1, <1>7
<1> QED BY <1>1, <1>2, <1>4, <1>5, <1>7, <1>8, <1>9, <1>10

\* What is wrong with a configuration, variable by variable.
LEMMA MisfitsAre ==
    ASSUME NEW c
    PROVE  /\ Misfits(c) \subseteq Names
           /\ \A k \in Numbers : k \in Misfits(c) <=> c[k] \notin Bounds[k]
           /\ "mode" \in Misfits(c) <=> c["mode"] \notin {Managed, External}
           /\ "provider" \in Misfits(c) <=> c["provider"] \notin DOMAIN EndpointOf \cup {NoProvider}
           /\ "sim" \in Misfits(c) <=> c["sim"] \notin HostPorts
           /\ "pay" \in Misfits(c) <=> c["pay"] \notin URLs
           /\ "endpoint" \in Misfits(c) <=> c["provider"] # NoProvider /\ c["endpoint"] \notin URLs
           /\ \A k \in {"secret", "dsn", "token"} :
                 k \in Misfits(c) <=> c["mode"] = External /\ c[k] = Unset
  BY DEF Misfits, Names, Texts, Numbers

\* What passes the checks still passes them, unchanged, once it is completed.
LEMMA CompletedIsSane ==
    ASSUME NEW X, NEW p \in [Names -> X], Misfits(Derived(p)) = {}, NEW c,
           c = GenerateIfUnset(Derived(p))
    PROVE  /\ Validate(c) = [config |-> c, errs |-> {}]
           /\ c["secret"] # Unset /\ c["token"] # Unset
           /\ c["mode"] = External => c["dsn"] # Unset /\ c["secret"] = p["secret"] /\ c["token"] = p["token"]
           /\ p["pay"] = Unset => c["pay"] = BaseOf[c["sim"]]
           /\ LiveInferenceEnabled(c) => c["endpoint"] \in URLs
<1>1. PICK d : d = Derived(p)
  OBVIOUS
<1>2. /\ d = [k \in Names |-> d[k]]
      /\ d["mode"] = Lowered(p["mode"])
      /\ d["endpoint"] = IF p["endpoint"] # Unset THEN p["endpoint"]
                         ELSE IF p["provider"] \in DOMAIN EndpointOf
                              THEN EndpointOf[p["provider"]] ELSE Unset
      /\ d["pay"] = IF p["pay"] # Unset THEN p["pay"]
                    ELSE IF p["sim"] \in HostPorts THEN BaseOf[p["sim"]] ELSE Unset
      /\ \A k \in Names \ {"mode", "endpoint", "pay"} : d[k] = p[k]
  BY <1>1, DerivedIs, Zenon
<1>3. Misfits(d) = {}
  BY <1>1
<1>4. /\ \A k \in Numbers : d[k] \in Bounds[k]
      /\ d["mode"] \in {Managed, External}
      /\ d["provider"] \in DOMAIN EndpointOf \cup {NoProvider}
      /\ d["sim"] \in HostPorts /\ d["pay"] \in URLs
      /\ d["provider"] # NoProvider => d["endpoint"] \in URLs
      /\ \A k \in {"secret", "dsn", "token"} : d["mode"] = External => d[k] # Unset
  <2>1. \A k : k \notin Misfits(d)
    BY <1>3
  <2> QED BY <2>1, MisfitsAre
<1>5. {"mode", "endpoint", "pay", "provider", "sim", "secret", "token", "dsn"} \subseteq Names /\ Numbers \subseteq Names
  BY DEF Names, Texts
<1>6. c = IF d["mode"] # Managed THEN d
          ELSE [k \in Names |-> IF k \in {"secret", "token"} /\ d[k] = Unset THEN Minted ELSE d[k]]
  BY <1>1 DEF GenerateIfUnset
<1>7. c = [k \in Names |-> IF d["mode"] = Managed /\ k \in {"secret", "token"} /\ d[k] = Unset
                             THEN Minted ELSE d[k]]
  BY <1>2, <1>6
<1>8. /\ \A k \in Names \ {"secret", "token"} : c[k] = d[k]
      /\ \A k \in {"secret", "token"} : c[k] = IF d["mode"] = Managed /\ d[k] = Unset THEN Minted ELSE d[k]
  BY <1>5, <1>7
<1>9. /\ c["mode"] = d["mode"] /\ c["provider"] = d["provider"] /\ c["sim"] = d["sim"]
      /\ c["pay"] = d["pay"] /\ c["endpoint"] = d["endpoint"] /\ c["dsn"] = d["dsn"]
      /\ \A k \in Numbers : c[k] = d[k]
  BY <1>5, <1>8 DEF Numbers
<1>10. Minted # Unset /\ Managed # External
  BY SettingsConstants DEF Written, Managed, External
<1>11. c["secret"] # Unset /\ c["token"] # Unset
  BY <1>4, <1>8, <1>10
<1>12. PICK d2 : d2 = Derived(c)
  OBVIOUS
<1>13. PICK Y : c \in [Names -> Y]
  <2>1. c \in [Names -> {c[k] : k \in Names}]
    BY <1>7
  <2> QED BY <2>1
<1>14. /\ d2 = [k \in Names |-> d2[k]]
       /\ d2["mode"] = Lowered(c["mode"])
       /\ d2["endpoint"] = IF c["endpoint"] # Unset THEN c["endpoint"]
                          ELSE IF c["provider"] \in DOMAIN EndpointOf
                               THEN EndpointOf[c["provider"]] ELSE Unset
       /\ d2["pay"] = IF c["pay"] # Unset THEN c["pay"]
                     ELSE IF c["sim"] \in HostPorts THEN BaseOf[c["sim"]] ELSE Unset
       /\ \A k \in Names \ {"mode", "endpoint", "pay"} : d2[k] = c[k]
  BY <1>12, <1>13, DerivedIs, Zenon
<1>15. d2["mode"] = c["mode"]
  BY <1>4, <1>9, <1>14 DEF Lowered, Managed, External
<1>16. d2["endpoint"] = c["endpoint"]
  <2>1. d["provider"] = p["provider"]
    BY <1>2, <1>5
  <2> QED BY <1>2, <1>9, <1>14, <2>1
<1>17. d2["pay"] = c["pay"]
  <2>1. d["sim"] = p["sim"]
    BY <1>2, <1>5
  <2> QED BY <1>2, <1>9, <1>14, <2>1
<1>18. \A k \in Names : d2[k] = c[k]
  BY <1>14, <1>15, <1>16, <1>17
<1>19. d2 = c
  BY <1>7, <1>14, <1>18
<1>20. Misfits(c) = {}
  <2>1. ASSUME NEW k \in Misfits(c) PROVE FALSE
    <3>1. k \in Names
      BY MisfitsAre
    <3>2. k \notin Numbers
      BY <1>4, <1>9, MisfitsAre
    <3>3. k \notin {"mode", "provider", "sim", "pay", "endpoint"}
      BY <1>4, <1>9, MisfitsAre
    <3>4. k \notin {"secret", "dsn", "token"}
      BY <1>4, <1>9, <1>11, <1>5, MisfitsAre
    <3> QED BY <3>1, <3>2, <3>3, <3>4 DEF Names, Texts
  <2> QED BY <2>1
<1>21. GenerateIfUnset(c) = c
  <2>1. \A k \in Names : (IF k \in {"secret", "token"} /\ c[k] = Unset THEN Minted ELSE c[k]) = c[k]
    BY <1>11
  <2>2. c = [k \in Names |-> c[k]]
    BY <1>7
  <2>3. [k \in Names |-> IF k \in {"secret", "token"} /\ c[k] = Unset THEN Minted ELSE c[k]] = c
    BY <2>1, <2>2
  <2> QED BY <2>3 DEF GenerateIfUnset
<1>22. Validate(c) = [config |-> c, errs |-> {}]
  <2>1. Derived(c) = c
    BY <1>12, <1>19
  <2>2. {<<k, 1>> : k \in Misfits(c)} = {}
    BY <1>20
  <2>3. Validate(c) = [config |-> GenerateIfUnset(Derived(c)), errs |-> {<<k, 1>> : k \in Misfits(Derived(c))}]
    BY Zenon DEF Validate
  <2> QED BY <2>1, <2>2, <2>3, <1>21
<1>23. c["mode"] = External => c["dsn"] # Unset /\ c["secret"] = p["secret"] /\ c["token"] = p["token"]
  BY <1>2, <1>4, <1>5, <1>8, <1>9, <1>10
<1>24. p["pay"] = Unset => c["pay"] = BaseOf[c["sim"]]
  BY <1>2, <1>4, <1>5, <1>9
<1>25. LiveInferenceEnabled(c) => c["endpoint"] \in URLs
  BY <1>4, <1>9 DEF LiveInferenceEnabled
<1> QED BY <1>11, <1>22, <1>23, <1>24, <1>25

-----------------------------------------------------------------------------
(* What a start finds, and what a repair leaves to find *)

\* The values a start reads.
LEMMA ValuesRead ==
    ASSUME NEW env \in [Names -> Written], NEW f, FileOK(f)
    PROVE  LET vs == WithDotEnv(env, f)
           IN  /\ vs \in [Names -> Written]
               /\ \A k \in Names : vs[k] = IF env[k] # Absent THEN env[k] ELSE FileValue(f, k)
               /\ \E X : Parsed(vs) \in [Names -> X]
               /\ \A k \in Names : Parsed(vs)[k] =
                     IF ~Found(vs[k]) \/ Unreadable(k, vs[k]) THEN Default[k]
                     ELSE IF k \in Numbers THEN Number[vs[k]] ELSE vs[k]
<1>1. PICK vs : vs = WithDotEnv(env, f)
  OBVIOUS
<1>2. vs = [k \in Names |-> IF env[k] # Absent THEN env[k] ELSE FileValue(f, k)]
  BY <1>1 DEF WithDotEnv
<1>3. \A k \in Names : env[k] \in Written /\ FileValue(f, k) \in Written
  BY FileValueWritten
<1>4. vs \in [Names -> Written]
  BY <1>2, <1>3
<1>5. PICK p : p = Parsed(vs)
  OBVIOUS
<1>6. p = [k \in Names |->
        IF ~Found(vs[k]) \/ Unreadable(k, vs[k]) THEN Default[k]
        ELSE IF k \in Numbers THEN Number[vs[k]] ELSE vs[k]]
  BY <1>5 DEF Parsed
<1>7. p \in [Names -> {p[k] : k \in Names}]
  BY <1>6
<1> QED BY <1>1, <1>2, <1>4, <1>5, <1>6, <1>7

\* Without a parse error, every value found is read as it stands.
LEMMA ParsedWhole ==
    ASSUME NEW vs \in [Names -> Written], ParseErrors(vs) = {}, NEW k \in Names
    PROVE  /\ ~Screened(vs[k])
           /\ Parsed(vs)[k] = IF vs[k] \in {Absent, Unset} THEN Default[k]
                              ELSE IF k \in Numbers THEN Number[vs[k]] ELSE vs[k]
<1>1. <<k, 1>> \notin ParseErrors(vs)
  OBVIOUS
<1>2. ~Screened(vs[k]) /\ ~Unreadable(k, vs[k])
  BY <1>1 DEF ParseErrors
<1> QED BY <1>2 DEF Parsed, Found

\* A value repaired is read as the good one.
LEMMA GoodIsRead ==
    ASSUME NEW vs \in [Names -> Written], NEW k \in Names, vs[k] = Good[k]
    PROVE  /\ ~Screened(vs[k]) /\ ~Unreadable(k, vs[k])
           /\ Parsed(vs)[k] = IF k \in Numbers THEN Number[Good[k]] ELSE Good[k]
<1>1. Found(vs[k])
  BY GoodAssumption
<1>2. ~Unreadable(k, vs[k])
  BY GoodAssumption DEF Unreadable
<1> QED BY <1>1, <1>2 DEF Parsed, Found

\* What the checks find once every misfit is set right: credentials at most,
\* and nothing if it was credentials they found.
LEMMA MisfitsSetRight ==
    ASSUME NEW X, NEW p \in [Names -> X], NEW Y, NEW q \in [Names -> Y], NEW m,
           m = Misfits(Derived(p)),
           \A k \in Names : q[k] = IF k \notin m THEN p[k]
                                   ELSE IF k \in Numbers THEN Number[Good[k]] ELSE Good[k]
    PROVE  /\ Misfits(Derived(q)) \subseteq {"secret", "dsn", "token"}
           /\ m \subseteq {"secret", "dsn", "token"} => Misfits(Derived(q)) = {}
<1>1. PICK d, e : d = Derived(p) /\ e = Derived(q)
  OBVIOUS
<1>2. /\ d["mode"] = Lowered(p["mode"])
      /\ d["endpoint"] = IF p["endpoint"] # Unset THEN p["endpoint"]
                         ELSE IF p["provider"] \in DOMAIN EndpointOf
                              THEN EndpointOf[p["provider"]] ELSE Unset
      /\ d["pay"] = IF p["pay"] # Unset THEN p["pay"]
                    ELSE IF p["sim"] \in HostPorts THEN BaseOf[p["sim"]] ELSE Unset
      /\ \A k \in Names \ {"mode", "endpoint", "pay"} : d[k] = p[k]
  BY <1>1, DerivedIs, Zenon
<1>3. /\ e["mode"] = Lowered(q["mode"])
      /\ e["endpoint"] = IF q["endpoint"] # Unset THEN q["endpoint"]
                         ELSE IF q["provider"] \in DOMAIN EndpointOf
                              THEN EndpointOf[q["provider"]] ELSE Unset
      /\ e["pay"] = IF q["pay"] # Unset THEN q["pay"]
                    ELSE IF q["sim"] \in HostPorts THEN BaseOf[q["sim"]] ELSE Unset
      /\ \A k \in Names \ {"mode", "endpoint", "pay"} : e[k] = q[k]
  BY <1>1, DerivedIs, Zenon
<1>4. /\ {"mode", "endpoint", "pay", "provider", "sim", "secret", "token", "dsn"} \subseteq Names
      /\ Numbers \subseteq Names
      /\ Numbers \cap {"mode", "endpoint", "pay", "provider", "sim", "secret", "token", "dsn"} = {}
  BY DEF Names, Texts, Numbers
<1>5. m = Misfits(d)
  BY <1>1
<1>6. \A k \in {"mode", "endpoint", "pay", "provider", "sim", "secret", "token", "dsn"} :
         q[k] = IF k \in m THEN Good[k] ELSE p[k]
  BY <1>4
<1>7. Unset \notin URLs /\ Good["endpoint"] # Unset /\ Good["pay"] # Unset
      /\ \A k \in {"secret", "dsn", "token"} : Good[k] # Unset
  BY <1>4, SettingsConstants, GoodAssumption DEF Found
<1>8. \A k \in Numbers : k \notin Misfits(e)
  <2>1. SUFFICES ASSUME NEW k \in Numbers PROVE e[k] \in Bounds[k]
    BY MisfitsAre
  <2>2. e[k] = q[k] /\ d[k] = p[k]
    BY <1>2, <1>3, <1>4
  <2>3. CASE k \in m
    <3>1. q[k] = Number[Good[k]]
      BY <2>3, <1>4
    <3> QED BY <3>1, <2>2, GoodAssumption
  <2>4. CASE k \notin m
    <3>1. q[k] = p[k] /\ d[k] \in Bounds[k]
      BY <2>4, <1>4, <1>5, MisfitsAre
    <3> QED BY <3>1, <2>2
  <2> QED BY <2>3, <2>4
<1>9. "mode" \notin Misfits(e) /\ ("mode" \notin m => e["mode"] = d["mode"])
  <2>1. CASE "mode" \in m
    <3>1. q["mode"] = Good["mode"]
      BY <2>1, <1>6
    <3> QED BY <2>1, <3>1, <1>3, GoodAssumption, MisfitsAre
  <2>2. CASE "mode" \notin m
    <3>1. q["mode"] = p["mode"] /\ d["mode"] \in {Managed, External}
      BY <2>2, <1>5, <1>6, MisfitsAre
    <3> QED BY <3>1, <1>2, <1>3, MisfitsAre
  <2> QED BY <2>1, <2>2
<1>10. "provider" \notin Misfits(e)
  <2>1. e["provider"] = q["provider"] /\ d["provider"] = p["provider"]
    BY <1>2, <1>3, <1>4
  <2>2. CASE "provider" \in m
    BY <2>1, <2>2, <1>6, GoodAssumption, MisfitsAre
  <2>3. CASE "provider" \notin m
    BY <2>1, <2>3, <1>5, <1>6, MisfitsAre
  <2> QED BY <2>2, <2>3
<1>11. "sim" \notin Misfits(e)
  <2>1. e["sim"] = q["sim"] /\ d["sim"] = p["sim"]
    BY <1>2, <1>3, <1>4
  <2>2. CASE "sim" \in m
    BY <2>1, <2>2, <1>6, GoodAssumption, MisfitsAre
  <2>3. CASE "sim" \notin m
    BY <2>1, <2>3, <1>5, <1>6, MisfitsAre
  <2> QED BY <2>2, <2>3
<1>12. "pay" \notin Misfits(e)
  <2>1. CASE "pay" \in m
    <3>1. q["pay"] = Good["pay"]
      BY <2>1, <1>6
    <3>2. e["pay"] \in URLs
      BY <3>1, <1>3, <1>7, GoodAssumption
    <3> QED BY <3>2, MisfitsAre
  <2>2. CASE "pay" \notin m
    <3>1. q["pay"] = p["pay"] /\ d["pay"] \in URLs
      BY <2>2, <1>5, <1>6, MisfitsAre
    <3>2. CASE p["pay"] # Unset
      <4>1. e["pay"] = d["pay"]
        BY <3>1, <3>2, <1>2, <1>3
      <4> QED BY <3>1, <4>1, MisfitsAre
    <3>3. CASE p["pay"] = Unset
      <4>1. p["sim"] \in HostPorts
        BY <3>1, <3>3, <1>2, <1>7
      <4>2. d["sim"] = p["sim"]
        BY <1>2, <1>4
      <4>3. "sim" \notin m
        BY <4>1, <4>2, <1>5, MisfitsAre
      <4>4. q["sim"] = p["sim"]
        BY <4>3, <1>6
      <4>5. e["pay"] = d["pay"]
        BY <3>1, <3>3, <4>4, <1>2, <1>3
      <4> QED BY <3>1, <4>5, MisfitsAre
    <3> QED BY <3>2, <3>3
  <2> QED BY <2>1, <2>2
<1>13. "endpoint" \notin Misfits(e)
  <2>0. e["provider"] = q["provider"] /\ d["provider"] = p["provider"]
    BY <1>2, <1>3, <1>4
  <2>1. CASE "endpoint" \in m
    <3>1. q["endpoint"] = Good["endpoint"]
      BY <2>1, <1>6
    <3>2. e["endpoint"] \in URLs
      BY <3>1, <1>3, <1>7, GoodAssumption
    <3> QED BY <3>2, MisfitsAre
  <2>2. CASE "endpoint" \notin m
    <3>1. q["endpoint"] = p["endpoint"] /\ (d["provider"] = NoProvider \/ d["endpoint"] \in URLs)
      BY <2>2, <1>5, <1>6, MisfitsAre
    <3>2. CASE "provider" \notin m
      <4>1. q["provider"] = p["provider"]
        BY <3>2, <1>6
      <4>2. e["endpoint"] = d["endpoint"] /\ e["provider"] = d["provider"]
        BY <3>1, <4>1, <2>0, <1>2, <1>3
      <4> QED BY <3>1, <4>2, MisfitsAre
    <3>3. CASE "provider" \in m
      <4>1. d["provider"] \notin DOMAIN EndpointOf \cup {NoProvider}
        BY <3>3, <1>5, MisfitsAre
      <4>2. d["endpoint"] \in URLs /\ p["provider"] \notin DOMAIN EndpointOf
        BY <3>1, <4>1, <2>0
      <4>3. p["endpoint"] # Unset
        BY <4>2, <1>2, <1>7
      <4>4. e["endpoint"] = d["endpoint"]
        BY <3>1, <4>3, <1>2, <1>3
      <4> QED BY <4>2, <4>4, MisfitsAre
    <3> QED BY <3>2, <3>3
  <2> QED BY <2>1, <2>2
<1>14. Misfits(e) \subseteq {"secret", "dsn", "token"}
  <2>1. Misfits(e) \subseteq Names
    BY MisfitsAre
  <2> QED BY <2>1, <1>8, <1>9, <1>10, <1>11, <1>12, <1>13 DEF Names, Texts
<1>15. ASSUME m \subseteq {"secret", "dsn", "token"} PROVE Misfits(e) = {}
  <2>1. e["mode"] = d["mode"]
    BY <1>15, <1>9
  <2>2. ASSUME NEW k \in {"secret", "dsn", "token"}, k \in Misfits(e) PROVE FALSE
    <3>1. e["mode"] = External /\ e[k] = Unset
      BY <2>2, MisfitsAre
    <3>2. e[k] = q[k] /\ d[k] = p[k]
      BY <1>2, <1>3, <1>4
    <3>3. q[k] = IF k \in m THEN Good[k] ELSE p[k]
      BY <1>6
    <3>4. k \notin m
      BY <3>1, <3>2, <3>3, <1>7
    <3>5. d[k] = Unset /\ d["mode"] = External
      BY <3>1, <3>2, <3>3, <3>4, <2>1
    <3> QED BY <3>4, <3>5, <1>5, MisfitsAre
  <2> QED BY <2>2, <1>14
<1> QED BY <1>1, <1>14, <1>15

Refusal(errs) == [at |-> "refused", config |-> Default, errs |-> errs]

Complaints(p) == {<<k, 1>> : k \in Misfits(Derived(p))}

\* Where a start ends: at the first stage that finds something, or up.
LEMMA LoadEnds ==
    LET vs == WithDotEnv(environment, dotEnv)
    IN  \/ DotEnvErrors(dotEnv) # {} /\ LoadConfig = Refusal(DotEnvErrors(dotEnv))
        \/ /\ DotEnvErrors(dotEnv) = {} /\ ParseErrors(vs) # {}
           /\ LoadConfig = Refusal(ParseErrors(vs))
        \/ /\ DotEnvErrors(dotEnv) = {} /\ ParseErrors(vs) = {} /\ costFile = "broken"
           /\ LoadConfig = Refusal({<<"costs", 0>>})
        \/ /\ DotEnvErrors(dotEnv) = {} /\ ParseErrors(vs) = {} /\ costFile # "broken"
           /\ Misfits(Derived(Parsed(vs))) # {}
           /\ LoadConfig = Refusal(Complaints(Parsed(vs)))
        \/ /\ DotEnvErrors(dotEnv) = {} /\ ParseErrors(vs) = {} /\ costFile # "broken"
           /\ Misfits(Derived(Parsed(vs))) = {}
           /\ LoadConfig = [at |-> "up", config |-> GenerateIfUnset(Derived(Parsed(vs))), errs |-> {}]
<1>1. PICK vs : vs = WithDotEnv(environment, dotEnv)
  OBVIOUS
<1>2. PICK de, pe, ce : de = DotEnvErrors(dotEnv) /\ pe = ParseErrors(vs) /\ ce = CostErrors
  OBVIOUS
<1>3. PICK config, errs : /\ config = GenerateIfUnset(Derived(Parsed(vs)))
                          /\ errs = Complaints(Parsed(vs))
  OBVIOUS
<1>4. PICK v : v = Validate(Parsed(vs))
  OBVIOUS
<1>5. v.config = config /\ v.errs = errs
  <2>1. v = [config |-> config, errs |-> errs]
    BY <1>3, <1>4, Zenon DEF Validate, Complaints
  <2> QED BY <2>1
<1>6. LoadConfig =
        CASE de # {} -> Refusal(de)
          [] de = {} /\ pe # {} -> Refusal(pe)
          [] de \cup pe = {} /\ ce # {} -> Refusal(ce)
          [] de \cup pe \cup ce = {} /\ v.errs # {} -> Refusal(v.errs)
          [] OTHER -> [at |-> "up", config |-> v.config, errs |-> {}]
  BY <1>1, <1>2, <1>4 DEF LoadConfig, Refusal
<1>7. ce = IF costFile = "broken" THEN {<<"costs", 0>>} ELSE {}
  BY <1>2 DEF CostErrors
<1>8. errs = {} <=> Misfits(Derived(Parsed(vs))) = {}
  BY <1>3 DEF Complaints
<1>9. \/ de # {} /\ LoadConfig = Refusal(de)
      \/ de = {} /\ pe # {} /\ LoadConfig = Refusal(pe)
      \/ de = {} /\ pe = {} /\ ce # {} /\ LoadConfig = Refusal(ce)
      \/ de = {} /\ pe = {} /\ ce = {} /\ errs # {} /\ LoadConfig = Refusal(errs)
      \/ /\ de = {} /\ pe = {} /\ ce = {} /\ errs = {}
         /\ LoadConfig = [at |-> "up", config |-> config, errs |-> {}]
  <2>1. CASE de # {}
    BY <1>6, <2>1
  <2>2. CASE de = {} /\ pe # {}
    BY <1>6, <2>2
  <2>3. CASE de = {} /\ pe = {} /\ ce # {}
    <3>1. de \cup pe = {}
      BY <2>3
    <3> QED BY <1>6, <2>3, <3>1
  <2>4. CASE de = {} /\ pe = {} /\ ce = {} /\ errs # {}
    <3>1. de \cup pe = {} /\ de \cup pe \cup ce = {}
      BY <2>4
    <3> QED BY <1>5, <1>6, <2>4, <3>1
  <2>5. CASE de = {} /\ pe = {} /\ ce = {} /\ errs = {}
    <3>1. de \cup pe = {} /\ de \cup pe \cup ce = {}
      BY <2>5
    <3> QED BY <1>5, <1>6, <2>5, <3>1
  <2> QED BY <2>1, <2>2, <2>3, <2>4, <2>5
<1> HIDE <1>6
<1> QED BY <1>1, <1>2, <1>3, <1>7, <1>8, <1>9

\* The stage a start would end at, counted from the end: what an operator may
\* still be told of, beside the lines of the file.
Stages(env, f, table) ==
    LET vs == WithDotEnv(env, f)
        misfits == Misfits(Derived(Parsed(vs)))
    IN  IF f.size = "large" THEN 5
        ELSE IF BadLines(f) # {} \/ ParseErrors(vs) # {} THEN 4
        ELSE IF table = "broken" THEN 3
        ELSE IF ~(misfits \subseteq {"secret", "dsn", "token"}) THEN 2
        ELSE IF misfits # {} THEN 1 ELSE 0

SettingsInv ==
    /\ environment \in [Names -> Written]
    /\ FileOK(dotEnv)
    /\ refusals \in Nat
    /\ process = NotRunning \/ process = LoadConfig
    /\ process.at = "up" => refusals = 0
    /\ \E f \in DotEnvFiles :
          refusals + Cardinality(BadLines(dotEnv)) + Stages(environment, dotEnv, costFile)
              <= 5 + (IF process.at = "refused" THEN 1 ELSE 0) + Cardinality(BadLines(f))

LEMMA StagesAre ==
    ASSUME NEW env, NEW f, NEW table
    PROVE  Stages(env, f, table) \in 0..5 /\ Stages(env, f, table) \in Nat
  BY DEF Stages

LEMMA FilesOK == \A f \in DotEnvFiles : FileOK(f) /\ Cardinality(BadLines(f)) \in Nat
<1>1. \A f \in DotEnvFiles : FileOK(f)
  BY SettingsConstants DEF FileOK
<1> QED BY <1>1, BadLinesFinite

\* A file is refused whole for its size, or at its first bad line.
LEMMA FileErrors ==
    ASSUME NEW f, FileOK(f)
    PROVE  /\ f.size = "large" => DotEnvErrors(f) = {<<"file", 0>>}
           /\ f.size # "large" /\ BadLines(f) # {} =>
                DotEnvErrors(f) = {<<"line", Min(BadLines(f))>>} /\ Min(BadLines(f)) \in DOMAIN f.lines
           /\ f.size # "large" /\ BadLines(f) = {} => DotEnvErrors(f) = {}
<1>1. f.size \in {"plain", "large"}
  BY DEF FileOK
<1>2. BadLines(f) # {} => Min(BadLines(f)) \in DOMAIN f.lines
  BY BadLinesFinite
<1> QED BY <1>1, <1>2 DEF DotEnvErrors

LEMMA SettingsInitial == SettingsInit => SettingsInv
<1> SUFFICES ASSUME SettingsInit PROVE SettingsInv
  OBVIOUS
<1>1. environment \in [Names -> Written] /\ dotEnv \in DotEnvFiles /\ process = NotRunning /\ refusals = 0
  BY SettingsConstants DEF SettingsInit, Unstarted
<1>2. FileOK(dotEnv) /\ Cardinality(BadLines(dotEnv)) \in Nat
  BY <1>1, FilesOK
<1>3. process.at = "off"
  BY <1>1 DEF NotRunning
<1>4. PICK n \in 0..5 : n = Stages(environment, dotEnv, costFile)
  BY StagesAre
<1>5. 0 + Cardinality(BadLines(dotEnv)) + n <= 5 + 0 + Cardinality(BadLines(dotEnv))
  BY <1>2
<1> QED BY <1>1, <1>2, <1>3, <1>4, <1>5 DEF SettingsInv

\* A running program was refused nothing; a refused one has a stage to repair.
LEMMA StageOfStart ==
    ASSUME FileOK(dotEnv)
    PROVE  /\ LoadConfig.at \in {"up", "refused"}
           /\ LoadConfig.at = "refused" => Stages(environment, dotEnv, costFile) >= 1
           /\ LoadConfig.at = "up" => /\ Stages(environment, dotEnv, costFile) = 0
                                      /\ BadLines(dotEnv) = {} /\ dotEnv.size # "large"
                                      /\ ParseErrors(WithDotEnv(environment, dotEnv)) = {}
                                      /\ Misfits(Derived(Parsed(WithDotEnv(environment, dotEnv)))) = {}
                                      /\ LoadConfig.config =
                                            GenerateIfUnset(Derived(Parsed(WithDotEnv(environment, dotEnv))))
<1>1. PICK vs : vs = WithDotEnv(environment, dotEnv)
  OBVIOUS
<1>2. PICK l : l = LoadConfig
  OBVIOUS
<1>3. PICK m, p : p = Parsed(vs) /\ m = Misfits(Derived(p))
  OBVIOUS
<1>4. ASSUME NEW errs PROVE Refusal(errs).at = "refused"
  BY DEF Refusal
<1>5. \/ DotEnvErrors(dotEnv) # {} /\ l = Refusal(DotEnvErrors(dotEnv))
      \/ /\ DotEnvErrors(dotEnv) = {} /\ ParseErrors(vs) # {} /\ l = Refusal(ParseErrors(vs))
      \/ /\ DotEnvErrors(dotEnv) = {} /\ ParseErrors(vs) = {} /\ costFile = "broken"
         /\ l = Refusal({<<"costs", 0>>})
      \/ /\ DotEnvErrors(dotEnv) = {} /\ ParseErrors(vs) = {} /\ costFile # "broken"
         /\ m # {} /\ l = Refusal(Complaints(p))
      \/ /\ DotEnvErrors(dotEnv) = {} /\ ParseErrors(vs) = {} /\ costFile # "broken"
         /\ m = {}
         /\ l = [at |-> "up", config |-> GenerateIfUnset(Derived(p)), errs |-> {}]
  BY <1>1, <1>2, <1>3, LoadEnds, Zenon
<1>6. DotEnvErrors(dotEnv) = {} <=> dotEnv.size # "large" /\ BadLines(dotEnv) = {}
  BY FileErrors
<1>7. Stages(environment, dotEnv, costFile) =
        IF dotEnv.size = "large" THEN 5
        ELSE IF BadLines(dotEnv) # {} \/ ParseErrors(vs) # {} THEN 4
        ELSE IF costFile = "broken" THEN 3
        ELSE IF ~(m \subseteq {"secret", "dsn", "token"}) THEN 2
        ELSE IF m # {} THEN 1 ELSE 0
  BY <1>1, <1>3, Zenon DEF Stages
<1>8. PICK n : n = Stages(environment, dotEnv, costFile)
  OBVIOUS
<1>9. CASE l.at = "refused"
  <2>1. n >= 1
    BY <1>5, <1>6, <1>7, <1>8, <1>9
  <2> QED BY <1>2, <1>8, <1>9, <2>1
<1>10. CASE l = [at |-> "up", config |-> GenerateIfUnset(Derived(p)), errs |-> {}] /\ l.at # "refused"
  <2>1. /\ DotEnvErrors(dotEnv) = {} /\ ParseErrors(vs) = {} /\ costFile # "broken" /\ m = {}
    BY <1>4, <1>5, <1>10, Zenon
  <2>2. n = 0
    BY <1>6, <1>7, <1>8, <2>1
  <2>3. l.at = "up" /\ l.config = GenerateIfUnset(Derived(p))
    BY <1>10
  <2> QED BY <1>1, <1>2, <1>3, <1>6, <1>8, <2>1, <2>2, <2>3
<1>11. l.at = "refused" \/ l = [at |-> "up", config |-> GenerateIfUnset(Derived(p)), errs |-> {}]
  BY <1>4, <1>5, Zenon
<1> QED BY <1>9, <1>10, <1>11

\* An operator's next sources, once every error reported was repaired.
RepairedEnv(env, errs) == [k \in Names |-> IF <<k, 1>> \in errs THEN Good[k] ELSE env[k]]

RepairedFile(f, errs) ==
    CASE <<"file", 0>> \in errs -> [f EXCEPT !.size = "plain"]
      [] \E n \in DOMAIN f.lines : <<"line", n>> \in errs ->
            [f EXCEPT !.lines = Without(f.lines, Min(BadLines(f)))]
      [] OTHER -> f

RepairedTable(t, errs) == IF <<"costs", 0>> \in errs THEN "complete" ELSE t

\* Left to find: the bad lines of the file, and the stages.
LeftOf(env, f, t) == Cardinality(BadLines(f)) + Stages(env, f, t)

LEMMA ErrorsApart ==
    ASSUME NEW k \in Names
    PROVE  <<k, 1>> # <<"file", 0>> /\ <<k, 1>> # <<"costs", 0>> /\ \A n : <<k, 1>> # <<"line", n>>
  BY DEF Names, Texts, Numbers

LEMMA RepairShrinksFile ==
    ASSUME NEW env \in [Names -> Written], NEW f, FileOK(f), f.size = "large", NEW t, NEW errs,
           errs = {<<"file", 0>>}
    PROVE  /\ RepairedEnv(env, errs) \in [Names -> Written] /\ FileOK(RepairedFile(f, errs))
           /\ LeftOf(RepairedEnv(env, errs), RepairedFile(f, errs), RepairedTable(t, errs)) < LeftOf(env, f, t)
<1>1. RepairedEnv(env, errs) = env
  <2>1. \A k \in Names : <<k, 1>> \notin errs
    BY ErrorsApart
  <2>2. env = [k \in Names |-> env[k]]
    OBVIOUS
  <2> QED BY <2>1, <2>2 DEF RepairedEnv
<1>2. PICK g : g = RepairedFile(f, errs)
  OBVIOUS
<1>3. g = [f EXCEPT !.size = "plain"]
  <2>1. <<"file", 0>> \in errs
    OBVIOUS
  <2>2. ~\E n \in DOMAIN f.lines : <<"line", n>> \in errs
    OBVIOUS
  <2> QED BY <1>2, <2>1, <2>2 DEF RepairedFile
<1>4. FileOK(g) /\ g.size = "plain" /\ g.lines = f.lines
  BY <1>3 DEF FileOK
<1>5. BadLines(g) = BadLines(f)
  BY <1>4 DEF BadLines
<1>6. PICK t2 : t2 = RepairedTable(t, errs)
  OBVIOUS
<1>7. PICK n \in Nat : n = Stages(env, g, t2) /\ n <= 4
  <2>1. Stages(env, g, t2) \in 0..5 /\ Stages(env, g, t2) # 5
    BY <1>4, StagesAre DEF Stages
  <2> QED BY <2>1
<1>8. Stages(env, f, t) = 5
  BY DEF Stages
<1>9. Cardinality(BadLines(f)) \in Nat
  BY BadLinesFinite
<1>10. LeftOf(env, g, t2) < LeftOf(env, f, t)
  BY <1>5, <1>7, <1>8, <1>9 DEF LeftOf
<1> QED BY <1>1, <1>2, <1>4, <1>6, <1>10

LEMMA RepairRemovesLine ==
    ASSUME NEW env \in [Names -> Written], NEW f, FileOK(f), f.size # "large", BadLines(f) # {},
           NEW t, NEW errs, errs = {<<"line", Min(BadLines(f))>>}
    PROVE  /\ RepairedEnv(env, errs) \in [Names -> Written] /\ FileOK(RepairedFile(f, errs))
           /\ LeftOf(RepairedEnv(env, errs), RepairedFile(f, errs), RepairedTable(t, errs)) < LeftOf(env, f, t)
<1>1. RepairedEnv(env, errs) = env
  <2>1. \A k \in Names : <<k, 1>> \notin errs
    BY ErrorsApart
  <2>2. env = [k \in Names |-> env[k]]
    OBVIOUS
  <2> QED BY <2>1, <2>2 DEF RepairedEnv
<1>2. PICK g : g = RepairedFile(f, errs)
  OBVIOUS
<1>3. g = [f EXCEPT !.lines = Without(f.lines, Min(BadLines(f)))]
  <2>1. <<"file", 0>> \notin errs
    OBVIOUS
  <2>2. \E n \in DOMAIN f.lines : <<"line", n>> \in errs
    BY FileErrors
  <2> QED BY <1>2, <2>1, <2>2 DEF RepairedFile
<1>4. FileOK(g) /\ g.size = f.size /\ Cardinality(BadLines(g)) <= Cardinality(BadLines(f)) - 1
  BY <1>3, LineRemoved
<1>6. PICK t2 : t2 = RepairedTable(t, errs)
  OBVIOUS
<1>7. PICK n \in Nat : n = Stages(env, g, t2) /\ n <= 4
  <2>1. Stages(env, g, t2) \in 0..5 /\ Stages(env, g, t2) # 5
    BY <1>4, StagesAre DEF Stages
  <2> QED BY <2>1
<1>8. Stages(env, f, t) = 4
  BY DEF Stages
<1>9. Cardinality(BadLines(f)) \in Nat /\ Cardinality(BadLines(g)) \in Nat
  BY <1>4, BadLinesFinite
<1>10. LeftOf(env, g, t2) < LeftOf(env, f, t)
  BY <1>4, <1>7, <1>8, <1>9 DEF LeftOf
<1> QED BY <1>1, <1>2, <1>4, <1>6, <1>10

LEMMA RepairKeepsFile ==
    ASSUME NEW f, NEW errs, \A n : <<"line", n>> \notin errs, <<"file", 0>> \notin errs
    PROVE  RepairedFile(f, errs) = f
  BY DEF RepairedFile

\* The complaints about the values of some names.
ErrorsOf(m) == {<<k, 1>> : k \in m}

\* A repaired environment, and the values read with it.
Repaired(e, f, m, vs, ws) ==
    /\ e \in [Names -> Written]
    /\ ws = WithDotEnv(e, f)
    /\ \A k \in Names : ws[k] = IF k \in m THEN Good[k] ELSE vs[k]

\* The values read after the variables of some names were repaired.
LEMMA RepairedValues ==
    ASSUME NEW env, env \in [Names -> Written], NEW f, FileOK(f), NEW m, m \subseteq Names, NEW errs,
           errs = ErrorsOf(m)
    PROVE  Repaired(RepairedEnv(env, errs), f, m, WithDotEnv(env, f), WithDotEnv(RepairedEnv(env, errs), f))
<1>1. PICK e : e = RepairedEnv(env, errs)
  OBVIOUS
<1>2. \A k \in Names : <<k, 1>> \in errs <=> k \in m
  BY DEF ErrorsOf
<1>3. e = [k \in Names |-> IF k \in m THEN Good[k] ELSE env[k]]
  BY <1>1, <1>2 DEF RepairedEnv
<1>4. \A k \in Names : Good[k] \in Written /\ Good[k] # Absent /\ env[k] \in Written
  BY GoodAssumption DEF Found
<1>5. e \in [Names -> Written]
  BY <1>3, <1>4
<1>6. \A k \in Names : WithDotEnv(e, f)[k] = IF e[k] # Absent THEN e[k] ELSE FileValue(f, k)
  BY <1>5, ValuesRead, Zenon
<1>7. \A k \in Names : WithDotEnv(env, f)[k] = IF env[k] # Absent THEN env[k] ELSE FileValue(f, k)
  BY ValuesRead, Zenon
<1>8. \A k \in Names : WithDotEnv(e, f)[k] = IF k \in m THEN Good[k] ELSE WithDotEnv(env, f)[k]
  BY <1>3, <1>4, <1>6, <1>7
<1>9. PICK vs : vs = WithDotEnv(env, f)
  OBVIOUS
<1>10. PICK ws : ws = WithDotEnv(e, f)
  OBVIOUS
<1>11. Repaired(e, f, m, vs, ws)
  BY <1>5, <1>8, <1>9, <1>10 DEF Repaired
<1> QED BY <1>1, <1>9, <1>10, <1>11

LEMMA RepairReadsAll ==
    ASSUME NEW env \in [Names -> Written], NEW f, FileOK(f), f.size # "large", BadLines(f) = {},
           NEW t, NEW errs, errs = ParseErrors(WithDotEnv(env, f)), errs # {}
    PROVE  /\ RepairedEnv(env, errs) \in [Names -> Written] /\ FileOK(RepairedFile(f, errs))
           /\ LeftOf(RepairedEnv(env, errs), RepairedFile(f, errs), RepairedTable(t, errs)) < LeftOf(env, f, t)
<1>1. PICK vs : vs = WithDotEnv(env, f)
  OBVIOUS
<1>2. PICK m : m = {k \in Names : Screened(vs[k]) \/ Unreadable(k, vs[k])}
  OBVIOUS
<1>3. errs = {<<k, 1>> : k \in m} /\ m \subseteq Names
  BY <1>1, <1>2 DEF ParseErrors
<1>4. RepairedFile(f, errs) = f
  <2>1. \A k \in m : <<k, 1>> # <<"file", 0>> /\ \A n : <<k, 1>> # <<"line", n>>
    BY <1>3, ErrorsApart
  <2>2. (\A n : <<"line", n>> \notin errs) /\ <<"file", 0>> \notin errs
    BY <1>3, <2>1
  <2> QED BY <2>2, RepairKeepsFile
<1>5. PICK e : e = RepairedEnv(env, errs)
  OBVIOUS
<1>6. PICK ws : ws = WithDotEnv(e, f)
  OBVIOUS
<1>7. e \in [Names -> Written] /\ \A k \in Names : ws[k] = IF k \in m THEN Good[k] ELSE vs[k]
  <2>1. errs = ErrorsOf(m)
    BY <1>3 DEF ErrorsOf
  <2>2. Repaired(RepairedEnv(env, errs), f, m, WithDotEnv(env, f), WithDotEnv(RepairedEnv(env, errs), f))
    BY <1>3, <2>1, RepairedValues, Zenon
  <2>3. Repaired(e, f, m, vs, ws)
    BY <1>1, <1>5, <1>6, <2>2
  <2> QED BY <2>3 DEF Repaired
<1>8. ws \in [Names -> Written]
  BY <1>6, <1>7, ValuesRead, Zenon
<1>9. ASSUME NEW k \in Names PROVE ~Screened(ws[k]) /\ ~Unreadable(k, ws[k])
  <2>1. CASE k \in m
    <3>1. ws[k] = Good[k]
      BY <2>1, <1>7
    <3> QED BY <3>1, <1>8, GoodIsRead
  <2>2. CASE k \notin m
    <3>1. ws[k] = vs[k]
      BY <2>2, <1>7
    <3> QED BY <3>1, <2>2, <1>2
  <2> QED BY <2>1, <2>2
<1>10. ParseErrors(ws) = {}
  BY <1>9 DEF ParseErrors
<1>11. PICK t2 : t2 = RepairedTable(t, errs)
  OBVIOUS
<1>12. PICK n \in Nat : n = Stages(e, f, t2) /\ n <= 3
  <2>1. Stages(e, f, t2) \in 0..5 /\ Stages(e, f, t2) # 5 /\ Stages(e, f, t2) # 4
    BY <1>6, <1>10, StagesAre DEF Stages
  <2> QED BY <2>1
<1>13. Stages(env, f, t) = 4
  BY DEF Stages
<1>14. Cardinality(BadLines(f)) \in Nat
  BY BadLinesFinite
<1>15. LeftOf(e, f, t2) < LeftOf(env, f, t)
  BY <1>12, <1>13, <1>14 DEF LeftOf
<1> QED BY <1>4, <1>5, <1>7, <1>11, <1>15

LEMMA RepairCompletesTable ==
    ASSUME NEW env \in [Names -> Written], NEW f, FileOK(f), f.size # "large", BadLines(f) = {},
           ParseErrors(WithDotEnv(env, f)) = {}, NEW t, t = "broken", NEW errs, errs = {<<"costs", 0>>}
    PROVE  /\ RepairedEnv(env, errs) \in [Names -> Written] /\ FileOK(RepairedFile(f, errs))
           /\ LeftOf(RepairedEnv(env, errs), RepairedFile(f, errs), RepairedTable(t, errs)) < LeftOf(env, f, t)
<1>1. RepairedEnv(env, errs) = env
  <2>1. \A k \in Names : <<k, 1>> \notin errs
    BY ErrorsApart
  <2>2. env = [k \in Names |-> env[k]]
    OBVIOUS
  <2> QED BY <2>1, <2>2 DEF RepairedEnv
<1>2. RepairedFile(f, errs) = f
  BY RepairKeepsFile
<1>3. PICK t2 : t2 = RepairedTable(t, errs)
  OBVIOUS
<1>4. t2 = "complete"
  BY <1>3 DEF RepairedTable
<1>5. PICK n \in Nat : n = Stages(env, f, t2) /\ n <= 2
  <2>1. Stages(env, f, t2) \in 0..5 /\ Stages(env, f, t2) # 5 /\ Stages(env, f, t2) # 4 /\ Stages(env, f, t2) # 3
    BY <1>4, StagesAre DEF Stages
  <2> QED BY <2>1
<1>6. Stages(env, f, t) = 3
  BY DEF Stages
<1>7. Cardinality(BadLines(f)) \in Nat
  BY BadLinesFinite
<1>8. LeftOf(env, f, t2) < LeftOf(env, f, t)
  BY <1>5, <1>6, <1>7 DEF LeftOf
<1> QED BY <1>1, <1>2, <1>3, <1>8

LEMMA RepairSetsRight ==
    ASSUME NEW env \in [Names -> Written], NEW f, FileOK(f), f.size # "large", BadLines(f) = {},
           ParseErrors(WithDotEnv(env, f)) = {}, NEW t, t # "broken", NEW errs,
           errs = Complaints(Parsed(WithDotEnv(env, f))), errs # {}
    PROVE  /\ RepairedEnv(env, errs) \in [Names -> Written] /\ FileOK(RepairedFile(f, errs))
           /\ LeftOf(RepairedEnv(env, errs), RepairedFile(f, errs), RepairedTable(t, errs)) < LeftOf(env, f, t)
<1>1. PICK vs : vs = WithDotEnv(env, f)
  OBVIOUS
<1>2. PICK p : p = Parsed(vs)
  OBVIOUS
<1>3. PICK m : m = Misfits(Derived(p))
  OBVIOUS
<1>4. errs = {<<k, 1>> : k \in m} /\ m \subseteq Names /\ m # {}
  <2>1. errs = {<<k, 1>> : k \in m}
    BY <1>1, <1>2, <1>3 DEF Complaints
  <2> QED BY <2>1, <1>3, MisfitsAre
<1>5. RepairedFile(f, errs) = f
  <2>1. \A k \in m : <<k, 1>> # <<"file", 0>> /\ \A n : <<k, 1>> # <<"line", n>>
    BY <1>4, ErrorsApart
  <2>2. (\A n : <<"line", n>> \notin errs) /\ <<"file", 0>> \notin errs
    BY <1>4, <2>1
  <2> QED BY <2>2, RepairKeepsFile
<1>6. RepairedTable(t, errs) = t
  <2>1. \A k \in m : <<k, 1>> # <<"costs", 0>>
    BY <1>4, ErrorsApart
  <2>2. <<"costs", 0>> \notin errs
    BY <1>4, <2>1
  <2> QED BY <2>2 DEF RepairedTable
<1>7. PICK e : e = RepairedEnv(env, errs)
  OBVIOUS
<1>8. PICK ws : ws = WithDotEnv(e, f)
  OBVIOUS
<1>9. e \in [Names -> Written] /\ \A k \in Names : ws[k] = IF k \in m THEN Good[k] ELSE vs[k]
  <2>1. errs = ErrorsOf(m)
    BY <1>4 DEF ErrorsOf
  <2>2. Repaired(RepairedEnv(env, errs), f, m, WithDotEnv(env, f), WithDotEnv(RepairedEnv(env, errs), f))
    BY <1>4, <2>1, RepairedValues, Zenon
  <2>3. Repaired(e, f, m, vs, ws)
    BY <1>1, <1>7, <1>8, <2>2
  <2> QED BY <2>3 DEF Repaired
<1>10. ws \in [Names -> Written] /\ vs \in [Names -> Written]
  BY <1>1, <1>8, <1>9, ValuesRead, Zenon
<1>11. \A k \in Names : ~Screened(vs[k]) /\ ~Unreadable(k, vs[k])
  <2>1. ASSUME NEW k \in Names PROVE ~Screened(vs[k]) /\ ~Unreadable(k, vs[k])
    <3>1. <<k, 1>> \notin ParseErrors(vs)
      BY <1>1
    <3> QED BY <3>1 DEF ParseErrors
  <2> QED BY <2>1
<1>12. ASSUME NEW k \in Names PROVE ~Screened(ws[k]) /\ ~Unreadable(k, ws[k])
  <2>1. CASE k \in m
    <3>1. ws[k] = Good[k]
      BY <2>1, <1>9
    <3> QED BY <3>1, <1>10, GoodIsRead
  <2>2. CASE k \notin m
    BY <2>2, <1>9, <1>11
  <2> QED BY <2>1, <2>2
<1>13. ParseErrors(ws) = {}
  BY <1>12 DEF ParseErrors
<1>14. PICK q : q = Parsed(ws)
  OBVIOUS
<1>15. \A k \in Names : q[k] = IF k \notin m THEN p[k]
                              ELSE IF k \in Numbers THEN Number[Good[k]] ELSE Good[k]
  <2>1. ASSUME NEW k \in Names
        PROVE  q[k] = IF k \notin m THEN p[k]
                      ELSE IF k \in Numbers THEN Number[Good[k]] ELSE Good[k]
    <3>1. CASE k \in m
      <4>1. ws[k] = Good[k]
        BY <3>1, <1>9
      <4> QED BY <3>1, <4>1, <1>10, <1>14, GoodIsRead
    <3>2. CASE k \notin m
      <4>1. ws[k] = vs[k]
        BY <3>2, <1>9
      <4>2. q[k] = p[k]
        BY <4>1, <1>2, <1>14 DEF Parsed
      <4> QED BY <3>2, <4>2
    <3> QED BY <3>1, <3>2
  <2> QED BY <2>1
<1>16. PICK X : p \in [Names -> X]
  BY <1>1, <1>2, ValuesRead, Zenon
<1>17. PICK Y : q \in [Names -> Y]
  BY <1>8, <1>9, <1>14, ValuesRead, Zenon
<1>18. /\ Misfits(Derived(q)) \subseteq {"secret", "dsn", "token"}
       /\ m \subseteq {"secret", "dsn", "token"} => Misfits(Derived(q)) = {}
  BY <1>3, <1>15, <1>16, <1>17, MisfitsSetRight
<1>19. PICK m2 : m2 = Misfits(Derived(q))
  OBVIOUS
<1>20. Stages(e, f, t) = IF m2 # {} THEN 1 ELSE 0
  <2>1. Stages(e, f, t) = IF ~(m2 \subseteq {"secret", "dsn", "token"}) THEN 2
                          ELSE IF m2 # {} THEN 1 ELSE 0
    BY <1>8, <1>13, <1>14, <1>19 DEF Stages
  <2> QED BY <2>1, <1>18, <1>19
<1>21. Stages(env, f, t) = IF ~(m \subseteq {"secret", "dsn", "token"}) THEN 2 ELSE 1
  BY <1>1, <1>2, <1>3, <1>4 DEF Stages
<1>22. PICK a, b \in Nat : a = Stages(e, f, t) /\ b = Stages(env, f, t) /\ a < b
  BY <1>18, <1>19, <1>20, <1>21
<1>23. Cardinality(BadLines(f)) \in Nat
  BY BadLinesFinite
<1>24. LeftOf(e, f, t) < LeftOf(env, f, t)
  BY <1>22, <1>23 DEF LeftOf
<1> QED BY <1>5, <1>6, <1>7, <1>9, <1>24

-----------------------------------------------------------------------------
(* The steps *)

LEMMA SettingsStart ==
    ASSUME SettingsInv, Start
    PROVE  SettingsInv'
<1>1. /\ process.at = "off" /\ process' = LoadConfig
      /\ environment' = environment /\ dotEnv' = dotEnv /\ costFile' = costFile
      /\ refusals' = IF LoadConfig.at = "refused" THEN refusals + 1 ELSE 0
  BY DEF Start
<1>2. LoadConfig' = LoadConfig
  BY <1>1 DEF LoadConfig, CostErrors
<1>3. PICK n \in Nat : n = Stages(environment, dotEnv, costFile)
  BY StagesAre
<1>4. PICK b \in Nat : b = Cardinality(BadLines(dotEnv))
  BY BadLinesFinite DEF SettingsInv
<1>5. PICK f \in DotEnvFiles : refusals + b + n <= 5 + 0 + Cardinality(BadLines(f))
  BY <1>1, <1>3, <1>4 DEF SettingsInv
<1>6. PICK c \in Nat : c = Cardinality(BadLines(f))
  BY FilesOK
<1>7. PICK l : l = LoadConfig
  OBVIOUS
<1>8. /\ l.at \in {"up", "refused"}
      /\ l.at = "refused" => n >= 1
      /\ l.at = "up" => n = 0 /\ b = 0
  <2>1. FileOK(dotEnv)
    BY DEF SettingsInv
  <2>2. l.at = "up" => BadLines(dotEnv) = {}
    BY <1>7, <2>1, StageOfStart
  <2>3. Cardinality({}) = 0
    BY FS_EmptySet
  <2> QED BY <1>3, <1>4, <1>7, <2>1, <2>2, <2>3, StageOfStart
<1>9. refusals \in Nat
  BY DEF SettingsInv
<1>10. PICK r \in Nat : r = refusals'
  BY <1>1, <1>9
<1>11. r + b + n <= 5 + (IF l.at = "refused" THEN 1 ELSE 0) + c
  <2>1. CASE l.at = "refused"
    <3>1. r = refusals + 1
      BY <1>1, <1>7, <1>10, <2>1
    <3> QED BY <3>1, <2>1, <1>5, <1>6, <1>9
  <2>2. CASE l.at = "up"
    <3>1. r = 0
      BY <1>1, <1>7, <1>10, <2>2
    <3> QED BY <3>1, <2>2, <1>8
  <2> QED BY <1>8, <2>1, <2>2
<1>12. refusals' + Cardinality(BadLines(dotEnv')) + Stages(environment', dotEnv', costFile')
         <= 5 + (IF process'.at = "refused" THEN 1 ELSE 0) + Cardinality(BadLines(f))
  BY <1>1, <1>3, <1>4, <1>6, <1>7, <1>10, <1>11
<1>13. process'.at = "up" => refusals' = 0
  BY <1>1
<1> QED BY <1>1, <1>2, <1>10, <1>12, <1>13 DEF SettingsInv

LEMMA SettingsRepair ==
    ASSUME SettingsInv, Repair
    PROVE  SettingsInv'
<1>1. PICK errs : errs = process.errs
  OBVIOUS
<1>2. PICK env, f, t : env = environment /\ f = dotEnv /\ t = costFile
  OBVIOUS
<1>3. env \in [Names -> Written] /\ FileOK(f)
  BY <1>2 DEF SettingsInv
<1>4. /\ process.at = "refused" /\ process' = NotRunning /\ refusals' = refusals
      /\ environment' = RepairedEnv(env, errs)
      /\ costFile' = RepairedTable(t, errs)
  BY <1>1, <1>2 DEF Repair, RepairedEnv, RepairedTable
<1>5. dotEnv' = RepairedFile(f, errs)
  <2>1. dotEnv' = CASE <<"file", 0>> \in process.errs -> [dotEnv EXCEPT !.size = "plain"]
                       [] \E n \in DOMAIN dotEnv.lines : <<"line", n>> \in process.errs ->
                            [dotEnv EXCEPT !.lines = Without(dotEnv.lines, Min(BadLines(dotEnv)))]
                       [] OTHER -> dotEnv
    BY Zenon DEF Repair
  <2>2. dotEnv' = RepairedFile(dotEnv, process.errs)
    BY <2>1, Zenon DEF RepairedFile
  <2> QED BY <2>2, <1>1, <1>2
<1>6. process = LoadConfig
  BY <1>4 DEF SettingsInv, NotRunning
<1>7. /\ RepairedEnv(env, errs) \in [Names -> Written] /\ FileOK(RepairedFile(f, errs))
      /\ LeftOf(RepairedEnv(env, errs), RepairedFile(f, errs), RepairedTable(t, errs)) < LeftOf(env, f, t)
  <2>1. PICK vs, m : vs = WithDotEnv(env, f) /\ m = Misfits(Derived(Parsed(vs)))
    OBVIOUS
  <2>2. ASSUME NEW x PROVE Refusal(x).errs = x /\ Refusal(x).at = "refused"
    BY DEF Refusal
  <2>3. ASSUME NEW x PROVE [at |-> "up", config |-> x, errs |-> {}].at # "refused"
    OBVIOUS
  <2>4. \/ DotEnvErrors(f) # {} /\ process = Refusal(DotEnvErrors(f))
        \/ DotEnvErrors(f) = {} /\ ParseErrors(vs) # {} /\ process = Refusal(ParseErrors(vs))
        \/ /\ DotEnvErrors(f) = {} /\ ParseErrors(vs) = {} /\ t = "broken"
           /\ process = Refusal({<<"costs", 0>>})
        \/ /\ DotEnvErrors(f) = {} /\ ParseErrors(vs) = {} /\ t # "broken"
           /\ m # {} /\ process = Refusal(Complaints(Parsed(vs)))
        \/ process = [at |-> "up", config |-> GenerateIfUnset(Derived(Parsed(vs))), errs |-> {}]
    BY <1>2, <1>6, <2>1, LoadEnds, Zenon
  <2>5. \/ DotEnvErrors(f) # {} /\ errs = DotEnvErrors(f)
        \/ DotEnvErrors(f) = {} /\ ParseErrors(vs) # {} /\ errs = ParseErrors(vs)
        \/ /\ DotEnvErrors(f) = {} /\ ParseErrors(vs) = {} /\ t = "broken"
           /\ errs = {<<"costs", 0>>}
        \/ /\ DotEnvErrors(f) = {} /\ ParseErrors(vs) = {} /\ t # "broken"
           /\ m # {} /\ errs = Complaints(Parsed(vs))
    BY <1>1, <1>4, <2>2, <2>3, <2>4, Zenon
  <2>6. CASE f.size = "large"
    BY <1>3, <2>5, <2>6, FileErrors, RepairShrinksFile
  <2>7. CASE f.size # "large" /\ BadLines(f) # {}
    BY <1>3, <2>5, <2>7, FileErrors, RepairRemovesLine
  <2>8. CASE f.size # "large" /\ BadLines(f) = {}
    <3>1. DotEnvErrors(f) = {}
      BY <1>3, <2>8, FileErrors
    <3>2. CASE ParseErrors(vs) # {} /\ errs = ParseErrors(vs)
      BY <1>3, <2>1, <2>8, <3>2, RepairReadsAll
    <3>3. CASE ParseErrors(vs) = {} /\ t = "broken" /\ errs = {<<"costs", 0>>}
      BY <1>3, <2>1, <2>8, <3>3, RepairCompletesTable
    <3>4. CASE ParseErrors(vs) = {} /\ t # "broken" /\ m # {} /\ errs = Complaints(Parsed(vs))
      <4>1. errs # {}
        BY <2>1, <3>4 DEF Complaints
      <4> QED BY <1>3, <2>1, <2>8, <3>4, <4>1, RepairSetsRight
    <3> QED BY <2>5, <3>1, <3>2, <3>3, <3>4
  <2> QED BY <2>6, <2>7, <2>8
<1>8. PICK e, g, u : e = RepairedEnv(env, errs) /\ g = RepairedFile(f, errs) /\ u = RepairedTable(t, errs)
  OBVIOUS
<1>9. PICK n, n2 \in Nat : n = Stages(env, f, t) /\ n2 = Stages(e, g, u)
  BY StagesAre
<1>10. PICK b, b2 \in Nat : b = Cardinality(BadLines(f)) /\ b2 = Cardinality(BadLines(g))
  BY <1>3, <1>7, <1>8, BadLinesFinite
<1>11. b2 + n2 < b + n
  BY <1>7, <1>8, <1>9, <1>10 DEF LeftOf
<1>12. PICK h \in DotEnvFiles : refusals + b + n <= 5 + 1 + Cardinality(BadLines(h))
  BY <1>2, <1>4, <1>9, <1>10 DEF SettingsInv
<1>13. PICK c \in Nat : c = Cardinality(BadLines(h))
  BY FilesOK
<1>14. refusals \in Nat
  BY DEF SettingsInv
<1>15. refusals + b2 + n2 <= 5 + 0 + c
  BY <1>11, <1>12, <1>13, <1>14
<1>16. process'.at = "off"
  BY <1>4 DEF NotRunning
<1>17. refusals' + Cardinality(BadLines(dotEnv')) + Stages(environment', dotEnv', costFile')
         <= 5 + (IF process'.at = "refused" THEN 1 ELSE 0) + Cardinality(BadLines(h))
  BY <1>4, <1>5, <1>8, <1>9, <1>10, <1>13, <1>15, <1>16
<1> QED BY <1>4, <1>5, <1>7, <1>14, <1>16, <1>17 DEF SettingsInv, NotRunning

LEMMA SettingsLeave ==
    ASSUME SettingsInv, Leave
    PROVE  SettingsInv'
<1>1. /\ process.at = "up" /\ process' = NotRunning
      /\ UNCHANGED <<environment, dotEnv, costFile, refusals>>
  BY DEF Leave
<1>2. process'.at = "off"
  BY <1>1 DEF NotRunning
<1>3. PICK n \in Nat : n = Stages(environment, dotEnv, costFile)
  BY StagesAre
<1>4. \E f \in DotEnvFiles :
          refusals + Cardinality(BadLines(dotEnv)) + n <= 5 + 0 + Cardinality(BadLines(f))
  BY <1>1, <1>3 DEF SettingsInv
<1> QED BY <1>1, <1>2, <1>3, <1>4 DEF SettingsInv, NotRunning

LEMMA SettingsStep ==
    ASSUME SettingsInv, [SettingsNext]_settingsVars
    PROVE  SettingsInv'
<1>1. CASE UNCHANGED settingsVars
  <2>1. LoadConfig' = LoadConfig
    BY <1>1 DEF settingsVars, LoadConfig, CostErrors
  <2> QED BY <1>1, <2>1 DEF settingsVars, SettingsInv, NotRunning
<1> QED BY <1>1, SettingsStart, SettingsRepair, SettingsLeave DEF SettingsNext

-----------------------------------------------------------------------------
(* What follows *)

LEMMA RefusalsFew == SettingsInv => FewRefusals
<1> SUFFICES ASSUME SettingsInv PROVE FewRefusals
  OBVIOUS
<1>1. PICK n \in Nat : n = Stages(environment, dotEnv, costFile)
  BY StagesAre
<1>2. PICK b \in Nat : b = Cardinality(BadLines(dotEnv))
  BY BadLinesFinite DEF SettingsInv
<1>3. PICK f \in DotEnvFiles :
        refusals + b + n <= 5 + (IF process.at = "refused" THEN 1 ELSE 0) + Cardinality(BadLines(f))
  BY <1>1, <1>2 DEF SettingsInv
<1>4. PICK c \in Nat : c = Cardinality(BadLines(f))
  BY FilesOK
<1>5. refusals \in Nat
  BY DEF SettingsInv
<1>6. process.at = "refused" => n >= 1
  <2>1. process.at = "refused" => process = LoadConfig
    BY DEF SettingsInv, NotRunning
  <2> QED BY <2>1, <1>1, StageOfStart DEF SettingsInv
<1>7. refusals + b <= 5 + c
  <2>1. CASE process.at = "refused"
    BY <2>1, <1>3, <1>4, <1>5, <1>6
  <2>2. CASE process.at # "refused"
    BY <2>2, <1>3, <1>4, <1>5
  <2> QED BY <2>1, <2>2
<1> QED BY <1>2, <1>4, <1>7 DEF FewRefusals

\* A program that runs read its sources without an error.
LEMMA UpIsLoaded ==
    ASSUME SettingsInv, process.at = "up"
    PROVE  LET vs == WithDotEnv(environment, dotEnv)
           IN  /\ BadLines(dotEnv) = {} /\ ParseErrors(vs) = {}
               /\ Misfits(Derived(Parsed(vs))) = {}
               /\ process.config = GenerateIfUnset(Derived(Parsed(vs)))
<1>1. process = LoadConfig /\ FileOK(dotEnv)
  BY DEF SettingsInv, NotRunning
<1> QED BY <1>1, StageOfStart

LEMMA UpIsSane == SettingsInv => RunsOnSaneValues
<1> SUFFICES ASSUME SettingsInv, process.at = "up" PROVE RunsOnSaneValues
  BY DEF RunsOnSaneValues
<1>1. PICK vs, p, c : vs = WithDotEnv(environment, dotEnv) /\ p = Parsed(vs) /\ c = process.config
  OBVIOUS
<1>2. ParseErrors(vs) = {} /\ Misfits(Derived(p)) = {} /\ c = GenerateIfUnset(Derived(p))
  BY <1>1, UpIsLoaded
<1>3. environment \in [Names -> Written] /\ FileOK(dotEnv)
  BY DEF SettingsInv
<1>4. vs \in [Names -> Written]
      /\ \A k \in Names : vs[k] = IF environment[k] # Absent THEN environment[k] ELSE FileValue(dotEnv, k)
  BY <1>1, <1>3, ValuesRead, Zenon
<1>5. PICK X : p \in [Names -> X]
  BY <1>1, <1>3, ValuesRead, Zenon
<1>6. /\ Validate(c) = [config |-> c, errs |-> {}]
      /\ c["secret"] # Unset /\ c["token"] # Unset
      /\ c["mode"] = External => c["dsn"] # Unset /\ c["secret"] = p["secret"] /\ c["token"] = p["token"]
      /\ p["pay"] = Unset => c["pay"] = BaseOf[c["sim"]]
      /\ LiveInferenceEnabled(c) => c["endpoint"] \in URLs
  BY <1>2, <1>5, CompletedIsSane
<1>7. \A k \in {"secret", "token", "pay"} :
         k \in Names /\ Default[k] = Unset /\ p[k] = IF vs[k] \in {Absent, Unset} THEN Unset ELSE vs[k]
  <2>1. \A k \in {"secret", "token", "pay"} : k \in Names /\ k \notin Numbers
    BY DEF Names, Texts, Numbers
  <2>2. \A k \in {"secret", "token", "pay"} : Default[k] = Unset
    BY <2>1 DEF Default
  <2>3. \A k \in Names : Parsed(vs)[k] = IF vs[k] \in {Absent, Unset} THEN Default[k]
                              ELSE IF k \in Numbers THEN Number[vs[k]] ELSE vs[k]
    BY <1>2, <1>4, ParsedWhole
  <2> QED BY <1>1, <2>1, <2>2, <2>3
<1>8. \A k \in {"secret", "token"} : p[k] # Minted
  BY <1>4, <1>7, SettingsConstants DEF Written
<1>9. environment["pay"] = Absent /\ FileValue(dotEnv, "pay") = Absent => c["pay"] = BaseOf[c["sim"]]
  BY <1>4, <1>6, <1>7
<1> QED BY <1>1, <1>6, <1>8, <1>9 DEF RunsOnSaneValues

LEMMA UpHasEveryLayer == SettingsInv => EveryLayerCounts
<1> SUFFICES ASSUME SettingsInv, process.at = "up", NEW k \in Names
             PROVE  LET c == process.config[k]
                        own == environment[k]
                        lines == {n \in DOMAIN dotEnv.lines : dotEnv.lines[n].key = k}
                        below == IF lines = {} THEN Absent ELSE dotEnv.lines[Max(lines)].value
                        says(v) == c = IF k \in Numbers THEN Number[v]
                                       ELSE IF k = "mode" THEN Lowered(v) ELSE v
                    IN  /\ own \notin {Absent, Unset} => says(own)
                        /\ own = Absent /\ below \notin {Absent, Unset} => says(below)
                        /\ k \in Numbers /\ {own, below} \subseteq {Absent, Unset} => c = Default[k]
  BY Zenon DEF EveryLayerCounts
<1>1. PICK vs, p, c, own : /\ vs = WithDotEnv(environment, dotEnv) /\ p = Parsed(vs)
                           /\ c = process.config /\ own = environment[k]
  OBVIOUS
<1>2. BadLines(dotEnv) = {} /\ ParseErrors(vs) = {} /\ Misfits(Derived(p)) = {} /\ c = GenerateIfUnset(Derived(p))
  BY <1>1, UpIsLoaded
<1>3. environment \in [Names -> Written] /\ FileOK(dotEnv)
  BY DEF SettingsInv
<1>4. vs \in [Names -> Written] /\ vs[k] = IF own # Absent THEN own ELSE FileValue(dotEnv, k)
  BY <1>1, <1>3, ValuesRead, Zenon
<1>5. PICK X : p \in [Names -> X]
  BY <1>1, <1>3, ValuesRead, Zenon
<1>6. p[k] = IF vs[k] \in {Absent, Unset} THEN Default[k]
             ELSE IF k \in Numbers THEN Number[vs[k]] ELSE vs[k]
  BY <1>1, <1>2, <1>4, ParsedWhole
<1>7. PICK lines : lines = {n \in DOMAIN dotEnv.lines : dotEnv.lines[n].key = k}
  OBVIOUS
<1>8. PICK below : below = IF lines = {} THEN Absent ELSE dotEnv.lines[Max(lines)].value
  OBVIOUS
<1>9. FileValue(dotEnv, k) = below
  <2>1. \A n \in DOMAIN dotEnv.lines : dotEnv.lines[n].key = k => Ours(dotEnv.lines[n])
    <3>1. SUFFICES ASSUME NEW n \in DOMAIN dotEnv.lines, dotEnv.lines[n].key = k
                   PROVE  Ours(dotEnv.lines[n])
      OBVIOUS
    <3>2. PICK line : line = dotEnv.lines[n]
      OBVIOUS
    <3>3. line \in FileLines
      BY <1>3, <3>2 DEF FileOK
    <3>4. line.form \in {"plain", "dirty", "noEquals"}
      BY <3>3 DEF FileLines
    <3>5. ~Refused(line)
      BY <1>2, <3>2 DEF BadLines
    <3> QED BY <3>1, <3>2, <3>4, <3>5 DEF Refused, Ours
  <2>2. lines = {n \in DOMAIN dotEnv.lines : Ours(dotEnv.lines[n]) /\ dotEnv.lines[n].key = k}
    BY <1>7, <2>1
  <2> QED BY <1>8, <2>2 DEF FileValue
<1>10. PICK d : d = Derived(p)
  OBVIOUS
<1>11. /\ d = [j \in Names |-> d[j]]
       /\ d["mode"] = Lowered(p["mode"])
       /\ d["endpoint"] = IF p["endpoint"] # Unset THEN p["endpoint"]
                          ELSE IF p["provider"] \in DOMAIN EndpointOf
                               THEN EndpointOf[p["provider"]] ELSE Unset
       /\ d["pay"] = IF p["pay"] # Unset THEN p["pay"]
                     ELSE IF p["sim"] \in HostPorts THEN BaseOf[p["sim"]] ELSE Unset
       /\ \A j \in Names \ {"mode", "endpoint", "pay"} : d[j] = p[j]
  BY <1>5, <1>10, DerivedIs, Zenon
<1>12. c[k] = IF d["mode"] = Managed /\ k \in {"secret", "token"} /\ d[k] = Unset THEN Minted ELSE d[k]
  BY <1>2, <1>10, <1>11 DEF GenerateIfUnset
<1>13. ASSUME NEW v, v = vs[k], v \notin {Absent, Unset}
       PROVE  c[k] = IF k \in Numbers THEN Number[v] ELSE IF k = "mode" THEN Lowered(v) ELSE v
  <2>1. p[k] = IF k \in Numbers THEN Number[v] ELSE v
    BY <1>6, <1>13
  <2>2. CASE k \in Numbers
    <3>1. k \notin {"mode", "endpoint", "pay", "secret", "token"}
      BY <2>2 DEF Numbers
    <3> QED BY <2>1, <2>2, <3>1, <1>11, <1>12
  <2>3. CASE k = "mode"
    <3>1. k \notin Numbers /\ k \notin {"secret", "token"}
      BY <2>3 DEF Numbers
    <3> QED BY <2>1, <2>3, <3>1, <1>11, <1>12
  <2>4. CASE k \notin Numbers /\ k # "mode"
    <3>1. p[k] = v /\ v # Unset
      BY <2>1, <2>4, <1>13
    <3>2. d[k] = v
      BY <2>4, <3>1, <1>11
    <3> QED BY <2>4, <3>1, <3>2, <1>12
  <2> QED BY <2>2, <2>3, <2>4
<1>14. ASSUME k \in Numbers, vs[k] \in {Absent, Unset} PROVE c[k] = Default[k]
  <2>1. k \notin {"mode", "endpoint", "pay", "secret", "token"}
    BY <1>14 DEF Numbers
  <2> QED BY <2>1, <1>6, <1>11, <1>12, <1>14
<1>15. own \notin {Absent, Unset} =>
          c[k] = IF k \in Numbers THEN Number[own] ELSE IF k = "mode" THEN Lowered(own) ELSE own
  BY <1>4, <1>13
<1>16. own = Absent /\ below \notin {Absent, Unset} =>
          c[k] = IF k \in Numbers THEN Number[below] ELSE IF k = "mode" THEN Lowered(below) ELSE below
  BY <1>4, <1>9, <1>13
<1>17. k \in Numbers /\ {own, below} \subseteq {Absent, Unset} => c[k] = Default[k]
  BY <1>4, <1>9, <1>14
<1> QED BY <1>1, <1>7, <1>8, <1>15, <1>16, <1>17

\* Every start runs on a configuration that is complete and says what its
\* sources say, and an operator is refused a bounded number of times.
THEOREM SettingsAreSound == SettingsSpec => []SettingsSound
<1>1. SettingsInv => SettingsSound
  BY RefusalsFew, UpIsSane, UpHasEveryLayer DEF SettingsSound
<1> QED BY <1>1, SettingsInitial, SettingsStep, PTL DEF SettingsSpec

-----------------------------------------------------------------------------
(* The tree *)

Leaves(digests) == [k \in DOMAIN digests |-> LeafHash(digests[k])]

\* The recursive definition of Levels has a value.
LEMMA LevelsExist ==
    ASSUME NEW leaves, NEW n \in Nat
    PROVE  \E g : g = [h \in 0..n |-> IF h = 0 THEN leaves ELSE Parents(g[h - 1])]
<1> DEFINE Has(m) == \E g : g = [h \in 0..m |-> IF h = 0 THEN leaves ELSE Parents(g[h - 1])]
<1> DEFINE Bad == {m \in Nat : ~Has(m)}
<1>1. SUFFICES ASSUME Bad # {} PROVE FALSE
  OBVIOUS
<1>2. PICK m \in Bad : \A k \in Bad : m <= k
  BY <1>1, LeastNatural
<1>3. Has(0)
  <2> DEFINE g == [h \in 0..0 |-> leaves]
  <2>1. g = [h \in 0..0 |-> IF h = 0 THEN leaves ELSE Parents(g[h - 1])]
    OBVIOUS
  <2> QED BY <2>1
<1>4. m # 0 /\ m \in Nat /\ m - 1 \in Nat
  BY <1>2, <1>3
<1>5. Has(m - 1)
  BY <1>2, <1>4
<1>6. PICK g : g = [h \in 0..(m - 1) |-> IF h = 0 THEN leaves ELSE Parents(g[h - 1])]
  BY <1>5
<1> DEFINE f == [h \in 0..m |-> IF h = m THEN Parents(g[m - 1]) ELSE g[h]]
<1>7. \A h \in 0..m : f[h] = IF h = 0 THEN leaves ELSE Parents(f[h - 1])
  <2> SUFFICES ASSUME NEW h \in 0..m PROVE f[h] = IF h = 0 THEN leaves ELSE Parents(f[h - 1])
    OBVIOUS
  <2>1. CASE h = m
    <3>1. f[h] = Parents(g[m - 1]) /\ h # 0
      BY <2>1, <1>4
    <3>2. f[h - 1] = g[m - 1]
      BY <2>1, <1>4
    <3> QED BY <3>1, <3>2
  <2>2. CASE h # m
    <3>1. h \in 0..(m - 1) /\ f[h] = g[h]
      BY <2>2, <1>4
    <3>2. g[h] = IF h = 0 THEN leaves ELSE Parents(g[h - 1])
      BY <3>1, <1>6
    <3>3. h # 0 => f[h - 1] = g[h - 1]
      BY <3>1, <1>4
    <3> QED BY <3>1, <3>2, <3>3
  <2> QED BY <2>1, <2>2
<1>8. f = [h \in 0..m |-> IF h = 0 THEN leaves ELSE Parents(f[h - 1])]
  <2> HIDE <1>6
  <2>1. f = [h \in 0..m |-> f[h]]
    BY Zenon
  <2> QED BY <1>7, <2>1, Zenon
<1>9. Has(m)
  BY <1>8
<1> QED BY <1>2, <1>9

\* Levels satisfies its recursive definition.
LEMMA LevelsAre ==
    ASSUME NEW digests, Len(digests) \in Nat
    PROVE  Levels(digests) = [h \in 0..Len(digests) |->
               IF h = 0 THEN Leaves(digests) ELSE Parents(Levels(digests)[h - 1])]
<1>1. PICK g : g = [h \in 0..Len(digests) |->
                       IF h = 0 THEN Leaves(digests) ELSE Parents(g[h - 1])]
  BY LevelsExist
<1> QED BY <1>1, Zenon DEF Levels, Leaves

\* A level of n nodes has half as many parents, rounded up.
LEMMA ParentsShape ==
    ASSUME NEW level, NEW n \in Nat \ {0}, Len(level) = n
    PROVE  /\ Len(Parents(level)) = (n + 1) \div 2
           /\ (n + 1) \div 2 \in Nat \ {0}
           /\ n > 1 => (n + 1) \div 2 < n
           /\ Parents(level) =
                [i \in 1..((n + 1) \div 2) |->
                    IF 2 * i > n THEN level[2 * i - 1]
                                 ELSE NodeHash(level[2 * i - 1], level[2 * i])]
<1>1. (n + 1) \div 2 \in Nat \ {0} /\ (n > 1 => (n + 1) \div 2 < n)
  OBVIOUS
<1>2. Parents(level) = [i \in 1..((n + 1) \div 2) |->
                    IF 2 * i > n THEN level[2 * i - 1]
                                 ELSE NodeHash(level[2 * i - 1], level[2 * i])]
  BY DEF Parents, Promoted
<1>3. ASSUME NEW s, NEW m \in Nat, NEW e, s = [i \in 1..m |-> e[i]] PROVE Len(s) = m
  BY <1>3
<1> QED BY <1>1, <1>2

\* What the proofs need to know of a tree: its levels, of which the last has
\* one node, each the parents of the one below.
IsTree(tree, leaves) ==
    /\ Len(tree) \in Nat \ {0} /\ DOMAIN tree = 1..Len(tree)
    /\ tree[1] = leaves
    /\ \A h \in 1..Len(tree) : Len(tree[h]) \in Nat \ {0} /\ DOMAIN tree[h] = 1..Len(tree[h])
    /\ Len(tree[Len(tree)]) = 1
    /\ \A h \in 2..Len(tree) :
          /\ Len(tree[h]) = (Len(tree[h - 1]) + 1) \div 2
          /\ \A i \in 1..Len(tree[h]) :
                tree[h][i] = IF 2 * i > Len(tree[h - 1]) THEN tree[h - 1][2 * i - 1]
                               ELSE NodeHash(tree[h - 1][2 * i - 1], tree[h - 1][2 * i])

\* A level of the recursion is not empty, and shrinks until it has one node.
LEMMA LevelShape ==
    ASSUME NEW digests, NEW n \in Nat \ {0}, Len(digests) = n, DOMAIN digests = 1..n,
           NEW h \in 0..n
    PROVE  LET level == Levels(digests)
           IN  /\ Len(level[h]) \in Nat \ {0}
               /\ DOMAIN level[h] = 1..Len(level[h])
               /\ Len(level[h]) = 1 \/ Len(level[h]) <= n - h
<1> DEFINE L == Levels(digests)
<1> DEFINE Fits(k) == /\ Len(L[k]) \in Nat \ {0} /\ DOMAIN L[k] = 1..Len(L[k])
                      /\ Len(L[k]) = 1 \/ Len(L[k]) <= n - k
<1> DEFINE Bad == {k \in 0..n : ~Fits(k)}
<1>0. L = [k \in 0..n |-> IF k = 0 THEN Leaves(digests) ELSE Parents(L[k - 1])]
  BY LevelsAre
<1> HIDE DEF L
<1>1. SUFFICES ASSUME Bad # {} PROVE FALSE
  BY DEF L
<1>2. PICK m \in Bad : \A k \in Bad : m <= k
  <2>1. Bad \subseteq Nat
    OBVIOUS
  <2> QED BY <1>1, <2>1, LeastNatural, Zenon
<1>3. Fits(0)
  <2>1. L[0] = Leaves(digests)
    BY <1>0
  <2>2. ASSUME NEW s, NEW e, s = [i \in 1..n |-> e[i]] PROVE Len(s) = n /\ DOMAIN s = 1..n
    BY <2>2
  <2>3. Leaves(digests) = [i \in 1..n |-> Leaves(digests)[i]]
    BY DEF Leaves
  <2>4. Len(Leaves(digests)) = n /\ DOMAIN Leaves(digests) = 1..n
    BY <2>2, <2>3
  <2> QED BY <2>1, <2>4
<1>4. m # 0 /\ m \in 1..n /\ m - 1 \in 0..n /\ Fits(m - 1)
  BY <1>2, <1>3
<1>5. L[m] = Parents(L[m - 1])
  BY <1>0, <1>4
<1>6. PICK c \in Nat \ {0} : c = Len(L[m - 1])
  BY <1>4
<1>7. /\ Len(Parents(L[m - 1])) = (c + 1) \div 2
      /\ (c + 1) \div 2 \in Nat \ {0}
      /\ c > 1 => (c + 1) \div 2 < c
      /\ Parents(L[m - 1]) =
           [i \in 1..((c + 1) \div 2) |->
                    IF 2 * i > c THEN L[m - 1][2 * i - 1]
                                 ELSE NodeHash(L[m - 1][2 * i - 1], L[m - 1][2 * i])]
  BY <1>6, ParentsShape
<1>8. DOMAIN L[m] = 1..Len(L[m])
  BY <1>5, <1>7
<1>9. c = 1 => (c + 1) \div 2 = 1
  OBVIOUS
<1>10. Fits(m)
  <2>1. PICK d \in Nat \ {0} : d = (c + 1) \div 2
    BY <1>7
  <2>2. Len(L[m]) = d
    BY <1>5, <1>7, <2>1
  <2>3. c = 1 \/ c <= n - (m - 1)
    BY <1>4, <1>6
  <2>4. d = 1 \/ d <= n - m
    <3>1. CASE c = 1
      BY <3>1, <1>9, <2>1
    <3>2. CASE c > 1 /\ c <= n - (m - 1)
      <4>1. d < c
        BY <3>2, <1>7, <2>1
      <4> QED BY <3>2, <4>1, <1>4
    <3> QED BY <2>3, <3>1, <3>2
  <2> QED BY <2>2, <2>4, <1>8
<1> QED BY <1>2, <1>10

\* The tree over some digests.
LEMMA TreeIsTree ==
    ASSUME NEW digests, NEW n \in Nat \ {0}, Len(digests) = n, DOMAIN digests = 1..n
    PROVE  IsTree(Tree(digests), Leaves(digests))
<1> DEFINE L == Levels(digests)
<1> DEFINE t == Top(L)
<1> DEFINE tree == [h \in 1..(t + 1) |-> L[h - 1]]
<1>0. L = [k \in 0..n |-> IF k = 0 THEN Leaves(digests) ELSE Parents(L[k - 1])]
  BY LevelsAre
<1>1. \A h \in 0..n : /\ Len(L[h]) \in Nat \ {0} /\ DOMAIN L[h] = 1..Len(L[h])
                      /\ Len(L[h]) = 1 \/ Len(L[h]) <= n - h
  BY LevelShape
<1>t. t = CHOOSE h \in DOMAIN L : Len(L[h]) = 1 /\ \A k \in 0..(h - 1) : Len(L[k]) > 1
  BY Zenon DEF Top
<1>tr. Tree(digests) = tree
  BY Zenon DEF Tree
<1> HIDE DEF L, t
<1>2. \E h \in DOMAIN L : Len(L[h]) = 1 /\ \A k \in 0..(h - 1) : Len(L[k]) > 1
  <2> DEFINE One == {h \in 0..n : Len(L[h]) = 1}
  <2>0. One \subseteq Nat
    OBVIOUS
  <2>1. n \in One
    BY <1>1
  <2>2. PICK h \in One : \A k \in One : h <= k
    BY <2>0, <2>1, LeastNatural, Zenon
  <2>3. h \in 0..n /\ Len(L[h]) = 1
    BY <2>2
  <2>4. \A k \in 0..(h - 1) : Len(L[k]) > 1
    <3> SUFFICES ASSUME NEW k \in 0..(h - 1) PROVE Len(L[k]) > 1
      OBVIOUS
    <3>1. k \in 0..n /\ k < h
      BY <2>3
    <3>2. Len(L[k]) # 1
      BY <2>2, <3>1
    <3>3. Len(L[k]) \in Nat \ {0}
      BY <1>1, <3>1
    <3>4. \A x \in Nat \ {0} : x # 1 => x > 1
      OBVIOUS
    <3> QED BY <3>2, <3>3, <3>4, Zenon
  <2>5. DOMAIN L = 0..n
    BY <1>0
  <2> QED BY <2>3, <2>4, <2>5
<1>3. t \in 0..n /\ Len(L[t]) = 1
  <2>1. t \in DOMAIN L /\ Len(L[t]) = 1
    BY <1>t, <1>2
  <2>2. DOMAIN L = 0..n
    BY <1>0
  <2> QED BY <2>1, <2>2
<1>4. Len(tree) = t + 1 /\ DOMAIN tree = 1..(t + 1) /\ t + 1 \in Nat \ {0}
  <2>1. ASSUME NEW s, NEW m \in Nat, NEW e, s = [i \in 1..m |-> e[i - 1]] PROVE Len(s) = m /\ DOMAIN s = 1..m
    BY <2>1
  <2> QED BY <2>1, <1>3
<1>5. \A h \in 1..(t + 1) : tree[h] = L[h - 1] /\ h - 1 \in 0..n
  BY <1>3
<1>6. tree[1] = Leaves(digests)
  BY <1>5, <1>3, <1>0
<1>7. \A h \in 1..(t + 1) : Len(tree[h]) \in Nat \ {0} /\ DOMAIN tree[h] = 1..Len(tree[h])
  BY <1>5, <1>1
<1>8. Len(tree[t + 1]) = 1
  BY <1>5, <1>3
<1>9. ASSUME NEW h \in 2..(t + 1)
      PROVE  /\ Len(tree[h]) = (Len(tree[h - 1]) + 1) \div 2
             /\ \A i \in 1..Len(tree[h]) :
                   tree[h][i] = IF 2 * i > Len(tree[h - 1]) THEN tree[h - 1][2 * i - 1]
                               ELSE NodeHash(tree[h - 1][2 * i - 1], tree[h - 1][2 * i])
  <2>1. h \in 1..(t + 1) /\ h - 1 \in 1..(t + 1) /\ h - 1 \in 0..n /\ h - 1 # 0
    BY <1>3
  <2>2. tree[h] = Parents(L[h - 1 - 1])
    BY <2>1, <1>5, <1>0
  <2>3. tree[h - 1] = L[h - 1 - 1]
    BY <2>1, <1>5
  <2>4. tree[h] = Parents(tree[h - 1])
    BY <2>2, <2>3
  <2>5. PICK s : s = tree[h - 1]
    OBVIOUS
  <2>6. PICK c \in Nat \ {0} : c = Len(s)
    BY <2>1, <2>5, <1>7
  <2>7. /\ Len(Parents(s)) = (c + 1) \div 2
        /\ Parents(s) = [i \in 1..((c + 1) \div 2) |->
                    IF 2 * i > c THEN s[2 * i - 1] ELSE NodeHash(s[2 * i - 1], s[2 * i])]
    BY <2>6, ParentsShape
  <2>8. tree[h] = Parents(s)
    BY <2>4, <2>5
  <2> HIDE DEF tree
  <2>9. PICK p : p = tree[h]
    OBVIOUS
  <2>10. Len(p) = (c + 1) \div 2 /\ \A i \in 1..((c + 1) \div 2) :
            p[i] = IF 2 * i > c THEN s[2 * i - 1] ELSE NodeHash(s[2 * i - 1], s[2 * i])
    BY <2>7, <2>8, <2>9
  <2> QED BY <2>5, <2>6, <2>9, <2>10
<1>10. IsTree(tree, Leaves(digests))
  <2> HIDE DEF tree
  <2>1. PICK m \in Nat \ {0} : m = t + 1
    BY <1>4
  <2>2. PICK w : w = tree
    OBVIOUS
  <2> QED BY <1>4, <1>6, <1>7, <1>8, <1>9, <2>1, <2>2 DEF IsTree
<1> QED BY <1>10, <1>tr

-----------------------------------------------------------------------------
(* What a root commits to *)

\* The nodes of a tree, on any level.
NodesOf(tree) == UNION {{tree[h][i] : i \in DOMAIN tree[h]} : h \in DOMAIN tree}

\* A node of a tree above its leaves that was not promoted is the hash of two
\* nodes of the tree, and a leaf hash is a leaf.
LEMMA NodesDecompose ==
    ASSUME NEW tree, NEW leaves, IsTree(tree, leaves),
           \A k \in DOMAIN leaves : \E d : leaves[k] = LeafHash(d)
    PROVE  /\ \A a, b : NodeHash(a, b) \in NodesOf(tree) => a \in NodesOf(tree) /\ b \in NodesOf(tree)
           /\ \A d : LeafHash(d) \in NodesOf(tree) => \E k \in DOMAIN leaves : leaves[k] = LeafHash(d)
<1>1. ASSUME NEW v, v \in NodesOf(tree)
      PROVE  \/ \E k \in DOMAIN leaves : v = leaves[k]
             \/ \E h \in 1..Len(tree), i \in Nat :
                   /\ 2 * i - 1 \in 1..Len(tree[h]) /\ 2 * i \in 1..Len(tree[h])
                   /\ v = NodeHash(tree[h][2 * i - 1], tree[h][2 * i])
  <2> DEFINE On == {h \in 1..Len(tree) : \E i \in 1..Len(tree[h]) : tree[h][i] = v}
  <2>0. On \subseteq Nat
    BY DEF IsTree
  <2>1. On # {}
    BY <1>1 DEF NodesOf, IsTree
  <2>2. PICK h \in On : \A k \in On : h <= k
    BY <2>0, <2>1, LeastNatural, Zenon
  <2>3. h \in 1..Len(tree)
    BY <2>2
  <2>4. PICK i \in 1..Len(tree[h]) : tree[h][i] = v
    BY <2>2
  <2>5. CASE h = 1
    BY <2>4, <2>5 DEF IsTree
  <2>6. CASE h # 1
    <3>1. h \in 2..Len(tree) /\ h - 1 \in 1..Len(tree) /\ h \in Nat
      BY <2>3, <2>6 DEF IsTree
    <3>2. PICK s : s = tree[h - 1]
      OBVIOUS
    <3>3. PICK c \in Nat \ {0} : c = Len(s)
      BY <3>1, <3>2 DEF IsTree
    <3>4. /\ Len(tree[h]) = (c + 1) \div 2
          /\ tree[h][i] = IF 2 * i > c THEN s[2 * i - 1] ELSE NodeHash(s[2 * i - 1], s[2 * i])
      BY <3>1, <3>2, <3>3, <2>4 DEF IsTree
    <3>5. i \in 1..((c + 1) \div 2)
      BY <3>4, <2>4
    <3>6. i \in Nat /\ 2 * i - 1 \in 1..c
      BY <3>5
    <3>7. CASE 2 * i > c
      <4>1. s[2 * i - 1] = v
        BY <3>4, <3>7, <2>4
      <4>2. h - 1 \in On
        BY <4>1, <3>6, <3>1, <3>2, <3>3
      <4> QED BY <4>2, <2>2, <3>1
    <3>8. CASE ~(2 * i > c)
      <4>1. v = NodeHash(s[2 * i - 1], s[2 * i])
        BY <3>4, <3>8, <2>4
      <4>2. 2 * i \in 1..c
        BY <3>8, <3>6
      <4> QED BY <4>1, <4>2, <3>1, <3>2, <3>3, <3>6
    <3> QED BY <3>7, <3>8
  <2> QED BY <2>5, <2>6
<1>2. ASSUME NEW h \in 1..Len(tree), NEW j \in 1..Len(tree[h])
      PROVE  tree[h][j] \in NodesOf(tree)
  BY <1>2 DEF NodesOf, IsTree
<1>3. ASSUME NEW a, NEW b, NEW c, NEW d, NodeHash(a, b) = NodeHash(c, d) PROVE a = c /\ b = d
  BY <1>3 DEF NodeHash
<1>4. ASSUME NEW a, NEW b, NEW d PROVE NodeHash(a, b) # LeafHash(d)
  BY DEF NodeHash, LeafHash
<1>5. ASSUME NEW a, NEW b, NodeHash(a, b) \in NodesOf(tree)
      PROVE  a \in NodesOf(tree) /\ b \in NodesOf(tree)
  <2>1. ~\E k \in DOMAIN leaves : NodeHash(a, b) = leaves[k]
    BY <1>4, Zenon
  <2>2. PICK h \in 1..Len(tree), i \in Nat :
                   /\ 2 * i - 1 \in 1..Len(tree[h]) /\ 2 * i \in 1..Len(tree[h])
                   /\ NodeHash(a, b) = NodeHash(tree[h][2 * i - 1], tree[h][2 * i])
    BY <2>1, <1>1, <1>5, Zenon
  <2>3. a = tree[h][2 * i - 1] /\ b = tree[h][2 * i]
    BY <2>2, <1>3
  <2> QED BY <2>2, <2>3, <1>2
<1>6. ASSUME NEW d, LeafHash(d) \in NodesOf(tree)
      PROVE  \E k \in DOMAIN leaves : leaves[k] = LeafHash(d)
  <2>1. \A a, b : LeafHash(d) # NodeHash(a, b)
    BY <1>4, Zenon
  <2>0. PICK v : v = LeafHash(d)
    OBVIOUS
  <2>2. PICK k \in DOMAIN leaves : v = leaves[k]
    <3>1. ~\E h \in 1..Len(tree), i \in Nat :
                   /\ 2 * i - 1 \in 1..Len(tree[h]) /\ 2 * i \in 1..Len(tree[h])
                   /\ v = NodeHash(tree[h][2 * i - 1], tree[h][2 * i])
      BY <2>0, <2>1, Zenon
    <3>2. v \in NodesOf(tree)
      BY <1>6, <2>0
    <3> QED BY <1>1, <3>1, <3>2, Zenon
  <2>3. leaves[k] = LeafHash(d)
    BY <2>0, <2>2
  <2> QED BY <2>3, Zenon
<1> QED BY <1>5, <1>6

\* A tree whose root is a node of another has all of its nodes there.
LEMMA RootBringsAll ==
    ASSUME NEW tree, NEW leaves, IsTree(tree, leaves), NEW U,
           \A a, b : NodeHash(a, b) \in U => a \in U /\ b \in U,
           Root(tree) \in U
    PROVE  \A k \in 1..Len(leaves) : leaves[k] \in U
<1> DEFINE In(h) == \A i \in 1..Len(tree[h]) : tree[h][i] \in U
<1> DEFINE Bad == {m \in 0..(Len(tree) - 1) : ~In(Len(tree) - m)}
<1>0. PICK n \in Nat \ {0} : n = Len(tree)
  BY DEF IsTree
<1>1. SUFFICES ASSUME Bad # {} PROVE FALSE
  <2>1. n - 1 \in 0..(Len(tree) - 1) /\ Len(tree) - (n - 1) = 1
    BY <1>0
  <2>2. In(1)
    BY <2>1
  <2> QED BY <2>2 DEF IsTree
<1>2. PICK m \in Bad : \A k \in Bad : m <= k
  <2>1. Bad \subseteq Nat
    BY <1>0
  <2> QED BY <1>1, <2>1, LeastNatural, Zenon
<1>3. In(n)
  <2>1. Len(tree[n]) = 1 /\ tree[n][1] \in U
    BY <1>0 DEF IsTree, Root
  <2> QED BY <2>1
<1>4. m \in 0..(n - 1) /\ ~In(n - m)
  BY <1>2, <1>0, Zenon
<1>5. m # 0 /\ m - 1 \in 0..(n - 1)
  <2>1. m = 0 => n - m = n
    BY <1>4
  <2>2. m # 0
    BY <2>1, <1>3, <1>4, Zenon
  <2> QED BY <2>2, <1>4
<1>6. In(n - (m - 1))
  <2>1. ~(m <= m - 1)
    BY <1>4
  <2>2. m - 1 \notin Bad
    BY <1>2, <2>1, Zenon
  <2> QED BY <1>5, <1>0, <2>2, Zenon
<1>7. PICK h \in 2..n : h = n - (m - 1) /\ h - 1 = n - m /\ h - 1 \in 1..n
  BY <1>5, <1>4
<1>8. In(h) /\ ~In(h - 1)
  BY <1>4, <1>6, <1>7
<1>9. PICK s : s = tree[h - 1]
  OBVIOUS
<1>10. PICK c \in Nat \ {0} : c = Len(s)
  BY <1>0, <1>7, <1>9 DEF IsTree
<1>11. PICK p : p = tree[h]
  OBVIOUS
<1>12. /\ Len(p) = (c + 1) \div 2
       /\ \A i \in 1..((c + 1) \div 2) :
            p[i] = IF 2 * i > c THEN s[2 * i - 1] ELSE NodeHash(s[2 * i - 1], s[2 * i])
  BY <1>0, <1>7, <1>9, <1>10, <1>11 DEF IsTree
<1>13. \A i \in 1..((c + 1) \div 2) : p[i] \in U
  BY <1>8, <1>11, <1>12
<1>14. ASSUME NEW j \in 1..c PROVE s[j] \in U
  <2>1. PICK i \in 1..((c + 1) \div 2) : j = 2 * i - 1 \/ j = 2 * i
    <3>1. (j + 1) \div 2 \in 1..((c + 1) \div 2)
      OBVIOUS
    <3>2. j = 2 * ((j + 1) \div 2) - 1 \/ j = 2 * ((j + 1) \div 2)
      OBVIOUS
    <3> QED BY <3>1, <3>2
  <2>2. CASE 2 * i > c
    <3>1. j = 2 * i - 1
      BY <2>1, <2>2
    <3> QED BY <3>1, <2>2, <1>12, <1>13
  <2>3. CASE ~(2 * i > c)
    <3>1. NodeHash(s[2 * i - 1], s[2 * i]) \in U
      BY <2>3, <1>12, <1>13
    <3>2. s[2 * i - 1] \in U /\ s[2 * i] \in U
      BY <3>1
    <3> QED BY <3>2, <2>1
  <2> QED BY <2>2, <2>3
<1> QED BY <1>8, <1>9, <1>10, <1>14

\* d lists n digests.
ListOf(d, n) == Len(d) = n /\ DOMAIN d = 1..n

\* Two lists of digests with one root hold the same digests.
LEMMA OneRootOneSet ==
    ASSUME NEW d1, NEW n1 \in Nat \ {0}, ListOf(d1, n1),
           NEW d2, NEW n2 \in Nat \ {0}, ListOf(d2, n2),
           Root(Tree(d1)) = Root(Tree(d2))
    PROVE  \A k \in 1..n2 : \E j \in 1..n1 : d1[j] = d2[k]
<1> USE DEF ListOf
<1>1. IsTree(Tree(d1), Leaves(d1)) /\ IsTree(Tree(d2), Leaves(d2))
  BY TreeIsTree
<1>2. \A k \in DOMAIN Leaves(d1) : \E d : Leaves(d1)[k] = LeafHash(d)
  BY DEF Leaves
<1>3. PICK t1, t2 : t1 = Tree(d1) /\ t2 = Tree(d2)
  OBVIOUS
<1>4. /\ \A a, b : NodeHash(a, b) \in NodesOf(t1) => a \in NodesOf(t1) /\ b \in NodesOf(t1)
      /\ \A d : LeafHash(d) \in NodesOf(t1) => \E k \in DOMAIN Leaves(d1) : Leaves(d1)[k] = LeafHash(d)
  BY <1>1, <1>2, <1>3, NodesDecompose
<1>5. Root(t1) \in NodesOf(t1)
  <2>1. 1 \in DOMAIN t1[Len(t1)] /\ Len(t1) \in DOMAIN t1
    BY <1>1, <1>3 DEF IsTree
  <2> QED BY <2>1 DEF Root, NodesOf
<1>6. \A k \in 1..Len(Leaves(d2)) : Leaves(d2)[k] \in NodesOf(t1)
  <2>1. Root(t2) \in NodesOf(t1)
    BY <1>5, <1>3
  <2>2. PICK U : U = NodesOf(t1)
    OBVIOUS
  <2>3. \A a, b : NodeHash(a, b) \in U => a \in U /\ b \in U
    BY <1>4, <2>2, Zenon
  <2>4. \A k \in 1..Len(Leaves(d2)) : Leaves(d2)[k] \in U
    BY <1>1, <1>3, <2>1, <2>2, <2>3, RootBringsAll
  <2> QED BY <2>2, <2>4
<1>7. Len(Leaves(d2)) = n2
  <2>1. ASSUME NEW s, NEW e, s = [i \in 1..n2 |-> e[i]] PROVE Len(s) = n2
    BY <2>1
  <2>2. Leaves(d2) = [i \in 1..n2 |-> Leaves(d2)[i]]
    BY DEF Leaves
  <2> QED BY <2>1, <2>2
<1>8. ASSUME NEW k \in 1..n2 PROVE \E j \in 1..n1 : d1[j] = d2[k]
  <2>1. LeafHash(d2[k]) \in NodesOf(t1)
    BY <1>6, <1>7 DEF Leaves
  <2>2. PICK j \in DOMAIN Leaves(d1) : Leaves(d1)[j] = LeafHash(d2[k])
    BY <2>1, <1>4
  <2>3. j \in 1..n1 /\ LeafHash(d1[j]) = LeafHash(d2[k])
    BY <2>2 DEF Leaves
  <2> QED BY <2>3 DEF LeafHash
<1> QED BY <1>8

-----------------------------------------------------------------------------
(* What a proof proves *)

\* The recursive definition of Folded, of g over the first n steps.
IsFold(g, leaf, path, n) ==
    g = [m \in 0..n |-> IF m = 0 THEN leaf ELSE Combine(g[m - 1], path[m])]

\* It has a value.
LEMMA FoldsExist ==
    ASSUME NEW leaf, NEW path, NEW n \in Nat
    PROVE  \E g : IsFold(g, leaf, path, n)
<1> DEFINE Has(l) == \E g : g = [m \in 0..l |-> IF m = 0 THEN leaf ELSE Combine(g[m - 1], path[m])]
<1> USE DEF IsFold
<1> DEFINE Bad == {l \in Nat : ~Has(l)}
<1>1. SUFFICES ASSUME Bad # {} PROVE FALSE
  OBVIOUS
<1>2. PICK l \in Bad : \A k \in Bad : l <= k
  BY <1>1, LeastNatural
<1>3. Has(0)
  <2> DEFINE g == [m \in 0..0 |-> leaf]
  <2>1. g = [m \in 0..0 |-> IF m = 0 THEN leaf ELSE Combine(g[m - 1], path[m])]
    OBVIOUS
  <2> QED BY <2>1
<1>4. l # 0 /\ l \in Nat /\ l - 1 \in Nat
  <2>1. l \in Nat /\ ~Has(l)
    BY <1>2, Zenon
  <2>2. l # 0
    BY <1>3, <2>1, Zenon
  <2> QED BY <2>1, <2>2
<1>5. Has(l - 1)
  <2>1. ~(l <= l - 1)
    BY <1>4
  <2>2. l - 1 \notin Bad
    BY <1>2, <2>1, Zenon
  <2> QED BY <1>4, <2>2, Zenon
<1>6. PICK g : g = [m \in 0..(l - 1) |-> IF m = 0 THEN leaf ELSE Combine(g[m - 1], path[m])]
  BY <1>5
<1> DEFINE f == [m \in 0..l |-> IF m = l THEN Combine(g[l - 1], path[l]) ELSE g[m]]
<1>7. \A m \in 0..l : f[m] = IF m = 0 THEN leaf ELSE Combine(f[m - 1], path[m])
  <2> SUFFICES ASSUME NEW m \in 0..l
               PROVE  f[m] = IF m = 0 THEN leaf ELSE Combine(f[m - 1], path[m])
    OBVIOUS
  <2>1. CASE m = l
    <3>1. f[m] = Combine(g[l - 1], path[l]) /\ m # 0
      BY <2>1, <1>4
    <3>2. f[m - 1] = g[l - 1]
      BY <2>1, <1>4
    <3> QED BY <2>1, <3>1, <3>2
  <2>2. CASE m # l
    <3>1. m \in 0..(l - 1) /\ f[m] = g[m]
      BY <2>2, <1>4
    <3>2. g[m] = IF m = 0 THEN leaf ELSE Combine(g[m - 1], path[m])
      BY <3>1, <1>6
    <3>3. m # 0 => f[m - 1] = g[m - 1]
      BY <3>1, <1>4
    <3> QED BY <3>1, <3>2, <3>3
  <2> QED BY <2>1, <2>2
<1>8. f = [m \in 0..l |-> IF m = 0 THEN leaf ELSE Combine(f[m - 1], path[m])]
  <2>1. f = [m \in 0..l |-> f[m]]
    BY Zenon
  <2> QED BY <1>7, <2>1, Zenon
<1>9. Has(l)
  BY <1>8
<1>10. FALSE
  BY <1>2, <1>9, Zenon
<1> QED BY <1>10

\* Folded satisfies its recursive definition.
LEMMA FoldIs ==
    ASSUME NEW leaf, NEW path, Len(path) \in Nat
    PROVE  IsFold(Folded(leaf, path), leaf, path, Len(path))
<1>1. PICK g : IsFold(g, leaf, path, Len(path))
  BY FoldsExist
<1> QED BY <1>1, Zenon DEF Folded, IsFold

\* A path folds as its prefix does, and one step more.
LEMMA FoldAppend ==
    ASSUME NEW T, NEW leaf, NEW path \in Seq(T), NEW step \in T
    PROVE  Folded(leaf, Append(path, step))[Len(Append(path, step))]
             = Combine(Folded(leaf, path)[Len(path)], step)
<1> DEFINE long == Append(path, step)
<1> DEFINE f == Folded(leaf, path)
<1> DEFINE g == Folded(leaf, long)
<1>1. PICK n \in Nat : n = Len(path)
  OBVIOUS
<1>2. Len(long) = n + 1 /\ long[n + 1] = step /\ \A i \in 1..n : long[i] = path[i]
  BY <1>1
<1>3. f = [m \in 0..n |-> IF m = 0 THEN leaf ELSE Combine(f[m - 1], path[m])]
  BY <1>1, FoldIs DEF IsFold
<1>4. g = [m \in 0..(n + 1) |-> IF m = 0 THEN leaf ELSE Combine(g[m - 1], long[m])]
  <2>1. Len(long) \in Nat
    BY <1>2
  <2>2. IsFold(g, leaf, long, Len(long))
    BY <2>1, FoldIs
  <2>3. IsFold(g, leaf, long, n + 1)
    BY <1>2, <2>2
  <2> QED BY <2>3 DEF IsFold
<1> HIDE DEF f, g, long
<1> DEFINE Bad == {m \in 0..n : g[m] # f[m]}
<1>5. Bad = {}
  <2> SUFFICES ASSUME Bad # {} PROVE FALSE
    OBVIOUS
  <2>1. Bad \subseteq Nat
    OBVIOUS
  <2>2. PICK m \in Bad : \A k \in Bad : m <= k
    BY <2>1, LeastNatural, Zenon
  <2>3. m \in 0..n /\ g[m] # f[m]
    BY <2>2
  <2>4. m # 0
    BY <2>3, <1>3, <1>4
  <2>5. m - 1 \in 0..n /\ m \in 1..n /\ ~(m <= m - 1)
    BY <2>3, <2>4
  <2>6. g[m - 1] = f[m - 1]
    BY <2>2, <2>5, Zenon
  <2>7. g[m] = Combine(g[m - 1], long[m]) /\ f[m] = Combine(f[m - 1], path[m])
    BY <2>4, <2>5, <1>3, <1>4
  <2>8. long[m] = path[m]
    BY <2>5, <1>2
  <2> QED BY <2>3, <2>6, <2>7, <2>8
<1>6. g[n] = f[n]
  BY <1>5
<1>7. g[n + 1] = Combine(g[n], long[n + 1])
  BY <1>4
<1>8. g[n + 1] = Combine(f[n], step)
  BY <1>2, <1>6, <1>7
<1> QED BY <1>1, <1>2, <1>8 DEF f, g, long

\* The empty path folds to the leaf.
LEMMA FoldEmpty ==
    ASSUME NEW leaf
    PROVE  Folded(leaf, <<>>)[0] = leaf
<1>1. PICK path : path = <<>> /\ Len(path) = 0
  OBVIOUS
<1>2. IsFold(Folded(leaf, path), leaf, path, Len(path))
  BY <1>1, FoldIs
<1>3. Folded(leaf, path)[0] = leaf
  BY <1>1, <1>2 DEF IsFold
<1> QED BY <1>1, <1>3

\* The recursive definition of Climb, of g over the first n levels.
IsClimb(g, tree, start, n) ==
    g = [h \in 0..n |-> IF h = 0 THEN start ELSE Up(tree[h], g[h - 1])]

\* It has a value.
LEMMA ClimbExists ==
    ASSUME NEW tree, NEW start, NEW n \in Nat
    PROVE  \E g : IsClimb(g, tree, start, n)
<1> DEFINE Has(l) == \E g : g = [h \in 0..l |-> IF h = 0 THEN start
                                      ELSE Up(tree[h], g[h - 1])]
<1> USE DEF IsClimb
<1> DEFINE Bad == {l \in Nat : ~Has(l)}
<1>1. SUFFICES ASSUME Bad # {} PROVE FALSE
  OBVIOUS
<1>2. PICK l \in Bad : \A k \in Bad : l <= k
  BY <1>1, LeastNatural
<1>3. Has(0)
  <2> DEFINE g == [h \in 0..0 |-> start]
  <2>1. g = [h \in 0..0 |-> IF h = 0 THEN start ELSE Up(tree[h], g[h - 1])]
    OBVIOUS
  <2> QED BY <2>1
<1>4. l # 0 /\ l \in Nat /\ l - 1 \in Nat
  <2>1. l \in Nat /\ ~Has(l)
    BY <1>2, Zenon
  <2>2. l # 0
    BY <1>3, <2>1, Zenon
  <2> QED BY <2>1, <2>2
<1>5. Has(l - 1)
  <2>1. ~(l <= l - 1)
    BY <1>4
  <2>2. l - 1 \notin Bad
    BY <1>2, <2>1, Zenon
  <2> QED BY <1>4, <2>2, Zenon
<1>6. PICK g : g = [h \in 0..(l - 1) |-> IF h = 0 THEN start ELSE Up(tree[h], g[h - 1])]
  BY <1>5
<1> DEFINE f == [h \in 0..l |-> IF h = l THEN Up(tree[l], g[l - 1]) ELSE g[h]]
<1>7. \A h \in 0..l : f[h] = IF h = 0 THEN start ELSE Up(tree[h], f[h - 1])
  <2> SUFFICES ASSUME NEW h \in 0..l
               PROVE  f[h] = IF h = 0 THEN start ELSE Up(tree[h], f[h - 1])
    OBVIOUS
  <2>1. CASE h = l
    <3>1. f[h] = Up(tree[l], g[l - 1]) /\ h # 0
      BY <2>1, <1>4
    <3>2. f[h - 1] = g[l - 1]
      BY <2>1, <1>4
    <3> QED BY <2>1, <3>1, <3>2
  <2>2. CASE h # l
    <3>1. h \in 0..(l - 1) /\ f[h] = g[h]
      BY <2>2, <1>4
    <3>2. g[h] = IF h = 0 THEN start ELSE Up(tree[h], g[h - 1])
      BY <3>1, <1>6
    <3>3. h # 0 => f[h - 1] = g[h - 1]
      BY <3>1, <1>4
    <3> QED BY <3>1, <3>2, <3>3
  <2> QED BY <2>1, <2>2
<1>8. f = [h \in 0..l |-> IF h = 0 THEN start ELSE Up(tree[h], f[h - 1])]
  <2>1. f = [h \in 0..l |-> f[h]]
    BY Zenon
  <2> QED BY <1>7, <2>1, Zenon
<1>9. Has(l)
  BY <1>8
<1>10. FALSE
  BY <1>2, <1>9, Zenon
<1> QED BY <1>10

\* Climb satisfies its recursive definition.
LEMMA ClimbIs ==
    ASSUME NEW tree, NEW index, Len(tree) - 1 \in Nat
    PROVE  IsClimb(Climb(tree, index), tree, [idx |-> index, path |-> <<>>], Len(tree) - 1)
<1>1. PICK g : IsClimb(g, tree, [idx |-> index, path |-> <<>>], Len(tree) - 1)
  BY ClimbExists
<1> QED BY <1>1, Zenon DEF Climb, IsClimb

\* The first nodes of a level as parents of the c nodes of the one below.
ParentsOf(p, s, c) ==
    \A i \in 1..((c + 1) \div 2) :
        p[i] = IF 2 * i > c THEN s[2 * i - 1] ELSE NodeHash(s[2 * i - 1], s[2 * i])

\* Every step a path may take at a level of c nodes is in T.
StepsIn(s, c, T) ==
    \A i \in 1..c : \A side \in {"right", "left"} : [hash |-> s[i], side |-> side] \in T

\* The climb at one of the first c nodes of a level: its path folds to it.
ClimbAt(at, s, c, T, leaf) ==
    /\ at.idx \in 0..(c - 1)
    /\ at.path \in Seq(T)
    /\ Folded(leaf, at.path)[Len(at.path)] = s[at.idx + 1]

\* A climb that is at a node is at its parent one level up.
LEMMA UpFolds ==
    ASSUME NEW T, NEW s, NEW c \in Nat \ {0}, Len(s) = c, NEW p, ParentsOf(p, s, c),
           StepsIn(s, c, T), NEW at, NEW leaf, ClimbAt(at, s, c, T, leaf)
    PROVE  ClimbAt(Up(s, at), p, (c + 1) \div 2, T, leaf)
<1> USE DEF ParentsOf, StepsIn, ClimbAt
<1>1. PICK x \in 0..(c - 1), path \in Seq(T) : x = at.idx /\ path = at.path
  OBVIOUS
<1>2. PICK sib \in Int : sib = Sibling(x)
  BY DEF Sibling
<1>3. PICK side \in {"right", "left"} : side = IF sib > x THEN "right" ELSE "left"
  OBVIOUS
<1>4. PICK step : step = [hash |-> s[sib + 1], side |-> side]
  OBVIOUS
<1>5. PICK longer : longer = IF sib < c THEN Append(path, step) ELSE path
  OBVIOUS
<1>6. Up(s, at).idx = x \div 2 /\ Up(s, at).path = longer
  <2>1. Up(s, at) = [idx |-> x \div 2, path |-> longer]
    BY <1>1, <1>2, <1>3, <1>4, <1>5 DEF Up
  <2> QED BY <2>1
<1>7. x \div 2 \in 0..((c + 1) \div 2 - 1) /\ x \div 2 + 1 \in 1..((c + 1) \div 2)
  OBVIOUS
<1>8. PICK i \in 1..((c + 1) \div 2) : i = x \div 2 + 1
  BY <1>7
<1>9. Folded(leaf, path)[Len(path)] = s[x + 1]
  BY <1>1
<1>10. sib < c => sib + 1 \in 1..c
  <2>1. CASE x % 2 = 0
    <3>1. sib = x + 1
      BY <1>2, <2>1 DEF Sibling
    <3> QED BY <3>1
  <2>2. CASE x % 2 # 0
    <3>1. sib = x - 1 /\ x # 0
      BY <1>2, <2>2 DEF Sibling
    <3> QED BY <3>1
  <2> QED BY <2>1, <2>2
<1>11. sib < c => step \in T
  BY <1>3, <1>4, <1>10
<1>12. longer \in Seq(T)
  BY <1>5, <1>11
<1>13. Combine(s[x + 1], step) = IF side = "right" THEN NodeHash(s[x + 1], s[sib + 1])
                                                   ELSE NodeHash(s[sib + 1], s[x + 1])
  BY <1>4 DEF Combine
<1>14. Folded(leaf, longer)[Len(longer)] = p[i]
  <2>1. CASE x % 2 = 0 /\ x + 1 < c
    <3>1. sib = x + 1 /\ side = "right" /\ sib < c
      BY <1>2, <1>3, <2>1 DEF Sibling
    <3>2. x + 1 = 2 * i - 1 /\ sib + 1 = 2 * i /\ ~(2 * i > c)
      BY <1>8, <2>1, <3>1
    <3>3. p[i] = NodeHash(s[x + 1], s[sib + 1])
      BY <3>2
    <3>4. longer = Append(path, step) /\ step \in T
      BY <1>5, <1>11, <3>1
    <3>5. Folded(leaf, longer)[Len(longer)] = Combine(s[x + 1], step)
      BY <3>4, <1>9, FoldAppend
    <3> QED BY <3>1, <3>3, <3>5, <1>13
  <2>2. CASE x % 2 = 0 /\ ~(x + 1 < c)
    <3>1. sib = x + 1 /\ ~(sib < c)
      BY <1>2, <2>2 DEF Sibling
    <3>2. x + 1 = 2 * i - 1 /\ 2 * i > c
      BY <1>8, <2>2
    <3>3. p[i] = s[x + 1]
      BY <3>2
    <3> QED BY <1>5, <1>9, <3>1, <3>3
  <2>3. CASE x % 2 # 0
    <3>1. sib = x - 1 /\ side = "left" /\ sib < c
      BY <1>2, <1>3, <2>3 DEF Sibling
    <3>2. sib + 1 = 2 * i - 1 /\ x + 1 = 2 * i /\ ~(2 * i > c)
      BY <1>8, <2>3, <3>1
    <3>3. p[i] = NodeHash(s[sib + 1], s[x + 1])
      BY <3>2
    <3>4. longer = Append(path, step) /\ step \in T
      BY <1>5, <1>11, <3>1
    <3>5. Folded(leaf, longer)[Len(longer)] = Combine(s[x + 1], step)
      BY <3>4, <1>9, FoldAppend
    <3> QED BY <3>1, <3>3, <3>5, <1>13
  <2> QED BY <2>1, <2>2, <2>3
<1>15. p[Up(s, at).idx + 1] = p[i]
  BY <1>6, <1>8
<1> QED BY <1>6, <1>7, <1>12, <1>14, <1>15

\* The path of a leaf of a tree folds to its root.
LEMMA ClimbReachesRoot ==
    ASSUME NEW tree, NEW leaves, IsTree(tree, leaves), NEW index \in 0..(Len(leaves) - 1)
    PROVE  LET path == Climb(tree, index)[Len(tree) - 1].path
           IN  Folded(leaves[index + 1], path)[Len(path)] = Root(tree)
<1> DEFINE C == Climb(tree, index)
<1> DEFINE leaf == leaves[index + 1]
<1> DEFINE T == [hash : NodesOf(tree), side : {"right", "left"}]
<1> DEFINE Fits(h) == /\ C[h].idx \in 0..(Len(tree[h + 1]) - 1)
                      /\ C[h].path \in Seq(T)
                      /\ Folded(leaf, C[h].path)[Len(C[h].path)] = tree[h + 1][C[h].idx + 1]
<1>0. PICK n \in Nat \ {0} : n = Len(tree)
  BY DEF IsTree
<1>1. PICK start : start = [idx |-> index, path |-> <<>>]
  OBVIOUS
<1>2. C = [h \in 0..(n - 1) |-> IF h = 0 THEN start ELSE Up(tree[h], C[h - 1])]
  <2>1. IsClimb(C, tree, [idx |-> index, path |-> <<>>], Len(tree) - 1)
    BY <1>0, ClimbIs
  <2>2. IsClimb(C, tree, start, n - 1)
    BY <2>1, <1>0, <1>1
  <2> QED BY <2>2 DEF IsClimb
<1>3. \A h \in 1..n : \A i \in 1..Len(tree[h]) : \A side \in {"right", "left"} :
          [hash |-> tree[h][i], side |-> side] \in T
  <2>1. \A h \in 1..n : \A i \in 1..Len(tree[h]) : tree[h][i] \in NodesOf(tree)
    BY <1>0 DEF IsTree, NodesOf
  <2>2. ASSUME NEW N, NEW v \in N, NEW side \in {"right", "left"}
        PROVE  [hash |-> v, side |-> side] \in [hash : N, side : {"right", "left"}]
    OBVIOUS
  <2> QED BY <2>1, <2>2
<1> HIDE DEF C, T, leaf
<1> DEFINE Bad == {h \in 0..(n - 1) : ~Fits(h)}
<1>4. Fits(0)
  <2>1. C[0] = start
    BY <1>2, <1>0
  <2>2. start.idx = index /\ start.path = <<>> /\ Len(<<>>) = 0
    BY <1>1
  <2>3. tree[1] = leaves
    BY DEF IsTree
  <2>4. <<>> \in Seq(T)
    OBVIOUS
  <2>5. Folded(leaf, <<>>)[0] = leaf
    BY FoldEmpty
  <2>6. index \in 0..(Len(tree[1]) - 1) /\ leaf = tree[1][index + 1]
    BY <2>3 DEF leaf
  <2>7. C[0].idx = index /\ C[0].path = <<>> /\ Len(C[0].path) = 0
    BY <2>1, <2>2
  <2> QED BY <2>4, <2>5, <2>6, <2>7
<1>5. Bad = {}
  <2> SUFFICES ASSUME Bad # {} PROVE FALSE
    OBVIOUS
  <2>1. Bad \subseteq Nat
    OBVIOUS
  <2>2. PICK h \in Bad : \A k \in Bad : h <= k
    BY <2>1, LeastNatural, Zenon
  <2>3. h \in 0..(n - 1) /\ ~Fits(h)
    BY <2>2, Zenon
  <2>4. h # 0
    BY <2>3, <1>4, Zenon
  <2>5. h \in 1..(n - 1) /\ h - 1 \in 0..(n - 1) /\ ~(h <= h - 1) /\ h + 1 \in 2..n /\ h \in 1..n
    BY <2>3, <2>4
  <2>6. h - 1 \notin Bad
    BY <2>2, <2>5, Zenon
  <2>7. Fits(h - 1)
    BY <2>5, <2>6, Zenon
  <2>8. C[h] = Up(tree[h], C[h - 1])
    BY <1>2, <2>4, <2>5
  <2>9. PICK s, p, at, up : s = tree[h] /\ p = tree[h + 1] /\ at = C[h - 1] /\ up = C[h]
    OBVIOUS
  <2>10. PICK c \in Nat \ {0} : c = Len(s)
    BY <1>0, <2>5, <2>9 DEF IsTree
  <2>11. /\ Len(p) = (c + 1) \div 2
         /\ \A i \in 1..((c + 1) \div 2) :
              p[i] = IF 2 * i > c THEN s[2 * i - 1] ELSE NodeHash(s[2 * i - 1], s[2 * i])
    <3>1. PICK g \in 2..n : g = h + 1 /\ g - 1 = h
      BY <2>5
    <3>2. /\ Len(tree[g]) = (Len(tree[g - 1]) + 1) \div 2
          /\ \A i \in 1..Len(tree[g]) :
                tree[g][i] = IF 2 * i > Len(tree[g - 1]) THEN tree[g - 1][2 * i - 1]
                               ELSE NodeHash(tree[g - 1][2 * i - 1], tree[g - 1][2 * i])
      BY <1>0, Zenon DEF IsTree
    <3>3. tree[g] = p /\ tree[g - 1] = s
      BY <2>9, <3>1
    <3> QED BY <3>2, <3>3, <2>10
  <2>12. /\ at.idx \in 0..(c - 1) /\ at.path \in Seq(T)
         /\ Folded(leaf, at.path)[Len(at.path)] = s[at.idx + 1]
    <3>1. h - 1 + 1 = h
      BY <2>5
    <3> QED BY <2>7, <2>9, <2>10, <3>1
  <2>13. StepsIn(s, c, T)
    BY <1>3, <2>5, <2>9, <2>10 DEF StepsIn
  <2>14. up = Up(s, at)
    BY <2>8, <2>9
  <2>15. /\ up.idx \in 0..((c + 1) \div 2 - 1) /\ up.path \in Seq(T)
         /\ Folded(leaf, up.path)[Len(up.path)] = p[up.idx + 1]
    <3>1. ParentsOf(p, s, c)
      BY <2>11 DEF ParentsOf
    <3>2. ClimbAt(at, s, c, T, leaf)
      BY <2>12 DEF ClimbAt
    <3>3. ClimbAt(Up(s, at), p, (c + 1) \div 2, T, leaf)
      BY <2>10, <2>13, <3>1, <3>2, UpFolds
    <3>4. ClimbAt(up, p, (c + 1) \div 2, T, leaf)
      BY <3>3, <2>14
    <3> QED BY <3>4 DEF ClimbAt
  <2>16. Fits(h)
    BY <2>9, <2>11, <2>15
  <2> QED BY <2>3, <2>16, Zenon
<1>6. Fits(n - 1)
  <2>1. n - 1 \in 0..(n - 1)
    OBVIOUS
  <2> QED BY <2>1, <1>5, Zenon
<1>7. n - 1 + 1 = n
  OBVIOUS
<1>8. Len(tree[n]) = 1
  BY <1>0 DEF IsTree
<1>9. C[n - 1].idx = 0
  <2>1. PICK m \in Nat : m = Len(tree[n - 1 + 1]) /\ m = 1
    BY <1>7, <1>8
  <2>2. C[n - 1].idx \in 0..(m - 1)
    BY <1>6, <2>1
  <2> QED BY <2>1, <2>2
<1>10. Folded(leaf, C[n - 1].path)[Len(C[n - 1].path)] = tree[n][1]
  BY <1>6, <1>7, <1>9
<1> QED BY <1>0, <1>10 DEF C, leaf, Root

\* A proof cut for an entry of a tree verifies with that entry's digest, and
\* with no other.
THEOREM ProofProvesItsEntry ==
    ASSUME NEW digests, NEW n \in Nat \ {0}, Len(digests) = n, DOMAIN digests = 1..n,
           NEW index \in 0..(n - 1), NEW d
    PROVE  VerifyProof(d, ProofFor(Tree(digests), index)) <=> d = digests[index + 1]
<1>1. PICK tree : tree = Tree(digests)
  OBVIOUS
<1>2. IsTree(tree, Leaves(digests))
  BY <1>1, TreeIsTree
<1>3. PICK leaves : leaves = Leaves(digests)
  OBVIOUS
<1>4. Len(leaves) = n /\ leaves[index + 1] = LeafHash(digests[index + 1]) /\ tree[1] = leaves
  <2>1. ASSUME NEW s, NEW e, s = [i \in 1..n |-> e[i]] PROVE Len(s) = n
    BY <2>1
  <2>2. leaves = [i \in 1..n |-> leaves[i]]
    BY <1>3 DEF Leaves
  <2>3. Len(leaves) = n
    BY <2>1, <2>2
  <2> QED BY <2>3, <1>2, <1>3 DEF Leaves, IsTree
<1>5. PICK path : path = Climb(tree, index)[Len(tree) - 1].path
  OBVIOUS
<1>6. Folded(leaves[index + 1], path)[Len(path)] = Root(tree)
  BY <1>2, <1>3, <1>4, <1>5, ClimbReachesRoot
<1>7. PICK p : p = ProofFor(tree, index)
  OBVIOUS
<1>8. /\ p.leafIndex = index /\ p.treeSize = n /\ p.entryHash = leaves[index + 1]
      /\ p.path = path /\ p.root = Root(tree)
  BY <1>4, <1>5, <1>7 DEF ProofFor
<1>9. VerifyProof(d, p) <=> /\ LeafHash(d) = leaves[index + 1]
                            /\ Folded(LeafHash(d), path)[Len(path)] = Root(tree)
  BY <1>8 DEF VerifyProof
<1>10. LeafHash(d) = leaves[index + 1] <=> d = digests[index + 1]
  BY <1>4 DEF LeafHash
<1>11. VerifyProof(d, p) <=> d = digests[index + 1]
  BY <1>6, <1>9, <1>10
<1> QED BY <1>1, <1>7, <1>11

-----------------------------------------------------------------------------
(* The ledger and its bundles *)

\* The digests of the first entries of a ledger, and the bundle cut from them.
Cut(es, size) == [k \in 1..size |-> <<k, es[k].inc>>]

BundleOf(es, size, inc) ==
    [root |-> Root(Tree(Cut(es, size))), inc |-> inc, size |-> size,
     proofs |-> [k \in {k \in 1..size : es[k].inc = inc} |->
                    ProofFor(Tree(Cut(es, size)), k - 1)]]

\* The bundle is the one of some first entries of the ledger: what was written
\* is what the ledger said, which it still says however much it has grown.
BundleKept ==
    \/ bundle = NoBundle
    \/ \E size \in 1..Len(entries), inc \in Payments : bundle = BundleOf(entries, size, inc)

AttestInv ==
    /\ entries \in Seq([inc : Payments, edited : BOOLEAN])
    /\ Len(entries) <= MaxEntries
    /\ BundleKept

\* A bundle depends on the payments of the entries it was cut from alone.
LEMMA BundleSame ==
    ASSUME NEW es, NEW fs, NEW size \in Nat, NEW inc,
           \A k \in 1..size : fs[k].inc = es[k].inc
    PROVE  BundleOf(fs, size, inc) = BundleOf(es, size, inc)
<1>1. Cut(fs, size) = Cut(es, size)
  BY DEF Cut
<1>2. {k \in 1..size : fs[k].inc = inc} = {k \in 1..size : es[k].inc = inc}
  OBVIOUS
<1> QED BY <1>1, <1>2, Zenon DEF BundleOf

LEMMA BundleStays ==
    ASSUME AttestInv, UNCHANGED bundle, Len(entries') \in Nat, Len(entries) <= Len(entries'),
           \A k \in 1..Len(entries) : entries'[k].inc = entries[k].inc
    PROVE  BundleKept'
<1>1. CASE bundle = NoBundle
  BY <1>1 DEF BundleKept
<1>2. CASE bundle # NoBundle
  <2>1. PICK size \in 1..Len(entries), inc \in Payments : bundle = BundleOf(entries, size, inc)
    BY <1>2 DEF AttestInv, BundleKept
  <2>2. Len(entries) \in Nat
    BY DEF AttestInv
  <2>3. size \in Nat /\ size \in 1..Len(entries') /\ \A k \in 1..size : entries'[k].inc = entries[k].inc
    BY <2>1, <2>2
  <2>4. BundleOf(entries', size, inc) = BundleOf(entries, size, inc)
    BY <2>3, BundleSame
  <2>5. bundle' = BundleOf(entries', size, inc)
    BY <2>1, <2>4
  <2> QED BY <2>3, <2>5 DEF BundleKept
<1> QED BY <1>1, <1>2

LEMMA AttestInitial == AttestInit => AttestInv
  BY AttestAssumption DEF AttestInit, AttestInv, BundleKept

LEMMA AttestAppend ==
    ASSUME AttestInv, NEW inc \in Payments, AppendEntry(inc)
    PROVE  AttestInv'
<1>1. PICK e \in [inc : Payments, edited : BOOLEAN] : e = [inc |-> inc, edited |-> FALSE]
  OBVIOUS
<1>2. entries' = Append(entries, e) /\ Len(entries) < MaxEntries /\ bundle' = bundle
  BY <1>1 DEF AppendEntry
<1>3. /\ entries' \in Seq([inc : Payments, edited : BOOLEAN])
      /\ Len(entries') = Len(entries) + 1
      /\ \A k \in 1..Len(entries) : entries'[k] = entries[k]
  BY <1>2 DEF AttestInv
<1>4. Len(entries') <= MaxEntries
  BY <1>2, <1>3, AttestAssumption DEF AttestInv
<1>5. \A k \in 1..Len(entries) : entries'[k].inc = entries[k].inc
  BY <1>3
<1>6. Len(entries') \in Nat /\ Len(entries) <= Len(entries')
  BY <1>3 DEF AttestInv
<1>7. BundleKept'
  BY <1>2, <1>5, <1>6, BundleStays
<1> QED BY <1>3, <1>4, <1>7 DEF AttestInv

LEMMA AttestEdit ==
    ASSUME AttestInv, NEW k \in DOMAIN entries, EditEntry(k)
    PROVE  AttestInv'
<1>1. PICK yes \in BOOLEAN : yes = TRUE
  OBVIOUS
<1>2. PICK e : e = [entries[k] EXCEPT !.edited = yes]
  OBVIOUS
<1>3. entries' = [entries EXCEPT ![k] = e] /\ bundle' = bundle
  BY <1>1, <1>2, Zenon DEF EditEntry
<1>4. entries[k] \in [inc : Payments, edited : BOOLEAN]
  <2>1. ASSUME NEW S, NEW s \in Seq(S), NEW i \in DOMAIN s PROVE s[i] \in S
    OBVIOUS
  <2> QED BY <2>1, Zenon DEF AttestInv
<1>5. e \in [inc : Payments, edited : BOOLEAN] /\ e.inc = entries[k].inc
  BY <1>2, <1>4
<1>6. /\ entries' \in Seq([inc : Payments, edited : BOOLEAN])
      /\ Len(entries') = Len(entries)
      /\ \A j \in 1..Len(entries) : entries'[j] = IF j = k THEN e ELSE entries[j]
  BY <1>3, <1>5 DEF AttestInv
<1>7. \A j \in 1..Len(entries) : entries'[j].inc = entries[j].inc
  BY <1>5, <1>6
<1>8. Len(entries') \in Nat /\ Len(entries) <= Len(entries')
  BY <1>6 DEF AttestInv
<1>9. BundleKept'
  BY <1>3, <1>7, <1>8, BundleStays
<1> QED BY <1>6, <1>9 DEF AttestInv

LEMMA AttestCut ==
    ASSUME AttestInv, NEW inc \in Payments, CutBundle(inc)
    PROVE  AttestInv'
<1>1. PICK n \in Nat : n = Len(entries) /\ DOMAIN entries = 1..n
  BY DEF AttestInv
<1>2. n # 0
  BY <1>1 DEF CutBundle, Of
<1>3. Digests(entries) = Cut(entries, n)
  BY <1>1 DEF Digests, Digest, Cut
<1>4. Of(entries, inc) = {k \in 1..n : entries[k].inc = inc}
  BY <1>1 DEF Of
<1>5. PICK t : t = Tree(Cut(entries, n))
  OBVIOUS
<1>6. bundle' = [root |-> Root(t), inc |-> inc, size |-> n,
                 proofs |-> [k \in {k \in 1..n : entries[k].inc = inc} |-> ProofFor(t, k - 1)]]
  BY <1>1, <1>3, <1>4, <1>5, Zenon DEF CutBundle
<1>7. bundle' = BundleOf(entries, n, inc)
  BY <1>5, <1>6, Zenon DEF BundleOf
<1>8. entries' = entries
  BY DEF CutBundle
<1>9. bundle' = BundleOf(entries', n, inc) /\ n \in 1..Len(entries')
  BY <1>1, <1>2, <1>7, <1>8
<1> QED BY <1>8, <1>9 DEF AttestInv, BundleKept

LEMMA AttestStep ==
    ASSUME AttestInv, [AttestNext]_attestVars
    PROVE  AttestInv'
<1>1. CASE UNCHANGED attestVars
  BY <1>1 DEF attestVars, AttestInv, BundleKept
<1>2. CASE AttestNext
  BY <1>2, AttestAppend, AttestEdit, AttestCut DEF AttestNext
<1> QED BY <1>1, <1>2

\* A bundle of the invariant has one proof per entry of its payment, each good
\* for that entry alone.
LEMMA AttestProves == AttestInv => BundleProves
<1> SUFFICES ASSUME AttestInv, bundle # NoBundle
             PROVE  LET es == SubSeq(entries, 1, bundle.size)
                    IN  /\ DOMAIN bundle.proofs = Of(es, bundle.inc)
                        /\ \A k \in DOMAIN bundle.proofs, j \in DOMAIN es :
                               VerifyProof(Digest(es, j), bundle.proofs[k]) <=> j = k
  BY DEF BundleProves
<1>1. PICK size \in 1..Len(entries), inc \in Payments : bundle = BundleOf(entries, size, inc)
  BY DEF AttestInv, BundleKept
<1>2. PICK es : es = SubSeq(entries, 1, size)
  OBVIOUS
<1>3. size \in Nat \ {0} /\ DOMAIN es = 1..size /\ \A k \in 1..size : es[k] = entries[k]
  BY <1>1, <1>2 DEF AttestInv
<1>4. PICK own : own = {k \in 1..size : entries[k].inc = inc}
  OBVIOUS
<1>5. PICK d : d = Cut(entries, size)
  OBVIOUS
<1>6. /\ bundle.size = size /\ bundle.inc = inc
      /\ bundle.proofs = [k \in own |-> ProofFor(Tree(d), k - 1)]
  <2>1. PICK proofs : proofs = [k \in own |-> ProofFor(Tree(d), k - 1)]
    OBVIOUS
  <2>2. bundle = [root |-> Root(Tree(d)), inc |-> inc, size |-> size, proofs |-> proofs]
    BY <1>1, <1>4, <1>5, <2>1, Zenon DEF BundleOf
  <2> QED BY <2>1, <2>2
<1>7. Of(es, inc) = own
  BY <1>3, <1>4 DEF Of
<1>8. Len(d) = size /\ DOMAIN d = 1..size /\ \A j \in 1..size : d[j] = Digest(es, j)
  BY <1>3, <1>5 DEF Cut, Digest
<1>9. ASSUME NEW k \in own, NEW j \in 1..size
      PROVE  VerifyProof(Digest(es, j), bundle.proofs[k]) <=> j = k
  <2>1. k \in 1..size /\ k - 1 \in 0..(size - 1) /\ k - 1 + 1 = k
    BY <1>4
  <2>2. bundle.proofs[k] = ProofFor(Tree(d), k - 1)
    BY <1>6
  <2>3. VerifyProof(d[j], ProofFor(Tree(d), k - 1)) <=> d[j] = d[k - 1 + 1]
    BY <1>3, <1>8, <2>1, ProofProvesItsEntry
  <2>4. d[j] = d[k] <=> j = k
    BY <1>8, <2>1 DEF Digest
  <2> QED BY <1>8, <2>1, <2>2, <2>3, <2>4
<1> QED BY <1>2, <1>3, <1>6, <1>7, <1>9

\* d lists the entries of a ledger, numbered.
Numbered(d, n, x) == ListOf(d, n) /\ \A k \in 1..n : d[k] = <<k, x[k]>>

\* Two ledgers with one root are one.
THEOREM OneRootOneLedger ==
    ASSUME NEW n1 \in Nat \ {0}, NEW n2 \in Nat \ {0}, NEW x1, NEW x2, NEW d1, NEW d2,
           Numbered(d1, n1, x1), Numbered(d2, n2, x2),
           Root(Tree(d1)) = Root(Tree(d2))
    PROVE  n1 = n2 /\ \A k \in 1..n1 : x1[k] = x2[k]
<1>1. ListOf(d1, n1) /\ ListOf(d2, n2)
  BY DEF Numbered
<1>2. \A k \in 1..n2 : \E j \in 1..n1 : d1[j] = d2[k]
  BY <1>1, OneRootOneSet
<1>3. \A k \in 1..n1 : \E j \in 1..n2 : d2[j] = d1[k]
  BY <1>1, OneRootOneSet
<1>4. ASSUME NEW j, NEW k, NEW y, NEW z, <<j, y>> = <<k, z>> PROVE j = k /\ y = z
  BY <1>4
<1>5. ASSUME NEW k \in 1..n2 PROVE k \in 1..n1 /\ x1[k] = x2[k]
  <2>1. PICK j \in 1..n1 : d1[j] = d2[k]
    BY <1>2
  <2>2. <<j, x1[j]>> = <<k, x2[k]>>
    BY <2>1 DEF Numbered
  <2>3. j = k /\ x1[j] = x2[k]
    BY <1>4, <2>2, Zenon
  <2> QED BY <2>1, <2>3
<1>6. ASSUME NEW k \in 1..n1 PROVE k \in 1..n2
  <2>1. PICK j \in 1..n2 : d2[j] = d1[k]
    BY <1>3
  <2>2. <<j, x2[j]>> = <<k, x1[k]>>
    BY <2>1 DEF Numbered
  <2>3. j = k
    BY <1>4, <2>2, Zenon
  <2> QED BY <2>1, <2>3
<1>7. n1 = n2
  <2>1. n2 \in 1..n2 /\ n1 \in 1..n1
    OBVIOUS
  <2>2. n2 \in 1..n1
    BY <1>5, <2>1, Zenon
  <2>3. n1 \in 1..n2
    BY <1>6, <2>1, Zenon
  <2> QED BY <2>2, <2>3
<1> QED BY <1>5, <1>7

LEMMA AttestCommits == AttestInv => RootCommits
<1> SUFFICES ASSUME AttestInv, bundle # NoBundle,
                    NEW n \in 1..MaxEntries, NEW other \in [1..n -> Payments],
                    Root(Tree([k \in 1..n |-> <<k, other[k]>>])) = bundle.root
             PROVE  n = bundle.size /\ \A k \in 1..n : other[k] = entries[k].inc
  BY DEF RootCommits
<1>1. PICK size \in 1..Len(entries), inc \in Payments : bundle = BundleOf(entries, size, inc)
  BY DEF AttestInv, BundleKept
<1>2. size \in Nat \ {0} /\ n \in Nat \ {0}
  BY <1>1, AttestAssumption DEF AttestInv
<1>3. PICK x : x = [k \in 1..size |-> entries[k].inc]
  OBVIOUS
<1>4. PICK d1 : d1 = [k \in 1..n |-> <<k, other[k]>>]
  OBVIOUS
<1>5. PICK d2 : d2 = [k \in 1..size |-> <<k, x[k]>>]
  OBVIOUS
<1>6. Cut(entries, size) = d2
  BY <1>3, <1>5 DEF Cut
<1>7. bundle.root = Root(Tree(d2)) /\ bundle.size = size
  <2>1. PICK proofs : bundle = [root |-> Root(Tree(Cut(entries, size))), inc |-> inc,
                                size |-> size, proofs |-> proofs]
    BY <1>1, Zenon DEF BundleOf
  <2> QED BY <2>1, <1>6
<1>8. Root(Tree(d1)) = Root(Tree(d2))
  BY <1>4, <1>7, Zenon
<1>9. n = size /\ \A k \in 1..n : other[k] = x[k]
  <2>1. Numbered(d1, n, other) /\ Numbered(d2, size, x)
    BY <1>2, <1>4, <1>5 DEF Numbered, ListOf
  <2> QED BY <1>2, <1>8, <2>1, OneRootOneLedger
<1> QED BY <1>3, <1>7, <1>9

LEMMA AttestTyped == AttestInv => AttestTypeOK
<1> SUFFICES ASSUME AttestInv, bundle # NoBundle
             PROVE  bundle.inc \in Payments /\ bundle.size \in 1..MaxEntries
  BY DEF AttestInv, AttestTypeOK
<1>1. PICK size \in 1..Len(entries), inc \in Payments : bundle = BundleOf(entries, size, inc)
  BY DEF AttestInv, BundleKept
<1>2. bundle.inc = inc /\ bundle.size = size
  <2>1. PICK root, proofs : bundle = [root |-> root, inc |-> inc, size |-> size, proofs |-> proofs]
    BY <1>1, Zenon DEF BundleOf
  <2> QED BY <2>1
<1> QED BY <1>1, <1>2, AttestAssumption DEF AttestInv

\* What a payment's evidence says is what the ledger said when it was cut, no
\* more and no less, and one root commits to one ledger.
THEOREM EvidenceHolds == AttestSpec => []EvidenceSound
<1>1. AttestInit => AttestInv
  BY AttestInitial
<1>2. AttestInv /\ [AttestNext]_attestVars => AttestInv'
  BY AttestStep
<1>3. AttestInv => EvidenceSound
  BY AttestProves, AttestCommits, AttestTyped DEF EvidenceSound
<1> QED BY <1>1, <1>2, <1>3, PTL DEF AttestSpec
=============================================================================
