----------------------------- MODULE Telemetry ------------------------------
(***************************************************************************)
(* The rolling window of outcomes per issuer and per method                *)
(* (internal/telemetry): two sorted sets in Redis, written and read by     *)
(* every process.  A call sends its commands in one pipeline, which is no  *)
(* transaction: other clients' commands may run between them, and the      *)
(* client repeats a pipeline whose replies are lost.  All issuers here are *)
(* of one method.                                                          *)
(***************************************************************************)
EXTENDS Integers, Sequences, FiniteSets

CONSTANTS
    Issuers, Recorders,
    Window,             \* ticks an outcome counts for
    TTLMultiplier,      \* windows a key lives without a write
    MaxNow, MaxOutcomes, MaxRepeats     \* bounds

ASSUME TelemetryAssumption ==
    /\ {Window, TTLMultiplier, MaxOutcomes} \subseteq Nat \ {0}
    /\ {MaxNow, MaxRepeats} \subseteq Nat
    /\ Issuers \cap {"method"} = {}

Keys == Issuers \cup {"method"}

VARIABLES
    now,
    zset,       \* by key, members [n, issuer, ok, at] scored by at
    expiry,     \* by key, when it expires
    sending,    \* by recorder, the pipelines in flight, at most one: a member,
                \* the call it is of, and the keys still to write
    reading,    \* the snapshots under way, at most one, with the window of the
                \* issuer as read
    snapshot,   \* the snapshot taken: both windows, and for the properties when
                \* the second was read and what had landed by then
    recorded,   \* the outcomes of all calls, in their order
    landed,     \* by key, the calls whose outcome was ever added
    repeats

telemetryVars == <<now, zset, expiry, sending, reading, snapshot, recorded, landed, repeats>>

Live(key) == IF expiry[key] < now THEN {} ELSE zset[key]

\* cutoffMS and windowRange: an outcome just as old as the window counts.
InWindow(members, time) == {m \in members : m.at >= time - Window}

-----------------------------------------------------------------------------
(* Recorder.RecordOutcome *)

\* As if a member were only what happened and when.
AnonymousMember(i, ok) == [n |-> 1, issuer |-> i, ok |-> ok, at |-> now]

\* encodeMember: the nonce and the counter make every member its own.
Member(i, ok) == [n |-> Len(recorded) + 1, issuer |-> i, ok |-> ok, at |-> now]

RecordOutcome(r) ==
    /\ sending[r] = {} /\ Len(recorded) < MaxOutcomes
    /\ \E i \in Issuers, ok \in BOOLEAN :
          /\ recorded' = Append(recorded, [issuer |-> i, ok |-> ok, at |-> now])
          /\ sending' = [sending EXCEPT ![r] =
                {[member |-> Member(i, ok), call |-> Len(recorded'), to |-> {i, "method"}]}]
    /\ UNCHANGED <<now, zset, expiry, reading, snapshot, landed, repeats>>

TTL == Window * TTLMultiplier

\* ZADD, ZREMRANGEBYSCORE and PEXPIRE of one key, the issuer's before the
\* method's; the trim is by the clock of the call.
Write(r) ==
    /\ \E p \in sending[r] :
          LET key == IF p.member.issuer \in p.to THEN p.member.issuer ELSE "method"
          IN  /\ key \in p.to
              /\ zset' = [zset EXCEPT ![key] = InWindow(Live(key) \cup {p.member}, p.member.at)]
              /\ expiry' = [expiry EXCEPT ![key] = now + TTL]
              /\ landed' = [landed EXCEPT ![key] = @ \cup {p.call}]
              /\ sending' = [sending EXCEPT ![r] = {[p EXCEPT !.to = @ \ {key}]}]
    /\ UNCHANGED <<now, reading, snapshot, recorded, repeats>>

\* The replies arrive, or the client gives up.
Return(r) ==
    /\ sending[r] # {} /\ sending' = [sending EXCEPT ![r] = {}]
    /\ UNCHANGED <<now, zset, expiry, reading, snapshot, recorded, landed, repeats>>

\* The replies are lost, and the client sends the same pipeline again.
Repeat(r) ==
    /\ repeats < MaxRepeats /\ repeats' = repeats + 1
    /\ \E p \in sending[r] :
          sending' = [sending EXCEPT ![r] = {[p EXCEPT !.to = {p.member.issuer, "method"}]}]
    /\ UNCHANGED <<now, zset, expiry, reading, snapshot, recorded, landed>>

-----------------------------------------------------------------------------
(* Recorder.Snapshot: the window of the issuer, then that of the method,   *)
(* both since the same cutoff                                              *)

\* One snapshot a behaviour: it changes nothing.
ReadIssuer ==
    /\ reading = {} /\ snapshot = {}
    /\ \E i \in Issuers : reading' = {[at |-> now, own |-> InWindow(Live(i), now)]}
    /\ UNCHANGED <<now, zset, expiry, sending, snapshot, recorded, landed, repeats>>

ReadMethod ==
    /\ reading' = {}
    /\ \E s \in reading :
          snapshot' = {[at |-> s.at, own |-> s.own, base |-> InWindow(Live("method"), s.at),
                        until |-> now, landed |-> landed["method"]]}
    /\ UNCHANGED <<now, zset, expiry, sending, recorded, landed, repeats>>

ClockTicks ==
    /\ now < MaxNow /\ now' = now + 1
    /\ UNCHANGED <<zset, expiry, sending, reading, snapshot, recorded, landed, repeats>>

-----------------------------------------------------------------------------

TelemetryInit ==
    /\ now = 0 /\ recorded = <<>> /\ repeats = 0
    /\ zset = [key \in Keys |-> {}] /\ landed = [key \in Keys |-> {}]
    /\ expiry = [key \in Keys |-> 0]
    /\ sending = [r \in Recorders |-> {}] /\ reading = {} /\ snapshot = {}

TelemetryNext ==
    \/ \E r \in Recorders : RecordOutcome(r) \/ Write(r) \/ Return(r) \/ Repeat(r)
    \/ ReadIssuer \/ ReadMethod \/ ClockTicks

TelemetrySpec == TelemetryInit /\ [][TelemetryNext]_telemetryVars

-----------------------------------------------------------------------------

Outcomes == [issuer : Issuers, ok : BOOLEAN, at : 0..MaxNow]
Members == [n : 1..MaxOutcomes, issuer : Issuers, ok : BOOLEAN, at : 0..MaxNow]

TelemetryTypeOK ==
    /\ now \in 0..MaxNow /\ repeats \in 0..MaxRepeats
    /\ recorded \in Seq(Outcomes) /\ Len(recorded) <= MaxOutcomes
    /\ zset \in [Keys -> SUBSET Members] /\ landed \in [Keys -> SUBSET (1..MaxOutcomes)]
    /\ expiry \in [Keys -> 0..(MaxNow + TTL)]
    /\ sending \in [Recorders -> SUBSET [member : Members, call : 1..MaxOutcomes, to : SUBSET Keys]]
    /\ \A r \in Recorders : Cardinality(sending[r]) <= 1
    /\ \A s \in reading : s.own \subseteq Members
    /\ \A s \in snapshot : s.own \cup s.base \subseteq Members

\* However calls interleave, are cut short or are repeated, and whenever a key
\* expires: the window of a key counts every outcome that reached the key once,
\* as long as it is no older than the window, and nothing else.  (Two failures
\* alike in the same millisecond stay two: encodeMember.)
WindowIsExact ==
    \A key \in Keys, i \in Issuers, ok \in BOOLEAN :
       Cardinality({m \in InWindow(Live(key), now) : m.issuer = i /\ m.ok = ok})
       = Cardinality({n \in landed[key] : /\ recorded[n].issuer = i /\ recorded[n].ok = ok
                                          /\ recorded[n].at >= now - Window})

\* An outcome of the issuer that a snapshot's baseline misses is one that had
\* not reached the method's window, or had left it, when it was read.
BaselineMissesLittle ==
    \A s \in snapshot : \A m \in s.own \ s.base :
       m.n \notin s.landed \/ m.at < s.until - Window

\* The windows that the diagnosis and the breaker's reports rest on.
TelemetryExact == WindowIsExact /\ BaselineMissesLittle

\* The windows are what they should be, and hold what they should.
WindowsSound == TelemetryTypeOK /\ TelemetryExact

=============================================================================
