------------------------------ MODULE Downtime ------------------------------
(***************************************************************************)
(* The issuer downtime feed (internal/downtime): the gateway publishes     *)
(* notices, a poller in every process keeps the active ones, and a process *)
(* with the worker role is called back for each that is over, to release   *)
(* the retries parked behind it (app.go releaseParkedRetries).             *)
(***************************************************************************)
EXTENDS Integers, FiniteSets

CONSTANTS
    Notices,            \* ids, 1..n: notices are announced in their order
    KeyOf,              \* TelemetryKey: the issuer a notice is about
    Pollers, Workers,   \* processes; those with the worker role
    Parked,             \* the issuers that retries are parked behind at first
    Timeout, StaleAfter,        \* ticks
    MaxTime, MaxChanges, MaxRestarts    \* bounds

ASSUME DowntimeAssumption ==
    /\ Notices \subseteq Nat /\ IsFiniteSet(Notices) /\ Workers \subseteq Pollers
    /\ {Timeout, StaleAfter, MaxTime, MaxChanges, MaxRestarts} \subseteq Nat

VARIABLES
    time,
    feed,       \* the notices published: [id, resolved, begin, end]
    spell,      \* by notice, a count that stands still while it is active
    changes, restarts,
    poller,     \* by process: the notices it saw active (seen, byKey), the times
                \* of its last good poll and of the listing polled (at most one
                \* each), whether the last poll failed, the listing under way (at
                \* most one) and the notices it has yet to announce
    announced,  \* the calls of releaseParkedRetries
    parked      \* the issuers behind which retries wait for their due time

downtimeVars == <<time, feed, spell, changes, restarts, poller, announced, parked>>

NewPoller == [seen |-> {}, polled |-> {}, asked |-> {}, failed |-> FALSE,
              listing |-> {}, releasing |-> {}]

\* DowntimeEntity.Active; end is optional.
Active(d, t) == ~d.resolved /\ d.begin <= t /\ \A e \in d.end : t <= e

Entries(n) == {d \in feed : d.id = n}

Standing(n) == \E d \in Entries(n) : Active(d, time)

\* What the consumers read: the diagnosis gets Signals, a join by issuer.
MatchingIssuer(p, key) == {d \in poller[p].seen : KeyOf[d.id] = key}

\* readyz, for the downtime view.
Ready(p) ==
    /\ ~poller[p].failed
    /\ \E t \in poller[p].polled : time - t <= StaleAfter

-----------------------------------------------------------------------------
(* The gateway                                                             *)

\* History: the number of the spell changes unless the notice stays active, or
\* stays what it is.
Spells ==
    spell' = [n \in Notices |->
                IF \/ Standing(n) /\ Standing(n)'
                   \/ Entries(n) = Entries(n)' /\ ~Standing(n) /\ ~Standing(n)'
                THEN spell[n] ELSE spell[n] + 1]

Others(n) == feed \ Entries(n)

Change(n) ==
    /\ changes < MaxChanges /\ changes' = changes + 1
    /\ \/ \E begin \in time..(time + 1), end \in {{}, {time + 1}} :   \* published or updated
             feed' = Others(n) \cup {[id |-> n, resolved |-> FALSE, begin |-> begin, end |-> end]}
       \/ \E d \in Entries(n) : feed' = Others(n) \cup {[d EXCEPT !.resolved = TRUE]}
       \/ Entries(n) # {} /\ feed' = Others(n)              \* no longer listed
    /\ UNCHANGED time
    /\ Spells
    /\ UNCHANGED <<restarts, poller, announced, parked>>

\* The HTTP client gives an answer Timeout to come.
TimeGoes ==
    /\ time < MaxTime /\ time' = time + 1
    /\ \A p \in Pollers : \A l \in poller[p].listing : time - l.asked < Timeout
    /\ UNCHANGED feed
    /\ Spells
    /\ UNCHANGED <<changes, restarts, poller, announced, parked>>

-----------------------------------------------------------------------------
(* Poller.Refresh                                                          *)

Free(p) == poller[p].listing = {} /\ poller[p].releasing = {}

\* History: with each notice, the spell it was listed in, and whether active.
Listed(d) == [n |-> d, id |-> d.id, spell |-> spell[d.id], standing |-> Standing(d.id)]

Ask(p) ==
    /\ Free(p)
    /\ poller' = [poller EXCEPT ![p].listing = {[items |-> {Listed(d) : d \in feed}, asked |-> time]}]
    /\ UNCHANGED <<time, feed, spell, changes, restarts, announced, parked>>

RejectedUnlessParsed(answer) == answer = "error"

\* fetch: an error is no answer, a status other than 200 or no JSON; null parses.
Rejected(answer) == answer \in {"error", "null"}

Poll(p) ==
    \E l \in poller[p].listing, answer \in {"list", "error", "null"} :
       LET items == IF answer = "list" THEN l.items ELSE {}
           present == {i \in items : Active(i.n, time)}
           resolved == {i \in poller[p].seen : i.id \notin {a.id : a \in present}}
           ended == {i.id : i \in {j \in items : \E e \in j.n.end : time > e}}
           release == {[id |-> i.id, spell |-> i.spell, standing |-> i.standing,
                       ended |-> i.id \in ended] : i \in resolved}
       IN  /\ poller' = IF Rejected(answer)
                        THEN [poller EXCEPT ![p].listing = {}, ![p].failed = TRUE]
                        ELSE [poller EXCEPT ![p] =
                                [seen |-> present, polled |-> {time}, asked |-> {l.asked},
                                 failed |-> FALSE, listing |-> {},
                                 releasing |-> IF p \in Workers THEN release ELSE {}]]
           /\ UNCHANGED <<time, feed, spell, changes, restarts, announced, parked>>

\* The callback, outside the lock, in the order of the ids.  It appends to the
\* ledger, and what it does not do is touch a parked retry.
Announce(p) ==
    /\ \E r \in poller[p].releasing :
          /\ \A other \in poller[p].releasing : r.id <= other.id
          /\ announced' = announced \cup {[by |-> p, id |-> r.id, spell |-> r.spell, ended |-> r.ended]}
          /\ poller' = [poller EXCEPT ![p].releasing = @ \ {r}]
    /\ UNCHANGED <<time, feed, spell, changes, restarts, parked>>

\* A process stops and starts: nothing of the poller is kept.
Restart(p) ==
    /\ restarts < MaxRestarts /\ restarts' = restarts + 1
    /\ poller' = [poller EXCEPT ![p] = NewPoller]
    /\ announced' = {a \in announced : a.by # p}
    /\ UNCHANGED <<time, feed, spell, changes, parked>>

\* The due time of the retries parked behind an issuer comes.
FallDue(key) ==
    /\ key \in parked /\ parked' = parked \ {key}
    /\ UNCHANGED <<time, feed, spell, changes, restarts, poller, announced>>

-----------------------------------------------------------------------------

DowntimeInit ==
    /\ time = 0 /\ feed = {} /\ changes = 0 /\ restarts = 0
    /\ spell = [n \in Notices |-> 0]
    /\ poller = [p \in Pollers |-> NewPoller]
    /\ announced = {} /\ parked = Parked

DowntimeNext ==
    \/ \E n \in Notices : Change(n)
    \/ \E p \in Pollers : Ask(p) \/ Poll(p) \/ Announce(p) \/ Restart(p)
    \/ \E key \in parked : FallDue(key)
    \/ TimeGoes

DowntimeSpec == DowntimeInit /\ [][DowntimeNext]_downtimeVars

-----------------------------------------------------------------------------

Entities == [id : Notices, resolved : BOOLEAN, begin : 0..(MaxTime + 1),
             end : {{}} \cup {{t} : t \in 0..(MaxTime + 1)}]
Items == [n : Entities, id : Notices, spell : Nat, standing : BOOLEAN]

DowntimeTypeOK ==
    /\ time \in 0..MaxTime /\ changes \in 0..MaxChanges /\ restarts \in 0..MaxRestarts
    /\ feed \subseteq Entities
    /\ \A d, e \in feed : d.id = e.id => d = e
    /\ \A n \in Notices : spell[n] \in Nat
    /\ parked \subseteq Parked
    /\ \A p \in Pollers :
          /\ poller[p].seen \subseteq Items
          /\ \A l \in poller[p].listing : l.items \subseteq Items
          /\ poller[p].releasing # {} => p \in Workers
          /\ Cardinality(poller[p].polled) <= 1

\* A process calls itself ready only on a view the gateway listed no longer ago
\* than the staleness bound and one answer's delay (readyz, Health): failed
\* polls in a row, however many, do not pass for a fresh view.
ReadyMeansFresh ==
    \A p \in Pollers : Ready(p) => \A t \in poller[p].asked : time - t <= StaleAfter + Timeout

\* No release is announced for an outage that goes on: since the listing that
\* showed the notice it was once not active, or a later listing gave an end that
\* has passed.  And none is announced twice for the same spell.  (Failed polls,
\* null bodies, notices that come back, answers overtaken by the feed: Refresh.)
Sound(r, p) ==
    \/ r.ended
    \/ /\ r.standing => r.spell < spell[r.id]
       /\ [by |-> p, id |-> r.id, spell |-> r.spell, ended |-> FALSE] \notin announced

ReleasesAreDue ==
    /\ [](DowntimeTypeOK /\ ReadyMeansFresh)
    /\ [][\A p \in Pollers :
             restarts' = restarts =>
                \A r \in poller[p].releasing \ poller'[p].releasing : Sound(r, p)]_downtimeVars

\* What the package, and the callback, say of a resolution: it releases the
\* retries parked behind the issuer.
ReleasesParked ==
    [][\A a \in announced' \ announced : KeyOf[a.id] \notin parked']_downtimeVars

=============================================================================
