------------------------------- MODULE Ledger -------------------------------
(***************************************************************************)
(* The audit ledger: a hash chain in one table (internal/store), appended  *)
(* to by every process of the fleet under a transaction-scoped advisory    *)
(* lock, and the walk that verifies it (internal/audit).  An SQL statement *)
(* is one step.                                                            *)
(*                                                                         *)
(* A content stands for all fields an entry carries besides its place in   *)
(* the chain.  Stored is what the columns make of it: a jsonb document is  *)
(* rendered anew and a timestamp keeps its microseconds.  A digest is the  *)
(* triple it is computed from: equal digests have equal origins.           *)
(***************************************************************************)
EXTENDS Integers, FiniteSets, Sequences

CONSTANTS
    Procs,              \* appenders: workers, receivers, operators
    Contents,           \* entries as callers give them
    Stored,             \* [Contents -> Contents]
    MaxEntries,         \* entries written (a bound)
    MaxEdits            \* edits behind the ledger's back (a bound)

ASSUME LedgerAssumption ==
    /\ Stored \in [Contents -> Contents]
    /\ \A c \in Contents : Stored[Stored[c]] = Stored[c]
    /\ MaxEntries \in Nat /\ MaxEdits \in Nat
    /\ "nobody" \notin Procs

VARIABLES
    rows,       \* the committed rows of audit_ledger
    lock,       \* who holds pg_advisory_xact_lock; Nobody
    tx,         \* [Procs -> transaction]
    lost,       \* appends refused because their place was taken
    edits,      \* the edits made, [how, seq, last]
    pin         \* the last head an operator noted, with the rows under it

ledgerVars == <<rows, lock, tx, lost, edits, pin>>

Genesis == "genesis"
Nobody == "nobody"
NoHead == [seq |-> -1, hash |-> Genesis]

Digest(seq, content, prev) == <<seq, content, prev>>

Entry(seq, content, prev) ==
    [seq |-> seq, content |-> content, prev |-> prev, hash |-> Digest(seq, content, prev)]

\* The newest entry of a set of rows, or the anchor.
HeadOf(set) ==
    IF set = {} THEN [seq |-> 0, hash |-> Genesis]
    ELSE LET e == CHOOSE r \in set : \A q \in set : q.seq <= r.seq
         IN  [seq |-> e.seq, hash |-> e.hash]

-----------------------------------------------------------------------------
(* appendAudit, in a transaction of its own or in the caller's *)

Idle == [stage |-> "idle"]

BeginAppend(p, c) ==
    /\ tx[p].stage = "idle"
    /\ tx' = [tx EXCEPT ![p] = [stage |-> "open", content |-> c, head |-> NoHead]]
    /\ UNCHANGED <<rows, lock, lost, edits, pin>>

TakeLock(p) ==
    /\ tx[p].stage = "open" /\ lock = Nobody
    /\ lock' = p
    /\ UNCHANGED <<rows, tx, lost, edits, pin>>

ReadsBeforeLock(p) == TRUE

\* The head is read in a statement after the one that took the lock.
MayReadHead(p) == lock = p

ReadHead(p) ==
    /\ tx[p].stage = "open" /\ tx[p].head = NoHead /\ MayReadHead(p)
    /\ tx' = [tx EXCEPT ![p].head = HeadOf(rows)]
    /\ UNCHANGED <<rows, lock, lost, edits, pin>>

\* What is hashed is what the column will hold.
Hashed(c) == Stored[c]

InsertEntry(p) ==
    LET head == tx[p].head
        stored == [Entry(head.seq + 1, Stored[tx[p].content], head.hash) EXCEPT
                      !.hash = Digest(head.seq + 1, Hashed(tx[p].content), head.hash)]
        taken == \E r \in rows : r.seq = stored.seq \/ r.hash = stored.hash
    IN  /\ tx[p].stage = "open" /\ head # NoHead /\ lock = p
        /\ head.seq < MaxEntries
        /\ tx' = [tx EXCEPT ![p] = IF taken THEN [stage |-> "failed"]
                                   ELSE [stage |-> "written", entry |-> stored]]
        /\ lost' = IF taken THEN lost + 1 ELSE lost
        /\ UNCHANGED <<rows, lock, edits, pin>>

\* The answer may be lost on its way: the caller then takes it for a failure.
CommitAppend(p, answer) ==
    /\ tx[p].stage = "written"
    /\ rows' = rows \cup {tx[p].entry}
    /\ lock' = Nobody
    /\ tx' = [tx EXCEPT ![p] = answer]
    /\ UNCHANGED <<lost, edits, pin>>

\* A statement fails, the caller's transaction does, or its process dies.
RollBack(p, answer) ==
    /\ tx[p].stage \in {"open", "written", "failed"}
    /\ lock' = IF lock = p THEN Nobody ELSE lock
    /\ tx' = [tx EXCEPT ![p] = answer]
    /\ UNCHANGED <<rows, lost, edits, pin>>

Chain(p) == TakeLock(p) \/ ReadHead(p) \/ InsertEntry(p)

-----------------------------------------------------------------------------
(* Ledger.Verify *)

\* The rows by their numbers, each at its rank.
Rank(set, r) == Cardinality({q \in set : q.seq <= r.seq})
InOrder(set) == [i \in 1..Cardinality(set) |-> CHOOSE r \in set : Rank(set, r) = i]

\* What is wrong with the row a walk meets, if anything, given the row before.
Position(walk, i) == walk[i].seq # i
Linkage(walk, i) == walk[i].prev # (IF i = 1 THEN Genesis ELSE walk[i - 1].hash)
Content(walk, i) == walk[i].hash # Digest(walk[i].seq, walk[i].content, walk[i].prev)

Cause(walk, i) ==
    IF Position(walk, i) THEN "sequence gap"
    ELSE IF Linkage(walk, i) THEN "prev_hash mismatch"
    ELSE IF Content(walk, i) THEN "hash mismatch" ELSE "none"

Verify(set) ==
    LET walk == InOrder(set)
        broken == {i \in DOMAIN walk : Cause(walk, i) # "none"}
        first == CHOOSE i \in broken : \A j \in broken : i <= j
    IN  IF broken = {}
        THEN [valid |-> TRUE, entries |-> Len(walk), at |-> 0, cause |-> "none"]
        ELSE [valid |-> FALSE, entries |-> first - 1,
              at |-> IF Cause(walk, first) = "sequence gap" THEN first ELSE walk[first].seq,
              cause |-> Cause(walk, first)]

-----------------------------------------------------------------------------
(* Around the ledger *)

\* Ledger.Head, noted by an operator.
PinHead ==
    /\ rows # {}
    /\ pin' = [head |-> HeadOf(rows), under |-> rows]
    /\ UNCHANGED <<rows, lock, tx, lost, edits>>

\* Somebody with a database session changes a row, with or without its hash,
\* or deletes it; the constraints on the columns still hold.
EditRow(how) ==
    \E r \in rows :
        /\ Len(edits) < MaxEdits
        /\ LET others == rows \ {r}
               changed(c) == [r EXCEPT !.content = Stored[c],
                                       !.hash = IF how = "rewritten"
                                                THEN Digest(r.seq, Stored[c], r.prev) ELSE @]
           IN  \/ /\ how = "removed"
                  /\ rows' = others
               \/ /\ how \in {"edited", "rewritten"}
                  /\ \E c \in Contents : /\ Stored[c] # r.content
                                         /\ rows' = others \cup {changed(c)}
        /\ edits' = Append(edits, [how |-> how, seq |-> r.seq,
                                   last |-> r.seq = HeadOf(rows).seq])
        /\ UNCHANGED <<lock, tx, lost, pin>>

-----------------------------------------------------------------------------
(* The specification, for appenders whose answer nobody waits for *)

LedgerInit ==
    /\ rows = {} /\ lock = Nobody
    /\ tx = [p \in Procs |-> Idle]
    /\ lost = 0 /\ edits = <<>>
    /\ pin = [head |-> HeadOf({}), under |-> {}]

LedgerNext ==
    \/ \E p \in Procs :
          \/ \E c \in Contents : BeginAppend(p, c)
          \/ Chain(p) \/ CommitAppend(p, Idle) \/ RollBack(p, Idle)
    \/ PinHead
    \/ \E how \in {"edited", "rewritten", "removed"} : EditRow(how)

LedgerSpec == LedgerInit /\ [][LedgerNext]_ledgerVars

-----------------------------------------------------------------------------
(* Properties *)

EntrySeen(e) == e.seq \in 1..MaxEntries /\ e.content \in Contents

\* The variables keep their types.
LedgerTypeOK ==
    /\ \A e \in rows : EntrySeen(e)
    /\ lock \in Procs \cup {Nobody}
    /\ \A p \in Procs : tx[p].stage \in {"idle", "open", "written", "failed"}
                         \/ tx[p].stage = "answered"
    /\ \A p \in Procs : tx[p].stage = "written" => EntrySeen(tx[p].entry)
    /\ lost \in Nat /\ Len(edits) <= MaxEdits

\* postgres.go of AppendAuditRow: the lock makes reading the head and inserting
\* one critical section, so no decision goes unrecorded because another one
\* took its place in the chain, whoever else appends, rolls back or dies.
NoDecisionLost == lost = 0

\* As long as nobody edits the table behind the ledger, the walk finds every
\* entry in place: what was hashed is what is read back, rollbacks leave no
\* gap and concurrent appenders no fork.
ChainVerifies ==
    edits = <<>> =>
        Verify(rows) = [valid |-> TRUE, entries |-> Cardinality(rows), at |-> 0,
                        cause |-> "none"]

\* Appending keeps the chain whole.
ChainSound == NoDecisionLost /\ ChainVerifies

\* ledger.go of Verify, "the reported cause is the earliest explanation rather
\* than a downstream symptom": after one edit the report names the row edited,
\* or the first one that no longer fits.
BreakIsNamed ==
    \A e \in {edits[i] : i \in DOMAIN edits} : Len(edits) = 1 =>
        LET report == Verify(rows)
        IN  /\ e.how = "edited" => /\ report.at = e.seq
                                    /\ report.cause = "hash mismatch"
            /\ e.how = "removed" /\ ~e.last => /\ report.at = e.seq
                                               /\ report.cause = "sequence gap"
            /\ e.how = "rewritten" /\ ~e.last => /\ report.at = e.seq + 1
                                                 /\ report.cause = "prev_hash mismatch"

\* ledger.go of Head, "a later Verify proves history has not been rewritten
\* underneath them": a chain that verifies and still holds the pinned head
\* holds exactly the rows that were under it.
PinnedHistoryStands ==
    LET at == {r \in rows : r.seq = pin.head.seq /\ r.hash = pin.head.hash}
    IN  Verify(rows).valid /\ Verify(pin.under).valid /\ at # {}
            => {r \in rows : r.seq <= pin.head.seq} = pin.under

\* Verifying tells what happened behind the ledger.
EditsAreTold == BreakIsNamed /\ PinnedHistoryStands

\* The audit ledger does what it is kept for: whatever is appended is found, and
\* whatever is changed is told.
LedgerSound == LedgerTypeOK /\ ChainSound /\ EditsAreTold

=============================================================================
