------------------------------ MODULE Session ------------------------------
(***************************************************************************)
(* The live checkout stream (internal/sse): the hub that numbers and fans  *)
(* out the frames of a session, and the handler that carries them to one   *)
(* browser.  A critical section of Hub.mu is one step; between the steps   *)
(* of a handler anything may happen.                                       *)
(*                                                                         *)
(* A client is one browser and the stream it holds, if any; it reconnects  *)
(* as often as it likes and sends back the last event id it has seen.      *)
(* Credentials and session records are left out: a refused request changes *)
(* nothing.                                                                *)
(***************************************************************************)
EXTENDS Integers, Sequences, FiniteSets

CONSTANTS
    Sessions,
    Clients,
    SessionOf,          \* [Clients -> Sessions]
    SubscriberBuffer,
    MaxDrops,           \* HubConfig.MaxDropsBeforeEvict
    MaxStreams,         \* Options.MaxSessions
    MaxRetained,        \* HubConfig.MaxRetainedSequences
    Retention,          \* HubConfig.SequenceRetention, in ticks
    MaxFrames,          \* [Sessions -> Nat], frames published to each (a bound)
    MaxVisits           \* [Sessions -> Nat], times each is occupied anew (a bound)

ASSUME SessionAssumption ==
    /\ SessionOf \in [Clients -> Sessions]
    /\ IsFiniteSet(Clients) /\ IsFiniteSet(Sessions)
    /\ {SubscriberBuffer, MaxDrops, MaxStreams, MaxRetained, Retention} \subseteq Nat \ {0}
    /\ MaxFrames \in [Sessions -> Nat] /\ MaxVisits \in [Sessions -> Nat]

VARIABLES
    \* the hub
    attached,   \* SUBSET Clients, whose stream is a member of its subscriberSet
    known,      \* SUBSET Sessions, the keys of Hub.sessions
    seq, epoch, \* [Sessions -> Nat], of the subscriberSet
    retired,    \* Seq of [id, epoch, age], Hub.retired
    streams,    \* the gauge Hub.streams
    active,     \* Hub.activeSession
    chan,       \* [Clients -> Seq of frames], the buffered channel
    drops,      \* [Clients -> Nat]
    \* the handlers and the browsers
    conn,       \* [Clients -> Stage]
    lastSeq,    \* [Clients -> Nat], the last frame written on this connection
    lastId,     \* [Clients -> Nat], the browser's Last-Event-ID; 0 for none
    \* what an onlooker counts
    handed,     \* [Sessions -> Nat], frames handed to Publish
    heard       \* [Clients -> Nat], the last of them the browser has

setVars  == <<attached, known, seq, epoch, retired, streams, active>>
subVars  == <<chan, drops>>
connVars == <<conn, lastSeq, lastId>>
sessionVars == <<setVars, subVars, connVars, handed, heard>>

\* Where a request stands: not connected; past the lookup; subscribed; the
\* preamble written; in the pump loop.
Stage == {"away", "looked", "open", "greeted", "pumping"}

\* `seq` is the frame's Sequence, `nth` the onlooker's count.
Frame == [seq : Nat \ {0}, nth : Nat \ {0}]

Subs(s) == {c \in attached : SessionOf[c] = s}

Bounded(n) == IF n < Retention THEN n ELSE Retention

-----------------------------------------------------------------------------
(* The retirement list *)

EpochIgnored(ref, members, known_, epoch_) ==
    ref.id \notin known_ \/ members[ref.id] # {}

\* A reference to a session that was subscribed to again, or is gone.
Stale(ref, members, known_, epoch_) ==
    ref.id \notin known_ \/ epoch_[ref.id] # ref.epoch \/ members[ref.id] # {}

\* The position of the first reference that stays.
FirstKept(list, members, known_, epoch_) ==
    LET stays(i) == /\ ~Stale(list[i], members, known_, epoch_)
                    /\ Len(list) - i + 1 <= MaxRetained
                    /\ list[i].age < Retention
    IN  CHOOSE k \in 1..Len(list) + 1 :
            /\ k = Len(list) + 1 \/ stays(k)
            /\ \A i \in 1..k - 1 : ~stays(i)

\* pruneRetiredLocked, given the members and epochs the critical section leaves.
Pruned(list, members, known_, epoch_) ==
    LET k == FirstKept(list, members, known_, epoch_)
        gone == {list[i].id : i \in {j \in 1..k - 1 :
                    ~Stale(list[j], members, known_, epoch_)}}
    IN  [list |-> SubSeq(list, k, Len(list)), known |-> known_ \ gone]

Members(streams_) == [s \in Sessions |-> {c \in streams_ : SessionOf[c] = s}]

\* A counter that is deleted starts from nothing if the session comes back.
Store(pruned, epoch_, seq_) ==
    /\ retired' = pruned.list
    /\ known' = pruned.known
    /\ epoch' = [s \in Sessions |-> IF s \in pruned.known THEN epoch_[s] ELSE 0]
    /\ seq' = [s \in Sessions |-> IF s \in pruned.known THEN seq_[s] ELSE 0]

-----------------------------------------------------------------------------
(* Hub *)

\* removeLocked for each of `gone` that is still a member, on top of the
\* numbering seq_.
Detach(gone, seq_) ==
    LET leaving == gone \cap attached
        left == attached \ leaving
        emptied == {s \in Sessions : Subs(s) # {} /\ Subs(s) \subseteq leaving}
        order == CHOOSE q \in [1..Cardinality(emptied) -> emptied] :
                    \A s \in emptied : \E i \in DOMAIN q : q[i] = s
        refs == [i \in DOMAIN order |->
                    [id |-> order[i], epoch |-> epoch[order[i]], age |-> 0]]
    IN  /\ attached' = left
        /\ streams' = streams - Cardinality(leaving)
        /\ active' = active - Cardinality(emptied)
        /\ IF emptied = {}
           THEN /\ seq' = seq_
                /\ UNCHANGED <<known, epoch, retired>>
           ELSE Store(Pruned(retired \o refs, Members(left), known, epoch), epoch, seq_)

\* SubscribeBounded; the channel of an earlier stream is garbage by now.
Subscribe(c) ==
    LET s == SessionOf[c]
        pruned == Pruned(retired, Members(attached), known, epoch)
        first == Subs(s) = {}
        known_ == pruned.known \cup {s}
        base(f) == [x \in Sessions |-> IF x \in pruned.known THEN f[x] ELSE 0]
    IN  /\ streams < MaxStreams
        /\ retired' = pruned.list
        /\ known' = known_
        /\ seq' = base(seq)
        /\ epoch' = IF first THEN [base(epoch) EXCEPT ![s] = @ + 1] ELSE base(epoch)
        /\ active' = IF first THEN active + 1 ELSE active
        /\ attached' = attached \cup {c}
        /\ streams' = streams + 1
        /\ chan' = [chan EXCEPT ![c] = <<>>]
        /\ drops' = [drops EXCEPT ![c] = 0]

Fits(c) == Len(chan[c]) < SubscriberBuffer

\* A frame published to nobody is neither numbered nor kept.
PublishToNobody(s) ==
    /\ Subs(s) = {}
    /\ UNCHANGED <<setVars, subVars>>

NumberedWhenSent(s) ==
    IF \E c \in Subs(s) : Fits(c) THEN [seq EXCEPT ![s] = @ + 1] ELSE seq

Numbered(s) == [seq EXCEPT ![s] = @ + 1]

PublishToStreams(s) ==
    LET n == Numbered(s)[s]
        full == {c \in Subs(s) : ~Fits(c)}
        frame == [seq |-> n, nth |-> handed[s] + 1]
    IN  /\ Subs(s) # {}
        /\ chan' = [c \in Clients |->
                        IF c \in Subs(s) \ full THEN Append(chan[c], frame) ELSE chan[c]]
        /\ drops' = [c \in Clients |-> IF c \in full THEN drops[c] + 1
                                       ELSE IF c \in Subs(s) THEN 0 ELSE drops[c]]
        /\ Detach({c \in full : drops[c] + 1 >= MaxDrops}, Numbered(s))

\* Hub.Publish, by a worker that morphs the rail or reports a status.
Publish(s) ==
    /\ handed[s] < MaxFrames[s]
    /\ handed' = [handed EXCEPT ![s] = @ + 1]
    /\ PublishToNobody(s) \/ PublishToStreams(s)
    /\ UNCHANGED <<connVars, heard>>

HubShutdown ==
    /\ attached # {}
    /\ Detach(attached, seq)
    /\ UNCHANGED <<subVars, connVars, handed, heard>>

-----------------------------------------------------------------------------
(* server.stream, one request of a client *)

At(c, stage) == conn' = [conn EXCEPT ![c] = stage]

\* The cheap shed, the lookup and the credential.
Connect(c) ==
    /\ conn[c] = "away"
    /\ epoch[SessionOf[c]] < MaxVisits[SessionOf[c]]
    /\ streams < MaxStreams
    /\ At(c, "looked")
    /\ UNCHANGED <<setVars, subVars, lastSeq, lastId, handed, heard>>

Admit(c) ==
    /\ conn[c] = "looked"
    /\ Subscribe(c)
    /\ At(c, "open")
    /\ lastSeq' = [lastSeq EXCEPT ![c] = 0]
    /\ UNCHANGED <<lastId, handed, heard>>

\* ErrHubFull, or the client went away during the lookup.
Refuse(c) ==
    /\ conn[c] = "looked"
    /\ At(c, "away")
    /\ UNCHANGED <<setVars, subVars, lastSeq, lastId, handed, heard>>

Greet(c) ==
    /\ conn[c] = "open"
    /\ At(c, IF lastId[c] = 0 THEN "pumping" ELSE "greeted")
    /\ UNCHANGED <<setVars, subVars, lastSeq, lastId, handed, heard>>

\* The resume marker carries the counter as it is by now.
Resume(c) ==
    LET current == seq[SessionOf[c]]
    IN  /\ conn[c] = "greeted"
        /\ At(c, "pumping")
        /\ lastId' = IF current > 0 THEN [lastId EXCEPT ![c] = current] ELSE lastId
        /\ UNCHANGED <<setVars, subVars, lastSeq, handed, heard>>

\* The pump writes a frame; a detached stream still drains its channel.
Deliver(c) ==
    LET f == Head(chan[c])
    IN  /\ conn[c] = "pumping" /\ chan[c] # <<>>
        /\ chan' = [chan EXCEPT ![c] = Tail(@)]
        /\ lastSeq' = [lastSeq EXCEPT ![c] = f.seq]
        /\ lastId' = [lastId EXCEPT ![c] = f.seq]
        /\ heard' = [heard EXCEPT ![c] = f.nth]
        /\ UNCHANGED <<setVars, drops, conn, handed>>

\* The channel is closed and empty: the closing frame, then the deferred
\* unsubscribe, which finds the stream removed already.
Close(c) ==
    /\ conn[c] = "pumping" /\ c \notin attached /\ chan[c] = <<>>
    /\ At(c, "away")
    /\ Detach({c}, seq)
    /\ UNCHANGED <<subVars, lastSeq, lastId, handed, heard>>

\* The browser goes away, or a write fails or times out.
Disconnect(c) ==
    /\ conn[c] \in {"open", "greeted", "pumping"}
    /\ At(c, "away")
    /\ Detach({c}, seq)
    /\ chan' = [chan EXCEPT ![c] = <<>>]
    /\ UNCHANGED <<drops, lastSeq, lastId, handed, heard>>

Tick ==
    /\ retired' = [i \in DOMAIN retired |-> [retired[i] EXCEPT !.age = Bounded(@ + 1)]]
    /\ retired' # retired
    /\ UNCHANGED <<attached, known, seq, epoch, streams, active, subVars, connVars,
                   handed, heard>>

-----------------------------------------------------------------------------
(* The specification *)

SessionInit ==
    /\ attached = {} /\ known = {} /\ retired = <<>>
    /\ seq = [s \in Sessions |-> 0] /\ epoch = [s \in Sessions |-> 0]
    /\ streams = 0 /\ active = 0
    /\ chan = [c \in Clients |-> <<>>] /\ drops = [c \in Clients |-> 0]
    /\ conn = [c \in Clients |-> "away"]
    /\ lastSeq = [c \in Clients |-> 0] /\ lastId = [c \in Clients |-> 0]
    /\ handed = [s \in Sessions |-> 0] /\ heard = [c \in Clients |-> 0]

Request(c) ==
    \/ Connect(c) \/ Admit(c) \/ Refuse(c) \/ Greet(c) \/ Resume(c)
    \/ Deliver(c) \/ Close(c) \/ Disconnect(c)

SessionNext ==
    \/ \E s \in Sessions : Publish(s)
    \/ \E c \in Clients : Request(c)
    \/ HubShutdown \/ Tick

SessionSpec == SessionInit /\ [][SessionNext]_sessionVars

-----------------------------------------------------------------------------
(* Properties *)

\* The variables keep their types.
SessionTypeOK ==
    /\ attached \subseteq Clients /\ known \subseteq Sessions
    /\ seq \in [Sessions -> Nat] /\ epoch \in [Sessions -> Nat]
    /\ \A i \in DOMAIN retired :
          retired[i] \in [id : Sessions, epoch : Nat, age : 0..Retention]
    /\ streams \in Int /\ active \in Int
    /\ chan \in [Clients -> Seq(Frame)]
    /\ \A c \in Clients : Len(chan[c]) <= SubscriberBuffer
    /\ drops \in [Clients -> 0..MaxDrops]
    /\ conn \in [Clients -> Stage]
    /\ lastSeq \in [Clients -> Nat] /\ lastId \in [Clients -> Nat]
    /\ handed \in [Sessions -> Nat] /\ heard \in [Clients -> Nat]

Occupied == {s \in Sessions : Subs(s) # {}}

\* The gauges count what they say, and admission holds: however evictions,
\* shutdowns and the handlers' own deferred unsubscribes race, each stream is
\* taken off once, and a burst past the cheap shed never exceeds the ceiling.
StreamsAccounted ==
    /\ streams = Cardinality(attached) /\ streams <= MaxStreams
    /\ active = Cardinality(Occupied)
    /\ \A c \in attached : conn[c] \in {"open", "greeted", "pumping"}

CurrentRefs(s) == {i \in DOMAIN retired : retired[i].id = s /\ retired[i].epoch = epoch[s]}

\* No counter leaks and none is deleted on a stale reference: a session that
\* is kept without a stream waits behind exactly one reference of its epoch,
\* and no reference outlives its session.
CountersAwaitRetirement ==
    /\ Occupied \subseteq known
    /\ \A s \in known \ Occupied : Cardinality(CurrentRefs(s)) = 1
    /\ \A s \in Occupied : CurrentRefs(s) = {}
    /\ \A i \in DOMAIN retired : retired[i].id \in known

\* The books of the hub, which admission and retirement are decided on.
HubAccounts == SessionTypeOK /\ StreamsAccounted /\ CountersAwaitRetirement

\* hub.go, "Per-session monotonicity is what lets a client detect that it
\* missed a frame": on one connection numbers only grow, and a frame whose
\* number follows the last one follows it in what was published, too.
GapShows ==
    [][\A c \in Clients :
        heard'[c] # heard[c] /\ lastSeq[c] > 0 =>
            /\ lastSeq'[c] > lastSeq[c]
            /\ lastSeq'[c] = lastSeq[c] + 1 => heard'[c] = heard[c] + 1]_sessionVars

\* handler.go of the resume marker, "so the client can compute exactly how many
\* frames it lost": a marker that shows no gap comes with no frame lost.
MarkerShowsLoss ==
    [][\A c \in Clients :
        LET s == SessionOf[c]
        IN  conn[c] = "greeted" /\ conn'[c] = "pumping" /\ seq[s] <= lastId[c]
                => handed[s] <= heard[c] + Len(chan[c])]_sessionVars

\* HubConfig, "MaxRetainedSequences bounds how many disconnected sessions keep
\* their counter": a counter is dropped early only if there are more of them.
CounterOutlivesStreams ==
    [][\A s \in known \ known' :
        \/ \E i \in CurrentRefs(s) : retired[i].age >= Retention
        \/ Cardinality((known \cup known') \ Occupied') > MaxRetained]_sessionVars

=============================================================================
