-------------------------------- MODULE Edge --------------------------------
(***************************************************************************)
(* One request on its way through the middleware (internal/httpx) in the   *)
(* order the server mounts it (internal/app/api.go), to a handler that     *)
(* writes, flushes, panics or aborts as it likes, and out again; and the   *)
(* key a limiter files the request under (internal/ratelimit).             *)
(*                                                                         *)
(* Bodies and headers are left out but for what decides: whether the body  *)
(* is declared too long, the token matches, the bucket has a token.        *)
(***************************************************************************)
EXTENDS Integers, Sequences, SequencesExt

CONSTANT MaxActs    \* things a handler does before it leaves (a bound)

ASSUME EdgeAssumption == MaxActs \in Nat

\* httpx.Base, "the ordering every ResilientMesh server mounts".
BaseOrder == <<"RequestID", "SecurityHeaders", "AccessLog", "Recover">>

\* What App.handler mounts, outermost first.
MountedOrder == <<"Recover", "RequestID", "SecurityHeaders", "AccessLog">>

\* The guards of a route, outermost first, and the status each refuses with.
Guards(route) ==
    CASE route = "webhook" -> <<"BodyLimit">>
      [] route = "session" -> <<"BodyLimit", "RateLimit">>
      [] route = "ops"     -> <<"OpsToken", "RateLimit">>
      [] route = "health"  -> <<>>

Routes == {"webhook", "session", "ops", "health"}

Refusal == [BodyLimit |-> 413, RateLimit |-> 429, OpsToken |-> 401]

VARIABLES
    route,      \* the route the mux matches
    refused,    \* SUBSET DOMAIN Refusal, the guards that would refuse
    stack,      \* middlewares entered, innermost last
    phase,      \* "in", "handler", "out"
    leaving,    \* how control leaves the frame below: "return", "panic", "abort"
    recorder,   \* [wrote, status], the responseRecorder all of them share
    wire,       \* Seq(Int), the statuses given to net/http's writer
    acts,       \* what the handler has done, and how it left
    logged,     \* the status of the access log's line; 0 for none
    panicLine   \* the line Recover logged: "none", "plain", "correlated"

edgeVars == <<route, refused, stack, phase, leaving, recorder, wire, acts, logged, panicLine>>

\* Outermost first, the middlewares and then the guards of the route.
Frames == MountedOrder \o Guards(route)

\* The id is in the context of everything inside RequestID, and only there.
IdKnownTo(frame) ==
    \E i, j \in DOMAIN Frames : Frames[i] = "RequestID" /\ Frames[j] = frame /\ i < j

-----------------------------------------------------------------------------
(* responseRecorder *)

\* A second status is swallowed.
WriteHeader(status) ==
    IF recorder.wrote THEN UNCHANGED <<recorder, wire>>
    ELSE /\ recorder' = [wrote |-> TRUE, status |-> status]
         /\ wire' = Append(wire, status)

\* Writing commits a 200; flushing does so in the writer below.
WriteBody == WriteHeader(200)

FlushBody ==
    /\ recorder' = IF recorder.wrote THEN recorder ELSE [wrote |-> TRUE, status |-> 200]
    /\ wire' = IF wire = <<>> THEN <<200>> ELSE wire

StatusOrDefault == IF recorder.wrote THEN recorder.status ELSE 200

\* What net/http tells the client once the outermost handler is through: the
\* first status, a 200 if there was none, and nothing if the panic gets there.
Seen == IF wire # <<>> THEN wire[1] ELSE IF leaving = "return" THEN 200 ELSE 0

-----------------------------------------------------------------------------
(* Inward *)

Refuses(frame) == frame \in refused

Enter ==
    /\ phase = "in" /\ Len(stack) < Len(Frames)
    /\ LET frame == Frames[Len(stack) + 1]
       IN  IF Refuses(frame)
           THEN /\ WriteHeader(Refusal[frame])
                /\ phase' = "out" /\ leaving' = "return"
                /\ UNCHANGED stack
           ELSE /\ stack' = Append(stack, frame)
                /\ UNCHANGED <<recorder, wire, phase, leaving>>
    /\ UNCHANGED <<route, refused, acts, logged, panicLine>>

Arrive ==
    /\ phase = "in" /\ Len(stack) = Len(Frames)
    /\ phase' = "handler"
    /\ UNCHANGED <<route, refused, stack, leaving, recorder, wire, acts, logged, panicLine>>

-----------------------------------------------------------------------------
(* The handler *)

Handle ==
    /\ phase = "handler"
    /\ Len(acts) < MaxActs
    /\ \/ \E status \in {200, 503} :
             WriteHeader(status) /\ acts' = Append(acts, "status")
       \/ WriteBody /\ acts' = Append(acts, "body")
       \/ FlushBody /\ acts' = Append(acts, "flush")
    /\ UNCHANGED <<route, refused, stack, phase, leaving, logged, panicLine>>

HandlerLeaves ==
    /\ phase = "handler"
    /\ leaving' \in {"return", "panic", "abort"}
    /\ acts' = Append(acts, leaving')
    /\ phase' = "out"
    /\ UNCHANGED <<route, refused, stack, recorder, wire, logged, panicLine>>

-----------------------------------------------------------------------------
(* Outward *)

RecoversAborts == {"panic", "abort"}

\* A deliberate abort is not the middleware's to answer.
Recovers == {"panic"}

\* A panic ends here, in a 500 if it still can.
RecoverLeaves ==
    IF leaving \in Recovers
    THEN /\ WriteHeader(500)
         /\ leaving' = "return"
         /\ panicLine' = IF IdKnownTo("Recover") THEN "correlated" ELSE "plain"
         /\ UNCHANGED logged
    ELSE UNCHANGED <<recorder, wire, leaving, panicLine, logged>>

\* AccessLog has no deferred part: what unwinds through it is not logged.
AccessLogLeaves ==
    /\ logged' = IF leaving = "return" THEN StatusOrDefault ELSE logged
    /\ UNCHANGED <<recorder, wire, leaving, panicLine>>

Leave ==
    /\ phase = "out" /\ stack # <<>>
    /\ stack' = Front(stack)
    /\ CASE Last(stack) = "Recover"   -> RecoverLeaves
         [] Last(stack) = "AccessLog" -> AccessLogLeaves
         [] OTHER -> UNCHANGED <<recorder, wire, leaving, panicLine, logged>>
    /\ UNCHANGED <<route, refused, phase, acts>>

-----------------------------------------------------------------------------
(* The specification *)

EdgeInit ==
    /\ route \in Routes /\ refused \in SUBSET DOMAIN Refusal
    /\ stack = <<>> /\ phase = "in" /\ leaving = "return"
    /\ recorder = [wrote |-> FALSE, status |-> 0] /\ wire = <<>> /\ acts = <<>>
    /\ logged = 0 /\ panicLine = "none"

EdgeNext == Enter \/ Arrive \/ Handle \/ HandlerLeaves \/ Leave

EdgeSpec == EdgeInit /\ [][EdgeNext]_edgeVars

Through == phase = "out" /\ stack = <<>>

-----------------------------------------------------------------------------
(* Properties *)

\* The variables keep their types, and no guard that refuses is passed.
EdgeTypeOK ==
    /\ phase \in {"in", "handler", "out"} /\ leaving \in {"return", "panic", "abort"}
    /\ recorder.status \in {0, 200, 401, 413, 429, 500, 503}
    /\ \A i \in DOMAIN stack : stack[i] = Frames[i]
    /\ acts # <<>> => refused \cap Range(Guards(route)) = {}

\* middleware.go of the recorder: however a handler mixes statuses, bodies and
\* flushes, net/http is given one status, and it is the one on record.
OneStatus ==
    /\ Len(wire) <= 1
    /\ recorder.wrote <=> wire # <<>>
    /\ recorder.wrote => wire = <<recorder.status>>

\* middleware.go of Recover: a panic ends in an opaque 500 unless the handler
\* had answered already, and a deliberate abort is not turned into an answer.
PanicsEndOpaque ==
    Through =>
        /\ leaving # "panic"
        /\ acts = <<"panic">> => panicLine # "none" /\ Seen = 500
        /\ acts = <<"abort">> => Seen = 0

\* What the client is told is told once.
OneAnswer == OneStatus /\ PanicsEndOpaque

EdgeSound == EdgeTypeOK /\ OneAnswer

\* middleware.go of Base, "a panicking request is logged with the 500 it
\* actually returned": every request that got an answer left a line with it.
AnswersAreLogged == Through /\ leaving = "return" => logged = Seen

=============================================================================
