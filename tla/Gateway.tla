------------------------------ MODULE Gateway -------------------------------
(***************************************************************************)
(* The executor (internal/executor) and the gateway it talks to in this    *)
(* repository, the simulator (internal/simulator).  A command is one HTTP  *)
(* request; the simulator reads the payment, decides and writes it back,   *)
(* each under the lock of the registry but not all three; the executor may *)
(* have given up meanwhile, and presents the payment again as the next     *)
(* attempt.                                                                *)
(*                                                                         *)
(* One payment is recovered.  Strangers ask for payments nobody has made,  *)
(* each for another, which the simulator makes up; the registry is bounded.*)
(***************************************************************************)
EXTENDS Integers, Sequences, SequencesExt

CONSTANTS
    Payment,        \* the one of the script
    Stranger,       \* any identifier that nobody has issued
    Slots,          \* requests under way at once
    Limit,          \* entries of the registry: the script, and some more
    MaxCommands,    \* commands sent (a bound)
    MaxReloads      \* checkout pages reloaded (a bound)

ASSUME GatewayAssumption ==
    /\ Payment # Stranger
    /\ Limit \in Nat \ {0} /\ MaxCommands \in Nat /\ MaxReloads \in Nat

VARIABLES
    book,           \* the registry, oldest first
    charged,        \* times it has captured the payment
    disturbed,      \* two requests have met in it, or it has forgotten the payment
    request,        \* of each slot
    commands,       \* commands sent so far
    page,           \* the live checkout session of the order: [id, morphs]
    frames          \* rail changes shown, per session

bookVars == <<book, charged, disturbed>>
pageVars == <<page, frames>>
gatewayVars == <<bookVars, request, commands, pageVars>>

\* What the taxonomy tells apart: never recoverable, recoverable as a network
\* token only, or by another try.
Codes == {"terminal", "refreshable", "other"}

\* domain.PaymentEntity.  The amount is the one the webhook told the mesh, or
\* another.
Entities ==
    [id : {Payment, Stranger}, status : {"failed", "captured"}, code : Codes \cup {"none"},
     amount : {"own", "other"}]

\* Status, whether the body is a captured payment, and whether it has an
\* error_code where the executor looks for one.
GatewayAnswers == [status : {200, 400, 404, 429, 502}, captured : BOOLEAN, coded : BOOLEAN]

OfPayment == [status |-> 200, captured |-> TRUE, coded |-> FALSE]

\* writeError: the code is inside the envelope.
OfError(status) == [status |-> status, captured |-> FALSE, coded |-> FALSE]

NoAnswer == [status |-> 502, captured |-> FALSE, coded |-> FALSE]

NoCopy == [id |-> Payment, status |-> "failed", code |-> "none", amount |-> "own"]

NoRequest ==
    [at |-> "idle", kind |-> "retry", presentation |-> "unchanged", awaited |-> FALSE, copy |-> NoCopy,
     verdict |-> "none", answer |-> NoAnswer, page |-> 0, morphs |-> 0, told |-> "nothing"]

\* What the executor returns to the worker.
Returned(r, told) ==
    [NoRequest EXCEPT !.at = "done", !.told = told, !.answer = r.answer, !.verdict = r.verdict]

Unheard == [NoRequest EXCEPT !.at = "done", !.told = "unknown"]

-----------------------------------------------------------------------------
(* The registry: paymentRegistry *)

Known(id) == \E k \in DOMAIN book : book[k].id = id

EntityOf(id) == book[CHOOSE k \in DOMAIN book : book[k].id = id]

Put(entity) ==
    LET stored == IF entity.id = Payment /\ Known(Payment)
                  THEN [k \in DOMAIN book |-> IF book[k].id = entity.id THEN entity ELSE book[k]]
                  ELSE Append(book, entity)
        kept == IF Len(stored) > Limit THEN Tail(stored) ELSE stored
        evicted == \A k \in DOMAIN kept : kept[k].id # Payment
    IN  /\ book' = kept
        /\ disturbed' = (disturbed \/ evicted)

\* synthesizePayment: a failed payment of any kind and of some amount.
Synthesised(id) == {e \in Entities : e.id = id /\ e.status = "failed" /\ e.code # "none"}

\* A decline that is final, one that a token may overcome, and a draw.
Verdicts(entity, presentation) ==
    CASE entity.code = "terminal" -> {"terminal"}
      [] entity.code = "refreshable" ->
            {"refreshable"} \cup (IF presentation = "unchanged" THEN {} ELSE {"captured"})
      [] OTHER -> Codes \cup {"captured"}

InRegistry(s) == request[s].at \in {"missing", "read", "tried"}

\* GET by a load harness or a person, of a payment that is not known.
Strange ==
    /\ \E entity \in Synthesised(Stranger) :
          entity.code = "other" /\ entity.amount = "other" /\ Put(entity)
    /\ UNCHANGED <<charged, request, commands, pageVars>>

-----------------------------------------------------------------------------
(* The executor sends *)

\* Retry, or MorphRail with the live session read first.
Send(s) ==
    /\ request[s].at \in {"idle", "done"} /\ commands < MaxCommands
    /\ \E kind \in {"retry", "morph"}, presentation \in {"unchanged", "network_token"} :
          /\ kind = "morph" => presentation = "unchanged"
          /\ request' = [request EXCEPT ![s] =
                [NoRequest EXCEPT !.at = "sent", !.kind = kind, !.presentation = presentation,
                             !.awaited = TRUE, !.page = page.id, !.morphs = page.morphs]]
    /\ commands' = commands + 1
    /\ UNCHANGED <<bookVars, pageVars>>

\* NotifyPreDebit: the simulator has no such route.
Notify(s) ==
    /\ request[s].at \in {"idle", "done"} /\ commands < MaxCommands
    /\ request' = [request EXCEPT ![s] =
          [NoRequest EXCEPT !.at = "answered", !.kind = "notice", !.awaited = TRUE, !.answer = OfError(404)]]
    /\ commands' = commands + 1
    /\ UNCHANGED <<bookVars, pageVars>>

\* Config.Timeout, a cancelled pass, a connection that breaks: the record says
\* gateway_unreachable, and the gateway goes on with what it has.
StopWaiting(s) ==
    /\ request[s].at \in {"sent", "missing", "read", "tried", "answered"} /\ request[s].awaited
    /\ \/ request' = [request EXCEPT ![s] = Unheard]
          /\ request[s].at \in {"sent", "answered"}
       \/ request' = [request EXCEPT ![s].awaited = FALSE, ![s].told = "unknown"]
          /\ request[s].at # "answered"
    /\ UNCHANGED <<bookVars, commands, pageVars>>

-----------------------------------------------------------------------------
(* The simulator: handlePaymentRetry *)

\* resolvePayment, when the payment is known and when it is not.
Read(s) ==
    /\ request[s].at = "sent"
    /\ request' = [request EXCEPT ![s].at = IF Known(Payment) THEN "read" ELSE "missing",
                                  ![s].copy = IF Known(Payment) THEN EntityOf(Payment) ELSE NoCopy]
    /\ disturbed' = (disturbed \/ \E other \in Slots : InRegistry(other))
    /\ UNCHANGED <<book, charged, commands, pageVars>>

Synthesise(s) ==
    /\ request[s].at = "missing"
    /\ \E entity \in Synthesised(Payment) :
          /\ Put(entity)
          /\ request' = [request EXCEPT ![s].at = "read", ![s].copy = entity]
    /\ UNCHANGED <<charged, commands, pageVars>>

Reply(s, answer) ==
    request' = [request EXCEPT ![s] =
        IF @.awaited THEN [@ EXCEPT !.at = "answered", !.answer = answer, !.copy = NoCopy,
                                  !.presentation = "unchanged"]
                   ELSE Unheard]

\* As if a capture were forgotten: what the real API would do with its 400.
AlreadyTriedAgain(entity) == FALSE

Already(entity) == entity.status = "captured"

\* The amount may not be restated.  Every try draws anew: the executor sends
\* its number as attempt_number, the simulator reads attempt and counts.
Try(s) ==
    LET entity == request[s].copy IN
    /\ request[s].at = "read"
    /\ IF entity.amount # "own"
       THEN Reply(s, OfError(400))
       ELSE IF Already(entity) THEN Reply(s, OfPayment)
       ELSE \E verdict \in Verdicts(entity, request[s].presentation) :
               request' = [request EXCEPT ![s].at = "tried", ![s].verdict = verdict]
    /\ UNCHANGED <<book, charged, disturbed, commands, pageVars>>

\* complete: the copy read before becomes the payment, whatever it is by now.
Settle(s) ==
    LET verdict == request[s].verdict IN
    /\ request[s].at = "tried"
    /\ IF verdict = "captured"
       THEN /\ Put([request[s].copy EXCEPT !.status = "captured", !.code = "none"])
            /\ charged' = charged + 1
            /\ Reply(s, OfPayment)
       ELSE /\ Put([request[s].copy EXCEPT !.status = "failed", !.code = verdict])
            /\ charged' = charged
            /\ Reply(s, OfError(400))
    /\ UNCHANGED <<commands, pageVars>>

\* Something between them answers: overloaded (429 is taken as a 502 is), out
\* of order, or not speaking JSON.
Intercept(s) ==
    /\ request[s].at \in {"sent", "answered"} /\ request[s].awaited
    /\ request[s].answer = NoAnswer => request[s].at = "sent"
    /\ request' = [request EXCEPT ![s].at = "answered", ![s].answer = NoAnswer, ![s].copy = NoCopy,
                                  ![s].presentation = "unchanged"]
    /\ UNCHANGED <<bookVars, commands, pageVars>>

-----------------------------------------------------------------------------
(* The executor hears: call, attempt *)

Understood(answer) ==
    IF answer.status >= 500 \/ answer.status = 429 THEN "unknown"
    ELSE IF answer.status >= 400 /\ ~answer.coded THEN "unknown"
    ELSE IF answer.captured THEN "succeeded" ELSE "declined"

\* The session is moved, and the page told, once the answer is understood.
Moves(s, told) == request[s].kind = "morph" /\ told # "unknown"

Hear(s) ==
    LET told == Understood(request[s].answer) IN
    /\ request[s].at = "answered" /\ request[s].awaited
    /\ request' = [request EXCEPT ![s] =
          IF Moves(s, told) THEN [@ EXCEPT !.at = "moving", !.told = told, !.awaited = FALSE]
          ELSE Returned(@, told)]
    /\ UNCHANGED <<bookVars, commands, pageVars>>

\* UpdateSession writes the row as read before the attempt, or fails; Publish
\* tells the session of that row.
Move(s) ==
    /\ request[s].at = "moving"
    /\ \/ page.id = request[s].page /\ page' = [page EXCEPT !.morphs = request[s].morphs + 1]
       \/ page' = page
    /\ frames' = [frames EXCEPT ![request[s].page] = @ + 1]
    /\ request' = [request EXCEPT ![s] = Returned(@, @.told)]
    /\ UNCHANGED <<bookVars, commands>>

\* A shopper who reloads checkout gets a new session for the same order.
Reload ==
    /\ page.id <= MaxReloads
    /\ page' = [id |-> page.id + 1, morphs |-> 0]
    /\ UNCHANGED <<bookVars, request, commands, frames>>

-----------------------------------------------------------------------------

GatewayInit ==
    /\ \E code \in Codes :
          book = <<[id |-> Payment, status |-> "failed", code |-> code, amount |-> "own"]>>
    /\ charged = 0 /\ disturbed = FALSE
    /\ request = [s \in Slots |-> NoRequest]
    /\ commands = 0
    /\ page = [id |-> 1, morphs |-> 0] /\ frames = [p \in 1..(MaxReloads + 1) |-> 0]

GatewayNext ==
    \/ \E s \in Slots :
          \/ Send(s) \/ Notify(s) \/ StopWaiting(s) \/ Read(s) \/ Synthesise(s) \/ Try(s) \/ Settle(s)
          \/ Intercept(s) \/ Hear(s) \/ Move(s)
    \/ Strange \/ Reload

GatewaySpec == GatewayInit /\ [][GatewayNext]_gatewayVars

-----------------------------------------------------------------------------
(* Properties *)

GatewayTypeOK ==
    /\ book \in Seq(Entities) /\ Len(book) <= Limit
    /\ charged \in 0..MaxCommands /\ disturbed \in BOOLEAN
    /\ commands \in 0..MaxCommands /\ page.id \in DOMAIN frames
    /\ \A s \in Slots : request[s].answer \in GatewayAnswers /\ request[s].copy \in Entities

\* simulator.go complete, "how a retry loop double-charges someone": lost
\* answers, timeouts and attempts under new keys capture a payment once, unless
\* two requests for it meet in the registry or the registry has forgotten it.
ChargedOnce == charged <= 1 \/ disturbed

\* executor.go attempt and MorphRail: what is recorded as a success has been
\* captured, no page is told of a rail the payment has not moved to, and no
\* session counts a move its page was not told of.
RecordsAreTrue ==
    /\ (\E s \in Slots : request[s].told = "succeeded") => charged >= 1
    /\ (\E p \in DOMAIN frames : frames[p] > 0) => charged >= 1
    /\ page.morphs <= frames[page.id]

\* What the gateway took and what the mesh has on record of it agree.
GatewaySound == GatewayTypeOK /\ ChargedOnce /\ RecordsAreTrue

\* executor.go Config.BaseURL, "Both speak the same schemas": a decline the
\* gateway answered, and the executor heard, is recorded as one.
DeclineIsKnown ==
    \A s \in Slots :
        request[s].at = "done" /\ request[s].answer.status = 400 /\ request[s].verdict \in Codes
            => request[s].told = "declined"

\* simulator.go serverConfig.PaymentLimit: a scripted payment "can never be
\* evicted by the synthesised entries a stray retry creates".
ScriptedStays == Known(Payment)

=============================================================================
