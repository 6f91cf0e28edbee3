------------------------------ MODULE Emitter -------------------------------
(***************************************************************************)
(* The webhooks of the simulator (internal/simulator): a script of         *)
(* failures delivered by a dispatcher under a semaphore, each delivery     *)
(* with its repeats and backoff, to an edge that may answer, refuse, be    *)
(* overloaded or answer into the void; and the process around them, which  *)
(* serves, is cancelled, fails and drains (Embedded.Run).                  *)
(*                                                                         *)
(* The waits themselves, jittered and floored by Retry-After, are left     *)
(* out: a wait ends, or the context does.                                  *)
(***************************************************************************)
EXTENDS Integers, FiniteSets

CONSTANTS
    Script,             \* number of scheduled events, dispatched in order
    Duplicates,         \* SUBSET 1..Script, delivered twice by the script
    MaxConcurrent,      \* maxConcurrentDeliveries
    MaxDeliveryAttempts \* posts of one body before it is given up

ASSUME EmitterAssumption ==
    /\ Script \in Nat /\ Duplicates \subseteq 1..Script
    /\ MaxConcurrent \in Nat \ {0} /\ MaxDeliveryAttempts \in Nat \ {0}

VARIABLES
    walked,     \* events the dispatcher has handed out
    dispatcher, \* "walking", "draining", "done"
    job,        \* of each event: [at, repeat, attempt, outcome]
    taken,      \* copies of each event the receiver has accepted
    unheard,    \* of which the sender never learned
    context,    \* "live", "cancelled"
    server,     \* "serving", "failed", "closed"
    runner      \* Embedded.Run: "serving", "waiting", "returned"

emitterVars == <<walked, dispatcher, job, taken, unheard, context, server, runner>>

Scheduled == 1..Script

InFlight == {e \in Scheduled : job[e].at \in {"posting", "waiting"}}

Copies(e) == IF e \in Duplicates THEN 2 ELSE 1

Ended(e, outcome) == [job EXCEPT ![e].at = "over", ![e].outcome = outcome]

-----------------------------------------------------------------------------
(* dispatch *)

\* The offset has come, and the semaphore has room: em.Emit in a goroutine.
HandOut ==
    /\ dispatcher = "walking" /\ context = "live"
    /\ walked < Script /\ Cardinality(InFlight) < MaxConcurrent
    /\ walked' = walked + 1
    /\ job' = [job EXCEPT ![walked + 1].at = "posting"]
    /\ UNCHANGED <<dispatcher, taken, unheard, context, server, runner>>

\* The end of the script, or of the context wherever the walk is.
StopWalking ==
    /\ dispatcher = "walking"
    /\ walked = Script \/ context = "cancelled"
    /\ dispatcher' = "draining"
    /\ UNCHANGED <<walked, job, taken, unheard, context, server, runner>>

\* wg.Wait, deferred.
Drained ==
    /\ dispatcher = "draining" /\ InFlight = {}
    /\ dispatcher' = "done"
    /\ UNCHANGED <<walked, job, taken, unheard, context, server, runner>>

-----------------------------------------------------------------------------
(* deliver, post *)

\* 408 and 429 and what the server is to blame for; every other 4xx says the
\* request is wrong.  0 is no answer at all.
Retryable == {0, 408, 429, 500}

Statuses == {0, 408, 429, 500, 400, 401, 404}

\* Accepted, and heard: the duplicate is the same body again.
Delivered(e) ==
    /\ job[e].at = "posting"
    /\ taken' = [taken EXCEPT ![e] = @ + 1]
    /\ job' = IF job[e].repeat = Copies(e) THEN Ended(e, "delivered")
              ELSE [job EXCEPT ![e].repeat = @ + 1, ![e].attempt = 1]
    /\ UNCHANGED <<walked, dispatcher, unheard, context, server, runner>>

\* A permanent refusal is looked for before a cancelled context, and a
\* cancelled context before the count.
Refused(e) ==
    /\ job[e].at = "posting"
    /\ \E status \in Statuses :
          job' = IF status \notin Retryable THEN Ended(e, "rejected")
                 ELSE IF context = "cancelled" THEN Ended(e, "cancelled")
                 ELSE IF job[e].attempt = MaxDeliveryAttempts THEN Ended(e, "undelivered")
                 ELSE [job EXCEPT ![e].at = "waiting"]
    /\ UNCHANGED <<walked, dispatcher, taken, unheard, context, server, runner>>

\* The receiver has it, the answer is lost: a timeout, or the context.
AnswerLost(e) ==
    /\ job[e].at = "posting"
    /\ taken' = [taken EXCEPT ![e] = @ + 1]
    /\ unheard' = [unheard EXCEPT ![e] = @ + 1]
    /\ job' = IF context = "cancelled" THEN Ended(e, "cancelled")
              ELSE IF job[e].attempt = MaxDeliveryAttempts THEN Ended(e, "undelivered")
              ELSE [job EXCEPT ![e].at = "waiting"]
    /\ UNCHANGED <<walked, dispatcher, context, server, runner>>

\* backoff, wait.
WaitEnds(e) ==
    /\ job[e].at = "waiting"
    /\ job' = IF context = "cancelled" THEN Ended(e, "cancelled")
              ELSE [job EXCEPT ![e].at = "posting", ![e].attempt = @ + 1]
    /\ UNCHANGED <<walked, dispatcher, taken, unheard, context, server, runner>>

-----------------------------------------------------------------------------
(* Embedded *)

Cancel ==
    /\ context = "live"
    /\ context' = "cancelled"
    /\ UNCHANGED <<walked, dispatcher, job, taken, unheard, server, runner>>

ServeFails ==
    /\ server = "serving"
    /\ server' = "failed"
    /\ UNCHANGED <<walked, dispatcher, job, taken, unheard, context, runner>>

\* Stop by the owner, once; Run takes the nil of a closed server for the end of
\* its service.
StopByOwner ==
    /\ server = "serving"
    /\ server' = "closed"
    /\ UNCHANGED <<walked, dispatcher, job, taken, unheard, context, runner>>

\* Leave the select and stop the server; the script goes on unless cancelled.
LeaveSelect ==
    /\ runner = "serving"
    /\ context = "cancelled" \/ server # "serving"
    /\ runner' = "waiting"
    /\ server' = IF server = "serving" THEN "closed" ELSE server
    /\ UNCHANGED <<walked, dispatcher, job, taken, unheard, context>>

ReturnableAtOnce == TRUE

\* script.Wait.
Returnable == dispatcher = "done"

RunReturns ==
    /\ runner = "waiting" /\ Returnable
    /\ runner' = "returned"
    /\ UNCHANGED <<walked, dispatcher, job, taken, unheard, context, server>>

-----------------------------------------------------------------------------

EmitterInit ==
    /\ walked = 0 /\ dispatcher = "walking"
    /\ job = [e \in Scheduled |-> [at |-> "unborn", repeat |-> 1, attempt |-> 1, outcome |-> "none"]]
    /\ taken = [e \in Scheduled |-> 0] /\ unheard = [e \in Scheduled |-> 0]
    /\ context = "live" /\ server = "serving" /\ runner = "serving"

EmitterNext ==
    \/ HandOut \/ StopWalking \/ Drained
    \/ \E e \in Scheduled : Delivered(e) \/ Refused(e) \/ AnswerLost(e) \/ WaitEnds(e)
    \/ Cancel \/ ServeFails \/ StopByOwner \/ LeaveSelect \/ RunReturns

EmitterSpec == EmitterInit /\ [][EmitterNext]_emitterVars

-----------------------------------------------------------------------------
(* Properties *)

EmitterTypeOK ==
    /\ walked \in 0..Script /\ Cardinality(InFlight) <= MaxConcurrent
    /\ \A e \in Scheduled :
          /\ job[e].attempt \in 1..MaxDeliveryAttempts /\ job[e].repeat \in 1..Copies(e)
          /\ (job[e].at = "over") <=> (job[e].outcome # "none")
          /\ (job[e].at = "unborn") <=> (e > walked)

\* embedded.go Run, "a caller that returns from Run knows nothing is still
\* emitting".
QuietOnReturn == runner = "returned" => InFlight = {} /\ dispatcher = "done"

\* webhook.go deliver: an event reaches the receiver as often as the script
\* says and once more for every answer that was lost, never for one that was
\* heard; and what ended as delivered got there every time it was meant to.
DeliveriesAccounted ==
    \A e \in Scheduled :
        /\ taken[e] - unheard[e] <= Copies(e)
        /\ job[e].outcome = "delivered" => taken[e] - unheard[e] = Copies(e)
        /\ job[e].outcome = "undelivered" => taken[e] - unheard[e] < Copies(e)
        /\ taken[e] <= Copies(e) * MaxDeliveryAttempts

\* The script is delivered as it says, and stops when the process does.
EmitterSound == EmitterTypeOK /\ QuietOnReturn /\ DeliveriesAccounted

=============================================================================
