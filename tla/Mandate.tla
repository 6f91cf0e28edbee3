------------------------------ MODULE Mandate ------------------------------
(***************************************************************************)
(* One mandate row and those who change it: the operators' commands        *)
(* (meshctl mandate halt, resume), which go on record before they take     *)
(* effect, and the workers that note a pre-debit notice on the same row.   *)
(* Each reads the row, changes its copy and saves all of it.               *)
(***************************************************************************)
EXTENDS Ledger

CONSTANTS
    Operators,          \* commands being run; each appends like any other
    Notifiers           \* workers
ASSUME MandateAssumption == Operators \subseteq Procs

VARIABLES
    mandate,    \* [halted, reason, noticed], the row
    command,    \* [Operators -> command]
    notice      \* [Notifiers -> SUBSET Row], the copy a worker holds, if any

mandateVars == <<ledgerVars, mandate, command, notice>>

Reasons == {"dispute", "revoked"}
NoReason == "none"
Row == [halted : BOOLEAN, reason : Reasons \cup {NoReason}, noticed : BOOLEAN]
NoCommand == [step |-> "none"]

Answers == {[stage |-> "answered", ok |-> ok] : ok \in BOOLEAN}

-----------------------------------------------------------------------------
(* cmdMandateHalt and cmdMandateResume *)

\* A mandate halted for revocation is not resumed.
Resumable(row) == row.halted /\ row.reason # "revoked"

Halted(row, why) == [row EXCEPT !.halted = TRUE, !.reason = why]
Resumed(row) == [row EXCEPT !.halted = FALSE, !.reason = NoReason]

\* GetMandate, the refusals, and the copy as it shall be saved; the intent is
\* then appended to the ledger.
Command(o, verb, after) ==
    /\ command[o].step = "none"
    /\ \E c \in Contents :
          /\ BeginAppend(o, c)
          /\ command' = [command EXCEPT ![o] =
                [step |-> "recording", verb |-> verb, after |-> after,
                 content |-> c, since |-> HeadOf(rows).seq]]
    /\ UNCHANGED <<mandate, notice>>

HaltCommand(o) == \E why \in Reasons : Command(o, "halt", Halted(mandate, why))

ResumeCommand(o) == Resumable(mandate) /\ Command(o, "resume", Resumed(mandate))

SavesAnyway(o) == tx[o].stage = "answered"

\* Without its entry a command has no effect.
MaySave(o) == tx[o].stage = "answered" /\ tx[o].ok

SaveMandate(o) ==
    /\ command[o].step = "recording" /\ MaySave(o)
    /\ mandate' = command[o].after
    /\ command' = [command EXCEPT ![o] = NoCommand]
    /\ tx' = [tx EXCEPT ![o] = Idle]
    /\ UNCHANGED <<rows, lock, lost, edits, pin, notice>>

\* The append or the save failed, or the operator broke off.
GiveUp(o) ==
    /\ command[o].step = "recording" /\ tx[o].stage = "answered"
    /\ command' = [command EXCEPT ![o] = NoCommand]
    /\ tx' = [tx EXCEPT ![o] = Idle]
    /\ UNCHANGED <<rows, lock, lost, edits, pin, mandate, notice>>

-----------------------------------------------------------------------------
(* recordPreDebitNotice *)

LoadForNotice(w) ==
    /\ notice[w] = {}
    /\ notice' = [notice EXCEPT ![w] = {mandate}]
    /\ UNCHANGED <<ledgerVars, mandate, command>>

\* The save may fail; it is logged and no more.
SaveNotice(w) ==
    /\ notice[w] # {}
    /\ \/ \E row \in notice[w] : mandate' = [row EXCEPT !.noticed = TRUE]
       \/ UNCHANGED mandate
    /\ notice' = [notice EXCEPT ![w] = {}]
    /\ UNCHANGED <<ledgerVars, command>>

-----------------------------------------------------------------------------
(* The specification *)

MandateInit ==
    /\ LedgerInit
    /\ mandate = [halted |-> FALSE, reason |-> NoReason, noticed |-> FALSE]
    /\ command = [o \in Operators |-> NoCommand]
    /\ notice = [w \in Notifiers |-> {}]

\* An operator's append is part of a command and is waited for.
Appending(p) ==
    /\ \/ Chain(p)
       \/ p \notin Operators /\ \E c \in Contents : BeginAppend(p, c)
       \/ p \notin Operators /\ (CommitAppend(p, Idle) \/ RollBack(p, Idle))
       \/ p \in Operators /\ \E a \in Answers : CommitAppend(p, a)
       \/ p \in Operators /\ RollBack(p, [stage |-> "answered", ok |-> FALSE])
    /\ UNCHANGED <<mandate, command, notice>>

Around ==
    /\ PinHead \/ \E how \in {"edited", "rewritten", "removed"} : EditRow(how)
    /\ UNCHANGED <<mandate, command, notice>>

MandateNext ==
    \/ \E p \in Procs : Appending(p)
    \/ \E o \in Operators :
          HaltCommand(o) \/ ResumeCommand(o) \/ SaveMandate(o) \/ GiveUp(o)
    \/ \E w \in Notifiers : LoadForNotice(w) \/ SaveNotice(w)
    \/ Around

MandateSpec == MandateInit /\ [][MandateNext]_mandateVars

-----------------------------------------------------------------------------
(* Properties *)

\* The row and the copies of it keep their types.
MandateTypeOK ==
    /\ mandate \in Row
    /\ \A o \in Operators : command[o].step = "recording" => command[o].after \in Row
    /\ notice \in [Notifiers -> SUBSET Row]

\* The chain that the commands append to, and the row they save.
MandateSound == MandateTypeOK /\ LedgerSound

\* main.go of the console, "names the operator and the reason in the ledger":
\* a command that takes effect has left its entry in the chain since it read
\* the mandate, however appends fail, race or lose their answer.
EffectsAreOnRecord ==
    [][\A o \in Operators :
        LET cmd == command[o]
        IN  cmd.step = "recording" /\ command'[o] = NoCommand /\ mandate' # mandate
            /\ edits = <<>>
                => \E r \in rows : r.seq > cmd.since /\ r.content = Stored[cmd.content]]_mandateVars

\* cmdMandateHalt, "the regulatory stop switch.  It takes effect immediately":
\* a halted mandate stays halted until somebody resumes it.
HaltHolds ==
    [][mandate.halted /\ ~mandate'.halted =>
        \E o \in Operators : command[o].step = "recording" /\ command[o].verb = "resume"
                             /\ command'[o] = NoCommand]_mandateVars

=============================================================================
