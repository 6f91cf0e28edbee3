------------------------------ MODULE Cassettes ------------------------------
\* The corpus of recorded diagnoses: one file per digest in a directory that
\* processes share, written by recorders and loaded by a process once, when it
\* starts. A process or the machine may stop between any two steps.
EXTENDS Classifier

CONSTANTS
    Runners,         \* processes with a replay tier on one directory
    Scribes,         \* goroutines that record, whichever process they are in
    Recordable,      \* contexts a recorder may have answers for
    Recordings,      \* proposals it may be given, good and bad
    FirstFiles,      \* what the directory may hold at first
    MaxCassettes,    \* files above which a corpus is refused
    MaxRecordings,   \* bound: recordings begun
    MaxCrashes       \* bound: times a process or the machine stops

ASSUME CassetteConstants ==
    /\ MaxCassettes \in Nat /\ MaxRecordings \in Nat /\ MaxCrashes \in Nat
    /\ \A p \in Recordings : IsProposal(p)

VARIABLES
    files,      \* digest -> what the file named after it holds
    durable,    \* the same, as the disk would show it after a power cut
    unsynced,   \* files with contents that the disk does not hold yet
    runner,     \* process -> [at, left]: whether it serves, and the files it is still to load
    memory,     \* process -> digest -> the proposal it replays
    writer,     \* recorder -> what it is at
    recordings, crashes

cassetteVars == <<files, durable, unsynced, runner, memory, writer, recordings, crashes>>

Questions == {ContextDigest(dc) : dc \in Recordable}

\* A file that holds no cassette: cut short by a power cut, or edited by hand
\* until its name or its values are wrong.
Torn == AbstainProposal("torn", "SKIPPED")
Edited == AbstainProposal("edited", "SKIPPED")

Nothing == [d \in {} |-> Torn]

NoWriter == [at |-> "idle"]

\* What is written of a proposal: the mode, and whether it was degraded, are not.
OnDisk(p) == [p EXCEPT !.degraded = FALSE, !.mode = "REPLAY"]

-----------------------------------------------------------------------------
\* Loading

Loads(c) == c \notin {Torn, Edited} /\ Valid(c)

\* What earlier runs have recorded under a digest.
Kept(c, d) ==
    IsProposal(c) /\ Loads(c) /\ c.mode = "REPLAY" /\ c.rail \in d.rails \cup {"none"}

\* The directory begins with recordings, and with files somebody edited since.
ASSUME FirstFilesAssumption ==
    \A f \in FirstFiles : \A d \in DOMAIN f : d \in Questions /\ (f[d] = Edited \/ Kept(f[d], d))

\* A missing directory is an empty one.
Boot(r) ==
    /\ runner[r].at = "down"
    /\ runner' = [runner EXCEPT ![r] = [at |-> "loading", left |-> DOMAIN files]]
    /\ memory' = [memory EXCEPT ![r] = Nothing]
    /\ UNCHANGED <<files, durable, unsynced, writer, recordings, crashes>>

\* The next file, as it is by now. One that cannot be trusted refuses the boot.
Load(r) ==
    /\ runner[r].at = "loading"
    /\ \E d \in runner[r].left :
         LET fits == Cardinality(DOMAIN memory[r]) < MaxCassettes
             p == [files[d] EXCEPT !.mode = "REPLAY"]
         IN  IF fits /\ Loads(files[d])
             THEN /\ runner' = [runner EXCEPT ![r].left = @ \ {d}]
                  /\ memory' = [memory EXCEPT ![r] =
                       [e \in DOMAIN @ \cup {d} |-> IF e = d THEN p ELSE @[e]]]
             ELSE /\ runner' = [runner EXCEPT ![r] = [at |-> "refused", left |-> {}]]
                  /\ UNCHANGED memory
    /\ UNCHANGED <<files, durable, unsynced, writer, recordings, crashes>>

Serve(r) ==
    /\ runner[r].at = "loading" /\ runner[r].left = {}
    /\ runner' = [runner EXCEPT ![r].at = "up"]
    /\ UNCHANGED <<files, durable, unsynced, memory, writer, recordings, crashes>>

-----------------------------------------------------------------------------
\* Recording

\* The proposal is checked before anything is written; then a temporary file,
\* whose name no loader reads, is created. The directory is made if it is not there.
BeginRecord(q) ==
    /\ writer[q].at = "idle" /\ recordings < MaxRecordings
    /\ recordings' = recordings + 1
    /\ \E r \in Runners, dc \in Recordable, p \in Recordings :
         /\ runner[r].at = "up"
         /\ writer' = IF Acceptable(p, dc)
                      THEN [writer EXCEPT ![q] =
                             [at |-> "created", in |-> r, digest |-> ContextDigest(dc),
                              p |-> [Finalized(p, dc) EXCEPT !.mode = "REPLAY"]]]
                      ELSE writer
    /\ UNCHANGED <<files, durable, unsynced, runner, memory, crashes>>

NextStage(at) ==
    CASE at = "created" -> "written" [] at = "written" -> "synced" [] at = "synced" -> "closed"

\* Write, sync and close: each may fail, and the temporary file is then removed.
WriteStep(q) ==
    /\ writer[q].at \in {"created", "written", "synced"}
    /\ \/ writer' = [writer EXCEPT ![q].at = NextStage(@)]
       \/ writer' = [writer EXCEPT ![q] = NoWriter]
    /\ UNCHANGED <<files, durable, unsynced, runner, memory, recordings, crashes>>

\* The stages after which the file may take its name.
Publishable == {"closed"}

\* The rename is one step for whoever reads the directory, and may fail.
Publish(q) ==
    /\ writer[q].at \in Publishable
    /\ \/ LET d == writer[q].digest
          IN  /\ files' = [e \in DOMAIN files \cup {d} |->
                              IF e = d THEN OnDisk(writer[q].p) ELSE files[e]]
              /\ unsynced' = IF writer[q].at = "written" THEN unsynced \cup {d} ELSE unsynced \ {d}
              /\ writer' = [writer EXCEPT ![q].at = "published"]
       \/ writer' = [writer EXCEPT ![q] = NoWriter] /\ UNCHANGED <<files, unsynced>>
    /\ UNCHANGED <<durable, runner, memory, recordings, crashes>>

\* The process that recorded serves what it published.
Admit(q) ==
    /\ writer[q].at = "published"
    /\ memory' = [memory EXCEPT ![writer[q].in] =
         [e \in DOMAIN @ \cup {writer[q].digest} |->
            IF e = writer[q].digest THEN writer[q].p ELSE @[e]]]
    /\ writer' = [writer EXCEPT ![q] = NoWriter]
    /\ UNCHANGED <<files, durable, unsynced, runner, recordings, crashes>>

-----------------------------------------------------------------------------
\* Stops

Down == [at |-> "down", left |-> {}]

\* A process stops; the files it has written stay, temporary ones among them.
StopRunner(r) ==
    /\ crashes < MaxCrashes /\ runner[r].at # "down"
    /\ crashes' = crashes + 1
    /\ runner' = [runner EXCEPT ![r] = Down]
    /\ memory' = [memory EXCEPT ![r] = Nothing]
    /\ writer' = [q \in Scribes |->
         IF writer[q].at # "idle" /\ writer[q].in = r THEN NoWriter ELSE writer[q]]
    /\ UNCHANGED <<files, durable, unsynced, recordings>>

\* What a name may stand for after a power cut: a rename may be lost whole, and
\* contents that were not synced may be.
AfterPowerCut(d) ==
    {files[d]} \cup (IF d \in unsynced THEN {Torn} ELSE {})
        \cup (IF d \in DOMAIN durable THEN {durable[d]} ELSE {})

PowerCut ==
    /\ crashes < MaxCrashes
    /\ crashes' = crashes + 1
    /\ \E lost \in SUBSET (DOMAIN files \ DOMAIN durable) :
         \E f \in [DOMAIN files \ lost -> UNION {AfterPowerCut(d) : d \in DOMAIN files}] :
            /\ \A d \in DOMAIN f : f[d] \in AfterPowerCut(d)
            /\ files' = f /\ durable' = f
    /\ unsynced' = {}
    /\ runner' = [r \in Runners |-> Down]
    /\ memory' = [r \in Runners |-> Nothing]
    /\ writer' = [q \in Scribes |-> NoWriter]
    /\ UNCHANGED recordings

-----------------------------------------------------------------------------

CassettesInit ==
    /\ files \in FirstFiles /\ durable = files /\ unsynced = {}
    /\ runner = [r \in Runners |-> Down] /\ memory = [r \in Runners |-> Nothing]
    /\ writer = [q \in Scribes |-> NoWriter]
    /\ recordings = 0 /\ crashes = 0

CassettesNext ==
    \/ \E r \in Runners : Boot(r) \/ Load(r) \/ Serve(r) \/ StopRunner(r)
    \/ \E q \in Scribes : BeginRecord(q) \/ WriteStep(q) \/ Publish(q) \/ Admit(q)
    \/ PowerCut

-----------------------------------------------------------------------------
\* What the corpus promises

CassettesTypeOK ==
    /\ \A d \in DOMAIN files : d \in Questions
    /\ DOMAIN durable \subseteq Questions /\ unsynced \subseteq DOMAIN files
    /\ \A r \in Runners :
         /\ runner[r].at \in {"down", "loading", "up", "refused"}
         /\ DOMAIN memory[r] \subseteq Questions
    /\ recordings \in 0..MaxRecordings /\ crashes \in 0..MaxCrashes

\* Whatever stops whenever in the course of a recording, and whoever loads in the
\* course of one, no file of the program's own refuses a boot: only a file edited
\* by hand does (replay.go, "Fsync before rename: without it a crash can leave a
\* correctly named file with no contents, which the next boot would reject").
OnlyEditsRefuseABoot ==
    (\E r \in Runners : runner[r].at = "refused") => \E d \in DOMAIN durable : durable[d] = Edited

\* What a process replays is on the disk under that name, in a form the next boot
\* accepts: a recording is never forgotten by a restart that is no power cut.
ReplayedIsOnDisk ==
    \A r \in Runners : \A d \in DOMAIN memory[r] :
        d \in DOMAIN files /\ Loads(files[d])

\* A recorded rail was on offer in the context the file is named after, whoever
\* recorded it under whatever incident.
RecordedRailsAreOffered ==
    \A r \in Runners : \A d \in DOMAIN memory[r] :
        memory[r][d].rail \in d.rails \cup {"none"} /\ memory[r][d].mode = "REPLAY"

=============================================================================
