------------------------------- MODULE Process -------------------------------
(***************************************************************************)
(* A run of the program, from app.New over Run to Close, and the           *)
(* PostgreSQL server it keeps in managed mode (internal/infra).  The       *)
(* server is a process of its own, in a data directory that all runs use:  *)
(* it survives a run that is killed, and the next run recovers the         *)
(* directory.  One run at a time.  The server and pg_ctl are external.     *)
(***************************************************************************)
EXTENDS Integers, Sequences, FiniteSets

CONSTANTS
    Runs,           \* runs of the program, one after another
    PgPortAttempts,
    MaxKills        \* bound

ASSUME ProcessAssumption == PgPortAttempts \in Nat \ {0} /\ MaxKills \in Nat

VARIABLES
    run,        \* by run: phase; roles; step of New; what is open; the tasks
                \* that are up; whether the context is cancelled; the owner of
                \* the lock file it read; its boots; whether a reaper waits
    fate,       \* history: by run, what befell it
    servers,    \* the PostgreSQL servers in the directory: [by, up]
    lockFile,   \* the owner of postmaster.pid, at most one
    kills

processVars == <<run, fate, servers, lockFile, kills>>

\* The steps of New that can fail; those before the store are StartManaged.
Steps == <<"cache", "read", "recover", "launch", "database", "store", "redis",
           "queue", "parts", "listener">>

\* Close, with Runtime.Stop at its end.
Closing == <<"listener", "queue", "redis", "store", "cache", "database">>

Off == [phase |-> "off", roles |-> {}, step |-> 1, open |-> {}, up |-> {}, cancelled |-> FALSE,
        held |-> {}, boots |-> 0, reaper |-> FALSE]

Alive(p) == run[p].phase \notin {"off", "exited"}
At(p, step) == run[p].phase = "building" /\ Steps[run[p].step] = step

\* The tasks that Run spawns, and what each uses.
Tasks(roles) ==
    {"downtime"} \cup (IF "worker" \in roles THEN {"outbox", "worker"} ELSE {})
                 \cup (IF "api" \in roles THEN {"http"} ELSE {})

Uses(task) ==
    IF task = "downtime" THEN {"store"}
    ELSE {"store", "redis", "queue"} \cup (IF task = "http" THEN {"listener"} ELSE {})

Becomes(p, r) == run' = [run EXCEPT ![p] = r]

-----------------------------------------------------------------------------
(* app.New                                                                 *)

\* Managed mode or not.
Begin(p) ==
    /\ run[p].phase = "off" /\ \A q \in Runs : ~Alive(q)
    /\ \E roles \in SUBSET {"api", "worker"} \ {{}}, first \in {"cache", "store"} :
          Becomes(p, [Off EXCEPT !.phase = "building", !.roles = roles,
                                 !.step = CHOOSE n \in 1..Len(Steps) : Steps[n] = first])
    /\ UNCHANGED <<fate, servers, lockFile, kills>>

Opens(p) ==
    LET step == Steps[run[p].step]
    IN  IF step = "listener" /\ "api" \notin run[p].roles THEN {}
        ELSE {step} \cap {Closing[n] : n \in DOMAIN Closing}

\* The last step done, Run spawns the tasks.
Done(p) ==
    LET last == run[p].step = Len(Steps)
    IN  [run[p] EXCEPT !.open = @ \cup Opens(p),
                       !.step = IF last THEN 1 ELSE @ + 1,
                       !.phase = IF last THEN "serving" ELSE @,
                       !.up = IF last THEN Tasks(run[p].roles) ELSE @]

\* As if a step that fails just returned.
FailedUnclosed(p) == [run[p] EXCEPT !.phase = "exited"]

\* The deferred teardown: an error of New closes what is open; the client is kept
\* before it is pinged, and the queue before it makes the group.
Failed(p) ==
    [run[p] EXCEPT !.phase = "closing", !.step = 1,
                   !.open = @ \cup ({Steps[run[p].step]} \cap {"redis", "queue"})]

BuildStep(p) ==
    /\ \E step \in {"cache", "store", "redis", "queue", "parts", "listener"} : At(p, step)
    /\ Becomes(p, Done(p)) \/ Becomes(p, Failed(p))
    /\ UNCHANGED <<fate, servers, lockFile, kills>>

\* recoverStaleLock: the lock file is read, then the port it names is probed. A
\* server that listens is stopped, or cannot be; then the file is removed.
ReadLock(p) ==
    /\ At(p, "read")
    /\ Becomes(p, IF run[p].cancelled THEN Failed(p) ELSE [Done(p) EXCEPT !.held = lockFile])
    /\ UNCHANGED <<fate, servers, lockFile, kills>>

Recover(p) ==
    /\ At(p, "recover")
    /\ \/ /\ run[p].held = {} /\ Becomes(p, Done(p))
          /\ UNCHANGED <<servers, lockFile>>
       \/ /\ run[p].held # {} /\ Becomes(p, [Done(p) EXCEPT !.held = {}])
          /\ servers' = servers \ {[by |-> q, up |-> TRUE] : q \in run[p].held}
          /\ lockFile' = {}
       \/ /\ \E q \in run[p].held : [by |-> q, up |-> TRUE] \in servers
          /\ Becomes(p, Failed(p)) /\ UNCHANGED <<servers, lockFile>>
    /\ UNCHANGED <<fate, kills>>

\* db.Start: a server starts only where there is no lock file.
Launch(p) ==
    /\ At(p, "launch")
    /\ \/ /\ lockFile = {} /\ lockFile' = {p}
          /\ servers' = servers \cup {[by |-> p, up |-> FALSE]}
          /\ Becomes(p, [Done(p) EXCEPT !.boots = @ + 1])
       \/ lockFile # {} /\ Becomes(p, Failed(p)) /\ UNCHANGED <<servers, lockFile>>
    /\ UNCHANGED <<fate, kills>>

MayTryAnotherPort(p) == run[p].boots < PgPortAttempts

\* It is up; or it failed, to be tried on another port where that was the reason.
Await(p) ==
    /\ At(p, "database")
    /\ \/ [by |-> p, up |-> TRUE] \in servers /\ Becomes(p, Done(p))
       \/ /\ \A s \in servers : s.by # p
          /\ \/ Becomes(p, Failed(p))
             \/ MayTryAnotherPort(p) /\ Becomes(p, [run[p] EXCEPT !.step = 2])
    /\ UNCHANGED <<fate, servers, lockFile, kills>>

\* startWithContext: a start that is abandoned is left to a reaper.
Abandon(p) ==
    /\ At(p, "database") /\ run[p].cancelled
    /\ Becomes(p, [Failed(p) EXCEPT !.reaper = TRUE])
    /\ fate' = [fate EXCEPT ![p] = @ \cup {"abandoned"}]
    /\ UNCHANGED <<servers, lockFile, kills>>

\* pg_ctl stop finds the server by the lock file.
StopServer(p) ==
    IF lockFile = {p} THEN servers' = {s \in servers : s.by # p} /\ lockFile' = {}
    ELSE UNCHANGED <<servers, lockFile>>

Reap(p) ==
    /\ run[p].reaper /\ Alive(p) /\ Becomes(p, [run[p] EXCEPT !.reaper = FALSE])
    /\ \/ [by |-> p, up |-> TRUE] \in servers /\ StopServer(p)
       \/ (\A s \in servers : s.by # p) /\ UNCHANGED <<servers, lockFile>>
    /\ UNCHANGED <<fate, kills>>

-----------------------------------------------------------------------------
(* App.Run                                                                 *)

\* The signal; its context is also that of New.
Signal(p) ==
    /\ run[p].phase \in {"building", "serving"} /\ ~run[p].cancelled
    /\ Becomes(p, [run[p] EXCEPT !.cancelled = TRUE])
    /\ UNCHANGED <<fate, servers, lockFile, kills>>

\* The HTTP server fails, the one task whose error can be another than the
\* cancellation: fail cancels the rest.
ServeFails(p) ==
    /\ "http" \in run[p].up
    /\ Becomes(p, [run[p] EXCEPT !.up = @ \ {"http"}, !.cancelled = TRUE])
    /\ UNCHANGED <<fate, servers, lockFile, kills>>

\* Each task ends on its own once cancelled; a request that outlasts the drain
\* of the HTTP server is cut off, and its handler not waited for.
TaskEnds(p) ==
    /\ run[p].cancelled /\ \E task \in run[p].up : Becomes(p, [run[p] EXCEPT !.up = @ \ {task}])
    /\ UNCHANGED <<fate, servers, lockFile, kills>>

\* wg.Wait
AllEnded(p) == run[p].up = {}

RunReturns(p) ==
    /\ run[p].phase = "serving" /\ AllEnded(p)
    /\ Becomes(p, [run[p] EXCEPT !.phase = "closing"])
    /\ UNCHANGED <<fate, servers, lockFile, kills>>

-----------------------------------------------------------------------------
(* App.Close, and the end of the process                                   *)

CloseStep(p) ==
    /\ run[p].phase = "closing" /\ run[p].step <= Len(Closing)
    /\ LET it == Closing[run[p].step]
       IN  /\ Becomes(p, [run[p] EXCEPT !.step = @ + 1, !.open = @ \ {it}])
           /\ IF it = "database" /\ it \in run[p].open THEN StopServer(p)
              ELSE UNCHANGED <<servers, lockFile>>
    /\ UNCHANGED <<fate, kills>>

\* main returns, whatever the reaper has still to do.
Exit(p) ==
    /\ run[p].phase = "closing" /\ run[p].step > Len(Closing)
    /\ Becomes(p, [Off EXCEPT !.phase = "exited", !.open = run[p].open])
    /\ UNCHANGED <<fate, servers, lockFile, kills>>

Kill(p) ==
    /\ Alive(p) /\ kills < MaxKills /\ kills' = kills + 1
    /\ Becomes(p, [Off EXCEPT !.phase = "exited"])
    /\ fate' = [fate EXCEPT ![p] = @ \cup
                  {IF [by |-> p, up |-> FALSE] \in servers THEN "killed booting" ELSE "killed"}]
    /\ UNCHANGED <<servers, lockFile>>

-----------------------------------------------------------------------------
(* The servers: one comes up, gives up, or finds its lock file gone        *)

ServerSteps ==
    /\ \E s \in servers :
          \/ /\ ~s.up /\ servers' = (servers \ {s}) \cup {[s EXCEPT !.up = TRUE]}
             /\ UNCHANGED lockFile
          \/ /\ ~s.up \/ lockFile # {s.by}
             /\ servers' = servers \ {s} /\ lockFile' = lockFile \ {s.by}
    /\ UNCHANGED <<run, fate, kills>>

ProcessInit ==
    /\ run = [p \in Runs |-> Off] /\ fate = [p \in Runs |-> {}]
    /\ servers = {} /\ lockFile = {} /\ kills = 0

ProcessNext ==
    \/ \E p \in Runs :
          \/ Begin(p) \/ BuildStep(p) \/ ReadLock(p) \/ Recover(p) \/ Launch(p)
          \/ Await(p) \/ Abandon(p) \/ Reap(p)
          \/ Signal(p) \/ ServeFails(p) \/ TaskEnds(p) \/ RunReturns(p)
          \/ CloseStep(p) \/ Exit(p) \/ Kill(p)
    \/ ServerSteps

ProcessSpec == ProcessInit /\ [][ProcessNext]_processVars

-----------------------------------------------------------------------------

Resources == {Closing[n] : n \in DOMAIN Closing}

ProcessTypeOK ==
    /\ run \in [Runs -> [phase : {"off", "building", "serving", "closing", "exited"},
                         roles : SUBSET {"api", "worker"}, step : 1..Len(Steps),
                         open : SUBSET Resources, up : SUBSET Tasks({"api", "worker"}),
                         cancelled : BOOLEAN, held : SUBSET Runs, boots : 0..PgPortAttempts,
                         reaper : BOOLEAN]]
    /\ fate \in [Runs -> SUBSET {"abandoned", "killed booting", "killed"}]
    /\ servers \subseteq [by : Runs, up : BOOLEAN]
    /\ lockFile \subseteq Runs /\ Cardinality(lockFile) <= 1 /\ kills \in 0..MaxKills

\* Wherever New fails, and however Run ends: a run that exits by itself leaves
\* nothing open and no server behind, but where its context ended while the server
\* started (New, Close, StartManaged).
NothingLeaks ==
    \A p \in Runs : run[p].phase = "exited" /\ fate[p] = {}
       => run[p].open = {} /\ \A s \in servers : s.by # p

\* Nothing is closed under a task that uses it, nor the server under the store
\* (wg.Wait in Run, the order of Close).
ClosedAfterUse ==
    \A p \in Runs :
       /\ \A task \in run[p].up : Uses(task) \subseteq run[p].open
       /\ run[p].phase = "serving" /\ "cache" \in run[p].open => "database" \in run[p].open

\* Whatever earlier runs left in the directory: a run in managed mode serves on
\* its own server, and no other is in the directory, unless a run was killed or
\* gave up while its server started (recoverStaleLock).
OwnServer ==
    \A p \in Runs : run[p].phase = "serving" /\ "database" \in run[p].open
       => \/ servers = {[by |-> p, up |-> TRUE]} /\ lockFile = {p}
          \/ \E q \in Runs : fate[q] \cap {"killed booting", "abandoned"} # {}

RunsAreTidy == NothingLeaks /\ ClosedAfterUse /\ OwnServer

\* The process and its server are what they should be, and keep house.
ProcessesSound == ProcessTypeOK /\ RunsAreTidy

\* What StartManaged says: a failed start tears down what it had started.
NoOrphan ==
    \A p \in Runs : run[p].phase = "exited" /\ fate[p] \subseteq {"abandoned"}
       => \A s \in servers : s.by # p

=============================================================================
