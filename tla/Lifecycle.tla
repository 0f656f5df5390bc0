------------------------------ MODULE Lifecycle ------------------------------
(***************************************************************************)
(* The processes of one deployment: what each dispatch mode does from boot *)
(* to exit, the advisory lock that the booting ones contend for, and the   *)
(* shutdown that stops the scheduler, drains the requests and closes the   *)
(* pool, against an orchestrator that loses its patience.                  *)
(*                                                                         *)
(* Time is in units of ten seconds and passes only where the process has   *)
(* to wait: whatever it can do at once, it does before the next tick.      *)
(***************************************************************************)
EXTENDS Naturals, FiniteSets

CONSTANTS
  Processes,     \* containers
  NoHolder,        \* the advisory lock is free
  Migrations,    \* migrations that the binary carries
  StopGrace,     \* cron's schedulerStopGrace
  DrainTimeout,  \* main's shutdownTimeout
  KillGrace      \* how long the orchestrator waits after SIGTERM

ASSUME NoHolderAssumption == NoHolder \notin Processes
ASSUME MigrationsAssumption == Migrations \in Nat \ {0}
ASSUME GraceAssumption ==
  {StopGrace, DrainTimeout, KillGrace} \subseteq Nat \ {0}

VARIABLES
  process,  \* each process
  lock,     \* who holds pg_advisory_lock
  schema    \* migrations committed

lifeVars == <<process, lock, schema>>

Modes == {"default", "server", "worker", "migrate", "cron"}
Migrates == {"default", "migrate"}
Serves == {"default", "server"}
Schedules == {"default", "worker"}
Work == {"job", "request"}

\* A piece of work that has a connection of the pool is "holding" it; one whose
\* statement the database never answers is "wedged".
AtWork == {"none", "free", "holding", "wedged"}

\* told says what the process was at when the signal came; since is the time
\* since then, spent the time in this phase. late says that a wait was given
\* up; cut, that work was still under way at the exit.
Fresh(mode, pc) ==
  [mode |-> mode, pc |-> pc, work |-> [w \in Work |-> "none"],
   told |-> "no", since |-> 0, spent |-> 0, failed |-> FALSE,
   late |-> FALSE, cut |-> FALSE]

ProcessState ==
  [mode: Modes, pc: {"down", "locking", "migrating", "building", "serving",
                     "running", "stopping", "draining", "closing", "exited",
                     "killed"},
   work: [Work -> AtWork], told: {"no", "booting", "up"}, since: 0..KillGrace,
   spent: 0..KillGrace, failed: BOOLEAN, late: BOOLEAN, cut: BOOLEAN]

Down == Fresh("default", "down")

LifeInit ==
  /\ process = [p \in Processes |-> Down]
  /\ lock = NoHolder
  /\ schema = 0

Set(p, state) == process' = [process EXCEPT ![p] = state]
Goto(p, pc) ==
  process' = [process EXCEPT ![p].pc = pc, ![p].spent = 0]

\* The session that holds the lock ends, and the lock with it.
Unlock(p) == lock' = IF lock = p THEN NoHolder ELSE lock

\* Of a process that is gone only what its end was like is kept.
Exit(p, failed) ==
  Set(p, [Fresh("default", "exited") EXCEPT
            !.failed = failed,
            !.late = process[p].late,
            !.cut = \E w \in Work : process[p].work[w] # "none"])

-----------------------------------------------------------------------------
(* Booting.                                                                *)

\* run: dispatch on the mode.
Boot(p) ==
  /\ process[p].pc = "down"
  /\ \E mode \in Modes :
       Set(p, Fresh(mode, IF mode \in Migrates THEN "locking" ELSE "building"))
  /\ UNCHANGED <<lock, schema>>

\* Bug: the lock and the migrations go through a pool, each on a connection of
\* its own.
TakeLockAnyhow(p) ==
  /\ process[p].pc = "locking"
  /\ lock' = p
  /\ Goto(p, "migrating")
  /\ UNCHANGED schema

TakeLock(p) ==
  /\ process[p].pc = "locking"
  /\ lock = NoHolder
  /\ lock' = p
  /\ Goto(p, "migrating")
  /\ UNCHANGED schema

\* provider.Up: each migration is a transaction of its own.
MigrateOne(p) ==
  /\ process[p].pc = "migrating"
  /\ schema < Migrations
  /\ schema' = schema + 1
  /\ UNCHANGED <<process, lock>>

EndMigration(p) ==
  /\ process[p].pc = "migrating"
  /\ schema = Migrations
  /\ Unlock(p)
  /\ IF process[p].mode = "migrate" THEN Exit(p, FALSE) ELSE Goto(p, "building")
  /\ UNCHANGED schema

\* The error is returned: exit 1, after the deferred unlock.
FailMigration(p) ==
  /\ process[p].pc \in {"locking", "migrating"}
  /\ Unlock(p)
  /\ Exit(p, TRUE)
  /\ UNCHANGED schema

\* buildDeps pings the database and writes app_installation, which the first
\* migration creates; then the listener, or the one job of cron.
Build(p) ==
  /\ process[p].pc = "building"
  /\ IF schema = 0 THEN Exit(p, TRUE)
     ELSE IF process[p].mode = "cron"
     THEN Set(p, [process[p] EXCEPT !.pc = "running", !.work["job"] = "free"])
     ELSE Goto(p, "serving")
  /\ UNCHANGED <<lock, schema>>

FailBuild(p) ==
  /\ process[p].pc = "building"
  /\ Exit(p, TRUE)
  /\ UNCHANGED <<lock, schema>>

-----------------------------------------------------------------------------
(* Working.                                                                *)

SetWork(p, w, to) ==
  /\ process' = [process EXCEPT ![p].work[w] = to]
  /\ UNCHANGED <<lock, schema>>

\* The scheduler's timer. A job that runs long is joined by tomorrow's, here
\* one stands for both.
StartJob(p) ==
  /\ process[p].pc = "serving"
  /\ process[p].mode \in Schedules
  /\ process[p].work["job"] = "none"
  /\ SetWork(p, "job", "free")

\* The listener takes requests until Shutdown, so also while the scheduler is
\* being stopped. A worker answers /healthz, which needs no connection.
StartRequest(p) ==
  /\ process[p].pc \in {"serving", "stopping"}
  /\ process[p].mode \in Serves
  /\ ~process[p].failed
  /\ process[p].work["request"] = "none"
  /\ SetWork(p, "request", "free")

\* One statement after another; a closed pool hands out no connection.
Query(p, w) ==
  /\ process[p].work[w] = "free"
  /\ process[p].pc # "closing"
  /\ SetWork(p, w, "holding")

GiveBack(p, w) == process[p].work[w] = "holding" /\ SetWork(p, w, "free")

Wedge(p, w) == process[p].work[w] = "holding" /\ SetWork(p, w, "wedged")

\* Done, or given up on an error; a panic goes no further than runSafely.
EndWork(p, w) ==
  /\ process[p].work[w] = "free"
  /\ SetWork(p, w, "none")

-----------------------------------------------------------------------------
(* Stopping.                                                               *)

Holds(p) == \E w \in Work : process[p].work[w] \in {"holding", "wedged"}

\* cron's job is over, its error the exit code; the pool is closed as in any
\* other mode.
EndCron(p) ==
  /\ process[p].pc = "running"
  /\ process[p].work["job"] = "none"
  /\ \E failed \in BOOLEAN :
       Set(p, [process[p] EXCEPT !.pc = "closing", !.failed = failed])
  /\ UNCHANGED <<lock, schema>>

Booted(p) == process[p].pc \notin {"locking", "migrating", "building"}

\* SIGTERM or SIGINT. The modes that subscribe read it once they serve; the
\* others die of it.
Signal(p) ==
  /\ process[p].pc \notin {"down", "exited", "killed"}
  /\ process[p].told = "no"
  /\ IF process[p].mode \in Serves \cup Schedules
     THEN /\ process' = [process EXCEPT ![p].told =
                           IF Booted(p) THEN "up" ELSE "booting"]
          /\ UNCHANGED lock
     ELSE Set(p, Down) /\ Unlock(p)
  /\ UNCHANGED schema

\* serveUntilSignal: the signal is read, or the listener dies by itself.
StopScheduler(p) ==
  /\ process[p].pc = "serving"
  /\ \E failed \in BOOLEAN :
       /\ failed \/ process[p].told # "no"
       /\ Set(p, [process[p] EXCEPT !.pc = "stopping", !.spent = 0,
                                    !.failed = failed])
  /\ UNCHANGED <<lock, schema>>

\* A wait of at most limit is over: the work is done, or given up on.
WaitOver(p, w, limit) ==
  process[p].work[w] = "none" \/ process[p].spent >= limit

Leave(p, w, pc) ==
  Set(p, [process[p] EXCEPT !.pc = pc, !.spent = 0,
            !.late = @ \/ process[p].work[w] # "none"])

\* Bug: the stop function asks the scheduler to stop and does not wait.
SchedulerStoppedAtOnce(p) ==
  /\ process[p].pc = "stopping"
  /\ Goto(p, IF process[p].failed THEN "closing" ELSE "draining")
  /\ UNCHANGED <<lock, schema>>

\* A listener that failed has nothing to drain.
SchedulerStopped(p) ==
  /\ process[p].pc = "stopping"
  /\ WaitOver(p, "job", StopGrace)
  /\ Leave(p, "job", IF process[p].failed THEN "closing" ELSE "draining")
  /\ UNCHANGED <<lock, schema>>

\* srv.Shutdown returns: every request is answered, or the deadline is here.
Drained(p) ==
  /\ process[p].pc = "draining"
  /\ WaitOver(p, "request", DrainTimeout)
  /\ Leave(p, "request", "closing")
  /\ UNCHANGED <<lock, schema>>

\* The deferred pool.Close waits for every connection to be given back, and
\* has no deadline.
ClosePool(p) ==
  /\ process[p].pc = "closing"
  /\ ~Holds(p)
  /\ Exit(p, process[p].failed)
  /\ UNCHANGED <<lock, schema>>

AtOnce(p) ==
  \/ process[p].pc = "serving"
  \/ process[p].pc = "stopping" /\ WaitOver(p, "job", StopGrace)
  \/ process[p].pc = "draining" /\ WaitOver(p, "request", DrainTimeout)
  \/ process[p].pc = "closing" /\ ~Holds(p)

Running(p) == process[p].pc \notin {"down", "exited", "killed"}

\* Ten seconds, of a process that was told to stop and has come up.
PassTime(p) ==
  /\ Running(p) /\ Booted(p)
  /\ process[p].told # "no"
  /\ ~AtOnce(p)
  /\ process[p].since < KillGrace
  /\ process' = [process EXCEPT ![p].since = @ + 1, ![p].spent = @ + 1]
  /\ UNCHANGED <<lock, schema>>

\* SIGKILL. Of a process that was told to stop as it booted nothing is
\* promised: killed, it has just crashed.
Kill(p) ==
  /\ Running(p)
  /\ process[p].told = "up"
  /\ process[p].since = KillGrace
  /\ Set(p, [Fresh("default", "killed") EXCEPT !.failed = process[p].failed])
  /\ Unlock(p)
  /\ UNCHANGED schema

\* The machine goes, or a stopped container is replaced.
Crash(p) ==
  /\ process[p].pc # "down"
  /\ Set(p, Down)
  /\ Unlock(p)
  /\ UNCHANGED schema

Booting(p) ==
  \/ Boot(p) \/ TakeLock(p) \/ MigrateOne(p) \/ EndMigration(p)
  \/ FailMigration(p) \/ Build(p) \/ FailBuild(p)

Working(p) ==
  \/ StartJob(p) \/ StartRequest(p)
  \/ \E w \in Work : Query(p, w) \/ GiveBack(p, w) \/ Wedge(p, w) \/ EndWork(p, w)

Stopping(p) ==
  \/ EndCron(p) \/ Signal(p) \/ StopScheduler(p) \/ SchedulerStopped(p)
  \/ Drained(p) \/ ClosePool(p) \/ PassTime(p) \/ Kill(p) \/ Crash(p)

LifeNext == \E p \in Processes : Booting(p) \/ Working(p) \/ Stopping(p)

LifeSpec == LifeInit /\ [][LifeNext]_lifeVars

-----------------------------------------------------------------------------
(* What boot and shutdown promise.                                         *)

LifeTypeOK ==
  /\ process \in [Processes -> ProcessState]
  /\ lock \in Processes \cup {NoHolder}
  /\ schema \in 0..Migrations

\* Several containers may boot at once, fail halfway, be killed and restarted;
\* a process of the default mode that has come up has every migration under it,
\* and no two processes ever migrate at the same time.
ServesTheWholeSchema ==
  /\ \A p \in Processes :
       process[p].mode = "default"
         /\ process[p].pc \in {"building", "serving", "stopping", "draining",
                               "closing"}
         => schema = Migrations
  /\ \A p, q \in Processes :
       process[p].pc = "migrating" /\ process[q].pc = "migrating" => p = q

\* A process that was told to stop, exits with 0 and gave up on no wait has
\* finished every request it took and every job it started, those included
\* that came in while the scheduler was being stopped.
CleanExitCutsNothingShort ==
  \A p \in Processes :
    process[p].pc = "exited" /\ ~process[p].failed /\ ~process[p].late
      => ~process[p].cut

\* main.go on shutdownTimeout: "Deliberately under the default grace period, so
\* we exit on our own terms rather than being killed mid-drain." A process that
\* has come up, and whose listener works, is told to stop and is not killed.
ExitsOnItsOwnTerms ==
  \A p \in Processes : process[p].pc = "killed" => process[p].failed

=============================================================================
