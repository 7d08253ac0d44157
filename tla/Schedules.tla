------------------------------ MODULE Schedules ------------------------------
(***************************************************************************)
(* ScheduleService (schedule_service.py) and ScheduleRunner (scheduler.py):*)
(* the rows of backup_schedules, the threads that poll for due rows, and   *)
(* the runs of a schedule, started by a tick or by hand.                   *)
(*                                                                         *)
(* run() reads the row, creates a backup job for its devices, waits for    *)
(* the job, and re-arms the row in a second transaction.  Administrators   *)
(* edit, disable and delete rows, and delete devices, at any moment of     *)
(* that.  The job itself is BackupService's (module BackupService): here   *)
(* it takes any time and ends in any way, an exception included.           *)
(*                                                                         *)
(* Data abstracted: a cadence is a period, and fires at its multiples      *)
(* (NextOccurrence has the calendar); a row's name is its identity.        *)
(***************************************************************************)
EXTENDS Integers, FiniteSets

CONSTANTS
  Schedules,  \* schedules that are ever created
  Devices,    \* device ids
  Deletable,  \* the devices an administrator deletes
  Periods,    \* cadences
  Runners,    \* schedule runner threads: the API's, and one per `app.py --schedule`
  Manual,     \* background threads of POST /api/schedules/{id}/run
  Restarts,   \* TRUE: the processes may stop and start again
  MaxTime     \* bound on the clock

ASSUME SchedulesAssumption ==
  /\ Deletable \subseteq Devices
  /\ Periods \subseteq Nat \ {0}
  /\ Runners \cap Manual = {}
  /\ Restarts \in BOOLEAN
  /\ MaxTime \in Nat

VARIABLES
  now,      \* the clock
  devices,  \* rows of the devices table
  rows,     \* rows of backup_schedules
  tick,     \* each runner's pass: run_due's `now` and what is left of its list
  run       \* what each thread holds in run()'s locals

vars == <<now, devices, rows, tick, run>>

Threads == Runners \cup Manual

Never == 0  \* next_run_at or last_run_at is null
Start == 1  \* the clock at the beginning

Row == [state : {"new", "live", "deleted"}, enabled : BOOLEAN, scope : SUBSET Devices,
        period : Periods \cup {0}, next : Nat, last : Nat]
NoRow(state) == [state |-> state, enabled |-> FALSE, scope |-> {}, period |-> 0,
                 next |-> Never, last |-> Never]
Tick == [pc : {"asleep", "running"}, at : Nat, due : SUBSET Schedules]
Asleep == [pc |-> "asleep", at |-> Never, due |-> {}]
NoRun == [pc |-> "none"]
Run == [pc : {"load", "create", "backup", "rearm"}, s : Schedules, at : Nat, scope : SUBSET Devices]

TypeOK ==
  /\ now \in Nat
  /\ devices \subseteq Devices
  /\ rows \in [Schedules -> Row]
  /\ tick \in [Runners -> Tick]
  /\ run \in [Threads -> {NoRun} \cup Run]

Init ==
  /\ now = Start
  /\ devices = Devices
  /\ rows = [s \in Schedules |-> NoRow("new")]
  /\ tick = [r \in Runners |-> Asleep]
  /\ run = [t \in Threads |-> NoRun]

-----------------------------------------------------------------------------
(* Helpers.                                                                *)

\* (mutants) the slot t lies in; the slot before; the first multiple not before t
SlotOf(period, t) == t - (t % period)
SlotBefore(period, t) == t - (t % period) - period
NotBefore(period, t) == IF t % period = 0 THEN t ELSE t + period - (t % period)

\* next_occurrence: the first multiple of the period strictly after t
NextRun(period, t) == t + period - (t % period)

Live(s) == rows[s].state = "live"

\* next_run_at as create, update and set_enabled compute it
ArmedFrom(period, enabled) == IF enabled THEN NextRun(period, now) ELSE Never

\* ScheduleService.due
Due(s) == Live(s) /\ rows[s].enabled /\ rows[s].next # Never /\ rows[s].next <= now

At(t, pc) == run[t].pc = pc
RowOf(t) == rows[run[t].s]

\* run() ends for t. An exception leaves run_due's list comprehension, and with it
\* the rest of the tick.
Return(t) == run' = [run EXCEPT ![t] = NoRun] /\ UNCHANGED tick
Raise(t) ==
  /\ run' = [run EXCEPT ![t] = NoRun]
  /\ tick' = IF t \in Runners THEN [tick EXCEPT ![t].due = {}] ELSE tick

-----------------------------------------------------------------------------
(* The administrator: rows, and devices.                                   *)

Create(s, scope, period, enabled) ==
  /\ rows[s].state = "new"
  /\ scope \subseteq devices
  /\ rows' = [rows EXCEPT ![s] = [state |-> "live", enabled |-> enabled, scope |-> scope, period |-> period,
                                  next |-> ArmedFrom(period, enabled), last |-> Never]]
  /\ UNCHANGED <<now, devices, tick, run>>

\* (mutant) an edit does not recompute next_run_at
UpdateKeepsNext(s, scope, period, enabled) ==
  /\ Live(s)
  /\ scope \subseteq devices
  /\ rows' = [rows EXCEPT ![s].scope = scope, ![s].period = period, ![s].enabled = enabled]
  /\ UNCHANGED <<now, devices, tick, run>>

Update(s, scope, period, enabled) ==
  /\ Live(s)
  /\ scope \subseteq devices
  /\ rows' = [rows EXCEPT ![s].scope = scope, ![s].period = period, ![s].enabled = enabled,
                          ![s].next = ArmedFrom(period, enabled)]
  /\ UNCHANGED <<now, devices, tick, run>>

\* (mutant) the switch does not arm
SwitchOnly(s, enabled) ==
  /\ Live(s)
  /\ rows' = [rows EXCEPT ![s].enabled = enabled]
  /\ UNCHANGED <<now, devices, tick, run>>

SetEnabled(s, enabled) ==
  /\ Live(s)
  /\ rows' = [rows EXCEPT ![s].enabled = enabled, ![s].next = ArmedFrom(rows[s].period, enabled)]
  /\ UNCHANGED <<now, devices, tick, run>>

Delete(s) ==
  /\ Live(s)
  /\ rows' = [rows EXCEPT ![s] = NoRow("deleted")]
  /\ UNCHANGED <<now, devices, tick, run>>

\* InventoryService.delete leaves the scopes that name the device as they are.
DeleteDevice(d) ==
  /\ d \in devices
  /\ devices' = devices \ {d}
  /\ UNCHANGED <<now, rows, tick, run>>

-----------------------------------------------------------------------------
(* The runner: tick() and run_due().                                       *)

\* A tick that finds nothing due leaves no trace.
TickStart(r) ==
  /\ tick[r].pc = "asleep"
  /\ \E s \in Schedules : Due(s)
  /\ tick' = [tick EXCEPT ![r] = [pc |-> "running", at |-> now, due |-> {s \in Schedules : Due(s)}]]
  /\ UNCHANGED <<now, devices, rows, run>>

\* due() has no ORDER BY: the list comes in any order.
TakeDue(r) ==
  /\ tick[r].pc = "running"
  /\ run[r] = NoRun
  /\ \E s \in tick[r].due :
       /\ tick' = [tick EXCEPT ![r].due = @ \ {s}]
       /\ run' = [run EXCEPT ![r] = [pc |-> "load", s |-> s, at |-> tick[r].at, scope |-> {}]]
  /\ UNCHANGED <<now, devices, rows>>

TickEnd(r) ==
  /\ tick[r].pc = "running"
  /\ tick[r].due = {}
  /\ run[r] = NoRun
  /\ tick' = [tick EXCEPT ![r] = Asleep]
  /\ UNCHANGED <<now, devices, rows, run>>

-----------------------------------------------------------------------------
(* One call of run().                                                      *)

\* POST /api/schedules/{id}/run checks the row in the request; the thread takes `now`.
RunByHand(m, s) ==
  /\ run[m] = NoRun
  /\ Live(s)
  /\ run' = [run EXCEPT ![m] = [pc |-> "load", s |-> s, at |-> now, scope |-> {}]]
  /\ UNCHANGED <<now, devices, rows, tick>>

Load(t) ==
  /\ At(t, "load")
  /\ \/ /\ Live(run[t].s)
        /\ run' = [run EXCEPT ![t].pc = "create", ![t].scope = RowOf(t).scope]
        /\ UNCHANGED tick
     \/ ~Live(run[t].s) /\ Raise(t)  \* KeyError
  /\ UNCHANGED <<now, devices, rows>>

\* create_job refuses ids that left the inventory; the call is before the try.
CreateJob(t) ==
  /\ At(t, "create")
  /\ \/ /\ run[t].scope \subseteq devices
        /\ run' = [run EXCEPT ![t].pc = "backup", ![t].scope = {}]  \* handed to the job
        /\ UNCHANGED tick
     \/ ~(run[t].scope \subseteq devices) /\ Raise(t)  \* ValueError
  /\ UNCHANGED <<now, devices, rows>>

\* The job ends, or raises: either way run() goes on.
JobEnds(t) ==
  /\ At(t, "backup")
  /\ run' = [run EXCEPT ![t].pc = "rearm"]
  /\ UNCHANGED <<now, devices, rows, tick>>

Rearm(t) ==
  /\ At(t, "rearm")
  /\ rows' = IF Live(run[t].s)
             THEN [rows EXCEPT ![run[t].s].last = run[t].at,
                               ![run[t].s].next = NextRun(RowOf(t).period, run[t].at)]
             ELSE rows
  /\ Return(t)
  /\ UNCHANGED <<now, devices>>

RunStep(t) == Load(t) \/ CreateJob(t) \/ JobEnds(t) \/ Rearm(t)

-----------------------------------------------------------------------------

Clock ==
  /\ now < MaxTime
  /\ now' = now + 1
  /\ UNCHANGED <<devices, rows, tick, run>>

\* The processes stop and start again: threads are gone, rows stay as they are.
Restart ==
  /\ Restarts
  /\ tick' = [r \in Runners |-> Asleep]
  /\ run' = [t \in Threads |-> NoRun]
  /\ UNCHANGED <<now, devices, rows>>

Administer(s) ==
  \/ \E scope \in SUBSET Devices, period \in Periods, enabled \in BOOLEAN :
       Create(s, scope, period, enabled) \/ Update(s, scope, period, enabled)
  \/ \E enabled \in BOOLEAN : SetEnabled(s, enabled)
  \/ Delete(s)

RunnerStep(r) == TickStart(r) \/ TakeDue(r) \/ TickEnd(r)

Next ==
  \/ \E s \in Schedules : Administer(s)
  \/ \E d \in Deletable : DeleteDevice(d)
  \/ \E r \in Runners : RunnerStep(r)
  \/ \E m \in Manual, s \in Schedules : RunByHand(m, s)
  \/ \E t \in Threads : RunStep(t)
  \/ Clock
  \/ Restart

Spec == Init /\ [][Next]_vars

\* Time passes, the runner's thread wakes up every tick_seconds, and a thread that
\* is inside run() is run by the operating system.  A job ends (BackupService).
Fairness ==
  /\ WF_vars(Clock)
  /\ \A r \in Runners : WF_vars(RunnerStep(r))
  /\ \A t \in Threads : WF_vars(RunStep(t))

FairSpec == Spec /\ Fairness

-----------------------------------------------------------------------------
(* Properties.                                                             *)

\* A schedule that is switched on has a next run, whatever runs, edits and
\* restarts came between: it is never silently forgotten.
EnabledIsArmed == \A s \in Schedules : Live(s) /\ rows[s].enabled => rows[s].next # Never

\* next_run_at is an occurrence of the cadence the row has now, also when the
\* cadence was edited while a run was on its way.
NextFitsCadence ==
  \A s \in Schedules : Live(s) /\ rows[s].next # Never =>
    \E t \in 0..now : rows[s].next = NextRun(rows[s].period, t)

\* An armed schedule is armed for after its last run: no occurrence is found due again.
ArmedAfterLastRun == \A s \in Schedules : rows[s].next # Never => rows[s].last < rows[s].next

\* A tick never runs an occurrence for the second time: with one runner and no runs
\* by hand, each run that re-arms a row is later than the last one the row records,
\* and nothing else moves last_run_at, also across restarts.
RunsMoveForward ==
  [][\A s \in Schedules :
       /\ rows'[s].state = "live"
       /\ rows'[s].last # rows[s].last \/ \E r \in Runners : At(r, "rearm") /\ run[r].s = s /\ Rearm(r)
       => rows[s].last < rows'[s].last]_vars

Servable(s) == Due(s) /\ rows[s].scope \subseteq devices

\* A restart cuts something short; else it is no more than the end of a tick.
CutsShort == Restart /\ ~(\E r \in Runners : RunnerStep(r)) /\ ~(\E t \in Threads : RunStep(t))
StaysUp == <>[][~CutsShort]_vars

\* "Execute every due schedule through BackupService and re-arm it": once the
\* processes stay up, a schedule that is due, and whose devices are all managed,
\* does not stay due.
DueIsServed == StaysUp => \A s \in Schedules : Servable(s) ~> ~Servable(s)

\* Disabling a schedule takes its next run away.
DisabledIsDisarmed == \A s \in Schedules : Live(s) /\ ~rows[s].enabled => rows[s].next = Never

-----------------------------------------------------------------------------
(* The inductive invariant: a run is of the past, so what it re-arms a row  *)
(* for is still computed from a moment the clock has reached.              *)

RunsArePast ==
  /\ \A t \in Threads : run[t] # NoRun => run[t].at \in Start..now
  /\ \A r \in Runners : tick[r].pc = "running" => tick[r].at \in Start..now
  /\ \A s \in Schedules : rows[s].last <= now

OnlyLiveRowsAreArmed ==
  \A s \in Schedules : /\ Live(s) => rows[s].period \in Periods
                       /\ rows[s].next # Never \/ rows[s].last # Never => Live(s)

SchedulesInv ==
  /\ TypeOK
  /\ RunsArePast
  /\ OnlyLiveRowsAreArmed
  /\ EnabledIsArmed
  /\ NextFitsCadence
  /\ ArmedAfterLastRun
=============================================================================
