--------------------------- MODULE Schedules_proofs ---------------------------
(***************************************************************************)
(* Proofs about Schedules, for any number of schedules, devices, runners   *)
(* and requests, and a clock without bound.                                *)
(***************************************************************************)
EXTENDS Schedules, TLAPS

\* The next run is after the moment it is computed from.
LEMMA NextRunIsLater ==
  ASSUME NEW p \in Nat \ {0}, NEW t \in Nat
  PROVE  NextRun(p, t) \in Nat /\ NextRun(p, t) > t
<1>1. t % p \in 0..(p - 1)
  OBVIOUS
<1>2. QED
  BY <1>1 DEF NextRun

LEMMA PeriodsAreNonzero == \A p \in Periods : p \in Nat \ {0}
BY SchedulesAssumption

\* What a row must be for the invariant, given the clock.
RowOK(row, clock) ==
  /\ row \in Row
  /\ row.last <= clock
  /\ row.state = "live" => row.period \in Periods
  /\ row.last # Never => row.state = "live"
  /\ row.next # Never => /\ row.state = "live"
                         /\ row.last < row.next
                         /\ \E t \in 0..clock : row.next = NextRun(row.period, t)
  /\ row.state = "live" /\ row.enabled => row.next # Never

RunOK(r, clock) == r = NoRun \/ (r \in Run /\ r.at \in Start..clock)
TickOK(k, clock) == k \in Tick /\ (k.pc = "running" => k.at \in Start..clock)

\* The invariant, thread by thread and row by row: what the steps are proved for.
Pointwise ==
  /\ now \in Nat /\ now >= Start
  /\ devices \subseteq Devices
  /\ rows = [s \in Schedules |-> rows[s]] /\ \A s \in Schedules : RowOK(rows[s], now)
  /\ tick = [r \in Runners |-> tick[r]] /\ \A r \in Runners : TickOK(tick[r], now)
  /\ run = [t \in Threads |-> run[t]] /\ \A t \in Threads : RunOK(run[t], now)

\* Each part of the invariant is about one row, one pass or one run.
LEMMA PointwiseIsInv == Pointwise => SchedulesInv
<1> SUFFICES ASSUME Pointwise PROVE SchedulesInv
  OBVIOUS
<1>1. TypeOK
  <2>1. \A s \in Schedules : rows[s] \in Row
    BY DEF Pointwise, RowOK
  <2>2. \A r \in Runners : tick[r] \in Tick
    BY DEF Pointwise, TickOK
  <2>3. \A t \in Threads : run[t] \in {NoRun} \cup Run
    BY DEF Pointwise, RunOK
  <2>4. rows \in [Schedules -> Row] /\ tick \in [Runners -> Tick] /\ run \in [Threads -> {NoRun} \cup Run]
    BY <2>1, <2>2, <2>3 DEF Pointwise
  <2>5. QED
    BY <2>4 DEF Pointwise, TypeOK
<1>2. RunsArePast
  BY DEF Pointwise, RunsArePast, RowOK, TickOK, RunOK
<1>3. OnlyLiveRowsAreArmed /\ EnabledIsArmed /\ NextFitsCadence /\ ArmedAfterLastRun
  BY DEF Pointwise, OnlyLiveRowsAreArmed, EnabledIsArmed, NextFitsCadence, ArmedAfterLastRun, Live, RowOK
<1>4. QED
  BY <1>1, <1>2, <1>3 DEF SchedulesInv

-----------------------------------------------------------------------------
(* Rows, passes and runs one at a time.                                    *)

\* A row armed from a moment the clock has reached, for after its last run.
LEMMA ArmedRow ==
  ASSUME NEW clock \in Nat, NEW t \in 0..clock, NEW row \in Row, row.state = "live", row.period \in Periods,
         row.last <= t, row.next = NextRun(row.period, t)
  PROVE  RowOK(row, clock)
<1>1. row.period \in Nat \ {0} /\ t \in Nat
  BY PeriodsAreNonzero
<1>2. row.next \in Nat /\ row.next > t
  BY <1>1, NextRunIsLater
<1>3. row.last \in Nat
  BY DEF Row
<1>4. row.last < row.next /\ row.next # Never /\ row.last <= clock
  BY <1>1, <1>2, <1>3 DEF Never
<1>5. QED
  BY <1>4 DEF RowOK

LEMMA DisarmedRow ==
  ASSUME NEW clock \in Nat, NEW row \in Row, row.state = "live", row.period \in Periods, ~row.enabled,
         row.next = Never, row.last <= clock
  PROVE  RowOK(row, clock)
BY DEF RowOK

LEMMA AbsentRow ==
  ASSUME NEW clock \in Nat, NEW state \in {"new", "deleted"}
  PROVE  RowOK(NoRow(state), clock)
BY DEF RowOK, NoRow, Row, Never

\* What was right yesterday is right today.
LEMMA TimePasses ==
  ASSUME NEW clock \in Nat
  PROVE  /\ \A row : RowOK(row, clock) => RowOK(row, clock + 1)
         /\ \A k : TickOK(k, clock) => TickOK(k, clock + 1)
         /\ \A r : RunOK(r, clock) => RunOK(r, clock + 1)
<1>1. ASSUME NEW row, RowOK(row, clock) PROVE RowOK(row, clock + 1)
  <2>1. row.last \in Nat
    BY <1>1 DEF RowOK, Row
  <2>2. row.last <= clock + 1
    BY <1>1, <2>1 DEF RowOK
  <2>3. 0..clock \subseteq 0..(clock + 1)
    OBVIOUS
  <2>4. QED
    BY <1>1, <2>2, <2>3 DEF RowOK
<1>2. Start..clock \subseteq Start..(clock + 1)
  BY DEF Start
<1>3. QED
  BY <1>1, <1>2 DEF TickOK, RunOK

-----------------------------------------------------------------------------
(* The invariant holds initially and is kept by every step.                *)

LEMMA InvInit == Init => Pointwise
<1> SUFFICES ASSUME Init PROVE Pointwise
  OBVIOUS
<1>1. \A s \in Schedules : RowOK(rows[s], now)
  BY AbsentRow DEF Init, Start
<1>2. \A r \in Runners : TickOK(tick[r], now)
  BY DEF Init, TickOK, Tick, Asleep, Never
<1>3. \A t \in Threads : RunOK(run[t], now)
  BY DEF Init, RunOK
<1>4. QED
  BY <1>1, <1>2, <1>3 DEF Init, Pointwise, Start

\* A step that rewrites one row, or nothing of the table.
LEMMA RowWritten ==
  ASSUME Pointwise, NEW s \in Schedules, NEW row, RowOK(row, now), rows' = [rows EXCEPT ![s] = row]
  PROVE  /\ rows' = [x \in Schedules |-> rows'[x]]
         /\ \A x \in Schedules : RowOK(rows'[x], now)
<1>1. rows = [x \in Schedules |-> rows[x]] /\ \A x \in Schedules : RowOK(rows[x], now)
  BY DEF Pointwise
<1> QED
  BY <1>1

\* A step that rewrites what one thread holds.
LEMMA RunWritten ==
  ASSUME Pointwise, NEW t \in Threads, NEW r, RunOK(r, now), run' = [run EXCEPT ![t] = r]
  PROVE  /\ run' = [x \in Threads |-> run'[x]]
         /\ \A x \in Threads : RunOK(run'[x], now)
<1>1. run = [x \in Threads |-> run[x]] /\ \A x \in Threads : RunOK(run[x], now)
  BY DEF Pointwise
<1> QED
  BY <1>1

\* A step that rewrites one runner's pass.
LEMMA TickWritten ==
  ASSUME Pointwise, NEW r \in Runners, NEW k, TickOK(k, now), tick' = [tick EXCEPT ![r] = k]
  PROVE  /\ tick' = [x \in Runners |-> tick'[x]]
         /\ \A x \in Runners : TickOK(tick'[x], now)
<1>1. tick = [x \in Runners |-> tick[x]] /\ \A x \in Runners : TickOK(tick[x], now)
  BY DEF Pointwise
<1> QED
  BY <1>1

\* create, update and set_enabled arm a row from the present, or disarm it.
LEMMA AdministeredRow ==
  ASSUME Pointwise, NEW row \in Row, row.state = "live", row.period \in Periods, row.last <= now,
         row.next = ArmedFrom(row.period, row.enabled)
  PROVE  RowOK(row, now)
<1>1. now \in Nat /\ now \in 0..now
  BY DEF Pointwise
<1>2. CASE row.enabled
  BY <1>1, <1>2, ArmedRow DEF ArmedFrom
<1>3. CASE ~row.enabled
  BY <1>1, <1>3, DisarmedRow DEF ArmedFrom
<1>4. QED
  BY <1>2, <1>3

\* next_occurrence of a known cadence is a time.
LEMMA ArmedFromIsTime ==
  ASSUME Pointwise, NEW period \in Periods, NEW enabled \in BOOLEAN
  PROVE  ArmedFrom(period, enabled) \in Nat
<1>1. period \in Nat \ {0} /\ now \in Nat
  BY PeriodsAreNonzero DEF Pointwise
<1>2. NextRun(period, now) \in Nat
  BY <1>1, NextRunIsLater
<1>3. QED
  BY <1>2 DEF ArmedFrom, Never

LEMMA AdministerStep ==
  ASSUME Pointwise, NEW s \in Schedules, Administer(s)
  PROVE  Pointwise'
<1>1. UNCHANGED <<now, devices, tick, run>>
  BY DEF Administer, Create, Update, SetEnabled, Delete
<1>2. rows[s] \in Row /\ now \in Nat /\ rows[s].last <= now /\ devices \subseteq Devices
      /\ (Live(s) => rows[s].period \in Periods)
  BY DEF Pointwise, RowOK, Live
<1>3. \E row : RowOK(row, now) /\ rows' = [rows EXCEPT ![s] = row]
  <2>1. ASSUME NEW scope \in SUBSET Devices, NEW period \in Periods, NEW enabled \in BOOLEAN,
               Create(s, scope, period, enabled)
        PROVE  \E row : RowOK(row, now) /\ rows' = [rows EXCEPT ![s] = row]
    <3> DEFINE row == [state |-> "live", enabled |-> enabled, scope |-> scope, period |-> period,
                       next |-> ArmedFrom(period, enabled), last |-> Never]
    <3>1. row \in Row
      BY ArmedFromIsTime DEF Row, Never
    <3>2. RowOK(row, now)
      BY <3>1, <1>2, AdministeredRow DEF Never
    <3>3. rows' = [rows EXCEPT ![s] = row]
      BY <2>1 DEF Create
    <3>4. QED
      BY <3>2, <3>3
  <2>2. ASSUME NEW scope \in SUBSET Devices, NEW period \in Periods, NEW enabled \in BOOLEAN,
               Update(s, scope, period, enabled)
        PROVE  \E row : RowOK(row, now) /\ rows' = [rows EXCEPT ![s] = row]
    <3> DEFINE row == [rows[s] EXCEPT !.scope = scope, !.period = period, !.enabled = enabled,
                                      !.next = ArmedFrom(period, enabled)]
    <3>1. row \in Row /\ row.state = "live" /\ row.last = rows[s].last /\ row.period = period
          /\ row.next = ArmedFrom(row.period, row.enabled)
      BY <2>2, <1>2, ArmedFromIsTime DEF Row, Update, Live
    <3>2. RowOK(row, now)
      BY <3>1, <1>2, AdministeredRow
    <3>3. rows' = [rows EXCEPT ![s] = row]
      BY <2>2, <1>2 DEF Update, Row
    <3>4. QED
      BY <3>2, <3>3
  <2>3. ASSUME NEW enabled \in BOOLEAN, SetEnabled(s, enabled)
        PROVE  \E row : RowOK(row, now) /\ rows' = [rows EXCEPT ![s] = row]
    <3> DEFINE row == [rows[s] EXCEPT !.enabled = enabled, !.next = ArmedFrom(rows[s].period, enabled)]
    <3>1. row \in Row /\ row.state = "live" /\ row.last = rows[s].last /\ row.period \in Periods
          /\ row.next = ArmedFrom(row.period, row.enabled)
      BY <2>3, <1>2, ArmedFromIsTime DEF Row, SetEnabled, Live
    <3>2. RowOK(row, now)
      BY <3>1, <1>2, AdministeredRow
    <3>3. rows' = [rows EXCEPT ![s] = row]
      BY <2>3, <1>2 DEF SetEnabled, Row
    <3>4. QED
      BY <3>2, <3>3
  <2>4. ASSUME Delete(s) PROVE \E row : RowOK(row, now) /\ rows' = [rows EXCEPT ![s] = row]
    BY <2>4, <1>2, AbsentRow DEF Delete
  <2>5. QED
    BY <2>1, <2>2, <2>3, <2>4 DEF Administer
<1>4. rows' = [x \in Schedules |-> rows'[x]] /\ \A x \in Schedules : RowOK(rows'[x], now)
  BY <1>3, RowWritten
<1>5. QED
  BY <1>1, <1>4 DEF Pointwise

LEMMA RunnerStepKeeps ==
  ASSUME Pointwise, NEW r \in Runners, RunnerStep(r)
  PROVE  Pointwise'
<1>1. r \in Threads /\ now \in Start..now /\ TickOK(tick[r], now)
  BY DEF Threads, Pointwise, Start
<1>2. CASE TickStart(r)
  <2>1. TickOK([pc |-> "running", at |-> now, due |-> {s \in Schedules : Due(s)}], now)
    BY <1>1 DEF TickOK, Tick, Start
  <2>2. QED
    BY <1>2, <2>1, TickWritten DEF TickStart, Pointwise
<1>3. CASE TakeDue(r)
  <2>1. PICK s \in tick[r].due :
          /\ tick' = [tick EXCEPT ![r].due = @ \ {s}]
          /\ run' = [run EXCEPT ![r] = [pc |-> "load", s |-> s, at |-> tick[r].at, scope |-> {}]]
    BY <1>3 DEF TakeDue
  <2>2. s \in Schedules /\ tick[r].at \in Start..now /\ tick[r].at \in Nat
    BY <1>1, <1>3, <2>1 DEF TakeDue, TickOK, Tick
  <2>3. RunOK([pc |-> "load", s |-> s, at |-> tick[r].at, scope |-> {}], now)
    BY <2>2 DEF RunOK, Run
  <2>4. TickOK([tick[r] EXCEPT !.due = @ \ {s}], now)
    BY <1>1 DEF TickOK, Tick
  <2>5. tick' = [tick EXCEPT ![r] = [tick[r] EXCEPT !.due = @ \ {s}]]
    BY <2>1
  <2>6. QED
    BY <1>1, <1>3, <2>1, <2>3, <2>4, <2>5, TickWritten, RunWritten DEF TakeDue, Pointwise
<1>4. CASE TickEnd(r)
  <2>1. TickOK(Asleep, now)
    BY DEF TickOK, Tick, Asleep, Never
  <2>2. QED
    BY <1>4, <2>1, TickWritten DEF TickEnd, Pointwise
<1>5. QED
  BY <1>2, <1>3, <1>4 DEF RunnerStep

LEMMA RunByHandKeeps ==
  ASSUME Pointwise, NEW m \in Manual, NEW s \in Schedules, RunByHand(m, s)
  PROVE  Pointwise'
<1>1. m \in Threads /\ now \in Start..now /\ now \in Nat
  BY DEF Threads, Pointwise, Start
<1>2. RunOK([pc |-> "load", s |-> s, at |-> now, scope |-> {}], now)
  BY <1>1 DEF RunOK, Run
<1>3. QED
  BY <1>1, <1>2, RunWritten DEF RunByHand, Pointwise

\* An exception empties the thread and the pass it belonged to.
LEMMA RaiseKeeps ==
  ASSUME Pointwise, NEW t \in Threads, Raise(t), UNCHANGED <<now, devices, rows>>
  PROVE  Pointwise'
<1>1. RunOK(NoRun, now)
  BY DEF RunOK
<1>2. run' = [x \in Threads |-> run'[x]] /\ \A x \in Threads : RunOK(run'[x], now)
  BY <1>1, RunWritten DEF Raise
<1>3. tick' = [x \in Runners |-> tick'[x]] /\ \A x \in Runners : TickOK(tick'[x], now)
  <2>1. CASE t \in Runners
    <3>1. TickOK(tick[t], now)
      BY <2>1 DEF Pointwise
    <3>2. TickOK([tick[t] EXCEPT !.due = {}], now)
      BY <3>1 DEF TickOK, Tick
    <3>3. tick' = [tick EXCEPT ![t] = [tick[t] EXCEPT !.due = {}]]
      BY <2>1 DEF Raise
    <3>4. QED
      BY <2>1, <3>2, <3>3, TickWritten
  <2>2. CASE t \notin Runners
    BY <2>2 DEF Raise, Pointwise
  <2>3. QED
    BY <2>1, <2>2
<1>4. QED
  BY <1>2, <1>3 DEF Pointwise

LEMMA RunStepKeeps ==
  ASSUME Pointwise, NEW t \in Threads, RunStep(t)
  PROVE  Pointwise'
<1>1. RunOK(run[t], now) /\ now \in Nat
  BY DEF Pointwise
<1>2. CASE Load(t)
  <2>1. run[t] \in Run /\ run[t].at \in Start..now
    BY <1>1, <1>2 DEF Load, At, RunOK, NoRun
  <2>2. CASE Live(run[t].s)
    <3>1. RowOK(RowOf(t), now)
      BY <2>1 DEF Pointwise, RowOf, Run
    <3>2. RunOK([run[t] EXCEPT !.pc = "create", !.scope = RowOf(t).scope], now)
      BY <2>1, <3>1 DEF RunOK, Run, RowOK, Row
    <3>3. run' = [run EXCEPT ![t] = [run[t] EXCEPT !.pc = "create", !.scope = RowOf(t).scope]]
          /\ UNCHANGED <<now, devices, rows, tick>>
      BY <1>2, <2>1, <2>2 DEF Load, Run
    <3>4. QED
      BY <3>2, <3>3, RunWritten DEF Pointwise
  <2>3. CASE ~Live(run[t].s)
    BY <1>2, <2>3, RaiseKeeps DEF Load
  <2>4. QED
    BY <2>2, <2>3
<1>3. CASE CreateJob(t)
  <2>1. run[t] \in Run /\ run[t].at \in Start..now
    BY <1>1, <1>3 DEF CreateJob, At, RunOK, NoRun
  <2>2. CASE run[t].scope \subseteq devices
    <3>1. RunOK([run[t] EXCEPT !.pc = "backup", !.scope = {}], now)
      BY <2>1 DEF RunOK, Run
    <3>2. run' = [run EXCEPT ![t] = [run[t] EXCEPT !.pc = "backup", !.scope = {}]]
          /\ UNCHANGED <<now, devices, rows, tick>>
      BY <1>3, <2>1, <2>2 DEF CreateJob, Run
    <3>3. QED
      BY <3>1, <3>2, RunWritten DEF Pointwise
  <2>3. CASE ~(run[t].scope \subseteq devices)
    BY <1>3, <2>3, RaiseKeeps DEF CreateJob
  <2>4. QED
    BY <2>2, <2>3
<1>4. CASE JobEnds(t)
  <2>1. run[t] \in Run /\ run[t].at \in Start..now
    BY <1>1, <1>4 DEF JobEnds, At, RunOK, NoRun
  <2>2. RunOK([run[t] EXCEPT !.pc = "rearm"], now)
    BY <2>1 DEF RunOK, Run
  <2>3. QED
    BY <1>4, <2>2, RunWritten DEF JobEnds, Pointwise
<1>5. CASE Rearm(t)
  <2>1. run[t] \in Run /\ run[t].at \in Start..now
    BY <1>1, <1>5 DEF Rearm, At, RunOK, NoRun
  <2>2. PICK s \in Schedules : s = run[t].s
    BY <2>1 DEF Run
  <2>3. RowOK(rows[s], now)
    BY DEF Pointwise
  <2>4. RunOK(NoRun, now)
    BY DEF RunOK
  <2>5. run' = [run EXCEPT ![t] = NoRun] /\ UNCHANGED <<now, devices, tick>>
    BY <1>5 DEF Rearm, Return
  <2>6. CASE ~Live(s)
    BY <1>5, <2>2, <2>4, <2>5, <2>6, RunWritten DEF Rearm, Pointwise
  <2>7. CASE Live(s)
    <3> DEFINE row == [rows[s] EXCEPT !.last = run[t].at, !.next = NextRun(rows[s].period, run[t].at)]
    <3>1. rows[s] \in Row /\ rows[s].state = "live" /\ rows[s].period \in Periods
      BY <2>3, <2>7 DEF RowOK, Live
    <3>2. run[t].at \in Nat /\ run[t].at \in 0..now
      BY <1>1, <2>1 DEF Start
    <3>3. NextRun(rows[s].period, run[t].at) \in Nat
      BY <3>1, <3>2, PeriodsAreNonzero, NextRunIsLater
    <3>4. row \in Row /\ row.state = "live" /\ row.period \in Periods /\ row.last = run[t].at
          /\ row.next = NextRun(row.period, run[t].at)
      BY <3>1, <3>2, <3>3 DEF Row
    <3>5. row.last <= run[t].at
      BY <3>2, <3>4
    <3>6. RowOK(row, now)
      BY <1>1, <3>2, <3>4, <3>5, ArmedRow
    <3>7. rows' = [rows EXCEPT ![s] = row]
      BY <1>5, <2>2, <2>7 DEF Rearm, RowOf
    <3>8. QED
      BY <2>4, <2>5, <3>6, <3>7, RowWritten, RunWritten DEF Pointwise
  <2>8. QED
    BY <2>6, <2>7
<1>6. QED
  BY <1>2, <1>3, <1>4, <1>5 DEF RunStep

LEMMA ClockKeeps == Pointwise /\ Clock => Pointwise'
<1> SUFFICES ASSUME Pointwise, Clock PROVE Pointwise'
  OBVIOUS
<1>1. now \in Nat /\ now' = now + 1 /\ UNCHANGED <<devices, rows, tick, run>>
  BY DEF Pointwise, Clock
<1>2. (\A s \in Schedules : RowOK(rows[s], now + 1)) /\ (\A r \in Runners : TickOK(tick[r], now + 1))
      /\ (\A t \in Threads : RunOK(run[t], now + 1))
  BY <1>1, TimePasses DEF Pointwise
<1>3. QED
  BY <1>1, <1>2 DEF Pointwise, Start

LEMMA InvStep == Pointwise /\ [Next]_vars => Pointwise'
<1> SUFFICES ASSUME Pointwise, [Next]_vars PROVE Pointwise'
  OBVIOUS
<1>1. ASSUME NEW s \in Schedules, Administer(s) PROVE Pointwise'
  BY <1>1, AdministerStep
<1>2. ASSUME NEW d \in Deletable, DeleteDevice(d) PROVE Pointwise'
  BY <1>2 DEF DeleteDevice, Pointwise
<1>3. ASSUME NEW r \in Runners, RunnerStep(r) PROVE Pointwise'
  BY <1>3, RunnerStepKeeps
<1>4. ASSUME NEW m \in Manual, NEW s \in Schedules, RunByHand(m, s) PROVE Pointwise'
  BY <1>4, RunByHandKeeps
<1>5. ASSUME NEW t \in Threads, RunStep(t) PROVE Pointwise'
  BY <1>5, RunStepKeeps
<1>6. CASE Clock
  BY <1>6, ClockKeeps
<1>7. CASE Restart
  <2>1. TickOK(Asleep, now) /\ RunOK(NoRun, now)
    BY DEF TickOK, Tick, Asleep, Never, RunOK
  <2>2. QED
    BY <1>7, <2>1 DEF Restart, Pointwise
<1>8. CASE UNCHANGED vars
  BY <1>8 DEF vars, Pointwise
<1>9. QED
  BY <1>1, <1>2, <1>3, <1>4, <1>5, <1>6, <1>7, <1>8 DEF Next

-----------------------------------------------------------------------------

LEMMA AlwaysPointwise == Spec => []Pointwise
BY InvInit, InvStep, PTL DEF Spec

\* The invariant of Schedules, from which the four theorems below are read off.
THEOREM SchedulesConsistent == Spec => []SchedulesInv
BY AlwaysPointwise, PointwiseIsInv, PTL

\* Every row, pass and run of the scheduler keeps its type.
THEOREM SchedulesTypeCorrect == Spec => []TypeOK
<1>1. SchedulesInv => TypeOK
  BY DEF SchedulesInv
<1>2. QED
  BY <1>1, SchedulesConsistent, PTL

\* A schedule that is switched on always has a next run.
THEOREM EnabledIsAlwaysArmed == Spec => []EnabledIsArmed
<1>1. SchedulesInv => EnabledIsArmed
  BY DEF SchedulesInv
<1>2. QED
  BY <1>1, SchedulesConsistent, PTL

\* The next run of a schedule always is an occurrence of its present cadence.
THEOREM NextAlwaysFitsCadence == Spec => []NextFitsCadence
<1>1. SchedulesInv => NextFitsCadence
  BY DEF SchedulesInv
<1>2. QED
  BY <1>1, SchedulesConsistent, PTL

\* The next run of a schedule always lies after its last one.
THEOREM AlwaysArmedAfterLastRun == Spec => []ArmedAfterLastRun
<1>1. SchedulesInv => ArmedAfterLastRun
  BY DEF SchedulesInv
<1>2. QED
  BY <1>1, SchedulesConsistent, PTL

-----------------------------------------------------------------------------
(* With one runner and no runs by hand: what its pass still has to run, and *)
(* what it is running, last ran before the pass began.                     *)

Ahead(r) ==
  /\ \A s \in tick[r].due : rows[s].last < tick[r].at
  /\ run[r] # NoRun => /\ run[r].at = tick[r].at
                       /\ rows[run[r].s].last < run[r].at
                       /\ run[r].s \notin tick[r].due
  /\ tick[r].pc = "asleep" => tick[r].due = {} /\ run[r] = NoRun

LEMMA AheadInit == ASSUME NEW r \in Runners PROVE Init => Ahead(r)
BY DEF Init, Ahead, Asleep, Threads

\* What an administrator does to a row leaves its last run, or deletes the row.
LEMMA AdministerLast ==
  ASSUME Pointwise, NEW x \in Schedules, Administer(x), NEW s \in Schedules
  PROVE  rows'[s].last = rows[s].last \/ (rows'[s].state = "deleted" /\ rows'[s].last = Never)
<1>1. rows = [y \in Schedules |-> rows[y]] /\ RowOK(rows[x], now)
  BY DEF Pointwise
<1>2. ASSUME NEW scope, NEW period, NEW enabled, Create(x, scope, period, enabled)
      PROVE  rows'[s].last = rows[s].last
  BY <1>1, <1>2 DEF Create, RowOK
<1>3. ASSUME NEW scope, NEW period, NEW enabled, Update(x, scope, period, enabled)
      PROVE  rows'[s].last = rows[s].last
  BY <1>1, <1>3 DEF Update, Row, RowOK
<1>4. ASSUME NEW enabled, SetEnabled(x, enabled) PROVE rows'[s].last = rows[s].last
  BY <1>1, <1>4 DEF SetEnabled, Row, RowOK
<1>5. ASSUME Delete(x)
      PROVE  rows'[s].last = rows[s].last \/ (rows'[s].state = "deleted" /\ rows'[s].last = Never)
  BY <1>1, <1>5 DEF Delete, NoRow
<1>6. QED
  BY <1>2, <1>3, <1>4, <1>5 DEF Administer

\* Among the changes of a step, only a re-arm moves last_run_at of a row that stays.
Forward ==
  \A s \in Schedules : (rows'[s].state = "live" /\ rows'[s].last # rows[s].last)
                         => rows[s].last < rows'[s].last

\* One step of the only runner moves last_run_at forward, and keeps it behind the pass.
LEMMA AheadStep ==
  ASSUME Manual = {}, NEW r \in Runners, Runners = {r}, Pointwise, Ahead(r), [Next]_vars
  PROVE  Ahead(r)' /\ Forward
<1>1. Threads = {r} /\ TickOK(tick[r], now) /\ RunOK(run[r], now) /\ now \in Nat /\ now >= Start
      /\ tick = [y \in Runners |-> tick[y]] /\ run = [y \in Threads |-> run[y]]
      /\ rows = [y \in Schedules |-> rows[y]] /\ \A s \in Schedules : RowOK(rows[s], now)
  BY DEF Threads, Pointwise
<1>2. tick[r].due \subseteq Schedules /\ tick[r].pc \in {"asleep", "running"}
      /\ (run[r] # NoRun => run[r] \in Run /\ run[r].s \in Schedules)
  BY <1>1 DEF TickOK, Tick, RunOK, Run
<1>3. ASSUME NEW x \in Schedules, Administer(x) PROVE Ahead(r)' /\ Forward
  <2>1. UNCHANGED <<tick, run>>
    BY <1>3 DEF Administer, Create, Update, SetEnabled, Delete
  <2>2. \A s \in Schedules : rows'[s].last = rows[s].last \/ (rows'[s].state = "deleted" /\ rows'[s].last = Never)
    BY <1>3, AdministerLast
  <2>3. tick[r].pc = "running" => tick[r].at > Never
    BY <1>1 DEF TickOK, Start, Never
  <2>4. \A s \in tick[r].due : rows'[s].last < tick[r].at
    BY <1>2, <2>2, <2>3 DEF Ahead
  <2>5. run[r] # NoRun => rows'[run[r].s].last < run[r].at
    BY <1>2, <2>2, <2>3 DEF Ahead
  <2>6. Ahead(r)'
    BY <2>1, <2>4, <2>5 DEF Ahead
  <2>7. QED
    BY <2>2, <2>6 DEF Forward
<1>4. ASSUME RunnerStep(r) PROVE Ahead(r)' /\ Forward
  <2>1. rows' = rows
    BY <1>4 DEF RunnerStep, TickStart, TakeDue, TickEnd
  <2>2. CASE TickStart(r)
    <3>1. tick'[r] = [pc |-> "running", at |-> now, due |-> {s \in Schedules : Due(s)}] /\ run' = run
      BY <1>1, <2>2 DEF TickStart
    <3>2. run[r] = NoRun
      BY <2>2 DEF TickStart, Ahead
    <3>3. \A s \in Schedules : Due(s) => rows[s].last < now
      <4> SUFFICES ASSUME NEW s \in Schedules, Due(s) PROVE rows[s].last < now
        OBVIOUS
      <4>1. rows[s].last \in Nat /\ rows[s].next \in Nat /\ rows[s].last < rows[s].next
        BY <1>1 DEF Due, RowOK, Row
      <4>2. QED
        BY <1>1, <4>1 DEF Due
    <3>4. QED
      BY <2>1, <3>1, <3>2, <3>3 DEF Ahead, Forward
  <2>3. CASE TakeDue(r)
    <3>1. PICK s \in tick[r].due :
            /\ tick' = [tick EXCEPT ![r].due = @ \ {s}]
            /\ run' = [run EXCEPT ![r] = [pc |-> "load", s |-> s, at |-> tick[r].at, scope |-> {}]]
      BY <2>3 DEF TakeDue
    <3>2. tick'[r] = [tick[r] EXCEPT !.due = @ \ {s}]
          /\ run'[r] = [pc |-> "load", s |-> s, at |-> tick[r].at, scope |-> {}]
      BY <1>1, <3>1
    <3>3. tick'[r].due = tick[r].due \ {s} /\ tick'[r].at = tick[r].at /\ tick'[r].pc = "running"
      BY <1>1, <2>3, <3>2 DEF TickOK, Tick, TakeDue
    <3>4. QED
      BY <2>1, <3>1, <3>2, <3>3 DEF Ahead, Forward
  <2>4. CASE TickEnd(r)
    BY <1>1, <2>1, <2>4 DEF TickEnd, Ahead, Forward, Asleep
  <2>5. QED
    BY <1>4, <2>2, <2>3, <2>4 DEF RunnerStep
<1>5. ASSUME RunStep(r) PROVE Ahead(r)' /\ Forward
  <2>1. run[r] # NoRun /\ run[r] \in Run /\ tick[r].pc = "running"
    BY <1>2, <1>5 DEF RunStep, Load, CreateJob, JobEnds, Rearm, At, NoRun, Ahead
  <2>2. CASE Rearm(r)
    <3>1. run'[r] = NoRun /\ tick' = tick
      BY <1>1, <2>2 DEF Rearm, Return
    <3>2. \A s \in Schedules : s # run[r].s => rows'[s] = rows[s]
      BY <1>1, <2>2 DEF Rearm
    <3>3. rows'[run[r].s].last = run[r].at \/ rows' = rows
      <4>1. RowOf(r) \in Row
        BY <1>1, <1>2, <2>1 DEF RowOf, RowOK
      <4>2. QED
        BY <1>1, <1>2, <2>1, <2>2, <4>1 DEF Rearm, RowOf, Row
    <3>4. \A s \in tick[r].due : s # run[r].s
      BY <2>1 DEF Ahead
    <3>5. Ahead(r)'
      BY <1>2, <2>1, <3>1, <3>2, <3>4 DEF Ahead
    <3>6. Forward
      BY <2>1, <3>2, <3>3 DEF Ahead, Forward
    <3>7. QED
      BY <3>5, <3>6
  <2>3. CASE Raise(r) /\ rows' = rows
    <3>1. run'[r] = NoRun /\ tick'[r] = [tick[r] EXCEPT !.due = {}]
      BY <1>1, <2>3 DEF Raise
    <3>2. tick'[r].due = {}
      BY <1>1, <3>1 DEF TickOK, Tick
    <3>3. tick'[r].pc = tick[r].pc
      BY <1>1, <3>1 DEF TickOK, Tick
    <3>4. QED
      BY <2>3, <3>1, <3>2, <3>3 DEF Ahead, Forward
  <2>4. CASE run'[r] # NoRun /\ run'[r].s = run[r].s /\ run'[r].at = run[r].at /\ UNCHANGED <<tick, rows>>
    BY <2>1, <2>4 DEF Ahead, Forward
  <2>5. CASE Load(r)
    <3>1. CASE Live(run[r].s)
      <4>1. run'[r] = [run[r] EXCEPT !.pc = "create", !.scope = RowOf(r).scope] /\ UNCHANGED <<tick, rows>>
        BY <1>1, <2>1, <2>5, <3>1 DEF Load, Run
      <4>2. QED
        BY <2>1, <2>4, <4>1 DEF Run, NoRun
    <3>2. CASE ~Live(run[r].s)
      BY <2>3, <2>5, <3>2 DEF Load
    <3>3. QED
      BY <3>1, <3>2
  <2>6. CASE CreateJob(r)
    <3>1. CASE run[r].scope \subseteq devices
      <4>1. run'[r] = [run[r] EXCEPT !.pc = "backup", !.scope = {}] /\ UNCHANGED <<tick, rows>>
        BY <1>1, <2>1, <2>6, <3>1 DEF CreateJob, Run
      <4>2. QED
        BY <2>1, <2>4, <4>1 DEF Run, NoRun
    <3>2. CASE ~(run[r].scope \subseteq devices)
      BY <2>3, <2>6, <3>2 DEF CreateJob
    <3>3. QED
      BY <3>1, <3>2
  <2>7. CASE JobEnds(r)
    <3>1. run'[r] = [run[r] EXCEPT !.pc = "rearm"] /\ UNCHANGED <<tick, rows>>
      BY <1>1, <2>1, <2>7 DEF JobEnds, Run
    <3>2. QED
      BY <2>1, <2>4, <3>1 DEF Run, NoRun
  <2>8. QED
    BY <1>5, <2>2, <2>5, <2>6, <2>7 DEF RunStep
<1>6. ASSUME Restart PROVE Ahead(r)' /\ Forward
  BY <1>1, <1>6 DEF Restart, Ahead, Forward, Asleep
<1>7. ASSUME UNCHANGED <<rows, tick, run>> PROVE Ahead(r)' /\ Forward
  BY <1>7 DEF Ahead, Forward
<1>8. ASSUME Clock \/ (\E d \in Deletable : DeleteDevice(d)) \/ UNCHANGED vars
      PROVE  Ahead(r)' /\ Forward
  BY <1>7, <1>8 DEF Clock, DeleteDevice, vars
<1>9. QED
  BY <1>1, <1>3, <1>4, <1>5, <1>6, <1>8 DEF Next

\* The run that re-arms a row is later than the last one the row records.
LEMMA RearmMovesForward ==
  ASSUME NEW r \in Runners, Runners = {r}, Pointwise, Ahead(r), At(r, "rearm"), Rearm(r),
         rows'[run[r].s].state = "live"
  PROVE  rows[run[r].s].last < rows'[run[r].s].last
<1>1. run[r] # NoRun /\ r \in Threads
  BY DEF At, NoRun, Threads
<1>2. run[r] \in Run /\ run[r].s \in Schedules /\ rows[run[r].s] \in Row
      /\ rows = [y \in Schedules |-> rows[y]]
  BY <1>1 DEF Pointwise, RunOK, RowOK, Run
<1>3. rows'[run[r].s].last = run[r].at
  BY <1>1, <1>2 DEF Rearm, Live, RowOf, Row
<1>4. QED
  BY <1>1, <1>3 DEF Ahead

\* With one runner and no runs by hand no tick runs an occurrence twice: last_run_at
\* of a schedule only moves forward, whatever is edited, deleted or restarted.
THEOREM OneRunnerMovesForward ==
  ASSUME Manual = {}, NEW only \in Runners, Runners = {only}
  PROVE  Spec => RunsMoveForward
<1>1. Init => Ahead(only)
  BY AheadInit
<1>2. Pointwise /\ Ahead(only) /\ [Next]_vars => Ahead(only)' /\ Forward
  BY AheadStep
<1> DEFINE Step ==
      \A s \in Schedules :
        /\ rows'[s].state = "live"
        /\ rows'[s].last # rows[s].last \/ \E r \in Runners : At(r, "rearm") /\ run[r].s = s /\ Rearm(r)
        => rows[s].last < rows'[s].last
<1>3. Pointwise /\ Ahead(only) /\ Forward => Step
  BY RearmMovesForward DEF Forward
<1> HIDE DEF Step
<1>4. Pointwise /\ Ahead(only) /\ [Next]_vars => Ahead(only)' /\ [Step]_vars
  BY <1>2, <1>3
<1>5. QED
  BY AlwaysPointwise, <1>1, <1>4, PTL DEF Spec, RunsMoveForward, Step
=============================================================================
