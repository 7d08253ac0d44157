---------------------------- MODULE SchedulesPage ----------------------------
(***************************************************************************)
(* The Schedules page (frontend/src/pages/SchedulesPage.tsx): the table,   *)
(* the acts on a row, and the form.  A schedule is enabled or disabled.    *)
(***************************************************************************)
EXTENDS Session

SchedulesHooks == {"schedules", "schedule_devices", "scheduler"}

SchedulesInit ==
    [busy |-> FALSE, error |-> FALSE, message |-> None, form |-> None,
     filter |-> Ids, at |-> 0, size |-> 1]

\* blank() and fromSchedule(): what the form starts from.
ScheduleFormFor(i) ==
    [row |-> i, valid |-> i # None, busy |-> None, error |-> FALSE,
     enabled |-> IF i = None THEN "enabled" ELSE ContentOf("schedules", i)]

SchedulesFiltered == RowsOf("schedules") \intersect page.filter

\* The controls of the table and above it: by role, disabled while busy, and
\* out of reach behind the form's backdrop.
SchedulesOffered ==
    LET shown == Shown(SchedulesFiltered, page.at, page.size)
        rows(roles) == {i \in shown : role \in roles /\ page.form = None}
        idle(roles) == {i \in rows(roles) : ~page.busy}
    IN  [run |-> idle(Operators), edit |-> rows(Admins),
         toggle |-> idle(Admins), remove |-> idle(Admins),
         create |-> role \in Admins /\ page.form = None,
         filter |-> page.form = None,
         turn |-> IF page.form = None /\ shown # {} THEN SchedulesFiltered ELSE {}]

ToggleSchedule ==
    \E i \in SchedulesOffered.toggle :
      Act(Update("schedule", "schedules", i,
                 IF ContentOf("schedules", i) = "enabled" THEN "disabled" ELSE "enabled", Admins))

RemoveSchedule ==
    \E i \in SchedulesOffered.remove : Act(Update("schedule", "schedules", i, Gone, Admins))

RunScheduleNow ==
    \E i \in SchedulesOffered.run : Act(Update("schedule", "schedules", i, None, Operators))

ScheduleActDone == \E c \in Answers("schedule") : ActDone(c, {"schedules", "scheduler"})

FilterSchedules ==
    /\ SchedulesOffered.filter
    /\ \E f \in {Ids, {1}} \ {page.filter} : Local([page EXCEPT !.filter = f, !.at = 0])

TurnSchedules == Turn(SchedulesOffered.turn)

-----------------------------------------------------------------------------
\* The form, opened for a row or for a new schedule.
OpenScheduleForm ==
    \/ SchedulesOffered.create /\ Local([page EXCEPT !.form = ScheduleFormFor(None)])
    \/ \E i \in SchedulesOffered.edit : Local([page EXCEPT !.form = ScheduleFormFor(i)])

\* Typing a valid schedule, or switching it.
FillScheduleForm ==
    /\ page.form # None
    /\ \E valid \in BOOLEAN, enabled \in {"enabled", "disabled"} :
         LET form == [page.form EXCEPT !.valid = valid, !.enabled = enabled]
         IN  form # page.form /\ Local([page EXCEPT !.form = form])

\* The backdrop and the cross close it at any time, Cancel only when idle.
CloseScheduleForm == page.form # None /\ Local([page EXCEPT !.form = None])

\* submit(): refused by the form itself, or sent with every field of it.
SubmitScheduleForm ==
    /\ page.form # None /\ page.form.busy = None
    /\ IF ~page.form.valid
       THEN ~page.form.error /\ Local([page EXCEPT !.form.error = TRUE])
       ELSE /\ Input
            /\ page' = [page EXCEPT !.form.busy = ledger.inputs, !.form.error = FALSE]
            /\ IF page.form.row # None
               THEN Send(Update("saveSchedule", "schedules", page.form.row, page.form.enabled, Admins))
               ELSE \E i \in Free("schedules") :
                      Send(Create("saveSchedule", "schedules", i, page.form.enabled, Admins))
            /\ UNCHANGED <<route, role, db, shell, views>>

\* onSaved of the page that sent the form: whichever form is open is closed.
ScheduleSaved ==
    \E c \in Answers("saveSchedule") :
      /\ Done(c)
      /\ IF c.reply = Failed
         THEN /\ page' = IF page.form # None /\ page.form.busy = c.id
                         THEN [page EXCEPT !.form.error = TRUE, !.form.busy = None] ELSE page
              /\ UNCHANGED views
         ELSE /\ page' = [page EXCEPT !.form = None, !.message = c.id]
              /\ Reload({"schedules", "scheduler"})
      /\ UNCHANGED <<route, role, db, shell, ledger>>

SchedulesUser ==
    /\ On("schedules")
    /\ \/ ToggleSchedule \/ RemoveSchedule \/ RunScheduleNow \/ FilterSchedules \/ TurnSchedules
       \/ OpenScheduleForm \/ FillScheduleForm \/ CloseScheduleForm \/ SubmitScheduleForm \/ Dismiss

SchedulesResumed == On("schedules") /\ (ScheduleActDone \/ ScheduleSaved)
=============================================================================
