----------------------------- MODULE DevicesPage -----------------------------
(***************************************************************************)
(* The Devices page (frontend/src/pages/DevicesPage.tsx): the inventory,   *)
(* the acts on its rows and on the chosen ones, and the form of            *)
(* frontend/src/components/DeviceForm.tsx, which the shell opens too.      *)
(***************************************************************************)
EXTENDS Session

DevicesHooks == {"devices"}

DevicesInit ==
    [busy |-> FALSE, error |-> FALSE, message |-> None, form |-> None, selected |-> {},
     search |-> Ids, facet |-> Ids, at |-> 0, size |-> 1]

\* The form: blank() or fromDevice(), and discovery asked for from the start.
DeviceFormFor(i) ==
    [row |-> i, valid |-> i # None, discover |-> TRUE, busy |-> None, error |-> FALSE]

\* What can be typed: an input validate() accepts or not, and the check box.
DeviceFormFilled(form) ==
    {[form EXCEPT !.valid = valid, !.discover = discover] :
        valid \in BOOLEAN, discover \in BOOLEAN} \ {form}

\* submit(): the form after it, and the call of a form that is valid.
DeviceFormSent(form) ==
    IF form.valid THEN [form EXCEPT !.busy = ledger.inputs, !.error = FALSE]
                  ELSE [form EXCEPT !.error = TRUE]

DeviceFormCalls(form, op) ==
    IF ~form.valid THEN {}
    ELSE IF form.row # None THEN {Update(op, "devices", form.row, "edited", Admins)}
    ELSE {Create(op, "devices", i, "unknown", Admins) : i \in Free("devices")}

\* A save that failed comes back to the form that sent it, if it is open.
DeviceFormRefused(form, c) ==
    IF form # None /\ form.busy = c.id
    THEN [form EXCEPT !.error = TRUE, !.busy = None] ELSE form

-----------------------------------------------------------------------------
DevicesFiltered == (RowsOf("devices") \intersect page.search) \intersect page.facet

\* The controls above the table, in its rows and under it.
DevicesOffered ==
    LET shown == Shown(DevicesFiltered, page.at, page.size)
        rows(roles) == {i \in shown : role \in roles /\ page.form = None}
        idle(roles) == {i \in rows(roles) : ~page.busy}
    IN  [filter |-> page.form = None,
         backup |-> /\ role \in Operators /\ page.form = None
                    /\ ~page.busy /\ RowsOf("devices") # {},
         create |-> role \in Admins /\ page.form = None,
         select |-> rows(Roles), discover |-> idle(Operators),
         edit |-> rows(Admins), remove |-> idle(Admins),
         turn |-> IF page.form = None THEN DevicesFiltered ELSE {}]

RemoveDevice ==
    \E i \in DevicesOffered.remove : Act(Update("deleteDevice", "devices", i, Gone, Admins))

\* The discovery is over when the server answers: it has written the device.
Discovery(i) == Update("discoverDevice", "devices", i, "online", Operators)

DiscoverDevice == \E i \in DevicesOffered.discover : Act(Discovery(i))

BackUpDevices ==
    /\ DevicesOffered.backup
    /\ \E i \in Free("jobs") : Act(Create("backupDevices", "jobs", i, "running", Operators))

\* act() after its request, with what the three actions do before it reloads.
DeviceActDone ==
    \E op \in {"deleteDevice", "discoverDevice", "backupDevices"} :
    \E c \in Answers(op) :
      /\ Done(c)
      /\ IF c.reply = Failed
         THEN page' = [page EXCEPT !.error = TRUE, !.busy = FALSE] /\ UNCHANGED views
         ELSE /\ page' = [page EXCEPT !.message = c.id, !.busy = FALSE,
                            !.selected = CASE op = "deleteDevice" -> @ \ {c.row}
                                           [] op = "backupDevices" -> {}
                                           [] OTHER -> @]
              /\ Reload({"devices"})
      /\ UNCHANGED <<route, role, db, shell, ledger>>

\* The search box turns to the first page; the selects of vendor, type,
\* status and site leave the page where it is.
FilterDevices ==
    /\ DevicesOffered.filter
    /\ \/ \E f \in {Ids, {1}} \ {page.search} : Local([page EXCEPT !.search = f, !.at = 0])
       \/ \E f \in {Ids, {1}} \ {page.facet} : Local([page EXCEPT !.facet = f])
       \/ /\ page.search # Ids \/ page.facet # Ids
          /\ Local([page EXCEPT !.search = Ids, !.facet = Ids, !.at = 0])

BrowseDevices ==
    \/ \E i \in DevicesOffered.select : Local([page EXCEPT !.selected = Toggled(@, i)])
    \/ Turn(DevicesOffered.turn)

-----------------------------------------------------------------------------
UseDeviceForm ==
    \/ DevicesOffered.create /\ Local([page EXCEPT !.form = DeviceFormFor(None)])
    \/ \E i \in DevicesOffered.edit : Local([page EXCEPT !.form = DeviceFormFor(i)])
    \/ page.form # None /\ \E f \in DeviceFormFilled(page.form) : Local([page EXCEPT !.form = f])
    \/ page.form # None /\ Local([page EXCEPT !.form = None])

SaveOp(form) == IF form.discover THEN "saveThenDiscover" ELSE "saveDevice"

SubmitDeviceForm ==
    /\ page.form # None /\ page.form.busy = None
    /\ Input
    /\ page' = [page EXCEPT !.form = DeviceFormSent(@)]
    /\ page' # page
    /\ \/ ~page.form.valid /\ UNCHANGED calls
       \/ \E c \in DeviceFormCalls(page.form, SaveOp(page.form)) : Send(c)
    /\ UNCHANGED <<route, role, db, shell, views>>

\* onSaved, and the discovery of the device, which takes the message away.
DeviceSaved ==
    \E op \in {"saveDevice", "saveThenDiscover"} :
    \E c \in Answers(op) :
      /\ IF c.reply = Failed
         THEN page' = [page EXCEPT !.form = DeviceFormRefused(@, c)] /\ Done(c) /\ UNCHANGED views
         ELSE /\ Reload({"devices"})
              /\ IF op = "saveDevice"
                 THEN page' = [page EXCEPT !.form = None, !.message = c.id] /\ Done(c)
                 ELSE /\ page' = [page EXCEPT !.form = None, !.message = None,
                                              !.busy = TRUE, !.error = FALSE]
                      /\ calls' = (calls \ {c}) \union
                                    {[Discovery(c.row) EXCEPT !.id = c.id + MaxInputs]}
      /\ UNCHANGED <<route, role, db, shell, ledger>>

\* The page is gone, and its onSaved runs all the same.
DeviceSavedAfterLeaving ==
    \E c \in calls :
      /\ c.op = "saveThenDiscover" /\ ~c.live /\ c.reply \notin {None, Failed}
      /\ calls' = (calls \ {c}) \union
                    {[Discovery(c.row) EXCEPT !.id = c.id + MaxInputs, !.live = FALSE]}
      /\ UNCHANGED <<route, role, page, db, shell, ledger, views>>

DevicesUser ==
    /\ On("devices")
    /\ \/ RemoveDevice \/ DiscoverDevice \/ BackUpDevices \/ FilterDevices \/ BrowseDevices
       \/ UseDeviceForm \/ SubmitDeviceForm \/ Dismiss

DevicesResumed == DeviceSavedAfterLeaving \/ (On("devices") /\ (DeviceActDone \/ DeviceSaved))
=============================================================================
