-------------------------------- MODULE Shell --------------------------------
(***************************************************************************)
(* The application around the pages (frontend/src/App.tsx): navigation,    *)
(* the dialogs for the identity and for a new device, the quick actions    *)
(* with their toast, and the search of the top bar                         *)
(* (frontend/src/components/CommandSearch.tsx).                            *)
(***************************************************************************)
EXTENDS Router

CONSTANT Tours   \* bound: by name, where a user starts, what he visits and touches

ASSUME ToursAreOfConsole ==
    \A name \in DOMAIN Tours : LET tour == Tours[name] IN
      /\ tour.start \in Routes /\ tour.visits \subseteq Routes
      /\ tour.roles \subseteq Roles /\ tour.data \in [Kinds -> [Ids -> Contents]]

\* identity and form: the two dialogs; toast and clears: the message and the
\* four-second timers that will take it away; audits: the timers of the quick
\* compliance; search: the list of devices is loaded when it is first opened.
ShellInit ==
    [identity |-> FALSE, form |-> None, toast |-> None, clears |-> 0, audits |-> 0,
     search |-> [open |-> FALSE, devices |-> None, asked |-> FALSE, reply |-> None]]

NoDialog == ~shell.identity /\ shell.form = None

ShellUses(what) == what \in Tours[ledger.tour].touches

InShell(s) ==
    /\ Input /\ shell' = s
    /\ UNCHANGED <<route, role, page, calls, db, views>>

Toasted(s, text) == [s EXCEPT !.toast = text, !.clears = @ + 1]

-----------------------------------------------------------------------------
\* navigate() from the sidebar, the top bar or a link of the page, and the
\* browser's history, which leads anywhere.  The hash the page is already at is not an event.
Navigate ==
    /\ NoDialog /\ ~shell.search.open
    /\ \E to \in Tours[ledger.tour].visits :
         /\ to # route
         /\ Input
         /\ Render(to, role, calls)
    /\ UNCHANGED <<db, shell>>

\* The dialog of the identity: X-Role of every later request.
UseIdentity ==
    /\ ShellUses("identity") /\ shell.form = None
    /\ InShell([shell EXCEPT !.identity = ~@])

ChangeRole ==
    /\ shell.identity
    /\ \E r \in Roles \ {role} : Input /\ Render(route, r, calls)
    /\ UNCHANGED <<db, shell>>

-----------------------------------------------------------------------------
\* Add Device: the form of the Devices page, for any role and over any page.
UseAddDevice ==
    /\ ShellUses("form") /\ ~shell.identity
    /\ \/ shell.form = None /\ InShell([shell EXCEPT !.form = DeviceFormFor(None)])
       \/ shell.form # None /\ \E f \in DeviceFormFilled(shell.form) : InShell([shell EXCEPT !.form = f])
       \/ shell.form # None /\ InShell([shell EXCEPT !.form = None])

SubmitAddDevice ==
    /\ shell.form # None /\ shell.form.busy = None /\ shell.form.valid
    /\ Input
    /\ shell' = [shell EXCEPT !.form = DeviceFormSent(@)]
    /\ \E c \in DeviceFormCalls(shell.form, "addDevice") : Send(c)
    /\ UNCHANGED <<route, role, page, db, views>>

\* onSaved: discovery was asked for, and is not started.
DeviceAdded ==
    /\ \E c \in Answers("addDevice") :
         IF c.reply = Failed
         THEN /\ Done(c)
              /\ shell' = [shell EXCEPT !.form = DeviceFormRefused(@, c)]
              /\ UNCHANGED <<route, role, page, views>>
         ELSE /\ shell' = Toasted([shell EXCEPT !.form = None], "registered")
              /\ Render(Route("devices", 0), role, calls \ {c})
    /\ UNCHANGED <<db, ledger>>

-----------------------------------------------------------------------------
\* The quick actions.  The audit is a message, and another one 1.6 s later.
QuickCompliance ==
    /\ ShellUses("quick") /\ NoDialog
    /\ InShell([Toasted(shell, "auditing") EXCEPT !.audits = @ + 1])

QuickBackup ==
    /\ ShellUses("quick") /\ NoDialog
    /\ Input
    /\ shell' = Toasted(shell, "triggering")
    /\ \E i \in Free("jobs") : Send(Create("quickBackup", "jobs", i, "running", Operators))
    /\ UNCHANGED <<route, role, page, db, views>>

\* The message says that the backup was started, whether it was or not.
QuickBackupAnswered ==
    /\ \E c \in Answers("quickBackup") :
         /\ Done(c)
         /\ shell' = Toasted(shell, IF c.reply = Failed THEN "initiated" ELSE "submitted")
    /\ UNCHANGED <<route, role, page, db, ledger, views>>

\* A timer takes away whatever message is there.
ToastTimer ==
    /\ \/ shell.audits > 0 /\ shell' = [Toasted(shell, "audited") EXCEPT !.audits = @ - 1]
       \/ shell.clears > 0 /\ shell' = [shell EXCEPT !.toast = None, !.clears = @ - 1]
    /\ UNCHANGED <<route, role, page, calls, db, ledger, views>>

-----------------------------------------------------------------------------
\* The search: opened, it loads the devices unless it has a list; closed, it
\* drops the answer that is under way.
Search(s) == [shell EXCEPT !.search = s]

UseSearch ==
    /\ ShellUses("search") /\ NoDialog
    /\ LET s == shell.search
       IN  InShell(Search([s EXCEPT !.open = ~@, !.asked = ~s.open /\ s.devices = None, !.reply = None]))

SearchLoads ==
    /\ LET s == shell.search
       IN  \/ /\ s.asked /\ s.reply = None
              /\ \/ shell' = Search([s EXCEPT !.reply = Rows("devices")]) /\ UNCHANGED ledger
                 \/ Faulty /\ shell' = Search([s EXCEPT !.reply = {}])
                           /\ ledger' = [ledger EXCEPT !.faults = @ - 1]
           \/ /\ s.asked /\ s.reply # None
              /\ shell' = Search([s EXCEPT !.devices = s.reply, !.asked = FALSE, !.reply = None])
              /\ UNCHANGED ledger
    /\ UNCHANGED <<route, role, page, calls, db, views>>

\* A hit is a page or a device of the list; it closes the search.
ChooseHit ==
    LET s == shell.search
        devices == IF s.devices = None THEN {} ELSE s.devices
    IN  /\ s.open /\ NoDialog
        /\ Input
        /\ \E to \in {r \in Tours[ledger.tour].visits : r.id = 0} \union {Route("device", i) : i \in devices} :
             Render(to, role, calls)
        /\ shell' = Search([s EXCEPT !.open = FALSE, !.asked = FALSE, !.reply = None])
        /\ UNCHANGED db

ShellUser ==
    \/ Navigate \/ UseIdentity \/ ChangeRole \/ UseAddDevice \/ SubmitAddDevice
    \/ QuickCompliance \/ QuickBackup \/ UseSearch \/ ChooseHit

ShellResumed == DeviceAdded \/ QuickBackupAnswered
=============================================================================
