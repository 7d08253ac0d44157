----------------------------- MODULE SettingsPage -----------------------------
(***************************************************************************)
(* The settings (SettingsSection of frontend/src/pages/SystemPages.tsx):   *)
(* a draft over what the server last said.  Nothing is held back while a   *)
(* save is under way, and its answer takes the place of the draft.  All    *)
(* fields together are one row.                                            *)
(***************************************************************************)
EXTENDS Session

SettingsInit == [form |-> None, busy |-> FALSE, error |-> FALSE, message |-> None]

\* form ?? loaded.data
SettingsShown ==
    IF page.form # None THEN page.form
    ELSE IF views["settings"].data = None THEN None ELSE ContentOf("settings", 1)

SettingsOffered == role = "admin" /\ SettingsShown # None

TypeSettings ==
    /\ SettingsOffered
    /\ \E x \in {"stored", "edited"} \ {SettingsShown} : Local([page EXCEPT !.form = x])

\* save(): the role and the values are looked at once more.
SaveSettings ==
    /\ SettingsOffered
    /\ Input
    /\ Send(Update("saveSettings", "settings", 1, SettingsShown, Admins))
    /\ page' = [page EXCEPT !.error = FALSE, !.message = None]
    /\ UNCHANGED <<route, role, db, shell, views>>

SettingsSaved ==
    \E c \in Answers("saveSettings") :
      /\ Done(c)
      /\ page' = IF c.reply = Failed THEN [page EXCEPT !.error = TRUE]
                 ELSE [page EXCEPT !.form = c.to, !.message = c.id]
      /\ UNCHANGED <<route, role, db, shell, ledger, views>>

SettingsUser == On("settings") /\ (TypeSettings \/ SaveSettings)

SettingsResumed == On("settings") /\ SettingsSaved
=============================================================================
