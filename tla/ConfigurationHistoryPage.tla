----------------------- MODULE ConfigurationHistoryPage -----------------------
(***************************************************************************)
(* Configuration versions and diff                                         *)
(* (frontend/src/pages/ConfigurationHistoryPage.tsx): the gate for the     *)
(* role, the choice of a device, and one device's versions with the diff   *)
(* or the stored text last asked for.  Versions are numbered newest first. *)
(***************************************************************************)
EXTENDS Session

\* (mutant) for every role
NoGate(id, r) == IF id = 0 THEN "picker" ELSE "versions"

\* The gate: a viewer gets a notice, no device a choice, a device its versions.
ConfigurationsPart(id, r) ==
    IF r \notin Operators THEN "refused" ELSE IF id = 0 THEN "picker" ELSE "versions"

ConfigurationsHooks(part) ==
    CASE part = "picker" -> {"picker_devices"}
      [] part = "versions" -> {"version_device", "versions"}
      [] OTHER -> {}

VersionsOf(id) == IF id = 1 THEN "versions of 1" ELSE "versions of 2"

\* An answer about a device that is gone is 404.
VersionsAnswer(h, id) ==
    IF db["devices"][id] = Gone THEN Failed
    ELSE IF h = "versions" THEN db[VersionsOf(id)]
    ELSE [Nothing EXCEPT ![id] = db["devices"][id]]

ConfigurationsInit ==
    [busy |-> FALSE, error |-> FALSE, message |-> None, search |-> Ids,
     left |-> None, right |-> None, diff |-> None, content |-> None, at |-> 0, size |-> 1]

Version(of, id) == [of |-> of, id |-> id]

-----------------------------------------------------------------------------
\* The choice of a device.
Pickable == RowsOf("picker_devices") \intersect page.search

SearchPicker ==
    \E f \in {Ids, {1}} \ {page.search} : Local([page EXCEPT !.search = f])

-----------------------------------------------------------------------------
\* The effect on the rows: what is not chosen yet becomes the newest two.
DefaultPair(p, of, rows) ==
    LET nth(n) == {i \in rows : Rank(rows, i) = n}
        or(v, n) == IF v = None /\ nth(n) # {} THEN Version(of, CHOOSE i \in nth(n) : TRUE) ELSE v
    IN  [p EXCEPT !.left = or(@, 1), !.right = or(@, 0)]

DeliverVersions ==
    /\ views["versions"] # None
    /\ \E r \in views["versions"].requests :
         LET w == Delivered(views["versions"], r)
         IN  /\ r.reply # None
             /\ views' = [views EXCEPT !["versions"] = w]
             /\ page' = IF w.data # None /\ w.data # views["versions"].data
                        THEN DefaultPair(page, w.data.key.id, {i \in Ids : w.data.value[i] # Gone})
                        ELSE page
    /\ UNCHANGED <<route, role, calls, db, shell, ledger>>

\* The toolbar, the table and the output under it.
VersionsOffered ==
    LET rows == RowsOf("versions")
        shown == Shown(rows, page.at, page.size)
        of == views["versions"].data.key.id
    IN  [pick |-> {Version(of, i) : i \in rows},
         compare |-> ~page.busy /\ None \notin {page.left, page.right} /\ page.left # page.right,
         clear |-> page.diff # None \/ page.content # None,
         view |-> IF page.busy THEN {} ELSE {Version(of, i) : i \in shown},
         turn |-> rows]

PickVersions ==
    \/ \E v \in (VersionsOffered.pick \union {None}) \ {page.left} : Local([page EXCEPT !.left = v])
    \/ \E v \in (VersionsOffered.pick \union {None}) \ {page.right} : Local([page EXCEPT !.right = v])
    \/ Turn(VersionsOffered.turn)

\* A request that reads, asked of the device in the route: a version of
\* another device is 404.
Reading(op, v, also) ==
    LET c == Update(op, VersionsOf(route.id), v.id, None, Operators)
    IN  [f \in DOMAIN c \union {"shows"} |->
           CASE f = "allowed" -> c.allowed /\ v.of = route.id /\ also.of = route.id
             [] f = "shows" -> <<v, also>>
             [] OTHER -> c[f]]

\* compare(): the diff of the chosen pair takes the place of a stored text.
Compare == VersionsOffered.compare /\ Act(Reading("compare", page.left, page.right))

Compared ==
    \E c \in Answers("compare") :
      /\ Done(c)
      /\ page' = IF c.reply = Failed THEN [page EXCEPT !.error = TRUE, !.busy = FALSE]
                 ELSE [page EXCEPT !.diff = c.shows, !.content = None, !.busy = FALSE]
      /\ UNCHANGED <<route, role, db, shell, ledger, views>>

\* view(): a stored text takes the place of the diff.
ViewVersion == \E v \in VersionsOffered.view : Act(Reading("view", v, v))

Viewed ==
    \E c \in Answers("view") :
      /\ Done(c)
      /\ page' = IF c.reply = Failed THEN [page EXCEPT !.error = TRUE, !.busy = FALSE]
                 ELSE [page EXCEPT !.content = c.shows, !.diff = None, !.busy = FALSE]
      /\ UNCHANGED <<route, role, db, shell, ledger, views>>

ClearOutput == VersionsOffered.clear /\ Local([page EXCEPT !.diff = None, !.content = None])

ConfigurationsUser ==
    /\ On("configurations")
    /\ CASE ConfigurationsPart(route.id, role) = "picker" -> SearchPicker
         [] ConfigurationsPart(route.id, role) = "versions" ->
              PickVersions \/ Compare \/ ViewVersion \/ ClearOutput \/ Dismiss
         [] OTHER -> FALSE

ConfigurationsResumed == On("configurations") /\ (Compared \/ Viewed)
=============================================================================
