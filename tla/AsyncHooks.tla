----------------------------- MODULE AsyncHooks -----------------------------
(***************************************************************************)
(* useAsync (frontend/src/hooks.ts): a fetch on mount and whenever the     *)
(* dependencies change or reload() is called.  A view is what one such     *)
(* hook keeps: the answer it shows, the error, the loading flag and the    *)
(* requests that are still out.  attempt.current is a counter; of a        *)
(* request only whether it is the newest one is ever looked at.            *)
(***************************************************************************)
CONSTANTS Hooks,   \* the hooks of all pages
          Keys,    \* the values of a hook's dependencies
          Values,  \* what the server can answer
          None,    \* nothing: no data, no reply yet, a hook that is not mounted
          Failed   \* a reply that is not 2xx, or a connection that broke

Request == [newest: BOOLEAN, key: Keys, reply: Values \union {None, Failed}]

Data == [key: Keys, value: Values]

View == [key: Keys, data: Data \union {None}, error: BOOLEAN, loading: BOOLEAN,
         requests: SUBSET Request]

\* What the page sees of a hook.
Seen == [key: Keys, data: Data \union {None}, error: BOOLEAN, open: BOOLEAN]

ASSUME NoneIsNothing == /\ None \notin Values /\ Failed \notin Values /\ None # Failed
                        /\ None \notin Data /\ None \notin View /\ None \notin Seen

VARIABLE views     \* the hooks of the mounted page; None for every other

State(k, data, error, loading, requests) ==
    [key |-> k, data |-> data, error |-> error, loading |-> loading, requests |-> requests]

NewRequest(k) == [newest |-> TRUE, key |-> k, reply |-> None]

\* The state of the hook's first render, and the effect after it.
Fresh(k) == State(k, None, FALSE, TRUE, {NewRequest(k)})

\* (mutant) setLoading(true) forgotten
AskedQuietly(v, k) ==
    State(k, v.data, v.error, v.loading,
          {[r EXCEPT !.newest = FALSE] : r \in v.requests} \union {NewRequest(k)})

\* The effect runs again: the requests before this one are superseded.
Asked(v, k) ==
    State(k, v.data, v.error, TRUE,
          {[r EXCEPT !.newest = FALSE] : r \in v.requests} \union {NewRequest(k)})

Reloaded(v) == Asked(v, v.key)

\* The server's answer leaves for the browser.
Answered(v, r, reply) ==
    [v EXCEPT !.requests = (@ \ {r}) \union {[r EXCEPT !.reply = reply]}]

\* (mutants) whatever comes last is shown; finally settles whatever came
LastComesIn(v, r) ==
    IF r.reply = Failed THEN State(v.key, v.data, TRUE, FALSE, v.requests \ {r})
    ELSE State(v.key, [key |-> r.key, value |-> r.reply], FALSE, FALSE, v.requests \ {r})

AlwaysSettles(v, r) ==
    IF r.newest THEN LastComesIn(v, r)
    ELSE State(v.key, v.data, v.error, FALSE, v.requests \ {r})

\* then, catch and finally run back to back: only a newest request counts.
Delivered(v, r) ==
    LET rest == v.requests \ {r}
    IN  IF ~r.newest THEN State(v.key, v.data, v.error, v.loading, rest)
        ELSE IF r.reply = Failed THEN State(v.key, v.data, TRUE, FALSE, rest)
        ELSE State(v.key, [key |-> r.key, value |-> r.reply], FALSE, FALSE, rest)

-----------------------------------------------------------------------------
\* One hook by itself: mounted, asked again, answered, unmounted.
Step(v, w) ==
    \/ w = v
    \/ w = None
    \/ \E k \in Keys : w = Fresh(k)
    \/ /\ v # None
       /\ \/ \E k \in Keys : w = Asked(v, k)
          \/ \E r \in v.requests : /\ r.reply = None
                                   /\ \E x \in Values \union {Failed} : w = Answered(v, r, x)
          \/ \E r \in v.requests : r.reply # None /\ w = Delivered(v, r)

HooksInit == views \in [Hooks -> {Fresh(k) : k \in Keys} \union {None}]

HooksNext ==
    /\ views' = [h \in Hooks |-> views'[h]]
    /\ \A h \in Hooks : Step(views[h], views'[h])

HooksSpec == HooksInit /\ [][HooksNext]_views

-----------------------------------------------------------------------------
NewestOf(v) == {r \in v.requests : r.newest}

\* loading is exactly "the newest request is out", and that request asks the
\* question the dependencies now pose (hooks.ts:61-76).
LoadingIsNewest ==
    \A h \in Hooks : views[h] # None =>
        /\ views[h].loading <=> NewestOf(views[h]) # {}
        /\ \A r, q \in NewestOf(views[h]) : r = q
        /\ \A r \in NewestOf(views[h]) : r.key = views[h].key

\* A view that has settled without an error shows an answer to the question
\* its dependencies pose, however many requests overtook each other on the
\* way (hooks.ts:50-52, the filters of the pages).
SettledIsCurrent ==
    \A h \in Hooks : views[h] # None /\ ~views[h].loading /\ ~views[h].error =>
        views[h].data # None /\ views[h].data.key = views[h].key

\* Both follow from what holds of each view by itself: its type, loading as the
\* presence of one newest request, for the present key, and data for that key
\* once it has settled.
ViewOK(v) ==
    /\ v \in View
    /\ v.loading = (NewestOf(v) # {})
    /\ \A r, q \in NewestOf(v) : r = q
    /\ \A r \in NewestOf(v) : r.key = v.key
    /\ ~v.loading /\ ~v.error => v.data # None /\ v.data.key = v.key

\* Every mounted hook is well-formed (useAsync, hooks.ts:54-82).
HooksInv ==
    /\ views = [h \in Hooks |-> views[h]]
    /\ \A h \in Hooks : views[h] = None \/ ViewOK(views[h])

\* What a page sees of a view.
Visible(v) == IF v = None THEN None
              ELSE [key |-> v.key, data |-> v.data, error |-> v.error, open |-> v.loading]

Promise == INSTANCE LatestAnswer WITH shown <- [h \in Hooks |-> Visible(views[h])]

\* The hooks keep the promise of LatestAnswer: only the answer to the
\* question that is open now changes what a page shows.
ImplementsLatest == Promise!Spec
=============================================================================
