---------------------------- MODULE LatestAnswer ----------------------------
(***************************************************************************)
(* What a page of the console is promised about the data it shows: for     *)
(* each hook of useAsync there is one question, at most one of them open,  *)
(* and what is shown changes only when the open question is answered or    *)
(* fails.  How many requests were sent on the way is not visible.          *)
(***************************************************************************)
CONSTANTS Hooks,   \* the hooks of all pages
          Keys,    \* the values of a hook's dependencies
          Values,  \* what the server can answer
          None     \* nothing: no data, a hook that is not mounted

VARIABLE shown     \* what every hook shows

Shown == [key: Keys, data: [key: Keys, value: Values] \union {None},
          error: BOOLEAN, open: BOOLEAN]

Init == shown \in [Hooks -> Shown \union {None}]

State(k, data, error, open) == [key |-> k, data |-> data, error |-> error, open |-> open]

Mount(w) == w.key \in Keys /\ w = State(w.key, None, FALSE, TRUE)

Ask(s, w) == w.key \in Keys /\ w = State(w.key, s.data, s.error, TRUE)

Answer(s, w) ==
    /\ s.open
    /\ w.data \in [key: {s.key}, value: Values]
    /\ w = State(s.key, w.data, FALSE, FALSE)

Fail(s, w) == s.open /\ w = State(s.key, s.data, TRUE, FALSE)

Step(s, w) ==
    \/ w = s
    \/ w = None                                         \* unmounted
    \/ Mount(w)
    \/ s # None /\ (Ask(s, w) \/ Answer(s, w) \/ Fail(s, w))

\* A page has several hooks, and one event of the page may move them all.
Next ==
    \E before \in {shown}, after \in {shown'} :
        /\ after = [h \in Hooks |-> after[h]]
        /\ \A h \in Hooks : Step(before[h], after[h])

Spec == Init /\ [][Next]_shown
=============================================================================
