--------------------------- MODULE Console_proofs ---------------------------
(***************************************************************************)
(* What the console promises for every set of hooks, rows, tables, roles   *)
(* and tours of a user.                                                    *)
(*                                                                         *)
(* First one hook of useAsync by itself: its invariant, and that it is an  *)
(* implementation of LatestAnswer.  Then the console.  Nearly every step   *)
(* has a footprint (Foot): what it may do to the hooks, the calls and the  *)
(* page for the invariant to go on.  One lemma per page says that all of   *)
(* its handlers and timers have one; renders, the server and other people, *)
(* who have none, keep the invariant by lemmas of their own.  At the end,  *)
(* the pages of a table.                                                   *)
(***************************************************************************)
EXTENDS ConsoleInvariant, FiniteSetTheorems, TLAPS

-----------------------------------------------------------------------------
\* A state made of parts is what ViewOK asks for when its parts are.
LEMMA StateOK ==
  ASSUME NEW k \in Keys, NEW d \in Data \union {None}, NEW e \in BOOLEAN, NEW l \in BOOLEAN,
         NEW R \in SUBSET Request, NEW N, N = {r \in R : r.newest},
         l = (N # {}), \A r, q \in N : r = q, \A r \in N : r.key = k,
         ~l /\ ~e => d # None /\ d.key = k
  PROVE  ViewOK(State(k, d, e, l, R))
<1> DEFINE v == State(k, d, e, l, R)
<1>1. /\ v.key = k /\ v.data = d /\ v.error = e /\ v.loading = l /\ v.requests = R
      /\ v \in View
  BY DEF State, View
<1>2. NewestOf(v) = N
  BY <1>1 DEF NewestOf
<1> HIDE DEF v
<1>3. ViewOK(v)
  BY <1>1, <1>2 DEF ViewOK
<1> QED
  BY <1>3 DEF v

\* The parts of a view, for the lemmas below.
LEMMA PartsOK ==
  ASSUME NEW v, ViewOK(v)
  PROVE  /\ v.key \in Keys /\ v.data \in Data \union {None} /\ v.error \in BOOLEAN
         /\ v.loading \in BOOLEAN /\ v.requests \in SUBSET Request
         /\ v = State(v.key, v.data, v.error, v.loading, v.requests)
BY DEF ViewOK, View, State

\* A hook that has just been mounted.
LEMMA FreshOK == ASSUME NEW k \in Keys PROVE ViewOK(Fresh(k))
<1> DEFINE R == {NewRequest(k)}
<1>1. R \in SUBSET Request /\ R = {r \in R : r.newest} /\ \A r \in R : r.key = k
  BY DEF NewRequest, Request
<1>2. ViewOK(State(k, None, FALSE, TRUE, R))
  BY <1>1, StateOK
<1> QED
  BY <1>2 DEF Fresh

\* Asking again supersedes every request but the new one.
LEMMA AskedOK == ASSUME NEW v, ViewOK(v), NEW k \in Keys PROVE ViewOK(Asked(v, k))
<1> DEFINE old == {[r EXCEPT !.newest = FALSE] : r \in v.requests}
           R == old \union {NewRequest(k)}
<1>1. old \subseteq Request /\ \A r \in old : ~r.newest
  <2>1. ASSUME NEW r \in Request
        PROVE  [r EXCEPT !.newest = FALSE] \in Request /\ ~[r EXCEPT !.newest = FALSE].newest
    BY DEF Request
  <2> QED
    BY <2>1, PartsOK
<1>2. NewRequest(k) \in Request /\ NewRequest(k).newest /\ NewRequest(k).key = k
  BY DEF NewRequest, Request
<1> DEFINE N == {NewRequest(k)}
<1>3. R \in SUBSET Request /\ N = {r \in R : r.newest}
  BY <1>1, <1>2
<1>4. N # {} /\ (\A r, q \in N : r = q) /\ \A r \in N : r.key = k
  BY <1>2
<1>5. v.data \in Data \union {None} /\ v.error \in BOOLEAN
  BY PartsOK
<1> HIDE DEF R, N
<1>6. ViewOK(State(k, v.data, v.error, TRUE, R))
  BY <1>3, <1>4, <1>5, StateOK
<1> QED
  BY <1>6 DEF Asked, R

\* An answer on its way changes neither which request is newest nor its key.
LEMMA AnsweredOK ==
  ASSUME NEW v, ViewOK(v), NEW r \in v.requests, NEW x \in Values \union {Failed}
  PROVE  ViewOK(Answered(v, r, x))
<1> DEFINE q == [r EXCEPT !.reply = x]
           R == (v.requests \ {r}) \union {q}
           N == IF r.newest THEN (NewestOf(v) \ {r}) \union {q} ELSE NewestOf(v)
<1>1. r \in Request /\ q \in Request /\ q.newest = r.newest /\ q.key = r.key
  BY PartsOK DEF Request
<1>2. R \in SUBSET Request
  BY <1>1, PartsOK
<1>3. r.newest = (r \in NewestOf(v))
  BY <1>1 DEF NewestOf, Request
<1>4. N = {s \in R : s.newest}
  BY <1>1, <1>3 DEF NewestOf
<1>5. /\ v.loading = (N # {})
      /\ \A s, t \in N : s = t
      /\ \A s \in N : s.key = v.key
  BY <1>1, <1>3 DEF ViewOK
<1>6. ~v.loading /\ ~v.error => v.data # None /\ v.data.key = v.key
  BY DEF ViewOK
<1>7. /\ v.key \in Keys /\ v.data \in Data \union {None} /\ v.error \in BOOLEAN
      /\ v.loading \in BOOLEAN
  BY PartsOK
<1>8. Answered(v, r, x) = [v EXCEPT !.requests = R]
  BY DEF Answered
<1> HIDE DEF N, R
<1>9. ViewOK(State(v.key, v.data, v.error, v.loading, R))
  BY <1>2, <1>4, <1>5, <1>6, <1>7, StateOK
<1>10. [v EXCEPT !.requests = R] = State(v.key, v.data, v.error, v.loading, R)
  BY DEF State, ViewOK, View
<1> QED
  BY <1>8, <1>9, <1>10

\* Taking in the newest answer settles the view; any other leaves it alone.
LEMMA DeliveredOK ==
  ASSUME NEW v, ViewOK(v), NEW r \in v.requests, r.reply # None
  PROVE  ViewOK(Delivered(v, r))
<1> DEFINE rest == v.requests \ {r}
           N == {s \in rest : s.newest}
<1>1. r \in Request /\ rest \in SUBSET Request
  BY PartsOK
<1>2. CASE ~r.newest
  <2>1. N = NewestOf(v)
    BY <1>2 DEF NewestOf
  <2>2. ViewOK(State(v.key, v.data, v.error, v.loading, rest))
    <3>1. /\ v.key \in Keys /\ v.data \in Data \union {None} /\ v.error \in BOOLEAN
          /\ v.loading \in BOOLEAN
      BY PartsOK
    <3>2. /\ v.loading = (N # {})
          /\ (\A s, t \in N : s = t) /\ \A s \in N : s.key = v.key
          /\ ~v.loading /\ ~v.error => v.data # None /\ v.data.key = v.key
      BY <2>1 DEF ViewOK
    <3> HIDE DEF rest
    <3> QED
      BY <1>1, <3>1, <3>2, StateOK
  <2> QED
    BY <1>2, <2>2 DEF Delivered
<1>3. CASE r.newest
  <2>1. r \in NewestOf(v) /\ r.key = v.key
    BY <1>3 DEF NewestOf, ViewOK
  <2>2. N = {}
    BY <2>1 DEF NewestOf, ViewOK
  <2>3. CASE r.reply = Failed
    <3>1. ViewOK(State(v.key, v.data, TRUE, FALSE, rest))
      BY <1>1, <2>2, PartsOK, StateOK
    <3> QED
      BY <1>3, <2>3, <3>1 DEF Delivered
  <2>4. CASE r.reply # Failed
    <3> DEFINE d == [key |-> r.key, value |-> r.reply]
    <3>1. d \in Data /\ d.key = v.key
      BY <1>1, <2>1, <2>4 DEF Request, Data
    <3>2. d # None
      BY <3>1, NoneIsNothing
    <3>3. v.key \in Keys
      BY PartsOK
    <3> HIDE DEF d
    <3>4. ViewOK(State(v.key, d, FALSE, FALSE, rest))
      BY <1>1, <2>2, <3>1, <3>2, <3>3, StateOK
    <3> QED
      BY <1>3, <2>4, <3>4 DEF Delivered, d
  <2> QED
    BY <2>3, <2>4
<1> QED
  BY <1>1, <1>2, <1>3 DEF Request

\* Every event of a hook keeps its invariant.
LEMMA StepOK ==
  ASSUME NEW v, NEW w, v = None \/ ViewOK(v), Step(v, w)
  PROVE  w = None \/ ViewOK(w)
<1>1. CASE w = v \/ w = None
  BY <1>1
<1>2. ASSUME NEW k \in Keys, w = Fresh(k) PROVE ViewOK(w)
  BY <1>2, FreshOK
<1>3. ASSUME v # None, NEW k \in Keys, w = Asked(v, k) PROVE ViewOK(w)
  BY <1>3, AskedOK
<1>4. ASSUME v # None, NEW r \in v.requests, NEW x \in Values \union {Failed},
             w = Answered(v, r, x)
      PROVE  ViewOK(w)
  BY <1>4, AnsweredOK
<1>5. ASSUME v # None, NEW r \in v.requests, r.reply # None, w = Delivered(v, r)
      PROVE  ViewOK(w)
  BY <1>5, DeliveredOK
<1> QED
  BY <1>1, <1>2, <1>3, <1>4, <1>5 DEF Step

-----------------------------------------------------------------------------
\* The invariant of all hooks (useAsync, hooks.ts:54-82): every mounted view
\* is well-formed, whatever requests overtook each other.
THEOREM HooksAreSound == HooksSpec => []HooksInv
<1>1. HooksInit => HooksInv
  BY FreshOK DEF HooksInit, HooksInv
<1>2. HooksInv /\ [HooksNext]_views => HooksInv'
  <2> SUFFICES ASSUME HooksInv, [HooksNext]_views PROVE HooksInv'
    OBVIOUS
  <2>1. CASE HooksNext
    <3>1. \A h \in Hooks : views'[h] = None \/ ViewOK(views'[h])
      BY <2>1, StepOK DEF HooksNext, HooksInv
    <3> QED
      BY <2>1, <3>1 DEF HooksNext, HooksInv
  <2>2. CASE UNCHANGED views
    BY <2>2 DEF HooksInv
  <2> QED
    BY <2>1, <2>2
<1> QED
  BY <1>1, <1>2, PTL DEF HooksSpec

\* A view that has settled without an error answers the present question.
THEOREM SettledViewsAreCurrent == HooksSpec => []SettledIsCurrent
<1>1. HooksInv => SettledIsCurrent
  BY DEF HooksInv, SettledIsCurrent, ViewOK
<1> QED
  BY <1>1, HooksAreSound, PTL

\* loading says that the newest request is out, and that there is one.
THEOREM LoadingMeansNewest == HooksSpec => []LoadingIsNewest
<1>1. HooksInv => LoadingIsNewest
  BY DEF HooksInv, LoadingIsNewest, ViewOK
<1> QED
  BY <1>1, HooksAreSound, PTL

-----------------------------------------------------------------------------
\* What is visible of a state made of parts.
LEMMA VisibleOf ==
  ASSUME NEW k, NEW d, NEW e, NEW l, NEW R, ViewOK(State(k, d, e, l, R))
  PROVE  Visible(State(k, d, e, l, R)) = Promise!State(k, d, e, l)
<1> DEFINE v == State(k, d, e, l, R)
<1>1. v.key = k /\ v.data = d /\ v.error = e /\ v.loading = l
  BY DEF State
<1>2. v # None
  BY NoneIsNothing DEF ViewOK
<1> HIDE DEF v
<1>3. Visible(v) = Promise!State(k, d, e, l)
  BY <1>1, <1>2 DEF Visible, Promise!State
<1> QED
  BY <1>3 DEF v

\* What a page sees of a well-formed view.
LEMMA VisibleIsSeen ==
  ASSUME NEW v, ViewOK(v)
  PROVE  /\ Visible(v) = Promise!State(v.key, v.data, v.error, v.loading)
         /\ Visible(v) # None
         /\ Visible(v) \in Promise!Shown
<1>1. /\ v = State(v.key, v.data, v.error, v.loading, v.requests)
      /\ v.key \in Keys /\ v.data \in Data \union {None} /\ v.error \in BOOLEAN
      /\ v.loading \in BOOLEAN
  BY PartsOK
<1>2. Visible(v) = Promise!State(v.key, v.data, v.error, v.loading)
  BY <1>1, VisibleOf
<1>3. Visible(v) \in Seen /\ Visible(v) \in Promise!Shown
  BY <1>1, <1>2 DEF Seen, Promise!Shown, Promise!State, Data
<1> QED
  BY <1>2, <1>3, NoneIsNothing

\* Each event of a hook is, to its page, an event of LatestAnswer or nothing.
LEMMA DeliveryIsPromised ==
  ASSUME NEW v, ViewOK(v), NEW r \in v.requests, r.reply # None
  PROVE  LET s == Visible(v)
             t == Visible(Delivered(v, r))
         IN  t = s \/ Promise!Answer(s, t) \/ Promise!Fail(s, t)
<1> DEFINE s == Visible(v)
           t == Visible(Delivered(v, r))
           rest == v.requests \ {r}
<1>1. ViewOK(Delivered(v, r)) /\ r \in Request
  BY DeliveredOK, PartsOK
<1>2. /\ s = Promise!State(v.key, v.data, v.error, v.loading)
      /\ s.key = v.key /\ s.data = v.data /\ s.error = v.error /\ s.open = v.loading
  BY VisibleIsSeen DEF Promise!State
<1>3. CASE ~r.newest
  <2>1. Delivered(v, r) = State(v.key, v.data, v.error, v.loading, rest)
    BY <1>3 DEF Delivered
  <2> QED
    BY <1>1, <1>2, <2>1, VisibleOf
<1>4. CASE r.newest
  <2>1. r.key = v.key /\ v.loading
    BY <1>4 DEF ViewOK, NewestOf
  <2>2. CASE r.reply = Failed
    <3>1. Delivered(v, r) = State(v.key, v.data, TRUE, FALSE, rest)
      BY <1>4, <2>2 DEF Delivered
    <3>2. t = Promise!State(v.key, v.data, TRUE, FALSE)
      BY <1>1, <3>1, VisibleOf
    <3> QED
      BY <1>2, <2>1, <3>2 DEF Promise!Fail
  <2>3. CASE r.reply # Failed
    <3> DEFINE d == [key |-> r.key, value |-> r.reply]
    <3>1. Delivered(v, r) = State(v.key, d, FALSE, FALSE, rest)
      BY <1>4, <2>3 DEF Delivered
    <3>2. d \in [key: {v.key}, value: Values]
      BY <1>1, <2>1, <2>3 DEF Request
    <3> HIDE DEF d
    <3>3. t = Promise!State(v.key, d, FALSE, FALSE)
      BY <1>1, <3>1, VisibleOf
    <3>4. t.data = d
      BY <3>3 DEF Promise!State
    <3> QED
      BY <1>2, <2>1, <3>2, <3>3, <3>4 DEF Promise!Answer
  <2> QED
    BY <2>2, <2>3
<1> QED
  BY <1>1, <1>3, <1>4 DEF Request

\* ... and so every step of a hook is a step of LatestAnswer.
LEMMA StepIsPromised ==
  ASSUME NEW v, NEW w, v = None \/ ViewOK(v), Step(v, w)
  PROVE  Promise!Step(Visible(v), Visible(w))
<1>1. CASE w = v \/ w = None
  BY <1>1 DEF Visible, Promise!Step
<1>2. ASSUME NEW k \in Keys, w = Fresh(k) PROVE Promise!Mount(Visible(w))
  <2>1. Visible(w) = Promise!State(k, None, FALSE, TRUE)
    BY <1>2, FreshOK, VisibleOf DEF Fresh
  <2> QED
    BY <2>1 DEF Promise!Mount, Promise!State
<1>3. ASSUME v # None, NEW k \in Keys, w = Asked(v, k) PROVE Promise!Ask(Visible(v), Visible(w))
  <2>1. Visible(v).data = v.data /\ Visible(v).error = v.error
    BY <1>3, VisibleIsSeen DEF Promise!State
  <2>2. Visible(w) = Promise!State(k, v.data, v.error, TRUE)
    BY <1>3, AskedOK, VisibleOf DEF Asked
  <2> QED
    BY <2>1, <2>2 DEF Promise!Ask, Promise!State
<1>4. ASSUME v # None, NEW r \in v.requests, NEW x \in Values \union {Failed},
             w = Answered(v, r, x)
      PROVE  Visible(w) = Visible(v)
  <2>1. w.key = v.key /\ w.data = v.data /\ w.error = v.error /\ w.loading = v.loading
    BY <1>4 DEF Answered, ViewOK, View
  <2>2. ViewOK(w)
    BY <1>4, AnsweredOK
  <2> QED
    BY <1>4, <2>1, <2>2, VisibleIsSeen
<1>5. ASSUME v # None, NEW r \in v.requests, r.reply # None, w = Delivered(v, r)
      PROVE  \/ Visible(w) = Visible(v)
             \/ Promise!Answer(Visible(v), Visible(w))
             \/ Promise!Fail(Visible(v), Visible(w))
  BY <1>5, DeliveryIsPromised
<1>6. v # None => Visible(v) # None
  BY VisibleIsSeen
<1> QED
  BY <1>1, <1>2, <1>3, <1>4, <1>5, <1>6 DEF Step, Promise!Step

\* useAsync implements LatestAnswer: to the page every hook asks one question
\* at a time, and only the answer to the open one changes what it shows.
THEOREM HooksImplementLatest == HooksSpec => ImplementsLatest
<1> DEFINE seen == [h \in Hooks |-> Visible(views[h])]
<1>1. HooksInit => Promise!Init
  <2> SUFFICES ASSUME HooksInit, NEW h \in Hooks
               PROVE  Visible(views[h]) \in Promise!Shown \union {None}
    BY DEF Promise!Init
  <2>1. views[h] = None \/ ViewOK(views[h])
    BY FreshOK DEF HooksInit
  <2> QED
    BY <2>1, VisibleIsSeen DEF Visible
<1>2. HooksInv /\ [HooksNext]_views => [Promise!Next]_seen
  <2> SUFFICES ASSUME HooksInv, HooksNext PROVE Promise!Next
    BY DEF Visible
  <2>1. \A h \in Hooks : Promise!Step(Visible(views[h]), Visible(views'[h]))
    BY StepIsPromised DEF HooksNext, HooksInv
  <2>2. seen' = [h \in Hooks |-> Visible(views'[h])]
    BY DEF Visible
  <2> QED
    BY <2>1, <2>2 DEF Promise!Next
<1> QED
  BY <1>1, <1>2, HooksAreSound, PTL DEF HooksSpec, ImplementsLatest, Promise!Spec
-----------------------------------------------------------------------------
(***************************************************************************)
(* What the operators of the pages return.                                 *)
(***************************************************************************)

\* What can be mounted is among the hooks.
LEMMA MountedAreHooks == ASSUME NEW to, NEW r PROVE HooksOf(to, r) \subseteq Hooks
BY PagesHaveHooks
   DEF HooksOf, SchedulesHooks, BackupsHooks, DevicesHooks, DetailHooks, ConfigurationsHooks,
       ConfigurationsPart, DashboardHooks, LogsHooks, ComplianceHooks

LEMMA NothingIsValue == Nothing \in Values
BY AnswersAreRows DEF Nothing, Contents, Gone

LEMMA CaughtIsValue == ASSUME NEW h, NEW k PROVE CaughtBy(h, k) \in Values \union {Failed}
BY NothingIsValue DEF CaughtBy

\* Every answer is made of rows of the server.
LEMMA AnswerIsValue ==
  ASSUME db \in [Kinds -> [Ids -> Contents]], NEW h, NEW k
  PROVE  AnswerOf(h, k) \in Values \union {Failed}
<1>1. \A kind \in Kinds : db[kind] \in Values
  BY AnswersAreRows
<1>2. \A i : [Nothing EXCEPT ![i] = db["devices"][i]] \in Values
  <2> SUFFICES ASSUME NEW i PROVE [Nothing EXCEPT ![i] = db["devices"][i]] \in [Ids -> Contents]
    BY AnswersAreRows
  <2>1. Nothing \in [Ids -> Contents]
    BY NothingIsValue, AnswersAreRows
  <2>2. i \in Ids => db["devices"][i] \in Contents
    BY TablesExist
  <2> QED
    BY <2>1, <2>2
<1>3. JobsAnswer(k) \in Values
  BY <1>1, NothingIsValue, TablesExist DEF JobsAnswer
<1>4. DetailAnswer(h, k) \in Values \union {Failed}
  BY <1>1, <1>2, NothingIsValue, TablesExist DEF DetailAnswer
<1>5. \A i : VersionsAnswer(h, i) \in Values \union {Failed}
  BY <1>1, <1>2, TablesExist DEF VersionsAnswer, VersionsOf
<1>6. EventsAnswer(k) \in Values
  BY <1>1, TablesExist, AnswersAreRows DEF EventsAnswer, Contents, Gone
<1>7. TopologyAnswer(k) \in Values
  BY <1>1, TablesExist, AnswersAreRows DEF TopologyAnswer, Contents, Gone
<1>8. TrendAnswer(k) \in Values
  BY <1>1, TablesExist, AnswersAreRows DEF TrendAnswer, Contents, Gone
<1> QED
  BY <1>1, <1>3, <1>4, <1>5, <1>6, <1>7, <1>8, NothingIsValue, TablesExist DEF AnswerOf

\* A page that has just been mounted.
LEMMA MountedPage ==
  ASSUME NEW to \in Routes
  PROVE  /\ PageOK(InitOf(to), to.page)
         /\ InitOf(to).message = None
         /\ to.page = "configurations" => InitOf(to).diff = None /\ InitOf(to).content = None
         /\ to.page \in AskingPages => InitOf(to).asks \in Questions(to.page)
<1> DEFINE p == InitOf(to)
<1>1. /\ {"busy", "error", "message"} \subseteq DOMAIN p
      /\ p.busy = FALSE /\ p.message = None
  BY DEF InitOf, SchedulesInit, BackupsInit, DevicesInit, DetailInit, ConfigurationsInit, TriageInit,
         PoliciesInit, MonitoringInit, DashboardInit, LogsInit, TopologyInit, ComplianceInit, SettingsInit
<1>2. to.page = "schedules" => "form" \in DOMAIN p /\ p.form = None
  BY DEF InitOf, SchedulesInit
<1>3. to.page = "settings" => "form" \in DOMAIN p /\ p.form = None
  BY DEF InitOf, SettingsInit
<1>4. to.page = "device" => "timers" \in DOMAIN p /\ p.timers = 0
  BY DEF InitOf, DetailInit
<1>5. to.page = "configurations" =>
        {"diff", "content"} \subseteq DOMAIN p /\ p.diff = None /\ p.content = None
  BY DEF InitOf, ConfigurationsInit
<1>6. to.page = "monitoring" => "due" \in DOMAIN p /\ p.due = "nothing"
  BY DEF InitOf, MonitoringInit
<1>7. to.page \in AskingPages => "asks" \in DOMAIN p /\ p.asks \in Questions(to.page)
  <2>1. 1 \in Ids
    BY IdsAreNumbers
  <2> QED
    BY <2>1 DEF AskingPages, Questions, InitOf, LogsInit, TopologyInit, DashboardInit, ComplianceInit
<1> QED
  BY <1>1, <1>2, <1>3, <1>4, <1>5, <1>6, <1>7 DEF PageOK

\* What the fields of a page ask is a key.
LEMMA QuestionIsKey ==
  ASSUME NEW at \in AskingPages, NEW k \in Questions(at)
  PROVE  k \in Keys
<1>1. 1 \in Ids
  BY IdsAreNumbers
<1>2. \A i \in {0} \union Ids : \A tag \in {"all", "failed", "days", "unset"} : Key(tag, i) \in Keys
  BY DependenciesAreKeys
<1>3. \A rows \in SUBSET Ids : Key("count", Cardinality(rows)) \in Keys
  BY DependenciesAreKeys
<1> QED
  BY <1>1, <1>2, <1>3 DEF Questions, AskingPages

\* The pages of the hooks that depend on fields of their page.
LEMMA AskingHooksHavePages ==
  ASSUME NEW to, NEW r, NEW h \in HooksOf(to, r), h \in AskingHooks
  PROVE  /\ to.page \in AskingPages
         /\ h = "events" <=> to.page = "logs"
         /\ h = "topology" <=> to.page = "topology"
         /\ h = "trend" <=> to.page = "dashboard"
         /\ h = "evaluations" <=> to.page = "compliance"
BY DEF HooksOf, SchedulesHooks, BackupsHooks, DevicesHooks, DetailHooks, ConfigurationsHooks,
       ConfigurationsPart, DashboardHooks, LogsHooks, ComplianceHooks, AskingHooks, AskingPages

\* The dependencies of a mounted hook are a key.
LEMMA DependencyIsKey ==
  ASSUME PageOK(page, route.page), NEW to \in Routes, NEW r \in Roles, NEW h \in HooksOf(to, r)
  PROVE  DepsOf(h, to, r) \in Keys
<1>1. /\ to.id \in {0} \union Ids
      /\ \A i \in {0} \union Ids :
           \A tag \in Roles \union {"always", "device", "operates", "views"} : Key(tag, i) \in Keys
  BY DependenciesAreKeys DEF Routes
<1>2. CASE h \in AskingHooks
  <2>1. to.page \in AskingPages
    BY <1>2, AskingHooksHavePages
  <2>2. On(to.page) => page.asks \in Questions(to.page)
    BY <2>1 DEF PageOK, On
  <2>3. InitOf(to).asks \in Questions(to.page)
    BY <2>1, MountedPage
  <2>4. DepsOf(h, to, r) = IF On(to.page) THEN page.asks ELSE InitOf(to).asks
    BY <1>2 DEF DepsOf, AskingHooks, DetailHooks
  <2> QED
    BY <2>1, <2>2, <2>3, <2>4, QuestionIsKey
<1>3. CASE h \notin AskingHooks
  BY <1>1, <1>3 DEF DepsOf, JobsKey, DetailKey, Always
<1> QED
  BY <1>2, <1>3

\* ... and so is what the page poses after a step.
LEMMA PosedIsKey ==
  ASSUME PageOK(page', route'.page), route' \in Routes, role' \in Roles,
         NEW h \in HooksOf(route', role')
  PROVE  DepsOf(h, route, role)' \in Keys
<1>1. /\ route'.id \in {0} \union Ids
      /\ \A i \in {0} \union Ids :
           \A tag \in Roles \union {"always", "device", "operates", "views"} : Key(tag, i) \in Keys
  BY DependenciesAreKeys DEF Routes
<1>2. CASE h \in AskingHooks
  <2>1. route'.page \in AskingPages
    BY <1>2, AskingHooksHavePages
  <2>2. page'.asks \in Questions(route'.page)
    BY <2>1 DEF PageOK
  <2>3. DepsOf(h, route, role)' = page'.asks
    BY <1>2 DEF DepsOf, AskingHooks, DetailHooks, On
  <2> QED
    BY <2>1, <2>2, <2>3, QuestionIsKey
<1>3. CASE h \notin AskingHooks
  BY <1>1, <1>3 DEF DepsOf, JobsKey, DetailKey, Always
<1> QED
  BY <1>2, <1>3

\* Nothing but the route, the role and what the page asks is a dependency.
LEMMA SameDependency ==
  ASSUME UNCHANGED <<route, role>>, route.page \in AskingPages => page'.asks = page.asks,
         NEW h \in HooksOf(route, role)
  PROVE  DepsOf(h, route, role)' = DepsOf(h, route, role)
<1>1. CASE h \in AskingHooks
  <2>1. route.page \in AskingPages
    BY <1>1, AskingHooksHavePages
  <2>2. DepsOf(h, route, role) = page.asks
    BY <1>1 DEF DepsOf, AskingHooks, DetailHooks, On
  <2>3. DepsOf(h, route, role)' = page'.asks
    BY <1>1 DEF DepsOf, AskingHooks, DetailHooks, On
  <2> QED
    BY <2>1, <2>2, <2>3
<1>2. CASE h \notin AskingHooks
  BY <1>2 DEF DepsOf, JobsKey, DetailKey
<1> QED
  BY <1>1, <1>2

\* The same rows give the same answers.
LEMMA SameAnswer == ASSUME UNCHANGED db, NEW h, NEW k PROVE AnswerOf(h, k)' = AnswerOf(h, k)
BY DEF AnswerOf, JobsAnswer, DetailAnswer, VersionsAnswer, EventsAnswer, TopologyAnswer, TrendAnswer

\* What a hook is answered depends on its tables alone.
LEMMA AnsweredFromTables ==
  ASSUME UNCHANGED route, NEW h \in HooksOf(route, role), NEW k,
         h = "versions" => k.id = route.id,
         \A kind \in TablesOf(h) : db'[kind] = db[kind]
  PROVE  AnswerOf(h, k)' = AnswerOf(h, k)
<1>1. h \in {"schedules", "findings", "alerts", "policies", "settings", "events", "evaluations"} =>
        AnswerOf(h, k)' = AnswerOf(h, k)
  BY DEF TablesOf, AnswerOf, EventsAnswer, DetailHooks
<1>2. h \in {"scanned_policies", "posture", "trend", "jobs", "device_jobs"} =>
        AnswerOf(h, k)' = AnswerOf(h, k)
  BY DEF TablesOf, AnswerOf, TrendAnswer, JobsAnswer, DetailAnswer, DetailHooks
<1>3. h \in {"versions", "version_device"} => AnswerOf(h, k)' = AnswerOf(h, k)
  BY DEF TablesOf, AnswerOf, VersionsAnswer, DetailHooks
<1>4. h \in {"summary", "interfaces", "health"} => AnswerOf(h, k)' = AnswerOf(h, k)
  BY DEF TablesOf, AnswerOf, DetailAnswer, DetailHooks
<1>5. h \in {"topology", "devices", "schedule_devices", "backup_devices", "picker_devices",
             "monitoring", "dashboard", "log_options", "scheduler"} =>
        AnswerOf(h, k)' = AnswerOf(h, k)
  BY DEF TablesOf, AnswerOf, TopologyAnswer, DetailHooks
<1> QED
  BY <1>1, <1>2, <1>3, <1>4, <1>5
     DEF HooksOf, SchedulesHooks, BackupsHooks, DevicesHooks, DetailHooks, ConfigurationsHooks,
         ConfigurationsPart, DashboardHooks, LogsHooks, ComplianceHooks

-----------------------------------------------------------------------------
(***************************************************************************)
(* What a view's events do to the truth of what it shows.                  *)
(***************************************************************************)

\* A view that waits for the answer to a new question shows nothing false:
\* loading says so.
LEMMA AskedAccurate == ASSUME NEW v, ViewOK(v), NEW k, NEW a PROVE Accurate(Asked(v, k), a)
<1>1. Asked(v, k).loading
  BY DEF Asked, State
<1>2. \A r \in NewestOf(Asked(v, k)) : r.reply = None
  <2> SUFFICES ASSUME NEW r \in Asked(v, k).requests, r.newest PROVE r.reply = None
    BY DEF NewestOf
  <2>1. r \in {[q EXCEPT !.newest = FALSE] : q \in v.requests} \union {NewRequest(k)}
    BY DEF Asked, State
  <2>2. ASSUME NEW q \in v.requests PROVE ~[q EXCEPT !.newest = FALSE].newest
    BY PartsOK DEF Request
  <2>3. r = NewRequest(k) \/ \E q \in v.requests : r = [q EXCEPT !.newest = FALSE]
    BY <2>1
  <2>4. r = NewRequest(k)
    BY <2>2, <2>3
  <2> QED
    BY <2>4 DEF NewRequest
<1> QED
  BY <1>1, <1>2 DEF Accurate

\* ... nor does one that has just been mounted.
LEMMA FreshAccurate == ASSUME NEW k, NEW a PROVE Accurate(Fresh(k), a)
<1>1. Fresh(k).loading /\ Fresh(k).requests = {NewRequest(k)}
  BY DEF Fresh, State
<1> QED
  BY <1>1 DEF Accurate, NewestOf, NewRequest

\* The server's answer, a failure, or what is superseded keeps a view accurate.
LEMMA AnsweredAccurate ==
  ASSUME NEW v, ViewOK(v), NEW a, Accurate(v, a), NEW r \in v.requests, NEW x,
         x = a \/ x = Failed \/ ~r.newest
  PROVE  Accurate(Answered(v, r, x), a)
<1> DEFINE q == [r EXCEPT !.reply = x]
           w == Answered(v, r, x)
<1>1. r \in Request /\ q.newest = r.newest /\ q.reply = x
  BY PartsOK DEF Request
<1>2. /\ w.loading = v.loading /\ w.error = v.error /\ w.data = v.data
      /\ w.requests = (v.requests \ {r}) \union {q}
  BY DEF Answered, ViewOK, View
<1> HIDE DEF q, w
<1> QED
  BY <1>1, <1>2 DEF Accurate, NewestOf, w

\* Taking in an answer keeps a view accurate: the newest one was the truth.
LEMMA DeliveredAccurate ==
  ASSUME NEW v, ViewOK(v), NEW a, Accurate(v, a), NEW r \in v.requests, r.reply # None
  PROVE  Accurate(Delivered(v, r), a)
<1> DEFINE w == Delivered(v, r)
<1>1. r \in Request
  BY PartsOK
<1>2. w.requests = v.requests \ {r}
  BY DEF Delivered, State
<1>3. CASE ~r.newest
  <2>1. w.loading = v.loading /\ w.error = v.error /\ w.data = v.data
    BY <1>3 DEF Delivered, State
  <2> HIDE DEF w
  <2> QED
    BY <1>2, <2>1 DEF Accurate, NewestOf, w
<1>4. CASE r.newest
  <2>1. NewestOf(w) = {}
    BY <1>2, <1>4 DEF NewestOf, ViewOK
  <2>2. r \in NewestOf(v)
    BY <1>4 DEF NewestOf
  <2>3. CASE r.reply = Failed
    <3>1. w.error
      BY <1>4, <2>3 DEF Delivered, State
    <3> HIDE DEF w
    <3> QED
      BY <2>1, <3>1 DEF Accurate, w
  <2>4. CASE r.reply # Failed
    <3>1. w.data.value = r.reply
      BY <1>4, <2>4 DEF Delivered, State
    <3>2. r.reply = a
      BY <2>2, <2>4 DEF Accurate
    <3> HIDE DEF w
    <3> QED
      BY <2>1, <3>1, <3>2 DEF Accurate, w
  <2> QED
    BY <2>3, <2>4
<1> QED
  BY <1>1, <1>3, <1>4 DEF Request

-----------------------------------------------------------------------------
(***************************************************************************)
(* The footprint of a step of a page, a timer, an answer or the shell:     *)
(* what every one of them but a render, the server and other people does,  *)
(* and does not do.                                                        *)
(***************************************************************************)

Steady ==
  /\ UNCHANGED <<route, role, db>>
  /\ LedgerOK(ledger') /\ ledger'.tour = ledger.tour
  /\ ledger'.foreign = ledger.foreign /\ ledger'.carried = ledger.carried
  /\ ShellOK(shell')

\* A mounted hook asks again what the page poses then.
Asking(h) ==
  h \in HooksOf(route, role) /\ views'[h] = Asked(views[h], DepsOf(h, route, role)')

Moved(h) ==
  \/ Asking(h)
  \/ /\ h \in HooksOf(route, role) => DepsOf(h, route, role)' = DepsOf(h, route, role)
     /\ \/ views'[h] = views[h]
        \/ /\ h \in HooksOf(route, role)
           /\ \E r \in views[h].requests :
                \/ /\ r.reply = None
                   /\ \E x \in {AnswerOf(h, r.key), CaughtBy(h, r.key)} :
                        x \in Values \union {Failed} /\ views'[h] = Answered(views[h], r, x)
                \/ r.reply # None /\ views'[h] = Delivered(views[h], r)

Looks == views' = [h \in Hooks |-> views'[h]] /\ \A h \in Hooks : Moved(h)

\* The calls that are sent, and those that are done: what a done one changed is
\* asked for again, at once or by a timer.
Traffic(sent, done) ==
  /\ calls' = (calls \ done) \union sent
  /\ \A c \in sent : CallOK(c) /\ Placed(c) /\ c.reply = None
  /\ \A c \in done \cap calls :
       c.live /\ c.op \notin ShellOps /\ c.reply = "done" /\ c.to # None =>
         \A h \in HooksOf(route, role) \ {"settings"} :
           c.kind \in TablesOf(h) =>
             Asking(h) \/ (h = "device_jobs" /\ On("device") /\ page'.timers > 0)

\* The page after it.
Renders(sent, done) ==
  /\ PageOK(page', route.page)
  /\ \/ page'.message \in {None, page.message}
     \/ \E c \in done \cap calls : c.reply = "done" /\ page'.message = c.id
  /\ On("configurations") /\ ConfigurationsPart(route.id, role) # "versions" =>
       page'.diff = page.diff /\ page'.content = page.content
  /\ On("device") /\ page.timers > 0 => page'.timers > 0 \/ Asking("device_jobs")
  /\ ActsOf(sent) # {} =>
       /\ ~page.busy /\ page'.busy /\ (On("monitoring") => page'.due = "nothing")
       /\ \A c, d \in ActsOf(sent) : c = d
  /\ ActsOf(calls \ done) # {} =>
       /\ page.busy => page'.busy
       /\ On("monitoring") /\ page.due = "nothing" => page'.due = "nothing"

Foot(sent, done) == Steady /\ Looks /\ Traffic(sent, done) /\ Renders(sent, done)

\* Such a step keeps each part of the invariant.
LEMMA FootWorld ==
  ASSUME ConsoleInv, Steady
  PROVE  WorldOK'
BY DEF ConsoleInv, WorldOK, Steady

\* The hooks move by the events of useAsync alone, and keep their invariant.
LEMMA MovedIsStep ==
  ASSUME ConsoleInv, UNCHANGED <<route, role>>, PageOK(page', route.page),
         NEW h \in Hooks, Moved(h)
  PROVE  /\ Step(views[h], views'[h])
         /\ views'[h] # None <=> h \in HooksOf(route, role)
         /\ views'[h] # None => ViewOK(views'[h]) /\ views'[h].key = DepsOf(h, route, role)'
<1> DEFINE v == views[h]
           w == views'[h]
<1>1. /\ v # None <=> h \in HooksOf(route, role)
      /\ v # None => ViewOK(v) /\ v.key = DepsOf(h, route, role)
  BY DEF ConsoleInv, ViewsOK, HooksInv
<1>2. \A x : ViewOK(x) => x # None
  BY NoneIsNothing DEF ViewOK
<1>3. CASE Asking(h)
  <2>1. h \in HooksOf(route, role) /\ w = Asked(v, DepsOf(h, route, role)')
    BY <1>3 DEF Asking
  <2>2. DepsOf(h, route, role)' \in Keys
    <3>1. /\ PageOK(page', route'.page) /\ route' \in Routes /\ role' \in Roles
          /\ h \in HooksOf(route', role')
      BY <2>1 DEF ConsoleInv, WorldOK
    <3> QED
      BY <3>1, PosedIsKey
  <2>3. Step(v, w)
    BY <1>1, <2>1, <2>2 DEF Step
  <2>4. ViewOK(w)
    BY <1>1, <2>1, <2>2, AskedOK
  <2>5. w.key = DepsOf(h, route, role)'
    BY <2>1 DEF Asked, State
  <2> QED
    BY <1>2, <2>1, <2>3, <2>4, <2>5
<1>4. CASE w = v /\ (h \in HooksOf(route, role) => DepsOf(h, route, role)' = DepsOf(h, route, role))
  BY <1>1, <1>4 DEF Step
<1>5. ASSUME h \in HooksOf(route, role), DepsOf(h, route, role)' = DepsOf(h, route, role),
             NEW r \in v.requests, r.reply = None, NEW x \in Values \union {Failed}, w = Answered(v, r, x)
      PROVE  Step(v, w) /\ ViewOK(w) /\ w.key = DepsOf(h, route, role)'
  <2>1. Step(v, w)
    BY <1>1, <1>5 DEF Step
  <2>2. ViewOK(w)
    BY <1>1, <1>5, AnsweredOK
  <2>3. w.key = v.key
    BY <1>1, <1>5 DEF Answered, ViewOK, View
  <2> QED
    BY <1>1, <1>5, <2>1, <2>2, <2>3
<1>6. ASSUME h \in HooksOf(route, role), DepsOf(h, route, role)' = DepsOf(h, route, role),
             NEW r \in v.requests, r.reply # None, w = Delivered(v, r)
      PROVE  Step(v, w) /\ ViewOK(w) /\ w.key = DepsOf(h, route, role)'
  <2>1. Step(v, w)
    BY <1>1, <1>6 DEF Step
  <2>2. ViewOK(w)
    BY <1>1, <1>6, DeliveredOK
  <2>3. w.key = v.key
    BY <1>6 DEF Delivered, State
  <2> QED
    BY <1>1, <1>6, <2>1, <2>2, <2>3
<1> QED
  BY <1>2, <1>3, <1>4, <1>5, <1>6 DEF Moved

LEMMA FootViews ==
  ASSUME ConsoleInv, Steady, Looks, PageOK(page', route.page)
  PROVE  ViewsOK' /\ HooksNext
<1>1. UNCHANGED <<route, role>>
  BY DEF Steady
<1>2. \A h \in Hooks :
        /\ Step(views[h], views'[h])
        /\ views'[h] # None <=> h \in HooksOf(route, role)
        /\ views'[h] # None => ViewOK(views'[h]) /\ views'[h].key = DepsOf(h, route, role)'
  BY <1>1, MovedIsStep DEF Looks
<1>3. HooksNext
  BY <1>2 DEF HooksNext, Looks
<1>4. HooksInv'
  BY <1>2 DEF HooksInv, Looks
<1> QED
  BY <1>1, <1>2, <1>3, <1>4 DEF ViewsOK

LEMMA FootCalls ==
  ASSUME ConsoleInv, Steady, NEW sent, NEW done, Traffic(sent, done)
  PROVE  CallsOK'
<1> SUFFICES ASSUME NEW c \in calls'
             PROVE  CallOK(c) /\ Placed(c)' /\ (c.reply = "done" => c.id \in ledger'.carried)
  BY DEF CallsOK
<1>1. Placed(c)' <=> Placed(c)
  BY DEF Placed, Steady
<1>2. CASE c \in calls
  BY <1>1, <1>2 DEF ConsoleInv, CallsOK, Steady
<1>3. CASE c \in sent
  BY <1>1, <1>3, DoneIsAReply DEF Traffic
<1> QED
  BY <1>2, <1>3 DEF Traffic

\* An act begins when there is none, and while one goes on the page is busy.
LEMMA FootActs ==
  ASSUME ConsoleInv, Steady, NEW sent, NEW done, Traffic(sent, done), Renders(sent, done)
  PROVE  ActsOK'
<1>1. ActsOf(calls') = ActsOf(calls \ done) \union ActsOf(sent)
  BY DEF ActsOf, Traffic
<1>2. ActsOf(calls \ done) \subseteq ActsOf(calls)
  BY DEF ActsOf
<1>3. /\ \A c, d \in ActsOf(calls) : c = d
      /\ ActsOf(calls) # {} => page.busy /\ (On("monitoring") => page.due = "nothing")
  BY DEF ConsoleInv, ActsOK
<1>4. On("monitoring")' <=> On("monitoring")
  BY DEF On, Steady
<1>5. CASE ActsOf(sent) # {}
  <2>1. /\ ~page.busy /\ page'.busy /\ (On("monitoring") => page'.due = "nothing")
        /\ \A c, d \in ActsOf(sent) : c = d
    BY <1>5 DEF Renders
  <2>2. ActsOf(calls') = ActsOf(sent)
    BY <1>1, <1>2, <1>3, <2>1
  <2> QED
    BY <1>4, <2>1, <2>2 DEF ActsOK
<1>6. CASE ActsOf(sent) = {}
  <2>1. ActsOf(calls') = ActsOf(calls \ done)
    BY <1>1, <1>6
  <2>2. ActsOf(calls') # {} =>
          /\ page.busy => page'.busy
          /\ On("monitoring") /\ page.due = "nothing" => page'.due = "nothing"
    BY <2>1 DEF Renders
  <2> QED
    BY <1>2, <1>3, <1>4, <2>1, <2>2 DEF ActsOK
<1> QED
  BY <1>5, <1>6

LEMMA FootSecrets ==
  ASSUME ConsoleInv, Steady, NEW sent, NEW done, Renders(sent, done)
  PROVE  SecretsOK'
BY DEF ConsoleInv, SecretsOK, Steady, Renders, On

LEMMA FootNotice ==
  ASSUME ConsoleInv, Steady, NEW sent, NEW done, Renders(sent, done)
  PROVE  NoticeMeansDone'
<1>1. \A c \in calls : c.reply = "done" => c.id \in ledger.carried
  BY DEF ConsoleInv, CallsOK
<1>2. page.message # None => page.message \in ledger.carried
  BY DEF ConsoleInv, NoticeMeansDone
<1> QED
  BY <1>1, <1>2 DEF Renders, Steady, NoticeMeansDone

\* A hook asks again when its dependencies change, and when a call that changed
\* its table is done; otherwise rows, questions and what is awaited are as before.
LEMMA FootOwn ==
  ASSUME ConsoleInv, Steady, Looks, NEW sent, NEW done, Traffic(sent, done), Renders(sent, done)
  PROVE  OwnOK'
<1> SUFFICES ASSUME NEW h \in Hooks, views'[h] # None, Trusted(h)', ~Awaited(h)'
             PROVE  Accurate(views'[h], AnswerOf(h, views[h].key)')
  BY DEF OwnOK
<1> DEFINE v == views[h]
           w == views'[h]
<1>1. UNCHANGED <<route, role, db>> /\ PageOK(page', route.page) /\ ledger'.foreign = ledger.foreign
  BY DEF Steady, Renders
<1>2. /\ w # None <=> h \in HooksOf(route, role)
      /\ Moved(h)
  BY <1>1, MovedIsStep DEF Looks
<1>3. v # None /\ ViewOK(v) /\ v.key = DepsOf(h, route, role)
  BY <1>2 DEF ConsoleInv, ViewsOK, HooksInv
<1>4. CASE Asking(h)
  BY <1>3, <1>4, AskedAccurate DEF Asking
<1>5. CASE ~Asking(h)
  <2>1. DepsOf(h, route, role)' = DepsOf(h, route, role)
    BY <1>2, <1>5 DEF Moved
  <2>2. w.key = v.key
    <3>1. w.key = DepsOf(h, route, role)'
      BY <1>1, <1>2, MovedIsStep
    <3> QED
      BY <1>3, <2>1, <3>1
  <2>3. Trusted(h)
    <3>1. TablesOf(h)' = TablesOf(h)
      BY <1>1 DEF TablesOf
    <3>2. CaughtBy(h, w.key) = Failed /\ h # "settings" /\ TablesOf(h)' \cap ledger'.foreign = {}
      BY DEF Trusted, CaughtBy
    <3> QED
      BY <1>1, <2>2, <3>1, <3>2 DEF Trusted
  <2>4. ~Awaited(h)
    <3>1. ASSUME NEW c \in calls, c.live, c.op \notin ShellOps, c.reply = "done", c.to # None,
                 c.kind \in TablesOf(h)
          PROVE  FALSE
      <4>1. c.kind \in TablesOf(h)'
        BY <1>1, <3>1 DEF TablesOf
      <4>2. c \notin calls'
        BY <3>1, <4>1 DEF Awaited
      <4>3. c \in done
        BY <4>2 DEF Traffic
      <4>4. h = "device_jobs" /\ On("device") /\ page'.timers > 0
        BY <1>2, <1>5, <2>3, <3>1, <4>3 DEF Traffic, Trusted
      <4> QED
        BY <1>1, <4>4 DEF Awaited, On
    <3>2. ~(h = "device_jobs" /\ On("device") /\ page.timers > 0)
      BY <1>1, <1>5 DEF Awaited, On, Renders
    <3> QED
      BY <3>1, <3>2 DEF Awaited
  <2> DEFINE a == AnswerOf(h, v.key)
  <2>5. Accurate(v, a)
    BY <1>3, <2>3, <2>4 DEF ConsoleInv, OwnOK
  <2>6. AnswerOf(h, views[h].key)' = a
    <3>1. \A k : AnswerOf(h, k)' = AnswerOf(h, k)
      BY <1>1, SameAnswer
    <3>2. AnswerOf(h, views[h].key)' = AnswerOf(h, views'[h].key)
      BY <1>1 DEF AnswerOf, JobsAnswer, DetailAnswer, VersionsAnswer, EventsAnswer, TopologyAnswer, TrendAnswer
    <3> QED
      BY <2>2, <3>2
  <2>7. Accurate(w, a)
    <3>1. CASE w = v
      BY <2>5, <3>1
    <3>2. ASSUME NEW r \in v.requests, r.reply = None,
                 NEW x \in {AnswerOf(h, r.key), CaughtBy(h, r.key)}, w = Answered(v, r, x)
          PROVE  Accurate(w, a)
      <4>1. r.newest => r.key = v.key
        BY <1>3 DEF ViewOK, NewestOf
      <4>2. CaughtBy(h, v.key) = Failed
        BY <2>3 DEF Trusted
      <4>3. x = a \/ x = Failed \/ ~r.newest
        BY <3>2, <4>1, <4>2
      <4> HIDE DEF a
      <4> QED
        BY <1>3, <2>5, <3>2, <4>3, AnsweredAccurate
    <3>3. ASSUME NEW r \in v.requests, r.reply # None, w = Delivered(v, r)
          PROVE  Accurate(w, a)
      BY <1>3, <2>5, <3>3, DeliveredAccurate
    <3> QED
      BY <1>2, <1>5, <3>1, <3>2, <3>3 DEF Moved
  <2> QED
    BY <2>6, <2>7
<1> QED
  BY <1>4, <1>5

\* A step with such a footprint keeps the invariant.
LEMMA FootKeeps ==
  ASSUME ConsoleInv, NEW sent, NEW done, Foot(sent, done)
  PROVE  ConsoleInv' /\ HooksNext
<1>1. PageOK(page', route.page) /\ PageOK(page', route'.page)
  BY DEF Foot, Renders, Steady
<1>2. WorldOK' /\ ViewsOK' /\ HooksNext /\ CallsOK' /\ ActsOK' /\ SecretsOK' /\ NoticeMeansDone' /\ OwnOK'
  BY <1>1, FootWorld, FootViews, FootCalls, FootActs, FootSecrets, FootNotice, FootOwn DEF Foot
<1> QED
  BY <1>1, <1>2 DEF ConsoleInv

-----------------------------------------------------------------------------
(***************************************************************************)
(* What the handlers of all pages have in common.                          *)
(***************************************************************************)

\* A step that leaves route, role, server and shell alone.
LEMMA SteadyStep ==
  ASSUME ConsoleInv, UNCHANGED <<route, role, db, shell>>, Input \/ UNCHANGED ledger
  PROVE  Steady
<1>1. LedgerOK(ledger) /\ ShellOK(shell)
  BY DEF ConsoleInv, WorldOK
<1>2. /\ LedgerOK(ledger') /\ ledger'.tour = ledger.tour
      /\ ledger'.foreign = ledger.foreign /\ ledger'.carried = ledger.carried
  BY <1>1 DEF Input, LedgerOK
<1> QED
  BY <1>1, <1>2 DEF Steady

\* A step that moves no hook.
LEMMA LooksTheSame ==
  ASSUME ConsoleInv, UNCHANGED <<route, role, views>>,
         route.page \in AskingPages => page'.asks = page.asks
  PROVE  Looks
<1>1. \A h \in HooksOf(route, role) : DepsOf(h, route, role)' = DepsOf(h, route, role)
  BY SameDependency
<1> QED
  BY <1>1 DEF ConsoleInv, ViewsOK, HooksInv, Looks, Moved

\* A step that asks again for some hooks, for the same question.
LEMMA LooksReloaded ==
  ASSUME ConsoleInv, UNCHANGED <<route, role>>,
         route.page \in AskingPages => page'.asks = page.asks,
         NEW hooks, hooks \subseteq HooksOf(route, role), Reload(hooks)
  PROVE  Looks /\ \A h \in hooks : Asking(h)
<1>1. \A h \in HooksOf(route, role) : DepsOf(h, route, role)' = DepsOf(h, route, role)
  BY SameDependency
<1>2. HooksOf(route, role) \subseteq Hooks
  BY MountedAreHooks
<1>3. \A h \in HooksOf(route, role) : views[h].key = DepsOf(h, route, role)
  BY <1>2 DEF ConsoleInv, ViewsOK
<1>4. /\ views' = [h \in Hooks |-> views'[h]]
      /\ \A h \in Hooks : views'[h] = IF h \in hooks THEN Reloaded(views[h]) ELSE views[h]
  BY DEF Reload
<1>5. \A h \in hooks : Asking(h)
  BY <1>1, <1>2, <1>3, <1>4 DEF Asking, Reloaded
<1>6. \A h \in Hooks \ hooks : Moved(h)
  BY <1>1, <1>4 DEF Moved
<1> QED
  BY <1>4, <1>5, <1>6 DEF Looks, Moved

\* A page on which nothing changes that an act, a hook or a timer depends on.
Kept(p) ==
  /\ PageOK(p, route.page)
  /\ p.busy = page.busy /\ p.message \in {None, page.message}
  /\ On("device") => p.timers = page.timers
  /\ On("monitoring") => p.due = page.due
  /\ On("configurations") /\ ConfigurationsPart(route.id, role) # "versions" =>
       p.diff = page.diff /\ p.content = page.content
  /\ route.page \in AskingPages => p.asks = page.asks

LEMMA PageIsOK == ASSUME ConsoleInv PROVE PageOK(page, route.page) /\ Kept(page)
BY DEF ConsoleInv, Kept

LEMMA NothingMoves == Traffic({}, {}) <=> calls' = calls
BY DEF Traffic

\* A page with nothing that matters changed renders as a step may.
LEMMA KeptRenders ==
  ASSUME ConsoleInv, Kept(page'), NEW sent, NEW done, ActsOf(sent) = {}
  PROVE  Renders(sent, done)
<1>1. On("device") /\ page.timers > 0 => page'.timers > 0
  BY DEF Kept
<1>2. On("monitoring") /\ page.due = "nothing" => page'.due = "nothing"
  BY DEF Kept
<1> QED
  BY <1>1, <1>2 DEF Kept, Renders

\* Something on the page that no one else sees.
LEMMA LocalFoot ==
  ASSUME ConsoleInv, NEW p, Kept(p), Local(p)
  PROVE  Foot({}, {})
<1>1. /\ UNCHANGED <<route, role, calls, db, shell, views>> /\ Input /\ page' = p
  BY DEF Local
<1>2. Steady
  BY <1>1, SteadyStep
<1>3. Looks
  BY <1>1, LooksTheSame DEF Kept
<1>4. Traffic({}, {})
  BY <1>1, NothingMoves
<1>5. Renders({}, {})
  BY <1>1, KeptRenders DEF ActsOf
<1> QED
  BY <1>2, <1>3, <1>4, <1>5 DEF Foot

\* A call as it is sent.
Sendable(c) == CallOK(c) /\ Placed(c) /\ c.live /\ c.reply = None

\* A call of the operation, table and content that the page may send.
LEMMA CallIsSendable ==
  ASSUME NEW op, NEW kind, NEW i, NEW content \in Contents \union {None}, NEW creates, NEW roles,
         op \notin {"compare", "view"},
         \A c : c.op = op /\ c.kind = kind /\ c.to = content => Belongs(c, route.page)
  PROVE  /\ Sendable(Call(op, kind, i, content, creates, roles))
         /\ Call(op, kind, i, content, creates, roles).op = op
<1> DEFINE c == Call(op, kind, i, content, creates, roles)
<1>1. /\ {"op", "kind", "row", "to", "creates", "allowed", "reply", "live", "id"} \subseteq DOMAIN c
      /\ c.op = op /\ c.kind = kind /\ c.to = content /\ c.reply = None /\ c.live = TRUE
  BY DEF Call
<1> HIDE DEF c
<1>2. CallOK(c) /\ Placed(c)
  BY <1>1 DEF CallOK, Placed
<1> QED
  BY <1>1, <1>2 DEF Sendable, c

LEMMA OneCallSent ==
  ASSUME ConsoleInv, NEW c, Sendable(c), Send(c)
  PROVE  Traffic({c}, {})
BY DEF Traffic, Send, Sendable

\* A request for which the page does not get busy.
LEMMA SendFoot ==
  ASSUME ConsoleInv, NEW c, Sendable(c), c.op \notin ActOps, Send(c), Kept(page'),
         Steady, UNCHANGED views
  PROVE  Foot({c}, {})
<1>1. Looks
  BY LooksTheSame DEF Kept, Steady
<1>2. Traffic({c}, {})
  BY OneCallSent
<1>3. Renders({c}, {})
  BY KeptRenders DEF ActsOf
<1> QED
  BY <1>1, <1>2, <1>3 DEF Foot

\* act(): the page is busy with it.
LEMMA ActFoot ==
  ASSUME ConsoleInv, NEW c, Sendable(c), Act(c), ~page.busy
  PROVE  Foot({c}, {})
<1>1. /\ page' = [page EXCEPT !.busy = TRUE, !.error = FALSE, !.message = None]
      /\ Input /\ Send(c) /\ UNCHANGED <<route, role, db, shell, views>>
  BY DEF Act
<1>2. PageOK(page, route.page)
  BY PageIsOK
<1>3. PageOK(page', route.page) /\ page'.busy /\ page'.message = None
  BY <1>1, <1>2 DEF PageOK
<1>4. /\ On("configurations") => page'.diff = page.diff /\ page'.content = page.content
      /\ On("device") => page'.timers = page.timers
      /\ On("monitoring") => page'.due = page.due
      /\ route.page \in AskingPages => page'.asks = page.asks
  BY <1>1, <1>2 DEF PageOK, On
<1>5. On("monitoring") => page.due = "nothing"
  BY <1>2 DEF PageOK, On
<1>6. Steady
  BY <1>1, SteadyStep
<1>7. Looks
  BY <1>1, <1>4, LooksTheSame
<1>8. Traffic({c}, {})
  BY <1>1, OneCallSent
<1>9. Renders({c}, {})
  BY <1>3, <1>4, <1>5 DEF Renders, ActsOf
<1> QED
  BY <1>6, <1>7, <1>8, <1>9 DEF Foot

\* The last act there is, and pages that have none.
LEMMA LastAct ==
  ASSUME ConsoleInv, NEW c \in calls, c.live, c.op \in ActOps
  PROVE  ActsOf(calls \ {c}) = {}
BY DEF ConsoleInv, ActsOK, ActsOf

\* The pages that have acts.
LEMMA ActsHavePages ==
  ASSUME ConsoleInv, NEW c \in ActsOf(calls)
  PROVE  \/ route.page \in {"schedules", "backups", "device", "monitoring"}
         \/ On("configurations") /\ ConfigurationsPart(route.id, role) = "versions"
BY DEF ConsoleInv, CallsOK, Placed, Belongs, ActsOf, ActOps, ShellOps, On

\* A handler that goes on after its last request is done.
LEMMA DoneRenders ==
  ASSUME ConsoleInv, NEW c \in calls, ActsOf(calls \ {c}) = {}, PageOK(page', route.page),
         page'.message \in {None, page.message} \/ (c.reply = "done" /\ page'.message = c.id),
         On("configurations") /\ ConfigurationsPart(route.id, role) # "versions" =>
           page'.diff = page.diff /\ page'.content = page.content,
         On("device") /\ page.timers > 0 => page'.timers > 0
  PROVE  Renders({}, {c})
<1>1. ActsOf({}) = {}
  BY DEF ActsOf
<1> QED
  BY <1>1 DEF Renders

LEMMA RepliesAre == ASSUME ConsoleInv, NEW c \in calls, c.reply # None, c.reply # Failed PROVE c.reply = "done"
BY DEF ConsoleInv, CallsOK, CallOK

\* What an answered call changed is shown by the hooks that ask again.
LEMMA DoneTraffic ==
  ASSUME ConsoleInv, NEW c \in calls, Done(c),
         c.reply # Failed => \A h \in HooksOf(route, role) \ {"settings"} :
           c.to # None /\ c.kind \in TablesOf(h) =>
             Asking(h) \/ (h = "device_jobs" /\ On("device") /\ page'.timers > 0)
  PROVE  Traffic({}, {c})
<1>1. calls' = (calls \ {c}) \union {}
  BY DEF Done
<1>2. c.reply = "done" => c.reply # Failed
  BY DoneIsAReply
<1> QED
  BY <1>1, <1>2 DEF Traffic

\* The tables that the hooks of a page show.
LEMMA Showing ==
  ASSUME NEW h \in HooksOf(route, role)
  PROVE  /\ On("schedules") /\ "schedules" \in TablesOf(h) => h = "schedules"
         /\ On("backups") /\ "jobs" \in TablesOf(h) => h = "jobs"
         /\ On("devices") => h = "devices" /\ "jobs" \notin TablesOf(h)
         /\ On("device") /\ "jobs" \in TablesOf(h) => h = "device_jobs"
         /\ On("findings") => h = "findings"
         /\ On("alerts") => h = "alerts"
         /\ On("policies") => h = "policies"
         /\ On("settings") => h = "settings"
BY DEF HooksOf, TablesOf, On, SchedulesHooks, BackupsHooks, DevicesHooks, DetailHooks

-----------------------------------------------------------------------------
(***************************************************************************)
(* The pages, one by one.                                                  *)
(***************************************************************************)

Footed == \E sent, done : Foot(sent, done)

\* The fields that only the page's own tables, dialogs and boxes look at.
Cosmetic == {"at", "size", "filter", "search", "facet", "selected", "expanded", "left", "right",
             "adding", "json", "error"}

Only(p) == DOMAIN p = DOMAIN page /\ \A f \in DOMAIN page \ Cosmetic : p[f] = page[f]

\* Such a field does not matter to acts, hooks and messages.
LEMMA CosmeticIsKept == ASSUME ConsoleInv, NEW p, Only(p) PROVE Kept(p)
<1>1. PageOK(page, route.page)
  BY PageIsOK
<1>2. \A f \in {"busy", "message", "form", "timers", "diff", "content", "due", "asks"} :
        f \in DOMAIN page => f \in DOMAIN p /\ p[f] = page[f]
  BY DEF Only, Cosmetic
<1>3. "error" \in DOMAIN page => "error" \in DOMAIN p
  BY DEF Only
<1>4. PageOK(p, route.page)
  BY <1>1, <1>2, <1>3 DEF PageOK
<1> QED
  BY <1>1, <1>2, <1>4 DEF Kept, PageOK, On

LEMMA CosmeticFoot == ASSUME ConsoleInv, NEW p, Only(p), Local(p) PROVE Footed
BY CosmeticIsKept, LocalFoot DEF Footed

LEMMA OnlyCosmetic ==
  \A x, y, z :
    /\ Only([page EXCEPT !.at = x]) /\ Only([page EXCEPT !.size = x, !.at = y])
    /\ Only([page EXCEPT !.filter = x]) /\ Only([page EXCEPT !.filter = x, !.at = y])
    /\ Only([page EXCEPT !.search = x]) /\ Only([page EXCEPT !.search = x, !.at = y])
    /\ Only([page EXCEPT !.facet = x]) /\ Only([page EXCEPT !.search = x, !.facet = y, !.at = z])
    /\ Only([page EXCEPT !.selected = x]) /\ Only([page EXCEPT !.expanded = x])
    /\ Only([page EXCEPT !.left = x]) /\ Only([page EXCEPT !.right = x])
    /\ Only([page EXCEPT !.adding = x, !.json = y]) /\ Only([page EXCEPT !.json = x])
    /\ Only([page EXCEPT !.adding = x, !.selected = y]) /\ Only([page EXCEPT !.error = x])
<1> SUFFICES ASSUME NEW x, NEW y, NEW z
             PROVE  /\ Only([page EXCEPT !.at = x]) /\ Only([page EXCEPT !.size = x, !.at = y])
                    /\ Only([page EXCEPT !.filter = x]) /\ Only([page EXCEPT !.filter = x, !.at = y])
                    /\ Only([page EXCEPT !.search = x]) /\ Only([page EXCEPT !.search = x, !.at = y])
                    /\ Only([page EXCEPT !.facet = x]) /\ Only([page EXCEPT !.search = x, !.facet = y, !.at = z])
                    /\ Only([page EXCEPT !.selected = x]) /\ Only([page EXCEPT !.expanded = x])
                    /\ Only([page EXCEPT !.left = x]) /\ Only([page EXCEPT !.right = x])
                    /\ Only([page EXCEPT !.adding = x, !.json = y]) /\ Only([page EXCEPT !.json = x])
                    /\ Only([page EXCEPT !.adding = x, !.selected = y]) /\ Only([page EXCEPT !.error = x])
  OBVIOUS
<1>1. Only([page EXCEPT !.at = x])
  BY DEF Only, Cosmetic
<1>2. Only([page EXCEPT !.size = x, !.at = y])
  BY DEF Only, Cosmetic
<1>3. Only([page EXCEPT !.filter = x])
  BY DEF Only, Cosmetic
<1>4. Only([page EXCEPT !.filter = x, !.at = y])
  BY DEF Only, Cosmetic
<1>5. Only([page EXCEPT !.search = x])
  BY DEF Only, Cosmetic
<1>6. Only([page EXCEPT !.search = x, !.at = y])
  BY DEF Only, Cosmetic
<1>7. Only([page EXCEPT !.facet = x])
  BY DEF Only, Cosmetic
<1>8. Only([page EXCEPT !.search = x, !.facet = y, !.at = z])
  BY DEF Only, Cosmetic
<1>9. Only([page EXCEPT !.selected = x])
  BY DEF Only, Cosmetic
<1>10. Only([page EXCEPT !.expanded = x])
  BY DEF Only, Cosmetic
<1>11. Only([page EXCEPT !.left = x])
  BY DEF Only, Cosmetic
<1>12. Only([page EXCEPT !.right = x])
  BY DEF Only, Cosmetic
<1>13. Only([page EXCEPT !.adding = x, !.json = y])
  BY DEF Only, Cosmetic
<1>14. Only([page EXCEPT !.json = x])
  BY DEF Only, Cosmetic
<1>15. Only([page EXCEPT !.adding = x, !.selected = y])
  BY DEF Only, Cosmetic
<1>16. Only([page EXCEPT !.error = x])
  BY DEF Only, Cosmetic
<1> QED
  BY <1>1, <1>2, <1>3, <1>4, <1>5, <1>6, <1>7, <1>8, <1>9, <1>10, <1>11, <1>12, <1>13, <1>14, <1>15, <1>16

LEMMA TurnFoot == ASSUME ConsoleInv, NEW rows, Turn(rows) PROVE Footed
BY CosmeticFoot, OnlyCosmetic DEF Turn

LEMMA DismissFoot == ASSUME ConsoleInv, Dismiss PROVE Footed
BY CosmeticFoot, OnlyCosmetic DEF Dismiss

\* A view that is there shows rows of the server.
LEMMA ShownContent ==
  ASSUME ConsoleInv, NEW h \in HooksOf(route, role), views[h].data # None, NEW i \in Ids
  PROVE  ContentOf(h, i) \in Contents
<1>1. h \in Hooks
  BY MountedAreHooks
<1>2. ViewOK(views[h])
  BY <1>1 DEF ConsoleInv, ViewsOK, HooksInv
<1>3. views[h].data \in Data
  BY <1>2 DEF ViewOK, View
<1>4. views[h].data.value \in [Ids -> Contents]
  BY <1>3, AnswersAreRows DEF Data
<1> QED
  BY <1>4 DEF ContentOf

\* A row that a table shows is one the server may have.
LEMMA RowShown ==
  ASSUME ConsoleInv, NEW h \in HooksOf(route, role), NEW i \in RowsOf(h)
  PROVE  i \in Ids /\ ContentOf(h, i) \in Contents
<1>1. i \in Ids /\ views[h].data # None
  BY DEF RowsOf
<1> QED
  BY <1>1, ShownContent

-----------------------------------------------------------------------------
LEMMA ScheduleRow ==
  ASSUME ConsoleInv, On("schedules"),
         NEW i \in SchedulesOffered.run \union SchedulesOffered.edit
                     \union SchedulesOffered.toggle \union SchedulesOffered.remove
  PROVE  /\ i \in Ids /\ ContentOf("schedules", i) \in Contents
         /\ i \notin SchedulesOffered.edit => ~page.busy
<1>1. i \in RowsOf("schedules")
  BY DEF SchedulesOffered, Shown, SchedulesFiltered
<1>2. "schedules" \in HooksOf(route, role)
  BY DEF On, HooksOf, SchedulesHooks
<1>3. i \in SchedulesOffered.run \union SchedulesOffered.toggle \union SchedulesOffered.remove => ~page.busy
  BY DEF SchedulesOffered
<1> QED
  BY <1>1, <1>2, <1>3, RowShown

LEMMA ScheduleCall ==
  ASSUME On("schedules"), NEW op \in {"schedule", "saveSchedule"}, NEW i,
         NEW content \in Contents \union {None}, NEW creates, NEW roles
  PROVE  /\ Sendable(Call(op, "schedules", i, content, creates, roles))
         /\ Call(op, "schedules", i, content, creates, roles).op = op
<1>1. \A c : c.op = op /\ c.kind = "schedules" /\ c.to = content => Belongs(c, route.page)
  BY DEF Belongs, On
<1> QED
  BY <1>1, CallIsSendable

LEMMA ScheduleActFoot ==
  ASSUME ConsoleInv, On("schedules"), NEW i, NEW content \in Contents \union {None}, NEW roles,
         ~page.busy, Act(Update("schedule", "schedules", i, content, roles))
  PROVE  Footed
BY ScheduleCall, ActFoot DEF Footed, Update

\* The form of a schedule, as far as it is a form at all.
LEMMA ScheduleFormKept ==
  ASSUME ConsoleInv, On("schedules"), NEW p, DOMAIN p = DOMAIN page,
         \A f \in DOMAIN page \ {"form"} : p[f] = page[f],
         p.form = None \/ ScheduleFormOK(p.form)
  PROVE  Kept(p)
<1>1. PageOK(page, route.page) /\ route.page = "schedules"
  BY PageIsOK DEF On
<1>2. PageOK(p, route.page)
  BY <1>1 DEF PageOK, AskingPages
<1> QED
  BY <1>1, <1>2 DEF Kept, PageOK, On, AskingPages

\* Every handler of the Schedules page (SchedulesPage.tsx).
LEMMA SchedulesFoot ==
  ASSUME ConsoleInv, SchedulesUser \/ SchedulesResumed
  PROVE  Footed
<1>0. On("schedules") /\ PageOK(page, route.page) /\ route.page = "schedules"
  BY PageIsOK DEF SchedulesUser, SchedulesResumed, On
<1>a. "form" \in DOMAIN page /\ (page.form # None => ScheduleFormOK(page.form))
  BY <1>0 DEF PageOK
<1>b. {"enabled", "disabled", Gone} \subseteq Contents
  BY DEF Contents
<1>1. CASE ToggleSchedule
  BY <1>0, <1>1, <1>b, ScheduleRow, ScheduleActFoot DEF ToggleSchedule, SchedulesOffered
<1>2. CASE RemoveSchedule
  BY <1>0, <1>2, <1>b, ScheduleRow, ScheduleActFoot DEF RemoveSchedule, SchedulesOffered
<1>3. CASE RunScheduleNow
  BY <1>0, <1>3, <1>b, ScheduleRow, ScheduleActFoot DEF RunScheduleNow, SchedulesOffered
<1>4. CASE FilterSchedules
  BY <1>4, CosmeticFoot, OnlyCosmetic DEF FilterSchedules
<1>5. CASE TurnSchedules \/ Dismiss
  BY <1>5, TurnFoot, DismissFoot DEF TurnSchedules
<1>6. ASSUME NEW f, f = None \/ ScheduleFormOK(f), Local([page EXCEPT !.form = f])
      PROVE  Footed
  <2>1. Kept([page EXCEPT !.form = f])
    BY <1>0, <1>a, <1>6, ScheduleFormKept
  <2> QED
    BY <1>6, <2>1, LocalFoot DEF Footed
<1>7. CASE OpenScheduleForm
  <2>1. ScheduleFormOK(ScheduleFormFor(None))
    BY <1>b DEF ScheduleFormFor, ScheduleFormOK
  <2>2. \A i \in SchedulesOffered.edit : ScheduleFormOK(ScheduleFormFor(i))
    BY <1>0, <1>b, ScheduleRow DEF ScheduleFormFor, ScheduleFormOK
  <2> QED
    BY <1>6, <1>7, <2>1, <2>2 DEF OpenScheduleForm
<1>8. CASE FillScheduleForm
  <2>1. \A valid, enabled \in BOOLEAN \union {"enabled", "disabled"} :
          enabled \in {"enabled", "disabled"} /\ page.form # None =>
            ScheduleFormOK([page.form EXCEPT !.valid = valid, !.enabled = enabled])
    BY <1>a, <1>b DEF ScheduleFormOK
  <2> QED
    BY <1>6, <1>8, <2>1 DEF FillScheduleForm
<1>9. CASE CloseScheduleForm
  BY <1>6, <1>9 DEF CloseScheduleForm
<1>10. CASE SubmitScheduleForm
  <2>1. page.form # None /\ ScheduleFormOK(page.form)
    BY <1>10, <1>a DEF SubmitScheduleForm
  <2>2. CASE ~page.form.valid
    <3>1. Local([page EXCEPT !.form.error = TRUE])
      BY <1>10, <2>2 DEF SubmitScheduleForm
    <3>2. [page EXCEPT !.form.error = TRUE] = [page EXCEPT !.form = [page.form EXCEPT !.error = TRUE]]
      OBVIOUS
    <3>3. ScheduleFormOK([page.form EXCEPT !.error = TRUE])
      BY <2>1 DEF ScheduleFormOK
    <3> QED
      BY <1>6, <3>1, <3>2, <3>3
  <2>3. CASE page.form.valid
    <3>1. /\ Input /\ UNCHANGED <<route, role, db, shell, views>>
          /\ page' = [page EXCEPT !.form.busy = ledger.inputs, !.form.error = FALSE]
          /\ \E i, creates : Send(Call("saveSchedule", "schedules", i, page.form.enabled, creates, Admins))
      BY <1>10, <2>3 DEF SubmitScheduleForm, Update, Create
    <3>2. PICK i, creates : Send(Call("saveSchedule", "schedules", i, page.form.enabled, creates, Admins))
      BY <3>1
    <3> DEFINE c == Call("saveSchedule", "schedules", i, page.form.enabled, creates, Admins)
    <3>3. Sendable(c) /\ c.op = "saveSchedule"
      BY <1>0, <2>1, ScheduleCall DEF ScheduleFormOK
    <3>4. Kept(page')
      <4>1. /\ DOMAIN page' = DOMAIN page /\ \A f \in DOMAIN page \ {"form"} : page'[f] = page[f]
            /\ page'.form = [page.form EXCEPT !.busy = ledger.inputs, !.error = FALSE]
        BY <1>a, <3>1
      <4>2. ScheduleFormOK(page'.form)
        BY <2>1, <4>1 DEF ScheduleFormOK
      <4> QED
        BY <1>0, <4>1, <4>2, ScheduleFormKept
    <3>5. Steady
      BY <3>1, SteadyStep
    <3> HIDE DEF c
    <3>6. Send(c) /\ c.op \notin ActOps /\ UNCHANGED views
      BY <3>1, <3>2, <3>3 DEF c, ActOps
    <3> QED
      BY <3>3, <3>4, <3>5, <3>6, SendFoot DEF Footed
  <2> QED
    BY <2>2, <2>3
<1>c1. {"schedules", "scheduler"} \subseteq HooksOf(route, role)
  BY <1>0 DEF HooksOf, SchedulesHooks
<1>c2. route.page \notin AskingPages
  BY <1>0 DEF AskingPages
<1>11. ASSUME NEW c \in calls, c.live, c.reply # None, c.op \in {"schedule", "saveSchedule"}, Done(c),
              UNCHANGED <<route, role, db, shell, ledger>>,
              c.reply # Failed => Reload({"schedules", "scheduler"}),
              c.reply = Failed => UNCHANGED views
       PROVE  Steady /\ Looks /\ Traffic({}, {c})
  <2>1. Steady
    BY <1>11, SteadyStep
  <2>2. Looks /\ (c.reply # Failed => Asking("schedules"))
    BY <1>11, <1>c1, <1>c2, LooksReloaded, LooksTheSame
  <2>3. c.kind = "schedules"
    BY <1>0, <1>11 DEF ConsoleInv, CallsOK, Placed, Belongs, ShellOps
  <2>4. \A h \in HooksOf(route, role) : c.kind \in TablesOf(h) => h = "schedules"
    BY <1>0, <2>3, Showing
  <2>5. Traffic({}, {c})
    BY <1>11, <2>2, <2>4, DoneTraffic
  <2> QED
    BY <2>1, <2>2, <2>5
<1>12. CASE ScheduleActDone
  <2>1. PICK c \in Answers("schedule") : ActDone(c, {"schedules", "scheduler"})
    BY <1>12 DEF ScheduleActDone
  <2>2. c \in calls /\ c.live /\ c.reply # None /\ c.op = "schedule"
    BY DEF Answers
  <2>3. /\ Done(c) /\ UNCHANGED <<route, role, db, shell, ledger>>
        /\ c.reply # Failed => Reload({"schedules", "scheduler"})
        /\ c.reply = Failed => UNCHANGED views
        /\ page' = IF c.reply = Failed THEN [page EXCEPT !.error = TRUE, !.busy = FALSE]
                   ELSE [page EXCEPT !.message = c.id, !.busy = FALSE]
    BY <2>1 DEF ActDone
  <2>4. Steady /\ Looks /\ Traffic({}, {c})
    BY <1>11, <2>2, <2>3
  <2>5. PageOK(page', route.page)
    BY <1>0, <2>3 DEF PageOK, AskingPages
  <2>6. page'.message = page.message \/ (c.reply = "done" /\ page'.message = c.id)
    BY <1>0, <2>2, <2>3, RepliesAre DEF PageOK
  <2>7. ActsOf(calls \ {c}) = {}
    BY <2>2, LastAct DEF ActOps
  <2>8. Renders({}, {c})
    BY <1>0, <2>2, <2>5, <2>6, <2>7, DoneRenders DEF On
  <2> QED
    BY <2>4, <2>8 DEF Foot, Footed
<1>13. CASE ScheduleSaved
  <2>1. PICK c \in Answers("saveSchedule") :
          /\ Done(c) /\ UNCHANGED <<route, role, db, shell, ledger>>
          /\ c.reply # Failed => Reload({"schedules", "scheduler"})
          /\ c.reply = Failed => UNCHANGED views
          /\ page' = IF c.reply = Failed
                     THEN IF page.form # None /\ page.form.busy = c.id
                          THEN [page EXCEPT !.form.error = TRUE, !.form.busy = None] ELSE page
                     ELSE [page EXCEPT !.form = None, !.message = c.id]
    BY <1>13 DEF ScheduleSaved
  <2>2. c \in calls /\ c.live /\ c.reply # None /\ c.op = "saveSchedule"
    BY DEF Answers
  <2>3. Steady /\ Looks /\ Traffic({}, {c})
    BY <1>11, <2>1, <2>2
  <2>4. page.form # None => ScheduleFormOK([page.form EXCEPT !.error = TRUE, !.busy = None])
    BY <1>a DEF ScheduleFormOK
  <2>5. /\ DOMAIN page' = DOMAIN page
        /\ \A f \in DOMAIN page \ {"form", "message"} : page'[f] = page[f]
        /\ page'.form = None \/ ScheduleFormOK(page'.form)
    BY <1>a, <2>1, <2>4
  <2>6. PageOK(page', route.page)
    BY <1>0, <2>5 DEF PageOK, AskingPages
  <2>7. page'.message = page.message \/ (c.reply = "done" /\ page'.message = c.id)
    BY <1>0, <2>1, <2>2, RepliesAre DEF PageOK
  <2>8. page'.busy = page.busy
    BY <1>0, <2>5 DEF PageOK
  <2>9. ActsOf({}) = {}
    BY DEF ActsOf
  <2>10. Renders({}, {c})
    BY <1>0, <2>2, <2>6, <2>7, <2>8, <2>9 DEF Renders, On
  <2> QED
    BY <2>3, <2>10 DEF Foot, Footed
<1> QED
  BY <1>1, <1>2, <1>3, <1>4, <1>5, <1>7, <1>8, <1>9, <1>10, <1>12, <1>13
     DEF SchedulesUser, SchedulesResumed

-----------------------------------------------------------------------------
\* A handler that goes on with the page asked for again, or not.
LEMMA ResumedSteady ==
  ASSUME ConsoleInv, UNCHANGED <<route, role, db, shell, ledger>>,
         route.page \in AskingPages => page'.asks = page.asks,
         NEW hooks, hooks \subseteq HooksOf(route, role), UNCHANGED views \/ Reload(hooks)
  PROVE  Steady /\ Looks /\ (Reload(hooks) => \A h \in hooks : Asking(h))
<1>1. Steady
  BY SteadyStep
<1>2. CASE UNCHANGED views /\ ~Reload(hooks)
  BY <1>1, <1>2, LooksTheSame
<1>3. CASE Reload(hooks)
  BY <1>1, <1>3, LooksReloaded
<1> QED
  BY <1>2, <1>3

\* An answered call whose page is still there.
LEMMA LiveCall ==
  ASSUME ConsoleInv, NEW op, NEW c \in Answers(op)
  PROVE  /\ c \in calls /\ c.live /\ c.reply # None /\ c.op = op
         /\ CallOK(c) /\ Placed(c) /\ Belongs(c, route.page)
         /\ c.reply # Failed => c.reply = "done"
BY RepliesAre DEF Answers, ConsoleInv, CallsOK, Placed

-----------------------------------------------------------------------------
\* Every handler of the Backups page, and its polling (BackupsPage.tsx).
LEMMA BackupsFoot ==
  ASSUME ConsoleInv, BackupsUser \/ BackupsResumed \/ Poll
  PROVE  Footed
<1>0. On("backups") /\ PageOK(page, route.page) /\ route.page = "backups" /\ route.page \notin AskingPages
  BY PageIsOK DEF BackupsUser, BackupsResumed, Poll, On, AskingPages
<1>1. CASE StartBackup
  <2>1. PICK i \in Free("jobs") : Act(Create("startBackup", "jobs", i, "running", Operators))
    BY <1>1 DEF StartBackup
  <2>2. ~page.busy
    BY <1>1 DEF StartBackup, BackupsOffered
  <2>3. \A c : c.op = "startBackup" /\ c.kind = "jobs" => Belongs(c, route.page)
    BY <1>0 DEF Belongs
  <2>4. Sendable(Create("startBackup", "jobs", i, "running", Operators))
    BY <2>3, CallIsSendable DEF Create, Contents
  <2> QED
    BY <2>1, <2>2, <2>4, ActFoot DEF Footed
<1>2. CASE FilterJobs \/ BrowseJobs
  BY <1>2, CosmeticFoot, OnlyCosmetic, TurnFoot DEF FilterJobs, BrowseJobs
<1>3. CASE ChooseDevices \/ Dismiss
  BY <1>3, CosmeticFoot, OnlyCosmetic, DismissFoot DEF ChooseDevices
<1>4. {"jobs"} \subseteq HooksOf(route, role)
  BY <1>0 DEF HooksOf, BackupsHooks
<1>5. CASE BackupStarted
  <2>1. PICK c \in Answers("startBackup") :
          /\ Done(c) /\ UNCHANGED <<route, role, db, shell, ledger>>
          /\ IF c.reply = Failed
             THEN page' = [page EXCEPT !.error = TRUE, !.busy = FALSE] /\ UNCHANGED views
             ELSE page' = [page EXCEPT !.selected = {}, !.busy = FALSE] /\ Reload({"jobs"})
    BY <1>5 DEF BackupStarted
  <2>2. /\ c \in calls /\ c.live /\ c.reply # None /\ c.op = "startBackup" /\ Belongs(c, route.page)
        /\ c.reply # Failed => c.reply = "done"
    BY LiveCall
  <2>3. Steady /\ Looks /\ (c.reply # Failed => Asking("jobs"))
    BY <1>0, <1>4, <2>1, ResumedSteady
  <2>4. c.kind = "jobs"
    BY <2>2 DEF Belongs, ShellOps
  <2>5. \A h \in HooksOf(route, role) : c.kind \in TablesOf(h) => h = "jobs"
    BY <1>0, <2>4, Showing
  <2>6. Traffic({}, {c})
    BY <2>1, <2>2, <2>3, <2>5, DoneTraffic
  <2>7. PageOK(page', route.page) /\ page'.message = page.message
    BY <1>0, <2>1 DEF PageOK
  <2>8. ActsOf(calls \ {c}) = {}
    BY <2>2, LastAct DEF ActOps
  <2>9. Renders({}, {c})
    BY <1>0, <2>2, <2>7, <2>8, DoneRenders DEF On
  <2> QED
    BY <2>3, <2>6, <2>9 DEF Foot, Footed
<1>6. CASE Poll
  <2>1. /\ Reload({"jobs"}) /\ UNCHANGED <<route, role, db, shell, ledger>>
        /\ page' = page /\ UNCHANGED calls
    BY <1>6 DEF Poll
  <2>2. Steady /\ Looks
    BY <1>0, <1>4, <2>1, ResumedSteady
  <2>3. Traffic({}, {})
    BY <2>1, NothingMoves
  <2>4. Kept(page')
    BY <2>1, PageIsOK
  <2>5. Renders({}, {})
    BY <2>4, KeptRenders DEF ActsOf
  <2> QED
    BY <2>2, <2>3, <2>5 DEF Foot, Footed
<1> QED
  BY <1>1, <1>2, <1>3, <1>5, <1>6 DEF BackupsUser, BackupsResumed

-----------------------------------------------------------------------------
LEMMA DeviceCall ==
  ASSUME On("devices"), NEW op, NEW kind, NEW i, NEW content \in Contents \union {None}, NEW creates, NEW roles,
         \/ op \in {"deleteDevice", "discoverDevice", "saveDevice", "saveThenDiscover"} /\ kind = "devices"
         \/ op = "backupDevices" /\ kind = "jobs"
  PROVE  /\ Sendable(Call(op, kind, i, content, creates, roles))
         /\ Call(op, kind, i, content, creates, roles).op = op
<1>1. \A c : c.op = op /\ c.kind = kind /\ c.to = content => Belongs(c, route.page)
  BY DEF Belongs, On
<1> QED
  BY <1>1, CallIsSendable

LEMMA DiscoverySendable ==
  ASSUME On("devices"), NEW i
  PROVE  Sendable(Discovery(i)) /\ Discovery(i).op = "discoverDevice"
<1>1. "online" \in Contents \union {None}
  BY DEF Contents
<1>2. \A creates, roles : LET d == Call("discoverDevice", "devices", i, "online", creates, roles)
                         IN  Sendable(d) /\ d.op = "discoverDevice"
  BY <1>1, DeviceCall
<1> QED
  BY <1>2 DEF Discovery, Update

\* The form of a device is looked at by the Devices page and the shell alone.
LEMMA DeviceFormFoot ==
  ASSUME ConsoleInv, On("devices"), NEW p, DOMAIN p = DOMAIN page,
         \A f \in DOMAIN page \ (Cosmetic \union {"form"}) : p[f] = page[f]
  PROVE  Kept(p)
<1>1. PageOK(page, route.page) /\ route.page = "devices"
  BY PageIsOK DEF On
<1>2. PageOK(p, route.page)
  BY <1>1 DEF PageOK, AskingPages
<1> QED
  BY <1>1, <1>2 DEF Kept, PageOK, On, AskingPages, Cosmetic

\* Every handler of the Devices page but one whose page was left (DevicesPage.tsx).
LEMMA DevicesFoot ==
  ASSUME ConsoleInv, DevicesUser \/ (On("devices") /\ (DeviceActDone \/ DeviceSaved))
  PROVE  Footed
<1>0. On("devices") /\ PageOK(page, route.page) /\ route.page = "devices" /\ route.page \notin AskingPages
  BY PageIsOK DEF DevicesUser, On, AskingPages
<1>a. {"running", "online", "edited", "unknown", Gone} \subseteq Contents
  BY DEF Contents
<1>b. ActsOf(calls) = {}
  BY <1>0, ActsHavePages DEF On
<1>1. CASE RemoveDevice
  <2>1. PICK i \in DevicesOffered.remove : Act(Update("deleteDevice", "devices", i, Gone, Admins))
    BY <1>1 DEF RemoveDevice
  <2>2. ~page.busy
    BY DEF DevicesOffered
  <2> QED
    BY <1>0, <1>a, <2>1, <2>2, DeviceCall, ActFoot DEF Footed, Update
<1>2. CASE DiscoverDevice
  <2>1. PICK i \in DevicesOffered.discover : Act(Discovery(i))
    BY <1>2 DEF DiscoverDevice
  <2>2. ~page.busy
    BY DEF DevicesOffered
  <2> QED
    BY <1>0, <1>a, <2>1, <2>2, DeviceCall, ActFoot DEF Footed, Discovery, Update
<1>3. CASE BackUpDevices
  <2>1. PICK i \in Free("jobs") : Act(Create("backupDevices", "jobs", i, "running", Operators))
    BY <1>3 DEF BackUpDevices
  <2>2. ~page.busy
    BY <1>3 DEF BackUpDevices, DevicesOffered
  <2> QED
    BY <1>0, <1>a, <2>1, <2>2, DeviceCall, ActFoot DEF Footed, Create
<1>4. CASE FilterDevices
  BY <1>4, CosmeticFoot, OnlyCosmetic DEF FilterDevices
<1>5. CASE BrowseDevices \/ Dismiss
  BY <1>5, CosmeticFoot, OnlyCosmetic, TurnFoot, DismissFoot DEF BrowseDevices
<1>6. CASE UseDeviceForm
  <2>1. ASSUME NEW f, Local([page EXCEPT !.form = f])
        PROVE  Footed
    <3>1. Kept([page EXCEPT !.form = f])
      BY <1>0, DeviceFormFoot
    <3> QED
      BY <2>1, <3>1, LocalFoot DEF Footed
  <2> QED
    BY <1>6, <2>1 DEF UseDeviceForm
<1>7. CASE SubmitDeviceForm
  <2>1. /\ Input /\ UNCHANGED <<route, role, db, shell, views>>
        /\ page' = [page EXCEPT !.form = DeviceFormSent(@)]
    BY <1>7 DEF SubmitDeviceForm
  <2>2. Kept(page')
    BY <1>0, <2>1, DeviceFormFoot
  <2>3. Steady
    BY <2>1, SteadyStep
  <2>4. CASE UNCHANGED calls
    <3>1. Looks
      BY <1>0, <2>1, LooksTheSame
    <3>2. Renders({}, {})
      BY <2>2, KeptRenders DEF ActsOf
    <3> QED
      BY <2>3, <2>4, <3>1, <3>2, NothingMoves DEF Foot, Footed
  <2>5. ASSUME NEW c \in DeviceFormCalls(page.form, SaveOp(page.form)), Send(c)
        PROVE  Footed
    <3>1. SaveOp(page.form) \in {"saveDevice", "saveThenDiscover"}
      BY DEF SaveOp
    <3>2. Sendable(c) /\ c.op = SaveOp(page.form)
      <4> DEFINE op == SaveOp(page.form)
      <4>1. \E i, creates : \E content \in {"edited", "unknown"} :
              c = Call(op, "devices", i, content, creates, Admins)
        BY <2>5 DEF DeviceFormCalls, Update, Create
      <4> HIDE DEF op
      <4>2. ASSUME NEW i, NEW creates, NEW content \in {"edited", "unknown"}
            PROVE  LET d == Call(op, "devices", i, content, creates, Admins) IN Sendable(d) /\ d.op = op
        BY <1>0, <1>a, <3>1, DeviceCall DEF op
      <4>3. Sendable(c) /\ c.op = op
        BY <4>1, <4>2
      <4> QED
        BY <4>3 DEF op
    <3>3. c.op \notin ActOps
      BY <3>1, <3>2 DEF ActOps
    <3> QED
      BY <2>1, <2>2, <2>3, <2>5, <3>2, <3>3, SendFoot DEF Footed
  <2> QED
    BY <1>7, <2>4, <2>5 DEF SubmitDeviceForm
<1>8. {"devices"} \subseteq HooksOf(route, role)
  BY <1>0 DEF HooksOf, DevicesHooks
<1>9. ASSUME NEW c \in calls, c.reply # Failed => Asking("devices")
      PROVE  c.reply # Failed => \A h \in HooksOf(route, role) : Asking(h)
  BY <1>0, <1>9, Showing
<1>10. ASSUME NEW c \in calls
       PROVE ActsOf(calls \ {c}) = {}
  BY <1>b DEF ActsOf
<1>11. CASE DeviceActDone
  <2>1. PICK op \in {"deleteDevice", "discoverDevice", "backupDevices"}, c \in calls :
          /\ c \in Answers(op) /\ Done(c) /\ UNCHANGED <<route, role, db, shell, ledger>>
          /\ IF c.reply = Failed
             THEN page' = [page EXCEPT !.error = TRUE, !.busy = FALSE] /\ UNCHANGED views
             ELSE /\ page' = [page EXCEPT !.message = c.id, !.busy = FALSE,
                                !.selected = CASE op = "deleteDevice" -> @ \ {c.row}
                                               [] op = "backupDevices" -> {}
                                               [] OTHER -> @]
                  /\ Reload({"devices"})
    BY <1>11 DEF DeviceActDone, Answers
  <2>2. c \in calls /\ (c.reply # Failed => c.reply = "done")
    BY <2>1, LiveCall
  <2>3. Steady /\ Looks /\ (c.reply # Failed => Asking("devices"))
    BY <1>0, <1>8, <2>1, ResumedSteady
  <2>4. Traffic({}, {c})
    BY <1>9, <2>1, <2>2, <2>3, DoneTraffic
  <2>5. PageOK(page', route.page)
    BY <1>0, <2>1 DEF PageOK
  <2>6. page'.message = page.message \/ (c.reply = "done" /\ page'.message = c.id)
    BY <1>0, <2>1, <2>2 DEF PageOK
  <2>7. Renders({}, {c})
    BY <1>0, <1>10, <2>2, <2>5, <2>6, DoneRenders DEF On
  <2> QED
    BY <2>3, <2>4, <2>7 DEF Foot, Footed
<1>12. CASE DeviceSaved
  <2>1. PICK op \in {"saveDevice", "saveThenDiscover"}, c \in calls :
          /\ c \in Answers(op) /\ UNCHANGED <<route, role, db, shell, ledger>>
          /\ IF c.reply = Failed
             THEN page' = [page EXCEPT !.form = DeviceFormRefused(@, c)] /\ Done(c) /\ UNCHANGED views
             ELSE /\ Reload({"devices"})
                  /\ IF op = "saveDevice"
                     THEN page' = [page EXCEPT !.form = None, !.message = c.id] /\ Done(c)
                     ELSE /\ page' = [page EXCEPT !.form = None, !.message = None,
                                                  !.busy = TRUE, !.error = FALSE]
                          /\ calls' = (calls \ {c}) \union
                                        {[Discovery(c.row) EXCEPT !.id = c.id + MaxInputs]}
    BY <1>12 DEF DeviceSaved, Answers
  <2>2. c \in calls /\ (c.reply # Failed => c.reply = "done")
    BY <2>1, LiveCall
  <2>3. Steady /\ Looks /\ (c.reply # Failed => Asking("devices"))
    BY <1>0, <1>8, <2>1, ResumedSteady
  <2>4. CASE Done(c)
    <3>1. Traffic({}, {c})
      BY <1>9, <2>2, <2>3, <2>4, DoneTraffic
    <3>2. PageOK(page', route.page)
      BY <1>0, <2>1 DEF PageOK
    <3>3. page'.message \in {None, page.message} \/ (c.reply = "done" /\ page'.message = c.id)
      BY <1>0, <2>1, <2>2 DEF PageOK
    <3>4. Renders({}, {c})
      BY <1>0, <1>10, <2>2, <3>2, <3>3, DoneRenders DEF On
    <3> QED
      BY <2>3, <3>1, <3>4 DEF Foot, Footed
  <2>5. CASE /\ c.reply # Failed
             /\ page' = [page EXCEPT !.form = None, !.message = None, !.busy = TRUE, !.error = FALSE]
             /\ calls' = (calls \ {c}) \union {[Discovery(c.row) EXCEPT !.id = c.id + MaxInputs]}
    <3> DEFINE d == Discovery(c.row)
               e == [d EXCEPT !.id = c.id + MaxInputs]
    <3>1. Sendable(d) /\ d.op = "discoverDevice"
      BY <1>0, DiscoverySendable
    <3>2. /\ DOMAIN e = DOMAIN d /\ e.op = d.op /\ e.kind = d.kind /\ e.to = d.to
          /\ e.live = d.live /\ e.reply = d.reply
      BY <3>1 DEF Sendable, CallOK
    <3> HIDE DEF d
    <3>3. CallOK(e) /\ Placed(e) /\ e.reply = None /\ e.op = "discoverDevice"
      BY <3>1, <3>2 DEF Sendable, CallOK, Placed, Belongs
    <3>4. ActsOf({e}) = {}
      BY <3>3 DEF ActsOf, ActOps
    <3>5. calls' = (calls \ {c}) \union {e}
      BY <2>5 DEF d
    <3> HIDE DEF e
    <3>6. Traffic({e}, {c})
      BY <1>9, <2>2, <2>3, <2>5, <3>3, <3>5 DEF Traffic
    <3>7. PageOK(page', route.page) /\ page'.message = None
      BY <1>0, <2>5 DEF PageOK
    <3>8. Renders({e}, {c})
      BY <1>0, <1>10, <2>2, <3>4, <3>7 DEF Renders, On
    <3> QED
      BY <2>3, <3>6, <3>8 DEF Foot, Footed
  <2> QED
    BY <2>1, <2>4, <2>5
<1> QED
  BY <1>1, <1>2, <1>3, <1>4, <1>5, <1>6, <1>7, <1>11, <1>12 DEF DevicesUser

\* The discovery that follows a save whose page is gone.
LEMMA LeftFoot ==
  ASSUME ConsoleInv, DeviceSavedAfterLeaving
  PROVE  Footed
<1>1. PICK c \in calls :
        /\ c.op = "saveThenDiscover" /\ ~c.live
        /\ calls' = (calls \ {c}) \union
                      {[Discovery(c.row) EXCEPT !.id = c.id + MaxInputs, !.live = FALSE]}
        /\ UNCHANGED <<route, role, page, db, shell, ledger, views>>
  BY DEF DeviceSavedAfterLeaving
<1> DEFINE d == Discovery(c.row)
           e == [d EXCEPT !.id = c.id + MaxInputs, !.live = FALSE]
<1>2. CallOK(e) /\ Placed(e) /\ e.reply = None /\ ~e.live
  BY DEF Discovery, Update, Call, CallOK, Placed, Contents
<1> HIDE DEF e
<1>3. Steady /\ Looks
  BY <1>1, SteadyStep, LooksTheSame
<1>4. Traffic({e}, {c})
  BY <1>1, <1>2 DEF Traffic, e
<1>5. ActsOf({e}) = {}
  BY <1>2 DEF ActsOf
<1>6. Kept(page')
  BY <1>1, PageIsOK
<1>7. Renders({e}, {c})
  BY <1>5, <1>6, KeptRenders
<1> QED
  BY <1>3, <1>4, <1>7 DEF Foot, Footed

-----------------------------------------------------------------------------
\* Every handler and timer of a device's page (DeviceDetailPage of DevicesPage.tsx).
LEMMA DetailFoot ==
  ASSUME ConsoleInv, DetailUser \/ DetailResumed \/ DetailTimer
  PROVE  Footed
<1>0. On("device") /\ PageOK(page, route.page) /\ route.page = "device" /\ route.page \notin AskingPages
  BY PageIsOK DEF DetailUser, DetailResumed, DetailTimer, On, AskingPages
<1>a. "timers" \in DOMAIN page /\ page.timers \in Nat
  BY <1>0 DEF PageOK
<1>1. CASE BackUpThis
  <2>1. PICK i \in Free("jobs") : Act(Create("backupThis", "jobs", i, "running", Operators))
    BY <1>1 DEF BackUpThis
  <2>2. ~page.busy
    BY <1>1 DEF BackUpThis
  <2>3. \A c : c.op = "backupThis" /\ c.kind = "jobs" => Belongs(c, route.page)
    BY <1>0 DEF Belongs
  <2>4. Sendable(Create("backupThis", "jobs", i, "running", Operators))
    BY <2>3, CallIsSendable DEF Create, Contents
  <2> QED
    BY <2>1, <2>2, <2>4, ActFoot DEF Footed
<1>2. CASE Dismiss
  BY <1>2, DismissFoot
<1>3. CASE BackUpThisDone
  <2>1. PICK c \in Answers("backupThis") :
          /\ Done(c) /\ UNCHANGED <<route, role, db, shell, ledger, views>>
          /\ page' = IF c.reply = Failed
                     THEN [page EXCEPT !.error = TRUE, !.busy = FALSE]
                     ELSE [page EXCEPT !.timers = @ + 1, !.busy = FALSE]
    BY <1>3 DEF BackUpThisDone
  <2>2. /\ c \in calls /\ c.live /\ c.reply # None /\ c.op = "backupThis" /\ Belongs(c, route.page)
        /\ c.reply # Failed => c.reply = "done"
    BY LiveCall
  <2>3. Steady /\ Looks
    BY <1>0, <2>1, SteadyStep, LooksTheSame
  <2>4. /\ "timers" \in DOMAIN page' /\ page'.timers \in Nat
        /\ c.reply # Failed => page'.timers > 0
        /\ page.timers > 0 => page'.timers > 0
    BY <1>0, <1>a, <2>1 DEF PageOK
  <2>5. c.kind = "jobs"
    BY <2>2 DEF Belongs, ShellOps
  <2>6. \A h \in HooksOf(route, role) : c.kind \in TablesOf(h) => h = "device_jobs"
    BY <1>0, <2>5, Showing
  <2>7. Traffic({}, {c})
    BY <1>0, <2>1, <2>2, <2>4, <2>6, DoneTraffic
  <2>8. PageOK(page', route.page) /\ page'.message = page.message
    BY <1>0, <2>1, <2>4 DEF PageOK
  <2>9. ActsOf(calls \ {c}) = {}
    BY <2>2, LastAct DEF ActOps
  <2>10. Renders({}, {c})
    BY <1>0, <2>2, <2>4, <2>8, <2>9, DoneRenders DEF On
  <2> QED
    BY <2>3, <2>7, <2>10 DEF Foot, Footed
<1>4. CASE DetailTimer
  <2>1. /\ page.timers > 0 /\ page' = [page EXCEPT !.timers = @ - 1] /\ Reload({"device_jobs"})
        /\ UNCHANGED <<route, role, calls, db, shell, ledger>>
    BY <1>4 DEF DetailTimer
  <2>2. {"device_jobs"} \subseteq HooksOf(route, role)
    BY <1>0 DEF HooksOf, DetailHooks
  <2>3. Steady /\ Looks /\ Asking("device_jobs")
    BY <1>0, <2>1, <2>2, ResumedSteady
  <2>4. Traffic({}, {})
    BY <2>1, NothingMoves
  <2>5. PageOK(page', route.page) /\ page'.message = page.message /\ page'.busy = page.busy
    BY <1>0, <1>a, <2>1 DEF PageOK
  <2>6. Renders({}, {})
    BY <1>0, <2>3, <2>5 DEF Renders, ActsOf, On
  <2> QED
    BY <2>3, <2>4, <2>6 DEF Foot, Footed
<1> QED
  BY <1>1, <1>2, <1>3, <1>4 DEF DetailUser, DetailResumed

-----------------------------------------------------------------------------
\* A version is read where versions are shown.
LEMMA ReadingIsSendable ==
  ASSUME On("configurations"), ConfigurationsPart(route.id, role) = "versions",
         NEW op \in {"compare", "view"}, NEW v, NEW also
  PROVE  Sendable(Reading(op, v, also))
<1> DEFINE c == Update(op, VersionsOf(route.id), v.id, None, Operators)
           d == Reading(op, v, also)
           fields == {"op", "kind", "row", "to", "creates", "allowed", "reply", "live", "id"}
<1>1. /\ fields \subseteq DOMAIN c
      /\ c.op = op /\ c.to = None /\ c.reply = None /\ c.live = TRUE
  BY DEF Update, Call
<1>2. d = [f \in DOMAIN c \union {"shows"} |->
             CASE f = "allowed" -> c.allowed /\ v.of = route.id /\ also.of = route.id
               [] f = "shows" -> <<v, also>>
               [] OTHER -> c[f]]
  BY DEF Reading
<1> HIDE DEF c, d
<1>3. DOMAIN c \subseteq DOMAIN d /\ \A f \in DOMAIN c \ {"allowed", "shows"} : d[f] = c[f]
  BY <1>2
<1>4. /\ fields \subseteq DOMAIN d
      /\ d.op = op /\ d.to = None /\ d.reply = None /\ d.live = TRUE
  BY <1>1, <1>3
<1>5. CallOK(d) /\ Placed(d)
  BY <1>4 DEF CallOK, Placed, Belongs, On
<1>6. Sendable(d)
  BY <1>4, <1>5 DEF Sendable
<1> QED
  BY <1>6 DEF d

\* Every handler of the configuration history (ConfigurationHistoryPage.tsx).
LEMMA ConfigurationsFoot ==
  ASSUME ConsoleInv, ConfigurationsUser \/ ConfigurationsResumed
  PROVE  Footed
<1>0. /\ On("configurations") /\ PageOK(page, route.page)
      /\ route.page = "configurations" /\ route.page \notin AskingPages
  BY PageIsOK DEF ConfigurationsUser, ConfigurationsResumed, On, AskingPages
<1>a. {"diff", "content", "busy", "error", "message"} \subseteq DOMAIN page
  BY <1>0 DEF PageOK
<1>1. CASE SearchPicker
  BY <1>1, CosmeticFoot, OnlyCosmetic DEF SearchPicker
<1>2. CASE PickVersions \/ Dismiss
  BY <1>2, CosmeticFoot, OnlyCosmetic, TurnFoot, DismissFoot DEF PickVersions
<1>3. CASE ConfigurationsPart(route.id, role) = "versions" /\ Compare
  <2>1. ~page.busy /\ Act(Reading("compare", page.left, page.right))
    BY <1>3 DEF Compare, VersionsOffered
  <2> QED
    BY <1>0, <1>3, <2>1, ReadingIsSendable, ActFoot DEF Footed
<1>4. CASE ConfigurationsPart(route.id, role) = "versions" /\ ViewVersion
  <2>1. PICK v \in VersionsOffered.view : Act(Reading("view", v, v))
    BY <1>4 DEF ViewVersion
  <2>2. ~page.busy
    BY DEF VersionsOffered
  <2> QED
    BY <1>0, <1>4, <2>1, <2>2, ReadingIsSendable, ActFoot DEF Footed
<1>5. CASE ConfigurationsPart(route.id, role) = "versions" /\ ClearOutput
  <2> DEFINE p == [page EXCEPT !.diff = None, !.content = None]
  <2>1. Local(p)
    BY <1>5 DEF ClearOutput
  <2>2. PageOK(p, route.page)
    BY <1>0 DEF PageOK, AskingPages
  <2>3. Kept(p)
    BY <1>0, <1>5, <1>a, <2>2 DEF Kept, On
  <2> QED
    BY <2>1, <2>3, LocalFoot DEF Footed
<1>6. CASE Compared \/ Viewed
  <2>1. PICK op \in {"compare", "view"}, c \in calls :
          /\ c \in Answers(op) /\ Done(c) /\ UNCHANGED <<route, role, db, shell, ledger, views>>
          /\ \E diff, content :
               page' = IF c.reply = Failed THEN [page EXCEPT !.error = TRUE, !.busy = FALSE]
                       ELSE [page EXCEPT !.diff = diff, !.content = content, !.busy = FALSE]
    <3>1. CASE Compared
      <4>1. PICK c \in Answers("compare") :
              /\ Done(c)
              /\ page' = IF c.reply = Failed THEN [page EXCEPT !.error = TRUE, !.busy = FALSE]
                         ELSE [page EXCEPT !.diff = c.shows, !.content = None, !.busy = FALSE]
              /\ UNCHANGED <<route, role, db, shell, ledger, views>>
        BY <3>1 DEF Compared
      <4> QED
        BY <4>1 DEF Answers
    <3>2. CASE Viewed
      <4>1. PICK c \in Answers("view") :
              /\ Done(c)
              /\ page' = IF c.reply = Failed THEN [page EXCEPT !.error = TRUE, !.busy = FALSE]
                         ELSE [page EXCEPT !.content = c.shows, !.diff = None, !.busy = FALSE]
              /\ UNCHANGED <<route, role, db, shell, ledger, views>>
        BY <3>2 DEF Viewed
      <4>2. [page EXCEPT !.content = c.shows, !.diff = None, !.busy = FALSE]
              = [page EXCEPT !.diff = None, !.content = c.shows, !.busy = FALSE]
        OBVIOUS
      <4>3. page' = IF c.reply = Failed THEN [page EXCEPT !.error = TRUE, !.busy = FALSE]
                    ELSE [page EXCEPT !.diff = None, !.content = c.shows, !.busy = FALSE]
        BY <4>1, <4>2
      <4> QED
        BY <4>1, <4>3 DEF Answers
    <3> QED
      BY <1>6, <3>1, <3>2
  <2>2. /\ c \in calls /\ c.live /\ c.op = op /\ c.reply # None
        /\ Placed(c) /\ Belongs(c, route.page)
    BY <2>1, LiveCall
  <2>3. Steady /\ Looks
    BY <1>0, <2>1, SteadyStep, LooksTheSame
  <2>4. c.to = None /\ ConfigurationsPart(route.id, role) = "versions"
    BY <1>0, <2>1, <2>2 DEF Belongs, Placed, ShellOps
  <2>5. Traffic({}, {c})
    BY <2>1, <2>2, <2>4, DoneTraffic
  <2>6. PageOK(page', route.page) /\ page'.message = page.message
    BY <1>0, <1>a, <2>1 DEF PageOK, AskingPages
  <2>7. ActsOf(calls \ {c}) = {}
    BY <2>1, <2>2, LastAct DEF ActOps
  <2>8. Renders({}, {c})
    BY <1>0, <2>2, <2>4, <2>6, <2>7, DoneRenders DEF On
  <2> QED
    BY <2>3, <2>5, <2>8 DEF Foot, Footed
<1> QED
  BY <1>1, <1>2, <1>3, <1>4, <1>5, <1>6 DEF ConfigurationsUser, ConfigurationsResumed
-----------------------------------------------------------------------------
\* A step that leaves everything an act depends on as it is.
LEMMA KeptFoot ==
  ASSUME ConsoleInv, Steady, Looks, Kept(page'), NEW sent, NEW done, Traffic(sent, done), ActsOf(sent) = {}
  PROVE  Footed
BY KeptRenders DEF Foot, Footed

LEMMA NoActs == ActsOf({}) = {}
BY DEF ActsOf

LEMMA TriageCall ==
  ASSUME NEW kind \in {"findings", "alerts"}, On(kind), NEW i,
         NEW status \in {"acknowledged", "resolved", "suppressed"}, NEW roles
  PROVE  /\ Sendable(Update("triage", kind, i, status, roles))
         /\ Update("triage", kind, i, status, roles).op = "triage"
<1>1. \A c : c.op = "triage" /\ c.kind = kind /\ c.to = status => Belongs(c, route.page)
  BY DEF Belongs, On
<1>2. status \in Contents \union {None}
  BY DEF Contents
<1>3. \A creates : LET c == Call("triage", kind, i, status, creates, roles)
                  IN  Sendable(c) /\ c.op = "triage"
  BY <1>1, <1>2, CallIsSendable
<1> QED
  BY <1>3 DEF Update

\* Every handler of the findings and of the alerts (FindingsPage.tsx, AlertsPage.tsx).
LEMMA TriageFoot ==
  ASSUME ConsoleInv, TriageUser \/ TriageResumed
  PROVE  Footed
<1>0. /\ route.page \in {"findings", "alerts"} /\ route.page \notin AskingPages
      /\ HooksOf(route, role) = {route.page}
  BY DEF TriageUser, TriageResumed, On, AskingPages, HooksOf
<1>1. ASSUME NEW kind \in {"findings", "alerts"}, On(kind), NEW i,
             NEW status \in {"acknowledged", "resolved", "suppressed"}, NEW roles,
             Triage(kind, i, status, roles)
      PROVE  Footed
  <2> DEFINE c == Update("triage", kind, i, status, roles)
  <2>1. Sendable(c) /\ c.op \notin ActOps
    <3>1. Sendable(c) /\ c.op = "triage"
      BY <1>1, TriageCall
    <3> QED
      BY <3>1 DEF ActOps
  <2> HIDE DEF c
  <2>2. Send(c) /\ Input /\ UNCHANGED <<route, role, page, db, shell, views>>
    BY <1>1 DEF Triage, c
  <2>3. Steady /\ Kept(page')
    BY <2>2, SteadyStep, PageIsOK
  <2> QED
    BY <2>1, <2>2, <2>3, SendFoot DEF Footed
<1>2. CASE On("findings") /\ TriageFindings
  BY <1>1, <1>2 DEF TriageFindings
<1>3. CASE On("alerts") /\ TriageAlerts
  BY <1>1, <1>3 DEF TriageAlerts
<1>4. CASE FilterTriage(FindingsOffered) \/ FilterTriage(AlertsOffered)
  BY <1>4, CosmeticFoot, OnlyCosmetic DEF FilterTriage
<1>5. CASE TriageResumed
  <2>1. PICK c \in Answers("triage") :
          /\ Done(c) /\ UNCHANGED <<route, role, page, db, shell, ledger>>
          /\ IF c.reply = Failed THEN UNCHANGED views ELSE Reload({c.kind})
    BY <1>5 DEF TriageResumed, Triaged
  <2>2. c \in calls /\ c.op = "triage" /\ Belongs(c, route.page)
    BY LiveCall
  <2>3. c.kind = route.page
    BY <1>0, <2>2 DEF Belongs, ShellOps
  <2>4. Steady /\ Looks /\ (c.reply # Failed => Asking(route.page))
    BY <1>0, <2>1, <2>3, ResumedSteady
  <2>5. Traffic({}, {c})
    BY <1>0, <2>1, <2>2, <2>4, DoneTraffic
  <2>6. Kept(page')
    BY <2>1, PageIsOK
  <2> QED
    BY <2>4, <2>5, <2>6, KeptFoot, NoActs
<1> QED
  BY <1>2, <1>3, <1>4, <1>5 DEF TriageUser

-----------------------------------------------------------------------------
LEMMA PolicyCall ==
  ASSUME On("policies"), NEW i, NEW content, NEW creates, NEW roles, NEW op,
         \/ op \in {"createPolicy", "deletePolicy"} /\ content \in Contents
         \/ op = "evaluatePolicy" /\ content = None
  PROVE  /\ Sendable(Call(op, "policies", i, content, creates, roles))
         /\ Call(op, "policies", i, content, creates, roles).op = op
<1>1. \A c : c.op = op /\ c.kind = "policies" /\ c.to = content => Belongs(c, route.page)
  BY DEF Belongs, On
<1>2. content \in Contents \union {None}
  OBVIOUS
<1> QED
  BY <1>1, <1>2, CallIsSendable

\* Every handler of the Policies page (PoliciesPage.tsx).
LEMMA PoliciesFoot ==
  ASSUME ConsoleInv, PoliciesUser \/ PoliciesResumed
  PROVE  Footed
<1>0. On("policies") /\ route.page \notin AskingPages /\ HooksOf(route, role) = {"policies"}
  BY DEF PoliciesUser, PoliciesResumed, On, AskingPages, HooksOf
<1>1. CASE UsePolicyDialogs
  BY <1>1, CosmeticFoot, OnlyCosmetic DEF UsePolicyDialogs
<1>2. ASSUME NEW c, Sendable(c), c.op \in {"createPolicy", "evaluatePolicy", "deletePolicy"}, Ask(c)
      PROVE  Footed
  <2>1. Send(c) /\ Input /\ UNCHANGED <<route, role, page, db, shell, views>> /\ c.op \notin ActOps
    BY <1>2 DEF Ask, ActOps
  <2>2. Steady /\ Kept(page')
    BY <2>1, SteadyStep, PageIsOK
  <2> QED
    BY <1>2, <2>1, <2>2, SendFoot DEF Footed
<1>a. {"enabled", Gone} \subseteq Contents
  BY DEF Contents
<1>3. CASE CreatePolicy
  <2>1. PICK i \in Free("policies") : Ask(Call("createPolicy", "policies", i, "enabled", TRUE, Admins))
    BY <1>3 DEF CreatePolicy, Create
  <2>2. \A creates, roles : LET c == Call("createPolicy", "policies", i, "enabled", creates, roles)
                            IN  Sendable(c) /\ c.op = "createPolicy"
    BY <1>0, <1>a, PolicyCall
  <2> QED
    BY <1>2, <2>1, <2>2
<1>4. CASE EvaluatePolicy
  <2>1. Ask(Call("evaluatePolicy", "policies", page.selected, None, FALSE, Operators))
    BY <1>4 DEF EvaluatePolicy, Update
  <2>2. \A i, creates, roles : LET c == Call("evaluatePolicy", "policies", i, None, creates, roles)
                               IN  Sendable(c) /\ c.op = "evaluatePolicy"
    BY <1>0, PolicyCall
  <2> QED
    BY <1>2, <2>1, <2>2
<1>5. CASE DeletePolicy
  <2>1. Ask(Call("deletePolicy", "policies", page.selected, Gone, FALSE, Admins))
    BY <1>5 DEF DeletePolicy, Update
  <2>2. \A i, creates, roles : LET c == Call("deletePolicy", "policies", i, Gone, creates, roles)
                               IN  Sendable(c) /\ c.op = "deletePolicy"
    BY <1>0, <1>a, PolicyCall
  <2> QED
    BY <1>2, <2>1, <2>2
<1>6. CASE PolicyAnswered
  <2>1. PICK op \in {"createPolicy", "evaluatePolicy", "deletePolicy"}, c \in calls :
          /\ c \in Answers(op) /\ Done(c) /\ UNCHANGED <<route, role, db, shell, ledger>>
          /\ IF c.reply = Failed \/ op = "evaluatePolicy" THEN UNCHANGED <<page, views>>
             ELSE /\ page' = IF op = "createPolicy" THEN [page EXCEPT !.adding = FALSE]
                             ELSE [page EXCEPT !.selected = None]
                  /\ Reload({"policies"})
    BY <1>6 DEF PolicyAnswered, Answers
  <2>2. c \in calls /\ c.op = op /\ Belongs(c, route.page)
    BY <2>1, LiveCall
  <2>3. Only(page')
    BY <2>1 DEF Only, Cosmetic
  <2>4. Kept(page')
    BY <2>3, CosmeticIsKept
  <2>5. Steady /\ Looks /\ (c.reply # Failed /\ op # "evaluatePolicy" => Asking("policies"))
    BY <1>0, <2>1, ResumedSteady
  <2>6. op = "evaluatePolicy" => c.to = None
    BY <1>0, <2>2 DEF Belongs, ShellOps, On
  <2>7. Traffic({}, {c})
    BY <1>0, <2>1, <2>2, <2>5, <2>6, DoneTraffic
  <2> QED
    BY <2>4, <2>5, <2>7, KeptFoot, NoActs
<1> QED
  BY <1>1, <1>3, <1>4, <1>5, <1>6 DEF PoliciesUser, PoliciesResumed

-----------------------------------------------------------------------------
\* Every handler and timer of the Monitoring page (MonitoringPage.tsx).
LEMMA MonitoringFoot ==
  ASSUME ConsoleInv, MonitoringUser \/ MonitoringResumed \/ MonitoringTimer
  PROVE  Footed
<1>0. /\ On("monitoring") /\ route.page = "monitoring" /\ route.page \notin AskingPages
      /\ {"monitoring"} \subseteq HooksOf(route, role) /\ PageOK(page, route.page)
  BY PageIsOK DEF MonitoringUser, MonitoringResumed, MonitoringTimer, On, AskingPages, HooksOf
<1>a. /\ {"busy", "error", "message", "due"} \subseteq DOMAIN page
      /\ page.due # "nothing" => page.busy
  BY <1>0 DEF PageOK
<1>b. ActsOf(calls) # {} => page.busy /\ page.due = "nothing"
  BY <1>0 DEF ConsoleInv, ActsOK
<1>1. CASE FilterMonitoring
  BY <1>1, CosmeticFoot, OnlyCosmetic DEF FilterMonitoring
<1>2. CASE RunCollection
  <2> DEFINE c == AboutNothing("collect", Operators)
  <2>1. /\ Input /\ Send(c) /\ page' = [page EXCEPT !.busy = TRUE] /\ ~page.busy
        /\ UNCHANGED <<route, role, db, shell, views>>
    BY <1>2 DEF RunCollection, MonitoringOffered
  <2>2. Sendable(c)
    <3>1. \A d : d.op = "collect" /\ d.kind = "devices" /\ d.to = None => Belongs(d, route.page)
      BY <1>0 DEF Belongs
    <3> QED
      BY <3>1, CallIsSendable DEF AboutNothing
  <2> HIDE DEF c
  <2>3. Steady /\ Looks
    BY <1>0, <2>1, SteadyStep, LooksTheSame
  <2>4. Traffic({c}, {})
    BY <2>1, <2>2, OneCallSent
  <2>5. page'.busy /\ page'.due = "nothing" /\ page'.message = page.message /\ PageOK(page', route.page)
    BY <1>0, <1>a, <2>1 DEF PageOK, AskingPages
  <2>6. Renders({c}, {})
    BY <1>0, <2>1, <2>5 DEF Renders, ActsOf, On
  <2> QED
    BY <2>3, <2>4, <2>6 DEF Foot, Footed
<1>3. CASE CollectionStarted
  <2>1. PICK c \in Answers("collect") :
          /\ Done(c) /\ UNCHANGED <<route, role, db, shell, ledger, views>>
          /\ page' = [page EXCEPT !.due = IF c.reply = Failed THEN "idle" ELSE "reload"]
    BY <1>3 DEF CollectionStarted
  <2>2. c \in calls /\ c.live /\ c.op = "collect" /\ Belongs(c, route.page)
    BY LiveCall
  <2>3. c.to = None /\ c \in ActsOf(calls)
    BY <1>0, <2>2 DEF Belongs, ShellOps, ActsOf, ActOps
  <2>4. Steady /\ Looks
    BY <1>0, <2>1, SteadyStep, LooksTheSame
  <2>5. Traffic({}, {c})
    BY <2>1, <2>2, <2>3, DoneTraffic
  <2>6. PageOK(page', route.page) /\ page'.message = page.message
    BY <1>0, <1>a, <1>b, <2>1, <2>3 DEF PageOK, AskingPages
  <2>7. ActsOf(calls \ {c}) = {}
    BY <2>2, LastAct DEF ActOps
  <2>8. Renders({}, {c})
    BY <1>0, <2>2, <2>6, <2>7, DoneRenders DEF On
  <2> QED
    BY <2>4, <2>5, <2>8 DEF Foot, Footed
<1>4. CASE MonitoringTimer
  <2>1. /\ UNCHANGED <<route, role, calls, db, shell, ledger>> /\ page.due # "nothing"
        /\ \/ page' = [page EXCEPT !.due = "idle"] /\ Reload({"monitoring"})
           \/ page' = [page EXCEPT !.due = "nothing", !.busy = FALSE] /\ UNCHANGED views
    BY <1>4 DEF MonitoringTimer
  <2>2. Steady /\ Looks
    BY <1>0, <2>1, ResumedSteady
  <2>3. Traffic({}, {})
    BY <2>1, NothingMoves
  <2>4. PageOK(page', route.page) /\ page'.message = page.message
    BY <1>0, <1>a, <2>1 DEF PageOK, AskingPages
  <2>5. ActsOf(calls) = {}
    BY <1>b, <2>1
  <2>6. Renders({}, {})
    BY <1>0, <2>4, <2>5, NoActs DEF Renders, On
  <2> QED
    BY <2>2, <2>3, <2>6 DEF Foot, Footed
<1> QED
  BY <1>1, <1>2, <1>3, <1>4 DEF MonitoringUser, MonitoringResumed
-----------------------------------------------------------------------------
\* Pages that ask by their fields have no acts, no timers that reload, no secrets.
LEMMA AskingPageRenders ==
  ASSUME ConsoleInv, route.page \in AskingPages, PageOK(page', route.page),
         page'.message \in {None, page.message}, NEW sent, NEW done, ActsOf(sent) = {}
  PROVE  Renders(sent, done)
<1>1. route.page \notin {"schedules", "backups", "device", "monitoring", "configurations"}
  BY DEF AskingPages
<1>2. ActsOf(calls) = {}
  BY <1>1, ActsHavePages DEF On
<1>3. ActsOf(calls \ done) = {}
  BY <1>2 DEF ActsOf
<1> QED
  BY <1>1, <1>3 DEF Renders, On

\* A field is set that a hook of the page depends on.
LEMMA PosedDependency ==
  ASSUME UNCHANGED <<route, role>>, NEW h \in HooksOf(route, role), h \in AskingHooks,
         NEW g \in HooksOf(route, role)
  PROVE  /\ DepsOf(h, route, role)' = page'.asks
         /\ g # h => DepsOf(g, route, role)' = DepsOf(g, route, role)
<1>1. DepsOf(h, route, role)' = page'.asks
  BY DEF DepsOf, AskingHooks, DetailHooks, On
<1>2. CASE g \in AskingHooks
  <2>1. g = h
    BY <1>2, AskingHooksHavePages DEF AskingHooks
  <2> QED
    BY <1>1, <2>1
<1>3. CASE g \notin AskingHooks
  BY <1>1, <1>3 DEF DepsOf, JobsKey, DetailKey
<1> QED
  BY <1>2, <1>3

\* A field is changed that a hook depends on, and the hook asks again.
LEMMA PoseFoot ==
  ASSUME ConsoleInv, NEW h \in HooksOf(route, role), h \in AskingHooks,
         NEW k \in Questions(route.page), NEW p, Only(p), Pose(h, k, p)
  PROVE  Footed
<1>1. route.page \in AskingPages
  BY AskingHooksHavePages
<1>2. /\ page' = [p EXCEPT !.asks = k] /\ views' = [views EXCEPT ![h] = Asked(@, k)]
      /\ Input /\ UNCHANGED <<route, role, calls, db, shell>>
  BY DEF Pose, AskAgain
<1>3. Steady /\ Kept(p)
  BY <1>2, SteadyStep, CosmeticIsKept
<1>4. PageOK(p, route.page) /\ "asks" \in DOMAIN p /\ p.message \in {None, page.message} /\ "message" \in DOMAIN p
  BY <1>1, <1>3 DEF Kept, PageOK
<1>5. page'.asks = k /\ page'.message = p.message /\ PageOK(page', route.page)
  BY <1>1, <1>2, <1>4 DEF PageOK, AskingPages
<1>6. h \in Hooks /\ views = [g \in Hooks |-> views[g]]
  BY MountedAreHooks DEF ConsoleInv, ViewsOK, HooksInv
<1>7. Asking(h)
  BY <1>2, <1>5, <1>6, PosedDependency DEF Asking
<1>8. \A g \in Hooks \ {h} : Moved(g)
  BY <1>2, <1>6, PosedDependency DEF Moved
<1>9. Looks
  BY <1>2, <1>6, <1>7, <1>8 DEF Looks, Moved
<1>10. Traffic({}, {})
  BY <1>2, NothingMoves
<1>11. Renders({}, {})
  BY <1>1, <1>4, <1>5, AskingPageRenders, NoActs
<1> QED
  BY <1>3, <1>9, <1>10, <1>11 DEF Foot, Footed

LEMMA AskTheSameFoot ==
  ASSUME ConsoleInv, NEW h \in HooksOf(route, role), AskTheSame(h)
  PROVE  Footed
<1>1. Input /\ Reload({h}) /\ UNCHANGED <<route, role, page, calls, db, shell>>
  BY DEF AskTheSame
<1>2. Steady /\ Kept(page')
  BY <1>1, SteadyStep, PageIsOK
<1>3. Looks
  BY <1>1, LooksReloaded
<1>4. Traffic({}, {})
  BY <1>1, NothingMoves
<1> QED
  BY <1>2, <1>3, <1>4, KeptFoot, NoActs

\* Every handler of the Logs page (LogsPage.tsx).
LEMMA LogsFoot ==
  ASSUME ConsoleInv, LogsUser
  PROVE  Footed
<1>0. On("logs") /\ route.page = "logs" /\ "events" \in HooksOf(route, role) /\ "events" \in AskingHooks
  BY DEF LogsUser, On, HooksOf, LogsHooks, AskingHooks
<1>a. page.asks \in Questions("logs")
  BY <1>0, PageIsOK DEF PageOK, AskingPages
<1>b. Questions("logs") = {Key(tag, i) : tag \in {"all", "failed"}, i \in {0, 1}}
  BY DEF Questions
<1>c. page.asks.tag \in {"all", "failed"} /\ page.asks.id \in {0, 1}
  BY <1>a, <1>b DEF Key
<1>1. ASSUME NEW k \in Questions("logs"), Narrow(k)
      PROVE  Footed
  BY <1>0, <1>1, OnlyCosmetic, PoseFoot DEF Narrow
<1>2. CASE FilterLogs
  BY <1>1, <1>2, <1>b, <1>c DEF FilterLogs
<1>3. CASE SwitchFailures
  BY <1>1, <1>3, <1>b, <1>c DEF SwitchFailures
<1>4. CASE ResetLogs
  BY <1>1, <1>4, <1>b DEF ResetLogs
<1>5. CASE BrowseLogs
  BY <1>5, CosmeticFoot, OnlyCosmetic, TurnFoot DEF BrowseLogs
<1>6. CASE AskTheSame("events")
  BY <1>0, <1>6, AskTheSameFoot
<1> QED
  BY <1>2, <1>3, <1>4, <1>5, <1>6 DEF LogsUser

LEMMA OnlyItself == Only(page)
BY DEF Only

\* Every handler of the Topology page (TopologyPage.tsx).
LEMMA TopologyFoot ==
  ASSUME ConsoleInv, TopologyUser
  PROVE  Footed
<1>0. On("topology") /\ "topology" \in HooksOf(route, role) /\ "topology" \in AskingHooks
  BY DEF TopologyUser, On, HooksOf, AskingHooks
<1>1. CASE FilterTopology
  <2>1. PICK i \in {0} \union Ids : Pose("topology", Key("all", i), page)
    BY <1>1 DEF FilterTopology
  <2>2. Key("all", i) \in Questions(route.page)
    BY <1>0 DEF On, Questions
  <2> QED
    BY <1>0, <2>1, <2>2, OnlyItself, PoseFoot
<1>2. CASE SelectNode
  BY <1>2, CosmeticFoot, OnlyCosmetic DEF SelectNode
<1>3. CASE RetryTopology
  BY <1>0, <1>3, AskTheSameFoot DEF RetryTopology
<1> QED
  BY <1>1, <1>2, <1>3 DEF TopologyUser

\* The range of the dashboard's trend (DashboardPage.tsx).
LEMMA DashboardFoot ==
  ASSUME ConsoleInv, DashboardUser
  PROVE  Footed
<1>0. On("dashboard") /\ "trend" \in HooksOf(route, role) /\ "trend" \in AskingHooks
  BY DEF DashboardUser, On, HooksOf, AskingHooks, DashboardHooks
<1>1. PICK n \in Ids : Pose("trend", Key("days", n), page)
  BY DEF DashboardUser, ChooseRange
<1>2. Key("days", n) \in Questions(route.page)
  BY <1>0 DEF On, Questions
<1> QED
  BY <1>0, <1>1, <1>2, OnlyItself, PoseFoot

-----------------------------------------------------------------------------
\* Every handler and timer of the Compliance page (CompliancePage.tsx).
LEMMA ComplianceFoot ==
  ASSUME ConsoleInv, ComplianceUser \/ ComplianceResumed \/ ComplianceTimer
  PROVE  Footed
<1>0. /\ On("compliance") /\ route.page = "compliance" /\ route.page \in AskingPages
      /\ HooksOf(route, role) = ComplianceHooks /\ PageOK(page, route.page)
  BY PageIsOK DEF ComplianceUser, ComplianceResumed, ComplianceTimer, On, AskingPages, HooksOf
<1>a. /\ {"busy", "error", "message", "asks"} \subseteq DOMAIN page
      /\ page.asks \in Questions("compliance")
  BY <1>0 DEF PageOK
<1>1. CASE UseDetails
  BY <1>1, CosmeticFoot, OnlyCosmetic DEF UseDetails
<1>2. ASSUME NEW p, Only(p), Scan(p)
      PROVE  Footed
  <2> DEFINE call(i) == Update("scan", "policies", i, None, Operators)
             sent == {call(i) : i \in RowsOf("scanned_policies")}
  <2>1. /\ Input /\ calls' = calls \union sent /\ UNCHANGED <<route, role, db, shell, views>>
        /\ page' = [p EXCEPT !.busy = TRUE, !.notice = "running", !.scans = @ \union {ledger.inputs}]
    BY <1>2 DEF Scan
  <2>2. /\ {"busy", "error", "message", "asks"} \subseteq DOMAIN p
        /\ p.asks = page.asks /\ p.message = page.message
    BY <1>2, <1>a DEF Only, Cosmetic
  <2>3. PageOK(page', route.page) /\ page'.asks = page.asks /\ page'.message = page.message
    BY <1>0, <1>a, <2>1, <2>2 DEF PageOK
  <2>4. \A c : c.op = "scan" /\ c.kind = "policies" /\ c.to = None => Belongs(c, route.page)
    BY <1>0 DEF Belongs
  <2>5. \A i, creates, roles : LET c == Call("scan", "policies", i, None, creates, roles)
                               IN  Sendable(c) /\ c.op = "scan"
    BY <2>4, CallIsSendable
  <2>6. \A i : Sendable(call(i)) /\ call(i).op = "scan"
    BY <2>5 DEF Update
  <2> HIDE DEF call
  <2>7. \A c \in sent : Sendable(c) /\ c.op \notin ActOps
    BY <2>6 DEF ActOps
  <2> HIDE DEF sent
  <2>8. ActsOf(sent) = {} /\ Traffic(sent, {})
    BY <2>1, <2>7 DEF ActsOf, Traffic, Sendable
  <2>9. Steady /\ Looks
    BY <2>1, <2>3, SteadyStep, LooksTheSame
  <2>10. Renders(sent, {})
    BY <1>0, <2>3, <2>8, AskingPageRenders
  <2> QED
    BY <2>8, <2>9, <2>10 DEF Foot, Footed
<1>3. CASE RunScan \/ ReEvaluate
  BY <1>2, <1>3, OnlyItself, OnlyCosmetic DEF RunScan, ReEvaluate
<1>4. CASE Scanned
  <2>1. PICK id \in page.scans :
          /\ calls' = calls \ {c \in Running("scan") : c.id = id}
          /\ page' = [page EXCEPT !.busy = FALSE, !.notice = "completed",
                                  !.scans = @ \ {id}, !.timers = @ + 1]
    BY <1>4 DEF Scanned
  <2>2. Reload(ComplianceHooks) /\ UNCHANGED <<route, role, db, shell, ledger>>
    BY <1>4 DEF Scanned
  <2> DEFINE done == {c \in Running("scan") : c.id = id}
  <2>3. \A c \in done : c \in calls /\ c.live /\ c.op = "scan"
    BY DEF Running
  <2>4. \A c \in done : c.to = None
    BY <1>0, <2>3 DEF ConsoleInv, CallsOK, Placed, Belongs, ShellOps
  <2> HIDE DEF done
  <2>5. Traffic({}, done)
    BY <2>1, <2>4 DEF Traffic, done
  <2>6. PageOK(page', route.page) /\ page'.asks = page.asks /\ page'.message = page.message
    BY <1>0, <1>a, <2>1 DEF PageOK
  <2>7. Steady /\ Looks
    BY <1>0, <2>2, <2>6, ResumedSteady
  <2>8. Renders({}, done)
    BY <1>0, <2>6, AskingPageRenders, NoActs
  <2> QED
    BY <2>5, <2>7, <2>8 DEF Foot, Footed
<1>5. CASE ComplianceTimer
  <2>1. /\ page' = [page EXCEPT !.timers = @ - 1, !.notice = "nothing"]
        /\ UNCHANGED <<route, role, calls, db, shell, ledger, views>>
    BY <1>5 DEF ComplianceTimer
  <2>2. PageOK(page', route.page) /\ page'.asks = page.asks /\ page'.message = page.message
    BY <1>0, <1>a, <2>1 DEF PageOK
  <2>3. Steady /\ Looks
    BY <2>1, <2>2, SteadyStep, LooksTheSame
  <2>4. Traffic({}, {}) /\ Renders({}, {})
    BY <1>0, <2>1, <2>2, NothingMoves, AskingPageRenders, NoActs
  <2> QED
    BY <2>3, <2>4 DEF Foot, Footed
<1> QED
  BY <1>1, <1>3, <1>4, <1>5 DEF ComplianceUser, ComplianceResumed

-----------------------------------------------------------------------------
LEMMA SettingsKept ==
  ASSUME ConsoleInv, On("settings"), NEW p, DOMAIN p = DOMAIN page, p.form \in Contents \union {None},
         \A f \in DOMAIN page \ {"form", "error", "message"} : p[f] = page[f]
  PROVE  PageOK(p, route.page) /\ p.busy = page.busy
<1>1. PageOK(page, route.page) /\ route.page = "settings"
  BY PageIsOK DEF On
<1> QED
  BY <1>1 DEF PageOK, AskingPages

\* Every handler of the settings (SystemPages.tsx).
LEMMA SettingsFoot ==
  ASSUME ConsoleInv, SettingsUser \/ SettingsResumed
  PROVE  Footed
<1>0. /\ On("settings") /\ route.page = "settings" /\ route.page \notin AskingPages
      /\ HooksOf(route, role) = {"settings"} /\ PageOK(page, route.page)
  BY PageIsOK DEF SettingsUser, SettingsResumed, On, AskingPages, HooksOf
<1>a. /\ {"busy", "error", "message", "form"} \subseteq DOMAIN page
      /\ page.form \in Contents \union {None}
  BY <1>0 DEF PageOK
<1>1. CASE TypeSettings
  <2>1. PICK x \in {"stored", "edited"} : Local([page EXCEPT !.form = x])
    BY <1>1 DEF TypeSettings
  <2> DEFINE p == [page EXCEPT !.form = x]
  <2>2. /\ DOMAIN p = DOMAIN page /\ p.form = x /\ x \in Contents
        /\ \A f \in DOMAIN page \ {"form"} : p[f] = page[f]
    BY <1>a DEF Contents
  <2>3. Local(p)
    BY <2>1
  <2> HIDE DEF p
  <2>4. PageOK(p, route.page) /\ p.busy = page.busy /\ p.message = page.message
    BY <1>0, <1>a, <2>2, SettingsKept
  <2>5. Kept(p)
    BY <1>0, <2>4 DEF Kept, On
  <2> QED
    BY <2>3, <2>5, LocalFoot DEF Footed
<1>2. CASE SaveSettings
  <2>1. SettingsShown \in Contents
    <3>1. 1 \in Ids
      BY IdsAreNumbers
    <3>2. SettingsShown # None
      BY <1>2 DEF SaveSettings, SettingsOffered
    <3>3. views["settings"].data # None => ContentOf("settings", 1) \in Contents
      BY <1>0, <3>1, ShownContent
    <3> QED
      BY <1>a, <3>2, <3>3 DEF SettingsShown
  <2> DEFINE c == Call("saveSettings", "settings", 1, SettingsShown, FALSE, Admins)
  <2>2. /\ Input /\ Send(c) /\ page' = [page EXCEPT !.error = FALSE, !.message = None]
        /\ UNCHANGED <<route, role, db, shell, views>>
    BY <1>2 DEF SaveSettings, Update
  <2>3. \A d : d.op = "saveSettings" /\ d.kind = "settings" => Belongs(d, route.page)
    BY <1>0 DEF Belongs
  <2>4. \A creates : LET d == Call("saveSettings", "settings", 1, SettingsShown, creates, Admins)
                     IN  Sendable(d) /\ d.op = "saveSettings"
    BY <2>1, <2>3, CallIsSendable
  <2>5. Sendable(c) /\ c.op \notin ActOps
    BY <2>4 DEF ActOps
  <2> HIDE DEF c
  <2>6. Steady
    BY <2>2, SteadyStep
  <2>7. /\ DOMAIN page' = DOMAIN page /\ page'.form = page.form /\ page'.message = None
        /\ \A f \in DOMAIN page \ {"form", "error", "message"} : page'[f] = page[f]
    BY <1>a, <2>2
  <2>8. PageOK(page', route.page) /\ page'.busy = page.busy
    BY <1>0, <1>a, <2>7, SettingsKept
  <2>9. Kept(page')
    BY <1>0, <2>7, <2>8 DEF Kept, On
  <2> QED
    BY <2>2, <2>5, <2>6, <2>9, SendFoot DEF Footed
<1>3. CASE SettingsSaved
  <2>1. PICK c \in Answers("saveSettings") :
          /\ Done(c) /\ UNCHANGED <<route, role, db, shell, ledger, views>>
          /\ page' = IF c.reply = Failed THEN [page EXCEPT !.error = TRUE]
                     ELSE [page EXCEPT !.form = c.to, !.message = c.id]
    BY <1>3 DEF SettingsSaved
  <2>2. c \in calls /\ CallOK(c) /\ (c.reply # Failed => c.reply = "done")
    BY LiveCall
  <2>3. Steady /\ Looks
    BY <1>0, <2>1, SteadyStep, LooksTheSame
  <2>4. Traffic({}, {c})
    BY <1>0, <2>1, <2>2, DoneTraffic
  <2>5. /\ DOMAIN page' = DOMAIN page /\ page'.form \in Contents \union {None}
        /\ \A f \in DOMAIN page \ {"form", "error", "message"} : page'[f] = page[f]
        /\ page'.message = page.message \/ (c.reply = "done" /\ page'.message = c.id)
    BY <1>a, <2>1, <2>2 DEF CallOK
  <2>6. PageOK(page', route.page)
    BY <1>0, <2>5, SettingsKept
  <2>7. ActsOf(calls \ {c}) = {}
    <3>1. ActsOf(calls) = {}
      BY <1>0, ActsHavePages DEF On
    <3> QED
      BY <3>1 DEF ActsOf
  <2>8. Renders({}, {c})
    BY <1>0, <2>2, <2>5, <2>6, <2>7, DoneRenders DEF On
  <2> QED
    BY <2>3, <2>4, <2>8 DEF Foot, Footed
<1> QED
  BY <1>1, <1>2, <1>3 DEF SettingsUser, SettingsResumed
-----------------------------------------------------------------------------
(***************************************************************************)
(* The answers of the hooks.                                               *)
(***************************************************************************)

\* The requests of one hook move, and its page keeps its questions.
LEMMA OneHookMoves ==
  ASSUME ConsoleInv, UNCHANGED <<route, role>>,
         route.page \in AskingPages => page'.asks = page.asks,
         NEW h \in HooksOf(route, role), NEW w, views' = [views EXCEPT ![h] = w],
         \E r \in views[h].requests :
           \/ /\ r.reply = None
              /\ \E x \in {AnswerOf(h, r.key), CaughtBy(h, r.key)} :
                   x \in Values \union {Failed} /\ w = Answered(views[h], r, x)
           \/ r.reply # None /\ w = Delivered(views[h], r)
  PROVE  Looks
<1>1. h \in Hooks /\ views = [g \in Hooks |-> views[g]]
  BY MountedAreHooks DEF ConsoleInv, ViewsOK, HooksInv
<1>2. \A g \in HooksOf(route, role) : DepsOf(g, route, role)' = DepsOf(g, route, role)
  BY SameDependency
<1>3. views'[h] = w /\ \A g \in Hooks \ {h} : views'[g] = views[g]
  BY <1>1
<1>4. Moved(h)
  BY <1>2, <1>3 DEF Moved
<1>5. \A g \in Hooks \ {h} : Moved(g)
  BY <1>2, <1>3 DEF Moved
<1> QED
  BY <1>1, <1>4, <1>5 DEF Looks

\* The server answers a request of a hook, or fails it.
LEMMA ServeFoot ==
  ASSUME ConsoleInv, NEW h \in HooksOf(route, role), Serve(h)
  PROVE  Footed
<1>1. UNCHANGED <<route, role, page, calls, db, shell>>
  BY DEF Serve
<1>2. PICK r \in views[h].requests :
        /\ r.reply = None
        /\ \/ /\ LET answer == AnswerOf(h, r.key)
                 IN  views' = [views EXCEPT ![h] =
                       Answered(@, r, IF answer = Failed THEN CaughtBy(h, r.key) ELSE answer)]
              /\ UNCHANGED ledger
           \/ /\ views' = [views EXCEPT ![h] = Answered(@, r, CaughtBy(h, r.key))]
              /\ ledger' = [ledger EXCEPT !.faults = @ - 1]
  BY DEF Serve
<1>3. /\ AnswerOf(h, r.key) \in Values \union {Failed}
      /\ CaughtBy(h, r.key) \in Values \union {Failed}
  BY AnswerIsValue, CaughtIsValue DEF ConsoleInv, WorldOK
<1>4. \E x \in {AnswerOf(h, r.key), CaughtBy(h, r.key)} :
        views' = [views EXCEPT ![h] = Answered(views[h], r, x)]
  BY <1>2
<1>5. Looks
  BY <1>1, <1>2, <1>3, <1>4, OneHookMoves
<1>6. Steady
  <2>1. LedgerOK(ledger) /\ ShellOK(shell)
    BY DEF ConsoleInv, WorldOK
  <2>2. /\ LedgerOK(ledger') /\ ledger'.tour = ledger.tour
        /\ ledger'.foreign = ledger.foreign /\ ledger'.carried = ledger.carried
    BY <1>2, <2>1 DEF LedgerOK
  <2> QED
    BY <1>1, <2>1, <2>2 DEF Steady
<1>7. Traffic({}, {}) /\ Kept(page')
  BY <1>1, NothingMoves, PageIsOK
<1> QED
  BY <1>5, <1>6, <1>7, KeptFoot, NoActs

\* The effect on the versions chooses two of them.
LEMMA PairIsCosmetic == ASSUME NEW of, NEW rows PROVE Only(DefaultPair(page, of, rows))
<1>1. \A x, y : Only([page EXCEPT !.left = x, !.right = y])
  BY DEF Only, Cosmetic
<1> QED
  BY <1>1 DEF DefaultPair

\* An answer comes in, with the effects that take notice of it.
LEMMA DeliverFoot ==
  ASSUME ConsoleInv, NEW h \in HooksOf(route, role), Deliver(h)
  PROVE  Footed
<1>1. ASSUME UNCHANGED <<route, role, calls, db, shell, ledger>>, Kept(page'),
             NEW r \in views[h].requests, r.reply # None,
             views' = [views EXCEPT ![h] = Delivered(views[h], r)]
      PROVE  Footed
  <2>1. Looks
    BY <1>1, OneHookMoves DEF Kept
  <2>2. Steady /\ Traffic({}, {})
    BY <1>1, SteadyStep, NothingMoves
  <2> QED
    BY <1>1, <2>1, <2>2, KeptFoot, NoActs
<1>2. CASE h \notin {"versions", "topology", "scanned_policies"}
  <2>1. DeliverView(h)
    BY <1>2 DEF Deliver
  <2>2. PICK r \in views[h].requests : r.reply # None /\ views' = [views EXCEPT ![h] = Delivered(views[h], r)]
    BY <2>1 DEF DeliverView, DeliverHook
  <2>3. UNCHANGED <<route, role, page, calls, db, shell, ledger>> /\ Kept(page')
    BY <2>1, PageIsOK DEF DeliverView
  <2> QED
    BY <1>1, <2>2, <2>3
<1>3. CASE h = "versions"
  <2>1. DeliverVersions
    BY <1>3 DEF Deliver
  <2>2. PICK r \in views[h].requests :
          /\ r.reply # None /\ views' = [views EXCEPT ![h] = Delivered(views[h], r)]
          /\ page' = page \/ \E of, rows : page' = DefaultPair(page, of, rows)
    BY <1>3, <2>1 DEF DeliverVersions
  <2>3. Kept(page')
    BY <2>2, OnlyItself, PairIsCosmetic, CosmeticIsKept
  <2>4. UNCHANGED <<route, role, calls, db, shell, ledger>>
    BY <2>1 DEF DeliverVersions
  <2> QED
    BY <1>1, <2>2, <2>3, <2>4
<1>4. CASE h = "topology"
  <2>1. DeliverTopology
    BY <1>4 DEF Deliver
  <2>2. PICK r \in views[h].requests : r.reply # None /\ views' = [views EXCEPT ![h] = Delivered(views[h], r)]
    BY <1>4, <2>1 DEF DeliverTopology, DeliverHook
  <2>3. /\ \E x : page' = [page EXCEPT !.selected = x]
        /\ UNCHANGED <<route, role, calls, db, shell, ledger>>
    BY <2>1 DEF DeliverTopology
  <2>4. Kept(page')
    BY <2>3, OnlyCosmetic, CosmeticIsKept
  <2> QED
    BY <1>1, <2>2, <2>3, <2>4
<1>5. CASE h = "scanned_policies"
  <2> DEFINE at(w) == IF w.data = None THEN page.asks
                      ELSE Key("count", Cardinality({i \in Ids : w.data.value[i] # Gone}))
  <2>0. /\ route.page = "compliance" /\ route.page \in AskingPages
        /\ HooksOf(route, role) = ComplianceHooks /\ PageOK(page, route.page)
    BY <1>5, PageIsOK
       DEF HooksOf, SchedulesHooks, BackupsHooks, DevicesHooks, DetailHooks, ConfigurationsHooks,
           ConfigurationsPart, DashboardHooks, LogsHooks, ComplianceHooks, AskingPages
  <2>1. DeliverPolicies
    BY <1>5 DEF Deliver
  <2>2. PICK r \in views["scanned_policies"].requests :
          LET w == Delivered(views["scanned_policies"], r)
          IN  /\ r.reply # None
              /\ page' = [page EXCEPT !.asks = at(w)]
              /\ views' = [views EXCEPT !["scanned_policies"] = w,
                             !["evaluations"] = IF at(w) = page.asks THEN @ ELSE Asked(@, at(w))]
    BY <2>1 DEF DeliverPolicies
  <2> DEFINE w == Delivered(views[h], r)
             asks == at(w)
  <2>3. UNCHANGED <<route, role, calls, db, shell, ledger>>
    BY <2>1 DEF DeliverPolicies
  <2>4. "asks" \in DOMAIN page /\ page.asks \in Questions("compliance")
    BY <2>0 DEF PageOK
  <2>5. asks \in Questions("compliance")
    BY <2>4 DEF Questions
  <2> HIDE DEF w, at
  <2>6. /\ r.reply # None /\ page' = [page EXCEPT !.asks = asks]
        /\ views' = [views EXCEPT ![h] = w,
                       !["evaluations"] = IF asks = page.asks THEN @ ELSE Asked(@, asks)]
    BY <1>5, <2>2 DEF w
  <2> HIDE DEF asks
  <2>7. page'.asks = asks /\ page'.message = page.message /\ PageOK(page', route.page)
    BY <2>0, <2>4, <2>5, <2>6 DEF PageOK
  <2>8. /\ h \in Hooks /\ "evaluations" \in Hooks /\ views = [g \in Hooks |-> views[g]]
        /\ "evaluations" \in HooksOf(route, role) /\ "evaluations" \in AskingHooks
    BY <2>0, MountedAreHooks DEF ConsoleInv, ViewsOK, HooksInv, ComplianceHooks, AskingHooks
  <2>9. /\ views'[h] = w
        /\ views'["evaluations"] = IF asks = page.asks THEN views["evaluations"]
                                   ELSE Asked(views["evaluations"], asks)
        /\ \A g \in Hooks \ {h, "evaluations"} : views'[g] = views[g]
        /\ views' = [g \in Hooks |-> views'[g]]
    BY <1>5, <2>6, <2>8
  <2>10. /\ DepsOf("evaluations", route, role)' = asks
         /\ \A g \in HooksOf(route, role) \ {"evaluations"} :
              DepsOf(g, route, role)' = DepsOf(g, route, role)
    BY <2>3, <2>7, <2>8, PosedDependency
  <2>11. DepsOf("evaluations", route, role) = page.asks
    BY DEF DepsOf, AskingHooks, DetailHooks, On
  <2>12. Moved(h)
    BY <1>5, <2>6, <2>9, <2>10 DEF Moved, w
  <2>13. Moved("evaluations")
    BY <2>8, <2>9, <2>10, <2>11 DEF Moved, Asking
  <2>14. \A g \in Hooks \ {h, "evaluations"} : Moved(g)
    BY <2>9, <2>10 DEF Moved
  <2>15. Looks
    BY <2>9, <2>12, <2>13, <2>14 DEF Looks
  <2>16. Steady /\ Traffic({}, {})
    BY <2>3, SteadyStep, NothingMoves
  <2>17. Renders({}, {})
    BY <2>0, <2>7, AskingPageRenders, NoActs
  <2> QED
    BY <2>15, <2>16, <2>17 DEF Foot, Footed
<1> QED
  BY <1>2, <1>3, <1>4, <1>5

-----------------------------------------------------------------------------
(***************************************************************************)
(* The shell, and answers for pages that are gone.                         *)
(***************************************************************************)

\* A step of the shell that leaves the page as it is.
LEMMA ShellFoot ==
  ASSUME ConsoleInv, UNCHANGED <<route, role, page, db, views>>, ShellOK(shell'),
         Input \/ UNCHANGED ledger \/ ledger' = [ledger EXCEPT !.faults = @ - 1],
         NEW sent, NEW done, Traffic(sent, done), ActsOf(sent) = {}
  PROVE  Footed
<1>1. LedgerOK(ledger)
  BY DEF ConsoleInv, WorldOK
<1>2. /\ LedgerOK(ledger') /\ ledger'.tour = ledger.tour
      /\ ledger'.foreign = ledger.foreign /\ ledger'.carried = ledger.carried
  BY <1>1 DEF Input, LedgerOK
<1>3. Steady
  BY <1>2 DEF Steady
<1>4. Kept(page') /\ Looks
  BY PageIsOK, LooksTheSame
<1> QED
  BY <1>3, <1>4, KeptFoot

LEMMA InShellFoot == ASSUME ConsoleInv, NEW s, ShellOK(s), InShell(s) PROVE Footed
<1>1. Input /\ shell' = s /\ UNCHANGED <<route, role, page, calls, db, views>>
  BY DEF InShell
<1> QED
  BY <1>1, ShellFoot, NothingMoves, NoActs

\* The dialogs, the message and the timers are fields that nothing else looks at.
LEMMA ShellChanged ==
  ASSUME NEW s, ShellOK(s), NEW x, NEW y
  PROVE  /\ ShellOK([s EXCEPT !.identity = x]) /\ ShellOK([s EXCEPT !.form = x])
         /\ ShellOK([s EXCEPT !.audits = x]) /\ ShellOK([s EXCEPT !.toast = x, !.clears = y])
<1>1. ShellOK([s EXCEPT !.identity = x])
  BY DEF ShellOK
<1>2. ShellOK([s EXCEPT !.form = x])
  BY DEF ShellOK
<1>3. ShellOK([s EXCEPT !.audits = x])
  BY DEF ShellOK
<1>4. ShellOK([s EXCEPT !.toast = x, !.clears = y])
  BY DEF ShellOK
<1> QED
  BY <1>1, <1>2, <1>3, <1>4

LEMMA ToastedOK == ASSUME NEW s, ShellOK(s), NEW text PROVE ShellOK(Toasted(s, text))
<1>1. \A x, y : ShellOK([s EXCEPT !.toast = x, !.clears = y])
  BY ShellChanged
<1> QED
  BY <1>1 DEF Toasted

LEMMA SearchChanged ==
  ASSUME ShellOK(shell), NEW open \in BOOLEAN, NEW asked \in BOOLEAN,
         NEW devices \in (SUBSET Ids) \union {None}, NEW reply \in (SUBSET Ids) \union {None}
  PROVE  LET s == shell.search
         IN  /\ ShellOK(Search([s EXCEPT !.open = open, !.asked = asked, !.reply = reply]))
             /\ ShellOK(Search([s EXCEPT !.reply = reply]))
             /\ ShellOK(Search([s EXCEPT !.devices = devices, !.asked = asked, !.reply = reply]))
<1> DEFINE s == shell.search
<1>1. ShellOK(Search([s EXCEPT !.open = open, !.asked = asked, !.reply = reply]))
  BY DEF ShellOK, Search
<1>2. ShellOK(Search([s EXCEPT !.reply = reply]))
  BY DEF ShellOK, Search
<1>3. ShellOK(Search([s EXCEPT !.devices = devices, !.asked = asked, !.reply = reply]))
  BY DEF ShellOK, Search
<1> QED
  BY <1>1, <1>2, <1>3

LEMMA ShellCall ==
  ASSUME NEW op \in ShellOps, NEW kind, NEW i, NEW content \in Contents, NEW creates, NEW roles
  PROVE  /\ Sendable(Call(op, kind, i, content, creates, roles))
         /\ Call(op, kind, i, content, creates, roles).op = op
<1>1. \A c : c.op = op /\ c.kind = kind /\ c.to = content => Belongs(c, route.page)
  BY DEF Belongs
<1>2. op \notin {"compare", "view"}
  BY DEF ShellOps
<1> QED
  BY <1>1, <1>2, CallIsSendable

\* The steps of the shell that mount nothing.
ShellAlone ==
  \/ UseIdentity \/ UseAddDevice \/ SubmitAddDevice \/ QuickCompliance \/ QuickBackup
  \/ UseSearch \/ QuickBackupAnswered \/ ToastTimer \/ SearchLoads

\* What the shell does by itself: dialogs, quick actions, toasts, the search (App.tsx).
LEMMA ShellAloneFoot ==
  ASSUME ConsoleInv, ShellAlone
  PROVE  Footed
<1>0. ShellOK(shell)
  BY DEF ConsoleInv, WorldOK
<1>1. CASE UseIdentity
  BY <1>0, <1>1, ShellChanged, InShellFoot DEF UseIdentity
<1>2. CASE UseAddDevice
  BY <1>0, <1>2, ShellChanged, InShellFoot DEF UseAddDevice
<1>3. ASSUME NEW c, Sendable(c), c.op \in ShellOps, Input, Send(c), ShellOK(shell'),
             UNCHANGED <<route, role, page, db, views>>
      PROVE  Footed
  <2>1. Traffic({c}, {})
    BY <1>3, OneCallSent
  <2>2. ActsOf({c}) = {}
    BY <1>3 DEF ActsOf, ActOps, ShellOps
  <2> QED
    BY <1>3, <2>1, <2>2, ShellFoot
<1>4. CASE SubmitAddDevice
  <2>1. /\ Input /\ shell' = [shell EXCEPT !.form = DeviceFormSent(@)]
        /\ UNCHANGED <<route, role, page, db, views>>
    BY <1>4 DEF SubmitAddDevice
  <2>2. \E i, creates : \E content \in {"edited", "unknown"} :
          Send(Call("addDevice", "devices", i, content, creates, Admins))
    BY <1>4 DEF SubmitAddDevice, DeviceFormCalls, Update, Create
  <2>3. \A i, creates, roles : \A content \in {"edited", "unknown"} :
          LET c == Call("addDevice", "devices", i, content, creates, roles)
          IN  Sendable(c) /\ c.op = "addDevice"
    BY ShellCall DEF ShellOps, Contents
  <2>4. ShellOK(shell')
    BY <1>0, <2>1, ShellChanged
  <2>5. \E c : Sendable(c) /\ c.op = "addDevice" /\ Send(c)
    BY <2>2, <2>3
  <2> QED
    BY <1>3, <2>1, <2>4, <2>5 DEF ShellOps
<1>5. CASE QuickCompliance
  BY <1>0, <1>5, ShellChanged, InShellFoot DEF QuickCompliance, Toasted
<1>6. CASE QuickBackup
  <2>1. /\ Input /\ shell' = Toasted(shell, "triggering") /\ UNCHANGED <<route, role, page, db, views>>
        /\ \E i : Send(Call("quickBackup", "jobs", i, "running", TRUE, Operators))
    BY <1>6 DEF QuickBackup, Create
  <2>2. \A i, creates, roles : LET c == Call("quickBackup", "jobs", i, "running", creates, roles)
                               IN  Sendable(c) /\ c.op = "quickBackup"
    BY ShellCall DEF ShellOps, Contents
  <2>3. ShellOK(shell')
    BY <1>0, <2>1, ShellChanged DEF Toasted
  <2>4. \E c : Sendable(c) /\ c.op = "quickBackup" /\ Send(c)
    BY <2>1, <2>2
  <2> QED
    BY <1>3, <2>1, <2>3, <2>4 DEF ShellOps
<1>7. CASE UseSearch
  <2> DEFINE s == shell.search
  <2>1. InShell(Search([s EXCEPT !.open = ~s.open, !.asked = ~s.open /\ s.devices = None, !.reply = None]))
    BY <1>7 DEF UseSearch
  <2>2. \A open, asked \in BOOLEAN :
          ShellOK(Search([s EXCEPT !.open = open, !.asked = asked, !.reply = None]))
    BY <1>0, SearchChanged
  <2>3. (~s.open) \in BOOLEAN /\ (~s.open /\ s.devices = None) \in BOOLEAN
    OBVIOUS
  <2> HIDE DEF s
  <2> QED
    BY <2>1, <2>2, <2>3, InShellFoot
<1>8. CASE QuickBackupAnswered
  <2>1. /\ \E c \in Answers("quickBackup") : Done(c) /\ \E text : shell' = Toasted(shell, text)
        /\ UNCHANGED <<route, role, page, db, ledger, views>>
    BY <1>8 DEF QuickBackupAnswered
  <2>2. PICK c \in calls : c.op \in ShellOps /\ Done(c)
    BY <2>1 DEF Answers, ShellOps
  <2>3. Traffic({}, {c})
    BY <2>2 DEF Traffic, Done
  <2>4. ShellOK(shell')
    BY <1>0, <2>1, ToastedOK
  <2> QED
    BY <2>1, <2>3, <2>4, ShellFoot, NoActs
<1>9. CASE ToastTimer
  <2>1. /\ \/ shell' = [Toasted(shell, "audited") EXCEPT !.audits = shell.audits - 1]
           \/ shell' = [shell EXCEPT !.toast = None, !.clears = shell.clears - 1]
        /\ UNCHANGED <<route, role, page, calls, db, ledger, views>>
    BY <1>9 DEF ToastTimer, Toasted
  <2>2. ShellOK(shell')
    <3>1. ShellOK(Toasted(shell, "audited"))
      BY <1>0, ToastedOK
    <3>2. \A x : ShellOK([Toasted(shell, "audited") EXCEPT !.audits = x])
      BY <3>1, ShellChanged
    <3>3. \A x, y : ShellOK([shell EXCEPT !.toast = x, !.clears = y])
      BY <1>0, ShellChanged
    <3>4. CASE shell' = [Toasted(shell, "audited") EXCEPT !.audits = shell.audits - 1]
      <4>1. ShellOK([Toasted(shell, "audited") EXCEPT !.audits = shell.audits - 1])
        BY <3>2
      <4> QED
        BY <3>4, <4>1
    <3>5. CASE shell' = [shell EXCEPT !.toast = None, !.clears = shell.clears - 1]
      <4>1. ShellOK([shell EXCEPT !.toast = None, !.clears = shell.clears - 1])
        BY <3>3
      <4> QED
        BY <3>5, <4>1
    <3> QED
      BY <2>1, <3>4, <3>5
  <2> QED
    BY <2>1, <2>2, ShellFoot, NothingMoves, NoActs
<1>10. CASE SearchLoads
  <2> DEFINE s == shell.search
  <2>1. /\ \/ shell' = Search([s EXCEPT !.reply = Rows("devices")])
           \/ shell' = Search([s EXCEPT !.reply = {}])
           \/ shell' = Search([s EXCEPT !.devices = s.reply, !.asked = FALSE, !.reply = None])
        /\ UNCHANGED ledger \/ ledger' = [ledger EXCEPT !.faults = @ - 1]
        /\ UNCHANGED <<route, role, page, calls, db, views>>
    BY <1>10 DEF SearchLoads
  <2>2. Rows("devices") \in SUBSET Ids /\ s.reply \in (SUBSET Ids) \union {None}
    BY <1>0 DEF Rows, ShellOK
  <2>3. ShellOK(shell')
    BY <1>0, <2>1, <2>2, SearchChanged
  <2> QED
    BY <2>1, <2>3, ShellFoot, NothingMoves, NoActs
<1> QED
  BY <1>1, <1>2, <1>4, <1>5, <1>6, <1>7, <1>8, <1>9, <1>10 DEF ShellAlone

\* A device of the shell's form that was refused.
LEMMA RefusedFoot ==
  ASSUME ConsoleInv, NEW c \in Answers("addDevice"), Done(c),
         shell' = [shell EXCEPT !.form = DeviceFormRefused(@, c)],
         UNCHANGED <<route, role, page, db, ledger, views>>
  PROVE  Footed
<1>1. c.op \in ShellOps
  BY DEF Answers, ShellOps
<1>2. Traffic({}, {c})
  BY <1>1 DEF Traffic, Done
<1>3. ShellOK(shell')
  BY ShellChanged DEF ConsoleInv, WorldOK
<1> QED
  BY <1>2, <1>3, ShellFoot, NoActs

\* An answer for a page that is gone.
LEMMA OrphanFoot == ASSUME ConsoleInv, OrphanAnswered PROVE Footed
<1>1. PICK c \in calls : ~c.live /\ Done(c)
  BY DEF OrphanAnswered
<1>2. UNCHANGED <<route, role, page, db, shell, ledger, views>>
  BY DEF OrphanAnswered
<1>3. Traffic({}, {c})
  BY <1>1 DEF Traffic, Done
<1>4. ShellOK(shell')
  BY <1>2 DEF ConsoleInv, WorldOK
<1> QED
  BY <1>2, <1>3, <1>4, ShellFoot, NoActs
-----------------------------------------------------------------------------
(***************************************************************************)
(* A render with a new route or role.                                      *)
(***************************************************************************)

\* A component that stays has the same page, the same hooks and the same part.
LEMMA SameComponent ==
  ASSUME NEW to, NEW r, Component(to, r) = Component(route, role)
  PROVE  /\ to.page = route.page
         /\ On("configurations") => ConfigurationsPart(to.id, r) = ConfigurationsPart(route.id, role)
         /\ HooksOf(to, r) = HooksOf(route, role)
<1>1. Component(to, r)[1] = to.page /\ Component(route, role)[1] = route.page
  BY DEF Component
<1>2. to.page = route.page
  BY <1>1
<1>3. ASSUME On("configurations")
      PROVE  ConfigurationsPart(to.id, r) = ConfigurationsPart(route.id, role)
  <2>1. /\ Component(to, r)[2] = ConfigurationsPart(to.id, r)
        /\ Component(route, role)[2] = ConfigurationsPart(route.id, role)
    BY <1>2, <1>3 DEF Component, On
  <2> QED
    BY <2>1
<1>4. HooksOf(to, r) = HooksOf(route, role)
  BY <1>2, <1>3 DEF HooksOf, On
<1> QED
  BY <1>2, <1>3, <1>4

\* What a mounted hook asks in the render is what the page poses after it.
LEMMA RenderedDependency ==
  ASSUME ConsoleInv, NEW to \in Routes, NEW r \in Roles, NEW out, Render(to, r, out),
         NEW h \in HooksOf(to, r)
  PROVE  /\ DepsOf(h, route, role)' = DepsOf(h, to, r)
         /\ DepsOf(h, to, r) \in Keys
<1>1. DepsOf(h, to, r) \in Keys
  BY PageIsOK, DependencyIsKey
<1>2. route' = to /\ role' = r
  BY DEF Render
<1>3. CASE h \in AskingHooks
  <2>1. to.page \in AskingPages
    BY <1>3, AskingHooksHavePages
  <2>2. DepsOf(h, to, r) = IF On(to.page) THEN page.asks ELSE InitOf(to).asks
    BY <1>3 DEF DepsOf, AskingHooks, DetailHooks
  <2>3. DepsOf(h, route, role)' = page'.asks
    BY <1>3 DEF DepsOf, AskingHooks, DetailHooks, On
  <2>4. On(to.page) <=> Component(to, r) = Component(route, role)
    <3>1. to.page # "configurations"
      BY <2>1 DEF AskingPages
    <3>2. On(to.page) => Component(to, r) = Component(route, role)
      BY <3>1 DEF Component, On
    <3>3. Component(to, r) = Component(route, role) => On(to.page)
      BY SameComponent DEF On
    <3> QED
      BY <3>2, <3>3
  <2> QED
    BY <1>1, <2>2, <2>3, <2>4 DEF Render
<1>4. CASE h \notin AskingHooks
  BY <1>1, <1>2, <1>4 DEF DepsOf, JobsKey, DetailKey
<1> QED
  BY <1>3, <1>4

\* The application renders with a route and a role; the calls that end with it
\* are the shell's own.
Rendering(to, r, out) ==
  /\ Render(to, r, out) /\ UNCHANGED db
  /\ LedgerOK(ledger') /\ ledger'.tour = ledger.tour
  /\ ledger'.foreign = ledger.foreign /\ ledger'.carried = ledger.carried
  /\ ShellOK(shell')
  /\ out \subseteq calls /\ \A c \in calls \ out : c.op \in ShellOps

\* Hooks are mounted, unmounted, or ask again what has changed.
LEMMA RenderViews ==
  ASSUME ConsoleInv, NEW to \in Routes, NEW r \in Roles, NEW out, Rendering(to, r, out)
  PROVE  ViewsOK' /\ HooksNext
<1> DEFINE of(h) == DepsOf(h, to, r)
           same == Component(to, r) = Component(route, role)
<1>1. /\ route' = to /\ role' = r
      /\ views' = [h \in Hooks |->
                     IF h \notin HooksOf(to, r) THEN None
                     ELSE IF ~same THEN Fresh(of(h))
                     ELSE IF views[h].key # of(h) THEN Asked(views[h], of(h)) ELSE views[h]]
  BY DEF Rendering, Render
<1>2. \A x : ViewOK(x) => x # None
  BY NoneIsNothing DEF ViewOK
<1>3. ASSUME NEW h \in Hooks
      PROVE  /\ Step(views[h], views'[h])
             /\ views'[h] # None <=> h \in HooksOf(to, r)
             /\ views'[h] # None => ViewOK(views'[h]) /\ views'[h].key = DepsOf(h, route, role)'
  <2> DEFINE v == views[h]
             w == views'[h]
  <2>1. CASE h \notin HooksOf(to, r)
    BY <1>1, <2>1 DEF Step
  <2>2. CASE h \in HooksOf(to, r)
    <3>1. of(h) \in Keys /\ DepsOf(h, route, role)' = of(h)
      BY <2>2, RenderedDependency DEF Rendering
    <3> HIDE DEF of
    <3>2. CASE ~same
      <4>1. w = Fresh(of(h))
        BY <1>1, <2>2, <3>2
      <4>2. w.key = of(h)
        BY <4>1 DEF Fresh, State
      <4>3. ViewOK(w) /\ Step(v, w)
        BY <3>1, <4>1, FreshOK DEF Step
      <4> QED
        BY <1>2, <2>2, <3>1, <4>2, <4>3
    <3>3. CASE same
      <4>1. HooksOf(to, r) = HooksOf(route, role)
        BY <3>3, SameComponent
      <4>2. v # None /\ ViewOK(v)
        BY <2>2, <4>1 DEF ConsoleInv, ViewsOK, HooksInv
      <4>3. CASE v.key # of(h)
        <5>1. w = Asked(v, of(h))
          BY <1>1, <2>2, <3>3, <4>3
        <5>2. w.key = of(h)
          BY <5>1 DEF Asked, State
        <5>3. ViewOK(w) /\ Step(v, w)
          BY <3>1, <4>2, <5>1, AskedOK DEF Step
        <5> QED
          BY <1>2, <2>2, <3>1, <5>2, <5>3
      <4>4. CASE v.key = of(h)
        <5>1. w = v
          BY <1>1, <2>2, <3>3, <4>4
        <5> QED
          BY <2>2, <3>1, <4>2, <4>4, <5>1 DEF Step
      <4> QED
        BY <4>3, <4>4
    <3> QED
      BY <3>2, <3>3
  <2> QED
    BY <2>1, <2>2
<1>4. views' = [h \in Hooks |-> views'[h]]
  BY <1>1
<1>5. HooksNext
  BY <1>3, <1>4 DEF HooksNext
<1>6. HooksInv'
  BY <1>3, <1>4 DEF HooksInv
<1> QED
  BY <1>1, <1>3, <1>5, <1>6 DEF ViewsOK

\* The versions are those of the route's device.
LEMMA VersionsDependency == \A x, y : DepsOf("versions", x, y) = Key("device", x.id)
BY DEF DepsOf, DetailHooks, AskingHooks

\* A hook that neither is new nor asks again has the tables it had.
LEMMA RenderOwn ==
  ASSUME ConsoleInv, NEW to \in Routes, NEW r \in Roles, NEW out, Rendering(to, r, out)
  PROVE  OwnOK'
<1> SUFFICES ASSUME NEW h \in Hooks, views'[h] # None, Trusted(h)', ~Awaited(h)'
             PROVE  Accurate(views'[h], AnswerOf(h, views[h].key)')
  BY DEF OwnOK
<1> DEFINE of == DepsOf(h, to, r)
           same == Component(to, r) = Component(route, role)
           v == views[h]
           w == views'[h]
<1>1. /\ route' = to /\ role' = r /\ UNCHANGED db /\ ledger'.foreign = ledger.foreign
      /\ w = IF h \notin HooksOf(to, r) THEN None
             ELSE IF ~same THEN Fresh(of)
             ELSE IF v.key # of THEN Asked(v, of) ELSE v
      /\ same => page' = page /\ calls' = out
      /\ out \subseteq calls /\ \A c \in calls \ out : c.op \in ShellOps
  BY DEF Rendering, Render
<1>2. h \in HooksOf(to, r)
  BY <1>1
<1>3. CASE ~same
  BY <1>1, <1>2, <1>3, FreshAccurate
<1>4. CASE same
  <2>1. /\ to.page = route.page /\ HooksOf(to, r) = HooksOf(route, role)
    BY <1>4, SameComponent
  <2>2. v # None /\ ViewOK(v) /\ v.key = DepsOf(h, route, role)
    BY <1>2, <2>1 DEF ConsoleInv, ViewsOK, HooksInv
  <2>3. CASE v.key # of
    BY <1>1, <1>2, <1>4, <2>2, <2>3, AskedAccurate
  <2>4. CASE v.key = of
    <3>1. w = v
      BY <1>1, <1>2, <1>4, <2>4
    <3>2. TablesOf(h)' = TablesOf(h)
      <4>1. ASSUME h = "versions" PROVE to.id = route.id
        <5>1. DepsOf("versions", route, role) = DepsOf("versions", to, r)
          BY ONLY <2>2, <2>4, <4>1, Zenon
        <5>2. Key("device", route.id) = Key("device", to.id)
          BY ONLY <5>1, VersionsDependency, Zenon
        <5>3. \A i, j : Key("device", i) = Key("device", j) => i = j
          BY DEF Key
        <5> QED
          BY ONLY <5>2, <5>3, Zenon
      <4> QED
        BY <1>1, <4>1 DEF TablesOf
    <3>3. Trusted(h)
      BY <1>1, <3>1, <3>2 DEF Trusted, CaughtBy
    <3>4. ~Awaited(h)
      BY <1>1, <1>4, <2>1, <3>2 DEF Awaited, On
    <3>5. Accurate(v, AnswerOf(h, v.key))
      BY <2>2, <3>3, <3>4 DEF ConsoleInv, OwnOK
    <3>6. AnswerOf(h, views[h].key)' = AnswerOf(h, v.key)
      <4>1. \A k : AnswerOf(h, k)' = AnswerOf(h, k)
        BY <1>1, SameAnswer
      <4>2. AnswerOf(h, views[h].key)' = AnswerOf(h, views'[h].key)
        BY <1>1 DEF AnswerOf, JobsAnswer, DetailAnswer, VersionsAnswer, EventsAnswer, TopologyAnswer, TrendAnswer
      <4> QED
        BY <3>1, <4>2
    <3> QED
      BY <3>1, <3>5, <3>6
  <2> QED
    BY <2>3, <2>4
<1> QED
  BY <1>3, <1>4

\* A render keeps the invariant: what stays is as it was, and what is new is fresh.
LEMMA RenderKeeps ==
  ASSUME ConsoleInv, NEW to \in Routes, NEW r \in Roles, NEW out, Rendering(to, r, out)
  PROVE  ConsoleInv' /\ HooksNext
<1> DEFINE same == Component(to, r) = Component(route, role)
           left(c) == [c EXCEPT !.live = c.op \in ShellOps]
<1>1. /\ route' = to /\ role' = r /\ UNCHANGED db
      /\ page' = IF same THEN page ELSE InitOf(to)
      /\ calls' = IF same THEN out ELSE {left(c) : c \in out}
      /\ out \subseteq calls /\ ledger'.carried = ledger.carried
  BY DEF Rendering, Render
<1>2. WorldOK'
  BY <1>1 DEF ConsoleInv, WorldOK, Rendering
<1>3. ViewsOK' /\ HooksNext /\ OwnOK'
  BY RenderViews, RenderOwn
<1>4. CASE same
  <2>1. /\ to.page = route.page
        /\ On("configurations") => ConfigurationsPart(to.id, r) = ConfigurationsPart(route.id, role)
    BY <1>4, SameComponent
  <2>2. page' = page /\ calls' \subseteq calls
    BY <1>1, <1>4
  <2>3. PageOK(page', route'.page)
    BY <1>1, <2>1, <2>2, PageIsOK
  <2>4. CallsOK'
    <3> SUFFICES ASSUME NEW c \in calls'
                 PROVE  CallOK(c) /\ Placed(c)' /\ (c.reply = "done" => c.id \in ledger'.carried)
      BY DEF CallsOK
    <3>1. CallOK(c) /\ Placed(c) /\ (c.reply = "done" => c.id \in ledger.carried)
      BY <2>2 DEF ConsoleInv, CallsOK
    <3>2. c.live => Belongs(c, route'.page)
      BY <1>1, <2>1, <3>1 DEF Placed
    <3>3. c.live /\ c.op \in {"compare", "view"} => ConfigurationsPart(route'.id, role') = "versions"
      BY <1>1, <2>1, <3>1 DEF Placed, Belongs, ShellOps, On
    <3> QED
      BY <1>1, <3>1, <3>2, <3>3 DEF Placed
  <2>5. ActsOK'
    BY <1>1, <2>1, <2>2 DEF ConsoleInv, ActsOK, ActsOf, On
  <2>6. SecretsOK' /\ NoticeMeansDone'
    BY <1>1, <2>1, <2>2 DEF ConsoleInv, SecretsOK, NoticeMeansDone, On
  <2> QED
    BY <1>2, <1>3, <2>3, <2>4, <2>5, <2>6 DEF ConsoleInv
<1>5. CASE ~same
  <2>1. /\ page' = InitOf(to) /\ PageOK(page', route'.page) /\ page'.message = None
        /\ to.page = "configurations" => page'.diff = None /\ page'.content = None
    BY <1>1, <1>5, MountedPage
  <2>2. ASSUME NEW c \in calls'
        PROVE  /\ CallOK(c) /\ (c.reply = "done" => c.id \in ledger'.carried)
               /\ c.live => c.op \in ShellOps
    <3>1. PICK d \in calls : c = left(d)
      BY <1>1, <1>5
    <3>2. CallOK(d) /\ (d.reply = "done" => d.id \in ledger.carried)
      BY DEF ConsoleInv, CallsOK
    <3>3. /\ DOMAIN c = DOMAIN d /\ c.live = (d.op \in ShellOps)
          /\ \A f \in DOMAIN d \ {"live"} : c[f] = d[f]
      BY <3>1, <3>2 DEF CallOK
    <3> HIDE DEF left
    <3>4. c.live \in BOOLEAN /\ c.op = d.op /\ c.to = d.to /\ c.reply = d.reply /\ c.id = d.id
      BY <3>2, <3>3 DEF CallOK
    <3> QED
      BY <1>1, <3>2, <3>3, <3>4 DEF CallOK
  <2> HIDE DEF left
  <2>3. CallsOK'
    BY <2>2 DEF CallsOK, Placed, Belongs, ShellOps
  <2>4. ActsOf(calls') = {}
    BY <2>2 DEF ActsOf, ActOps, ShellOps
  <2>5. ActsOK'
    BY <2>4 DEF ActsOK
  <2>6. SecretsOK' /\ NoticeMeansDone'
    BY <1>1, <2>1 DEF SecretsOK, NoticeMeansDone, On
  <2> QED
    BY <1>2, <1>3, <2>1, <2>3, <2>5, <2>6 DEF ConsoleInv
<1> QED
  BY <1>4, <1>5

\* The steps that mount a page.
LEMMA NavigateKeeps ==
  ASSUME ConsoleInv, Navigate \/ ChangeRole \/ ChooseHit \/ DeviceAdded
  PROVE  (ConsoleInv' /\ HooksNext) \/ Footed
<1>0. /\ LedgerOK(ledger) /\ ShellOK(shell) /\ route \in Routes /\ role \in Roles
      /\ ledger.tour \in DOMAIN Tours
  BY DEF ConsoleInv, WorldOK
<1>a. Tours[ledger.tour].visits \subseteq Routes
  BY <1>0, ToursAreOfConsole
<1>1. ASSUME NEW to \in Routes, NEW r \in Roles, Render(to, r, calls), UNCHANGED db, Input, ShellOK(shell')
      PROVE  ConsoleInv' /\ HooksNext
  <2>1. /\ LedgerOK(ledger') /\ ledger'.tour = ledger.tour
        /\ ledger'.foreign = ledger.foreign /\ ledger'.carried = ledger.carried
    BY <1>0, <1>1 DEF Input, LedgerOK
  <2>2. Rendering(to, r, calls)
    BY <1>1, <2>1 DEF Rendering
  <2> QED
    BY <1>1, <2>2, RenderKeeps
<1>2. CASE Navigate
  BY <1>0, <1>1, <1>2, <1>a DEF Navigate
<1>3. CASE ChangeRole
  BY <1>0, <1>1, <1>3 DEF ChangeRole
<1>4. CASE ChooseHit
  <2> DEFINE s == shell.search
             devices == IF s.devices = None THEN {} ELSE s.devices
  <2>1. PICK to \in {q \in Tours[ledger.tour].visits : q.id = 0} \union {Route("device", i) : i \in devices} :
          Render(to, role, calls)
    BY <1>4 DEF ChooseHit
  <2>2. devices \subseteq Ids
    BY <1>0 DEF ShellOK
  <2>3. to \in Routes
    BY <1>a, <2>1, <2>2 DEF Route, Routes, Pages
  <2>4. ShellOK(shell')
    <3>1. shell' = Search([s EXCEPT !.open = FALSE, !.asked = FALSE, !.reply = None])
      BY <1>4 DEF ChooseHit
    <3>2. \A open, asked \in BOOLEAN :
            ShellOK(Search([s EXCEPT !.open = open, !.asked = asked, !.reply = None]))
      BY <1>0, SearchChanged
    <3> QED
      BY <3>1, <3>2
  <2> QED
    BY <1>0, <1>1, <1>4, <2>1, <2>3, <2>4 DEF ChooseHit
<1>5. CASE DeviceAdded
  <2>1. PICK c \in Answers("addDevice") :
          IF c.reply = Failed
          THEN /\ Done(c)
               /\ shell' = [shell EXCEPT !.form = DeviceFormRefused(@, c)]
               /\ UNCHANGED <<route, role, page, views>>
          ELSE /\ shell' = Toasted([shell EXCEPT !.form = None], "registered")
               /\ Render(Route("devices", 0), role, calls \ {c})
    BY <1>5 DEF DeviceAdded
  <2>2. UNCHANGED <<db, ledger>>
    BY <1>5 DEF DeviceAdded
  <2>3. CASE c.reply = Failed
    BY <2>1, <2>2, <2>3, RefusedFoot
  <2>4. CASE c.reply # Failed
    <3>1. c.op \in ShellOps
      BY DEF Answers, ShellOps
    <3>2. ShellOK(shell')
      <4>1. ShellOK([shell EXCEPT !.form = None])
        BY <1>0, ShellChanged
      <4> QED
        BY <2>1, <2>4, <4>1, ToastedOK
    <3>3. Rendering(Route("devices", 0), role, calls \ {c})
      BY <1>0, <2>1, <2>2, <2>4, <3>1, <3>2 DEF Rendering
    <3>4. Route("devices", 0) \in Routes
      BY DEF Route, Routes, Pages
    <3> QED
      BY <1>0, <3>3, <3>4, RenderKeeps
  <2> QED
    BY <2>3, <2>4
<1> QED
  BY <1>2, <1>3, <1>4, <1>5
-----------------------------------------------------------------------------
(***************************************************************************)
(* The server and other people: the rows move, and no page does.           *)
(***************************************************************************)

\* When a table moves, the hooks it answers are no longer trusted, or wait for
\* the change to be shown.
LEMMA RowsMoveKeeps ==
  ASSUME ConsoleInv, UNCHANGED <<route, role, page, shell, views>>,
         db' \in [Kinds -> [Ids -> Contents]], LedgerOK(ledger'), ledger'.tour = ledger.tour,
         ledger.foreign \subseteq ledger'.foreign, ledger.carried \subseteq ledger'.carried,
         CallsOK', ActsOK',
         \A h \in HooksOf(route, role) :
           TablesOf(h) \cap ledger'.foreign = {} /\ ~Awaited(h)' =>
             ~Awaited(h) /\ \A kind \in TablesOf(h) : db'[kind] = db[kind]
  PROVE  ConsoleInv' /\ HooksNext
<1>1. WorldOK' /\ PageOK(page', route'.page)
  BY DEF ConsoleInv, WorldOK
<1>2. /\ \A h \in Hooks : DepsOf(h, route, role)' = DepsOf(h, route, role)
      /\ HooksOf(route, role)' = HooksOf(route, role)
  BY DEF DepsOf, On
<1>3. ViewsOK'
  BY <1>2 DEF ConsoleInv, ViewsOK, HooksInv
<1>4. SecretsOK' /\ NoticeMeansDone'
  BY DEF ConsoleInv, SecretsOK, NoticeMeansDone, On
<1>5. HooksNext
  BY DEF ConsoleInv, ViewsOK, HooksInv, HooksNext, Step
<1>6. OwnOK'
  <2> SUFFICES ASSUME NEW h \in Hooks, views'[h] # None, Trusted(h)', ~Awaited(h)'
               PROVE  Accurate(views'[h], AnswerOf(h, views[h].key)')
    BY DEF OwnOK
  <2> DEFINE v == views[h]
  <2>1. h \in HooksOf(route, role) /\ v # None /\ v.key = DepsOf(h, route, role)
    BY DEF ConsoleInv, ViewsOK
  <2>2. TablesOf(h)' = TablesOf(h)
    BY DEF TablesOf
  <2>3. CaughtBy(h, v.key) = Failed /\ h # "settings" /\ TablesOf(h) \cap ledger'.foreign = {}
    BY <2>2 DEF Trusted, CaughtBy
  <2>4. Trusted(h)
    BY <2>3 DEF Trusted
  <2>5. ~Awaited(h) /\ \A kind \in TablesOf(h) : db'[kind] = db[kind]
    BY <2>1, <2>3
  <2>6. Accurate(v, AnswerOf(h, v.key))
    BY <2>1, <2>4, <2>5 DEF ConsoleInv, OwnOK
  <2>7. h = "versions" => v.key.id = route.id
    BY <2>1, VersionsDependency DEF Key
  <2>8. AnswerOf(h, views[h].key)' = AnswerOf(h, v.key)
    <3>1. \A k : k = v.key => AnswerOf(h, k)' = AnswerOf(h, k)
      BY <2>1, <2>5, <2>7, AnsweredFromTables
    <3>2. \A k : k = v.key => AnswerOf(h, views[h].key)' = AnswerOf(h, k)'
      BY DEF AnswerOf, JobsAnswer, DetailAnswer, VersionsAnswer, EventsAnswer, TopologyAnswer, TrendAnswer
    <3> QED
      BY <3>1, <3>2
  <2> QED
    BY <2>6, <2>8
<1> QED
  BY <1>1, <1>3, <1>4, <1>5, <1>6 DEF ConsoleInv

\* A row of a table that is not there is not written.
LEMMA WrittenIsRows ==
  ASSUME db \in [Kinds -> [Ids -> Contents]], NEW k, NEW i, NEW content \in Contents
  PROVE  [db EXCEPT ![k][i] = content] \in [Kinds -> [Ids -> Contents]]
<1> DEFINE d == [db EXCEPT ![k][i] = content]
<1>1. d = [kind \in Kinds |-> IF kind = k THEN [db[kind] EXCEPT ![i] = content] ELSE db[kind]]
  OBVIOUS
<1>2. \A kind \in Kinds : db[kind] \in [Ids -> Contents]
  OBVIOUS
<1>3. \A rows \in [Ids -> Contents] : [rows EXCEPT ![i] = content] \in [Ids -> Contents]
  OBVIOUS
<1> HIDE DEF d
<1>4. d \in [Kinds -> [Ids -> Contents]]
  BY <1>1, <1>2, <1>3
<1> QED
  BY <1>4 DEF d

\* A table that somebody else changes is trusted no longer.
LEMMA OthersKeep == ASSUME ConsoleInv, Others PROVE ConsoleInv' /\ HooksNext
<1>1. PICK kind \in Kinds, i \in Ids :
        \E content \in (IF db[kind][i] = Gone THEN Logged(kind) ELSE OthersDo(kind)) :
          Change(kind, i, content)
  BY DEF Others
<1>2. PICK content \in (IF db[kind][i] = Gone THEN Logged(kind) ELSE OthersDo(kind)) :
        Change(kind, i, content)
  BY <1>1
<1>3. content \in Contents
  <2>1. Logged(kind) \subseteq Contents
    BY DEF Logged, Contents
  <2>2. OthersDo(kind) \subseteq Contents
    BY DEF OthersDo, Contents, Gone
  <2> QED
    BY <2>1, <2>2
<1>4. /\ db' = [db EXCEPT ![kind][i] = content]
      /\ ledger' = [ledger EXCEPT !.changes = @ - 1, !.foreign = @ \union {kind}]
      /\ UNCHANGED <<route, role, page, calls, shell, views>>
  BY <1>2 DEF Change
<1>5. LedgerOK(ledger) /\ db \in [Kinds -> [Ids -> Contents]]
  BY DEF ConsoleInv, WorldOK
<1>6. db' \in [Kinds -> [Ids -> Contents]]
  BY <1>3, <1>4, <1>5, WrittenIsRows
<1>7. /\ LedgerOK(ledger') /\ ledger'.tour = ledger.tour /\ ledger'.carried = ledger.carried
      /\ ledger'.foreign = ledger.foreign \union {kind}
  BY <1>4, <1>5 DEF LedgerOK
<1>8. CallsOK' /\ ActsOK'
  BY <1>4, <1>7 DEF ConsoleInv, CallsOK, Placed, ActsOK, ActsOf, On
<1>9. ASSUME NEW h \in HooksOf(route, role), TablesOf(h) \cap ledger'.foreign = {}, ~Awaited(h)'
      PROVE  ~Awaited(h) /\ \A k \in TablesOf(h) : db'[k] = db[k]
  <2>1. TablesOf(h)' = TablesOf(h)
    BY <1>4 DEF TablesOf
  <2>2. ~Awaited(h)
    BY <1>4, <1>9, <2>1 DEF Awaited, On
  <2>3. \A k \in TablesOf(h) : db'[k] = db[k]
    <3>1. kind \notin TablesOf(h)
      BY <1>7, <1>9
    <3>2. \A k : k # kind => db'[k] = db[k]
      BY <1>4, <1>5
    <3> QED
      BY <3>1, <3>2
  <2> QED
    BY <2>2, <2>3
<1> QED
  BY <1>4, <1>6, <1>7, <1>8, <1>9, RowsMoveKeeps

\* A call that is carried out changes a table whose hooks then wait for it to be
\* done; if nobody will say so, the table is not trusted any more.
LEMMA ServeCallKeeps == ASSUME ConsoleInv, ServeCall PROVE ConsoleInv' /\ HooksNext
<1>1. PICK c \in calls : c.reply = None /\ (Carry(c) \/ Lose(c) \/ Refuse(c))
  BY DEF ServeCall
<1>2. UNCHANGED <<route, role, page, shell, views>>
  BY DEF ServeCall
<1>3. /\ LedgerOK(ledger) /\ db \in [Kinds -> [Ids -> Contents]]
      /\ CallOK(c) /\ Placed(c)
  BY DEF ConsoleInv, WorldOK, CallsOK
<1>4. None # Failed /\ None # "done"
  BY NoneIsNothing, DoneIsAReply
<1>5. PICK reply \in {"done", Failed} :
        /\ Replied(c, reply)
        /\ \/ \E lost \in BOOLEAN : Carried(c, lost) /\ (reply = "done" <=> ~lost)
           \/ /\ reply = Failed /\ UNCHANGED db
              /\ UNCHANGED ledger \/ ledger' = [ledger EXCEPT !.faults = @ - 1]
  <2>1. CASE Carry(c)
    BY <1>4, <2>1 DEF Carry
  <2>2. CASE Lose(c)
    BY <1>4, <2>2, DoneIsAReply DEF Lose
  <2>3. CASE Refuse(c)
    BY <2>3 DEF Refuse
  <2> QED
    BY <1>1, <2>1, <2>2, <2>3
<1> DEFINE d == [c EXCEPT !.reply = reply]
<1>6. /\ calls' = (calls \ {c}) \union {d}
      /\ d.op = c.op /\ d.kind = c.kind /\ d.to = c.to /\ d.live = c.live /\ d.id = c.id
      /\ d.reply = reply /\ CallOK(d)
  BY <1>3, <1>5 DEF Replied, CallOK
<1>7. /\ LedgerOK(ledger') /\ ledger'.tour = ledger.tour
      /\ ledger.foreign \subseteq ledger'.foreign /\ ledger.carried \subseteq ledger'.carried
      /\ reply = "done" => c.id \in ledger'.carried
  <2>1. ASSUME NEW lost \in BOOLEAN, Carried(c, lost)
        PROVE  /\ LedgerOK(ledger') /\ ledger'.tour = ledger.tour
               /\ ledger'.foreign = Foreign(c, lost) /\ ledger'.carried = ledger.carried \union {c.id}
    BY <1>3, <2>1 DEF Carried, LedgerOK
  <2>2. \A lost \in BOOLEAN : ledger.foreign \subseteq Foreign(c, lost)
    BY DEF Foreign
  <2>3. ASSUME UNCHANGED ledger \/ ledger' = [ledger EXCEPT !.faults = @ - 1]
        PROVE  /\ LedgerOK(ledger') /\ ledger'.tour = ledger.tour
               /\ ledger'.foreign = ledger.foreign /\ ledger'.carried = ledger.carried
    BY <1>3, <2>3 DEF LedgerOK
  <2> QED
    BY <1>5, <2>1, <2>2, <2>3, DoneIsAReply
<1>8. db' = db \/ (db' = Written(c) /\ c.to \in Contents)
  BY <1>3, <1>5 DEF Carried, Written, CallOK
<1>9. db' \in [Kinds -> [Ids -> Contents]]
  <2>1. db \in [Kinds -> [Ids -> Contents]]
    BY <1>3
  <2>2. ASSUME c.to \in Contents PROVE Written(c) \in [Kinds -> [Ids -> Contents]]
    <3>1. [db EXCEPT ![c.kind][c.row] = c.to] \in [Kinds -> [Ids -> Contents]]
      BY <2>1, <2>2, WrittenIsRows, Zenon
    <3> QED
      BY ONLY <2>1, <3>1, Zenon DEF Written
  <2> QED
    BY ONLY <1>8, <2>1, <2>2, Zenon
<1> HIDE DEF d
<1>10. CallsOK'
  <2> SUFFICES ASSUME NEW e \in calls'
               PROVE  CallOK(e) /\ Placed(e)' /\ (e.reply = "done" => e.id \in ledger'.carried)
    BY DEF CallsOK
  <2>1. CASE e \in calls
    BY <1>2, <1>7, <2>1 DEF ConsoleInv, CallsOK, Placed
  <2>2. CASE e = d
    BY <1>2, <1>3, <1>6, <1>7, <2>2 DEF Placed, Belongs
  <2> QED
    BY <1>6, <2>1, <2>2
<1>11. ActsOK'
  <2>1. ActsOf(calls') = IF c \in ActsOf(calls) THEN (ActsOf(calls) \ {c}) \union {d} ELSE ActsOf(calls)
    BY <1>6 DEF ActsOf
  <2>2. /\ \A x, y \in ActsOf(calls) : x = y
        /\ ActsOf(calls) # {} => page.busy /\ (On("monitoring") => page.due = "nothing")
    BY DEF ConsoleInv, ActsOK
  <2>3. \A x, y \in ActsOf(calls') : x = y
    BY <2>1, <2>2
  <2>4. ActsOf(calls') # {} => ActsOf(calls) # {}
    BY <2>1
  <2> QED
    BY <1>2, <2>2, <2>3, <2>4 DEF ActsOK, On
<1>12. ASSUME NEW h \in HooksOf(route, role), TablesOf(h) \cap ledger'.foreign = {}, ~Awaited(h)'
       PROVE  ~Awaited(h) /\ \A k \in TablesOf(h) : db'[k] = db[k]
  <2>1. TablesOf(h)' = TablesOf(h)
    BY <1>2 DEF TablesOf
  <2>2. /\ \A e \in calls' : ~(/\ e.live /\ e.op \notin ShellOps /\ e.reply = "done"
                               /\ e.to # None /\ e.kind \in TablesOf(h))
        /\ ~(h = "device_jobs" /\ On("device") /\ page.timers > 0)
    BY <1>2, <1>12, <2>1 DEF Awaited, On
  <2>3. ~Awaited(h)
    BY <1>1, <1>4, <1>6, <2>2 DEF Awaited
  <2>4. CASE db' = db
    BY <2>3, <2>4
  <2>5. CASE db' # db
    <3>1. PICK lost \in BOOLEAN : Carried(c, lost) /\ (reply = "done" <=> ~lost)
      BY <1>5, <2>5
    <3>2. db' = Written(c) /\ c.to # None
      BY <2>5, <3>1 DEF Carried, Written
    <3>3. \A k : k # c.kind => db'[k] = db[k]
      BY <1>3, <3>2 DEF Written
    <3>4. c.kind \notin TablesOf(h)
      <4>1. CASE lost \/ ~c.live \/ c.op \in ShellOps
        <5>1. ledger'.foreign = Foreign(c, lost)
          BY <1>3, <3>1 DEF Carried, LedgerOK
        <5>2. c.kind \in ledger'.foreign
          BY <2>5, <3>2, <4>1, <5>1 DEF Foreign
        <5> QED
          BY <1>12, <5>2
      <4>2. CASE ~lost /\ c.live /\ c.op \notin ShellOps
        BY <1>6, <2>2, <3>1, <3>2, <4>2
      <4> QED
        BY <4>1, <4>2
    <3> QED
      BY <2>3, <3>3, <3>4
  <2> QED
    BY <2>4, <2>5
<1> QED
  BY <1>2, <1>7, <1>9, <1>10, <1>11, <1>12, RowsMoveKeeps
-----------------------------------------------------------------------------
(***************************************************************************)
(* The first state of every tour.                                          *)
(***************************************************************************)

\* The page as its effects have left it.
LEMMA FoundPage ==
  ASSUME NEW to \in Routes
  PROVE  /\ PageOK(Found(to), to.page)
         /\ Found(to).message = None
         /\ to.page = "configurations" => Found(to).diff = None /\ Found(to).content = None
<1> DEFINE p == InitOf(to)
<1>1. /\ PageOK(p, to.page) /\ p.message = None
      /\ to.page = "configurations" => p.diff = None /\ p.content = None
  BY MountedPage
<1>2. CASE to.page = "configurations" /\ to.id # 0
  <2> DEFINE q == DefaultPair(p, to.id, Rows(VersionsOf(to.id)))
  <2>1. DOMAIN q = DOMAIN p /\ \A f \in DOMAIN p \ {"left", "right"} : q[f] = p[f]
    BY DEF DefaultPair
  <2>2. Found(to) = q
    BY <1>2 DEF Found
  <2>3. /\ "busy" \in DOMAIN p /\ "error" \in DOMAIN p /\ "message" \in DOMAIN p
        /\ "diff" \in DOMAIN p /\ "content" \in DOMAIN p
    BY <1>1, <1>2 DEF PageOK
  <2> HIDE DEF p, q
  <2>4. q.message = p.message /\ q.diff = p.diff /\ q.content = p.content
    BY <2>1, <2>3
  <2> QED
    BY <1>1, <1>2, <2>1, <2>2, <2>3, <2>4 DEF PageOK, AskingPages
<1>3. CASE to.page = "topology"
  <2> DEFINE q == [p EXCEPT !.selected = Reselected(None, Rows("devices"))]
  <2>1. DOMAIN q = DOMAIN p /\ \A f \in DOMAIN p \ {"selected"} : q[f] = p[f]
    OBVIOUS
  <2>2. Found(to) = q
    BY <1>3 DEF Found
  <2>3. {"busy", "error", "message", "asks"} \subseteq DOMAIN p /\ p.asks \in Questions("topology")
    BY <1>1, <1>3 DEF PageOK, AskingPages
  <2> HIDE DEF p, q
  <2>4. q.message = p.message /\ q.asks = p.asks
    BY <2>1, <2>3
  <2> QED
    BY <1>1, <1>3, <2>1, <2>2, <2>3, <2>4 DEF PageOK, AskingPages
<1>4. CASE to.page = "compliance"
  <2> DEFINE k == Key("count", Cardinality(Rows("policies")))
             q == [p EXCEPT !.asks = k]
  <2>1. k \in Questions("compliance")
    <3>1. Rows("policies") \in SUBSET Ids
      BY DEF Rows
    <3> QED
      BY <3>1 DEF Questions
  <2>2. Found(to) = q
    BY <1>4 DEF Found
  <2> HIDE DEF k
  <2>3. {"busy", "error", "message", "asks"} \subseteq DOMAIN p
    BY <1>1, <1>4 DEF PageOK, AskingPages
  <2>4. DOMAIN q = DOMAIN p /\ q.message = p.message /\ q.asks = k
    BY <2>3
  <2> HIDE DEF p, q
  <2> QED
    BY <1>1, <1>4, <2>1, <2>2, <2>3, <2>4 DEF PageOK, AskingPages
<1>5. CASE /\ ~(to.page = "configurations" /\ to.id # 0)
           /\ to.page \notin {"topology", "compliance"}
  <2>1. Found(to) = p
    BY <1>5 DEF Found
  <2> QED
    BY <1>1, <2>1
<1> QED
  BY <1>2, <1>3, <1>4, <1>5

\* A hook that has loaded is well-formed and shows what the server says.
LEMMA LoadedView ==
  ASSUME db \in [Kinds -> [Ids -> Contents]], NEW h, NEW k \in Keys
  PROVE  /\ ViewOK(Loaded(h, k)) /\ Loaded(h, k).key = k
         /\ CaughtBy(h, k) = Failed => Accurate(Loaded(h, k), AnswerOf(h, k))
<1> DEFINE r == NewRequest(k)
           answer == AnswerOf(h, k)
           reply == IF answer = Failed THEN CaughtBy(h, k) ELSE answer
           v == Answered(Fresh(k), r, reply)
           q == [r EXCEPT !.reply = reply]
           w == Delivered(v, q)
<1>1. reply \in Values \union {Failed}
  BY AnswerIsValue, CaughtIsValue
<1>2. CaughtBy(h, k) = Failed => reply = answer
  OBVIOUS
<1>3. Loaded(h, k) = w
  BY DEF Loaded
<1> HIDE DEF answer, reply
<1>4. ViewOK(Fresh(k)) /\ Fresh(k).key = k /\ r \in Fresh(k).requests
  BY FreshOK DEF Fresh, State
<1>5. q \in v.requests /\ v.key = k
  BY <1>4 DEF Answered, Fresh, State
<1>6. q.reply = reply /\ reply # None
  BY <1>1, NoneIsNothing DEF NewRequest
<1>7. ViewOK(v)
  BY <1>1, <1>4, AnsweredOK
<1> HIDE DEF q
<1>8. ViewOK(w) /\ w.key = k
  BY <1>5, <1>6, <1>7, DeliveredOK DEF Delivered, State
<1>9. ASSUME CaughtBy(h, k) = Failed PROVE Accurate(w, answer)
  <2>1. reply = answer
    BY <1>2, <1>9
  <2>2. Accurate(v, answer)
    BY <1>4, <2>1, FreshAccurate, AnsweredAccurate
  <2> QED
    BY <1>5, <1>6, <1>7, <2>2, DeliveredAccurate
<1> QED
  BY <1>3, <1>8, <1>9 DEF answer

\* A tour starts with a consistent console.
LEMMA StartsConsistent == ASSUME ConsoleInit PROVE ConsoleInv
<1>1. PICK name \in DOMAIN Tours :
        /\ db = Tours[name].data /\ role \in Tours[name].roles /\ route = Tours[name].start
        /\ ledger = [inputs |-> Tours[name].inputs, faults |-> Tours[name].faults,
                     changes |-> Tours[name].changes,
                     foreign |-> {}, carried |-> {}, tour |-> name]
        /\ page = IF Tours[name].loading THEN InitOf(route) ELSE Found(route)
        /\ views = [h \in Hooks |->
                      IF h \notin HooksOf(route, role) THEN None
                      ELSE IF Tours[name].loading THEN Fresh(DepsOf(h, route, role))
                      ELSE Loaded(h, DepsOf(h, route, role))]
  BY DEF ConsoleInit
<1>2. calls = {} /\ shell = ShellInit
  BY DEF ConsoleInit
<1>3. /\ db \in [Kinds -> [Ids -> Contents]] /\ role \in Roles /\ route \in Routes
  BY <1>1, ToursAreOfConsole
<1>4. WorldOK
  <2>1. LedgerOK(ledger) /\ ledger.tour \in DOMAIN Tours
    BY <1>1 DEF LedgerOK
  <2>2. ShellOK(shell)
    BY <1>2 DEF ShellOK, ShellInit
  <2> QED
    BY <1>3, <2>1, <2>2 DEF WorldOK
<1>5. /\ PageOK(page, route.page) /\ page.message = None
      /\ route.page = "configurations" => page.diff = None /\ page.content = None
  <2>1. page = InitOf(route) \/ page = Found(route)
    BY <1>1
  <2> QED
    BY <1>3, <2>1, MountedPage, FoundPage
<1>6. ASSUME NEW h \in HooksOf(route, role)
      PROVE  /\ ViewOK(views[h]) /\ views[h].key = DepsOf(h, route, role)
             /\ Trusted(h) => Accurate(views[h], AnswerOf(h, views[h].key))
  <2> DEFINE k == DepsOf(h, route, role)
  <2>1. k \in Keys /\ h \in Hooks
    BY <1>3, <1>5, DependencyIsKey, MountedAreHooks
  <2>2. views[h] = Fresh(k) \/ views[h] = Loaded(h, k)
    BY <1>1, <2>1
  <2> HIDE DEF k
  <2>3. CASE views[h] = Fresh(k)
    <3>1. ViewOK(views[h]) /\ views[h].key = k
      BY <2>1, <2>3, FreshOK DEF Fresh, State
    <3> QED
      BY <2>3, <3>1, FreshAccurate DEF k
  <2>4. CASE views[h] = Loaded(h, k)
    <3>1. /\ ViewOK(views[h]) /\ views[h].key = k
          /\ CaughtBy(h, k) = Failed => Accurate(views[h], AnswerOf(h, k))
      BY <1>3, <2>1, <2>4, LoadedView
    <3> QED
      BY <3>1 DEF Trusted, k
  <2> QED
    BY <2>2, <2>3, <2>4
<1>7. \A x : ViewOK(x) => x # None
  BY NoneIsNothing DEF ViewOK
<1>8. \A h \in Hooks : h \notin HooksOf(route, role) => views[h] = None
  BY <1>1
<1>9. ViewsOK
  BY <1>1, <1>6, <1>7, <1>8 DEF ViewsOK, HooksInv
<1>10. OwnOK
  BY <1>6, <1>8 DEF OwnOK
<1>11. CallsOK /\ ActsOK
  BY <1>2 DEF CallsOK, ActsOK, ActsOf
<1>12. SecretsOK /\ NoticeMeansDone
  BY <1>5 DEF SecretsOK, NoticeMeansDone, On
<1> QED
  BY <1>4, <1>5, <1>9, <1>10, <1>11, <1>12 DEF ConsoleInv

-----------------------------------------------------------------------------
\* Whatever happens next, and if nothing does, the console stays consistent,
\* and its hooks move by the events of useAsync alone.
LEMMA ConsoleKeeps ==
  ASSUME ConsoleInv, [ConsoleNext]_session
  PROVE  ConsoleInv' /\ [HooksNext]_views
<1>1. Footed => ConsoleInv' /\ HooksNext
  BY FootKeeps DEF Footed
<1>2. CASE UNCHANGED session
  <2>1. Steady /\ Looks /\ Kept(page') /\ Traffic({}, {})
    <3>1. UNCHANGED <<route, role, page, calls, db, shell, ledger, views>>
      BY <1>2 DEF session
    <3> QED
      BY <3>1, SteadyStep, LooksTheSame, NothingMoves, PageIsOK
  <2> QED
    BY <1>1, <2>1, KeptFoot, NoActs
<1>3. CASE PageUser
  BY <1>1, <1>3, SchedulesFoot, BackupsFoot, DevicesFoot, DetailFoot, ConfigurationsFoot, TriageFoot,
     PoliciesFoot, MonitoringFoot, LogsFoot, TopologyFoot, DashboardFoot, ComplianceFoot, SettingsFoot
     DEF PageUser
<1>4. CASE ShellUser
  BY <1>1, <1>4, NavigateKeeps, ShellAloneFoot DEF ShellUser, ShellAlone
<1>5. CASE ServeCall
  BY <1>5, ServeCallKeeps
<1>6. CASE Resumed
  BY <1>1, <1>6, SchedulesFoot, BackupsFoot, DevicesFoot, LeftFoot, DetailFoot, ConfigurationsFoot,
     TriageFoot, PoliciesFoot, MonitoringFoot, ComplianceFoot, SettingsFoot, NavigateKeeps,
     ShellAloneFoot, OrphanFoot
     DEF Resumed, DevicesResumed, ShellResumed, ShellAlone
<1>7. CASE Answering
  BY <1>1, <1>7, ServeFoot, DeliverFoot DEF Answering
<1>8. CASE SearchLoads \/ Timers
  BY <1>1, <1>8, ShellAloneFoot, DetailFoot, MonitoringFoot, ComplianceFoot DEF ShellAlone, Timers
<1>9. CASE Poll
  BY <1>1, <1>9, BackupsFoot
<1>10. CASE Others
  BY <1>10, OthersKeep
<1> QED
  BY <1>2, <1>3, <1>4, <1>5, <1>6, <1>7, <1>8, <1>9, <1>10 DEF ConsoleNext

\* The console stays consistent (App.tsx, hooks.ts and all pages): however its
\* handlers, answers, timers, renders and other people interleave, the hooks
\* of what is mounted are there, ask what it poses, and show the truth or wait
\* for it; every call belongs to the page that waits for it.
THEOREM ConsoleIsConsistent == ConsoleSpec => []ConsoleInv
<1>1. ConsoleInit => ConsoleInv
  BY StartsConsistent
<1>2. ConsoleInv /\ [ConsoleNext]_session => ConsoleInv'
  BY ConsoleKeeps
<1> QED
  BY <1>1, <1>2, PTL DEF ConsoleSpec

\* A page never has two of its acts under way (the busy flag of SchedulesPage.tsx,
\* BackupsPage.tsx, MonitoringPage.tsx and the others).
THEOREM ConsoleActsOnce == ConsoleSpec => []OneActAtATime
<1>1. ConsoleInv => OneActAtATime
  <2> SUFFICES ASSUME ConsoleInv PROVE OneActAtATime
    OBVIOUS
  <2> DEFINE acts == ActsOf(calls)
  <2>1. \A c, d \in acts : c = d
    BY DEF ConsoleInv, ActsOK
  <2>2. acts = {} \/ \E c : acts = {c}
    BY <2>1
  <2> HIDE DEF acts
  <2>3. Cardinality(acts) \in {0, 1}
    <3>1. CASE acts = {}
      BY <3>1, FS_EmptySet
    <3>2. CASE \E c : acts = {c}
      BY <3>2, FS_Singleton
    <3> QED
      BY <2>2, <3>1, <3>2
  <2> QED
    BY <2>3 DEF OneActAtATime, ActsOf, acts
<1> QED
  BY <1>1, ConsoleIsConsistent, PTL

\* When nothing is under way, a page shows the server's rows as they are, all
\* its own changes among them (the reload() after every act of the pages).
THEOREM ConsoleShowsOwnWrites == ConsoleSpec => []OwnWritesShown
<1>1. ConsoleInv => OwnWritesShown
  <2> SUFFICES ASSUME ConsoleInv, Quiet, NEW h \in Hooks, views[h] # None,
                      ~views[h].loading, ~views[h].error,
                      CaughtBy(h, views[h].key) = Failed, h # "settings",
                      TablesOf(h) \cap ledger.foreign = {}
               PROVE  views[h].data.value = AnswerOf(h, views[h].key)
    BY DEF OwnWritesShown
  <2>1. Trusted(h)
    BY DEF Trusted
  <2>2. ~Awaited(h)
    BY DEF Awaited, Quiet
  <2>3. Accurate(views[h], AnswerOf(h, views[h].key))
    BY <2>1, <2>2 DEF ConsoleInv, OwnOK
  <2> QED
    BY <2>3 DEF Accurate
<1> QED
  BY <1>1, ConsoleIsConsistent, PTL

\* A message that says something was done is about a request the server has
\* carried out (setMessage in the pages).
THEOREM ConsoleNoticesWhatIsDone == ConsoleSpec => []NoticeMeansDone
<1>1. ConsoleInv => NoticeMeansDone
  BY DEF ConsoleInv
<1> QED
  BY <1>1, ConsoleIsConsistent, PTL

\* A configuration, or the difference of two, stays on the screen for no role
\* the server would refuse it to (ConfigurationHistoryPage.tsx:28-45).
THEOREM ConsoleHidesSecrets == ConsoleSpec => []SecretsHidden
<1>1. ConsoleInv => SecretsHidden
  <2> SUFFICES ASSUME ConsoleInv, On("configurations"), role \notin Operators
               PROVE  page.diff = None /\ page.content = None /\ views["versions"] = None
    BY DEF SecretsHidden
  <2>1. ConfigurationsPart(route.id, role) # "versions"
    BY DEF ConfigurationsPart
  <2>2. page.diff = None /\ page.content = None
    BY <2>1 DEF ConsoleInv, SecretsOK
  <2>3. "versions" \notin HooksOf(route, role)
    BY <2>1 DEF HooksOf, On, ConfigurationsHooks
  <2>4. "versions" \in Hooks
    BY PagesHaveHooks DEF ConfigurationsHooks
  <2> QED
    BY <2>2, <2>3, <2>4 DEF ConsoleInv, ViewsOK
<1> QED
  BY <1>1, ConsoleIsConsistent, PTL

\* The hooks of the console are hooks: every handler, render, answer and timer
\* of every page moves each of them by one event of useAsync or not at all.
THEOREM ConsoleMovesHooks == ConsoleSpec => [][HooksNext]_views
<1>1. ConsoleInv /\ [ConsoleNext]_session => [HooksNext]_views
  BY ConsoleKeeps
<1> QED
  BY <1>1, ConsoleIsConsistent, PTL DEF ConsoleSpec

\* In the console too, a view that has settled without an error answers the
\* present question (hooks.ts:50-52, the filters of the pages).
THEOREM ConsoleViewsAreCurrent == ConsoleSpec => []SettledIsCurrent
<1>1. ConsoleInv => SettledIsCurrent
  BY DEF ConsoleInv, ViewsOK, HooksInv, SettledIsCurrent, ViewOK
<1> QED
  BY <1>1, ConsoleIsConsistent, PTL

\* ... and loading says that its newest request is out (hooks.ts:61-76).
THEOREM ConsoleLoadingMeansNewest == ConsoleSpec => []LoadingIsNewest
<1>1. ConsoleInv => LoadingIsNewest
  BY DEF ConsoleInv, ViewsOK, HooksInv, LoadingIsNewest, ViewOK
<1> QED
  BY <1>1, ConsoleIsConsistent, PTL

\* The whole console keeps the promise of LatestAnswer to each of its pages:
\* only the answer to the question that is open now changes what a page shows.
THEOREM ConsoleImplementsLatest == ConsoleSpec => ImplementsLatest
<1> DEFINE seen == [h \in Hooks |-> Visible(views[h])]
<1>1. ConsoleInv => Promise!Init
  <2> SUFFICES ASSUME ConsoleInv, NEW h \in Hooks
               PROVE  Visible(views[h]) \in Promise!Shown \union {None}
    BY DEF Promise!Init
  <2> QED
    BY VisibleIsSeen DEF ConsoleInv, ViewsOK, HooksInv, Visible
<1>2. ConsoleInv /\ [HooksNext]_views => [Promise!Next]_seen
  <2> SUFFICES ASSUME ConsoleInv, HooksNext PROVE Promise!Next
    BY DEF Visible
  <2>1. \A h \in Hooks : Promise!Step(Visible(views[h]), Visible(views'[h]))
    BY StepIsPromised DEF HooksNext, ConsoleInv, ViewsOK, HooksInv
  <2>2. seen' = [h \in Hooks |-> Visible(views'[h])]
    BY DEF Visible
  <2> QED
    BY <2>1, <2>2 DEF Promise!Next
<1> QED
  BY <1>1, <1>2, ConsoleIsConsistent, ConsoleMovesHooks, PTL DEF ImplementsLatest, Promise!Spec

-----------------------------------------------------------------------------
\* Tables and the Pager under them, by themselves.

\* The rank of a row is a position of the table.
LEMMA RankIsAPosition ==
  ASSUME NEW rows \in SUBSET Nat, IsFiniteSet(rows), NEW i \in rows
  PROVE  Rank(rows, i) \in 0 .. (Cardinality(rows) - 1)
<1> DEFINE before == {j \in rows : j < i}
<1>1. before \in SUBSET (rows \ {i})
  OBVIOUS
<1>2. IsFiniteSet(rows \ {i}) /\ Cardinality(rows \ {i}) = Cardinality(rows) - 1
  BY FS_RemoveElement, Zenon
<1>3. IsFiniteSet(before) /\ Cardinality(before) <= Cardinality(rows \ {i})
  BY <1>1, <1>2, FS_Subset, Zenon
<1>4. Cardinality(before) \in Nat /\ Cardinality(rows) \in Nat
  BY <1>3, FS_CardinalityType, Zenon
<1>5. Rank(rows, i) = Cardinality(before)
  BY DEF Rank
<1> HIDE DEF before
<1> QED
  BY <1>2, <1>3, <1>4, <1>5

\* Of two rows the earlier one has the lower rank.
LEMMA RankIsMonotone ==
  ASSUME NEW rows \in SUBSET Nat, IsFiniteSet(rows), NEW i \in rows, NEW k \in rows, i < k
  PROVE  Rank(rows, i) < Rank(rows, k)
<1> DEFINE before == {j \in rows : j < i}
           upto   == {j \in rows : j < k}
<1>1. before \in SUBSET (upto \ {i}) /\ i \in upto
  <2>1. \A j \in rows : j < i => j < k /\ j # i
    OBVIOUS
  <2> QED
    BY <2>1
<1>2. upto \in SUBSET rows
  OBVIOUS
<1>3. IsFiniteSet(upto)
  BY <1>2, FS_Subset, Zenon
<1>4. IsFiniteSet(upto \ {i}) /\ Cardinality(upto \ {i}) = Cardinality(upto) - 1
  BY <1>1, <1>3, FS_RemoveElement, Zenon
<1>5. IsFiniteSet(before) /\ Cardinality(before) <= Cardinality(upto \ {i})
  BY <1>1, <1>4, FS_Subset, Zenon
<1>6. Cardinality(before) \in Nat /\ Cardinality(upto) \in Nat
  BY <1>3, <1>5, FS_CardinalityType, Zenon
<1>7. Rank(rows, i) = Cardinality(before) /\ Rank(rows, k) = Cardinality(upto)
  BY DEF Rank
<1> HIDE DEF before, upto
<1> QED
  BY <1>4, <1>5, <1>6, <1>7

\* Every position of the table holds a row: the ranks are an injection of the
\* rows into as many positions.
LEMMA PositionsAreFull ==
  ASSUME NEW rows \in SUBSET Nat, IsFiniteSet(rows), NEW r \in 0 .. (Cardinality(rows) - 1)
  PROVE  \E i \in rows : Rank(rows, i) = r
<1> DEFINE positions == 0 .. (Cardinality(rows) - 1)
           rank == [i \in rows |-> Rank(rows, i)]
<1>1. Cardinality(rows) \in Nat
  BY FS_CardinalityType, Zenon
<1>2. IsFiniteSet(positions)
  BY <1>1, FS_Interval
<1>3. Cardinality(positions) = Cardinality(rows)
  <2>1. 0 \in Int /\ Cardinality(rows) - 1 \in Int
    BY <1>1
  <2>2. Cardinality(positions) = IF 0 > Cardinality(rows) - 1 THEN 0
                                 ELSE Cardinality(rows) - 1 - 0 + 1
    BY <2>1, FS_Interval, Zenon
  <2> HIDE DEF positions
  <2> QED
    BY <1>1, <2>2
<1>4. rank \in [rows -> positions]
  BY RankIsAPosition
<1>5. \A i, k \in rows : rank[i] = rank[k] => i = k
  <2> SUFFICES ASSUME NEW i \in rows, NEW k \in rows, i # k PROVE rank[i] # rank[k]
    OBVIOUS
  <2>1. Rank(rows, i) \in Int /\ Rank(rows, k) \in Int
    BY RankIsAPosition, <1>1
  <2>2. CASE i < k
    BY <2>1, <2>2, RankIsMonotone
  <2>3. CASE k < i
    BY <2>1, <2>3, RankIsMonotone
  <2> QED
    BY <2>2, <2>3
<1>6. rank \in Injection(rows, positions)
  BY <1>4, <1>5 DEF Injection, IsInjective
<1> HIDE DEF rank, positions
<1>7. rank \in Surjection(rows, positions)
  BY <1>2, <1>3, <1>6, FS_Injection
<1>8. PICK i \in rows : rank[i] = r
  BY <1>7 DEF Surjection, positions
<1> QED
  BY <1>8 DEF rank

\* Division finds the page that a position is on ...
LEMMA PageOfPosition ==
  ASSUME NEW size \in Nat \ {0}, NEW r \in Nat
  PROVE  /\ r \div size \in Nat
         /\ (r \div size) * size <= r
         /\ r <= (r \div size) * size + size - 1
OBVIOUS

\* ... and no other is.
LEMMA OnePagePerPosition ==
  ASSUME NEW size \in Nat \ {0}, NEW r \in Nat
  PROVE  /\ r \div size \in Nat
         /\ r \in ((r \div size) * size) .. ((r \div size) * size + size - 1)
         /\ \A p \in Nat : r \in (p * size) .. (p * size + size - 1) => p = r \div size
<1>1. r \div size \in Nat /\ r = size * (r \div size) + (r % size)
      /\ 0 <= r % size /\ r % size < size /\ r % size \in Nat
  OBVIOUS
<1>2. \A p \in Nat : r \in (p * size) .. (p * size + size - 1) => p = r \div size
  <2> DEFINE q == r \div size
  <2> SUFFICES ASSUME NEW p \in Nat, p * size <= r, r <= p * size + size - 1 PROVE p = q
    OBVIOUS
  <2>1. q \in Nat /\ q * size <= r /\ r < q * size + size
    BY <1>1
  <2> HIDE DEF q
  <2>2. CASE p < q
    <3>1. PICK d \in Nat : q = p + 1 + d
      BY <2>1, <2>2, q - p - 1 \in Nat
    <3>2. q * size = p * size + size + d * size /\ d * size >= 0
      BY <3>1, <2>1
    <3> QED
      BY <2>1, <3>2
  <2>3. CASE q < p
    <3>1. PICK d \in Nat : p = q + 1 + d
      BY <2>1, <2>3, p - q - 1 \in Nat
    <3>2. p * size = q * size + size + d * size /\ d * size >= 0
      BY <3>1, <2>1
    <3> QED
      BY <2>1, <3>2
  <2> QED
    BY <2>1, <2>2, <2>3
<1> QED
  BY <1>1, <1>2

\* The number of pages is the number of the page of the last row, and one.
LEMMA LastPage ==
  ASSUME NEW rows \in SUBSET Nat, IsFiniteSet(rows), rows # {}, NEW size \in Nat \ {0}
  PROVE  /\ Cardinality(rows) \in Nat \ {0}
         /\ PageCount(rows, size) = ((Cardinality(rows) - 1) \div size) + 1
<1>1. Cardinality(rows) \in Nat \ {0}
  BY FS_CardinalityType, FS_EmptySet
<1>2. \A n \in Nat \ {0} : (n + size - 1) \div size = ((n - 1) \div size) + 1
  <2> SUFFICES ASSUME NEW n \in Nat \ {0} PROVE (n + size - 1) \div size = ((n - 1) \div size) + 1
    OBVIOUS
  <2> DEFINE q == (n - 1) \div size
  <2>1. q \in Nat /\ q * size <= n - 1 /\ n - 1 <= q * size + size - 1
    BY PageOfPosition, n - 1 \in Nat
  <2> HIDE DEF q
  <2>2. (q + 1) * size = q * size + size /\ q * size \in Nat /\ (q + 1) * size \in Nat
    BY <2>1
  <2>3. n + size - 1 \in ((q + 1) * size) .. ((q + 1) * size + size - 1)
    BY <2>1, <2>2
  <2>4. n + size - 1 \in Nat /\ q + 1 \in Nat
    BY <2>1
  <2>5. q + 1 = (n + size - 1) \div size
    BY <2>3, <2>4, OnePagePerPosition
  <2> QED
    BY <2>5 DEF q
<1> QED
  BY <1>1, <1>2 DEF PageCount

-----------------------------------------------------------------------------
\* Whatever the rows and the size of a page, every row is on exactly one of the
\* pages the Pager counts (ui.tsx:349, and the slices, as in DevicesPage.tsx:93).
THEOREM PagesAreAPartition ==
  ASSUME NEW rows \in SUBSET Nat, IsFiniteSet(rows), NEW size \in Nat \ {0}, NEW i \in rows
  PROVE  \E p \in 0 .. (PageCount(rows, size) - 1) :
           /\ i \in Shown(rows, p, size)
           /\ \A q \in Nat : i \in Shown(rows, q, size) => q = p
<1> DEFINE r == Rank(rows, i)
           last == Cardinality(rows) - 1
<1>1. Cardinality(rows) \in Nat \ {0} /\ PageCount(rows, size) = (last \div size) + 1
  BY LastPage
<1>2. r \in 0 .. last
  BY RankIsAPosition
<1>3. last \in Nat /\ r \in Nat
  BY <1>1, <1>2
<1> HIDE DEF r, last
<1>4. /\ r \div size \in Nat
      /\ r \in ((r \div size) * size) .. ((r \div size) * size + size - 1)
      /\ \A p \in Nat : r \in (p * size) .. (p * size + size - 1) => p = r \div size
  BY <1>3, OnePagePerPosition
<1>5. r \div size <= last \div size
  <2> DEFINE a == r \div size
             b == last \div size
  <2>1. a \in Nat /\ b \in Nat /\ a * size <= r /\ last <= b * size + size - 1
    BY <1>3, PageOfPosition
  <2> HIDE DEF a, b
  <2>2. ASSUME b < a PROVE FALSE
    <3>1. PICK d \in Nat : a = b + 1 + d
      BY <2>1, <2>2, a - b - 1 \in Nat
    <3>2. a * size = b * size + size + d * size /\ d * size >= 0
      BY <3>1, <2>1
    <3> QED
      BY <1>2, <1>3, <2>1, <3>2
  <2>3. a <= b
    BY <2>1, <2>2
  <2> QED
    BY <2>3 DEF a, b
<1>6. r \div size \in 0 .. (PageCount(rows, size) - 1)
  <2>1. last \div size \in Nat
    BY <1>3, OnePagePerPosition
  <2> QED
    BY <1>1, <1>4, <1>5, <2>1
<1>7. \A p \in Nat : i \in Shown(rows, p, size) <=> r \in (p * size) .. (p * size + size - 1)
  BY DEF Shown, r
<1> QED
  BY <1>4, <1>6, <1>7

\* ... and none of those pages is empty, but the only page of an empty table.
THEOREM NoPageIsEmpty ==
  ASSUME NEW rows \in SUBSET Nat, IsFiniteSet(rows), rows # {}, NEW size \in Nat \ {0},
         NEW p \in 0 .. (PageCount(rows, size) - 1)
  PROVE  Shown(rows, p, size) # {}
<1> DEFINE last == Cardinality(rows) - 1
           q == last \div size
<1>1. Cardinality(rows) \in Nat \ {0} /\ PageCount(rows, size) = q + 1
  BY LastPage
<1>2. last \in Nat
  BY <1>1
<1>3. q \in Nat /\ q * size <= last
  <2> HIDE DEF last
  <2> QED
    BY <1>2, PageOfPosition
<1> HIDE DEF q
<1>4. p \in Nat /\ p <= q
  BY <1>1, <1>3
<1>5. PICK d \in Nat : q = p + d
  BY <1>3, <1>4, q - p \in Nat
<1>6. q * size = p * size + d * size /\ d * size >= 0 /\ p * size \in Nat
  BY <1>4, <1>5
<1>7. p * size \in 0 .. last
  <2> HIDE DEF last
  <2> QED
    BY <1>2, <1>3, <1>6
<1>8. PICK i \in rows : Rank(rows, i) = p * size
  BY <1>7, PositionsAreFull
<1>9. p * size \in (p * size) .. (p * size + size - 1)
  BY <1>6
<1> QED
  BY <1>8, <1>9 DEF Shown

\* ... nor shows more rows than its size.
THEOREM PagesAreOfTheirSize ==
  ASSUME NEW rows \in SUBSET Nat, IsFiniteSet(rows), NEW size \in Nat \ {0}, NEW p \in Nat
  PROVE  Cardinality(Shown(rows, p, size)) <= size
<1> DEFINE shown == Shown(rows, p, size)
           first == p * size
           slots == first .. (first + size - 1)
           rank == [i \in shown |-> Rank(rows, i)]
<1>1. first \in Nat
  OBVIOUS
<1>2. IsFiniteSet(slots) /\ Cardinality(slots) = size
  <2> HIDE DEF first
  <2>1. first \in Int /\ first + size - 1 \in Int /\ ~(first > first + size - 1)
        /\ (first + size - 1) - first + 1 = size
    BY <1>1
  <2> QED
    BY <2>1, FS_Interval
<1>3. rank \in [shown -> slots]
  BY DEF Shown
<1>4. \A i, k \in shown : rank[i] = rank[k] => i = k
  <2> SUFFICES ASSUME NEW i \in shown, NEW k \in shown, i # k PROVE rank[i] # rank[k]
    OBVIOUS
  <2>1. i \in rows /\ k \in rows
    BY DEF Shown
  <2>2. Rank(rows, i) \in Int /\ Rank(rows, k) \in Int
    BY <2>1, RankIsAPosition, FS_CardinalityType
  <2>3. CASE i < k
    BY <2>1, <2>2, <2>3, RankIsMonotone
  <2>4. CASE k < i
    BY <2>1, <2>2, <2>4, RankIsMonotone
  <2> QED
    BY <2>1, <2>3, <2>4
<1>5. rank \in Injection(shown, slots)
  BY <1>3, <1>4 DEF Injection, IsInjective
<1> HIDE DEF rank, shown, slots, first
<1>6. Cardinality(shown) <= Cardinality(slots)
  BY <1>2, <1>5, FS_Injection, Zenon
<1> QED
  BY <1>2, <1>6 DEF shown
=============================================================================
