---------------------- MODULE MCPolicyEvaluation_proofs ----------------------
(***************************************************************************)
(* What the history variables of MCPolicyEvaluation are for: evidence is   *)
(* lost, and findings and alerts are doubled, by races, faults and         *)
(* operators who reopen, and by nothing else.                              *)
(***************************************************************************)
EXTENDS MCPolicyEvaluation, PolicyEvaluation_proofs

\* The history variables only watch.
LEMMA WatchedStep == MCNext => Next /\ Remember
BY DEF MCNext, Next, Administer, Evaluate, Operate, Active, Closed

LEMMA Watched == MCSpec => Spec
<1>1. MCInit => Init
  BY DEF MCInit
<1>2. [MCNext]_<<vars, historyVars>> => [Next]_vars
  BY WatchedStep
<1>3. QED
  BY <1>1, <1>2, PTL DEF MCSpec, Spec

\* Two threads are several.
LEMMA TwoAreSeveral ==
  ASSUME NEW S \in SUBSET Threads, NEW a \in S, NEW b \in S, a # b
  PROVE  Several(S) = S
<1>1. IsFiniteSet(S)
  BY ThreadsAssumption, FS_Subset
<1>2. IsFiniteSet({a}) /\ Cardinality({a}) = 1
  BY FS_Singleton
<1>3. IsFiniteSet({a} \cup {b}) /\ Cardinality({a} \cup {b}) = Cardinality({a}) + 1
  BY <1>2, FS_AddElement
<1>4. Cardinality({a} \cup {b}) <= Cardinality(S)
  BY <1>1, FS_Subset
<1>5. Cardinality(S) \in Nat
  BY <1>1, FS_CardinalityType
<1>6. QED
  BY <1>2, <1>3, <1>4, <1>5 DEF Several

\* What was raced, given up or reopened stays so.
LEMMA HistoryGrows ==
  ASSUME Remember
  PROVE  raced \subseteq raced' /\ failed \subseteq failed' /\ reopened \subseteq reopened'
BY DEF Remember

\* Two calls about to write one row: when the first has, both are remembered.
LEMMA RecordRace ==
  ASSUME Remember, NEW t \in Threads, NEW u \in RecordRivals(t), Written(t), u # t
  PROVE  record[t].ref \in raced' /\ record[u].ref \in raced'
<1>1. t \in RecordRivals(t) /\ RecordRivals(t) \subseteq Threads
  BY DEF RecordRivals
<1>2. Several(RecordRivals(t)) = RecordRivals(t)
  BY <1>1, TwoAreSeveral
<1>3. {t, u} \subseteq UNION {Several(RecordRivals(x)) : x \in {y \in Threads : Written(y)}}
  BY <1>1, <1>2
<1>4. QED
  BY <1>3 DEF Remember

LEMMA EmitRace ==
  ASSUME Remember, NEW t \in Threads, NEW u \in EmitRivals(t), Emitted(t), u # t
  PROVE  emit[t].id \in raced' /\ emit[u].id \in raced'
<1>1. t \in EmitRivals(t) /\ EmitRivals(t) \subseteq Threads
  BY DEF EmitRivals, Emitted
<1>2. Several(EmitRivals(t)) = EmitRivals(t)
  BY <1>1, TwoAreSeveral
<1>3. {t, u} \subseteq UNION {Several(EmitRivals(x)) : x \in {y \in Threads : Emitted(y)}}
  BY <1>1, <1>2
<1>4. QED
  BY <1>3 DEF Remember

-----------------------------------------------------------------------------
(* The steps, as far as findings and the calls that record them go.        *)

Bumping(t) == record[t].pc = "bump"

\* Findings are what they were, but for their status and a policy that is deleted.
Likeness(f, g) ==
  /\ g.id = f.id /\ g.refs = f.refs /\ g.device = f.device /\ g.title = f.title
  /\ g.policy \in {f.policy, NoPolicy}
SameFindings ==
  /\ \A f \in findings : \E g \in findings' : Likeness(f, g)
  /\ \A g \in findings' : \E f \in findings : Likeness(f, g)

\* No call comes to know of a finding, or writes one.
Quiet ==
  /\ SameFindings
  /\ \A x \in Threads : Bumping(x)' => record'[x] = record[x]
  /\ \A x \in Threads : ToRecord(x) =>
       \/ ToRecord(x)' /\ record'[x].ref = record[x].ref
       \/ record'[x] = NotRecording /\ findings' = findings
  /\ \A e \in evaluations' : e.result = "fail" =>
       e \in evaluations \/ \E t \in Threads : ToRecord(t)' /\ record'[t].ref = e.id

Reads(t) ==
  /\ record[t].pc = "lookup"
  /\ \E f \in findings :
       record' = [record EXCEPT ![t].pc = "bump", ![t].id = f.id, ![t].count = f.count, ![t].refs = f.refs]
  /\ UNCHANGED <<findings, evaluations>>
Bumps(t) == BumpFinding(t) /\ UNCHANGED evaluations
Inserts(t) == InsertFinding(t, Live(task[t].policy)) /\ UNCHANGED <<evaluations, policies, clock>>

LEMMA FindingsAreRecords ==
  ASSUME TypeOK
  PROVE  /\ \A f \in findings : f \in Finding
         /\ \A t \in Threads : record[t] # NotRecording => record[t] \in Recording
BY DEF TypeOK, FindingsTypeOK

\* A thread's record changes alone.
LEMMA OthersRecords ==
  ASSUME TypeOK, NEW t \in Threads, NEW r, record' = [record EXCEPT ![t] = r]
  PROVE  record'[t] = r /\ \A x \in Threads : x # t => record'[x] = record[x]
BY DEF TypeOK, FindingsTypeOK

LEMMA StepKinds ==
  ASSUME TypeOK, Next
  PROVE  Quiet \/ \E t \in Threads : Reads(t) \/ Bumps(t) \/ Inserts(t)
<1> USE DEF Bumping, ToRecord, NotRecording
<1>1. UNCHANGED findings => SameFindings
  BY DEF SameFindings, Likeness
<1>2. ASSUME UNCHANGED <<findings, record, evaluations>> PROVE Quiet
  BY <1>1, <1>2 DEF Quiet
<1>3. ASSUME NEW p \in Policies, Administer(p) PROVE Quiet
  <2>1. CASE DeletePolicy(p)
    <3>1. \A f \in findings : Likeness(f, IF f.policy = p THEN [f EXCEPT !.policy = NoPolicy] ELSE f)
      BY FindingsAreRecords DEF Likeness, Finding
    <3>2. SameFindings
      BY <2>1, <3>1 DEF DeletePolicy, SameFindings
    <3>3. QED
      BY <2>1, <3>2 DEF DeletePolicy, Quiet
  <2>2. QED
    BY <1>2, <1>3, <2>1 DEF Administer, CreatePolicy, UpdatePolicy, findingVars
<1>4. CASE Operate
  <2>1. ASSUME NEW f \in findings, NEW status \in Active \cup Closed, SetFindingStatus(f, status),
               UNCHANGED policyVars
        PROVE  Quiet
    <3>1. Likeness(f, [f EXCEPT !.status = status]) /\ \A g \in findings : Likeness(g, g)
      BY FindingsAreRecords DEF Likeness, Finding
    <3>2. SameFindings
      BY <2>1, <3>1 DEF SetFindingStatus, SameFindings
    <3>3. QED
      BY <2>1, <3>2 DEF SetFindingStatus, Quiet, policyVars
  <2>2. QED
    BY <1>2, <1>4, <2>1 DEF Operate, policyVars
<1>5. CASE Restart
  BY <1>1, <1>5 DEF Restart, Quiet
<1>6. ASSUME NEW t \in Threads, NEW d \in Devices, NEW result \in Results, EvaluateOne(t, d, result)
      PROVE  Quiet
  <2>1. CASE result = "fail"
    <3>1. record' = [record EXCEPT ![t] = Occurrence(d, task[t].policy, task[t].name, clock)]
      BY <1>6, <2>1 DEF EvaluateOne, BeginRecord
    <3>2. /\ record'[t].pc = "lookup" /\ record'[t].ref = clock
          /\ \A x \in Threads : x # t => record'[x] = record[x]
      <4> DEFINE r == Occurrence(d, task[t].policy, task[t].name, clock)
      <4>1. r.pc = "lookup" /\ r.ref = clock
        BY DEF Occurrence
      <4> HIDE DEF r
      <4>2. record' = [record EXCEPT ![t] = r]
        BY <3>1 DEF r
      <4>3. record'[t] = r /\ \A x \in Threads : x # t => record'[x] = record[x]
        BY <4>2, OthersRecords
      <4>4. QED
        BY <4>1, <4>3
    <3>3. \A e \in evaluations' : e \in evaluations \/ e.id = clock
      BY <1>6 DEF EvaluateOne
    <3>4. UNCHANGED findings /\ record[t] = NotRecording
      BY <1>6 DEF EvaluateOne
    <3>5. QED
      BY <1>1, <3>2, <3>3, <3>4 DEF Quiet
  <2>2. CASE result # "fail"
    BY <1>1, <1>6, <2>2 DEF EvaluateOne, Quiet
  <2>3. QED
    BY <2>1, <2>2
<1>7. ASSUME NEW t \in Threads, RecordOne(t) PROVE Quiet \/ Reads(t) \/ Bumps(t) \/ Inserts(t)
  <2>0. record[t] \in Recording /\ UNCHANGED <<evaluations, policies, clock>>
    BY <1>7, FindingsAreRecords DEF RecordOne, policyVars
  <2>1. CASE LookupFinding(t)
    <3>1. CASE record' = [record EXCEPT ![t].pc = "insert"]
      <4>1. record'[t].pc = "insert" /\ record'[t].ref = record[t].ref
            /\ \A x \in Threads : x # t => record'[x] = record[x]
        BY <2>0, <3>1 DEF TypeOK, FindingsTypeOK, Recording
      <4>2. UNCHANGED findings
        BY <2>1 DEF LookupFinding
      <4>3. QED
        BY <1>1, <2>0, <4>1, <4>2 DEF Quiet
    <3>2. QED
      BY <2>0, <2>1, <3>1 DEF LookupFinding, Reads
  <2>2. CASE EndRecord(t) /\ UNCHANGED findings
    <3>1. record'[t] = NotRecording /\ \A x \in Threads : x # t => record'[x] = record[x]
      BY <2>2, OthersRecords DEF EndRecord
    <3>2. QED
      BY <1>1, <2>0, <2>2, <3>1 DEF Quiet
  <2>3. CASE Alerting(t)
    BY <1>2, <2>0, <2>2, <2>3 DEF Alerting
  <2>4. QED
    BY <1>7, <2>0, <2>1, <2>2, <2>3 DEF RecordOne, RecordStep, RecordFails, Bumps, Inserts
<1>8. QED
  BY <1>2, <1>3, <1>4, <1>5, <1>6, <1>7 DEF Next, Evaluate, BeginEvaluation, EndEvaluation, findingVars

-----------------------------------------------------------------------------
(* Evidence.  A call at "bump" is going to write what it read: where that  *)
(* differs from the finding, or from what another such call read, the      *)
(* difference is of occurrences that met.                                  *)

Traced(i) == (\E f \in findings : i \in f.refs) \/ i \in raced \cup failed

Accounted ==
  \A e \in evaluations : e.result = "fail" =>
    Traced(e.id) \/ \E t \in Threads : ToRecord(t) /\ record[t].ref = e.id

Diverged ==
  \A t \in Threads : Bumping(t) =>
    /\ \E f \in findings : f.id = record[t].id
    /\ \A f \in findings : f.id = record[t].id =>
         f.refs \ record[t].refs \subseteq raced /\ record[t].refs \ f.refs \subseteq raced
    /\ \A u \in Threads : Bumping(u) /\ record[u].id = record[t].id =>
         record[t].refs \ record[u].refs \subseteq raced

Keeps == \A f \in findings : \E g \in findings' : g.id = f.id /\ f.refs \ g.refs \subseteq raced'

\* How the writes of findings and calls are put.
LEMMA WhatReadsDoes ==
  ASSUME TypeOK, NEW t \in Threads, Reads(t)
  PROVE  /\ UNCHANGED <<findings, evaluations>> /\ ToRecord(t)
         /\ \A x \in Threads : x # t => record'[x] = record[x]
         /\ record'[t].pc = "bump" /\ record'[t].ref = record[t].ref
         /\ \E f \in findings : record'[t].id = f.id /\ record'[t].refs = f.refs
<1>1. record[t] \in Recording
  BY FindingsAreRecords DEF Reads, NotRecording
<1>2. PICK f \in findings :
        record' = [record EXCEPT ![t].pc = "bump", ![t].id = f.id, ![t].count = f.count, ![t].refs = f.refs]
  BY DEF Reads
<1>3. /\ \A x \in Threads : x # t => record'[x] = record[x]
      /\ record'[t].pc = "bump" /\ record'[t].ref = record[t].ref
      /\ record'[t].id = f.id /\ record'[t].refs = f.refs
  BY <1>1, <1>2 DEF TypeOK, FindingsTypeOK, Recording
<1>4. QED
  BY <1>3 DEF Reads, ToRecord

LEMMA WhatBumpDoes ==
  ASSUME FindingsInv, Diverged, Remember, NEW t \in Threads, Bumps(t)
  PROVE  /\ Bumping(t) /\ UNCHANGED evaluations
         /\ record'[t] = NotRecording /\ \A x \in Threads : x # t => record'[x] = record[x]
         /\ \A f \in findings : f.id # record[t].id => f \in findings'
         /\ \E g \in findings' : g.id = record[t].id /\ g.refs = record[t].refs \cup {record[t].ref}
         /\ \A g \in findings' : \/ g \in findings /\ g.id # record[t].id
                                 \/ /\ g.id = record[t].id /\ g.refs = record[t].refs \cup {record[t].ref}
                                    /\ \E f \in findings : g.id = f.id /\ g.device = f.device /\ g.title = f.title
                                                         /\ g.policy = f.policy /\ g.status = f.status
         /\ Written(t)
<1>1. TypeOK /\ record[t].pc = "bump"
  BY DEF FindingsInv, Bumps, BumpFinding
<1>2. record'[t] = NotRecording /\ \A x \in Threads : x # t => record'[x] = record[x]
  BY <1>1, OthersRecords DEF Bumps, BumpFinding, EndRecord
<1>3. findings' = {IF f.id = record[t].id THEN Bumped(t, f) ELSE f : f \in findings}
  BY DEF Bumps, BumpFinding
<1>4. \A f \in findings : /\ Bumped(t, f).id = f.id /\ Bumped(t, f).device = f.device
                          /\ Bumped(t, f).title = f.title /\ Bumped(t, f).policy = f.policy
                          /\ Bumped(t, f).status = f.status
                          /\ Bumped(t, f).refs = record[t].refs \cup {record[t].ref}
  BY <1>1, FindingsAreRecords DEF Bumped, Finding
<1>5. PICK f \in findings : f.id = record[t].id
  BY <1>1 DEF Diverged, Bumping
<1>6. Bumped(t, f) \in findings'
  BY <1>3, <1>5
<1>7. \A g \in findings : record[t].ref \notin g.refs
  BY <1>1 DEF FindingsInv, RefsOwned, ToRecord
<1>8. findings' # findings
  BY <1>4, <1>6, <1>7
<1>9. Written(t)
  BY <1>1, <1>2, <1>8 DEF Written, NotRecording
<1>10. \E g \in findings' : g.id = record[t].id /\ g.refs = record[t].refs \cup {record[t].ref}
  BY <1>4, <1>5, <1>6
<1>11. \A g \in findings : g.id # record[t].id => g \in findings'
  BY <1>3
<1>12. ASSUME NEW g \in findings'
       PROVE  \/ g \in findings /\ g.id # record[t].id
              \/ /\ g.id = record[t].id /\ g.refs = record[t].refs \cup {record[t].ref}
                 /\ \E h \in findings : g.id = h.id /\ g.device = h.device /\ g.title = h.title
                                      /\ g.policy = h.policy /\ g.status = h.status
  BY <1>3, <1>4
<1>13. QED
  BY <1>1, <1>2, <1>9, <1>10, <1>11, <1>12 DEF Bumping, Bumps

LEMMA WhatInsertDoes ==
  ASSUME FindingsInv, Remember, NEW t \in Threads, Inserts(t)
  PROVE  /\ record[t].pc = "insert" /\ record[t] \in Recording /\ UNCHANGED evaluations
         /\ record'[t].pc = "alert" /\ record'[t].ref = record[t].ref
         /\ \A x \in Threads : x # t => record'[x] = record[x]
         /\ findings' = findings \cup {NewFinding(t)}
         /\ NewFinding(t).id = record[t].ref /\ NewFinding(t).refs = {record[t].ref}
         /\ \A f \in findings : record[t].ref \notin f.refs /\ f.id # record[t].ref
         /\ Written(t)
<1>1. TypeOK /\ record[t].pc = "insert"
  BY DEF FindingsInv, Inserts, InsertFinding
<1>2. record[t] \in Recording
  BY <1>1, FindingsAreRecords DEF NotRecording
<1>3. /\ record'[t].pc = "alert" /\ record'[t].ref = record[t].ref
      /\ \A x \in Threads : x # t => record'[x] = record[x]
  BY <1>1, <1>2 DEF Inserts, InsertFinding, TypeOK, FindingsTypeOK, Recording
<1>4. findings' = findings \cup {NewFinding(t)}
  BY DEF Inserts, InsertFinding
<1>5. NewFinding(t).id = record[t].ref /\ NewFinding(t).refs = {record[t].ref}
  BY DEF NewFinding
<1>6. \A f \in findings : record[t].ref \notin f.refs /\ f.id # record[t].ref
  BY <1>1 DEF FindingsInv, RefsOwned, IdsDrawn, ToRecord
<1>7. findings' # findings
  BY <1>4, <1>5, <1>6
<1>8. Written(t)
  BY <1>1, <1>3, <1>7 DEF Written
<1>9. QED
  BY <1>1, <1>2, <1>3, <1>4, <1>5, <1>6, <1>8 DEF Inserts

\* Only an occurrence that met another one drops out of the evidence.
LEMMA KeepsStep ==
  ASSUME FindingsInv, Diverged, Next, Remember
  PROVE  Keeps
<1>1. CASE Quiet
  BY <1>1 DEF Quiet, SameFindings, Likeness, Keeps
<1>2. ASSUME NEW t \in Threads, Reads(t) PROVE Keeps
  BY <1>2 DEF Reads, Keeps
<1>3. ASSUME NEW t \in Threads, Inserts(t) PROVE Keeps
  BY <1>3 DEF Inserts, InsertFinding, Keeps
<1>4. ASSUME NEW t \in Threads, Bumps(t) PROVE Keeps
  <2>1. /\ Bumping(t)
        /\ \A f \in findings : f.id # record[t].id => f \in findings'
        /\ \E g \in findings' : g.id = record[t].id /\ g.refs = record[t].refs \cup {record[t].ref}
    BY <1>4, WhatBumpDoes
  <2>2. \A f \in findings : f.id = record[t].id => f.refs \ record[t].refs \subseteq raced'
    BY <2>1, HistoryGrows DEF Diverged
  <2>3. QED
    BY <2>1, <2>2 DEF Keeps
<1>5. QED
  BY <1>1, <1>2, <1>3, <1>4, StepKinds DEF FindingsInv

LEMMA AccountedStep ==
  ASSUME FindingsInv, Accounted, Diverged, Next, Remember
  PROVE  Accounted'
<1>1. ASSUME NEW i, Traced(i) PROVE Traced(i)'
  BY <1>1, KeepsStep, HistoryGrows DEF Traced, Keeps
<1>2. \A i : \A x \in Threads : ToRecord(x) /\ record[x].ref = i =>
        (ToRecord(x)' /\ record'[x].ref = i) \/ Traced(i)'
  <2>1. CASE Quiet
    <3>1. ASSUME NEW x \in Threads, ToRecord(x), record'[x] = NotRecording, findings' = findings
          PROVE  record[x].ref \in failed'
      BY <3>1 DEF Remember, Dropped, ToRecord, NotRecording
    <3>2. QED
      BY <2>1, <3>1 DEF Quiet, Traced
  <2>2. ASSUME NEW t \in Threads, Reads(t) PROVE \A x \in Threads : ToRecord(x) => ToRecord(x)' /\ record'[x].ref = record[x].ref
    BY <2>2, WhatReadsDoes DEF ToRecord, FindingsInv
  <2>3. ASSUME NEW t \in Threads, Bumps(t)
        PROVE  \A i : \A x \in Threads : ToRecord(x) /\ record[x].ref = i =>
                 (ToRecord(x)' /\ record'[x].ref = i) \/ Traced(i)'
    <3>1. \A x \in Threads : x # t => record'[x] = record[x]
      BY <2>3, WhatBumpDoes
    <3>2. \E g \in findings' : g.refs = record[t].refs \cup {record[t].ref}
      BY <2>3, WhatBumpDoes
    <3>3. QED
      BY <3>1, <3>2 DEF ToRecord, Traced
  <2>4. ASSUME NEW t \in Threads, Inserts(t)
        PROVE  \A i : \A x \in Threads : ToRecord(x) /\ record[x].ref = i =>
                 (ToRecord(x)' /\ record'[x].ref = i) \/ Traced(i)'
    <3>1. /\ \A x \in Threads : x # t => record'[x] = record[x]
          /\ NewFinding(t) \in findings' /\ NewFinding(t).refs = {record[t].ref}
      BY <2>4, WhatInsertDoes
    <3>2. QED
      BY <3>1 DEF ToRecord, Traced
  <2>5. QED
    BY <2>1, <2>2, <2>3, <2>4, StepKinds DEF FindingsInv
<1>3. \A e \in evaluations' : e.result = "fail" =>
        e \in evaluations \/ \E t \in Threads : ToRecord(t)' /\ record'[t].ref = e.id
  BY StepKinds DEF FindingsInv, Quiet, Reads, Bumps, Inserts
<1>4. QED
  BY <1>1, <1>2, <1>3 DEF Accounted

LEMMA DivergedStep ==
  ASSUME FindingsInv, Diverged, Next, Remember
  PROVE  Diverged'
<1>0. raced \subseteq raced'
  BY HistoryGrows
<1>1. CASE Quiet
  <2>1. \A x \in Threads : Bumping(x)' => record'[x] = record[x] /\ Bumping(x)
    BY <1>1 DEF Quiet, Bumping
  <2>2. \A f \in findings : \E g \in findings' : g.id = f.id /\ g.refs = f.refs
    BY <1>1 DEF Quiet, SameFindings, Likeness
  <2>3. \A g \in findings' : \E f \in findings : g.id = f.id /\ g.refs = f.refs
    BY <1>1 DEF Quiet, SameFindings, Likeness
  <2>4. QED
    BY <1>0, <2>1, <2>2, <2>3 DEF Diverged
<1>2. ASSUME NEW t \in Threads, Reads(t) PROVE Diverged'
  <2>1. /\ UNCHANGED findings /\ \A x \in Threads : x # t => record'[x] = record[x]
        /\ record'[t].pc = "bump"
    BY <1>2, WhatReadsDoes DEF FindingsInv
  <2>2. PICK f \in findings : record'[t].id = f.id /\ record'[t].refs = f.refs
    BY <1>2, WhatReadsDoes DEF FindingsInv
  <2>3. \A g \in findings : g.id = f.id => g = f
    BY DEF FindingsInv, IdsUnique
  <2>4. \A x \in Threads : x # t /\ Bumping(x)' => Bumping(x) /\ record'[x] = record[x]
    BY <2>1 DEF Bumping
  <2>5. ASSUME NEW x \in Threads, x # t, Bumping(x)', record[x].id = f.id
        PROVE  f.refs \ record[x].refs \subseteq raced' /\ record[x].refs \ f.refs \subseteq raced'
    BY <1>0, <2>4, <2>5 DEF Diverged
  <2>6. ASSUME NEW x \in Threads, Bumping(x)'
        PROVE  /\ \E g \in findings' : g.id = record'[x].id
               /\ \A g \in findings' : g.id = record'[x].id =>
                    g.refs \ record'[x].refs \subseteq raced' /\ record'[x].refs \ g.refs \subseteq raced'
    BY <1>0, <2>1, <2>2, <2>3, <2>4, <2>6 DEF Diverged
  <2>7. ASSUME NEW x \in Threads, Bumping(x)', NEW u \in Threads, Bumping(u)', record'[u].id = record'[x].id
        PROVE  record'[x].refs \ record'[u].refs \subseteq raced'
    <3>1. CASE x = t /\ u = t
      BY <3>1
    <3>2. CASE x = t /\ u # t
      BY <2>2, <2>4, <2>5, <2>7, <3>2
    <3>3. CASE x # t /\ u = t
      BY <2>2, <2>4, <2>5, <2>7, <3>3
    <3>4. CASE x # t /\ u # t
      BY <1>0, <2>4, <2>7, <3>4 DEF Diverged
    <3>5. QED
      BY <3>1, <3>2, <3>3, <3>4
  <2>8. QED
    BY <2>6, <2>7 DEF Diverged
<1>3. ASSUME NEW t \in Threads, Bumps(t) PROVE Diverged'
  <2>1. /\ Bumping(t) /\ record'[t] = NotRecording /\ \A x \in Threads : x # t => record'[x] = record[x]
        /\ \A f \in findings : f.id # record[t].id => f \in findings'
        /\ \E g \in findings' : g.id = record[t].id /\ g.refs = record[t].refs \cup {record[t].ref}
        /\ \A g \in findings' : \/ g \in findings /\ g.id # record[t].id
                                \/ g.id = record[t].id /\ g.refs = record[t].refs \cup {record[t].ref}
        /\ Written(t)
    BY <1>3, WhatBumpDoes
  <2>2. \A x \in Threads : Bumping(x)' => x # t /\ Bumping(x) /\ record'[x] = record[x]
    BY <2>1 DEF Bumping, NotRecording
  <2>3. ASSUME NEW x \in Threads, x # t, Bumping(x), record[x].id = record[t].id
        PROVE  record[t].ref \in raced'
    BY <2>1, <2>3, RecordRace DEF RecordRivals, Bumping
  <2>4. ASSUME NEW x \in Threads, Bumping(x)'
        PROVE  \E g \in findings' : g.id = record'[x].id
    <3>1. PICK f \in findings : f.id = record[x].id
      BY <2>2, <2>4 DEF Diverged
    <3>2. QED
      BY <2>1, <2>2, <2>4, <3>1
  <2>5. ASSUME NEW x \in Threads, Bumping(x)', NEW g \in findings', g.id = record'[x].id
        PROVE  g.refs \ record'[x].refs \subseteq raced' /\ record'[x].refs \ g.refs \subseteq raced'
    <3>1. x # t /\ Bumping(x) /\ record'[x] = record[x]
      BY <2>2, <2>5
    <3>2. CASE g \in findings /\ g.id # record[t].id
      BY <1>0, <2>5, <3>1, <3>2 DEF Diverged
    <3>3. CASE g.id = record[t].id /\ g.refs = record[t].refs \cup {record[t].ref}
      <4>1. record[t].ref \in raced'
        BY <2>3, <2>5, <3>1, <3>3
      <4>2. record[t].refs \ record[x].refs \subseteq raced' /\ record[x].refs \ record[t].refs \subseteq raced'
        BY <1>0, <2>1, <2>5, <3>1, <3>3 DEF Diverged
      <4>3. QED
        BY <3>1, <3>3, <4>1, <4>2
    <3>4. QED
      BY <2>1, <2>5, <3>2, <3>3
  <2>6. \A x, u \in Threads : Bumping(x)' /\ Bumping(u)' /\ record'[u].id = record'[x].id =>
          record'[x].refs \ record'[u].refs \subseteq raced'
    BY <1>0, <2>2 DEF Diverged
  <2>7. QED
    BY <2>4, <2>5, <2>6 DEF Diverged
<1>4. ASSUME NEW t \in Threads, Inserts(t) PROVE Diverged'
  <2>1. /\ record[t].pc = "insert" /\ record'[t].pc = "alert"
        /\ \A x \in Threads : x # t => record'[x] = record[x]
        /\ findings' = findings \cup {NewFinding(t)} /\ NewFinding(t).id = record[t].ref
    BY <1>4, WhatInsertDoes
  <2>2. \A x \in Threads : Bumping(x)' => Bumping(x) /\ record'[x] = record[x]
    BY <2>1 DEF Bumping
  <2>3. \A x \in Threads : Bumping(x) => record[x].id # record[t].ref
    BY <2>1 DEF FindingsInv, RefsOwned, ReadWell, ToRecord, Bumping
  <2>4. QED
    BY <1>0, <2>1, <2>2, <2>3 DEF Diverged
<1>5. QED
  BY <1>1, <1>2, <1>3, <1>4, StepKinds DEF FindingsInv

EvidenceInv == Accounted /\ Diverged

LEMMA EvidenceAlways == MCSpec => []EvidenceInv
<1>1. MCInit => EvidenceInv
  BY DEF MCInit, Init, FindingsInit, EvidenceInv, Accounted, Diverged, Bumping, NotRecording
<1>2. FindingsInv /\ EvidenceInv /\ [MCNext]_<<vars, historyVars>> => EvidenceInv'
  <2>1. CASE UNCHANGED <<vars, historyVars>>
    BY <2>1 DEF vars, findingVars, policyVars, historyVars, EvidenceInv, Accounted, Diverged, Bumping,
       ToRecord, Traced
  <2>2. QED
    BY <2>1, WatchedStep, AccountedStep, DivergedStep DEF EvidenceInv
<1>3. QED
  BY <1>1, <1>2, Watched, FindingsConsistent, PTL DEF MCSpec

\* "On FAIL, create/update a Finding": no failed evaluation goes unnoticed, unless it
\* met another occurrence of its finding, or a fault.
THEOREM FailuresAreAlwaysFound == MCSpec => []FailuresAreFound
<1>1. EvidenceInv => FailuresAreFound
  BY DEF EvidenceInv, Accounted, Traced, FailuresAreFound, ToRecord, NotRecording
<1>2. QED
  BY <1>1, EvidenceAlways, PTL

\* Evidence, once given, is kept: only an occurrence that met another one drops out.
THEOREM EvidenceIsKept == MCSpec => EvidenceKept
<1>1. FindingsInv /\ EvidenceInv /\ [MCNext]_<<vars, historyVars>> => [Keeps]_vars
  BY WatchedStep, KeepsStep DEF EvidenceInv
<1>2. QED
  BY <1>1, Watched, FindingsConsistent, EvidenceAlways, PTL DEF MCSpec, EvidenceKept, Keeps

-----------------------------------------------------------------------------
(* One active finding.  A call at "insert" found none when it looked; any  *)
(* that is there when it writes came by a race or was reopened.            *)

Key(r) == <<r.device, r.policy, r.title>>

NoneBefore ==
  \A t \in Threads : record[t].pc = "insert" =>
    \A f \in findings : f.status \in Active /\ Key(f) = Key(record[t]) => f.id \in raced \cup reopened

OneActiveInv == OneActiveFinding /\ NoneBefore

\* A call comes to "insert" from a look-up that found no active finding.
LEMMA InsertKinds ==
  ASSUME TypeOK, Next, NEW x \in Threads, record'[x].pc = "insert"
  PROVE  \/ record'[x] = record[x]
         \/ /\ UNCHANGED findings
            /\ \A f \in findings : ~(f.status \in Active /\ Key(f) = Key(record'[x]))
<1> USE DEF NotRecording
<1>1. ASSUME NEW t \in Threads, RecordOne(t), x = t
      PROVE  \/ record'[x] = record[x]
             \/ /\ UNCHANGED findings
                /\ \A f \in findings : ~(f.status \in Active /\ Key(f) = Key(record'[x]))
  <2>0. record[t] \in Recording
    BY <1>1, FindingsAreRecords DEF RecordOne
  <2>1. CASE LookupFinding(t) /\ record' = [record EXCEPT ![t].pc = "insert"]
                             /\ \A f \in findings : ~SameFinding(t, f)
    <3>1. Key(record'[t]) = Key(record[t])
      BY <2>0, <2>1 DEF Key, TypeOK, FindingsTypeOK, Recording
    <3>2. \A f \in findings : ~(f.status \in Active /\ Key(f) = Key(record[t]))
      BY <2>1 DEF Key, SameFinding
    <3>3. QED
      BY <1>1, <2>1, <3>1, <3>2 DEF LookupFinding
  <2>2. CASE Reads(t)
    BY <1>1, <2>2, WhatReadsDoes
  <2>3. CASE EndRecord(t)
    BY <1>1, <2>3, OthersRecords DEF EndRecord
  <2>4. CASE UNCHANGED record
    BY <2>4
  <2>5. CASE record' = [record EXCEPT ![t].pc = "alert"]
    BY <1>1, <2>0, <2>5 DEF TypeOK, FindingsTypeOK, Recording
  <2>6. QED
    BY <1>1, <2>1, <2>2, <2>3, <2>4, <2>5 DEF RecordOne, RecordStep, LookupFinding, Reads, BumpFinding,
       InsertFinding, Alerting, RecordFails, policyVars
<1>2. ASSUME NEW t \in Threads, RecordOne(t), x # t PROVE record'[x] = record[x]
  <2>1. record[t] \in Recording
    BY <1>2, FindingsAreRecords DEF RecordOne
  <2>2. \/ UNCHANGED record \/ EndRecord(t)
        \/ record' = [record EXCEPT ![t].pc = "insert"]
        \/ record' = [record EXCEPT ![t].pc = "alert"]
        \/ Reads(t)
    BY <1>2 DEF RecordOne, RecordStep, LookupFinding, BumpFinding, InsertFinding, Alerting, RecordFails, Reads,
       policyVars
  <2>3. CASE Reads(t)
    BY <1>2, <2>3, WhatReadsDoes
  <2>4. QED
    BY <1>2, <2>2, <2>3 DEF EndRecord, TypeOK, FindingsTypeOK
<1>3. ASSUME NEW t \in Threads, NEW d \in Devices, NEW result \in Results, EvaluateOne(t, d, result)
      PROVE  record'[x] = record[x]
  <2> DEFINE r == Occurrence(d, task[t].policy, task[t].name, clock)
  <2>1. r.pc = "lookup"
    BY DEF Occurrence
  <2>2. UNCHANGED record \/ record' = [record EXCEPT ![t] = r]
    BY <1>3 DEF EvaluateOne, BeginRecord
  <2> HIDE DEF r
  <2>3. QED
    BY <2>1, <2>2, OthersRecords
<1>4. CASE Restart
  BY <1>4 DEF Restart
<1>5. QED
  BY <1>1, <1>2, <1>3, <1>4 DEF Next, Administer, CreatePolicy, UpdatePolicy, DeletePolicy, Operate,
     SetFindingStatus, SetAlertStatus, Evaluate, BeginEvaluation, EndEvaluation, findingVars, policyVars

\* But for a new one, every active finding was one, or is reopened.
LEMMA ActiveBefore ==
  ASSUME FindingsInv, Diverged, Next, Remember, NEW g \in findings', g.status \in Active
  PROVE  \/ \E f \in findings :
              /\ g.id = f.id /\ g.device = f.device /\ g.title = f.title /\ g.policy \in {f.policy, NoPolicy}
              /\ f.status \in Active \/ g.id \in reopened'
         \/ \E t \in Threads : Inserts(t) /\ g = NewFinding(t)
<1>1. ASSUME NEW f \in findings, g.id = f.id PROVE f.status \in Active \/ g.id \in reopened'
  <2>1. f.status \in Active \cup Closed
    BY FindingsAreRecords DEF FindingsInv, Finding
  <2>2. CASE f.status \in Closed
    BY <1>1, <2>2 DEF Remember
  <2>3. QED
    BY <2>1, <2>2
<1>2. CASE Quiet
  BY <1>1, <1>2 DEF Quiet, SameFindings, Likeness
<1>3. ASSUME NEW t \in Threads, Reads(t)
      PROVE  \E f \in findings : g.id = f.id /\ g.device = f.device /\ g.title = f.title /\ g.policy = f.policy
  BY <1>3 DEF Reads
<1>4. ASSUME NEW t \in Threads, Bumps(t)
      PROVE  \E f \in findings : g.id = f.id /\ g.device = f.device /\ g.title = f.title /\ g.policy = f.policy
  <2>1. \/ g \in findings
        \/ \E f \in findings : g.id = f.id /\ g.device = f.device /\ g.title = f.title
                              /\ g.policy = f.policy /\ g.status = f.status
    BY <1>4, WhatBumpDoes
  <2>2. QED
    BY <2>1
<1>5. ASSUME NEW t \in Threads, Inserts(t)
      PROVE  \/ \E f \in findings : g.id = f.id /\ g.device = f.device /\ g.title = f.title /\ g.policy = f.policy
             \/ g = NewFinding(t)
  BY <1>5 DEF Inserts, InsertFinding
<1>6. QED
  BY <1>1, <1>2, <1>3, <1>4, <1>5, StepKinds DEF FindingsInv

LEMMA OneActiveStep ==
  ASSUME FindingsInv, FindingsInv', Diverged, OneActiveInv, Next, Remember
  PROVE  OneActiveInv'
<1>0. raced \subseteq raced' /\ reopened \subseteq reopened'
  BY HistoryGrows
<1>1. ASSUME NEW t \in Threads, Inserts(t), NEW f \in findings', f.status \in Active,
             Key(f) = Key(NewFinding(t)), f # NewFinding(t)
      PROVE  f.id \in raced' \cup reopened'
  <2>1. f \in findings /\ record[t].pc = "insert"
    BY <1>1 DEF Inserts, InsertFinding
  <2>2. Key(NewFinding(t)) = Key(record[t])
    BY DEF Key, NewFinding
  <2>3. QED
    BY <1>0, <1>1, <2>1, <2>2 DEF OneActiveInv, NoneBefore
<1>2. OneActiveFinding'
  <2>1. SUFFICES ASSUME NEW f \in findings', NEW g \in findings', f.status \in Active, g.status \in Active,
                        Key(f) = Key(g), f.policy # NoPolicy, f # g
                 PROVE  {f.id, g.id} \cap (raced' \cup reopened') # {}
    BY DEF OneActiveFinding, Key
  <2>2. CASE \E t \in Threads : Inserts(t) /\ (f = NewFinding(t) \/ g = NewFinding(t))
    BY <1>1, <2>1, <2>2
  <2>3. CASE ~ \E t \in Threads : Inserts(t) /\ (f = NewFinding(t) \/ g = NewFinding(t))
    <3>1. PICK f1 \in findings :
            /\ f.id = f1.id /\ f.device = f1.device /\ f.title = f1.title /\ f.policy \in {f1.policy, NoPolicy}
            /\ f1.status \in Active \/ f.id \in reopened'
      BY <2>1, <2>3, ActiveBefore
    <3>2. PICK g1 \in findings :
            /\ g.id = g1.id /\ g.device = g1.device /\ g.title = g1.title /\ g.policy \in {g1.policy, NoPolicy}
            /\ g1.status \in Active \/ g.id \in reopened'
      BY <2>1, <2>3, ActiveBefore
    <3>3. f.id # g.id
      BY <2>1 DEF FindingsInv, IdsUnique
    <3>4. g.device = f.device /\ g.policy = f.policy /\ g.title = f.title
      BY <2>1 DEF Key
    <3>5. f1 # g1 /\ f1.device = g1.device /\ f1.policy = g1.policy /\ f1.title = g1.title /\ f1.policy # NoPolicy
      BY <2>1, <3>1, <3>2, <3>3, <3>4
    <3>6. CASE f1.status \in Active /\ g1.status \in Active
      BY <1>0, <3>1, <3>2, <3>5, <3>6 DEF OneActiveInv, OneActiveFinding
    <3>7. QED
      BY <3>1, <3>2, <3>6
  <2>4. QED
    BY <2>2, <2>3
<1>3. NoneBefore'
  <2>1. SUFFICES ASSUME NEW x \in Threads, record'[x].pc = "insert",
                        NEW g \in findings', g.status \in Active, Key(g) = Key(record'[x])
                 PROVE  g.id \in raced' \cup reopened'
    BY DEF NoneBefore
  <2>2. CASE UNCHANGED findings /\ \A f \in findings : ~(f.status \in Active /\ Key(f) = Key(record'[x]))
    BY <2>1, <2>2
  <2>3. CASE record'[x] = record[x]
    <3>1. record[x] \in Recording
      BY <2>1, <2>3, FindingsAreRecords DEF FindingsInv, NotRecording
    <3>2. g.policy # NoPolicy
      BY <2>1, <2>3, <3>1, FindingsAssumption DEF Key, Recording
    <3>3. ASSUME NEW f \in findings, g.id = f.id, g.device = f.device, g.title = f.title,
                 g.policy \in {f.policy, NoPolicy}, f.status \in Active \/ g.id \in reopened'
          PROVE  g.id \in raced' \cup reopened'
      BY <1>0, <2>1, <2>3, <3>2, <3>3 DEF OneActiveInv, NoneBefore, Key
    <3>4. ASSUME NEW t \in Threads, Inserts(t), g = NewFinding(t)
          PROVE  g.id \in raced' \cup reopened'
      <4>1. /\ record[t].pc = "insert" /\ record'[t].pc = "alert" /\ Written(t)
            /\ NewFinding(t).id = record[t].ref
        BY <3>4, WhatInsertDoes
      <4>2. Key(record[t]) = Key(record[x]) /\ x # t
        BY <2>1, <2>3, <3>4, <4>1 DEF Key, NewFinding
      <4>3. x \in RecordRivals(t)
        BY <2>1, <2>3, <4>1, <4>2 DEF RecordRivals, Key
      <4>4. QED
        BY <3>4, <4>1, <4>2, <4>3, RecordRace
    <3>5. QED
      BY <2>1, <3>3, <3>4, ActiveBefore
  <2>4. QED
    BY <2>1, <2>2, <2>3, InsertKinds DEF FindingsInv
<1>4. QED
  BY <1>2, <1>3 DEF OneActiveInv

\* "Do NOT insert a new row": a device has one active finding per policy and title,
\* unless two were inserted at once, or an operator reopened one.
THEOREM AlwaysOneActiveFinding == MCSpec => []OneActiveFinding
<1>1. MCInit => OneActiveInv
  BY DEF MCInit, Init, FindingsInit, OneActiveInv, OneActiveFinding, NoneBefore, NotRecording
<1>2. FindingsInv /\ FindingsInv' /\ EvidenceInv /\ OneActiveInv /\ [MCNext]_<<vars, historyVars>> => OneActiveInv'
  <2>1. CASE UNCHANGED <<vars, historyVars>>
    BY <2>1 DEF vars, findingVars, policyVars, historyVars, OneActiveInv, OneActiveFinding, NoneBefore
  <2>2. QED
    BY <2>1, WatchedStep, OneActiveStep DEF EvidenceInv
<1>3. OneActiveInv => OneActiveFinding
  BY DEF OneActiveInv
<1>4. QED
  BY <1>1, <1>2, <1>3, Watched, FindingsConsistent, EvidenceAlways, PTL DEF MCSpec

-----------------------------------------------------------------------------
(* Alerts.  A thread that is emitting does so for the finding it has just  *)
(* inserted.                                                               *)

SameTopic(a, b) == a.device = b.device /\ a.title = b.title

\* the alerts of a step that inserts none
OldAlerts ==
  /\ \A a \in alerts : \E b \in alerts' : SameTopic(a, b)
  /\ \A b \in alerts' : b.status = "new" => b \in alerts

Emits(t) == Alerting(t) /\ UNCHANGED <<evaluations, policies>>

Silent ==
  /\ OldAlerts /\ UNCHANGED emit
  /\ \A x \in Threads : record[x].pc = "alert" => record'[x] = record[x]

Stops ==
  /\ UNCHANGED <<alerts, findings>>
  /\ \A x \in Threads : emit'[x] = NotEmitting

LEMMA AlertsAreRecords ==
  ASSUME TypeOK
  PROVE  /\ \A a \in alerts : a \in Alert
         /\ \A t \in Threads : emit[t] # NotEmitting => emit[t] \in Emission
BY DEF TypeOK, FindingsTypeOK, AlertsTypeOK

LEMMA EmitKinds ==
  ASSUME TypeOK, Next
  PROVE  Silent \/ Stops \/ \E t \in Threads : Inserts(t) \/ Emits(t)
<1>1. UNCHANGED alerts => OldAlerts
  BY DEF OldAlerts, SameTopic
<1>2. ASSUME UNCHANGED <<alertVars, record>> PROVE Silent
  BY <1>1, <1>2 DEF Silent, alertVars
<1>3. ASSUME NEW a \in alerts, NEW status \in AlertStatus, SetAlertStatus(a, status), UNCHANGED record
      PROVE  Silent
  <2> DEFINE b == [a EXCEPT !.status = status]
  <2>1. SameTopic(a, b) /\ b.status = status /\ status # "new" /\ \A c \in alerts : SameTopic(c, c)
    BY <1>3, AlertsAreRecords DEF SameTopic, Alert, SetAlertStatus
  <2>2. alerts' = (alerts \ {a}) \cup {b} /\ UNCHANGED emit
    BY <1>3 DEF SetAlertStatus
  <2> HIDE DEF b
  <2>3. OldAlerts
    BY <2>1, <2>2 DEF OldAlerts
  <2>4. QED
    BY <1>3, <2>2, <2>3 DEF Silent
<1>4. ASSUME NEW t \in Threads, NEW r, record' = [record EXCEPT ![t] = r], record[t].pc # "alert",
             UNCHANGED alertVars
      PROVE  Silent
  BY <1>1, <1>4, OthersRecords DEF Silent, alertVars
<1>5. ASSUME NEW t \in Threads, NEW d \in Devices, NEW result \in Results, EvaluateOne(t, d, result)
      PROVE  Silent
  BY <1>2, <1>4, <1>5 DEF EvaluateOne, BeginRecord, NotRecording
<1>6. ASSUME NEW t \in Threads, RecordOne(t) PROVE Silent \/ Inserts(t) \/ Emits(t)
  <2>1. CASE LookupFinding(t)
    <3>1. record[t] \in Recording /\ record[t].pc # "alert" /\ UNCHANGED alertVars
      BY <1>6, <2>1, FindingsAreRecords DEF RecordOne, LookupFinding
    <3>2. \A x \in Threads : x # t => record'[x] = record[x]
      BY <2>1, <3>1 DEF LookupFinding, TypeOK, FindingsTypeOK
    <3>3. QED
      BY <1>1, <3>1, <3>2 DEF Silent, alertVars
  <2>2. CASE EndRecord(t) /\ UNCHANGED alertVars /\ record[t].pc # "alert"
    BY <1>4, <2>2 DEF EndRecord
  <2>3. QED
    BY <1>6, <2>1, <2>2 DEF RecordOne, RecordStep, BumpFinding, RecordFails, Inserts, Emits, policyVars
<1>7. CASE Restart
  BY <1>7 DEF Restart, Stops
<1>8. QED
  BY <1>2, <1>3, <1>5, <1>6, <1>7 DEF Next, Administer, CreatePolicy, UpdatePolicy, DeletePolicy, Operate,
     SetFindingStatus, Evaluate, BeginEvaluation, EndEvaluation, findingVars, policyVars

\* A thread at "insert" found no new alert of its topic when it looked.
NoneNew ==
  \A t \in Threads : emit[t].pc = "insert" =>
    \A a \in alerts : a.status = "new" /\ SameTopic(a, emit[t]) => a.id \in raced

OneNewInv == OneNewAlert /\ NoneNew

\* A thread's emission changes alone.
LEMMA OthersEmissions ==
  ASSUME TypeOK, NEW t \in Threads, NEW r, emit' = [emit EXCEPT ![t] = r]
  PROVE  emit'[t] = r /\ \A x \in Threads : x # t => emit'[x] = emit[x]
BY DEF TypeOK, FindingsTypeOK, AlertsTypeOK

LEMMA OneNewStep ==
  ASSUME TypeOK, OneNewInv, Next, Remember
  PROVE  OneNewInv'
<1>0. raced \subseteq raced'
  BY HistoryGrows
<1>1. ASSUME \A b \in alerts' : b.status = "new" => b \in alerts,
             \A x \in Threads : emit'[x].pc = "insert" => emit'[x] = emit[x]
      PROVE  OneNewInv'
  BY <1>0, <1>1 DEF OneNewInv, OneNewAlert, NoneNew
<1>2. CASE Silent
  BY <1>1, <1>2 DEF Silent, OldAlerts
<1>3. CASE Stops
  BY <1>1, <1>3 DEF Stops, NotEmitting
<1>4. ASSUME NEW t \in Threads, Inserts(t) PROVE OneNewInv'
  <2> DEFINE r == [pc |-> "lookup", id |-> record[t].ref, device |-> record[t].device, title |-> record[t].title]
  <2>1. r.pc = "lookup"
    OBVIOUS
  <2>2. emit' = [emit EXCEPT ![t] = r] /\ UNCHANGED alerts
    BY <1>4 DEF Inserts, InsertFinding, BeginEmit
  <2> HIDE DEF r
  <2>3. QED
    BY <1>1, <2>1, <2>2, OthersEmissions
<1>5. ASSUME NEW t \in Threads, EndEmit(t), UNCHANGED alerts PROVE OneNewInv'
  BY <1>1, <1>5, OthersEmissions DEF EndEmit, NotEmitting
<1>6. ASSUME NEW t \in Threads, LookupAlert(t) PROVE OneNewInv'
  <2>1. CASE EndEmit(t)
    BY <1>5, <1>6, <2>1 DEF LookupAlert
  <2>2. CASE emit' = [emit EXCEPT ![t].pc = "insert"] /\ \A a \in alerts : ~HoldsBack(t, a)
    <3>1. emit[t] \in Emission
      BY <1>6, AlertsAreRecords DEF LookupAlert, NotEmitting
    <3>2. /\ emit'[t].device = emit[t].device /\ emit'[t].title = emit[t].title
          /\ \A x \in Threads : x # t => emit'[x] = emit[x]
      BY <2>2, <3>1 DEF TypeOK, FindingsTypeOK, AlertsTypeOK, Emission
    <3>3. \A a \in alerts : ~(a.status = "new" /\ SameTopic(a, emit'[t]))
      BY <2>2, <3>2 DEF HoldsBack, SameAlert, SameTopic
    <3>4. UNCHANGED alerts
      BY <1>6 DEF LookupAlert
    <3>5. OneNewAlert'
      BY <1>0, <3>4 DEF OneNewInv, OneNewAlert
    <3>6. NoneNew'
      BY <1>0, <3>2, <3>3, <3>4 DEF OneNewInv, NoneNew
    <3>7. QED
      BY <3>5, <3>6 DEF OneNewInv
  <2>3. QED
    BY <1>6, <2>1, <2>2 DEF LookupAlert
<1>7. ASSUME NEW t \in Threads, InsertAlert(t) PROVE OneNewInv'
  <2> DEFINE b == [id |-> emit[t].id, device |-> emit[t].device, title |-> emit[t].title, status |-> "new"]
  <2>1. /\ emit[t].pc = "insert" /\ emit'[t] = NotEmitting
        /\ \A x \in Threads : x # t => emit'[x] = emit[x]
    BY <1>7, OthersEmissions DEF InsertAlert, EndEmit
  <2>2. alerts' = alerts \cup {b} /\ b.id = emit[t].id /\ SameTopic(b, emit[t])
    BY <1>7 DEF InsertAlert, SameTopic
  <2> HIDE DEF b
  <2>3. ASSUME NEW a \in alerts, a.status = "new", SameTopic(a, b) PROVE a.id \in raced'
    BY <1>0, <2>1, <2>2, <2>3 DEF OneNewInv, NoneNew, SameTopic
  <2>4. OneNewAlert'
    BY <1>0, <2>2, <2>3 DEF OneNewInv, OneNewAlert, SameTopic
  <2>5. ASSUME NEW x \in Threads, emit'[x].pc = "insert",
               NEW a \in alerts', a.status = "new", SameTopic(a, emit'[x])
        PROVE  a.id \in raced'
    <3>1. x # t /\ emit'[x] = emit[x]
      BY <2>1, <2>5 DEF NotEmitting
    <3>2. CASE a \in alerts
      BY <1>0, <2>5, <3>1, <3>2 DEF OneNewInv, NoneNew
    <3>3. CASE a \notin alerts
      <4>1. a = b /\ alerts' # alerts
        BY <2>2, <2>5, <3>3
      <4>2. Emitted(t) /\ x \in EmitRivals(t)
        BY <2>1, <2>2, <2>5, <3>1, <4>1 DEF Emitted, EmitRivals, SameTopic
      <4>3. QED
        BY <2>2, <3>1, <4>1, <4>2, EmitRace
    <3>4. QED
      BY <3>2, <3>3
  <2>6. NoneNew'
    BY <2>5 DEF NoneNew
  <2>7. QED
    BY <2>4, <2>6 DEF OneNewInv
<1>8. ASSUME NEW t \in Threads, Emits(t) PROVE OneNewInv'
  BY <1>5, <1>6, <1>7, <1>8 DEF Emits, Alerting, EmitStep, EmitFails
<1>9. QED
  BY <1>2, <1>3, <1>4, <1>8, EmitKinds

\* "Identical (device_id, category, title) with status="new" is not duplicated",
\* unless two were inserted at once.
THEOREM AlwaysOneNewAlert == MCSpec => []OneNewAlert
<1>1. MCInit => OneNewInv
  BY DEF MCInit, Init, FindingsInit, AlertsInit, OneNewInv, OneNewAlert, NoneNew, NotEmitting
<1>2. FindingsInv /\ OneNewInv /\ [MCNext]_<<vars, historyVars>> => OneNewInv'
  <2>1. CASE UNCHANGED <<vars, historyVars>>
    BY <2>1 DEF vars, findingVars, alertVars, historyVars, OneNewInv, OneNewAlert, NoneNew
  <2>2. QED
    BY <2>1, WatchedStep, OneNewStep DEF FindingsInv
<1>3. OneNewInv => OneNewAlert
  BY DEF OneNewInv
<1>4. QED
  BY <1>1, <1>2, <1>3, Watched, FindingsConsistent, PTL DEF MCSpec

-----------------------------------------------------------------------------
(* Every finding is alerted.                                               *)

\* A thread emits for a finding that is there, and of that finding's topic.
EmitsForFinding ==
  \A t \in Threads : emit[t] # NotEmitting =>
    /\ record[t].pc = "alert" /\ record[t].ref = emit[t].id
    /\ \E f \in findings : f.id = emit[t].id /\ SameTopic(f, emit[t])

AlertedInv == FindingsAreAlerted /\ EmitsForFinding

\* Findings keep their ids and topics, and but for an insertion there are no more.
LEMMA SameTopics ==
  ASSUME FindingsInv, Diverged, Next, Remember
  PROVE  /\ \A f \in findings : \E g \in findings' : g.id = f.id /\ SameTopic(g, f)
         /\ \A g \in findings' : \/ \E f \in findings : g.id = f.id /\ SameTopic(g, f)
                                 \/ \E t \in Threads : Inserts(t) /\ g = NewFinding(t)
<1>1. CASE Quiet
  BY <1>1 DEF Quiet, SameFindings, Likeness, SameTopic
<1>2. ASSUME NEW t \in Threads, Reads(t)
      PROVE  findings' = findings /\ \A f \in findings : SameTopic(f, f)
  BY <1>2 DEF Reads, SameTopic
<1>3. ASSUME NEW t \in Threads, Inserts(t)
      PROVE  findings' = findings \cup {NewFinding(t)} /\ \A f \in findings : SameTopic(f, f)
  BY <1>3 DEF Inserts, InsertFinding, SameTopic
<1>4. ASSUME NEW t \in Threads, Bumps(t)
      PROVE  /\ \A f \in findings : \E g \in findings' : g.id = f.id /\ SameTopic(g, f)
             /\ \A g \in findings' : \E f \in findings : g.id = f.id /\ SameTopic(g, f)
  <2>1. findings' = {IF f.id = record[t].id THEN Bumped(t, f) ELSE f : f \in findings}
    BY <1>4 DEF Bumps, BumpFinding
  <2>2. \A f \in findings : Bumped(t, f).id = f.id /\ SameTopic(Bumped(t, f), f) /\ SameTopic(f, f)
    BY FindingsAreRecords DEF FindingsInv, Bumped, Finding, SameTopic
  <2>3. QED
    BY <2>1, <2>2
<1>5. QED
  BY <1>1, <1>2, <1>3, <1>4, StepKinds DEF FindingsInv

\* What was alerted, is: alerts are never deleted.
LEMMA AlertsStay ==
  ASSUME TypeOK, Next
  PROVE  \A a \in alerts : \E b \in alerts' : SameTopic(a, b)
<1>1. ASSUME NEW t \in Threads, Inserts(t) \/ Emits(t) PROVE alerts \subseteq alerts'
  BY <1>1 DEF Inserts, InsertFinding, Emits, Alerting, EmitStep, LookupAlert, InsertAlert, EmitFails
<1>2. QED
  BY <1>1, EmitKinds DEF Silent, OldAlerts, Stops, SameTopic

LEMMA EmitsForFindingStep ==
  ASSUME FindingsInv, Diverged, EmitsForFinding, Next, Remember
  PROVE  EmitsForFinding'
<1>0. TypeOK
  BY DEF FindingsInv
<1>1. ASSUME NEW x \in Threads, emit[x] # NotEmitting, emit'[x].id = emit[x].id,
             SameTopic(emit'[x], emit[x]), record'[x] = record[x]
      PROVE  /\ record'[x].pc = "alert" /\ record'[x].ref = emit'[x].id
             /\ \E f \in findings' : f.id = emit'[x].id /\ SameTopic(f, emit'[x])
  BY <1>1, SameTopics DEF EmitsForFinding, SameTopic
<1>2. \A e : SameTopic(e, e)
  BY DEF SameTopic
<1>3. CASE Silent
  BY <1>1, <1>2, <1>3 DEF Silent, EmitsForFinding
<1>4. CASE Stops
  BY <1>4 DEF Stops, EmitsForFinding
<1>5. ASSUME NEW t \in Threads, Inserts(t) PROVE EmitsForFinding'
  <2> DEFINE r == [pc |-> "lookup", id |-> record[t].ref, device |-> record[t].device, title |-> record[t].title]
  <2>1. emit'[t] = r /\ \A x \in Threads : x # t => emit'[x] = emit[x]
    BY <1>0, <1>5, OthersEmissions DEF Inserts, InsertFinding, BeginEmit
  <2>2. r.id = record[t].ref /\ SameTopic(NewFinding(t), r)
    BY DEF NewFinding, SameTopic
  <2> HIDE DEF r
  <2>3. /\ record'[t].pc = "alert" /\ record'[t].ref = record[t].ref
        /\ \A x \in Threads : x # t => record'[x] = record[x]
        /\ NewFinding(t) \in findings' /\ NewFinding(t).id = record[t].ref
    BY <1>5, WhatInsertDoes
  <2>4. /\ record'[t].pc = "alert" /\ record'[t].ref = emit'[t].id
        /\ \E f \in findings' : f.id = emit'[t].id /\ SameTopic(f, emit'[t])
    BY <2>1, <2>2, <2>3
  <2>5. QED
    BY <1>1, <1>2, <2>1, <2>3, <2>4 DEF EmitsForFinding
<1>6. ASSUME NEW t \in Threads, Emits(t) PROVE EmitsForFinding'
  <2>1. CASE EndEmit(t)
    <3>1. emit'[t] = NotEmitting /\ \A x \in Threads : x # t => emit'[x] = emit[x]
      BY <1>0, <2>1, OthersEmissions DEF EndEmit
    <3>2. \A x \in Threads : x # t => record'[x] = record[x]
      BY <1>0, <1>6, OthersRecords DEF Emits, Alerting, EndRecord
    <3>3. QED
      BY <1>1, <1>2, <3>1, <3>2 DEF EmitsForFinding
  <2>2. CASE emit[t].pc = "lookup" /\ emit' = [emit EXCEPT ![t].pc = "insert"]
    <3>1. emit[t] \in Emission /\ emit[t] # NotEmitting
      BY <1>0, <2>2, AlertsAreRecords DEF NotEmitting
    <3>2. /\ emit'[t].pc = "insert" /\ emit'[t].id = emit[t].id /\ SameTopic(emit'[t], emit[t])
          /\ \A x \in Threads : x # t => emit'[x] = emit[x]
      BY <1>0, <2>2, <3>1 DEF TypeOK, FindingsTypeOK, AlertsTypeOK, Emission, SameTopic
    <3>3. UNCHANGED record
      BY <1>6, <3>2 DEF Emits, Alerting, NotEmitting
    <3>4. QED
      BY <1>1, <1>2, <3>1, <3>2, <3>3 DEF EmitsForFinding
  <2>3. QED
    BY <1>6, <2>1, <2>2 DEF Emits, Alerting, EmitStep, LookupAlert, InsertAlert, EmitFails
<1>7. QED
  BY <1>0, <1>3, <1>4, <1>5, <1>6, EmitKinds

\* An emission that ends has left an alert of its topic, or is given up.
LEMMA EmissionEnds ==
  ASSUME FindingsInv, EmitsForFinding, Next, Remember,
         NEW t \in Threads, emit[t] # NotEmitting
  PROVE  \/ emit'[t] # NotEmitting /\ emit'[t].id = emit[t].id
         \/ \E a \in alerts' : SameTopic(a, emit[t])
         \/ emit[t].id \in failed'
<1>0. TypeOK /\ emit[t] \in Emission /\ record[t].pc = "alert" /\ record[t].ref = emit[t].id
  BY AlertsAreRecords DEF FindingsInv, EmitsForFinding
<1>1. record[t] # NotRecording
  BY <1>0 DEF NotRecording
<1>2. ASSUME emit[t].pc = "insert", emit'[t] = NotEmitting, alerts' = alerts PROVE emit[t].id \in failed'
  BY <1>0, <1>1, <1>2 DEF Remember, Dropped
<1>3. ASSUME emit[t].pc = "lookup", emit'[t] = NotEmitting, \A a \in alerts : ~HoldsBack(t, a)
      PROVE  emit[t].id \in failed'
  BY <1>0, <1>1, <1>3 DEF Remember, Dropped
<1>4. ASSUME NEW a \in alerts, HoldsBack(t, a), UNCHANGED alerts
      PROVE  \E b \in alerts' : SameTopic(b, emit[t])
  BY <1>4 DEF HoldsBack, SameAlert, SameTopic
<1>5. emit[t].pc \in {"lookup", "insert"}
  BY <1>0 DEF Emission
<1>6. CASE emit'[t] = NotEmitting /\ UNCHANGED alerts
  BY <1>2, <1>3, <1>4, <1>5, <1>6
<1>7. CASE emit'[t] = emit[t]
  BY <1>7
<1>8. ASSUME NEW x \in Threads, Inserts(x) PROVE emit'[t] = emit[t]
  <2>1. record[x].pc = "insert"
    BY <1>8 DEF Inserts, InsertFinding
  <2>2. x # t
    BY <1>0, <2>1
  <2>3. QED
    BY <1>0, <1>8, <2>2, OthersEmissions DEF Inserts, InsertFinding, BeginEmit
<1>9. ASSUME NEW x \in Threads, Emits(x), x # t PROVE emit'[t] = emit[t]
  <2>1. EndEmit(x) \/ emit' = [emit EXCEPT ![x].pc = "insert"]
    BY <1>9 DEF Emits, Alerting, EmitStep, LookupAlert, InsertAlert, EmitFails
  <2>2. QED
    BY <1>0, <1>9, <2>1 DEF EndEmit, TypeOK, FindingsTypeOK, AlertsTypeOK
<1>10. CASE Emits(t)
  <2>1. CASE LookupAlert(t) /\ emit' = [emit EXCEPT ![t].pc = "insert"]
    <3>1. emit'[t].pc = "insert" /\ emit'[t].id = emit[t].id
      BY <1>0, <2>1 DEF TypeOK, FindingsTypeOK, AlertsTypeOK, Emission
    <3>2. QED
      BY <3>1 DEF NotEmitting
  <2>2. CASE EndEmit(t) /\ UNCHANGED alerts
    BY <1>0, <1>6, <2>2, OthersEmissions DEF EndEmit
  <2>3. CASE InsertAlert(t)
    <3>1. [id |-> emit[t].id, device |-> emit[t].device, title |-> emit[t].title, status |-> "new"] \in alerts'
      BY <2>3 DEF InsertAlert
    <3>2. QED
      BY <3>1 DEF SameTopic
  <2>4. QED
    BY <1>10, <2>1, <2>2, <2>3 DEF Emits, Alerting, EmitStep, LookupAlert, EmitFails
<1>11. QED
  BY <1>0, <1>6, <1>7, <1>8, <1>9, <1>10, EmitKinds DEF Silent, Stops

LEMMA AlertedStep ==
  ASSUME FindingsInv, FindingsInv', Diverged, AlertedInv, Next, Remember
  PROVE  AlertedInv'
<1>0. TypeOK /\ failed \subseteq failed'
  BY HistoryGrows DEF FindingsInv
<1>1. EmitsForFinding'
  BY EmitsForFindingStep DEF AlertedInv
<1>2. ASSUME NEW g \in findings'
      PROVE  \/ \E a \in alerts' : SameTopic(a, g)
             \/ \E t \in Threads : emit'[t] # NotEmitting /\ emit'[t].id = g.id
             \/ g.id \in failed'
  <2>1. ASSUME NEW f \in findings, g.id = f.id, SameTopic(g, f)
        PROVE  \/ \E a \in alerts' : SameTopic(a, g)
               \/ \E t \in Threads : emit'[t] # NotEmitting /\ emit'[t].id = g.id
               \/ g.id \in failed'
    <3>1. ASSUME NEW a \in alerts, SameTopic(a, f) PROVE \E b \in alerts' : SameTopic(b, g)
      BY <1>0, <2>1, <3>1, AlertsStay DEF SameTopic
    <3>2. ASSUME NEW t \in Threads, emit[t] # NotEmitting, emit[t].id = f.id
          PROVE  \/ \E a \in alerts' : SameTopic(a, g)
                 \/ emit'[t] # NotEmitting /\ emit'[t].id = g.id
                 \/ g.id \in failed'
      <4>1. SameTopic(f, emit[t])
        BY <3>2 DEF AlertedInv, EmitsForFinding, FindingsInv, IdsUnique
      <4>2. \A a : SameTopic(a, emit[t]) => SameTopic(a, g)
        BY <2>1, <4>1 DEF SameTopic
      <4>3. QED
        BY <2>1, <3>2, <4>2, EmissionEnds DEF AlertedInv
    <3>3. QED
      BY <1>0, <2>1, <3>1, <3>2 DEF AlertedInv, FindingsAreAlerted, SameTopic
  <2>2. ASSUME NEW t \in Threads, Inserts(t), g = NewFinding(t)
        PROVE  emit'[t] # NotEmitting /\ emit'[t].id = g.id
    <3> DEFINE r == [pc |-> "lookup", id |-> record[t].ref, device |-> record[t].device, title |-> record[t].title]
    <3>1. emit' = [emit EXCEPT ![t] = r]
      BY <2>2 DEF Inserts, InsertFinding, BeginEmit
    <3>2. r.id = record[t].ref /\ r # NotEmitting /\ g.id = record[t].ref
      BY <2>2 DEF NewFinding, NotEmitting
    <3> HIDE DEF r
    <3>3. emit'[t] = r
      BY <1>0, <3>1, OthersEmissions
    <3>4. QED
      BY <3>2, <3>3
  <2>3. QED
    BY <2>1, <2>2, SameTopics
<1>3. FindingsAreAlerted'
  BY <1>2 DEF FindingsAreAlerted, SameTopic
<1>4. QED
  BY <1>1, <1>3 DEF AlertedInv

\* "Emit an alert for the new finding": every finding has an alert of its device and
\* title, or one on its way, unless a fault prevented it.
THEOREM FindingsAreAlwaysAlerted == MCSpec => []FindingsAreAlerted
<1>1. MCInit => AlertedInv
  BY DEF MCInit, Init, FindingsInit, AlertsInit, AlertedInv, FindingsAreAlerted, EmitsForFinding
<1>2. FindingsInv /\ FindingsInv' /\ EvidenceInv /\ AlertedInv /\ [MCNext]_<<vars, historyVars>> => AlertedInv'
  <2>1. CASE UNCHANGED <<vars, historyVars>>
    BY <2>1 DEF vars, findingVars, alertVars, policyVars, historyVars, AlertedInv, FindingsAreAlerted, EmitsForFinding
  <2>2. QED
    BY <2>1, WatchedStep, AlertedStep DEF EvidenceInv
<1>3. AlertedInv => FindingsAreAlerted
  BY DEF AlertedInv
<1>4. QED
  BY <1>1, <1>2, <1>3, Watched, FindingsConsistent, EvidenceAlways, PTL DEF MCSpec
=============================================================================
