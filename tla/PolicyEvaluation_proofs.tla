----------------------- MODULE PolicyEvaluation_proofs -----------------------
(***************************************************************************)
(* Proofs about PolicyEvaluation, for any number of threads, devices,      *)
(* policies and evaluations, with and without foreign keys and faults.     *)
(*                                                                         *)
(* The part of the invariant that matters speaks of four variables: the    *)
(* clock, the evaluations, the findings and the calls that record them.    *)
(* What a step does to those is proved of their values first.              *)
(***************************************************************************)
EXTENDS PolicyEvaluation, FiniteSetTheorems, TLAPS

\* A row of policy_evaluations, a row of findings and a call of record_finding, given
\* the next evaluation id k, the evaluations E and the findings F.
EvaluationOK(e, k) == e \in Evaluation /\ e.id \in 1..(k - 1)

FindingOK(f, k, E) ==
  /\ f \in Finding
  /\ f.id \in f.refs /\ f.refs \subseteq 1..(k - 1)
  /\ f.count = Cardinality(f.refs)
  /\ \A e \in E : e.id \in f.refs => Supports(e, f.device, f.policy)

Pending(r) == r.pc \in {"lookup", "bump", "insert"}

ReadOK(r, F) ==
  /\ r.count = Cardinality(r.refs)
  /\ r.id \in r.refs
  /\ \A f \in F : f.id = r.id => f.device = r.device /\ f.policy \in {r.policy, NoPolicy}

PendingOK(r, k, E, F) ==
  /\ r.ref \in 1..(k - 1) /\ r.refs \subseteq 1..(k - 1) /\ r.ref \notin r.refs
  /\ \A e \in E : e.id \in r.refs \cup {r.ref} => Supports(e, r.device, r.policy)
  /\ \A f \in F : r.ref \notin f.refs
  /\ r.pc = "bump" => ReadOK(r, F)

RecordOK(r, k, E, F) ==
  /\ r \in {NotRecording} \cup Recording
  /\ Pending(r) => PendingOK(r, k, E, F)

\* Two calls record two evaluations, and neither has read of the other's.
Apart(r, s) ==
  Pending(r) /\ Pending(s) => r.ref # s.ref /\ r.ref \notin s.refs /\ s.ref \notin r.refs

Core(k, E, F, R) ==
  /\ k \in Nat \ {0}
  /\ \A e \in E : EvaluationOK(e, k)
  /\ \A e, x \in E : e.id = x.id => e = x
  /\ \A f \in F : FindingOK(f, k, E)
  /\ \A f, g \in F : f.id = g.id => f = g
  /\ R = [t \in Threads |-> R[t]]
  /\ \A t \in Threads : RecordOK(R[t], k, E, F)
  /\ \A t, u \in Threads : t # u => Apart(R[t], R[u])

\* The rest of the type invariant.
Others ==
  /\ AlertsTypeOK
  /\ policies \in [Policies -> Policy]
  /\ task \in [Threads -> {NoTask} \cup Task]

Parts == Others /\ Core(clock, evaluations, findings, record)

-----------------------------------------------------------------------------
(* The invariant says what its parts say.                                  *)

LEMMA PartsAreInv == Parts => FindingsInv
<1> SUFFICES ASSUME Parts PROVE FindingsInv
  OBVIOUS
<1>1. Core(clock, evaluations, findings, record)
  BY DEF Parts
<1>2. TypeOK
  <2>1. evaluations \subseteq Evaluation
    BY <1>1 DEF Core, EvaluationOK
  <2>2. findings \subseteq Finding
    BY <1>1 DEF Core, FindingOK
  <2>3. record \in [Threads -> {NotRecording} \cup Recording]
    BY <1>1 DEF Core, RecordOK
  <2>4. clock \in Nat \ {0}
    BY <1>1 DEF Core
  <2>5. QED
    BY <2>1, <2>2, <2>3, <2>4 DEF Parts, Others, TypeOK, FindingsTypeOK
<1>3. IdsDrawn
  BY <1>1 DEF Core, EvaluationOK, FindingOK, RecordOK, PendingOK, Pending, IdsDrawn, Drawn, ToRecord
<1>4. IdsUnique
  BY <1>1 DEF Core, IdsUnique
<1>5. RefsOwned
  <2> SUFFICES ASSUME NEW t \in Threads, ToRecord(t), NEW u \in Threads, ToRecord(u)
               PROVE  /\ \A f \in findings : record[t].ref \notin f.refs
                      /\ record[t].ref \notin record[u].refs
                      /\ u # t => record[t].ref # record[u].ref
    BY DEF RefsOwned
  <2>1. Pending(record[t]) /\ Pending(record[u])
    BY DEF ToRecord, Pending
  <2>2. PendingOK(record[t], clock, evaluations, findings)
    BY <1>1, <2>1 DEF Core, RecordOK
  <2>3. u # t => record[t].ref # record[u].ref /\ record[t].ref \notin record[u].refs
    BY <1>1, <2>1 DEF Core, Apart
  <2>4. QED
    BY <2>2, <2>3 DEF PendingOK
<1>6. ReadWell
  <2> SUFFICES ASSUME NEW t \in Threads, ToRecord(t)
               PROVE  PendingOK(record[t], clock, evaluations, findings)
    BY DEF ReadWell, PendingOK, ReadOK, ToRecord
  <2>1. QED
    BY <1>1 DEF Core, RecordOK, Pending, ToRecord
<1>7. OccurrencesHaveEvidence
  BY <1>1 DEF Core, FindingOK, OccurrencesHaveEvidence
<1>8. QED
  BY <1>2, <1>3, <1>4, <1>5, <1>6, <1>7 DEF FindingsInv

-----------------------------------------------------------------------------
(* What steps do to evaluations, findings and calls.                       *)

LEMMA RefsAreFinite ==
  ASSUME NEW k \in Nat \ {0}, NEW S, S \subseteq 1..(k - 1)
  PROVE  IsFiniteSet(S)
<1>1. IsFiniteSet(1..(k - 1))
  BY FS_Interval
<1> QED
  BY <1>1, FS_Subset

\* A call goes on, ends, or another one begins.
LEMMA CallChanges ==
  ASSUME NEW k, NEW E, NEW F, NEW R, Core(k, E, F, R), NEW t \in Threads,
         NEW r, RecordOK(r, k, E, F), \A u \in Threads \ {t} : Apart(r, R[u])
  PROVE  Core(k, E, F, [R EXCEPT ![t] = r])
<1> DEFINE R2 == [R EXCEPT ![t] = r]
<1>1. R2 = [u \in Threads |-> IF u = t THEN r ELSE R[u]]
  BY DEF Core
<1>2. \A u \in Threads : RecordOK(R2[u], k, E, F)
  BY <1>1 DEF Core
<1>3. \A u \in Threads \ {t} : Apart(R2[t], R2[u]) /\ Apart(R2[u], R2[t])
  BY <1>1 DEF Apart
<1>4. \A u, v \in Threads : u # v => Apart(R2[u], R2[v])
  BY <1>1, <1>3 DEF Core
<1>5. R2 = [u \in Threads |-> R2[u]]
  BY <1>1
<1> HIDE DEF R2
<1>6. QED
  BY <1>2, <1>4, <1>5 DEF Core, R2

\* A call that is done, or has nothing left but its alert, claims nothing.
LEMMA CallIsDone ==
  ASSUME NEW k, NEW E, NEW F, NEW R, Core(k, E, F, R), NEW t \in Threads,
         NEW r \in {NotRecording} \cup Recording, r.pc \in {"none", "alert"}
  PROVE  Core(k, E, F, [R EXCEPT ![t] = r])
<1>1. ~Pending(r)
  BY DEF Pending
<1>2. RecordOK(r, k, E, F) /\ \A u \in Threads \ {t} : Apart(r, R[u])
  BY <1>1 DEF RecordOK, Apart
<1> QED
  BY <1>2, CallChanges

\* Operators and deletions change neither the id nor the evidence of a finding.
LEMMA FindingsRewritten ==
  ASSUME NEW k, NEW E, NEW F, NEW R, Core(k, E, F, R), NEW G,
         \A g \in G : /\ g \in Finding
                      /\ \E f \in F : /\ g.id = f.id /\ g.refs = f.refs /\ g.count = f.count
                                      /\ g.device = f.device /\ g.policy \in {f.policy, NoPolicy},
         \A g, h \in G : g.id = h.id => g = h
  PROVE  Core(k, E, G, R)
<1>1. ASSUME NEW g \in G PROVE FindingOK(g, k, E)
  <2>1. PICK f \in F : /\ g.id = f.id /\ g.refs = f.refs /\ g.count = f.count
                       /\ g.device = f.device /\ g.policy \in {f.policy, NoPolicy}
    OBVIOUS
  <2>2. FindingOK(f, k, E)
    BY DEF Core
  <2>3. QED
    BY <2>1, <2>2 DEF FindingOK, Supports
<1>2. ASSUME NEW t \in Threads PROVE RecordOK(R[t], k, E, G)
  <2>1. RecordOK(R[t], k, E, F)
    BY DEF Core
  <2>2. Pending(R[t]) => \A g \in G : R[t].ref \notin g.refs
    BY <2>1 DEF RecordOK, PendingOK
  <2>3. Pending(R[t]) /\ R[t].pc = "bump" => ReadOK(R[t], G)
    BY <2>1 DEF RecordOK, PendingOK, ReadOK
  <2>4. QED
    BY <2>1, <2>2, <2>3 DEF RecordOK, PendingOK
<1>3. QED
  BY <1>1, <1>2 DEF Core

\* A deleted policy takes its evaluations with it.
LEMMA EvaluationsRemoved ==
  ASSUME NEW k, NEW E, NEW F, NEW R, Core(k, E, F, R), NEW D, D \subseteq E
  PROVE  Core(k, D, F, R)
<1>1. \A f \in F : FindingOK(f, k, D)
  BY DEF Core, FindingOK
<1>2. \A t \in Threads : RecordOK(R[t], k, D, F)
  BY DEF Core, RecordOK, PendingOK
<1>3. QED
  BY <1>1, <1>2 DEF Core

-----------------------------------------------------------------------------
(* record_finding and _evaluate_one.                                       *)

\* record_finding is called for a new evaluation: its id is in nobody's evidence.
LEMMA EvaluationAdded ==
  ASSUME NEW k, NEW E, NEW F, NEW R, Core(k, E, F, R), NEW e \in Evaluation, e.id = k
  PROVE  /\ Core(k + 1, E \cup {e}, F, R)
         /\ \A f \in F : k \notin f.refs
         /\ \A x \in E : x.id # k
         /\ \A u \in Threads : Pending(R[u]) => R[u].ref # k /\ k \notin R[u].refs
<1> DEFINE E2 == E \cup {e}
<1>k. k \in Nat \ {0} /\ k + 1 \in Nat \ {0} /\ (k + 1) - 1 = k
  BY DEF Core
<1>n. k \in 1..k /\ k \notin 1..(k - 1) /\ 1..(k - 1) \subseteq 1..((k + 1) - 1)
  BY <1>k
<1>1. \A x \in E : x.id # k
  BY <1>n DEF Core, EvaluationOK
<1>2. \A f \in F : k \notin f.refs
  BY <1>n DEF Core, FindingOK
<1>3. \A u \in Threads : Pending(R[u]) => R[u].ref # k /\ k \notin R[u].refs
  BY <1>n DEF Core, RecordOK, PendingOK
<1>4. \A x \in E2 : EvaluationOK(x, k + 1)
  BY <1>k, <1>n DEF Core, EvaluationOK
<1>5. \A x, y \in E2 : x.id = y.id => x = y
  BY <1>1 DEF Core
<1>6. ASSUME NEW f \in F PROVE FindingOK(f, k + 1, E2)
  <2>1. FindingOK(f, k, E)
    BY DEF Core
  <2>2. QED
    BY <2>1, <1>2, <1>n DEF FindingOK
<1>7. ASSUME NEW t \in Threads PROVE RecordOK(R[t], k + 1, E2, F)
  <2>1. RecordOK(R[t], k, E, F)
    BY DEF Core
  <2>2. ASSUME Pending(R[t]) PROVE PendingOK(R[t], k + 1, E2, F)
    <3>1. PendingOK(R[t], k, E, F)
      BY <2>1, <2>2 DEF RecordOK
    <3>2. k \notin R[t].refs \cup {R[t].ref}
      BY <2>2, <1>3
    <3>3. QED
      BY <3>1, <3>2, <1>n DEF PendingOK
  <2>3. QED
    BY <2>1, <2>2 DEF RecordOK
<1>8. Core(k + 1, E2, F, R)
  <2> HIDE DEF E2
  <2>1. QED
    BY <1>k, <1>4, <1>5, <1>6, <1>7 DEF Core
<1>9. QED
  BY <1>1, <1>2, <1>3, <1>8

LEMMA CallBegins ==
  ASSUME NEW k, NEW E, NEW F, NEW R, Core(k, E, F, R), NEW t \in Threads,
         NEW d \in Devices, NEW p \in Policies, NEW title \in Titles,
         NEW e \in Evaluation, e.id = k, e.policy = p, e.device = d, e.result = "fail"
  PROVE  Core(k + 1, E \cup {e}, F, [R EXCEPT ![t] = Occurrence(d, p, title, k)])
<1> DEFINE r == Occurrence(d, p, title, k)
<1>1. /\ Core(k + 1, E \cup {e}, F, R)
      /\ \A f \in F : k \notin f.refs
      /\ \A x \in E : x.id # k
      /\ \A u \in Threads : Pending(R[u]) => R[u].ref # k /\ k \notin R[u].refs
  BY EvaluationAdded
<1>2. k \in 1..((k + 1) - 1) /\ k \in Nat
  BY DEF Core
<1>3. r \in Recording /\ r.ref = k /\ r.refs = {} /\ r.pc = "lookup" /\ r.device = d /\ r.policy = p
  BY <1>2 DEF Occurrence, Recording
<1> HIDE DEF r
<1>4. \A x \in E \cup {e} : x.id = k => Supports(x, d, p)
  BY <1>1 DEF Supports
<1>5. PendingOK(r, k + 1, E \cup {e}, F)
  BY <1>1, <1>2, <1>3, <1>4 DEF PendingOK
<1>6. RecordOK(r, k + 1, E \cup {e}, F)
  BY <1>3, <1>5 DEF RecordOK
<1>7. \A u \in Threads \ {t} : Apart(r, R[u])
  BY <1>1, <1>3 DEF Apart
<1>8. Core(k + 1, E \cup {e}, F, [R EXCEPT ![t] = r])
  BY <1>1, <1>6, <1>7, CallChanges
<1>9. QED
  BY <1>8 DEF r

\* The look-up: what is read of a finding is its evidence, and not this occurrence.
LEMMA CallReads ==
  ASSUME NEW k, NEW E, NEW F, NEW R, Core(k, E, F, R), NEW t \in Threads, R[t].pc = "lookup",
         NEW f \in F, f.device = R[t].device, f.policy = R[t].policy,
         NEW r \in Recording, r.pc = "bump", r.ref = R[t].ref, r.device = R[t].device,
         r.policy = R[t].policy, r.id = f.id, r.count = f.count, r.refs = f.refs
  PROVE  Core(k, E, F, [R EXCEPT ![t] = r])
<1>1. Pending(R[t])
  BY DEF Pending
<1>2. PendingOK(R[t], k, E, F)
  BY <1>1 DEF Core, RecordOK
<1>3. FindingOK(f, k, E)
  BY DEF Core
<1>4. ReadOK(r, F)
  <2>1. \A g \in F : g.id = f.id => g = f
    BY DEF Core
  <2>2. QED
    BY <2>1, <1>3 DEF ReadOK, FindingOK
<1>5. PendingOK(r, k, E, F)
  <2>1. r.ref \in 1..(k - 1) /\ r.refs \subseteq 1..(k - 1) /\ r.ref \notin r.refs
    BY <1>2, <1>3 DEF PendingOK, FindingOK
  <2>2. \A e \in E : e.id \in r.refs \cup {r.ref} => Supports(e, r.device, r.policy)
    BY <1>2, <1>3 DEF PendingOK, FindingOK
  <2>3. \A g \in F : r.ref \notin g.refs
    BY <1>2 DEF PendingOK
  <2>4. QED
    BY <1>4, <2>1, <2>2, <2>3 DEF PendingOK
<1>6. \A u \in Threads \ {t} : Apart(r, R[u])
  <2> SUFFICES ASSUME NEW u \in Threads \ {t}, Pending(R[u]) PROVE Apart(r, R[u])
    BY DEF Apart
  <2>1. PendingOK(R[u], k, E, F)
    BY DEF Core, RecordOK
  <2>2. R[u].ref \notin f.refs
    BY <2>1 DEF PendingOK
  <2>3. Apart(R[t], R[u])
    BY DEF Core
  <2>4. QED
    BY <1>1, <2>2, <2>3 DEF Apart
<1>7. RecordOK(r, k, E, F)
  BY <1>5 DEF RecordOK
<1>8. QED
  BY <1>6, <1>7, CallChanges

LEMMA CallMissed ==
  ASSUME NEW k, NEW E, NEW F, NEW R, Core(k, E, F, R), NEW t \in Threads, R[t].pc = "lookup",
         NEW r \in Recording, r.pc = "insert", r.ref = R[t].ref, r.device = R[t].device,
         r.policy = R[t].policy, r.refs = R[t].refs
  PROVE  Core(k, E, F, [R EXCEPT ![t] = r])
<1>1. Pending(R[t])
  BY DEF Pending
<1>2. PendingOK(R[t], k, E, F)
  BY <1>1 DEF Core, RecordOK
<1>3. RecordOK(r, k, E, F)
  BY <1>2 DEF RecordOK, PendingOK
<1>4. \A u \in Threads \ {t} : Apart(r, R[u])
  BY <1>1 DEF Core, Apart
<1>5. QED
  BY <1>3, <1>4, CallChanges

\* Once a call has written, what it recorded is evidence of a finding of that id; the
\* other calls' occurrences still are of none.
LEMMA CallWrites ==
  ASSUME NEW k, NEW E, NEW F, NEW R, Core(k, E, F, R), NEW t \in Threads, Pending(R[t]), NEW G,
         \A g \in G : /\ FindingOK(g, k, E)
                      /\ \/ /\ g.refs \subseteq R[t].refs \cup {R[t].ref}
                            /\ g.id = R[t].ref
                         \/ \E f \in F : /\ g.id = f.id /\ g.device = f.device /\ g.policy = f.policy
                                          /\ g.refs \in {f.refs, R[t].refs \cup {R[t].ref}},
         \A g, h \in G : g.id = h.id => g = h,
         NEW r \in {NotRecording} \cup Recording, r.pc \in {"none", "alert"}
  PROVE  Core(k, E, G, [R EXCEPT ![t] = r])
<1> DEFINE R2 == [R EXCEPT ![t] = r]
<1>1. Core(k, E, F, R2)
  BY CallIsDone
<1>2. R2 = [u \in Threads |-> IF u = t THEN r ELSE R[u]]
  BY DEF Core
<1>3. ~Pending(R2[t])
  BY <1>2 DEF Pending
<1>4. ASSUME NEW u \in Threads, Pending(R2[u]) PROVE PendingOK(R2[u], k, E, G)
  <2>1. u # t /\ R2[u] = R[u]
    BY <1>2, <1>3, <1>4
  <2>2. PendingOK(R2[u], k, E, F)
    BY <1>1, <1>4 DEF Core, RecordOK
  <2>3. R2[u].ref \notin R[t].refs \cup {R[t].ref} /\ R[t].ref \notin R2[u].refs
    <3>1. Apart(R[t], R[u])
      BY <2>1 DEF Core
    <3>2. QED
      BY <1>4, <2>1, <3>1 DEF Apart
  <2>4. \A g \in G : R2[u].ref \notin g.refs
    BY <2>2, <2>3 DEF PendingOK
  <2>5. R2[u].pc = "bump" => ReadOK(R2[u], G)
    <3> SUFFICES ASSUME R2[u].pc = "bump" PROVE ReadOK(R2[u], G)
      OBVIOUS
    <3>1. ReadOK(R2[u], F)
      BY <2>2 DEF PendingOK
    <3>2. R2[u].id # R[t].ref
      BY <3>1, <2>3 DEF ReadOK
    <3>3. QED
      BY <3>1, <3>2 DEF ReadOK
  <2>6. QED
    BY <2>2, <2>4, <2>5 DEF PendingOK
<1> HIDE DEF R2
<1>5. \A u \in Threads : RecordOK(R2[u], k, E, G)
  BY <1>1, <1>4 DEF Core, RecordOK
<1>6. Core(k, E, G, R2)
  BY <1>1, <1>5 DEF Core
<1>7. QED
  BY <1>6 DEF R2

-----------------------------------------------------------------------------
(* Initially, and the steps of record_finding.                             *)

LEMMA InvInit == Init => Parts
<1> SUFFICES ASSUME Init PROVE Parts
  OBVIOUS
<1>1. Others
  BY DEF Init, FindingsInit, AlertsInit, Others, AlertsTypeOK, Policy
<1>2. findings = {} /\ evaluations = {} /\ clock = 1 /\ record = [t \in Threads |-> NotRecording]
  BY DEF Init, FindingsInit
<1>3. ~Pending(NotRecording)
  BY DEF Pending, NotRecording
<1>4. \A t \in Threads : record[t] = NotRecording
  BY <1>2
<1>5. \A t \in Threads : RecordOK(record[t], clock, evaluations, findings)
  BY <1>3, <1>4 DEF RecordOK
<1>6. \A t, u \in Threads : Apart(record[t], record[u])
  BY <1>3, <1>4 DEF Apart
<1>7. record = [t \in Threads |-> record[t]]
  BY <1>2
<1>8. QED
  BY <1>1, <1>2, <1>5, <1>6, <1>7 DEF Core, Parts

\* A call is of the type of calls, and has drawn its id, if it still has to write it.
LEMMA CallsAreTyped ==
  ASSUME Parts, NEW t \in Threads
  PROVE  /\ record[t] \in {NotRecording} \cup Recording
         /\ record[t] # NotRecording => record[t] \in Recording
         /\ Pending(record[t]) => /\ record[t] \in Recording
                                  /\ PendingOK(record[t], clock, evaluations, findings)
BY DEF Parts, Core, RecordOK, Pending, NotRecording

LEMMA LookupKeeps ==
  ASSUME Parts, NEW t \in Threads, LookupFinding(t), UNCHANGED policyVars
  PROVE  Parts'
<1> USE DEF Parts
<1>1. Others'
  BY DEF LookupFinding, alertVars, policyVars, Others, AlertsTypeOK
<1>2. record[t] \in Recording /\ record[t].pc = "lookup"
  BY CallsAreTyped DEF LookupFinding, Pending
<1>3. CASE \E f \in findings :
             /\ SameFinding(t, f)
             /\ record' = [record EXCEPT ![t].pc = "bump", ![t].id = f.id,
                                         ![t].count = f.count, ![t].refs = f.refs]
  <2>1. PICK f \in findings :
             /\ SameFinding(t, f)
             /\ record' = [record EXCEPT ![t].pc = "bump", ![t].id = f.id,
                                         ![t].count = f.count, ![t].refs = f.refs]
    BY <1>3
  <2>2. f \in Finding
    BY DEF Core, FindingOK
  <2> DEFINE r == [record[t] EXCEPT !.pc = "bump", !.id = f.id, !.count = f.count, !.refs = f.refs]
  <2>3. record' = [record EXCEPT ![t] = r]
    BY <2>1 DEF Core
  <2>4. /\ r \in Recording /\ r.pc = "bump" /\ r.ref = record[t].ref /\ r.device = record[t].device
        /\ r.policy = record[t].policy /\ r.id = f.id /\ r.count = f.count /\ r.refs = f.refs
    BY <1>2, <2>2 DEF Recording, Finding
  <2>5. f.device = record[t].device /\ f.policy = record[t].policy
    BY <2>1 DEF SameFinding
  <2> HIDE DEF r
  <2>6. Core(clock, evaluations, findings, [record EXCEPT ![t] = r])
    BY <1>2, <2>4, <2>5, CallReads
  <2>7. QED
    BY <1>1, <2>3, <2>6 DEF LookupFinding, policyVars
<1>4. CASE record' = [record EXCEPT ![t].pc = "insert"]
  <2> DEFINE r == [record[t] EXCEPT !.pc = "insert"]
  <2>1. record' = [record EXCEPT ![t] = r]
    BY <1>4
  <2>2. /\ r \in Recording /\ r.pc = "insert" /\ r.ref = record[t].ref /\ r.device = record[t].device
        /\ r.policy = record[t].policy /\ r.refs = record[t].refs
    BY <1>2 DEF Recording
  <2> HIDE DEF r
  <2>3. Core(clock, evaluations, findings, [record EXCEPT ![t] = r])
    BY <1>2, <2>2, CallMissed
  <2>4. QED
    BY <1>1, <2>1, <2>3 DEF LookupFinding, policyVars
<1>5. QED
  BY <1>3, <1>4 DEF LookupFinding

Recounted(f, n, S) == [f EXCEPT !.count = n, !.refs = S]

LEMMA RecountedFinding ==
  ASSUME NEW f \in Finding, NEW n \in Nat, NEW S \in SUBSET Nat
  PROVE  /\ Recounted(f, n, S) \in Finding
         /\ Recounted(f, n, S).count = n /\ Recounted(f, n, S).refs = S
         /\ Recounted(f, n, S).id = f.id /\ Recounted(f, n, S).device = f.device
         /\ Recounted(f, n, S).policy = f.policy
BY DEF Finding, Recounted

\* The count that is written is the number of the evaluations that are: the one that
\* is added is not among those that were read.
LEMMA BumpKeeps ==
  ASSUME Parts, NEW t \in Threads, BumpFinding(t), UNCHANGED policyVars
  PROVE  Parts'
<1> USE DEF Parts
<1>1. Others'
  BY DEF BumpFinding, alertVars, policyVars, Others, AlertsTypeOK
<1> DEFINE r == record[t]
           S == r.refs \cup {r.ref}
<1>2. r \in Recording /\ r.pc = "bump" /\ Pending(r) /\ PendingOK(r, clock, evaluations, findings)
  BY CallsAreTyped DEF BumpFinding, Pending
<1>3. ReadOK(r, findings)
  BY <1>2 DEF PendingOK
<1>4. clock \in Nat \ {0} /\ r.refs \subseteq 1..(clock - 1) /\ r.ref \in 1..(clock - 1) /\ r.ref \notin r.refs
  BY <1>2 DEF PendingOK, Core
<1>5. Cardinality(S) = r.count + 1
  <2>1. IsFiniteSet(r.refs)
    BY <1>4, RefsAreFinite
  <2>2. Cardinality(S) = Cardinality(r.refs) + 1
    BY <1>4, <2>1, FS_AddElement
  <2>3. QED
    BY <1>3, <2>2 DEF ReadOK
<1>6. ASSUME NEW f \in findings, f.id = r.id PROVE FindingOK(Bumped(t, f), clock, evaluations)
  <2>1. FindingOK(f, clock, evaluations)
    BY DEF Core
  <2>2. f.device = r.device /\ f.policy \in {r.policy, NoPolicy}
    BY <1>3, <1>6 DEF ReadOK
  <2> DEFINE g == Bumped(t, f)
  <2>3. g = Recounted(f, r.count + 1, S)
    BY DEF Bumped, Recounted
  <2>4. S \subseteq Nat /\ r.count \in Nat
    BY <1>2, <1>4 DEF Recording
  <2>5. g \in Finding /\ g.id = f.id /\ g.refs = S /\ g.count = r.count + 1 /\ g.device = f.device /\ g.policy = f.policy
    <3>1. f \in Finding /\ r.count + 1 \in Nat /\ S \in SUBSET Nat
      BY <2>1, <2>4 DEF FindingOK
    <3> HIDE DEF r, S, g
    <3>2. QED
      BY <2>3, <3>1, RecountedFinding
  <2> HIDE DEF g
  <2>6. \A e \in evaluations : e.id \in S => Supports(e, g.device, g.policy)
    BY <1>2, <2>2, <2>5 DEF PendingOK, Supports
  <2>7. g.id \in g.refs
    BY <1>3, <1>6, <2>5 DEF ReadOK
  <2>8. S \subseteq 1..(clock - 1)
    BY <1>4
  <2>9. FindingOK(g, clock, evaluations)
    BY <1>5, <2>5, <2>6, <2>7, <2>8 DEF FindingOK
  <2>10. QED
    BY <2>9 DEF g
<1> HIDE DEF r, S
<1> DEFINE G == {IF f.id = r.id THEN Bumped(t, f) ELSE f : f \in findings}
<1>7. \A f \in findings : /\ Bumped(t, f).id = f.id /\ Bumped(t, f).refs = S
                          /\ Bumped(t, f).device = f.device /\ Bumped(t, f).policy = f.policy
  <2> SUFFICES ASSUME NEW f \in findings
               PROVE  /\ Bumped(t, f).id = f.id /\ Bumped(t, f).refs = S
                      /\ Bumped(t, f).device = f.device /\ Bumped(t, f).policy = f.policy
    OBVIOUS
  <2>1. f \in Finding
    BY DEF Core, FindingOK
  <2>2. QED
    BY <2>1 DEF Bumped, Finding, r, S
<1>8. ASSUME NEW g \in G
      PROVE  /\ FindingOK(g, clock, evaluations)
             /\ \E f \in findings : /\ g.id = f.id /\ g.device = f.device /\ g.policy = f.policy
                                    /\ g.refs \in {f.refs, S}
  <2>1. PICK f \in findings : g = IF f.id = r.id THEN Bumped(t, f) ELSE f
    OBVIOUS
  <2>2. FindingOK(f, clock, evaluations)
    BY DEF Core
  <2>3. QED
    BY <1>6, <1>7, <2>1, <2>2
<1>9. \A g, h \in G : g.id = h.id => g = h
  BY <1>7 DEF Core
<1>10. Core(clock, evaluations, G, [record EXCEPT ![t] = NotRecording])
  <2>1. NotRecording.pc = "none"
    BY DEF NotRecording
  <2> HIDE DEF G
  <2>2. QED
    BY <1>2, <1>8, <1>9, <2>1, CallWrites DEF r, S
<1>11. findings' = G /\ record' = [record EXCEPT ![t] = NotRecording]
  BY DEF BumpFinding, EndRecord, r
<1>12. QED
  BY <1>1, <1>10, <1>11 DEF policyVars

LEMMA InsertKeeps ==
  ASSUME Parts, NEW t \in Threads, NEW policyExists, InsertFinding(t, policyExists), UNCHANGED policyVars
  PROVE  Parts'
<1> USE DEF Parts
<1> DEFINE r == record[t]
           n == NewFinding(t)
<1>1. r \in Recording /\ r.pc = "insert" /\ Pending(r) /\ PendingOK(r, clock, evaluations, findings)
  BY CallsAreTyped DEF InsertFinding, Pending
<1>2. r.ref \in 1..(clock - 1) /\ r.ref \in Nat /\ clock \in Nat \ {0}
  BY <1>1 DEF PendingOK, Core, Recording
<1>3. Others'
  <2>1. emit' \in [Threads -> {NotEmitting} \cup Emission]
    BY <1>1 DEF InsertFinding, BeginEmit, Others, AlertsTypeOK, Emission, Recording
  <2>2. QED
    BY <2>1 DEF InsertFinding, policyVars, Others, AlertsTypeOK
<1>4. n \in Finding /\ n.id = r.ref /\ n.refs = {r.ref} /\ n.count = 1 /\ n.device = r.device /\ n.policy = r.policy
  BY <1>1 DEF NewFinding, Finding, Active, Recording
<1>5. FindingOK(n, clock, evaluations)
  <2>1. Cardinality({r.ref}) = 1
    BY FS_Singleton
  <2>2. \A e \in evaluations : e.id = r.ref => Supports(e, r.device, r.policy)
    BY <1>1 DEF PendingOK
  <2> HIDE DEF r, n
  <2>3. QED
    BY <1>2, <1>4, <2>1, <2>2 DEF FindingOK
<1>6. \A f \in findings : f.id # n.id
  BY <1>1, <1>4 DEF PendingOK, Core, FindingOK
<1> HIDE DEF n
<1> DEFINE F2 == findings \cup {n}
           r2 == [r EXCEPT !.pc = "alert"]
<1>7. r2 \in Recording /\ r2.pc = "alert"
  BY <1>1 DEF Recording
<1>8. record' = [record EXCEPT ![t] = r2] /\ findings' = F2
  BY DEF InsertFinding, n
<1>9. Core(clock, evaluations, F2, [record EXCEPT ![t] = r2])
  <2>1. \A g \in F2 : FindingOK(g, clock, evaluations)
    BY <1>5 DEF Core
  <2>2. \A g, h \in F2 : g.id = h.id => g = h
    BY <1>6 DEF Core
  <2>3. \A f \in findings : /\ f.id = f.id /\ f.device = f.device /\ f.policy = f.policy
                            /\ f.refs \in {f.refs, r.refs \cup {r.ref}}
    OBVIOUS
  <2>4. n.refs \subseteq r.refs \cup {r.ref}
    BY <1>4
  <2> HIDE DEF r2
  <2>5. QED
    BY <1>1, <1>4, <1>7, <2>1, <2>2, <2>3, <2>4, CallWrites
<1>10. QED
  BY <1>3, <1>8, <1>9 DEF policyVars

LEMMA EmitKeepsTypes ==
  ASSUME AlertsTypeOK, NEW t \in Threads, EmitStep(t)
  PROVE  AlertsTypeOK'
<1>1. emit[t] # NotEmitting /\ emit[t] \in Emission
  BY DEF EmitStep, LookupAlert, InsertAlert, EmitFails, AlertsTypeOK, NotEmitting
<1>2. alerts' \subseteq Alert
  BY <1>1 DEF EmitStep, LookupAlert, InsertAlert, EmitFails, AlertsTypeOK, Emission, Alert, AlertStatus
<1>3. emit' \in [Threads -> {NotEmitting} \cup Emission]
  <2>1. CASE EndEmit(t)
    BY <2>1 DEF EndEmit, AlertsTypeOK
  <2>2. CASE emit' = [emit EXCEPT ![t].pc = "insert"]
    <3>1. [emit[t] EXCEPT !.pc = "insert"] \in Emission
      BY <1>1 DEF Emission
    <3>2. QED
      BY <2>2, <3>1 DEF AlertsTypeOK
  <2>3. QED
    BY <2>1, <2>2 DEF EmitStep, LookupAlert, InsertAlert, EmitFails
<1>4. QED
  BY <1>2, <1>3 DEF AlertsTypeOK

LEMMA CallEnds ==
  ASSUME NEW k, NEW E, NEW F, NEW R, Core(k, E, F, R), NEW t \in Threads
  PROVE  Core(k, E, F, [R EXCEPT ![t] = NotRecording])
<1>1. NotRecording.pc = "none"
  BY DEF NotRecording
<1> QED
  BY <1>1, CallIsDone

LEMMA AlertingKeeps ==
  ASSUME Parts, NEW t \in Threads, Alerting(t), UNCHANGED policyVars
  PROVE  Parts'
<1>1. Others'
  BY EmitKeepsTypes DEF Parts, Alerting, policyVars, Others
<1>2. Core(clock, evaluations, findings, [record EXCEPT ![t] = NotRecording])
  BY CallEnds DEF Parts
<1>3. QED
  BY <1>1, <1>2 DEF Parts, Alerting, EndRecord, policyVars

LEMMA RecordFailsKeeps ==
  ASSUME Parts, NEW t \in Threads, NEW policyExists, RecordFails(t, policyExists), UNCHANGED policyVars
  PROVE  Parts'
<1>1. Others'
  BY DEF Parts, RecordFails, policyVars, alertVars, Others, AlertsTypeOK
<1>2. Core(clock, evaluations, findings, [record EXCEPT ![t] = NotRecording])
  BY CallEnds DEF Parts
<1>3. QED
  BY <1>1, <1>2 DEF Parts, RecordFails, EndRecord, policyVars

LEMMA RecordOneKeeps ==
  ASSUME Parts, NEW t \in Threads, RecordOne(t)
  PROVE  Parts'
BY LookupKeeps, BumpKeeps, InsertKeeps, AlertingKeeps, RecordFailsKeeps DEF RecordOne, RecordStep

-----------------------------------------------------------------------------
(* The other steps.                                                        *)

\* A step that only administers: policies, tasks and alerts.
LEMMA CoreUntouched ==
  ASSUME Parts, UNCHANGED <<clock, evaluations, findings, record>>, Others'
  PROVE  Parts'
BY DEF Parts

LEMMA CreateKeeps ==
  ASSUME Parts, NEW p \in Policies, NEW name \in Titles, CreatePolicy(p, name)
  PROVE  Parts'
<1>1. Others'
  BY DEF Parts, CreatePolicy, findingVars, alertVars, Others, AlertsTypeOK, Policy
<1>2. QED
  BY <1>1, CoreUntouched DEF CreatePolicy, findingVars

LEMMA UpdateKeeps ==
  ASSUME Parts, NEW p \in Policies, NEW name \in Titles, UpdatePolicy(p, name)
  PROVE  Parts'
<1>1. policies' \in [Policies -> Policy]
  BY DEF Parts, UpdatePolicy, Live, Others, Policy
<1>2. Others'
  BY <1>1 DEF Parts, UpdatePolicy, findingVars, alertVars, Others, AlertsTypeOK
<1>3. QED
  BY <1>2, CoreUntouched DEF UpdatePolicy, findingVars

LEMMA DeleteKeeps ==
  ASSUME Parts, NEW p \in Policies, DeletePolicy(p)
  PROVE  Parts'
<1>1. Others'
  BY DEF Parts, DeletePolicy, alertVars, Others, AlertsTypeOK, Policy
<1> DEFINE D == {e \in evaluations : e.policy # p}
           G == {IF f.policy = p THEN [f EXCEPT !.policy = NoPolicy] ELSE f : f \in findings}
<1>2. Core(clock, evaluations, findings, record)
  BY DEF Parts
<1>3. ASSUME NEW f \in findings, NEW g, g = IF f.policy = p THEN [f EXCEPT !.policy = NoPolicy] ELSE f
      PROVE  /\ g \in Finding /\ g.id = f.id /\ g.refs = f.refs /\ g.count = f.count
             /\ g.device = f.device /\ g.policy \in {f.policy, NoPolicy}
  <2>1. f \in Finding
    BY <1>2 DEF Core, FindingOK
  <2>2. QED
    BY <1>3, <2>1 DEF Finding
<1>4. \A g \in G : /\ g \in Finding
                   /\ \E f \in findings : /\ g.id = f.id /\ g.refs = f.refs /\ g.count = f.count
                                          /\ g.device = f.device /\ g.policy \in {f.policy, NoPolicy}
  BY <1>3
<1>5. \A g, h \in G : g.id = h.id => g = h
  BY <1>2, <1>3 DEF Core
<1>6. Core(clock, evaluations, G, record)
  <2> HIDE DEF G
  <2>1. QED
    BY <1>2, <1>4, <1>5, FindingsRewritten
<1>7. Core(clock, D, G, record)
  <2> HIDE DEF G
  <2>1. D \subseteq evaluations
    OBVIOUS
  <2> HIDE DEF D
  <2>2. QED
    BY <1>6, <2>1, EvaluationsRemoved
<1>8. QED
  BY <1>1, <1>7 DEF Parts, DeletePolicy

LEMMA FindingStatusKeeps ==
  ASSUME Parts, NEW f \in findings, NEW status \in Active \cup Closed,
         SetFindingStatus(f, status), UNCHANGED policyVars
  PROVE  Parts'
<1>1. Others'
  BY DEF Parts, SetFindingStatus, alertVars, policyVars, Others, AlertsTypeOK
<1>2. Core(clock, evaluations, findings, record)
  BY DEF Parts
<1> DEFINE n == [f EXCEPT !.status = status]
           G == (findings \ {f}) \cup {n}
<1>3. \A g \in findings : g \in Finding
  BY <1>2 DEF Core, FindingOK
<1>4. n \in Finding /\ n.id = f.id /\ n.refs = f.refs /\ n.count = f.count /\ n.device = f.device /\ n.policy = f.policy
  BY <1>3 DEF Finding
<1> HIDE DEF n
<1>5. \A g \in G : /\ g \in Finding
                   /\ \E h \in findings : /\ g.id = h.id /\ g.refs = h.refs /\ g.count = h.count
                                          /\ g.device = h.device /\ g.policy \in {h.policy, NoPolicy}
  BY <1>3, <1>4
<1>6. \A g, h \in G : g.id = h.id => g = h
  BY <1>2, <1>4 DEF Core
<1>7. Core(clock, evaluations, G, record)
  <2> HIDE DEF G
  <2>1. QED
    BY <1>2, <1>5, <1>6, FindingsRewritten
<1>8. QED
  BY <1>1, <1>7 DEF Parts, SetFindingStatus, policyVars, n

LEMMA AlertStatusKeeps ==
  ASSUME Parts, NEW a \in alerts, NEW status \in AlertStatus,
         SetAlertStatus(a, status), UNCHANGED <<findings, record, policyVars>>
  PROVE  Parts'
<1>1. [a EXCEPT !.status = status] \in Alert
  BY DEF Parts, Others, AlertsTypeOK, Alert
<1>2. Others'
  BY <1>1 DEF Parts, SetAlertStatus, policyVars, Others, AlertsTypeOK
<1>3. QED
  BY <1>2, CoreUntouched DEF policyVars

LEMMA BeginKeeps ==
  ASSUME Parts, NEW t \in Threads, NEW p \in Policies, NEW chosen \in SUBSET Devices,
         BeginEvaluation(t, p, chosen)
  PROVE  Parts'
<1>1. policies[p].name \in Titles
  BY DEF Parts, BeginEvaluation, Live, Others, Policy
<1>2. Others'
  BY <1>1 DEF Parts, BeginEvaluation, findingVars, alertVars, Others, AlertsTypeOK, Task
<1>3. QED
  BY <1>2, CoreUntouched DEF BeginEvaluation, findingVars

LEMMA EvaluateOneKeeps ==
  ASSUME Parts, NEW t \in Threads, NEW d \in Devices, NEW result \in Results, EvaluateOne(t, d, result)
  PROVE  Parts'
<1>1. task[t] \in Task
  BY DEF Parts, Others, EvaluateOne
<1>2. task[t].policy \in Policies /\ task[t].name \in Titles
  BY <1>1 DEF Task
<1>3. Others'
  <2>1. [task[t] EXCEPT !.todo = @ \ {d}] \in Task
    BY <1>1 DEF Task
  <2>2. task' \in [Threads -> {NoTask} \cup Task]
    BY <2>1 DEF Parts, Others, EvaluateOne
  <2>3. QED
    BY <2>2 DEF Parts, EvaluateOne, alertVars, Others, AlertsTypeOK
<1>4. Core(clock, evaluations, findings, record) /\ clock \in Nat
  BY DEF Parts, Core
<1> DEFINE e == [id |-> clock, policy |-> task[t].policy, device |-> d, result |-> result]
<1>5. e \in Evaluation /\ e.id = clock /\ e.policy = task[t].policy /\ e.device = d /\ e.result = result
  BY <1>2, <1>4 DEF Evaluation
<1>6. evaluations' = evaluations \cup {e} /\ clock' = clock + 1 /\ findings' = findings
  BY DEF EvaluateOne
<1> HIDE DEF e
<1>7. CASE result = "fail"
  <2>1. record' = [record EXCEPT ![t] = Occurrence(d, task[t].policy, task[t].name, clock)]
    BY <1>7 DEF EvaluateOne, BeginRecord
  <2>2. Core(clock + 1, evaluations \cup {e}, findings,
             [record EXCEPT ![t] = Occurrence(d, task[t].policy, task[t].name, clock)])
    BY <1>2, <1>4, <1>5, <1>7, CallBegins
  <2>3. QED
    BY <1>3, <1>6, <2>1, <2>2 DEF Parts
<1>8. CASE result # "fail"
  <2>1. record' = record
    BY <1>8 DEF EvaluateOne
  <2>2. Core(clock + 1, evaluations \cup {e}, findings, record)
    BY <1>4, <1>5, EvaluationAdded
  <2>3. QED
    BY <1>3, <1>6, <2>1, <2>2 DEF Parts
<1>9. QED
  BY <1>7, <1>8

LEMMA EndKeeps ==
  ASSUME Parts, NEW t \in Threads, EndEvaluation(t)
  PROVE  Parts'
<1>1. Others'
  BY DEF Parts, EndEvaluation, findingVars, alertVars, Others, AlertsTypeOK
<1>2. QED
  BY <1>1, CoreUntouched DEF EndEvaluation, findingVars

LEMMA RestartKeeps ==
  ASSUME Parts, Restart
  PROVE  Parts'
<1>1. Others'
  BY DEF Parts, Restart, Others, AlertsTypeOK
<1> DEFINE R == [t \in Threads |-> NotRecording]
<1>2. ~Pending(NotRecording)
  BY DEF Pending, NotRecording
<1>3. \A t \in Threads : R[t] = NotRecording
  OBVIOUS
<1>4. R = [t \in Threads |-> R[t]]
  OBVIOUS
<1>5. Restart => record' = R /\ UNCHANGED <<clock, evaluations, findings>>
  BY DEF Restart
<1> HIDE DEF R
<1>6. (\A t \in Threads : RecordOK(R[t], clock, evaluations, findings)) /\ \A t, u \in Threads : Apart(R[t], R[u])
  BY <1>2, <1>3 DEF RecordOK, Apart
<1>7. Core(clock, evaluations, findings, R)
  BY <1>4, <1>6 DEF Parts, Core
<1>8. QED
  BY <1>1, <1>5, <1>7 DEF Parts

LEMMA InvStep ==
  ASSUME Parts, [Next]_vars
  PROVE  Parts'
<1>1. CASE UNCHANGED vars
  <2>1. Others'
    BY <1>1 DEF Parts, vars, findingVars, alertVars, policyVars, Others, AlertsTypeOK
  <2>2. QED
    BY <1>1, <2>1, CoreUntouched DEF vars, findingVars, policyVars
<1>2. ASSUME NEW p \in Policies, Administer(p) PROVE Parts'
  BY <1>2, CreateKeeps, UpdateKeeps, DeleteKeeps DEF Administer
<1>3. ASSUME NEW t \in Threads, Evaluate(t) PROVE Parts'
  BY <1>3, BeginKeeps, EvaluateOneKeeps, RecordOneKeeps, EndKeeps DEF Evaluate
<1>4. CASE Operate
  BY <1>4, FindingStatusKeeps, AlertStatusKeeps DEF Operate, SetAlertStatus
<1>5. QED
  BY <1>1, <1>2, <1>3, <1>4, RestartKeeps DEF Next

-----------------------------------------------------------------------------
(* Theorems.                                                               *)

\* The invariant part by part: what every step of a thread, an operator or an
\* administrator keeps.
THEOREM PartsAlways == Spec => []Parts
<1>1. Init => Parts
  BY InvInit
<1>2. Parts /\ [Next]_vars => Parts'
  BY InvStep
<1>3. QED
  BY <1>1, <1>2, PTL DEF Spec

\* The inductive invariant of findings: rows, evaluations and the calls in flight agree,
\* however many threads race and whatever operators and administrators do meanwhile.
THEOREM FindingsConsistent == Spec => []FindingsInv
<1>1. Parts => FindingsInv
  BY PartsAreInv
<1>2. QED
  BY <1>1, PartsAlways, PTL

\* Type correctness of policies, evaluations, findings, alerts and the calls.
THEOREM FindingsTypeCorrect == Spec => []TypeOK
<1>1. FindingsInv => TypeOK
  BY DEF FindingsInv
<1>2. QED
  BY <1>1, FindingsConsistent, PTL

\* The count of a finding is always that of the evaluations it names, all of which
\* failed for its device and policy: a race loses an occurrence, but never its count alone.
THEOREM OccurrencesAlwaysHaveEvidence == Spec => []OccurrencesHaveEvidence
<1>1. FindingsInv => OccurrencesHaveEvidence
  BY DEF FindingsInv
<1>2. QED
  BY <1>1, FindingsConsistent, PTL
=============================================================================
