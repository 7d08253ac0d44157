------------------------- MODULE BackupService_proofs -------------------------
(***************************************************************************)
(* Proofs about BackupService, for any jobs, devices, configurations and   *)
(* directories, and with or without faults and foreign keys.               *)
(*                                                                         *)
(* Every step of a job is a step of the store, or none of its business, so *)
(* what is proved of the store holds here.  The invariant JobInv is about  *)
(* one job at a time: a step changes one job, or only takes devices and    *)
(* versions away, which JobInv survives.                                   *)
(***************************************************************************)
EXTENDS BackupService, ConfigurationStore_proofs

LEMMA TakeStoreStep ==
  ASSUME NEW j \in Jobs, StoreStep(j) \/ WriteFails(j) \/ CommitFails(j)
  PROVE  StoreNext
BY DEF StoreNext, StoreFault, Jobs

\* A job's step is a step of the configuration store, or leaves it alone.
LEMMA JobStepIsStoreStep ==
  ASSUME TypeOK, [Next]_vars
  PROVE  [StoreNext]_storeVars
<1>0. StoreTypeOK
  BY DEF TypeOK
<1>1. ASSUME NEW j \in Jobs, NEW ids, CreateJob(j, ids) PROVE UNCHANGED storeVars
  BY <1>1 DEF CreateJob
<1>2. ASSUME NEW j \in Jobs, RunStep(j) PROVE [StoreNext]_storeVars
  <2>1. CASE BeginRun(j) \/ LoadDevice(j) \/ CollectionFails(j) \/ RecordFailure(j) \/ Finish(j)
    BY <2>1 DEF BeginRun, LoadDevice, CollectionFails, RecordFailure, Finish
  <2>2. CASE Collect(j)
    <3>1. PICK d \in task[j].current, name \in Names, c \in Configs : BeginStore(j, d, name, c)
      BY <2>2 DEF Collect
    <3>2. d \in Devices
      BY <3>1 DEF TypeOK, Task
    <3>3. QED
      BY <3>1, <3>2 DEF StoreNext, Jobs
  <2>3. CASE Storing(j)
    BY <2>3, TakeStoreStep DEF Storing
  <2>4. CASE Stored(j) \/ StoreFails(j)
    BY <2>4 DEF Stored, StoreFails, StoreNext, Jobs
  <2>5. QED
    BY <1>2, <2>1, <2>2, <2>3, <2>4 DEF RunStep
<1>3. ASSUME NEW j \in Jobs, Escape(j) PROVE [StoreNext]_storeVars
  <2>1. CASE call[j] = Idle
    BY <1>0, <1>3, <2>1 DEF Escape, StoreTypeOK, storeVars, Jobs
  <2>2. CASE call[j] # Idle
    BY <1>3, <2>2 DEF Escape, Die, StoreFault, StoreNext, Jobs
  <2>3. QED
    BY <2>1, <2>2
<1>4. ASSUME NEW d \in Deletable, DeleteDevice(d) PROVE StoreNext
  BY <1>4, DeletableAssumption DEF StoreNext
<1>5. ASSUME NEW r \in Roots, ChangeDirectory(r) PROVE StoreNext
  BY <1>5 DEF StoreNext
<1>6. CASE UNCHANGED vars
  BY <1>6 DEF vars
<1>7. QED
  BY <1>1, <1>2, <1>3, <1>4, <1>5, <1>6 DEF Next

\* A version of a managed device stays, until the device goes.
LEMMA VersionsStay ==
  ASSUME StoreTypeOK, [StoreNext]_storeVars, NEW d, NEW id, HasVersion(d, id)
  PROVE  HasVersion(d, id)'
<1>1. CASE \E x \in Devices : DeleteDevice(x)
  BY <1>1 DEF DeleteDevice, HasVersion
<1>2. ASSUME NEW w \in Workers, Repoint(w) PROVE HasVersion(d, id)'
  <2>1. CASE versions' = Repointed(w)
    <3> SUFFICES ASSUME d \in devices PROVE \E u \in Repointed(w) : u.id = id /\ u.device = d
      BY <1>2, <2>1 DEF Repoint, HasVersion
    <3>1. PICK v \in versions : v.id = id /\ v.device = d
      BY DEF HasVersion
    <3>2. v \in Version
      BY DEF StoreTypeOK
    <3>3. [v EXCEPT !.name = call[w].name].id = id /\ [v EXCEPT !.name = call[w].name].device = d
      BY <3>1, <3>2 DEF Version
    <3>4. QED
      BY <3>1, <3>3 DEF Repointed
  <2>2. CASE versions' = versions
    BY <1>2, <2>2 DEF Repoint, HasVersion
  <2>3. QED
    BY <1>2, <2>1, <2>2 DEF Repoint
<1>3. CASE devices' = devices /\ versions \subseteq versions'
  BY <1>3 DEF HasVersion
<1>4. ASSUME NEW w \in Workers, StoreStep(w), ~Repoint(w) PROVE devices' = devices /\ versions \subseteq versions'
  BY <1>4 DEF StoreStep, Compare, Probe, Rematerialise, Put, Commit, Refresh
<1>5. ASSUME NEW w \in Workers,
             EndStore(w) \/ StoreFault(w) \/ \E x \in Devices, n \in Names, c \in Configs : BeginStore(w, x, n, c)
      PROVE  devices' = devices /\ versions \subseteq versions'
  BY <1>5 DEF EndStore, StoreFault, WriteFails, CommitFails, Die, BeginStore
<1>6. ASSUME (\E r \in Roots : ChangeDirectory(r)) \/ UNCHANGED storeVars
      PROVE  devices' = devices /\ versions \subseteq versions'
  BY <1>6 DEF ChangeDirectory, storeVars
<1>7. QED
  BY <1>1, <1>2, <1>3, <1>4, <1>5, <1>6 DEF StoreNext

LEMMA DevicesOnlyGo ==
  ASSUME [StoreNext]_storeVars
  PROVE  devices' \subseteq devices
<1>1. ASSUME NEW w \in Workers, StoreStep(w) \/ EndStore(w) \/ StoreFault(w) PROVE devices' = devices
  BY <1>1 DEF StoreStep, Compare, Probe, Rematerialise, Repoint, Put, Commit, Refresh, EndStore, StoreFault,
              WriteFails, CommitFails, Die
<1>2. QED
  BY <1>1 DEF StoreNext, BeginStore, DeleteDevice, ChangeDirectory, storeVars

-----------------------------------------------------------------------------
(* Types.                                                                  *)

\* The part of TypeOK that is not the store's.
JobTypeOK ==
  /\ jobs \in [Jobs -> Job]
  /\ task \in [Jobs -> Task]
  /\ audits \subseteq [job : Jobs, result : Result]

\* Moving a thread on.
LEMMA MoveType ==
  ASSUME JobTypeOK, NEW j \in Jobs, NEW pc \in {"none", "queued", "select", "collect", "store", "failed", "done", "dead"},
         Move(j, pc)
  PROVE  task' \in [Jobs -> Task]
<1>1. task[j] \in Task
  BY DEF JobTypeOK
<1>2. [task[j] EXCEPT !.pc = pc] \in Task
  BY <1>1 DEF Task
<1>3. task' = [task EXCEPT ![j] = [task[j] EXCEPT !.pc = pc]]
  BY DEF Move
<1>4. QED
  BY <1>2, <1>3 DEF JobTypeOK

LEMMA RecordType ==
  ASSUME JobTypeOK, NEW j \in Jobs, NEW d \in Devices, NEW status \in {"SUCCESS", "FAILED"},
         NEW version \in Nat, Record(j, d, status, version), jobs' = jobs
  PROVE  JobTypeOK'
<1> DEFINE result == [device |-> d, status |-> status, version |-> version]
<1>1. result \in Result
  BY DEF Result
<1>2. task[j] \in Task
  BY DEF JobTypeOK
<1>3. [task[j] EXCEPT !.pc = "select", !.current = {}, !.results = @ \cup {result}] \in Task
  BY <1>1, <1>2 DEF Task
<1>4. /\ task' = [task EXCEPT ![j] = [task[j] EXCEPT !.pc = "select", !.current = {}, !.results = @ \cup {result}]]
      /\ audits' = audits \cup {[job |-> j, result |-> result]}
  BY DEF Record
<1>5. QED
  BY <1>1, <1>3, <1>4 DEF JobTypeOK

LEMMA FinalStatusType == \A results : FinalStatus(results) \in Terminal
BY DEF FinalStatus, Terminal

LEMMA JobTypeStep ==
  ASSUME TypeOK, [Next]_vars
  PROVE  JobTypeOK'
<1>0. JobTypeOK
  BY DEF TypeOK, JobTypeOK
<1> USE DEF Jobs
<1>1. ASSUME NEW j \in Jobs, NEW ids \in SUBSET Devices, CreateJob(j, ids) PROVE JobTypeOK'
  <2>1. task' \in [Jobs -> Task]
    BY <1>0, <1>1, MoveType DEF CreateJob
  <2>2. jobs' = [jobs EXCEPT ![j] = [jobs[j] EXCEPT !.status = "PENDING", !.scope = IF ids = {} THEN devices ELSE ids]]
    BY <1>1 DEF CreateJob
  <2>3. jobs[j] \in Job /\ devices \subseteq Devices
    BY <1>0 DEF JobTypeOK, TypeOK, StoreTypeOK
  <2>4. [jobs[j] EXCEPT !.status = "PENDING", !.scope = IF ids = {} THEN devices ELSE ids] \in Job
    BY <2>3 DEF Job
  <2>5. jobs' \in [Jobs -> Job]
    BY <1>0, <2>2, <2>4 DEF JobTypeOK
  <2>6. audits' = audits
    BY <1>1 DEF CreateJob
  <2>7. QED
    BY <1>0, <2>1, <2>5, <2>6 DEF JobTypeOK
<1>2. ASSUME NEW j \in Jobs, BeginRun(j) PROVE JobTypeOK'
  <2>1. jobs[j] \in Job /\ task[j] \in Task
    BY <1>0 DEF JobTypeOK
  <2>2. StillThere(j) \subseteq Devices
    BY <2>1 DEF StillThere, Job
  <2>3. /\ [jobs[j] EXCEPT !.status = "RUNNING"] \in Job
        /\ [task[j] EXCEPT !.pc = "select", !.selected = StillThere(j), !.todo = StillThere(j)] \in Task
    BY <2>1, <2>2 DEF Job, Task
  <2>4. /\ jobs' = [jobs EXCEPT ![j] = [jobs[j] EXCEPT !.status = "RUNNING"]]
        /\ task' = [task EXCEPT ![j] = [task[j] EXCEPT !.pc = "select", !.selected = StillThere(j), !.todo = StillThere(j)]]
        /\ audits' = audits
    BY <1>2 DEF BeginRun
  <2>5. QED
    BY <1>0, <2>3, <2>4 DEF JobTypeOK
<1>3. ASSUME NEW j \in Jobs, LoadDevice(j) PROVE JobTypeOK'
  <2>1. PICK d \in task[j].todo :
          \/ task' = [task EXCEPT ![j] = [task[j] EXCEPT !.pc = "collect", !.todo = @ \ {d}, !.current = {d}]]
          \/ task' = [task EXCEPT ![j] = [task[j] EXCEPT !.pc = "dead", !.todo = @ \ {d}]]
    BY <1>3 DEF LoadDevice
  <2>2. task[j] \in Task /\ d \in Devices
    BY <1>0, <2>1 DEF JobTypeOK, Task
  <2>3. /\ [task[j] EXCEPT !.pc = "collect", !.todo = @ \ {d}, !.current = {d}] \in Task
        /\ [task[j] EXCEPT !.pc = "dead", !.todo = @ \ {d}] \in Task
    BY <2>2 DEF Task
  <2>4. QED
    BY <1>0, <1>3, <2>1, <2>3 DEF JobTypeOK, LoadDevice
<1>4. ASSUME NEW j \in Jobs, Collect(j) \/ CollectionFails(j) \/ StoreFails(j) PROVE JobTypeOK'
  BY <1>0, <1>4, MoveType DEF JobTypeOK, Collect, CollectionFails, StoreFails
<1>5. ASSUME NEW j \in Jobs, Stored(j) PROVE JobTypeOK'
  <2>1. PICK d \in task[j].current : Record(j, d, "SUCCESS", call[j].id)
    BY <1>5 DEF Stored
  <2>2. d \in Devices
    BY <1>0, <2>1 DEF JobTypeOK, Task
  <2>3. call[j].id \in Nat
    BY <1>5 DEF Stored, TypeOK, StoreTypeOK, Idle, Call
  <2>4. QED
    BY <1>0, <1>5, <2>1, <2>2, <2>3, RecordType DEF Stored
<1>6. ASSUME NEW j \in Jobs, RecordFailure(j) PROVE JobTypeOK'
  <2>1. PICK d \in task[j].current : Record(j, d, "FAILED", 0)
    BY <1>6 DEF RecordFailure
  <2>2. d \in Devices
    BY <1>0, <2>1 DEF JobTypeOK, Task
  <2>3. QED
    BY <1>0, <1>6, <2>1, <2>2, RecordType DEF RecordFailure
<1>7. ASSUME NEW j \in Jobs, Finish(j) PROVE JobTypeOK'
  <2>1. jobs[j] \in Job /\ task[j] \in Task
    BY <1>0 DEF JobTypeOK
  <2>2. [jobs[j] EXCEPT !.status = FinalStatus(task[j].results), !.results = task[j].results] \in Job
    BY <2>1, FinalStatusType DEF Job, Task
  <2>3. jobs' = [jobs EXCEPT ![j] = [jobs[j] EXCEPT !.status = FinalStatus(task[j].results), !.results = task[j].results]]
        /\ audits' = audits
    BY <1>7 DEF Finish
  <2>4. task' \in [Jobs -> Task]
    BY <1>0, <1>7, MoveType DEF Finish
  <2>5. QED
    BY <1>0, <2>2, <2>3, <2>4 DEF JobTypeOK
<1>8. ASSUME NEW j \in Jobs, Escape(j) PROVE JobTypeOK'
  BY <1>0, <1>8, MoveType DEF JobTypeOK, Escape
<1>9. ASSUME UNCHANGED jobVars PROVE JobTypeOK'
  BY <1>0, <1>9 DEF JobTypeOK, jobVars
<1>10. QED
  BY <1>1, <1>2, <1>3, <1>4, <1>5, <1>6, <1>7, <1>8, <1>9 DEF Next, RunStep, Storing, vars

\* Every variable of the backup service, and of the store below it, keeps its type.
LEMMA BackupTypeStep ==
  ASSUME TypeOK, [Next]_vars
  PROVE  TypeOK'
<1>1. StoreTypeOK'
  BY JobStepIsStoreStep, TypeStep DEF TypeOK
<1>2. QED
  BY <1>1, JobTypeStep DEF TypeOK, JobTypeOK

-----------------------------------------------------------------------------
(* JobInv.                                                                 *)

\* A job survives what happens to others: devices and versions only go together.
LEMMA JobUntouched ==
  ASSUME TypeOK, [StoreNext]_storeVars, NEW j \in Jobs, JobInv(j),
         jobs'[j] = jobs[j], task'[j] = task[j], call'[j] = call[j]
  PROVE  JobInv(j)'
<1>1. \A d, id : HasVersion(d, id) => HasVersion(d, id)'
  BY VersionsStay DEF TypeOK
<1>2. StatusMatchesTask(j)'
  BY DEF JobInv, StatusMatchesTask, At
<1>3. SelectionCoversScope(j)'
  BY DevicesOnlyGo DEF JobInv, SelectionCoversScope, StillThere
<1>4. EachDeviceOnce(j)'
  BY DEF JobInv, EachDeviceOnce, Recorded, At
<1>5. CallMatchesTask(j)'
  <2>1. call[j] # Idle <=> At(j, "store")
    BY DEF JobInv, CallMatchesTask
  <2>2. At(j, "store") => task[j].current = {call[j].device}
    BY DEF JobInv, CallMatchesTask
  <2>3. ASSUME NEW d, NEW id, d = call[j].device, id = call[j].id, At(j, "store"),
               call[j].pc \in {"probe", "rematerialise", "repoint", "unchanged", "refresh", "created"}
        PROVE  HasVersion(d, id)'
    BY <1>1, <2>3 DEF JobInv, CallMatchesTask
  <2>4. QED
    BY <2>1, <2>2, <2>3 DEF CallMatchesTask, At, HasVersion
<1>6. ResultsStand(j)'
  <2>1. \A r \in task[j].results : r.status = "SUCCESS" => HasVersion(r.device, r.version)'
    BY <1>1 DEF JobInv, ResultsStand
  <2>2. jobs[j].status \in Terminal =>
          jobs[j].results = task[j].results /\ jobs[j].status = FinalStatus(task[j].results)
    BY DEF JobInv, ResultsStand
  <2>3. QED
    BY <2>1, <2>2 DEF ResultsStand, HasVersion
<1>7. QED
  BY <1>2, <1>3, <1>4, <1>5, <1>6 DEF JobInv

\* What a step of the store does to the call it belongs to.
LEMMA StoreCallStep ==
  ASSUME StoreTypeOK, NEW w \in Workers, StoreStep(w) \/ WriteFails(w) \/ CommitFails(w)
  PROVE  /\ call[w] \in Call /\ call'[w] \in Call /\ call'[w].device = call[w].device
         /\ \A x \in Workers : x # w => call'[x] = call[x]
<1>1. call[w] \in Call
  BY ActiveCall DEF StoreStep, Compare, Probe, Rematerialise, Repoint, Put, Commit, Refresh, WriteFails, CommitFails
<1>2. ASSUME NEW pc \in Steps \cup Outcomes, Goto(w, pc)
      PROVE  call'[w] \in Call /\ call'[w].device = call[w].device
             /\ \A x \in Workers : x # w => call'[x] = call[x]
  BY <1>1, <1>2 DEF Goto, StoreTypeOK, Call
<1>3. ASSUME Compare(w)
      PROVE  call'[w] \in Call /\ call'[w].device = call[w].device
             /\ \A x \in Workers : x # w => call'[x] = call[x]
  <2>1. ASSUME NEW v \in Newest(call[w].device),
               \/ call' = [call EXCEPT ![w].pc = "probe", ![w].id = v.id, ![w].uri = v.name]
               \/ call' = [call EXCEPT ![w].pc = "put", ![w].parent = v.id]
        PROVE  call'[w] \in Call /\ call'[w].device = call[w].device
               /\ \A x \in Workers : x # w => call'[x] = call[x]
    <3>1. v.id \in Nat /\ v.name \in Names
      BY <2>1 DEF Newest, StoreTypeOK, Version
    <3>2. QED
      BY <1>1, <2>1, <3>1 DEF StoreTypeOK, Call, Steps
  <2>2. QED
    BY <1>2, <1>3, <2>1 DEF Compare, Steps
<1>4. ASSUME Put(w)
      PROVE  call'[w] \in Call /\ call'[w].device = call[w].device
             /\ \A x \in Workers : x # w => call'[x] = call[x]
  BY <1>1, <1>4 DEF Put, StoreTypeOK, Call, Steps, Ids
<1>5. ASSUME Probe(w) \/ Rematerialise(w) \/ Repoint(w) \/ Commit(w) \/ Refresh(w) \/ WriteFails(w) \/ CommitFails(w)
      PROVE  \E pc \in Steps \cup Outcomes : Goto(w, pc)
  BY <1>5 DEF Probe, Rematerialise, Repoint, Commit, Refresh, WriteFails, CommitFails, Steps, Outcomes
<1>6. QED
  BY <1>1, <1>2, <1>3, <1>4, <1>5 DEF StoreStep

\* A call that found or committed a version knows one that is there.
LEMMA StoreCallHolds ==
  ASSUME StoreTypeOK, NEW w \in Workers, StoreStep(w) \/ WriteFails(w) \/ CommitFails(w),
         call[w].pc \in {"probe", "rematerialise", "repoint", "unchanged", "refresh", "created"}
            => HasVersion(call[w].device, call[w].id),
         call'[w].pc \in {"probe", "rematerialise", "repoint", "unchanged", "refresh", "created"},
         NEW d, NEW id, d = call'[w].device, id = call'[w].id
  PROVE  HasVersion(d, id)'
<1>0. call[w] \in Call /\ d = call[w].device /\ [StoreNext]_storeVars
  BY StoreCallStep, TakeStoreStep DEF Jobs
<1>1. CASE Compare(w)
  <2>1. ASSUME NEW pc, call' = [call EXCEPT ![w].pc = pc]
        PROVE  call'[w].pc = pc
    BY <1>0, <2>1 DEF StoreTypeOK, Call
  <2>2. ASSUME NEW v \in Newest(call[w].device), call' = [call EXCEPT ![w].pc = "put", ![w].parent = v.id]
        PROVE  call'[w].pc = "put"
    BY <1>0, <2>2 DEF StoreTypeOK, Call
  <2>3. ~ Goto(w, "put")
    BY <2>1 DEF Goto
  <2>4. PICK v \in Newest(call[w].device) : call' = [call EXCEPT ![w].pc = "probe", ![w].id = v.id, ![w].uri = v.name]
    BY <1>1, <2>2, <2>3 DEF Compare
  <2>5. id = v.id
    BY <1>0, <2>4 DEF StoreTypeOK, Call
  <2>6. QED
    BY <1>0, <1>1, <2>4, <2>5 DEF Compare, Newest, HasVersion
<1>2. CASE Probe(w) \/ Rematerialise(w) \/ Repoint(w) \/ Refresh(w)
  <2>1. PICK pc : Goto(w, pc)
    BY <1>2 DEF Probe, Rematerialise, Repoint, Refresh
  <2>2. id = call[w].id
    BY <1>0, <2>1 DEF Goto, StoreTypeOK, Call
  <2>3. HasVersion(d, id)
    BY <1>0, <1>2, <2>2 DEF Probe, Rematerialise, Repoint, Refresh
  <2>4. QED
    BY <1>0, <2>3, VersionsStay
<1>3. CASE Commit(w)
  <2>1. versions' = versions \cup {NewRow(w)} \/ call'[w].pc = "poisoned"
    BY <1>0, <1>3 DEF Commit, Goto, StoreTypeOK, Call
  <2>2. id = call[w].id
    BY <1>0, <1>3 DEF Commit, Goto, StoreTypeOK, Call
  <2>3. NewRow(w).id = id /\ NewRow(w).device = d
    BY <1>0, <2>2 DEF NewRow
  <2>4. QED
    BY <2>1, <2>3 DEF HasVersion
<1>4. CASE Put(w) \/ WriteFails(w) \/ CommitFails(w)
  <2>1. call'[w].pc \in {"commit", "raised", "poisoned"}
    BY <1>0, <1>4 DEF Put, WriteFails, CommitFails, Goto, StoreTypeOK, Call
  <2>2. QED
    BY <2>1
<1>5. QED
  BY <1>1, <1>2, <1>3, <1>4 DEF StoreStep

\* The fields of a task after a Move or a Record.
LEMMA MoveFields ==
  ASSUME TypeOK, NEW j \in Jobs, NEW pc, Move(j, pc)
  PROVE  /\ task'[j].pc = pc
         /\ task'[j].selected = task[j].selected /\ task'[j].todo = task[j].todo
         /\ task'[j].current = task[j].current /\ task'[j].results = task[j].results
         /\ \A i \in Jobs : i # j => task'[i] = task[i]
<1>1. task[j] \in Task
  BY DEF TypeOK
<1>2. QED
  BY <1>1 DEF Move, TypeOK, Task

LEMMA RecordFields ==
  ASSUME TypeOK, NEW j \in Jobs, NEW d, NEW status, NEW version, Record(j, d, status, version),
         NEW result, result = [device |-> d, status |-> status, version |-> version]
  PROVE  /\ task'[j].pc = "select"
         /\ task'[j].selected = task[j].selected /\ task'[j].todo = task[j].todo
         /\ task'[j].current = {} /\ task'[j].results = task[j].results \cup {result}
         /\ \A i \in Jobs : i # j => task'[i] = task[i]
         /\ audits' = audits \cup {[job |-> j, result |-> result]}
<1>1. task[j] \in Task
  BY DEF TypeOK
<1>2. /\ task' = [task EXCEPT ![j].pc = "select", ![j].current = {}, ![j].results = @ \cup {result}]
      /\ audits' = audits \cup {[job |-> j, result |-> result]}
  BY DEF Record
<1>3. QED
  BY <1>1, <1>2 DEF TypeOK, Task

\* A thread that moves on within the loop or leaves it disturbs nothing but its
\* place, as long as its call is where the place says.
LEMMA MoveInv ==
  ASSUME TypeOK, [StoreNext]_storeVars, NEW j \in Jobs, JobInv(j), task[j].pc \in InLoop,
         NEW pc \in {"failed", "dead"}, task[j].pc \in {"collect", "store", "failed"} \/ pc = "dead",
         Move(j, pc), jobs' = jobs, call'[j] = Idle
  PROVE  JobInv(j)'
<1>1. /\ task'[j].pc = pc
      /\ task'[j].selected = task[j].selected /\ task'[j].todo = task[j].todo
      /\ task'[j].current = task[j].current /\ task'[j].results = task[j].results
  BY MoveFields
<1>2. StatusMatchesTask(j)'
  BY <1>1 DEF JobInv, StatusMatchesTask, At, InLoop, Terminal
<1>3. SelectionCoversScope(j)'
  BY <1>1, DevicesOnlyGo DEF JobInv, SelectionCoversScope, StillThere
<1>4. EachDeviceOnce(j)'
  BY <1>1 DEF JobInv, EachDeviceOnce, Recorded, At, InLoop
<1>5. CallMatchesTask(j)'
  BY <1>1 DEF CallMatchesTask, At
<1>6. ResultsStand(j)'
  <2>1. ASSUME NEW r \in task[j].results, r.status = "SUCCESS", NEW d, NEW id, d = r.device, id = r.version
        PROVE  HasVersion(d, id)'
    BY <2>1, VersionsStay DEF JobInv, ResultsStand, TypeOK
  <2>2. \A r \in task[j].results : r.status = "SUCCESS" => HasVersion(r.device, r.version)'
    BY <2>1
  <2>3. jobs[j].status \notin Terminal
    BY DEF JobInv, StatusMatchesTask, InLoop, Terminal
  <2>4. QED
    BY <1>1, <2>2, <2>3 DEF ResultsStand, HasVersion
<1>7. QED
  BY <1>2, <1>3, <1>4, <1>5, <1>6 DEF JobInv

\* The end of a _backup_one call: the device at hand becomes a recorded one.
LEMMA RecordInv ==
  ASSUME TypeOK, [StoreNext]_storeVars, NEW j \in Jobs, JobInv(j), task[j].pc \in {"store", "failed"},
         NEW d \in task[j].current, NEW status, NEW version, Record(j, d, status, version),
         jobs' = jobs, call'[j] = Idle, status = "SUCCESS" => HasVersion(d, version)
  PROVE  JobInv(j)'
<1> DEFINE result == [device |-> d, status |-> status, version |-> version]
<1>1. /\ task'[j].pc = "select"
      /\ task'[j].selected = task[j].selected /\ task'[j].todo = task[j].todo
      /\ task'[j].current = {} /\ task'[j].results = task[j].results \cup {result}
  BY RecordFields
<1>2. StatusMatchesTask(j)'
  BY <1>1 DEF JobInv, StatusMatchesTask, At, InLoop, Terminal
<1>3. SelectionCoversScope(j)'
  <2>1. jobs[j].status = "RUNNING"
    BY DEF JobInv, StatusMatchesTask, InLoop
  <2>2. QED
    BY <1>1, <2>1, DevicesOnlyGo DEF JobInv, SelectionCoversScope, StillThere
<1>4. EachDeviceOnce(j)'
  <2>1. Recorded(j)' = Recorded(j) \cup {d}
    <3>1. result.device = d
      OBVIOUS
    <3>2. Recorded(j)' = {r.device : r \in task[j].results \cup {result}}
      BY <1>1 DEF Recorded
    <3> HIDE DEF result
    <3>3. QED
      BY <3>1, <3>2 DEF Recorded
  <2>2. task[j].current = {d} /\ d \in task[j].selected /\ d \notin task[j].todo /\ d \notin Recorded(j)
    BY DEF JobInv, EachDeviceOnce, InLoop
  <2>3. \A r, s \in task'[j].results : r.device = s.device => r = s
    BY <1>1, <2>2 DEF JobInv, EachDeviceOnce, Recorded
  <2>4. /\ task[j].selected = task[j].todo \cup task[j].current \cup Recorded(j)
        /\ task[j].todo \cap Recorded(j) = {}
    BY DEF JobInv, EachDeviceOnce, InLoop
  <2>5. QED
    BY <1>1, <2>1, <2>2, <2>3, <2>4 DEF EachDeviceOnce, At, InLoop
<1>5. CallMatchesTask(j)'
  BY <1>1 DEF CallMatchesTask, At
<1>6. ResultsStand(j)'
  <2>1. ASSUME NEW r \in task'[j].results, r.status = "SUCCESS", NEW e, NEW id, e = r.device, id = r.version
        PROVE  HasVersion(e, id)'
    <3>1. HasVersion(e, id)
      BY <1>1, <2>1 DEF JobInv, ResultsStand
    <3>2. QED
      BY <3>1, VersionsStay DEF TypeOK
  <2>2. \A r \in task'[j].results : r.status = "SUCCESS" => HasVersion(r.device, r.version)'
    BY <2>1
  <2>3. jobs[j].status \notin Terminal
    BY DEF JobInv, StatusMatchesTask, InLoop, Terminal
  <2>4. QED
    BY <2>2, <2>3 DEF ResultsStand, HasVersion
<1>7. QED
  BY <1>2, <1>3, <1>4, <1>5, <1>6 DEF JobInv

\* create_job: nothing has been read or recorded for a job that is only accepted.
LEMMA CreateJobInv ==
  ASSUME TypeOK, NEW j \in Jobs, NEW ids \in SUBSET Devices, CreateJob(j, ids), JobInv(j)
  PROVE  JobInv(j)'
<1>1. /\ task'[j].pc = "queued"
      /\ task'[j].selected = task[j].selected /\ task'[j].todo = task[j].todo
      /\ task'[j].current = task[j].current /\ task'[j].results = task[j].results
  BY MoveFields DEF CreateJob
<1>2. jobs'[j].status = "PENDING" /\ call'[j] = call[j]
  BY DEF CreateJob, TypeOK, Job, storeVars
<1>3. At(j, "none") /\ task[j].selected = {} /\ task[j].todo = {} /\ task[j].current = {} /\ task[j].results = {}
  BY DEF CreateJob, JobInv, StatusMatchesTask, SelectionCoversScope
<1>4. StatusMatchesTask(j)' /\ SelectionCoversScope(j)'
  BY <1>1, <1>2, <1>3 DEF StatusMatchesTask, SelectionCoversScope, At, InLoop, Terminal
<1>5. EachDeviceOnce(j)'
  BY <1>1, <1>3 DEF EachDeviceOnce, Recorded, At, InLoop
<1>6. CallMatchesTask(j)' /\ ResultsStand(j)'
  BY <1>1, <1>2, <1>3 DEF JobInv, CallMatchesTask, ResultsStand, At, Terminal
<1>7. QED
  BY <1>4, <1>5, <1>6 DEF JobInv

\* run(): the devices of the scope that are still there are selected, none is recorded.
LEMMA BeginRunInv ==
  ASSUME TypeOK, NEW j \in Jobs, BeginRun(j), JobInv(j)
  PROVE  JobInv(j)'
<1>1. jobs[j] \in Job /\ task[j] \in Task
  BY DEF TypeOK
<1>2. /\ jobs'[j].status = "RUNNING" /\ jobs'[j].scope = jobs[j].scope
      /\ task'[j].pc = "select" /\ task'[j].selected = StillThere(j) /\ task'[j].todo = StillThere(j)
      /\ task'[j].current = task[j].current /\ task'[j].results = task[j].results
      /\ devices' = devices /\ call'[j] = call[j]
  BY <1>1 DEF BeginRun, TypeOK, Job, Task, storeVars
<1>3. At(j, "queued") /\ task[j].current = {} /\ task[j].results = {}
  BY DEF BeginRun, JobInv, StatusMatchesTask, SelectionCoversScope
<1>4. StatusMatchesTask(j)'
  BY <1>2 DEF StatusMatchesTask, At, InLoop, Terminal
<1>5. SelectionCoversScope(j)'
  BY <1>2 DEF SelectionCoversScope, StillThere
<1>6. EachDeviceOnce(j)'
  BY <1>2, <1>3 DEF EachDeviceOnce, Recorded, At, InLoop
<1>7. CallMatchesTask(j)' /\ ResultsStand(j)'
  BY <1>2, <1>3 DEF JobInv, CallMatchesTask, ResultsStand, At, Terminal
<1>8. QED
  BY <1>4, <1>5, <1>6, <1>7 DEF JobInv

\* _backup_one takes a device from those to be done, or the thread dies on it.
LEMMA LoadDeviceInv ==
  ASSUME TypeOK, NEW j \in Jobs, LoadDevice(j), JobInv(j)
  PROVE  JobInv(j)'
<1>1. PICK d \in task[j].todo :
        \/ task' = [task EXCEPT ![j].pc = "collect", ![j].todo = @ \ {d}, ![j].current = {d}]
        \/ task' = [task EXCEPT ![j].pc = "dead", ![j].todo = @ \ {d}]
  BY DEF LoadDevice
<1>2. task[j] \in Task /\ d \in Devices
  BY <1>1 DEF TypeOK, Task
<1>3. /\ task'[j].selected = task[j].selected /\ task'[j].results = task[j].results
      /\ task'[j].todo = task[j].todo \ {d}
      /\ \/ task'[j].pc = "collect" /\ task'[j].current = {d}
         \/ task'[j].pc = "dead" /\ task'[j].current = task[j].current
  BY <1>1, <1>2 DEF TypeOK, Task
<1>4. jobs' = jobs /\ call' = call /\ devices' = devices /\ versions' = versions /\ At(j, "select")
  BY DEF LoadDevice, storeVars
<1>5. StatusMatchesTask(j)' /\ SelectionCoversScope(j)'
  BY <1>3, <1>4 DEF JobInv, StatusMatchesTask, SelectionCoversScope, StillThere, At, InLoop, Terminal
<1>6. EachDeviceOnce(j)'
  <2>1. Recorded(j)' = Recorded(j)
    BY <1>3 DEF Recorded
  <2>2. /\ task[j].selected = task[j].todo \cup task[j].current \cup Recorded(j)
        /\ task[j].current = {} /\ task[j].todo \cap Recorded(j) = {}
        /\ Recorded(j) \subseteq task[j].selected
        /\ \A r, s \in task[j].results : r.device = s.device => r = s
    BY <1>4 DEF JobInv, EachDeviceOnce, At, InLoop
  <2>3. QED
    BY <1>1, <1>2, <1>3, <2>1, <2>2 DEF EachDeviceOnce, At, InLoop
<1>7. CallMatchesTask(j)' /\ ResultsStand(j)'
  BY <1>3, <1>4 DEF JobInv, CallMatchesTask, ResultsStand, HasVersion, At
<1>8. QED
  BY <1>5, <1>6, <1>7 DEF JobInv

\* The adapter answered: the call of store() is for the device at hand.
LEMMA CollectInv ==
  ASSUME TypeOK, NEW j \in Jobs, Collect(j), JobInv(j)
  PROVE  JobInv(j)'
<1>1. PICK d \in task[j].current, name \in Names, c \in Configs : BeginStore(j, d, name, c)
  BY DEF Collect
<1>2. /\ task'[j].pc = "store"
      /\ task'[j].selected = task[j].selected /\ task'[j].todo = task[j].todo
      /\ task'[j].current = task[j].current /\ task'[j].results = task[j].results
  BY MoveFields DEF Collect
<1>3. jobs' = jobs /\ devices' = devices /\ versions' = versions /\ At(j, "collect")
  BY <1>1 DEF Collect, BeginStore
<1>4. call'[j] = [pc |-> "compare", device |-> d, name |-> name, sha |-> c,
                  parent |-> NoParent, uri |-> name, id |-> 0]
  BY <1>1 DEF BeginStore, TypeOK, StoreTypeOK, Jobs
<1>5. call'[j] # Idle /\ call'[j].pc = "compare" /\ call'[j].device = d
  BY <1>4 DEF Idle
<1>6. StatusMatchesTask(j)' /\ SelectionCoversScope(j)'
  BY <1>2, <1>3 DEF JobInv, StatusMatchesTask, SelectionCoversScope, StillThere, At, InLoop, Terminal
<1>7. EachDeviceOnce(j)'
  BY <1>2, <1>3 DEF JobInv, EachDeviceOnce, Recorded, At, InLoop
<1>8. CallMatchesTask(j)'
  <2>1. task[j].current = {d}
    BY <1>1, <1>3 DEF JobInv, EachDeviceOnce, At
  <2>2. QED
    BY <1>2, <1>5, <2>1 DEF CallMatchesTask, At
<1>9. ResultsStand(j)'
  BY <1>2, <1>3 DEF JobInv, ResultsStand, HasVersion
<1>10. QED
  BY <1>6, <1>7, <1>8, <1>9 DEF JobInv

\* A step inside store(): the version it found or committed is there.
LEMMA StoringInv ==
  ASSUME TypeOK, NEW j \in Jobs, Storing(j), JobInv(j)
  PROVE  JobInv(j)'
<1>1. /\ StoreTypeOK /\ j \in Workers /\ (StoreStep(j) \/ WriteFails(j) \/ CommitFails(j)) /\ [StoreNext]_storeVars
      /\ jobs' = jobs /\ task' = task /\ At(j, "store")
  BY TakeStoreStep DEF Storing, jobVars, TypeOK, Jobs
<1>2. call[j] \in Call /\ call'[j] \in Call /\ call'[j].device = call[j].device
  BY <1>1, StoreCallStep
<1>3. StatusMatchesTask(j)' /\ EachDeviceOnce(j)'
  BY <1>1 DEF JobInv, StatusMatchesTask, EachDeviceOnce, Recorded, At
<1>4. SelectionCoversScope(j)'
  BY <1>1, DevicesOnlyGo DEF JobInv, SelectionCoversScope, StillThere
<1>5. CallMatchesTask(j)'
  <2>1. call'[j] # Idle
    BY <1>2 DEF Idle, Call, Steps, Outcomes
  <2>2. task[j].current = {call'[j].device}
    BY <1>1, <1>2 DEF JobInv, CallMatchesTask
  <2>3. ASSUME NEW d, NEW id, d = call'[j].device, id = call'[j].id,
               call'[j].pc \in {"probe", "rematerialise", "repoint", "unchanged", "refresh", "created"}
        PROVE  HasVersion(d, id)'
    BY <1>1, <2>3, StoreCallHolds DEF JobInv, CallMatchesTask
  <2>4. call'[j].pc \in {"probe", "rematerialise", "repoint", "unchanged", "refresh", "created"}
          => HasVersion(call[j].device, call[j].id)'
    BY <2>3
  <2>5. QED
    BY <1>1, <2>1, <2>2, <2>4 DEF CallMatchesTask, At
<1>6. ResultsStand(j)'
  <2>1. ASSUME NEW r \in task[j].results, r.status = "SUCCESS", NEW d, NEW id, d = r.device, id = r.version
        PROVE  HasVersion(d, id)'
    BY <1>1, <2>1, VersionsStay DEF JobInv, ResultsStand
  <2>2. \A r \in task[j].results : r.status = "SUCCESS" => HasVersion(r.device, r.version)'
    BY <2>1
  <2>3. jobs[j].status \notin Terminal
    BY <1>1 DEF JobInv, StatusMatchesTask, At, Terminal
  <2>4. QED
    BY <1>1, <2>2, <2>3 DEF ResultsStand, HasVersion
<1>7. QED
  BY <1>3, <1>4, <1>5, <1>6 DEF JobInv

\* store() returned: the result names the version it returned.
LEMMA StoredInv ==
  ASSUME TypeOK, NEW j \in Jobs, Stored(j), JobInv(j)
  PROVE  JobInv(j)'
<1>1. PICK d \in task[j].current : Record(j, d, "SUCCESS", call[j].id)
  BY DEF Stored
<1>2. jobs' = jobs /\ call'[j] = Idle /\ [StoreNext]_storeVars
  BY DEF Stored, EndStore, TypeOK, StoreTypeOK, Jobs, StoreNext
<1>3. HasVersion(call[j].device, call[j].id) /\ d = call[j].device /\ At(j, "store")
  BY <1>1 DEF Stored, JobInv, CallMatchesTask
<1>4. QED
  BY <1>1, <1>2, <1>3, RecordInv DEF At

LEMMA StoreFailsInv ==
  ASSUME TypeOK, NEW j \in Jobs, StoreFails(j), JobInv(j)
  PROVE  JobInv(j)'
<1>1. jobs' = jobs /\ call'[j] = Idle /\ [StoreNext]_storeVars /\ At(j, "store")
  BY DEF StoreFails, EndStore, TypeOK, StoreTypeOK, Jobs, StoreNext
<1>2. PICK pc \in {"failed", "dead"} : Move(j, pc)
  BY DEF StoreFails
<1>3. QED
  BY <1>1, <1>2, MoveInv DEF At, InLoop

LEMMA CollectionFailsInv ==
  ASSUME TypeOK, NEW j \in Jobs, CollectionFails(j), JobInv(j)
  PROVE  JobInv(j)'
<1>1. jobs' = jobs /\ [StoreNext]_storeVars /\ At(j, "collect") /\ Move(j, "failed") /\ call' = call
  BY DEF CollectionFails, storeVars
<1>2. call[j] = Idle
  BY <1>1 DEF JobInv, CallMatchesTask, At
<1>3. QED
  BY <1>1, <1>2, MoveInv DEF At, InLoop

LEMMA RecordFailureInv ==
  ASSUME TypeOK, NEW j \in Jobs, RecordFailure(j), JobInv(j)
  PROVE  JobInv(j)'
<1>1. PICK d \in task[j].current : Record(j, d, "FAILED", 0)
  BY DEF RecordFailure
<1>2. jobs' = jobs /\ [StoreNext]_storeVars /\ At(j, "failed") /\ call' = call
  BY DEF RecordFailure, storeVars
<1>3. call[j] = Idle
  BY <1>2 DEF JobInv, CallMatchesTask, At
<1>4. QED
  BY <1>1, <1>2, <1>3, RecordInv DEF At

\* The status is computed from all the results, once every device has one.
LEMMA FinishInv ==
  ASSUME TypeOK, NEW j \in Jobs, Finish(j), JobInv(j)
  PROVE  JobInv(j)'
<1>1. jobs[j] \in Job
  BY DEF TypeOK
<1>2. /\ task'[j].pc = "done"
      /\ task'[j].selected = task[j].selected /\ task'[j].todo = task[j].todo
      /\ task'[j].current = task[j].current /\ task'[j].results = task[j].results
  BY MoveFields DEF Finish
<1>3. /\ jobs'[j].status = FinalStatus(task[j].results) /\ jobs'[j].results = task[j].results
      /\ jobs'[j].scope = jobs[j].scope
  BY <1>1 DEF Finish, TypeOK, Job
<1>4. /\ call' = call /\ devices' = devices /\ versions' = versions
      /\ At(j, "select") /\ task[j].todo = {} /\ FinalStatus(task[j].results) \in Terminal
  BY FinalStatusType DEF Finish, storeVars
<1>5. StatusMatchesTask(j)'
  BY <1>2, <1>3, <1>4 DEF StatusMatchesTask, At, InLoop, Terminal
<1>6. SelectionCoversScope(j)'
  <2>1. jobs[j].status = "RUNNING"
    BY <1>4 DEF JobInv, StatusMatchesTask, At, InLoop
  <2>2. QED
    BY <1>2, <1>3, <1>4, <2>1 DEF JobInv, SelectionCoversScope, StillThere, Terminal
<1>7. EachDeviceOnce(j)'
  BY <1>2, <1>4 DEF JobInv, EachDeviceOnce, Recorded, At, InLoop
<1>8. CallMatchesTask(j)'
  BY <1>2, <1>4 DEF JobInv, CallMatchesTask, At
<1>9. ResultsStand(j)'
  BY <1>2, <1>3, <1>4 DEF JobInv, ResultsStand, HasVersion
<1>10. QED
  BY <1>5, <1>6, <1>7, <1>8, <1>9 DEF JobInv

\* The process stops: the row stays as it was committed.
LEMMA EscapeInv ==
  ASSUME TypeOK, NEW j \in Jobs, Escape(j), JobInv(j)
  PROVE  JobInv(j)'
<1>1. jobs' = jobs /\ Move(j, "dead") /\ call'[j] = Idle /\ devices' = devices /\ versions' = versions
  BY DEF Escape, TypeOK, StoreTypeOK, Jobs
<1>2. /\ task'[j].pc = "dead"
      /\ task'[j].selected = task[j].selected /\ task'[j].todo = task[j].todo
      /\ task'[j].current = task[j].current /\ task'[j].results = task[j].results
  BY <1>1, MoveFields
<1>3. StatusMatchesTask(j)' /\ SelectionCoversScope(j)' /\ CallMatchesTask(j)'
  BY <1>1, <1>2 DEF Escape, JobInv, StatusMatchesTask, SelectionCoversScope, CallMatchesTask, StillThere, At,
                    InLoop, Terminal
<1>4. EachDeviceOnce(j)'
  BY <1>2 DEF JobInv, EachDeviceOnce, Recorded, At, InLoop
<1>5. ResultsStand(j)'
  BY <1>1, <1>2 DEF JobInv, ResultsStand, HasVersion
<1>6. QED
  BY <1>3, <1>4, <1>5 DEF JobInv

\* A step of one job leaves the other jobs' rows, threads and calls alone.
LEMMA OthersUntouched ==
  ASSUME TypeOK, NEW i \in Jobs, NEW j \in Jobs, i # j,
         RunStep(j) \/ Escape(j) \/ \E ids \in SUBSET Devices : CreateJob(j, ids)
  PROVE  jobs'[i] = jobs[i] /\ task'[i] = task[i] /\ call'[i] = call[i]
<1> USE DEF TypeOK, StoreTypeOK, Jobs
<1>1. CASE BeginRun(j) \/ LoadDevice(j) \/ \E ids \in SUBSET Devices : CreateJob(j, ids)
  BY <1>1 DEF BeginRun, LoadDevice, CreateJob, Move, storeVars
<1>2. CASE CollectionFails(j) \/ StoreFails(j) \/ Escape(j) \/ Finish(j)
  BY <1>2 DEF CollectionFails, StoreFails, EndStore, Escape, Finish, Move, storeVars
<1>3. CASE Collect(j)
  BY <1>3 DEF Collect, BeginStore, Move
<1>4. CASE Storing(j)
  BY <1>4, StoreCallStep DEF Storing, jobVars
<1>5. CASE Stored(j) \/ RecordFailure(j)
  BY <1>5 DEF Stored, RecordFailure, Record, EndStore, storeVars
<1>6. QED
  BY <1>1, <1>2, <1>3, <1>4, <1>5 DEF RunStep

LEMMA JobInvStep ==
  ASSUME TypeOK, [Next]_vars, NEW i \in Jobs, JobInv(i)
  PROVE  JobInv(i)'
<1>1. [StoreNext]_storeVars
  BY JobStepIsStoreStep
<1>2. CASE jobs'[i] = jobs[i] /\ task'[i] = task[i] /\ call'[i] = call[i]
  BY <1>1, <1>2, JobUntouched
<1>3. ASSUME NEW j \in Jobs, i # j, RunStep(j) \/ Escape(j) \/ \E ids \in SUBSET Devices : CreateJob(j, ids)
      PROVE  JobInv(i)'
  BY <1>2, <1>3, OthersUntouched
<1>4. ASSUME RunStep(i) \/ Escape(i) \/ \E ids \in SUBSET Devices : CreateJob(i, ids)
      PROVE  JobInv(i)'
  BY <1>4, CreateJobInv, BeginRunInv, LoadDeviceInv, CollectInv, CollectionFailsInv, StoringInv, StoredInv,
     StoreFailsInv, RecordFailureInv, FinishInv, EscapeInv DEF RunStep
<1>5. CASE (\E d \in Deletable : DeleteDevice(d) /\ UNCHANGED jobVars)
           \/ (\E r \in Roots : ChangeDirectory(r) /\ UNCHANGED jobVars) \/ UNCHANGED vars
  BY <1>2, <1>5 DEF DeleteDevice, ChangeDirectory, jobVars, vars, storeVars
<1>6. QED
  BY <1>3, <1>4, <1>5 DEF Next

-----------------------------------------------------------------------------
(* The audit trail.                                                        *)

AuditsOf(j) == {a.result : a \in {b \in audits : b.job = j}}
Told == \A j \in Jobs : AuditsOf(j) = task[j].results

LEMMA RecordTold ==
  ASSUME TypeOK, Told, NEW j \in Jobs, NEW d, NEW status, NEW version, Record(j, d, status, version)
  PROVE  Told'
<1>1. PICK result : result = [device |-> d, status |-> status, version |-> version]
  OBVIOUS
<1>2. /\ task'[j].results = task[j].results \cup {result}
      /\ \A i \in Jobs : i # j => task'[i] = task[i]
      /\ audits' = audits \cup {[job |-> j, result |-> result]}
  BY <1>1, RecordFields
<1> DEFINE row == [job |-> j, result |-> result]
<1>3. /\ task'[j].results = task[j].results \cup {result}
      /\ \A i \in Jobs : i # j => task'[i] = task[i]
      /\ audits' = audits \cup {row}
  BY <1>2
<1>4. row.job = j /\ row.result = result
  OBVIOUS
<1> HIDE DEF row
<1>5. ASSUME NEW i \in Jobs, i # j PROVE AuditsOf(i)' = task'[i].results
  BY <1>3, <1>4, <1>5 DEF AuditsOf, Told
<1>6. AuditsOf(j)' = task'[j].results
  <2>1. AuditsOf(j)' = AuditsOf(j) \cup {result}
    BY <1>3, <1>4 DEF AuditsOf
  <2>2. QED
    BY <1>3, <2>1 DEF Told
<1>7. QED
  BY <1>5, <1>6 DEF Told

LEMMA ToldStep ==
  ASSUME TypeOK, Told, [Next]_vars
  PROVE  Told'
<1>1. ASSUME audits' = audits, \A j \in Jobs : task'[j].results = task[j].results PROVE Told'
  BY <1>1 DEF Told, AuditsOf
<1>2. ASSUME NEW j \in Jobs, NEW pc, Move(j, pc), audits' = audits PROVE Told'
  BY <1>1, <1>2, MoveFields
<1>3. ASSUME NEW j \in Jobs, RunStep(j) \/ Escape(j) \/ \E ids \in SUBSET Devices : CreateJob(j, ids)
      PROVE  Told'
  <2>1. CASE CollectionFails(j) \/ StoreFails(j) \/ Escape(j) \/ Finish(j) \/ Collect(j)
             \/ \E ids \in SUBSET Devices : CreateJob(j, ids)
    BY <1>2, <2>1 DEF CollectionFails, StoreFails, Escape, Finish, Collect, CreateJob
  <2>2. CASE BeginRun(j) \/ LoadDevice(j)
    <3>1. task[j] \in Task /\ audits' = audits
      BY <2>2 DEF TypeOK, BeginRun, LoadDevice
    <3>2. task'[j].results = task[j].results
      <4>1. CASE BeginRun(j)
        BY <3>1, <4>1 DEF BeginRun, TypeOK, Task
      <4>2. CASE LoadDevice(j)
        <5>1. PICK d \in task[j].todo :
                \/ task' = [task EXCEPT ![j].pc = "collect", ![j].todo = @ \ {d}, ![j].current = {d}]
                \/ task' = [task EXCEPT ![j].pc = "dead", ![j].todo = @ \ {d}]
          BY <4>2 DEF LoadDevice
        <5>2. QED
          BY <3>1, <5>1 DEF TypeOK, Task
      <4>3. QED
        BY <2>2, <4>1, <4>2
    <3>3. \A i \in Jobs : task'[i].results = task[i].results
      BY <1>3, <3>2, OthersUntouched
    <3>4. QED
      BY <1>1, <3>1, <3>3
  <2>3. CASE Storing(j)
    BY <1>1, <2>3 DEF Storing, jobVars
  <2>4. CASE Stored(j) \/ RecordFailure(j)
    BY <2>4, RecordTold DEF Stored, RecordFailure
  <2>5. QED
    BY <1>3, <2>1, <2>2, <2>3, <2>4 DEF RunStep
<1>4. CASE (\E d \in Deletable : DeleteDevice(d) /\ UNCHANGED jobVars)
           \/ (\E r \in Roots : ChangeDirectory(r) /\ UNCHANGED jobVars) \/ UNCHANGED vars
  BY <1>1, <1>4 DEF jobVars, vars
<1>5. QED
  BY <1>3, <1>4 DEF Next

-----------------------------------------------------------------------------
(* The invariant, and the properties it carries.                           *)

LEMMA BackupInvInit == Init => BackupInv
<1> SUFFICES ASSUME Init PROVE BackupInv
  OBVIOUS
<1>1. StoreInv
  BY InvInit DEF Init
<1>2. /\ \A j \in Jobs : jobs[j] = [status |-> "absent", scope |-> {}, results |-> {}]
      /\ \A j \in Jobs : task[j] = [pc |-> "none", selected |-> {}, todo |-> {}, current |-> {}, results |-> {}]
      /\ \A j \in Jobs : call[j] = Idle
  BY DEF Init, StoreInit, Jobs
<1>3. TypeOK
  BY <1>1, <1>2 DEF Init, TypeOK, StoreInv, Job, Task
<1>4. ASSUME NEW j \in Jobs PROVE JobInv(j)
  BY <1>2, <1>4 DEF JobInv, StatusMatchesTask, SelectionCoversScope, EachDeviceOnce, CallMatchesTask,
                    ResultsStand, Recorded, At, InLoop, Terminal
<1>5. AuditsMatchResults
  BY <1>2 DEF AuditsMatchResults, Init, Terminal
<1>6. QED
  BY <1>1, <1>3, <1>4, <1>5 DEF BackupInv

LEMMA BackupInvStep == BackupInv /\ [Next]_vars => BackupInv'
<1> SUFFICES ASSUME BackupInv, [Next]_vars PROVE BackupInv'
  OBVIOUS
<1>1. TypeOK /\ StoreInv /\ \A j \in Jobs : JobInv(j)
  BY DEF BackupInv
<1>2. TypeOK'
  BY <1>1, BackupTypeStep
<1>3. StoreInv'
  BY <1>1, JobStepIsStoreStep, InvStep
<1>4. \A j \in Jobs : JobInv(j)'
  BY <1>1, JobInvStep
<1>5. Told'
  BY <1>1, ToldStep DEF BackupInv, AuditsMatchResults, Told, AuditsOf
<1>6. AuditsMatchResults'
  BY <1>4, <1>5 DEF AuditsMatchResults, Told, AuditsOf, JobInv, ResultsStand, Terminal
<1>7. QED
  BY <1>2, <1>3, <1>4, <1>6 DEF BackupInv

\* Rows, threads, calls of store(), results and audit rows stay consistent, for any
\* number of jobs that run at once, with or without faults.
THEOREM BackupConsistent == Spec => []BackupInv
BY BackupInvInit, BackupInvStep, PTL DEF Spec

\* The backup service only uses the store as the store is meant to be used: what is
\* proved of StoreSpec (ConfigurationStore_proofs) holds of every run of jobs.
THEOREM JobsRunTheStore == Spec => StoreSpec
<1>1. Init => StoreInit
  BY DEF Init
<1>2. BackupInv /\ [Next]_vars => [StoreNext]_storeVars
  BY JobStepIsStoreStep DEF BackupInv
<1>3. QED
  BY <1>1, <1>2, BackupConsistent, PTL DEF Spec, StoreSpec

\* Every variable keeps its type.
THEOREM BackupTypeCorrect == Spec => []TypeOK
<1>1. BackupInv => TypeOK
  BY DEF BackupInv
<1>2. QED
  BY <1>1, BackupConsistent, PTL

\* A finished job has one result for each device it was asked for that still exists.
THEOREM FinishedAlwaysCoversScope == Spec => []FinishedCoversScope
<1>1. BackupInv => FinishedCoversScope
  <2> SUFFICES ASSUME BackupInv, NEW j \in Jobs, jobs[j].status \in Terminal
               PROVE  /\ \A r, s \in jobs[j].results : r.device = s.device => r = s
                      /\ \A r \in jobs[j].results : r.device \in jobs[j].scope
                      /\ \A d \in jobs[j].scope \cap devices : \E r \in jobs[j].results : r.device = d
    BY DEF FinishedCoversScope
  <2>1. JobInv(j) /\ jobs[j].results = task[j].results /\ At(j, "done")
    BY DEF BackupInv, JobInv, ResultsStand, StatusMatchesTask
  <2>2. Recorded(j) = task[j].selected
    BY <2>1 DEF JobInv, EachDeviceOnce, At
  <2>3. task[j].selected \subseteq jobs[j].scope /\ StillThere(j) \subseteq task[j].selected
    BY <2>1 DEF JobInv, SelectionCoversScope, StatusMatchesTask, At, Terminal
  <2>4. QED
    BY <2>1, <2>2, <2>3 DEF JobInv, EachDeviceOnce, Recorded, StillThere
<1>2. QED
  BY <1>1, BackupConsistent, PTL

\* SUCCESS keeps its promise, from the moment it is committed on: every device of the
\* scope that is still managed has its version in the table.
THEOREM SuccessAlwaysMeansBackedUp == Spec => []SuccessMeansBackedUp
<1>1. BackupInv /\ FinishedCoversScope => SuccessMeansBackedUp
  <2> SUFFICES ASSUME BackupInv, FinishedCoversScope, NEW j \in Jobs, jobs[j].status = "SUCCESS",
                      NEW d \in jobs[j].scope \cap devices
               PROVE  \E r \in jobs[j].results, v \in versions :
                        r.device = d /\ r.status = "SUCCESS" /\ v.id = r.version /\ v.device = d
    BY DEF SuccessMeansBackedUp
  <2>1. PICK r \in jobs[j].results : r.device = d
    BY DEF FinishedCoversScope, Terminal
  <2>2. jobs[j].results = task[j].results /\ FinalStatus(task[j].results) = "SUCCESS"
        /\ \A x \in task[j].results : x.status = "SUCCESS" => HasVersion(x.device, x.version)
    BY DEF BackupInv, JobInv, ResultsStand, Terminal
  <2>3. Succeeded(task[j].results) = task[j].results
    BY <2>2 DEF FinalStatus
  <2>4. r.status = "SUCCESS"
    BY <2>1, <2>2, <2>3 DEF Succeeded
  <2>5. QED
    BY <2>1, <2>2, <2>4 DEF HasVersion
<1>2. QED
  BY <1>1, BackupConsistent, FinishedAlwaysCoversScope, PTL

\* The audit trail tells what the results tell, device by device, at every moment.
THEOREM AuditsAlwaysMatchResults == Spec => []AuditsMatchResults
<1>1. BackupInv => AuditsMatchResults
  BY DEF BackupInv
<1>2. QED
  BY <1>1, BackupConsistent, PTL

-----------------------------------------------------------------------------
(* Versions and the audit trail.  A version that no audit row names yet is *)
(* at hand in the job that inserted it; the next steps of that job can     *)
(* only audit it or die, as its row is there when store() reads it back.   *)

Audited(d, id) ==
  \E a \in audits : a.result.status = "SUCCESS" /\ a.result.device = d /\ a.result.version = id
AtHand(j, d, id) ==
  /\ task[j].current = {d}
  /\ \/ At(j, "dead")
     \/ At(j, "store") /\ call[j].id = id /\ call[j].pc \in {"refresh", "created"}
Traced(d, id) == Audited(d, id) \/ \E j \in Jobs : AtHand(j, d, id)
AuditTrail == \A v \in versions : Traced(v.device, v.id)

\* Audit rows are only ever added.
LEMMA AuditsStay ==
  ASSUME [Next]_vars
  PROVE  audits \subseteq audits'
<1>1. ASSUME NEW j \in Jobs, RunStep(j) \/ Escape(j) \/ \E ids \in SUBSET Devices : CreateJob(j, ids)
      PROVE  audits \subseteq audits'
  BY <1>1 DEF RunStep, BeginRun, LoadDevice, Collect, CollectionFails, Storing, jobVars, Stored, StoreFails,
              RecordFailure, Record, Finish, Escape, CreateJob
<1>2. QED
  BY <1>1 DEF Next, vars, jobVars

\* A version at hand is audited, or stays at hand, whatever its job does next.
LEMMA AtHandStep ==
  ASSUME TypeOK, NEW j \in Jobs, JobInv(j), NEW d, NEW id, RowExists(id), AtHand(j, d, id),
         RunStep(j) \/ Escape(j) \/ \E ids \in SUBSET Devices : CreateJob(j, ids)
  PROVE  Audited(d, id)' \/ AtHand(j, d, id)'
<1>1. At(j, "store") /\ call[j].id = id /\ call[j].pc \in {"refresh", "created"} /\ task[j].current = {d}
  BY DEF AtHand, At, RunStep, BeginRun, LoadDevice, Collect, CollectionFails, Storing, Stored, StoreFails,
         RecordFailure, Finish, Escape, CreateJob, JobInv, StatusMatchesTask
<1>2. Storing(j) \/ Stored(j) \/ Escape(j)
  BY <1>1 DEF At, RunStep, BeginRun, LoadDevice, Collect, CollectionFails, StoreFails, RecordFailure, Finish,
              CreateJob, JobInv, StatusMatchesTask
<1>3. CASE Storing(j)
  <2>1. Refresh(j) /\ task' = task
    BY <1>1, <1>3 DEF Storing, StoreStep, Compare, Probe, Rematerialise, Repoint, Put, Commit, WriteFails,
                      CommitFails, jobVars
  <2>2. Goto(j, "created")
    BY <1>1, <2>1 DEF Refresh
  <2>3. call[j] \in Call /\ call \in [Jobs -> {Idle} \cup Call]
    BY <1>1 DEF TypeOK, StoreTypeOK, Jobs, JobInv, CallMatchesTask
  <2>4. call'[j].pc = "created" /\ call'[j].id = id
    BY <1>1, <2>2, <2>3 DEF Goto, Call
  <2>5. QED
    BY <1>1, <2>1, <2>4 DEF AtHand, At
<1>4. CASE Stored(j)
  <2>1. Record(j, d, "SUCCESS", id)
    BY <1>1, <1>4 DEF Stored
  <2>2. PICK row : row = [job |-> j, result |-> [device |-> d, status |-> "SUCCESS", version |-> id]]
    OBVIOUS
  <2>3. row \in audits'
    BY <2>1, <2>2 DEF Record
  <2>4. row.result.status = "SUCCESS" /\ row.result.device = d /\ row.result.version = id
    BY <2>2
  <2>5. QED
    BY <2>3, <2>4 DEF Audited
<1>5. CASE Escape(j)
  BY <1>1, <1>5, MoveFields DEF Escape, AtHand, At
<1>6. QED
  BY <1>2, <1>3, <1>4, <1>5

\* A version that was traced stays so, as long as its row is in the table.
LEMMA TracedStep ==
  ASSUME BackupInv, [Next]_vars, NEW d, NEW id, RowExists(id), Traced(d, id)
  PROVE  Traced(d, id)'
<1>1. TypeOK /\ \A j \in Jobs : JobInv(j)
  BY DEF BackupInv
<1>2. CASE Audited(d, id)
  BY <1>2, AuditsStay DEF Audited, Traced
<1>3. ASSUME NEW i \in Jobs, AtHand(i, d, id) PROVE Traced(d, id)'
  <2>1. CASE task'[i] = task[i] /\ call'[i] = call[i]
    BY <1>3, <2>1 DEF AtHand, At, Traced
  <2>2. ASSUME NEW j \in Jobs, RunStep(j) \/ Escape(j) \/ \E ids \in SUBSET Devices : CreateJob(j, ids)
        PROVE  Traced(d, id)'
    <3>1. CASE i = j
      BY <1>1, <1>3, <2>2, <3>1, AtHandStep DEF Traced
    <3>2. CASE i # j
      BY <1>1, <2>1, <2>2, <3>2, OthersUntouched
    <3>3. QED
      BY <3>1, <3>2
  <2>3. CASE (\E x \in Deletable : DeleteDevice(x) /\ UNCHANGED jobVars)
             \/ (\E r \in Roots : ChangeDirectory(r) /\ UNCHANGED jobVars) \/ UNCHANGED vars
    BY <2>1, <2>3 DEF DeleteDevice, ChangeDirectory, jobVars, vars, storeVars
  <2>4. QED
    BY <2>1, <2>2, <2>3 DEF Next
<1>4. QED
  BY <1>2, <1>3 DEF Traced

\* A row comes from a row of before, or from the commit of a job that has it at hand.
LEMMA RowOrigin ==
  ASSUME BackupInv, [Next]_vars, NEW u \in versions'
  PROVE  \/ \E v \in versions : v.device = u.device /\ v.id = u.id
         \/ \E j \in Jobs : AtHand(j, u.device, u.id)'
<1>1. TypeOK /\ StoreTypeOK /\ \A j \in Jobs : JobInv(j)
  BY DEF BackupInv, TypeOK
<1>2. ASSUME NEW j \in Jobs, Storing(j)
      PROVE  \/ \E v \in versions : v.device = u.device /\ v.id = u.id
             \/ AtHand(j, u.device, u.id)'
  <2>1. CASE versions' = versions
    BY <2>1
  <2>2. CASE versions' = Repointed(j)
    <3>1. PICK v \in versions : u = IF v.id = call[j].id THEN [v EXCEPT !.name = call[j].name] ELSE v
      BY <2>2 DEF Repointed
    <3>2. v \in Version
      BY <1>1 DEF StoreTypeOK
    <3>3. u.id = v.id /\ u.device = v.device
      BY <3>1, <3>2 DEF Version
    <3>4. QED
      BY <3>3
  <2>3. CASE Commit(j) /\ versions' = versions \cup {NewRow(j)} /\ Goto(j, "refresh")
    <3>1. call[j] \in Call /\ call \in [Jobs -> {Idle} \cup Call] /\ task[j].current = {call[j].device}
      BY <1>1, <1>2 DEF Storing, StoreTypeOK, Jobs, JobInv, CallMatchesTask
    <3>2. call'[j].pc = "refresh" /\ call'[j].id = call[j].id
      BY <2>3, <3>1 DEF Goto, Call
    <3>3. task'[j] = task[j] /\ At(j, "store")
      BY <1>2 DEF Storing, jobVars
    <3>4. CASE u = NewRow(j)
      <4>1. u.device = call[j].device /\ u.id = call[j].id
        BY <3>4 DEF NewRow
      <4>2. QED
        BY <3>1, <3>2, <3>3, <4>1 DEF AtHand, At
    <3>5. QED
      BY <2>3, <3>4
  <2>4. QED
    BY <1>2, <2>1, <2>2, <2>3 DEF Storing, StoreStep, Compare, Probe, Rematerialise, Repoint, Put, Commit, Refresh,
                                  WriteFails, CommitFails
<1>3. ASSUME NEW j \in Jobs, Escape(j) \/ (\E ids \in SUBSET Devices : CreateJob(j, ids)) \/ (RunStep(j) /\ ~Storing(j))
      PROVE  versions' = versions
  BY <1>3 DEF Escape, CreateJob, RunStep, BeginRun, LoadDevice, Collect, BeginStore, CollectionFails, Stored,
              StoreFails, EndStore, RecordFailure, Finish, storeVars
<1>4. CASE (\E x \in Deletable : DeleteDevice(x) /\ UNCHANGED jobVars)
           \/ (\E r \in Roots : ChangeDirectory(r) /\ UNCHANGED jobVars) \/ UNCHANGED vars
  BY <1>4 DEF DeleteDevice, ChangeDirectory, vars, storeVars
<1>5. QED
  BY <1>2, <1>3, <1>4 DEF Next

LEMMA AuditTrailStep ==
  ASSUME BackupInv, [Next]_vars, AuditTrail
  PROVE  AuditTrail'
<1> SUFFICES ASSUME NEW u \in versions' PROVE Traced(u.device, u.id)'
  BY DEF AuditTrail
<1>1. CASE \E j \in Jobs : AtHand(j, u.device, u.id)'
  BY <1>1 DEF Traced
<1>2. ASSUME NEW v \in versions, v.device = u.device, v.id = u.id PROVE Traced(u.device, u.id)'
  <2>1. PICK d, id : d = u.device /\ id = u.id
    OBVIOUS
  <2>2. Traced(d, id) /\ RowExists(id)
    BY <1>2, <2>1 DEF AuditTrail, RowExists
  <2>3. Traced(d, id)'
    BY <2>2, TracedStep
  <2>4. QED
    BY <2>1, <2>3
<1>3. QED
  BY <1>1, <1>2, RowOrigin

\* No version is kept from the audit trail: it is named there as a success, or is at
\* hand in a job about to record it, or was at hand in a thread that died.
THEOREM VersionsAreAlwaysAudited == Spec => []VersionsAreAudited
<1>1. Init => AuditTrail
  BY DEF Init, StoreInit, AuditTrail
<1>2. BackupInv /\ AuditTrail /\ [Next]_vars => AuditTrail'
  BY AuditTrailStep
<1>3. AuditTrail => VersionsAreAudited
  BY DEF AuditTrail, Traced, Audited, AtHand, VersionsAreAudited
<1>4. QED
  BY <1>1, <1>2, <1>3, BackupConsistent, PTL DEF Spec

-----------------------------------------------------------------------------
(* BackupService implements BackupBatch.                                   *)

Bar == [j \in Jobs |-> Summary(j)]

\* What others do does not show in a job's summary.
LEMMA SummaryFrame ==
  ASSUME NEW j \in Jobs, jobs'[j] = jobs[j], task'[j] = task[j]
  PROVE  Summary(j)' = Summary(j)
BY DEF Summary

\* A step that changes one summary changes the batch at one job.
LEMMA BarStep ==
  ASSUME TypeOK, NEW j \in Jobs, NEW s, Summary(j)' = s,
         RunStep(j) \/ Escape(j) \/ \E ids \in SUBSET Devices : CreateJob(j, ids)
  PROVE  Bar' = [Bar EXCEPT ![j] = s]
<1>1. \A i \in Jobs : i # j => Summary(i)' = Summary(i)
  BY OthersUntouched, SummaryFrame
<1>2. QED
  BY <1>1 DEF Bar

LEMMA BarAt ==
  ASSUME NEW j \in Jobs
  PROVE  /\ Bar[j] = Summary(j)
         /\ Bar[j].status = jobs[j].status /\ Bar[j].scope = jobs[j].scope
         /\ Bar[j].selected = task[j].selected
         /\ Bar[j].outcomes = OutcomesOf(task[j].results)
BY DEF Bar, Summary

\* A step that changes nothing a caller sees is a stutter.
LEMMA StutterStep ==
  ASSUME TypeOK, NEW j \in Jobs, jobs' = jobs,
         RunStep(j) \/ Escape(j),
         task'[j].selected = task[j].selected, task'[j].results = task[j].results
  PROVE  Bar' = Bar
<1>1. \A i \in Jobs : i # j => Summary(i)' = Summary(i)
  BY OthersUntouched, SummaryFrame
<1>2. Summary(j)' = Summary(j)
  BY DEF Summary
<1>3. QED
  BY <1>1, <1>2 DEF Bar

LEMMA AcceptStep ==
  ASSUME TypeOK, NEW j \in Jobs, NEW ids \in SUBSET Devices, CreateJob(j, ids)
  PROVE  \E scope \in SUBSET Devices : Batch!Accept(j, scope)
<1> DEFINE scope == IF ids = {} THEN devices ELSE ids
<1>1. scope \in SUBSET Devices
  BY DEF TypeOK, StoreTypeOK
<1>2. jobs'[j].status = "PENDING" /\ jobs'[j].scope = scope
  BY DEF CreateJob, TypeOK, Job
<1>3. task'[j].selected = task[j].selected /\ task'[j].results = task[j].results
  BY MoveFields DEF CreateJob
<1> HIDE DEF scope
<1>4. Summary(j)' = [Summary(j) EXCEPT !.status = "PENDING", !.scope = scope]
  <2>1. Summary(j)' = [status |-> "PENDING", scope |-> scope, selected |-> task[j].selected,
                       outcomes |-> OutcomesOf(task[j].results)]
    BY <1>2, <1>3 DEF Summary
  <2>2. Summary(j) = [status |-> jobs[j].status, scope |-> jobs[j].scope, selected |-> task[j].selected,
                      outcomes |-> OutcomesOf(task[j].results)]
    BY DEF Summary
  <2>3. PICK s : s = [Summary(j) EXCEPT !.status = "PENDING"]
    OBVIOUS
  <2>4. s = [status |-> "PENDING", scope |-> jobs[j].scope, selected |-> task[j].selected,
             outcomes |-> OutcomesOf(task[j].results)]
    BY <2>2, <2>3
  <2>5. Summary(j)' = [s EXCEPT !.scope = scope]
    BY <2>1, <2>4
  <2>6. QED
    BY <2>3, <2>5
<1>5. Bar' = [Bar EXCEPT ![j] = [Summary(j) EXCEPT !.status = "PENDING", !.scope = scope]]
  BY <1>4, BarStep
<1>6. Bar' = [Bar EXCEPT ![j].status = "PENDING", ![j].scope = scope]
  BY <1>5, BarAt
<1>7. Bar[j].status = "absent"
  BY BarAt DEF CreateJob
<1>8. QED
  BY <1>1, <1>6, <1>7 DEF Batch!Accept, Bar

LEMMA StartStep ==
  ASSUME TypeOK, NEW j \in Jobs, BeginRun(j), JobInv(j)
  PROVE  \E selected \in SUBSET Devices : Batch!Start(j, selected)
<1> DEFINE selected == StillThere(j)
<1>1. jobs[j] \in Job /\ task[j] \in Task
  BY DEF TypeOK
<1>2. /\ jobs'[j].status = "RUNNING" /\ jobs'[j].scope = jobs[j].scope
      /\ task'[j].selected = selected /\ task'[j].results = task[j].results
  BY <1>1 DEF BeginRun, TypeOK, Job, Task
<1>3. selected \in SUBSET Devices /\ selected \subseteq Bar[j].scope
  BY <1>1, BarAt DEF StillThere, Job
<1> HIDE DEF selected
<1>4. Summary(j)' = [Summary(j) EXCEPT !.status = "RUNNING", !.selected = selected]
  <2>1. Summary(j)' = [status |-> "RUNNING", scope |-> jobs[j].scope, selected |-> selected,
                       outcomes |-> OutcomesOf(task[j].results)]
    BY <1>2 DEF Summary
  <2>2. Summary(j) = [status |-> jobs[j].status, scope |-> jobs[j].scope, selected |-> task[j].selected,
                      outcomes |-> OutcomesOf(task[j].results)]
    BY DEF Summary
  <2>3. PICK s : s = [Summary(j) EXCEPT !.status = "RUNNING"]
    OBVIOUS
  <2>4. s = [status |-> "RUNNING", scope |-> jobs[j].scope, selected |-> task[j].selected,
             outcomes |-> OutcomesOf(task[j].results)]
    BY <2>2, <2>3
  <2>5. Summary(j)' = [s EXCEPT !.selected = selected]
    BY <2>1, <2>4
  <2>6. QED
    BY <2>3, <2>5
<1>5. Bar' = [Bar EXCEPT ![j] = [Summary(j) EXCEPT !.status = "RUNNING", !.selected = selected]]
  BY <1>4, BarStep DEF RunStep
<1>6. Bar' = [Bar EXCEPT ![j].status = "RUNNING", ![j].selected = selected]
  BY <1>5, BarAt
<1>7. Bar[j].status = "PENDING"
  BY BarAt DEF BeginRun, JobInv, StatusMatchesTask
<1>8. QED
  BY <1>3, <1>6, <1>7 DEF Batch!Start, Bar

LEMMA OutcomeStep ==
  ASSUME TypeOK, NEW j \in Jobs, JobInv(j), task[j].pc \in {"store", "failed"}, Stored(j) \/ RecordFailure(j),
         NEW d \in task[j].current, NEW status \in {"SUCCESS", "FAILED"}, NEW version,
         Record(j, d, status, version), jobs' = jobs
  PROVE  d \in Devices /\ Batch!RecordOutcome(j, d, status)
<1> DEFINE outcome == [device |-> d, status |-> status]
<1>1. PICK result : result = [device |-> d, status |-> status, version |-> version]
  OBVIOUS
<1>2. task'[j].results = task[j].results \cup {result} /\ task'[j].selected = task[j].selected
  BY <1>1, RecordFields
<1>3. [device |-> result.device, status |-> result.status] = outcome
  BY <1>1
<1> HIDE DEF outcome
<1>4. Summary(j)' = [Summary(j) EXCEPT !.outcomes = Summary(j).outcomes \cup {outcome}]
  <2>1. OutcomesOf(task'[j].results) = OutcomesOf(task[j].results) \cup {outcome}
    BY <1>2, <1>3 DEF OutcomesOf
  <2>2. QED
    BY <1>2, <2>1 DEF Summary
<1>5. Bar' = [Bar EXCEPT ![j] = [Summary(j) EXCEPT !.outcomes = Summary(j).outcomes \cup {outcome}]]
  BY <1>4, BarStep DEF RunStep
<1>6. Bar' = [Bar EXCEPT ![j].outcomes = @ \cup {outcome}]
  BY <1>5, BarAt
<1>7. Bar[j].status = "RUNNING"
  BY BarAt DEF JobInv, StatusMatchesTask, InLoop
<1>8. d \in Devices /\ d \in task[j].selected /\ d \notin Recorded(j)
  <2>1. task[j] \in Task
    BY DEF TypeOK
  <2>2. QED
    BY <2>1 DEF JobInv, EachDeviceOnce, InLoop, Task
<1>9. d \in Bar[j].selected /\ d \notin {o.device : o \in Bar[j].outcomes}
  BY <1>8, BarAt DEF Recorded, OutcomesOf
<1>10. QED
  BY <1>6, <1>7, <1>8, <1>9 DEF Batch!RecordOutcome, Batch!Recorded, Bar, outcome

LEMMA DevicesOfOutcomes ==
  ASSUME NEW results
  PROVE  {o.device : o \in OutcomesOf(results)} = {r.device : r \in results}
<1>1. ASSUME NEW r \in results PROVE \E o \in OutcomesOf(results) : o.device = r.device
  <2>1. PICK o : o = [device |-> r.device, status |-> r.status]
    OBVIOUS
  <2>2. o \in OutcomesOf(results)
    BY <2>1 DEF OutcomesOf
  <2>3. QED
    BY <2>1, <2>2
<1>2. ASSUME NEW o \in OutcomesOf(results) PROVE \E r \in results : r.device = o.device
  <2>1. PICK r \in results : o = [device |-> r.device, status |-> r.status]
    BY <1>2 DEF OutcomesOf
  <2>2. QED
    BY <2>1
<1>3. QED
  BY <1>1, <1>2

LEMMA StatusOfOutcomes ==
  ASSUME NEW results
  PROVE  Batch!StatusOf(OutcomesOf(results)) = FinalStatus(results)
<1>1. Batch!Succeeded(OutcomesOf(results)) = OutcomesOf(Succeeded(results))
  BY DEF Batch!Succeeded, OutcomesOf, Succeeded
<1>2. OutcomesOf(Succeeded(results)) = {} <=> Succeeded(results) = {}
  BY DEF OutcomesOf
<1>3. OutcomesOf(Succeeded(results)) = OutcomesOf(results) <=> Succeeded(results) = results
  <2>1. ASSUME OutcomesOf(Succeeded(results)) = OutcomesOf(results), NEW r \in results
        PROVE  r.status = "SUCCESS"
    <3>1. PICK x \in Succeeded(results) :
            [device |-> x.device, status |-> x.status] = [device |-> r.device, status |-> r.status]
      BY <2>1 DEF OutcomesOf
    <3>2. QED
      BY <3>1 DEF Succeeded
  <2>2. QED
    BY <2>1 DEF Succeeded
<1>4. QED
  BY <1>1, <1>2, <1>3 DEF Batch!StatusOf, FinalStatus

LEMMA CompleteStep ==
  ASSUME TypeOK, NEW j \in Jobs, Finish(j), JobInv(j)
  PROVE  Batch!Complete(j)
<1> DEFINE status == FinalStatus(task[j].results)
<1>1. jobs'[j].status = status /\ jobs'[j].scope = jobs[j].scope
  BY DEF Finish, TypeOK, Job
<1>2. task'[j].selected = task[j].selected /\ task'[j].results = task[j].results
  BY MoveFields DEF Finish
<1>3. status = Batch!StatusOf(Bar[j].outcomes)
  BY StatusOfOutcomes, BarAt
<1> HIDE DEF status
<1>4. Summary(j)' = [Summary(j) EXCEPT !.status = status]
  BY <1>1, <1>2 DEF Summary
<1>5. Bar' = [Bar EXCEPT ![j] = [Summary(j) EXCEPT !.status = status]]
  BY <1>4, BarStep DEF RunStep
<1>6. Bar' = [Bar EXCEPT ![j].status = status]
  BY <1>5, BarAt
<1>7. Bar[j].status = "RUNNING"
  BY BarAt DEF Finish, JobInv, StatusMatchesTask, InLoop, At
<1>8. {o.device : o \in Bar[j].outcomes} = Bar[j].selected
  <2>1. Recorded(j) = task[j].selected
    BY DEF Finish, JobInv, EachDeviceOnce, InLoop, At
  <2>2. {o.device : o \in OutcomesOf(task[j].results)} = Recorded(j)
    BY DevicesOfOutcomes DEF Recorded
  <2>3. QED
    BY <2>1, <2>2, BarAt
<1>9. QED
  BY <1>3, <1>6, <1>7, <1>8 DEF Batch!Complete, Batch!Recorded, Bar

LEMMA BatchStep ==
  ASSUME BackupInv, [Next]_vars
  PROVE  [Batch!Next]_Bar
<1>1. TypeOK /\ \A j \in Jobs : JobInv(j)
  BY DEF BackupInv
<1>2. ASSUME NEW j \in Jobs, NEW ids \in SUBSET Devices, CreateJob(j, ids) PROVE Batch!Next
  BY <1>1, <1>2, AcceptStep DEF Batch!Next
<1>3. ASSUME NEW j \in Jobs, BeginRun(j) PROVE Batch!Next
  BY <1>1, <1>3, StartStep DEF Batch!Next
<1>4. ASSUME NEW j \in Jobs, NEW d \in task[j].current, NEW status \in {"SUCCESS", "FAILED"}, NEW version,
             Record(j, d, status, version), Stored(j) \/ RecordFailure(j)
      PROVE  Batch!Next
  <2>1. jobs' = jobs /\ task[j].pc \in {"store", "failed"}
    BY <1>4 DEF Stored, RecordFailure, At
  <2>2. d \in Devices /\ Batch!RecordOutcome(j, d, status)
    BY <1>1, <1>4, <2>1, OutcomeStep
  <2>3. QED
    BY <2>2 DEF Batch!Next, Batch!Outcomes
<1>5. ASSUME NEW j \in Jobs, Stored(j) \/ RecordFailure(j) PROVE Batch!Next
  <2>1. CASE Stored(j)
    <3>1. PICK d \in task[j].current : Record(j, d, "SUCCESS", call[j].id)
      BY <2>1 DEF Stored
    <3>2. QED
      BY <1>4, <2>1, <3>1
  <2>2. CASE RecordFailure(j)
    <3>1. PICK d \in task[j].current : Record(j, d, "FAILED", 0)
      BY <2>2 DEF RecordFailure
    <3>2. QED
      BY <1>4, <2>2, <3>1
  <2>3. QED
    BY <1>5, <2>1, <2>2
<1>6. ASSUME NEW j \in Jobs, Finish(j) PROVE Batch!Next
  BY <1>1, <1>6, CompleteStep DEF Batch!Next
<1>7. ASSUME NEW j \in Jobs,
             LoadDevice(j) \/ Collect(j) \/ CollectionFails(j) \/ Storing(j) \/ StoreFails(j) \/ Escape(j)
      PROVE  Bar' = Bar
  <2>1. jobs' = jobs
    BY <1>7 DEF LoadDevice, Collect, CollectionFails, Storing, StoreFails, Escape, jobVars
  <2>2. task'[j].selected = task[j].selected /\ task'[j].results = task[j].results
    <3>1. CASE LoadDevice(j)
      <4>1. PICK d \in task[j].todo :
              \/ task' = [task EXCEPT ![j].pc = "collect", ![j].todo = @ \ {d}, ![j].current = {d}]
              \/ task' = [task EXCEPT ![j].pc = "dead", ![j].todo = @ \ {d}]
        BY <3>1 DEF LoadDevice
      <4>2. task[j] \in Task
        BY <1>1 DEF TypeOK
      <4>3. QED
        BY <1>1, <4>1, <4>2 DEF TypeOK, Task
    <3>2. CASE Storing(j)
      BY <3>2 DEF Storing, jobVars
    <3>3. CASE Collect(j) \/ CollectionFails(j) \/ StoreFails(j) \/ Escape(j)
      BY <1>1, <3>3, MoveFields DEF Collect, CollectionFails, StoreFails, Escape
    <3>4. QED
      BY <1>7, <3>1, <3>2, <3>3
  <2>3. QED
    BY <1>1, <1>7, <2>1, <2>2, StutterStep DEF RunStep
<1>8. ASSUME jobs' = jobs, task' = task PROVE Bar' = Bar
  BY <1>8, SummaryFrame DEF Bar
<1>9. CASE (\E d \in Deletable : DeleteDevice(d) /\ UNCHANGED jobVars)
           \/ (\E r \in Roots : ChangeDirectory(r) /\ UNCHANGED jobVars) \/ UNCHANGED vars
  BY <1>8, <1>9 DEF jobVars, vars
<1>10. QED
  BY <1>2, <1>3, <1>5, <1>6, <1>7, <1>9 DEF Next, RunStep

\* Threads, sessions, faults and deletions put aside, backup jobs are BackupBatch: no
\* outcome is recorded twice, no job completes early, and a completed job is final.
THEOREM BackupImplementsBatch == Spec => ImplementsBatch
<1>1. Init => Batch!Init
  <2> SUFFICES ASSUME Init, NEW j \in Jobs PROVE Summary(j) = Batch!Nothing
    BY DEF Batch!Init
  <2>1. /\ jobs[j].status = "absent" /\ jobs[j].scope = {}
        /\ task[j].selected = {} /\ task[j].results = {}
    BY DEF Init
  <2>2. OutcomesOf(task[j].results) = {}
    BY <2>1 DEF OutcomesOf
  <2>3. QED
    BY <2>1, <2>2 DEF Summary, Batch!Nothing
<1>2. BackupInv /\ [Next]_vars => [Batch!Next]_Bar
  BY BatchStep
<1>3. QED
  BY <1>1, <1>2, BackupConsistent, PTL DEF Spec, ImplementsBatch, Batch!Spec, Bar
=============================================================================
