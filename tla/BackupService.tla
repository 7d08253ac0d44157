---------------------------- MODULE BackupService ----------------------------
(***************************************************************************)
(* BackupService (backup_service.py): backup jobs over ConfigurationStore. *)
(*                                                                         *)
(* A job is created in the request (or by a schedule) and run by a thread  *)
(* of its own: FastAPI's background pool for POST /api/backups, the        *)
(* schedule runner's thread for a schedule.  Jobs therefore run at the     *)
(* same time, over the same devices, while an administrator may delete     *)
(* devices and change the backup directory.  Workers of ConfigurationStore *)
(* are the job ids: one thread per job.                                    *)
(***************************************************************************)
EXTENDS ConfigurationStore

CONSTANT Deletable  \* the devices an administrator deletes while jobs exist

ASSUME DeletableAssumption == Deletable \subseteq Devices

VARIABLES
  jobs,    \* rows of backup_jobs
  task,    \* what each job's thread holds in run()'s and _backup_one()'s locals
  audits   \* BACKUP_CONFIGURATION rows of audit_logs

jobVars == <<jobs, task, audits>>
vars == <<storeVars, jobVars>>

Jobs == Workers
Terminal == {"SUCCESS", "PARTIAL", "FAILED"}

Result == [device : Devices, status : {"SUCCESS", "FAILED"}, version : Nat]
Job == [status : {"absent", "PENDING", "RUNNING"} \cup Terminal,
        scope : SUBSET Devices, results : SUBSET Result]
Task == [pc : {"none", "queued", "select", "collect", "store", "failed", "done", "dead"},
         selected : SUBSET Devices,  \* the rows run() read: its list of devices
         todo : SUBSET Devices,      \* those _backup_one has not been called for
         current : SUBSET Devices,   \* the one it is called for, if any
         results : SUBSET Result]

TypeOK ==
  /\ StoreTypeOK
  /\ jobs \in [Jobs -> Job]
  /\ task \in [Jobs -> Task]
  /\ audits \subseteq [job : Jobs, result : Result]

Init ==
  /\ StoreInit
  /\ jobs = [j \in Jobs |-> [status |-> "absent", scope |-> {}, results |-> {}]]
  /\ task = [j \in Jobs |-> [pc |-> "none", selected |-> {}, todo |-> {}, current |-> {}, results |-> {}]]
  /\ audits = {}

-----------------------------------------------------------------------------
(* Helpers.                                                                *)

At(j, pc) == task[j].pc = pc
Move(j, pc) == task' = [task EXCEPT ![j].pc = pc]

\* job.status from the two counts: success_count = 0 is Succeeded = {}
Succeeded(results) == {r \in results : r.status = "SUCCESS"}
\* (mutant) a job that ran at all is a success
StatusOptimistic(results) == IF results = {} THEN "FAILED" ELSE "SUCCESS"

FinalStatus(results) ==
  IF Succeeded(results) = results THEN "SUCCESS"
  ELSE IF Succeeded(results) = {} THEN "FAILED" ELSE "PARTIAL"

\* (mutants) only failures, or only successes, are audited; a failure ends the loop;
\* a failed device is taken up again
RecordAs(j, d, status, version, audited, todo) ==
  LET result == [device |-> d, status |-> status, version |-> version]
  IN /\ audits' = IF audited THEN audits \cup {[job |-> j, result |-> result]} ELSE audits
     /\ task' = [task EXCEPT ![j].pc = "select", ![j].current = {}, ![j].todo = todo,
                             ![j].results = @ \cup {result}]
AuditsFailuresOnly(j, d, status, version) ==
  RecordAs(j, d, status, version, status = "FAILED", task[j].todo)
AuditsSuccessesOnly(j, d, status, version) ==
  RecordAs(j, d, status, version, status = "SUCCESS", task[j].todo)
StopsAtFailure(j, d, status, version) ==
  RecordAs(j, d, status, version, TRUE, IF status = "FAILED" THEN {} ELSE task[j].todo)
RetriesFailures(j, d, status, version) ==
  RecordAs(j, d, status, version, TRUE, IF status = "FAILED" THEN task[j].todo \cup {d} ELSE task[j].todo)

\* The end of one _backup_one call: its audit row, whose details are the result,
\* and the result itself; then the next device.
Record(j, d, status, version) ==
  LET result == [device |-> d, status |-> status, version |-> version]
  IN /\ audits' = audits \cup {[job |-> j, result |-> result]}
     /\ task' = [task EXCEPT ![j].pc = "select", ![j].current = {}, ![j].results = @ \cup {result}]

-----------------------------------------------------------------------------
(* create_job and run.                                                     *)

\* No ids select every device; an id that is not in the inventory is refused.
CreateJob(j, ids) ==
  /\ jobs[j].status = "absent"
  /\ ids \subseteq devices
  /\ jobs' = [jobs EXCEPT ![j].status = "PENDING", ![j].scope = IF ids = {} THEN devices ELSE ids]
  /\ Move(j, "queued")
  /\ UNCHANGED <<storeVars, audits>>

\* (mutant) the ids are ignored
WholeInventory(j) == devices

StillThere(j) == jobs[j].scope \cap devices

BeginRun(j) ==
  /\ At(j, "queued")
  /\ jobs' = [jobs EXCEPT ![j].status = "RUNNING"]
  /\ task' = [task EXCEPT ![j].pc = "select", ![j].selected = StillThere(j), ![j].todo = StillThere(j)]
  /\ UNCHANGED <<storeVars, audits>>

\* The target is built from the row before the try: a device deleted since run()
\* read the list is an AttributeError that ends the thread.
LoadDevice(j) ==
  /\ At(j, "select")
  /\ \E d \in task[j].todo :
       \/ /\ d \in devices
          /\ task' = [task EXCEPT ![j].pc = "collect", ![j].todo = @ \ {d}, ![j].current = {d}]
       \/ /\ d \notin devices
          /\ task' = [task EXCEPT ![j].pc = "dead", ![j].todo = @ \ {d}]
  /\ UNCHANGED <<storeVars, jobs, audits>>

\* adapter.get_configuration answers with whatever the device runs now.
Collect(j) ==
  /\ At(j, "collect")
  /\ \E d \in task[j].current, name \in Names, c \in Configs : BeginStore(j, d, name, c)
  /\ Move(j, "store")
  /\ UNCHANGED <<jobs, audits>>

CollectionFails(j) ==
  /\ At(j, "collect")
  /\ Move(j, "failed")
  /\ UNCHANGED <<storeVars, jobs, audits>>

Storing(j) ==
  /\ At(j, "store")
  /\ StoreStep(j) \/ WriteFails(j) \/ CommitFails(j)
  /\ UNCHANGED jobVars

Stored(j) ==
  /\ At(j, "store")
  /\ call[j].pc \in {"unchanged", "created"}
  /\ EndStore(j)
  /\ \E d \in task[j].current : Record(j, d, "SUCCESS", call[j].id)
  /\ UNCHANGED jobs

\* An exception of store() is a failed result, unless the session it leaves
\* refuses the audit row too: then it escapes, and ends the thread.
StoreFails(j) ==
  /\ At(j, "store")
  /\ \/ call[j].pc = "raised" /\ Move(j, "failed")
     \/ call[j].pc = "poisoned" /\ Move(j, "dead")
  /\ EndStore(j)
  /\ UNCHANGED <<jobs, audits>>

RecordFailure(j) ==
  /\ At(j, "failed")
  /\ \E d \in task[j].current : Record(j, d, "FAILED", 0)
  /\ UNCHANGED <<storeVars, jobs>>

Finish(j) ==
  /\ At(j, "select")
  /\ task[j].todo = {}
  /\ jobs' = [jobs EXCEPT ![j].status = FinalStatus(task[j].results), ![j].results = task[j].results]
  /\ Move(j, "done")
  /\ UNCHANGED <<storeVars, audits>>

RunStep(j) ==
  \/ BeginRun(j) \/ LoadDevice(j) \/ Collect(j) \/ CollectionFails(j) \/ Storing(j)
  \/ Stored(j) \/ StoreFails(j) \/ RecordFailure(j) \/ Finish(j)

\* The process stops, or a commit of run() or of an audit row fails: the thread
\* is gone, and nothing picks the job up again.
Escape(j) ==
  /\ Faults
  /\ task[j].pc \notin {"none", "done", "dead"}
  /\ Move(j, "dead")
  /\ call' = [call EXCEPT ![j] = Idle]
  /\ UNCHANGED <<devices, versions, artifacts, root, clock, jobs, audits>>

Next ==
  \/ \E j \in Jobs : \/ \E ids \in SUBSET Devices : CreateJob(j, ids)
                     \/ RunStep(j)
                     \/ Escape(j)
  \/ \E d \in Deletable : DeleteDevice(d) /\ UNCHANGED jobVars
  \/ \E r \in Roots : ChangeDirectory(r) /\ UNCHANGED jobVars

Spec == Init /\ [][Next]_vars

\* A thread that exists is run by the operating system.
Fairness == \A j \in Jobs : WF_vars(RunStep(j))
FairSpec == Spec /\ Fairness

-----------------------------------------------------------------------------
(* Properties.                                                             *)

\* SUCCESS is a promise: every device of the scope that is still managed has a
\* result naming one of its versions, and that version is in the table.
SuccessMeansBackedUp ==
  \A j \in Jobs : jobs[j].status = "SUCCESS" =>
    \A d \in jobs[j].scope \cap devices :
      \E r \in jobs[j].results, v \in versions :
        r.device = d /\ r.status = "SUCCESS" /\ v.id = r.version /\ v.device = d

\* A finished job speaks of each device of its scope once; only a device deleted
\* from the inventory may be left out.
FinishedCoversScope ==
  \A j \in Jobs : jobs[j].status \in Terminal =>
    /\ \A r, s \in jobs[j].results : r.device = s.device => r = s
    /\ \A r \in jobs[j].results : r.device \in jobs[j].scope
    /\ \A d \in jobs[j].scope \cap devices : \E r \in jobs[j].results : r.device = d

\* The audit trail of a job and its results tell the same story, device by
\* device, also while it runs and when its thread died.
AuditsMatchResults ==
  \A j \in Jobs :
    /\ {a.result : a \in {b \in audits : b.job = j}} = task[j].results
    /\ jobs[j].status \in Terminal => jobs[j].results = task[j].results

\* No version appears behind the audit trail's back: each is the outcome of an
\* audited backup, or of one about to be audited, or the one version that the job
\* of a thread that died had at hand.
VersionsAreAudited ==
  \A v \in versions :
    \/ \E a \in audits : a.result.status = "SUCCESS" /\ a.result.device = v.device /\ a.result.version = v.id
    \/ \E j \in Jobs : task[j].current = {v.device} /\ (At(j, "dead") \/ (At(j, "store") /\ call[j].id = v.id))

\* What a caller may rely on (BackupBatch): outcomes are recorded once per device,
\* the status sums up all of them, and a job that ended never changes again.
OutcomesOf(results) == {[device |-> r.device, status |-> r.status] : r \in results}
Summary(j) ==
  [status |-> jobs[j].status, scope |-> jobs[j].scope, selected |-> task[j].selected,
   outcomes |-> OutcomesOf(task[j].results)]
Batch == INSTANCE BackupBatch WITH Jobs <- Jobs, Devices <- Devices, batch <- [j \in Jobs |-> Summary(j)]
ImplementsBatch == Batch!Spec

\* "yielding SUCCESS, PARTIAL, or FAILED batch jobs": a job that was accepted ends.
JobsFinish == \A j \in Jobs : jobs[j].status # "absent" ~> jobs[j].status \in Terminal

-----------------------------------------------------------------------------
(* The inductive invariant behind the safety properties, job by job.       *)

InLoop == {"select", "collect", "store", "failed"}
Recorded(j) == {r.device : r \in task[j].results}

\* The row's status tells how far the thread is.
StatusMatchesTask(j) ==
  /\ jobs[j].status = "absent" <=> At(j, "none")
  /\ At(j, "queued") => jobs[j].status = "PENDING"
  /\ task[j].pc \in InLoop => jobs[j].status = "RUNNING"
  /\ jobs[j].status \in Terminal <=> At(j, "done")

\* Nothing is selected before the run begins; from then on every device of the
\* scope that is still managed is.
SelectionCoversScope(j) ==
  /\ task[j].selected \subseteq jobs[j].scope
  /\ jobs[j].status \in {"absent", "PENDING"} =>
       task[j].selected = {} /\ task[j].todo = {} /\ task[j].current = {} /\ task[j].results = {}
  /\ jobs[j].status \notin {"absent", "PENDING"} => StillThere(j) \subseteq task[j].selected

\* The selected devices are to be done, at hand, or recorded, and only one of these.
EachDeviceOnce(j) ==
  /\ Recorded(j) \subseteq task[j].selected
  /\ \A r, s \in task[j].results : r.device = s.device => r = s
  /\ task[j].pc \in InLoop \cup {"done"} =>
       /\ task[j].selected = task[j].todo \cup task[j].current \cup Recorded(j)
       /\ task[j].todo \cap task[j].current = {}
       /\ (task[j].todo \cup task[j].current) \cap Recorded(j) = {}
  /\ task[j].pc \in {"select", "done"} => task[j].current = {}
  /\ At(j, "done") => task[j].todo = {}
  /\ task[j].pc \in {"collect", "store", "failed"} => \E d \in Devices : task[j].current = {d}

\* A managed device's version, once found or committed, is still in the table.
HasVersion(d, id) == d \in devices => \E v \in versions : v.id = id /\ v.device = d
CallMatchesTask(j) ==
  /\ call[j] # Idle <=> At(j, "store")
  /\ At(j, "store") =>
       /\ task[j].current = {call[j].device}
       /\ call[j].pc \in {"probe", "rematerialise", "repoint", "unchanged", "refresh", "created"}
            => HasVersion(call[j].device, call[j].id)

ResultsStand(j) ==
  /\ \A r \in task[j].results : r.status = "SUCCESS" => HasVersion(r.device, r.version)
  /\ jobs[j].status \in Terminal =>
       jobs[j].results = task[j].results /\ jobs[j].status = FinalStatus(task[j].results)

JobInv(j) ==
  /\ StatusMatchesTask(j)
  /\ SelectionCoversScope(j)
  /\ EachDeviceOnce(j)
  /\ CallMatchesTask(j)
  /\ ResultsStand(j)

BackupInv ==
  /\ StoreInv
  /\ TypeOK
  /\ \A j \in Jobs : JobInv(j)
  /\ AuditsMatchResults
=============================================================================
