------------------------- MODULE ConfigurationStore -------------------------
(***************************************************************************)
(* ConfigurationService.store (configuration/service.py) over the local    *)
(* artifact store (storage/local.py) and the configuration_versions table  *)
(* (database/models.py).                                                   *)
(*                                                                         *)
(* A worker is a thread that is inside store(): a backup job's thread, of  *)
(* which several run at once.  store() reads the newest version of the     *)
(* device, and either finds it unchanged, or writes a file and then a row. *)
(* Each read, file write and commit is a step, since another worker, a     *)
(* device deletion or a change of the backup directory may come between.   *)
(*                                                                         *)
(* Data abstracted: a configuration is its normalised content (equal       *)
(* content, equal SHA-256); an artifact path is the device name it was     *)
(* written under and the version id (the date part is fixed by the id); a  *)
(* version id doubles as collected_at, which is taken from the clock when  *)
(* the id is drawn.                                                        *)
(***************************************************************************)
EXTENDS Naturals, FiniteSets

CONSTANTS
  Workers,      \* threads that call store()
  Devices,      \* device ids
  Configs,      \* normalised configurations
  Torn,         \* what a write that stopped half way leaves in a file
  Names,        \* device names, part of an artifact's path
  Roots,        \* backup directories the settings page can choose
  ForeignKeys,  \* TRUE: PostgreSQL; FALSE: the default SQLite file, which checks none
  Faults,       \* TRUE: a thread may die or a commit may fail at any step
  MaxVersions   \* bound on the versions ever stamped

ASSUME StoreAssumption ==
  /\ ForeignKeys \in BOOLEAN
  /\ Faults \in BOOLEAN
  /\ MaxVersions \in Nat
  /\ Torn \notin Configs

VARIABLES
  devices,    \* rows of the devices table
  versions,   \* rows of configuration_versions
  artifacts,  \* files on disk
  root,       \* ConfigurationService.storage.root
  clock,      \* next version id and collected_at
  call        \* what each worker holds in store()'s local variables

storeVars == <<devices, versions, artifacts, root, clock, call>>

Ids == Nat \ {0}
NoParent == 0

Version == [id : Nat, device : Devices, sha : Configs, parent : Nat, name : Names]
Artifact == [root : Roots, name : Names, id : Nat, sha : Configs \cup {Torn}]

Idle == [pc |-> "idle"]
Steps == {"compare", "probe", "rematerialise", "repoint", "put", "commit", "refresh"}
Outcomes == {"unchanged", "created", "raised", "poisoned"}
Call == [pc : Steps \cup Outcomes, device : Devices, name : Names, sha : Configs,
         parent : Nat,  \* previous.id, for the row to be written
         uri : Names,   \* previous.storage_uri as it was read
         id : Nat]      \* the version found unchanged, or being written

StoreTypeOK ==
  /\ devices \subseteq Devices
  /\ versions \subseteq Version
  /\ artifacts \subseteq Artifact
  /\ root \in Roots
  /\ clock \in Ids
  /\ call \in [Workers -> {Idle} \cup Call]

StoreInit ==
  /\ devices = Devices
  /\ versions = {}
  /\ artifacts = {}
  /\ root \in Roots
  /\ clock = 1
  /\ call = [w \in Workers |-> Idle]

-----------------------------------------------------------------------------
(* Helpers.                                                                *)

Goto(w, pc) == call' = [call EXCEPT ![w].pc = pc]

\* select(...).where(device_id == d).order_by(collected_at.desc()), first row
Newest(d) ==
  {v \in versions : v.device = d /\ \A u \in versions : u.device = d => u.id <= v.id}

\* the file a version's storage_uri names below the directory in use
ArtifactsAt(name, id) ==
  {f \in artifacts : f.root = root /\ f.name = name /\ f.id = id}

RowExists(id) == \E v \in versions : v.id = id

\* the constraints PostgreSQL checks on the row's device and its parent
RowAdmissible(d, parent) ==
  ForeignKeys => d \in devices /\ (parent = NoParent \/ RowExists(parent))

-----------------------------------------------------------------------------
(* One call of store().                                                    *)

BeginStore(w, d, name, c) ==
  /\ call[w] = Idle
  /\ call' = [call EXCEPT ![w] = [pc |-> "compare", device |-> d, name |-> name, sha |-> c,
                                  parent |-> NoParent, uri |-> name, id |-> 0]]
  /\ UNCHANGED <<devices, versions, artifacts, root, clock>>

\* (mutants) the comparison is skipped: always a new version, or never
NeverSame(w, v) == FALSE
AlwaysSame(w, v) == TRUE

SameAsNewest(w, v) == v.sha = call[w].sha

Compare(w) ==
  /\ call[w].pc = "compare"
  /\ \/ \E v \in Newest(call[w].device) :
          /\ SameAsNewest(w, v)
          /\ call' = [call EXCEPT ![w].pc = "probe", ![w].id = v.id, ![w].uri = v.name]
     \/ \E v \in Newest(call[w].device) :
          /\ ~SameAsNewest(w, v)
          /\ call' = [call EXCEPT ![w].pc = "put", ![w].parent = v.id]
     \/ /\ Newest(call[w].device) = {}
        /\ Goto(w, "put")
  /\ UNCHANGED <<devices, versions, artifacts, root, clock>>

Probe(w) ==
  /\ call[w].pc = "probe"
  /\ Goto(w, IF ArtifactsAt(call[w].uri, call[w].id) # {} THEN "unchanged" ELSE "rematerialise")
  /\ UNCHANGED <<devices, versions, artifacts, root, clock>>

\* (mutants) a path without the version id: the file of an earlier version is kept,
\* or replaced
PutOncePerName(name, id, c) ==
  artifacts' = IF \E f \in artifacts : f.root = root /\ f.name = name THEN artifacts
               ELSE artifacts \cup {[root |-> root, name |-> name, id |-> id, sha |-> c]}
PutOverName(name, id, c) ==
  artifacts' = {f \in artifacts : f.root # root \/ f.name # name}
               \cup {[root |-> root, name |-> name, id |-> id, sha |-> c]}

\* put_configuration: an artifact that exists is never replaced
PutArtifact(name, id, c) ==
  /\ ArtifactsAt(name, id) = {}
  /\ artifacts' = artifacts \cup {[root |-> root, name |-> name, id |-> id, sha |-> c]}

Rematerialise(w) ==
  /\ call[w].pc = "rematerialise"
  /\ \/ /\ PutArtifact(call[w].name, call[w].id, call[w].sha)
        /\ Goto(w, "repoint")
     \/ /\ ArtifactsAt(call[w].name, call[w].id) # {}  \* FileExistsError
        /\ Goto(w, "raised")
        /\ UNCHANGED artifacts
  /\ UNCHANGED <<devices, versions, root, clock>>

\* (mutant) the row is taken out and not put back
RepointLosesRow(w) == {v \in versions : v.id # call[w].id}

Repointed(w) ==
  {IF v.id = call[w].id THEN [v EXCEPT !.name = call[w].name] ELSE v : v \in versions}

\* No UPDATE is sent when the path is the one the row holds already; an UPDATE
\* that finds no row is a StaleDataError inside the flush.
Repoint(w) ==
  /\ call[w].pc = "repoint"
  /\ \/ /\ call[w].name = call[w].uri \/ RowExists(call[w].id)
        /\ versions' = IF call[w].name = call[w].uri THEN versions ELSE Repointed(w)
        /\ Goto(w, "unchanged")
     \/ /\ call[w].name # call[w].uri
        /\ ~RowExists(call[w].id)
        /\ Goto(w, "poisoned")
        /\ UNCHANGED versions
  /\ UNCHANGED <<devices, artifacts, root, clock>>

Put(w) ==
  /\ call[w].pc = "put"
  /\ clock <= MaxVersions
  /\ PutArtifact(call[w].name, clock, call[w].sha)
  /\ call' = [call EXCEPT ![w].pc = "commit", ![w].id = clock]
  /\ clock' = clock + 1
  /\ UNCHANGED <<devices, versions, root>>

\* (mutant) the row's parent is left out
NewRowOrphan(w) ==
  [id |-> call[w].id, device |-> call[w].device, sha |-> call[w].sha,
   parent |-> NoParent, name |-> call[w].name]

NewRow(w) ==
  [id |-> call[w].id, device |-> call[w].device, sha |-> call[w].sha,
   parent |-> call[w].parent, name |-> call[w].name]

\* A flush that fails leaves the session unusable until a rollback.
Commit(w) ==
  /\ call[w].pc = "commit"
  /\ \/ /\ RowAdmissible(call[w].device, call[w].parent)
        /\ versions' = versions \cup {NewRow(w)}
        /\ Goto(w, "refresh")
     \/ /\ ~RowAdmissible(call[w].device, call[w].parent)
        /\ Goto(w, "poisoned")
        /\ UNCHANGED versions
  /\ UNCHANGED <<devices, artifacts, root, clock>>

Refresh(w) ==
  /\ call[w].pc = "refresh"
  /\ Goto(w, IF RowExists(call[w].id) THEN "created" ELSE "raised")
  /\ UNCHANGED <<devices, versions, artifacts, root, clock>>

EndStore(w) ==
  /\ call[w].pc \in Outcomes
  /\ call' = [call EXCEPT ![w] = Idle]
  /\ UNCHANGED <<devices, versions, artifacts, root, clock>>

StoreStep(w) ==
  \/ Compare(w) \/ Probe(w) \/ Rematerialise(w) \/ Repoint(w)
  \/ Put(w) \/ Commit(w) \/ Refresh(w)

-----------------------------------------------------------------------------
(* What goes on around a call.                                             *)

\* A file write fails before it creates the file (no directory), or after (disk
\* full): write_bytes writes in place, so the second leaves part of the content.
WriteFails(w) ==
  /\ Faults
  /\ \/ /\ call[w].pc \in {"put", "rematerialise"}
        /\ UNCHANGED <<artifacts, clock>>
     \/ /\ call[w].pc = "put"
        /\ clock <= MaxVersions
        /\ PutArtifact(call[w].name, clock, Torn)
        /\ clock' = clock + 1
     \/ /\ call[w].pc = "rematerialise"
        /\ PutArtifact(call[w].name, call[w].id, Torn)
        /\ UNCHANGED clock
  /\ Goto(w, "raised")
  /\ UNCHANGED <<devices, versions, root>>

\* A commit fails for the database's own reasons (locked, connection lost).
CommitFails(w) ==
  /\ Faults
  /\ call[w].pc = "commit" \/ (call[w].pc = "repoint" /\ call[w].name # call[w].uri)
  /\ Goto(w, "poisoned")
  /\ UNCHANGED <<devices, versions, artifacts, root, clock>>

\* The thread dies with the process: its locals are gone, disk and rows stay.
Die(w) ==
  /\ Faults
  /\ call[w] # Idle
  /\ call' = [call EXCEPT ![w] = Idle]
  /\ UNCHANGED <<devices, versions, artifacts, root, clock>>

\* InventoryService.delete: the device row and, by cascade, its versions.
DeleteDevice(d) ==
  /\ d \in devices
  /\ devices' = devices \ {d}
  /\ versions' = {v \in versions : v.device # d}
  /\ UNCHANGED <<artifacts, root, clock, call>>

\* PUT /api/settings swaps the store of the shared service.
ChangeDirectory(r) ==
  /\ r # root
  /\ root' = r
  /\ UNCHANGED <<devices, versions, artifacts, clock, call>>

StoreFault(w) == WriteFails(w) \/ CommitFails(w) \/ Die(w)

StoreNext ==
  \/ \E w \in Workers :
       \/ \E d \in Devices, name \in Names, c \in Configs : BeginStore(w, d, name, c)
       \/ StoreStep(w)
       \/ EndStore(w)
       \/ StoreFault(w)
  \/ \E d \in Devices : DeleteDevice(d)
  \/ \E r \in Roots : ChangeDirectory(r)

StoreSpec == StoreInit /\ [][StoreNext]_storeVars

-----------------------------------------------------------------------------
(* Properties.                                                             *)

\* store() writes the file and then the row, so a row never promises content that
\* was not written whole, under its path, below one of the directories used.
RowHasArtifact ==
  \A v \in versions : \E f \in artifacts : f.id = v.id /\ f.name = v.name /\ f.sha = v.sha

\* Whichever file a row's path leads to, in whichever directory, holds the
\* content the row's sha256 was computed from, or part of it.
ContentMatchesRow ==
  \A v \in versions, f \in artifacts : f.id = v.id => f.sha \in {v.sha, Torn}

\* parent_version_id: a version follows an older version of the same device that
\* held something else, however many threads stored at the same time.
ParentIsOlderAndDifferent ==
  \A v \in versions :
    /\ v.parent < v.id
    /\ \A u \in versions : u.id = v.parent => u.device = v.device /\ u.sha # v.sha

\* Ids name one version each, also against the versions still being written.
IdsUnique ==
  /\ \A u, v \in versions : u.id = v.id => u = v
  /\ \A w \in Workers : call[w].pc = "commit" => ~RowExists(call[w].id)

\* "create a version only if changed": no version repeats the one before it.
NoRepeatedVersion ==
  \A v \in versions, u \in versions :
    /\ u.device = v.device /\ u.id < v.id
    /\ ~ \E x \in versions : x.device = v.device /\ u.id < x.id /\ x.id < v.id
    => u.sha # v.sha

\* A file, once written, is neither replaced nor removed: store() only ever adds.
ArtifactsImmutable == [][artifacts \subseteq artifacts']_storeVars

\* A row is only ever re-pointed, by a path change, or removed with its device.
RowsOnlyRepointed ==
  [][\A v \in versions :
        \/ v.device \notin devices'
        \/ \E u \in versions' : u.id = v.id /\ u.device = v.device /\ u.sha = v.sha
                                 /\ u.parent = v.parent]_storeVars
-----------------------------------------------------------------------------
(* The inductive invariant behind the properties of rows and files: what   *)
(* the calls in flight know about the rows and files they are working on.  *)

Active(w) == call[w] # Idle
HoldsVersion(w) == call[w].pc \in {"probe", "rematerialise", "repoint"}

\* Everything that carries an id was stamped before now.
Stamped ==
  /\ \A v \in versions : v.id < clock
  /\ \A f \in artifacts : f.id < clock
  /\ \A w \in Workers : Active(w) => call[w].id < clock /\ call[w].parent < clock

\* The previous version, if it is still there, is what Compare saw.
ParentKnown ==
  \A w \in Workers :
    /\ call[w].pc = "compare" => call[w].parent = NoParent
    /\ call[w].pc \in {"put", "commit"} =>
         \A u \in versions : u.id = call[w].parent =>
           u.device = call[w].device /\ u.sha # call[w].sha

\* An id whose row is not committed yet is known to nobody else, and its file is there.
FreshId ==
  \A w \in Workers : call[w].pc = "commit" =>
    /\ call[w].id \in Ids
    /\ call[w].parent < call[w].id
    /\ \A v \in versions : v.id # call[w].id /\ v.parent # call[w].id
    /\ \A x \in Workers : Active(x) =>
         /\ call[x].parent # call[w].id
         /\ x # w => call[x].id # call[w].id
    /\ \E f \in artifacts : f.id = call[w].id /\ f.name = call[w].name /\ f.sha = call[w].sha
    /\ \A f \in artifacts : f.id = call[w].id => f.sha \in {call[w].sha, Torn}

\* A call that found its content unchanged agrees with the row, with the files
\* of that version, and with the other calls at work on it.
HeldVersion ==
  \A w \in Workers : HoldsVersion(w) =>
    /\ call[w].id \in Ids
    /\ \A v \in versions : v.id = call[w].id => v.sha = call[w].sha
    /\ \A f \in artifacts : f.id = call[w].id => f.sha \in {call[w].sha, Torn}
    /\ \A x \in Workers : HoldsVersion(x) /\ call[x].id = call[w].id => call[x].sha = call[w].sha
    /\ call[w].pc = "repoint" =>
         \E f \in artifacts : f.id = call[w].id /\ f.name = call[w].name /\ f.sha = call[w].sha

StoreInv ==
  /\ StoreTypeOK
  /\ Stamped
  /\ ParentKnown
  /\ FreshId
  /\ HeldVersion
  /\ RowHasArtifact
  /\ ContentMatchesRow
  /\ ParentIsOlderAndDifferent
  /\ IdsUnique
=============================================================================
