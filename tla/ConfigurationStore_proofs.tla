---------------------- MODULE ConfigurationStore_proofs ----------------------
(***************************************************************************)
(* What holds of ConfigurationStore for every number of threads, devices,  *)
(* directories and versions.  StoreInv is inductive; the properties the    *)
(* runs check are conjuncts of it.                                         *)
(***************************************************************************)
EXTENDS ConfigurationStore, TLAPS

\* A call that is under way has all the fields of Call.
LEMMA ActiveCall ==
  ASSUME StoreTypeOK, NEW w \in Workers, call[w].pc # "idle"
  PROVE  call[w] \in Call
BY DEF StoreTypeOK, Idle

\* Moving on with other fields or without keeps a call a call.
LEMMA GotoCall ==
  ASSUME StoreTypeOK, NEW w \in Workers, call[w] \in Call,
         NEW pc \in Steps \cup Outcomes, Goto(w, pc)
  PROVE  /\ call' \in [Workers -> {Idle} \cup Call]
         /\ call'[w] \in Call
BY DEF StoreTypeOK, Goto, Call

LEMMA NewArtifact ==
  ASSUME StoreTypeOK, NEW name \in Names, NEW id \in Nat, NEW c \in Configs \cup {Torn},
         PutArtifact(name, id, c)
  PROVE  artifacts' \subseteq Artifact
BY DEF StoreTypeOK, PutArtifact, Artifact

\* The types hold initially and every step preserves them.
LEMMA TypeInit == StoreInit => StoreTypeOK
BY DEF StoreInit, StoreTypeOK, Ids

LEMMA TypeStep == StoreTypeOK /\ [StoreNext]_storeVars => StoreTypeOK'
<1> SUFFICES ASSUME StoreTypeOK, [StoreNext]_storeVars PROVE StoreTypeOK'
  OBVIOUS
<1> USE DEF StoreTypeOK
<1>1. ASSUME NEW w \in Workers, NEW d \in Devices, NEW n \in Names, NEW c \in Configs,
             BeginStore(w, d, n, c)
      PROVE  StoreTypeOK'
  BY <1>1 DEF BeginStore, Call, Steps, NoParent
<1>2. ASSUME NEW w \in Workers, StoreStep(w) PROVE StoreTypeOK'
  <2>1. call[w] \in Call
    BY <1>2, ActiveCall DEF StoreStep, Compare, Probe, Rematerialise, Repoint, Put, Commit, Refresh
  <2>2. CASE Compare(w)
    <3>1. ASSUME NEW v \in Newest(call[w].device),
                 call' = [call EXCEPT ![w].pc = "probe", ![w].id = v.id, ![w].uri = v.name]
          PROVE  call' \in [Workers -> {Idle} \cup Call]
      BY <2>1, <3>1 DEF Newest, Version, Call, Steps, Ids
    <3>2. ASSUME NEW v \in Newest(call[w].device),
                 call' = [call EXCEPT ![w].pc = "put", ![w].parent = v.id]
          PROVE  call' \in [Workers -> {Idle} \cup Call]
      BY <2>1, <3>2 DEF Newest, Version, Call, Steps, Ids
    <3>3. Goto(w, "put") => call' \in [Workers -> {Idle} \cup Call]
      BY <2>1, GotoCall DEF Steps
    <3>4. QED
      BY <2>2, <3>1, <3>2, <3>3 DEF Compare
  <2>3. CASE Probe(w)
    BY <2>1, <2>3 DEF Probe, Goto, Call, Steps, Outcomes
  <2>4. CASE Rematerialise(w)
    <3>1. call[w].id \in Nat /\ call[w].name \in Names /\ call[w].sha \in Configs
      BY <2>1 DEF Call
    <3>2. call' \in [Workers -> {Idle} \cup Call]
      BY <2>1, <2>4, GotoCall DEF Rematerialise, Steps, Outcomes
    <3>3. QED
      BY <2>4, <3>1, <3>2, NewArtifact DEF Rematerialise
  <2>5. CASE Repoint(w)
    <3>1. call' \in [Workers -> {Idle} \cup Call]
      BY <2>1, <2>5, GotoCall DEF Repoint, Steps, Outcomes
    <3>2. Repointed(w) \subseteq Version
      BY <2>1 DEF Repointed, Version, Call
    <3>3. QED
      BY <2>5, <3>1, <3>2 DEF Repoint
  <2>6. CASE Put(w)
    <3>1. clock \in Nat /\ clock' \in Ids
      BY <2>6 DEF Put, Ids
    <3>2. [call[w] EXCEPT !.pc = "commit", !.id = clock] \in Call
      BY <2>1, <3>1 DEF Call, Steps
    <3>3. call' \in [Workers -> {Idle} \cup Call]
      BY <2>6, <3>2 DEF Put
    <3>4. artifacts' \subseteq Artifact
      <4>1. clock \in Nat /\ call[w].name \in Names /\ call[w].sha \in Configs \cup {Torn}
        BY <2>1 DEF Call, Ids
      <4>2. PutArtifact(call[w].name, clock, call[w].sha)
        BY <2>6 DEF Put
      <4>3. QED
        BY <4>1, <4>2, NewArtifact
    <3>5. QED
      BY <2>6, <3>1, <3>3, <3>4 DEF Put
  <2>7. CASE Commit(w)
    <3>1. call' \in [Workers -> {Idle} \cup Call]
      BY <2>1, <2>7, GotoCall DEF Commit, Steps, Outcomes
    <3>2. NewRow(w) \in Version
      BY <2>1 DEF NewRow, Version, Call
    <3>3. QED
      BY <2>7, <3>1, <3>2 DEF Commit
  <2>8. CASE Refresh(w)
    BY <2>1, <2>8 DEF Refresh, Goto, Call, Steps, Outcomes
  <2>9. QED
    BY <1>2, <2>2, <2>3, <2>4, <2>5, <2>6, <2>7, <2>8 DEF StoreStep
<1>3. ASSUME NEW w \in Workers, EndStore(w) PROVE StoreTypeOK'
  BY <1>3 DEF EndStore
<1>4. ASSUME NEW w \in Workers, StoreFault(w) PROVE StoreTypeOK'
  <2>1. CASE WriteFails(w)
    <3>1. call[w] \in Call
      BY <2>1, ActiveCall DEF WriteFails
    <3>2. call' \in [Workers -> {Idle} \cup Call]
      BY <2>1, <3>1, GotoCall DEF WriteFails, Steps, Outcomes
    <3>3. artifacts' \subseteq Artifact /\ clock' \in Ids
      <4>1. call[w].id \in Nat /\ call[w].name \in Names /\ clock \in Nat
        BY <3>1 DEF Call, Ids
      <4>2. QED
        BY <2>1, <4>1, NewArtifact DEF WriteFails, Ids
    <3>4. QED
      BY <2>1, <3>2, <3>3 DEF WriteFails
  <2>2. CASE CommitFails(w)
    <3>1. call[w] \in Call
      BY <2>2, ActiveCall DEF CommitFails
    <3>2. QED
      BY <3>1, <2>2 DEF CommitFails, Goto, Call, Steps, Outcomes
  <2>3. CASE Die(w)
    BY <2>3 DEF Die
  <2>4. QED
    BY <1>4, <2>1, <2>2, <2>3 DEF StoreFault
<1>5. ASSUME NEW d \in Devices, DeleteDevice(d) PROVE StoreTypeOK'
  BY <1>5 DEF DeleteDevice
<1>6. ASSUME NEW r \in Roots, ChangeDirectory(r) PROVE StoreTypeOK'
  BY <1>6 DEF ChangeDirectory
<1>7. CASE UNCHANGED storeVars
  BY <1>7 DEF storeVars
<1>8. QED
  BY <1>1, <1>2, <1>3, <1>4, <1>5, <1>6, <1>7 DEF StoreNext

\* The tables, the files and the calls always have the shape their comments state.
THEOREM StoreTypeCorrect == StoreSpec => []StoreTypeOK
BY TypeInit, TypeStep, PTL DEF StoreSpec

-----------------------------------------------------------------------------
(* StoreInv.  Most steps only move one call on; what they must keep is what *)
(* the invariant says of the calls that hold a version or a fresh id.       *)

USE DEF Active, HoldsVersion

LEMMA InvInit == StoreInit => StoreInv
BY TypeInit DEF StoreInit, StoreInv, Stamped, ParentKnown, FreshId, HeldVersion, RowHasArtifact,
   ContentMatchesRow, ParentIsOlderAndDifferent, IdsUnique, Idle

\* A call that ends, one way or another, takes no knowledge with it.
Retires(w) ==
  /\ UNCHANGED <<versions, artifacts, clock>>
  /\ \A x \in Workers : x # w => call'[x] = call[x]
  /\ \/ call'[w] = Idle
     \/ /\ call[w] # Idle
        /\ call'[w].pc \in Outcomes
        /\ call'[w].id = call[w].id
        /\ call'[w].parent = call[w].parent

LEMMA RetireInv ==
  ASSUME StoreInv, StoreTypeOK', NEW w \in Workers, Retires(w)
  PROVE  StoreInv'
<1> USE DEF StoreInv, Retires, Outcomes, Idle
<1>1. Stamped'
  BY DEF Stamped
<1>2. ParentKnown'
  BY DEF ParentKnown
<1>3. FreshId'
  BY DEF FreshId
<1>4. HeldVersion'
  BY DEF HeldVersion
<1>5. RowHasArtifact' /\ ContentMatchesRow' /\ ParentIsOlderAndDifferent' /\ IdsUnique'
  BY DEF RowHasArtifact, ContentMatchesRow, ParentIsOlderAndDifferent, IdsUnique, RowExists
<1>6. QED
  BY <1>1, <1>2, <1>3, <1>4, <1>5

\* BeginStore: a call starts out with no id and no parent.
LEMMA BeginInv ==
  ASSUME StoreInv, StoreTypeOK', NEW w \in Workers, NEW d \in Devices, NEW n \in Names,
         NEW c \in Configs, BeginStore(w, d, n, c)
  PROVE  StoreInv'
<1> USE DEF StoreInv, BeginStore, NoParent
<1>0. /\ call'[w].pc = "compare" /\ call'[w].id = 0 /\ call'[w].parent = 0
      /\ \A x \in Workers : x # w => call'[x] = call[x]
  BY DEF StoreTypeOK
<1>1. Stamped'
  BY <1>0 DEF Stamped, StoreTypeOK, Ids
<1>2. ParentKnown'
  BY <1>0 DEF ParentKnown
<1>3. FreshId'
  BY <1>0 DEF FreshId, Ids
<1>4. HeldVersion'
  BY <1>0 DEF HeldVersion
<1>5. RowHasArtifact' /\ ContentMatchesRow' /\ ParentIsOlderAndDifferent' /\ IdsUnique'
  BY <1>0 DEF RowHasArtifact, ContentMatchesRow, ParentIsOlderAndDifferent, IdsUnique, RowExists
<1>6. QED
  BY <1>1, <1>2, <1>3, <1>4, <1>5

\* Compare: what the call holds from now on is what the newest row says.
LEMMA CompareInv ==
  ASSUME StoreInv, StoreTypeOK', NEW w \in Workers, Compare(w)
  PROVE  StoreInv'
<1> USE DEF StoreInv
<1>0. /\ UNCHANGED <<devices, versions, artifacts, root, clock>>
      /\ call[w] \in Call /\ call[w].pc = "compare"
      /\ \A x \in Workers : x # w => call'[x] = call[x]
  BY ActiveCall DEF StoreTypeOK, Goto, Compare
<1>1. CASE \E v \in Newest(call[w].device) :
             /\ v.sha = call[w].sha
             /\ call' = [call EXCEPT ![w].pc = "probe", ![w].id = v.id, ![w].uri = v.name]
  <2>1. PICK v \in versions :
          /\ v.sha = call[w].sha
          /\ call' = [call EXCEPT ![w].pc = "probe", ![w].id = v.id, ![w].uri = v.name]
    BY <1>1 DEF Newest
  <2>2. /\ call'[w].pc = "probe" /\ call'[w].id = v.id /\ call'[w].parent = call[w].parent
        /\ call'[w].sha = call[w].sha
    BY <1>0, <2>1 DEF StoreTypeOK, Call
  <2>3. v.id \in Ids /\ v.id < clock
    BY DEF ParentIsOlderAndDifferent, Stamped, StoreTypeOK, Version, Ids
  <2>4. Stamped'
    BY <1>0, <2>2, <2>3 DEF Stamped, Idle
  <2>5. ParentKnown'
    BY <1>0, <2>2 DEF ParentKnown
  <2>6. FreshId'
    BY <1>0, <2>2 DEF FreshId, Idle
  <2>7. HeldVersion'
    <3>1. /\ \A u \in versions : u.id = v.id => u.sha = call[w].sha
          /\ \A f \in artifacts : f.id = v.id => f.sha \in {call[w].sha, Torn}
          /\ \A x \in Workers : HoldsVersion(x) /\ call[x].id = v.id => call[x].sha = call[w].sha
      BY <2>1 DEF IdsUnique, ContentMatchesRow, HeldVersion
    <3>2. \A x \in Workers : x # w /\ HoldsVersion(x)' => HoldsVersion(x) /\ call'[x] = call[x]
      BY <1>0
    <3>3. QED
      BY <1>0, <2>2, <2>3, <3>1, <3>2 DEF HeldVersion
  <2>8. RowHasArtifact' /\ ContentMatchesRow' /\ ParentIsOlderAndDifferent' /\ IdsUnique'
    BY <1>0, <2>2 DEF RowHasArtifact, ContentMatchesRow, ParentIsOlderAndDifferent, IdsUnique, RowExists
  <2>9. QED
    BY <2>4, <2>5, <2>6, <2>7, <2>8
<1>2. CASE \/ \E v \in Newest(call[w].device) :
                /\ v.sha # call[w].sha
                /\ call' = [call EXCEPT ![w].pc = "put", ![w].parent = v.id]
           \/ Newest(call[w].device) = {} /\ Goto(w, "put")
  <2>1. /\ call'[w].pc = "put" /\ call'[w].id = call[w].id
        /\ call'[w].sha = call[w].sha /\ call'[w].device = call[w].device
    BY <1>0, <1>2 DEF StoreTypeOK, Call, Goto
  <2>2. \/ call'[w].parent = call[w].parent /\ Newest(call[w].device) = {}
        \/ \E v \in versions : /\ call'[w].parent = v.id /\ v.sha # call[w].sha
                               /\ v.device = call[w].device
    BY <1>0, <1>2 DEF StoreTypeOK, Call, Goto, Newest
  <2>3. \A u \in versions : u.id = call'[w].parent =>
                             u.device = call[w].device /\ u.sha # call[w].sha
    BY <1>0, <2>2 DEF ParentKnown, ParentIsOlderAndDifferent, IdsUnique, NoParent, StoreTypeOK, Version
  <2>4. call'[w].parent < clock
    BY <1>0, <2>2 DEF Stamped, Idle
  <2>5. Stamped'
    BY <1>0, <2>1, <2>4 DEF Stamped, Idle
  <2>6. ParentKnown'
    BY <1>0, <2>1, <2>3 DEF ParentKnown
  <2>7. FreshId'
    BY <1>0, <2>1, <2>2 DEF FreshId, Idle
  <2>8. HeldVersion'
    BY <1>0, <2>1 DEF HeldVersion
  <2>9. RowHasArtifact' /\ ContentMatchesRow' /\ ParentIsOlderAndDifferent' /\ IdsUnique'
    BY <1>0, <2>1 DEF RowHasArtifact, ContentMatchesRow, ParentIsOlderAndDifferent, IdsUnique, RowExists
  <2>10. QED
    BY <2>5, <2>6, <2>7, <2>8, <2>9
<1>3. QED
  BY <1>1, <1>2 DEF Compare, SameAsNewest

\* Probe: the file is there, or it has to be written again.
LEMMA ProbeInv ==
  ASSUME StoreInv, StoreTypeOK', NEW w \in Workers, Probe(w)
  PROVE  StoreInv'
<1> USE DEF StoreInv
<1>0. /\ call[w] \in Call /\ call[w].pc = "probe"
      /\ UNCHANGED <<devices, versions, artifacts, root, clock>>
  BY ActiveCall DEF Probe
<1>1. CASE call' = [call EXCEPT ![w].pc = "unchanged"]
  <2>1. Retires(w)
    BY <1>0, <1>1 DEF Retires, StoreTypeOK, Call, Outcomes, Idle
  <2>2. QED
    BY <2>1, RetireInv
<1>2. CASE call' = [call EXCEPT ![w].pc = "rematerialise"]
  <2>1. /\ UNCHANGED <<devices, versions, artifacts, root, clock>>
        /\ \A x \in Workers : x # w => call'[x] = call[x]
        /\ call'[w].pc = "rematerialise" /\ call'[w].id = call[w].id
        /\ call'[w].parent = call[w].parent /\ call'[w].sha = call[w].sha
    BY <1>0, <1>2 DEF StoreTypeOK, Call
  <2>2. Stamped'
    BY <1>0, <2>1 DEF Stamped, Idle
  <2>3. ParentKnown' /\ FreshId'
    BY <1>0, <2>1 DEF ParentKnown, FreshId, Idle
  <2>4. HeldVersion'
    BY <1>0, <2>1 DEF HeldVersion
  <2>5. RowHasArtifact' /\ ContentMatchesRow' /\ ParentIsOlderAndDifferent' /\ IdsUnique'
    BY <1>0, <2>1 DEF RowHasArtifact, ContentMatchesRow, ParentIsOlderAndDifferent, IdsUnique, RowExists
  <2>6. QED
    BY <2>2, <2>3, <2>4, <2>5
<1>3. QED
  BY <1>1, <1>2 DEF Probe, Goto

\* The file is written again, whole or torn: of a version whose content it has.
LEMMA AddArtifactInv ==
  ASSUME StoreInv, StoreTypeOK', NEW w \in Workers,
         call[w] \in Call, call[w].pc = "rematerialise",
         NEW c \in {call[w].sha, Torn}, PutArtifact(call[w].name, call[w].id, c),
         UNCHANGED <<versions, clock>>,
         \A x \in Workers : x # w => call'[x] = call[x],
         call'[w].id = call[w].id, call'[w].parent = call[w].parent,
         call'[w].sha = call[w].sha, call'[w].name = call[w].name,
         \/ call'[w].pc = "repoint" /\ c = call[w].sha
         \/ call'[w].pc = "raised"
  PROVE  StoreInv'
<1> USE DEF StoreInv
<1> DEFINE new == [root |-> root, name |-> call[w].name, id |-> call[w].id, sha |-> c]
<1>0. artifacts' = artifacts \cup {new} /\ new.id = call[w].id /\ new.sha = c /\ new.name = call[w].name
  BY DEF PutArtifact
<1>1. /\ call[w].id \in Ids /\ call[w].id < clock
      /\ \A v \in versions : v.id = call[w].id => v.sha = call[w].sha
      /\ \A x \in Workers : HoldsVersion(x) /\ call[x].id = call[w].id => call[x].sha = call[w].sha
  BY DEF HeldVersion, Stamped, Idle
<1>2. Stamped'
  BY <1>0, <1>1 DEF Stamped, Idle
<1>3. ParentKnown'
  BY DEF ParentKnown
<1>4. FreshId'
  <2>1. \A x \in Workers : call[x].pc = "commit" => x # w /\ call[x].id # call[w].id
    BY DEF FreshId, Idle
  <2>2. \A x \in Workers : call'[x].pc = "commit" => x # w /\ call[x].pc = "commit" /\ call'[x] = call[x]
    OBVIOUS
  <2>3. \A x \in Workers : Active(x)' => Active(x) /\ call'[x].id = call[x].id /\ call'[x].parent = call[x].parent
    BY DEF Idle
  <2> HIDE DEF new
  <2>4. QED
    BY <1>0, <2>1, <2>2, <2>3 DEF FreshId
<1>5. HeldVersion'
  <2>1. \A x \in Workers : HoldsVersion(x)' => HoldsVersion(x) /\ call'[x].id = call[x].id /\ call'[x].sha = call[x].sha
                                                /\ call'[x].name = call[x].name
    OBVIOUS
  <2>2. \A x \in Workers : HoldsVersion(x)' /\ call[x].id = call[w].id => call[x].sha = call[w].sha
    BY <1>1, <2>1
  <2>3. \A x \in Workers : call'[x].pc = "repoint" => x = w \/ call[x].pc = "repoint"
    OBVIOUS
  <2> HIDE DEF new
  <2>4. \A x \in Workers : HoldsVersion(x)' => \A f \in artifacts' : f.id = call[x].id => f.sha \in {call[x].sha, Torn}
    BY <1>0, <2>1, <2>2 DEF HeldVersion
  <2>5. \A x \in Workers : call'[x].pc = "repoint" =>
          \E f \in artifacts' : f.id = call[x].id /\ f.name = call[x].name /\ f.sha = call[x].sha
    BY <1>0, <2>3 DEF HeldVersion
  <2>6. QED
    BY <2>1, <2>4, <2>5 DEF HeldVersion
<1>6. RowHasArtifact'
  BY <1>0 DEF RowHasArtifact
<1>7. ContentMatchesRow'
  <2> HIDE DEF new
  <2> QED BY <1>0, <1>1 DEF ContentMatchesRow
<1>8. ParentIsOlderAndDifferent' /\ IdsUnique'
  BY DEF ParentIsOlderAndDifferent, IdsUnique, RowExists
<1>9. QED
  BY <1>2, <1>3, <1>4, <1>5, <1>6, <1>7, <1>8

\* Rematerialise: the artifact is written again, or somebody's is in the way.
LEMMA RematerialiseInv ==
  ASSUME StoreInv, StoreTypeOK', NEW w \in Workers, Rematerialise(w)
  PROVE  StoreInv'
<1>0. call[w] \in Call /\ call[w].pc = "rematerialise" /\ UNCHANGED <<devices, versions, root, clock>>
  BY ActiveCall DEF Rematerialise, StoreInv
<1>1. CASE PutArtifact(call[w].name, call[w].id, call[w].sha) /\ Goto(w, "repoint")
  <2>1. /\ \A x \in Workers : x # w => call'[x] = call[x]
        /\ call'[w].pc = "repoint" /\ call'[w].id = call[w].id /\ call'[w].parent = call[w].parent
        /\ call'[w].sha = call[w].sha /\ call'[w].name = call[w].name
    BY <1>0, <1>1 DEF Goto, StoreTypeOK, StoreInv, Call
  <2>2. QED
    BY <1>0, <1>1, <2>1, AddArtifactInv
<1>2. CASE Goto(w, "raised") /\ UNCHANGED artifacts
  <2>1. Retires(w)
    BY <1>0, <1>2 DEF Retires, Goto, StoreTypeOK, StoreInv, Call, Outcomes, Idle
  <2>2. QED
    BY <2>1, RetireInv
<1>3. QED
  BY <1>1, <1>2 DEF Rematerialise

\* Repoint: a row keeps everything but its path, and the new path has its file.
LEMMA RepointInv ==
  ASSUME StoreInv, StoreTypeOK', NEW w \in Workers, Repoint(w)
  PROVE  StoreInv'
<1>0. /\ call[w] \in Call /\ call[w].pc = "repoint"
      /\ UNCHANGED <<devices, artifacts, root, clock>>
  BY ActiveCall DEF Repoint, StoreInv
<1>1. CASE UNCHANGED versions
  <2>1. Goto(w, "unchanged") \/ Goto(w, "poisoned")
    BY DEF Repoint
  <2>2. Retires(w)
    BY <1>0, <1>1, <2>1 DEF Retires, Goto, StoreTypeOK, StoreInv, Call, Outcomes, Idle
  <2>3. QED
    BY <2>2, RetireInv
<1>2. CASE versions' = Repointed(w) /\ Goto(w, "unchanged")
  <2> USE DEF StoreInv
  <2>1. /\ \A x \in Workers : x # w => call'[x] = call[x]
        /\ call'[w].pc = "unchanged" /\ call'[w].id = call[w].id /\ call'[w].parent = call[w].parent
    BY <1>0, <1>2 DEF Goto, StoreTypeOK, Call
  <2>2. \A v \in versions' : \E u \in versions :
          /\ v = IF u.id = call[w].id THEN [u EXCEPT !.name = call[w].name] ELSE u
          /\ v.id = u.id /\ v.device = u.device /\ v.sha = u.sha /\ v.parent = u.parent
          /\ v.name = IF u.id = call[w].id THEN call[w].name ELSE u.name
    BY <1>0, <1>2 DEF Repointed, StoreTypeOK, Version
  <2>3. Stamped'
    BY <1>0, <2>1, <2>2 DEF Stamped, Idle
  <2>4. ParentKnown'
    BY <1>0, <2>1, <2>2 DEF ParentKnown
  <2>5. FreshId'
    BY <1>0, <2>1, <2>2 DEF FreshId, Idle
  <2>6. HeldVersion'
    BY <1>0, <2>1, <2>2 DEF HeldVersion
  <2>7. RowHasArtifact'
    <3>1. \E f \in artifacts : f.id = call[w].id /\ f.name = call[w].name /\ f.sha = call[w].sha
      BY <1>0 DEF HeldVersion
    <3>2. \A u \in versions : u.id = call[w].id => u.sha = call[w].sha
      BY <1>0 DEF HeldVersion
    <3>3. QED
      BY <1>0, <2>2, <3>1, <3>2 DEF RowHasArtifact
  <2>8. ContentMatchesRow' /\ ParentIsOlderAndDifferent'
    BY <1>0, <2>2 DEF ContentMatchesRow, ParentIsOlderAndDifferent
  <2>9. IdsUnique'
    <3>1. \A u, v \in versions' : u.id = v.id => u = v
      BY <2>2 DEF IdsUnique
    <3>2. \A x \in Workers : call'[x].pc = "commit" => ~ \E v \in versions' : v.id = call'[x].id
      BY <2>1, <2>2 DEF IdsUnique, RowExists
    <3>3. QED
      BY <3>1, <3>2 DEF IdsUnique, RowExists
  <2>10. QED
    BY <2>3, <2>4, <2>5, <2>6, <2>7, <2>8, <2>9
<1>3. QED
  BY <1>1, <1>2 DEF Repoint

\* A new file, whole or torn: its id is above every id in use.
LEMMA StampInv ==
  ASSUME StoreInv, StoreTypeOK', NEW w \in Workers, call[w] \in Call, call[w].pc = "put",
         NEW c \in {call[w].sha, Torn}, PutArtifact(call[w].name, clock, c),
         UNCHANGED versions, clock' = clock + 1,
         \A x \in Workers : x # w => call'[x] = call[x],
         call'[w].parent = call[w].parent, call'[w].device = call[w].device,
         call'[w].sha = call[w].sha, call'[w].name = call[w].name,
         \/ call'[w].pc = "commit" /\ call'[w].id = clock /\ c = call[w].sha
         \/ call'[w].pc = "raised" /\ call'[w].id = call[w].id
  PROVE  StoreInv'
<1> USE DEF StoreInv
<1> DEFINE new == [root |-> root, name |-> call[w].name, id |-> clock, sha |-> c]
<1>0. /\ artifacts' = artifacts \cup {new} /\ new.id = clock /\ new.sha = c /\ new.name = call[w].name
      /\ clock \in Nat /\ clock # 0
  BY DEF PutArtifact, StoreTypeOK, Ids
<1>1. /\ \A v \in versions : v.id \in Nat /\ v.parent \in Nat /\ v.id < clock /\ v.parent < clock
      /\ \A f \in artifacts : f.id \in Nat /\ f.id < clock
      /\ \A x \in Workers : Active(x) => /\ call[x].id \in Nat /\ call[x].id < clock
                                         /\ call[x].parent \in Nat /\ call[x].parent < clock
  <2>1. \A x \in Workers : Active(x) => call[x] \in Call
    BY DEF StoreTypeOK
  <2>2. QED
    BY <1>0, <2>1 DEF Stamped, StoreTypeOK, Version, Artifact, Call, ParentIsOlderAndDifferent
<1> HIDE DEF new
<1>2. Stamped'
  BY <1>0, <1>1 DEF Stamped, Idle
<1>3. ParentKnown'
  BY DEF ParentKnown
<1>4. FreshId'
  <2>1. ASSUME NEW x \in Workers, x # w, call'[x].pc = "commit"
        PROVE  /\ \A v \in versions' : v.id # call'[x].id /\ v.parent # call'[x].id
               /\ \A y \in Workers : Active(y)' =>
                    call'[y].parent # call'[x].id /\ (y # x => call'[y].id # call'[x].id)
               /\ \A f \in artifacts' : f.id = call'[x].id => f.sha \in {call'[x].sha, Torn}
    <3>1. call'[x] = call[x] /\ call[x].pc = "commit" /\ call[x].id < clock /\ call[x].id \in Nat
      BY <1>1, <2>1 DEF Idle
    <3>2. QED
      BY <1>0, <1>1, <2>1, <3>1 DEF FreshId, Idle
  <2>2. ASSUME NEW x \in Workers, x # w, call'[x].pc = "commit"
        PROVE  /\ call'[x].id \in Ids /\ call'[x].parent < call'[x].id
               /\ \E f \in artifacts' : f.id = call'[x].id /\ f.name = call'[x].name /\ f.sha = call'[x].sha
    BY <1>0, <2>2 DEF FreshId
  <2>3. ASSUME call'[w].pc = "commit"
        PROVE  /\ call'[w].id \in Ids /\ call'[w].parent < call'[w].id
               /\ \A v \in versions' : v.id # call'[w].id /\ v.parent # call'[w].id
               /\ \A y \in Workers : Active(y)' =>
                    call'[y].parent # call'[w].id /\ (y # w => call'[y].id # call'[w].id)
               /\ \E f \in artifacts' : f.id = call'[w].id /\ f.name = call'[w].name /\ f.sha = call'[w].sha
               /\ \A f \in artifacts' : f.id = call'[w].id => f.sha \in {call'[w].sha, Torn}
    BY <1>0, <1>1, <2>3 DEF Ids, Idle
  <2>4. QED
    BY <2>1, <2>2, <2>3 DEF FreshId
<1>5. HeldVersion'
  <2>1. \A x \in Workers : HoldsVersion(x)' => x # w /\ HoldsVersion(x) /\ call'[x] = call[x] /\ call[x].id # clock
    BY <1>1 DEF Idle
  <2>2. QED
    BY <1>0, <2>1 DEF HeldVersion
<1>6. RowHasArtifact' /\ ContentMatchesRow' /\ ParentIsOlderAndDifferent'
  BY <1>0, <1>1 DEF RowHasArtifact, ContentMatchesRow, ParentIsOlderAndDifferent
<1>7. IdsUnique'
  BY <1>1 DEF IdsUnique, RowExists
<1>8. QED
  BY <1>2, <1>3, <1>4, <1>5, <1>6, <1>7

LEMMA PutInv ==
  ASSUME StoreInv, StoreTypeOK', NEW w \in Workers, Put(w)
  PROVE  StoreInv'
<1>1. /\ call[w] \in Call /\ call[w].pc = "put"
      /\ PutArtifact(call[w].name, clock, call[w].sha) /\ UNCHANGED versions /\ clock' = clock + 1
  BY ActiveCall DEF Put, StoreInv
<1>2. /\ \A x \in Workers : x # w => call'[x] = call[x]
      /\ call'[w].pc = "commit" /\ call'[w].id = clock /\ call'[w].parent = call[w].parent
      /\ call'[w].device = call[w].device /\ call'[w].sha = call[w].sha /\ call'[w].name = call[w].name
  BY <1>1 DEF Put, StoreTypeOK, StoreInv, Call
<1>3. QED
  BY <1>1, <1>2, StampInv

\* Commit: a fresh id becomes a row that has its file and its parent's facts.
LEMMA CommitInv ==
  ASSUME StoreInv, StoreTypeOK', NEW w \in Workers, Commit(w)
  PROVE  StoreInv'
<1>0. /\ call[w] \in Call /\ call[w].pc = "commit" /\ UNCHANGED <<devices, artifacts, root, clock>>
  BY ActiveCall DEF Commit, StoreInv
<1>1. CASE Goto(w, "poisoned") /\ UNCHANGED versions
  <2>1. Retires(w)
    BY <1>0, <1>1 DEF Retires, Goto, StoreTypeOK, StoreInv, Call, Outcomes, Idle
  <2>2. QED
    BY <2>1, RetireInv
<1>2. CASE Goto(w, "refresh") /\ versions' = versions \cup {NewRow(w)}
  <2> USE DEF StoreInv
  <2> DEFINE new == NewRow(w)
  <2>1. /\ \A x \in Workers : x # w => call'[x] = call[x]
        /\ call'[w].pc = "refresh" /\ call'[w].id = call[w].id /\ call'[w].parent = call[w].parent
    BY <1>0, <1>2 DEF Goto, StoreTypeOK, Call
  <2>2. /\ new.id = call[w].id /\ new.device = call[w].device /\ new.sha = call[w].sha
        /\ new.parent = call[w].parent /\ new.name = call[w].name
        /\ versions' = versions \cup {new}
    BY <1>2 DEF NewRow
  <2>3. /\ call[w].id < clock /\ call[w].parent < call[w].id
        /\ \A v \in versions : v.id # call[w].id /\ v.parent # call[w].id
        /\ \A x \in Workers : Active(x) => call[x].parent # call[w].id /\ (x # w => call[x].id # call[w].id)
        /\ \E f \in artifacts : f.id = call[w].id /\ f.name = call[w].name /\ f.sha = call[w].sha
        /\ \A f \in artifacts : f.id = call[w].id => f.sha \in {call[w].sha, Torn}
    BY <1>0 DEF FreshId, Stamped, Idle
  <2> HIDE DEF new
  <2>4. Stamped'
    BY <1>0, <2>1, <2>2, <2>3 DEF Stamped, Idle
  <2>5. ParentKnown'
    BY <1>0, <2>1, <2>2, <2>3 DEF ParentKnown, Idle
  <2>6. FreshId'
    <3>1. \A x \in Workers : call'[x].pc = "commit" => x # w /\ call'[x] = call[x] /\ call[x].pc = "commit"
      BY <2>1
    <3>2. \A x \in Workers : call'[x].pc = "commit" => call[x].id # call[w].id /\ call[x].id # call[w].parent
      BY <1>0, <2>3, <3>1 DEF FreshId, Idle
    <3>3. QED
      BY <1>0, <2>1, <2>2, <3>1, <3>2 DEF FreshId, Idle
  <2>7. HeldVersion'
    <3>1. \A x \in Workers : HoldsVersion(x)' => x # w /\ call'[x] = call[x] /\ call[x].id # call[w].id
      BY <2>1, <2>3 DEF Idle
    <3>2. QED
      BY <1>0, <2>2, <3>1 DEF HeldVersion
  <2>8. RowHasArtifact' /\ ContentMatchesRow'
    BY <1>0, <2>2, <2>3 DEF RowHasArtifact, ContentMatchesRow
  <2>9. ParentIsOlderAndDifferent'
    <3>1. call[w].id # call[w].parent
      BY <1>0, <2>3 DEF Call
    <3>2. \A u \in versions : u.id = new.parent => u.device = new.device /\ u.sha # new.sha
      BY <1>0, <2>2 DEF ParentKnown
    <3>3. QED
      BY <1>0, <2>2, <2>3, <3>1, <3>2 DEF ParentIsOlderAndDifferent
  <2>10. IdsUnique'
    BY <2>1, <2>2, <2>3 DEF IdsUnique, RowExists, Idle
  <2>11. QED
    BY <2>4, <2>5, <2>6, <2>7, <2>8, <2>9, <2>10
<1>3. QED
  BY <1>1, <1>2 DEF Commit

\* What goes wrong in a call leaves the invariant alone.
LEMMA FaultInv ==
  ASSUME StoreInv, StoreTypeOK', NEW w \in Workers, StoreFault(w)
  PROVE  StoreInv'
<1> USE DEF StoreInv
<1>1. CASE WriteFails(w)
  <2>0. /\ call[w] \in Call /\ Goto(w, "raised") /\ UNCHANGED versions
        /\ \A x \in Workers : x # w => call'[x] = call[x]
        /\ call'[w].pc = "raised" /\ call'[w].id = call[w].id /\ call'[w].parent = call[w].parent
        /\ call'[w].device = call[w].device /\ call'[w].sha = call[w].sha /\ call'[w].name = call[w].name
    BY <1>1, ActiveCall DEF WriteFails, Goto, StoreTypeOK, Call
  <2>1. CASE UNCHANGED <<artifacts, clock>>
    <3>1. Retires(w)
      BY <1>1, <2>0, <2>1 DEF Retires, Outcomes, Call, Idle, WriteFails
    <3>2. QED
      BY <3>1, RetireInv
  <2>2. CASE call[w].pc = "put" /\ PutArtifact(call[w].name, clock, Torn) /\ clock' = clock + 1
    BY <2>0, <2>2, StampInv
  <2>3. CASE call[w].pc = "rematerialise" /\ PutArtifact(call[w].name, call[w].id, Torn) /\ UNCHANGED clock
    BY <2>0, <2>3, AddArtifactInv
  <2>4. QED
    BY <1>1, <2>1, <2>2, <2>3 DEF WriteFails
<1>2. CASE CommitFails(w)
  <2>1. Retires(w)
    BY <1>2, ActiveCall DEF CommitFails, Goto, Retires, StoreTypeOK, Call, Outcomes, Idle
  <2>2. QED
    BY <2>1, RetireInv
<1>3. CASE Die(w)
  <2>1. Retires(w)
    BY <1>3 DEF Die, Retires, StoreTypeOK
  <2>2. QED
    BY <2>1, RetireInv
<1>4. QED
  BY <1>1, <1>2, <1>3 DEF StoreFault

LEMMA RefreshInv ==
  ASSUME StoreInv, StoreTypeOK', NEW w \in Workers, Refresh(w) \/ EndStore(w)
  PROVE  StoreInv'
<1>1. CASE Refresh(w)
  <2>1. Goto(w, "created") \/ Goto(w, "raised")
    BY <1>1 DEF Refresh
  <2>2. Retires(w)
    BY <1>1, <2>1, ActiveCall DEF Refresh, Goto, Retires, StoreInv, StoreTypeOK, Call, Outcomes, Idle
  <2>3. QED
    BY <2>2, RetireInv
<1>2. CASE EndStore(w)
  <2>1. Retires(w)
    BY <1>2 DEF EndStore, Retires, StoreInv, StoreTypeOK
  <2>2. QED
    BY <2>1, RetireInv
<1>3. QED
  BY <1>1, <1>2

\* A device takes its rows with it, and no more.
LEMMA DeleteInv ==
  ASSUME StoreInv, StoreTypeOK', NEW d \in Devices, DeleteDevice(d)
  PROVE  StoreInv'
<1> USE DEF StoreInv
<1>1. versions' \subseteq versions /\ UNCHANGED <<artifacts, clock, call>>
  BY DEF DeleteDevice
<1>2. Stamped' /\ ParentKnown' /\ FreshId' /\ HeldVersion'
  BY <1>1 DEF Stamped, ParentKnown, FreshId, HeldVersion
<1>3. RowHasArtifact' /\ ContentMatchesRow' /\ ParentIsOlderAndDifferent' /\ IdsUnique'
  BY <1>1 DEF RowHasArtifact, ContentMatchesRow, ParentIsOlderAndDifferent, IdsUnique, RowExists
<1>4. QED
  BY <1>2, <1>3

LEMMA ElsewhereInv ==
  ASSUME StoreInv, StoreTypeOK', UNCHANGED <<versions, artifacts, clock, call>>
  PROVE  StoreInv'
BY DEF StoreInv, Stamped, ParentKnown, FreshId, HeldVersion, RowHasArtifact, ContentMatchesRow,
       ParentIsOlderAndDifferent, IdsUnique, RowExists

LEMMA InvStep == StoreInv /\ [StoreNext]_storeVars => StoreInv'
<1> SUFFICES ASSUME StoreInv, [StoreNext]_storeVars PROVE StoreInv'
  OBVIOUS
<1>1. StoreTypeOK'
  BY TypeStep DEF StoreInv
<1>2. ASSUME NEW w \in Workers, StoreStep(w) PROVE StoreInv'
  BY <1>1, <1>2, CompareInv, ProbeInv, RematerialiseInv, RepointInv, PutInv, CommitInv, RefreshInv
     DEF StoreStep
<1>3. ASSUME NEW d \in Devices, DeleteDevice(d) PROVE StoreInv'
  BY <1>1, <1>3, DeleteInv
<1>4. ASSUME NEW r \in Roots, ChangeDirectory(r) PROVE StoreInv'
  BY <1>1, <1>4, ElsewhereInv DEF ChangeDirectory
<1>5. CASE UNCHANGED storeVars
  BY <1>1, <1>5, ElsewhereInv DEF storeVars
<1>6. QED
  BY <1>1, <1>2, <1>3, <1>4, <1>5, BeginInv, RefreshInv, FaultInv DEF StoreNext

\* store() keeps rows, files and the calls in flight consistent with one another.
THEOREM StoreConsistent == StoreSpec => []StoreInv
BY InvInit, InvStep, PTL DEF StoreSpec

-----------------------------------------------------------------------------
(* The properties the runs check, for every instance.                      *)

\* A row's content was written whole, under the row's path, before the row was.
THEOREM RowAlwaysHasArtifact == StoreSpec => []RowHasArtifact
<1>1. StoreInv => RowHasArtifact
  BY DEF StoreInv
<1>2. QED
  BY <1>1, StoreConsistent, PTL

\* Files of a version hold its content, or the beginning of it.
THEOREM ContentAlwaysMatchesRow == StoreSpec => []ContentMatchesRow
<1>1. StoreInv => ContentMatchesRow
  BY DEF StoreInv
<1>2. QED
  BY <1>1, StoreConsistent, PTL

\* Concurrent stores can fork the chain of parents, and never make it wrong.
THEOREM ParentAlwaysOlderAndDifferent == StoreSpec => []ParentIsOlderAndDifferent
<1>1. StoreInv => ParentIsOlderAndDifferent
  BY DEF StoreInv
<1>2. QED
  BY <1>1, StoreConsistent, PTL

\* No step replaces or removes a file.
THEOREM ArtifactsStayImmutable == StoreSpec => ArtifactsImmutable
<1>1. [StoreNext]_storeVars => [artifacts \subseteq artifacts']_storeVars
  BY DEF StoreNext, storeVars, BeginStore, StoreStep, Compare, Probe, Rematerialise, Repoint, Put,
         Commit, Refresh, EndStore, StoreFault, WriteFails, CommitFails, Die, DeleteDevice,
         ChangeDirectory, PutArtifact
<1>2. QED
  BY <1>1, PTL DEF StoreSpec, ArtifactsImmutable

\* A row keeps its id, its device, its content and its parent for as long as its
\* device is in the inventory: store() only ever rewrites its path.
THEOREM RowsAreOnlyRepointed == StoreSpec => RowsOnlyRepointed
<1> DEFINE Kept ==
      \A v \in versions :
        \/ v.device \notin devices'
        \/ \E u \in versions' : u.id = v.id /\ u.device = v.device /\ u.sha = v.sha
                                 /\ u.parent = v.parent
<1>1. StoreTypeOK /\ [StoreNext]_storeVars => [Kept]_storeVars
  <2>1. SUFFICES ASSUME StoreTypeOK, StoreNext PROVE Kept
    OBVIOUS
  <2>2. CASE versions \subseteq versions'
    BY <2>2
  <2>3. ASSUME NEW d \in Devices, DeleteDevice(d) PROVE Kept
    BY <2>3 DEF DeleteDevice
  <2>4. ASSUME NEW w \in Workers, versions' = Repointed(w) PROVE Kept
    <3>1. ASSUME NEW v \in versions
          PROVE  \E u \in versions' : u.id = v.id /\ u.device = v.device /\ u.sha = v.sha
                                      /\ u.parent = v.parent
      <4>1. v \in Version
        BY <2>1, <3>1 DEF StoreTypeOK
      <4>2. CASE v.id = call[w].id
        <5>1. [v EXCEPT !.name = call[w].name] \in versions'
          BY <2>4, <3>1, <4>2 DEF Repointed
        <5>2. QED
          BY <4>1, <5>1 DEF Version
      <4>3. CASE v.id # call[w].id
        BY <2>4, <3>1, <4>3 DEF Repointed
      <4>4. QED
        BY <4>2, <4>3
    <3>2. QED
      BY <3>1
  <2>5. \/ versions \subseteq versions'
        \/ \E d \in Devices : DeleteDevice(d)
        \/ \E w \in Workers : versions' = Repointed(w)
    BY <2>1 DEF StoreNext, BeginStore, StoreStep, Compare, Probe, Rematerialise, Repoint, Put,
       Commit, Refresh, EndStore, StoreFault, WriteFails, CommitFails, Die, ChangeDirectory
  <2>6. QED
    BY <2>2, <2>3, <2>4, <2>5
<1>2. QED
  BY <1>1, StoreTypeCorrect, PTL DEF StoreSpec, RowsOnlyRepointed
=============================================================================
