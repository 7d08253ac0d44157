--------------------- MODULE MCConfigurationStore_proofs ---------------------
(***************************************************************************)
(* The history of a device is one chain, but for the versions of calls     *)
(* that another call's commit overtook.  A call that nobody overtook still *)
(* holds, when it commits, the newest version of its device as parent;     *)
(* and a version with a smaller id that is committed after it would have   *)
(* been overtaken.                                                         *)
(***************************************************************************)
EXTENDS MCConfigurationStore, ConfigurationStore_proofs, WellFoundedInduction

\* The history variables only watch: every step is a step of the store.
LEMMA WatchedStore == MCSpec => StoreSpec
<1>1. MCInit => StoreInit
  BY DEF MCInit
<1>2. [MCNext]_<<storeVars, historyVars>> => [StoreNext]_storeVars
  BY DEF MCNext, StoreNext, StoreStep, StoreFault, storeVars
<1>3. QED
  BY <1>1, <1>2, PTL DEF MCSpec, StoreSpec

\* Numbers below a bound have a greatest.
LEMMA Greatest ==
  ASSUME NEW S \in SUBSET Nat, S # {}, NEW b \in Nat, \A s \in S : s < b
  PROVE  \E m \in S : \A s \in S : s <= m
<1> DEFINE R == OpToRel(<, Nat)
           T == {b - s : s \in S}
<1>1. T \subseteq Nat /\ T # {}
  <2>1. \A s \in S : s \in Nat /\ b - s \in Nat
    OBVIOUS
  <2>2. PICK s \in S : TRUE
    OBVIOUS
  <2>3. b - s \in T
    OBVIOUS
  <2>4. QED
    BY <2>1, <2>3
<1>2. IsWellFoundedOn(R, Nat)
  BY NatLessThanWellFounded
<1>3. \A x \in Nat, y \in Nat : y < x => <<y, x>> \in R
  BY DEF OpToRel
<1> HIDE DEF R, T
<1>4. PICK x \in T : \A y \in T : ~(<<y, x>> \in R)
  BY <1>1, <1>2, WFMin
<1>5. PICK m \in S : x = b - m
  BY DEF T
<1>6. ASSUME NEW s \in S PROVE s <= m
  <2>1. b - s \in T
    BY DEF T
  <2>2. ~(b - s < x)
    BY <1>1, <1>3, <1>4, <2>1
  <2>3. QED
    BY <1>5, <2>2
<1>7. QED
  BY <1>6

\* A device that has versions has a newest one.
LEMMA SomeAreNewest ==
  ASSUME StoreTypeOK, Stamped, NEW d, Newest(d) = {}
  PROVE  \A u \in versions : u.device # d
<1> SUFFICES ASSUME NEW u \in versions, u.device = d PROVE FALSE
  OBVIOUS
<1> DEFINE S == {v.id : v \in {x \in versions : x.device = d}}
<1>1. S \subseteq Nat /\ u.id \in S /\ clock \in Nat /\ \A s \in S : s < clock
  BY DEF StoreTypeOK, Version, Stamped, Ids
<1>2. \A v \in versions : v.device = d => v.id \in S
  OBVIOUS
<1>3. \A s \in S : \E v \in versions : v.device = d /\ v.id = s
  OBVIOUS
<1> HIDE DEF S
<1>4. PICK m \in S : \A s \in S : s <= m
  BY <1>1, Greatest
<1>5. PICK v \in versions : v.device = d /\ v.id = m
  BY <1>3
<1>6. v \in Newest(d)
  BY <1>2, <1>4, <1>5 DEF Newest
<1>7. QED
  BY <1>6

\* Between its comparison and its commit, a call that nobody overtook has no
\* version of its device after the parent it read.
Writing(w) == call[w].pc \in {"put", "commit"}
NothingSince(w) == \A u \in versions : u.device = call[w].device => u.id <= call[w].parent

LinearInv ==
  /\ LinearUnlessRaced
  /\ \A w \in Workers : Writing(w) /\ w \notin overtaken => NothingSince(w)

\* A step that commits nothing: every row was there before, and a call that is
\* writing was already, or finds nothing after the parent it has just read.
Commitless ==
  /\ \A v \in versions' : \E u \in versions :
       u.id = v.id /\ u.device = v.device /\ u.sha = v.sha /\ u.parent = v.parent
  /\ \A w \in Workers : Writing(w)' =>
       \/ Writing(w) /\ call'[w].device = call[w].device /\ call'[w].parent = call[w].parent
       \/ NothingSince(w)'

LEMMA CommitlessLinear ==
  ASSUME LinearInv, Commitless, Remember
  PROVE  LinearInv'
<1>1. raced \subseteq raced' /\ \A w \in Workers : Writing(w)' /\ w \in overtaken => w \in overtaken'
  BY DEF Remember, Writing
<1>2. LinearUnlessRaced'
  <2>1. SUFFICES ASSUME NEW v \in versions', NEW u \in versions', u.device = v.device, u.id < v.id,
                        {u.id, v.id} \cap raced' = {}
                 PROVE  u.id <= v.parent /\ (u.id = v.parent => u.sha # v.sha)
    BY DEF LinearUnlessRaced
  <2>2. PICK p \in versions : p.id = v.id /\ p.device = v.device /\ p.sha = v.sha /\ p.parent = v.parent
    BY DEF Commitless
  <2>3. PICK q \in versions : q.id = u.id /\ q.device = u.device /\ q.sha = u.sha /\ q.parent = u.parent
    BY DEF Commitless
  <2>4. {q.id, p.id} \cap raced = {}
    BY <1>1, <2>1, <2>2, <2>3
  <2>5. QED
    BY <2>1, <2>2, <2>3, <2>4 DEF LinearInv, LinearUnlessRaced
<1>3. ASSUME NEW w \in Workers, Writing(w)', w \notin overtaken' PROVE NothingSince(w)'
  <2>1. CASE Writing(w) /\ call'[w].device = call[w].device /\ call'[w].parent = call[w].parent
    <3>1. NothingSince(w)
      BY <1>1, <1>3, <2>1 DEF LinearInv
    <3>2. QED
      BY <2>1, <3>1 DEF NothingSince, Commitless
  <2>2. QED
    BY <1>3, <2>1 DEF Commitless
<1>4. QED
  BY <1>2, <1>3 DEF LinearInv

\* The commit itself.
LEMMA CommitLinear ==
  ASSUME StoreInv, LinearInv, NEW w \in Workers, Commit(w), versions' # versions, Remember
  PROVE  LinearInv'
<1> DEFINE new == NewRow(w)
<1>1. call[w] \in Call /\ call[w].pc = "commit" /\ Goto(w, "refresh") /\ versions' = versions \cup {new}
  BY ActiveCall DEF Commit, StoreInv
<1>2. /\ call'[w].pc = "refresh"
      /\ \A x \in Workers : x # w => call'[x] = call[x]
  BY <1>1 DEF Goto, StoreTypeOK, StoreInv, Call
<1>3. /\ new.id = call[w].id /\ new.device = call[w].device /\ new.sha = call[w].sha
      /\ new.parent = call[w].parent
  BY DEF NewRow
<1>4. /\ call[w].id \in Nat /\ call[w].parent \in Nat /\ call[w].parent < call[w].id
      /\ \A u \in versions : u.id \in Nat /\ u.id # call[w].id
      /\ \A u \in versions : u.id = call[w].parent => u.sha # call[w].sha
  BY <1>1 DEF StoreInv, StoreTypeOK, FreshId, ParentKnown, Call, Version
<1>5. ~RowExists(call[w].id)
  BY <1>4 DEF RowExists
<1> HIDE DEF new
<1>6. new \in NewVersions
  BY <1>1, <1>3, <1>5 DEF NewVersions
<1>7. raced \subseteq raced' /\ (w \in overtaken => new.id \in raced')
  BY <1>1, <1>2, <1>3 DEF Remember
<1>8. w \notin overtaken => \A u \in versions : u.device = new.device => u.id <= new.parent
  BY <1>1, <1>3 DEF LinearInv, Writing, NothingSince
<1>9. LinearUnlessRaced'
  <2>1. SUFFICES ASSUME NEW v \in versions', NEW u \in versions', u.device = v.device, u.id < v.id,
                        {u.id, v.id} \cap raced' = {}
                 PROVE  u.id <= v.parent /\ (u.id = v.parent => u.sha # v.sha)
    BY DEF LinearUnlessRaced
  <2>2. CASE v \in versions /\ u \in versions
    BY <1>7, <2>1, <2>2 DEF LinearInv, LinearUnlessRaced
  <2>3. CASE v = new
    <3>1. u \in versions /\ w \notin overtaken
      BY <1>1, <1>3, <1>4, <1>7, <2>1, <2>3
    <3>2. QED
      BY <1>3, <1>4, <1>8, <2>1, <2>3, <3>1
  <2>4. CASE u = new /\ v \in versions
    <3>1. w \notin overtaken
      BY <1>7, <2>1, <2>4
    <3>2. v.id <= new.parent /\ v.id \in Nat
      BY <1>4, <1>8, <2>1, <2>4, <3>1
    <3>3. QED
      BY <1>3, <1>4, <2>1, <2>4, <3>2
  <2>5. QED
    BY <1>1, <2>2, <2>3, <2>4
<1>10. ASSUME NEW x \in Workers, Writing(x)', x \notin overtaken' PROVE NothingSince(x)'
  <2>1. x # w /\ call'[x] = call[x] /\ Writing(x)
    BY <1>2, <1>10 DEF Writing
  <2>2. x \notin overtaken
    BY <1>10 DEF Remember, Writing
  <2>3. new.device # call[x].device
    <3>1. SUFFICES ASSUME new.device = call[x].device PROVE x \in overtaken'
      BY <1>10
    <3>2. ~(call[x].pc = "commit" /\ new.id = call[x].id)
      <4>1. Active(w) /\ Active(x)
        BY <1>1, <2>1 DEF Active, Idle, Writing
      <4>2. QED
        BY <1>3, <1>1, <2>1, <4>1 DEF StoreInv, FreshId
    <3>3. QED
      BY <1>6, <1>10, <2>1, <3>1, <3>2 DEF Remember, Writing
  <2>4. QED
    BY <1>1, <2>1, <2>2, <2>3 DEF LinearInv, NothingSince
<1>11. QED
  BY <1>9, <1>10 DEF LinearInv

\* All the other steps commit nothing.
LEMMA OthersCommitless ==
  ASSUME StoreInv, StoreNext, ~ \E w \in Workers : Commit(w) /\ versions' # versions
  PROVE  Commitless
<1> USE DEF StoreInv
<1> DEFINE Kept(w) == Writing(w)' => /\ Writing(w) /\ call'[w].device = call[w].device
                                    /\ call'[w].parent = call[w].parent
<1>1. \A v \in versions' : \E u \in versions :
        u.id = v.id /\ u.device = v.device /\ u.sha = v.sha /\ u.parent = v.parent
  <2>1. CASE versions' \subseteq versions
    BY <2>1
  <2>2. ASSUME NEW w \in Workers, versions' = Repointed(w)
        PROVE  \A v \in versions' : \E u \in versions :
                 u.id = v.id /\ u.device = v.device /\ u.sha = v.sha /\ u.parent = v.parent
    BY <2>2 DEF Repointed, StoreTypeOK, Version
  <2>3. versions' \subseteq versions \/ \E w \in Workers : versions' = Repointed(w)
    BY DEF StoreNext, BeginStore, StoreStep, Compare, Probe, Rematerialise, Repoint, Put,
       Commit, Refresh, EndStore, StoreFault, WriteFails, CommitFails, Die, DeleteDevice, ChangeDirectory
  <2>4. QED
    BY <2>1, <2>2, <2>3
<1>2. ASSUME NEW w \in Workers, Compare(w) PROVE Commitless
  <2>1. /\ call[w] \in Call /\ call[w].pc = "compare" /\ UNCHANGED versions
        /\ \A x \in Workers : x # w => call'[x] = call[x]
    BY <1>2, ActiveCall DEF Compare, StoreTypeOK, Goto
  <2>2. Writing(w)' => NothingSince(w)'
    <3>1. ASSUME NEW v \in Newest(call[w].device),
                 call' = [call EXCEPT ![w].pc = "probe", ![w].id = v.id, ![w].uri = v.name]
          PROVE  ~Writing(w)'
      BY <2>1, <3>1 DEF StoreTypeOK, Call, Writing
    <3>2. ASSUME NEW v \in Newest(call[w].device),
                 call' = [call EXCEPT ![w].pc = "put", ![w].parent = v.id]
          PROVE  NothingSince(w)'
      <4>1. call'[w].device = call[w].device /\ call'[w].parent = v.id
        BY <2>1, <3>2 DEF StoreTypeOK, Call
      <4>2. \A u \in versions : u.device = call[w].device => u.id <= v.id
        BY <3>2 DEF Newest
      <4>3. QED
        BY <2>1, <4>1, <4>2 DEF NothingSince
    <3>3. ASSUME Newest(call[w].device) = {}, Goto(w, "put") PROVE NothingSince(w)'
      <4>1. \A u \in versions : u.device # call[w].device
        BY <3>3, SomeAreNewest
      <4>2. call'[w].device = call[w].device
        BY <2>1, <3>3 DEF Goto, StoreTypeOK, Call
      <4>3. QED
        BY <2>1, <4>1, <4>2 DEF NothingSince
    <3>4. QED
      BY <1>2, <3>1, <3>2, <3>3 DEF Compare
  <2>3. QED
    BY <1>1, <2>1, <2>2 DEF Commitless, Writing
<1>3. ASSUME NEW w \in Workers, NEW d \in Devices, NEW n \in Names, NEW c \in Configs,
             BeginStore(w, d, n, c)
      PROVE  \A x \in Workers : Kept(x)
  BY <1>3 DEF BeginStore, Writing, StoreTypeOK
<1>4. ASSUME NEW w \in Workers, NEW pc \in Steps \cup Outcomes, Goto(w, pc),
             call[w] \in Call, pc \notin {"put", "commit"}
      PROVE  \A x \in Workers : Kept(x)
  BY <1>4 DEF Goto, Writing, StoreTypeOK, Call
<1>5. ASSUME NEW w \in Workers, Put(w) PROVE \A x \in Workers : Kept(x)
  BY <1>5, ActiveCall DEF Put, Writing, StoreTypeOK, Call
<1>6. ASSUME NEW w \in Workers, call' = [call EXCEPT ![w] = Idle] PROVE \A x \in Workers : Kept(x)
  BY <1>6 DEF Idle, Writing, StoreTypeOK
<1>7. ASSUME NEW w \in Workers, Probe(w) \/ Rematerialise(w) \/ Repoint(w) \/ Commit(w) \/ Refresh(w)
                                \/ WriteFails(w) \/ CommitFails(w)
      PROVE  \A x \in Workers : Kept(x)
  <2>1. call[w] \in Call
    BY <1>7, ActiveCall DEF Probe, Rematerialise, Repoint, Commit, Refresh, WriteFails, CommitFails
  <2>2. \E pc \in (Steps \cup Outcomes) \ {"put", "commit"} : Goto(w, pc)
    BY <1>7 DEF Probe, Rematerialise, Repoint, Commit, Refresh, WriteFails, CommitFails, Steps, Outcomes
  <2>3. QED
    BY <1>4, <2>1, <2>2
<1>8. CASE UNCHANGED call
  BY <1>1, <1>8 DEF Commitless, Writing
<1>9. CASE \A x \in Workers : Kept(x)
  BY <1>1, <1>9 DEF Commitless
<1>10. ASSUME NEW w \in Workers, StoreStep(w) \/ EndStore(w) \/ StoreFault(w) PROVE Commitless
  <2> HIDE DEF Kept
  <2>1. CASE EndStore(w) \/ Die(w)
    BY <2>1, <1>6, <1>9 DEF EndStore, Die
  <2>2. QED
    BY <1>10, <1>2, <1>5, <1>7, <1>9, <2>1 DEF StoreStep, StoreFault
<1>11. QED
  <2> HIDE DEF Kept
  <2>1. ASSUME NEW d \in Devices, DeleteDevice(d) PROVE Commitless
    BY <1>8, <2>1 DEF DeleteDevice
  <2>2. ASSUME NEW r \in Roots, ChangeDirectory(r) PROVE Commitless
    BY <1>8, <2>2 DEF ChangeDirectory
  <2>3. QED
    BY <1>3, <1>9, <1>10, <2>1, <2>2 DEF StoreNext

LEMMA LinearStep ==
  StoreInv /\ LinearInv /\ [MCNext]_<<storeVars, historyVars>> => LinearInv'
<1> SUFFICES ASSUME StoreInv, LinearInv, [MCNext]_<<storeVars, historyVars>> PROVE LinearInv'
  OBVIOUS
<1>1. CASE MCNext
  <2>1. StoreNext /\ Remember
    BY <1>1 DEF MCNext, StoreNext, StoreStep, StoreFault
  <2>2. CASE \E w \in Workers : Commit(w) /\ versions' # versions
    BY <2>1, <2>2, CommitLinear
  <2>3. CASE ~ \E w \in Workers : Commit(w) /\ versions' # versions
    BY <2>1, <2>3, OthersCommitless, CommitlessLinear
  <2>4. QED
    BY <2>2, <2>3
<1>2. CASE UNCHANGED <<storeVars, historyVars>>
  BY <1>2 DEF storeVars, historyVars, LinearInv, LinearUnlessRaced, Writing, NothingSince
<1>3. QED
  BY <1>1, <1>2

\* "Create a version only if changed": but for calls that another commit overtook,
\* each version of a device follows the one before it and differs from it, for any
\* number of threads, devices and directories, with deletions and with every fault.
THEOREM AlwaysLinearUnlessRaced == MCSpec => []LinearUnlessRaced
<1>1. MCInit => LinearInv
  BY DEF MCInit, StoreInit, LinearInv, LinearUnlessRaced, Writing, Idle
<1>2. LinearInv => LinearUnlessRaced
  BY DEF LinearInv
<1>3. QED
  BY <1>1, <1>2, LinearStep, WatchedStore, StoreConsistent, PTL DEF MCSpec
=============================================================================
