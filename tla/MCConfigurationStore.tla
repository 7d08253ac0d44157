------------------------ MODULE MCConfigurationStore ------------------------
(***************************************************************************)
(* Instances of ConfigurationStore for TLC, with two history variables     *)
(* that tell the versions of calls which were overtaken from the others.   *)
(* The sets permuted hold only model values that no definition tells       *)
(* apart.                                                                  *)
(***************************************************************************)
EXTENDS ConfigurationStore, TLC

VARIABLES
  overtaken,  \* calls that compared before another call's commit for their device
  raced       \* ids of the versions such calls committed

historyVars == <<overtaken, raced>>

MCInit == StoreInit /\ overtaken = {} /\ raced = {}

\* the versions a step commits
NewVersions == {v \in versions' : ~RowExists(v.id)}

Remember ==
  /\ overtaken' = {w \in Workers :
       /\ call'[w].pc \notin {"idle", "compare"}
       /\ \/ w \in overtaken
          \/ \E v \in NewVersions :
               /\ v.device = call[w].device
               /\ call[w].pc \notin {"idle", "compare"}
               /\ ~(call[w].pc = "commit" /\ v.id = call[w].id)}
  /\ raced' = raced \cup {call[w].id : w \in {x \in overtaken : call[x].pc = "commit" /\ call'[x].pc = "refresh"}}

MCNext ==
  \/ \E w \in Workers :
       \/ \E d \in Devices, name \in Names, c \in Configs : BeginStore(w, d, name, c) /\ Remember
       \/ Compare(w) /\ Remember
       \/ Probe(w) /\ Remember
       \/ Rematerialise(w) /\ Remember
       \/ Repoint(w) /\ Remember
       \/ Put(w) /\ Remember
       \/ Commit(w) /\ Remember
       \/ Refresh(w) /\ Remember
       \/ EndStore(w) /\ Remember
       \/ WriteFails(w) /\ Remember
       \/ CommitFails(w) /\ Remember
       \/ Die(w) /\ Remember
  \/ \E d \in Devices : DeleteDevice(d) /\ Remember
  \/ \E r \in Roots : ChangeDirectory(r) /\ Remember

MCSpec == MCInit /\ [][MCNext]_<<storeVars, historyVars>>

\* "Collect, store, and create a version only if changed": among the versions of
\* calls that no other commit overtook, the parent is the version before, so the
\* history of the device is one chain and no version repeats the one before it.
LinearUnlessRaced ==
  \A v, u \in versions :
    (u.device = v.device /\ u.id < v.id /\ {u.id, v.id} \cap raced = {}) =>
       u.id <= v.parent /\ (u.id = v.parent => u.sha # v.sha)

\* bound on the files explored: two versions, and one of them written a second time
FewFiles == Cardinality(artifacts) <= 3

Symmetry ==
  Permutations(Workers) \cup Permutations(Configs) \cup Permutations(Names)
  \cup Permutations(Devices) \cup Permutations(Roots)
=============================================================================
