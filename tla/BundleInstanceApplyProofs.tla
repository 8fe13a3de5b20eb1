--------------------- MODULE BundleInstanceApplyProofs ---------------------
(***************************************************************************)
(* Proofs about the end of a pass: the watch loop reports success only     *)
(* once every applied kind is watched.                                     *)
(***************************************************************************)
EXTENDS BundleInstanceReconcilerProofs

USE ConstantsAssumption

LoopPCs == {"Watch", "WatchStart"}

-----------------------------------------------------------------------------
(***************************************************************************)
(* Watches before success.  The action property needs, at the end of the   *)
(* loop, that every kind of desiredObjects is watched: WatchedSoFar says   *)
(* so of the kinds visited, and it is inductive because dynamicWatchGVKs   *)
(* only grows until a restart, which ends every pass.                      *)
(***************************************************************************)

\* In the watch loop, every kind the pass has visited is watched, however
\* the passes of other instances and the environment interleave.
THEOREM WatchedSoFarInvariant == Spec => []WatchedSoFar
<1>1. Init => WatchedSoFar
  BY DEF Init, WatchedSoFar
<1>2. TypeInv /\ WatchedSoFar /\ [Next]_vars => WatchedSoFar'
  <2> SUFFICES ASSUME TypeInv, WatchedSoFar, [Next]_vars PROVE WatchedSoFar'
    OBVIOUS
  <2> USE DEF envVars, storeVars, watchVars, passVars
  \* A step of pass i that keeps the other passes and does not shrink the
  \* map keeps WatchedSoFar if pass i satisfies it afterwards.
  <2>1. ASSUME NEW i \in Instances,
               \A j \in Instances \ {i} :
                  pc'[j] = pc[j] /\ desired'[j] = desired[j] /\ todo'[j] = todo[j],
               watchGVKs \subseteq watchGVKs',
               pc'[i] \in LoopPCs => desired'[i] \ todo'[i] \subseteq watchGVKs'
        PROVE  WatchedSoFar'
    BY <2>1 DEF WatchedSoFar, LoopPCs
  \* Pass i leaves or stays out of the loop.
  <2>2. ASSUME NEW i \in Instances, pc'[i] \notin LoopPCs,
               \A j \in Instances \ {i} :
                  pc'[j] = pc[j] /\ desired'[j] = desired[j] /\ todo'[j] = todo[j],
               watchGVKs \subseteq watchGVKs'
        PROVE  WatchedSoFar'
    BY <2>1, <2>2
  \* The frame of a step of pass i, in the form <2>1 and <2>2 take.
  <2>0. ASSUME NEW i \in Instances,
               pc' = [pc EXCEPT ![i] = pc'[i]],
               desired' = [desired EXCEPT ![i] = desired'[i]],
               todo' = [todo EXCEPT ![i] = todo'[i]]
        PROVE  \A j \in Instances \ {i} :
                  pc'[j] = pc[j] /\ desired'[j] = desired[j] /\ todo'[j] = todo[j]
    BY <2>0 DEF TypeInv, TypeOK
  <2>3. ASSUME NEW i \in Instances, Start(i) PROVE WatchedSoFar'
    <3>1. /\ pc' = [pc EXCEPT ![i] = pc'[i]] /\ pc'[i] \in {"Idle", "Patch", "LoadBundle"}
          /\ UNCHANGED <<desired, todo, watchGVKs>>
      BY <2>3 DEF Start, Return, TypeInv, TypeOK
    <3>2. QED
      BY <2>0, <2>2, <3>1 DEF LoopPCs, TypeInv, TypeOK
  <2>4. ASSUME NEW i \in Instances, LoadBundle(i) PROVE WatchedSoFar'
    <3>1. /\ pc' = [pc EXCEPT ![i] = pc'[i]] /\ pc'[i] \in {"Patch", "Apply"}
          /\ desired' = [desired EXCEPT ![i] = desired'[i]]
          /\ UNCHANGED <<todo, watchGVKs>>
      BY <2>4 DEF LoadBundle, Return, TypeInv, TypeOK
    <3>2. QED
      BY <2>0, <2>2, <3>1 DEF LoopPCs, TypeInv, TypeOK
  \* The apply succeeded: the loop starts with every kind still to visit.
  <2>5. ASSUME NEW i \in Instances, ApplyOk(i), UNCHANGED <<desired, watchGVKs>>
        PROVE  WatchedSoFar'
    <3>1. /\ \A j \in Instances \ {i} : pc'[j] = pc[j] /\ todo'[j] = todo[j]
          /\ todo'[i] = desired[i]
      BY <2>5 DEF ApplyOk, TypeInv, TypeOK
    <3>2. QED
      BY <2>1, <2>5, <3>1
  <2>6. ASSUME NEW i \in Instances, NEW r, ApplyFail(i, r),
               UNCHANGED <<desired, watchGVKs>>
        PROVE  WatchedSoFar'
    <3>1. pc' = [pc EXCEPT ![i] = "Patch"] /\ UNCHANGED todo
      BY <2>6 DEF ApplyFail, Return
    <3>2. \A j \in Instances \ {i} :
             pc'[j] = pc[j] /\ desired'[j] = desired[j] /\ todo'[j] = todo[j]
      BY <2>6, <3>1 DEF TypeInv, TypeOK
    <3>3. pc'[i] \notin LoopPCs
      BY <3>1 DEF LoopPCs, TypeInv, TypeOK
    <3>4. QED
      BY <2>2, <2>6, <3>2, <3>3
  <2>7. ASSUME NEW i \in Instances, Apply(i) PROVE WatchedSoFar'
    <3>1. UNCHANGED <<desired, watchGVKs>>
      BY <2>7 DEF Apply
    <3>2. CASE pc' = [pc EXCEPT ![i] = "Applying"] /\ UNCHANGED todo
      <4>1. \A j \in Instances \ {i} :
               pc'[j] = pc[j] /\ desired'[j] = desired[j] /\ todo'[j] = todo[j]
        BY <3>1, <3>2 DEF TypeInv, TypeOK
      <4>2. pc'[i] \notin LoopPCs
        BY <3>2 DEF LoopPCs, TypeInv, TypeOK
      <4>3. QED
        BY <2>2, <3>1, <3>2, <4>1, <4>2
    <3>3. QED
      BY <2>5, <2>6, <2>7, <3>1, <3>2 DEF Apply
  <2>8. ASSUME NEW i \in Instances, ApplyDone(i) PROVE WatchedSoFar'
    BY <2>5, <2>6, <2>8 DEF ApplyDone
  <2>9. ASSUME NEW i \in Instances, Watch(i) PROVE WatchedSoFar'
    <3>1. pc[i] = "Watch" /\ UNCHANGED <<desired, watchGVKs>>
      BY <2>9 DEF Watch
    <3>2. CASE pc' = [pc EXCEPT ![i] = "Patch"] /\ UNCHANGED todo
      <4>1. \A j \in Instances \ {i} :
               pc'[j] = pc[j] /\ desired'[j] = desired[j] /\ todo'[j] = todo[j]
        BY <3>1, <3>2 DEF TypeInv, TypeOK
      <4>2. pc'[i] \notin LoopPCs
        BY <3>2 DEF LoopPCs, TypeInv, TypeOK
      <4>3. QED
        BY <2>2, <3>1, <3>2, <4>1, <4>2
    \* A kind found watched is dropped from the kinds to visit.
    <3>3. ASSUME NEW k \in todo[i], k \in watchGVKs,
                 todo' = [todo EXCEPT ![i] = @ \ {k}], UNCHANGED pc
          PROVE  WatchedSoFar'
      <4>1. desired[i] \ todo'[i] \subseteq watchGVKs
        BY <3>1, <3>3 DEF WatchedSoFar, TypeInv, TypeOK
      <4>2. QED
        BY <2>1, <3>1, <3>3, <4>1 DEF TypeInv, TypeOK
    \* A kind found unwatched: the pass goes on to start its watch.
    <3>4. CASE pc' = [pc EXCEPT ![i] = "WatchStart"] /\ UNCHANGED todo
      <4>1. desired[i] \ todo[i] \subseteq watchGVKs
        BY <3>1 DEF WatchedSoFar
      <4>2. QED
        BY <2>1, <3>1, <3>4, <4>1 DEF TypeInv, TypeOK
    <3>5. QED
      BY <2>9, <3>2, <3>3, <3>4 DEF Watch, Return, SetCond
  <2>10. ASSUME NEW i \in Instances, WatchStart(i) PROVE WatchedSoFar'
    <3> DEFINE k == cur[i]
    <3>1. pc[i] = "WatchStart" /\ UNCHANGED desired
      BY <2>10 DEF WatchStart
    <3>2. CASE pc' = [pc EXCEPT ![i] = "Patch"] /\ UNCHANGED <<watchGVKs, todo>>
      <4>1. \A j \in Instances \ {i} :
               pc'[j] = pc[j] /\ desired'[j] = desired[j] /\ todo'[j] = todo[j]
        BY <3>1, <3>2 DEF TypeInv, TypeOK
      <4>2. pc'[i] \notin LoopPCs
        BY <3>2 DEF LoopPCs, TypeInv, TypeOK
      <4>3. QED
        BY <2>2, <3>1, <3>2, <4>1, <4>2
    \* The watch started: k is in the map and no longer to visit.
    <3>3. CASE /\ watchGVKs' = watchGVKs \cup {k}
               /\ todo' = [todo EXCEPT ![i] = @ \ {k}]
               /\ pc' = [pc EXCEPT ![i] = "Watch"]
      <4>1. desired[i] \ todo[i] \subseteq watchGVKs
        BY <3>1 DEF WatchedSoFar
      <4>2. desired[i] \ todo'[i] \subseteq watchGVKs'
        BY <3>3, <4>1 DEF TypeInv, TypeOK
      <4>3. QED
        BY <2>1, <3>1, <3>3, <4>2 DEF TypeInv, TypeOK
    <3>4. QED
      BY <2>10, <3>2, <3>3 DEF WatchStart, Return
  <2>11. ASSUME NEW i \in Instances, Patch(i) PROVE WatchedSoFar'
    <3>1. /\ pc' = [pc EXCEPT ![i] = "Idle"]
          /\ desired' = [desired EXCEPT ![i] = {}]
          /\ todo' = [todo EXCEPT ![i] = {}]
          /\ UNCHANGED watchGVKs
      BY <2>11 DEF Patch
    <3>2. QED
      BY <2>0, <2>2, <3>1 DEF LoopPCs, TypeInv, TypeOK
  <2>12. CASE Restart
    BY <2>12 DEF Restart, WatchedSoFar
  \* The rest of the environment leaves the passes and the map alone.
  <2>13. CASE UNCHANGED <<pc, desired, todo, watchGVKs>>
    BY <2>13 DEF WatchedSoFar
  <2>14. QED
    BY <2>3, <2>4, <2>7, <2>8, <2>9, <2>10, <2>11, <2>12, <2>13
       DEF Next, Reconcile, Environment, BundleChange, BundleRecreate, UpdateSpec, Drift,
           Resync, vars
<1>3. QED
  BY <1>1, <1>2, TypeCorrect, PTL DEF Spec

\* A pass reports Installed=True and installedBundleName only once an
\* informer runs for every kind of the objects it applied (spec 4.6), for
\* every number of instances, kinds and workers.
THEOREM InstalledOnlyWatchedHolds == Spec => InstalledOnlyWatched
<1> DEFINE A == \A i \in Instances :
                  (pc[i] = "Watch" /\ pc'[i] = "Patch" /\ ~retErr'[i])
                     => desired[i] \subseteq watchGVKs
<1>1. TypeInv /\ WatchedSoFar /\ [Next]_vars => [A]_vars
  <2> SUFFICES ASSUME TypeInv, WatchedSoFar, [Next]_vars, NEW i \in Instances,
                      pc[i] = "Watch", pc'[i] = "Patch", ~retErr'[i]
               PROVE  desired[i] \subseteq watchGVKs
    BY DEF A
  <2> USE DEF passVars
  <2>0. pc \in [Instances -> PCs]
    BY DEF TypeInv, TypeOK
  \* A step of another pass, or of pass i elsewhere than at the loop head,
  \* does not move pass i from "Watch" to "Patch".
  <2>1. ASSUME NEW j \in Instances, pc' = [pc EXCEPT ![j] = pc'[j]],
               j # i \/ pc[j] # "Watch"
        PROVE  FALSE
    BY <2>0, <2>1
  <2>2. ASSUME NEW j \in Instances, Watch(j) PROVE desired[i] \subseteq watchGVKs
    <3>1. pc' = [pc EXCEPT ![j] = pc'[j]] /\ pc[j] = "Watch"
      BY <2>0, <2>2 DEF Watch, Return
    <3>2. j = i
      BY <2>1, <3>1
    \* Only the end of the loop returns without error.
    <3>3. todo[i] = {}
      BY <2>0, <2>2, <3>2 DEF Watch, Return, TypeInv, TypeOK
    <3>4. QED
      BY <3>3 DEF WatchedSoFar
  <2>3. ASSUME NEW j \in Instances,
               Start(j) \/ LoadBundle(j) \/ Apply(j) \/ ApplyDone(j)
                 \/ WatchStart(j) \/ Patch(j)
        PROVE  FALSE
    <3>1. pc[j] # "Watch"
      BY <2>3 DEF Start, LoadBundle, Apply, ApplyDone, WatchStart, Patch
    <3>2. pc' = [pc EXCEPT ![j] = pc'[j]]
      BY <2>0, <2>3 DEF Start, LoadBundle, Apply, ApplyDone, ApplyOk,
                        ApplyFail, Return, WatchStart, Patch
    <3>3. QED
      BY <2>1, <3>1, <3>2
  <2>4. CASE Environment
    BY <2>4 DEF Environment, BundleChange, BundleRecreate, UpdateSpec, Drift, Resync, Restart
  <2>5. CASE UNCHANGED vars
    BY <2>5 DEF vars
  <2>6. QED
    BY <2>2, <2>3, <2>4, <2>5 DEF Next, Reconcile
<1>2. QED
  BY <1>1, TypeCorrect, WatchedSoFarInvariant, PTL DEF InstalledOnlyWatched, Spec, A

=============================================================================
