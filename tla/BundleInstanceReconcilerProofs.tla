------------------- MODULE BundleInstanceReconcilerProofs -------------------
(***************************************************************************)
(* Proofs about the BundleInstance controller, for every value of the      *)
(* constants that satisfies ConstantsAssumption.                           *)
(***************************************************************************)
EXTENDS BundleInstanceReconciler, TLAPS

USE ConstantsAssumption

\* The records of a condition, a stored status, a release.
LEMMA CondTyped ==
    ASSUME NEW s \in CondStatuses, NEW r \in Reasons
    PROVE  [status |-> s, reason |-> r] \in Condition
  BY DEF Condition

LEMMA UnpackReasonTyped ==
    ASSUME NEW p \in Phases
    PROVE  UnpackReason(p) \in Reasons
  BY DEF UnpackReason, Phases, Reasons, PhasePending, PhaseUnpacking,
         PhaseFailing, PhaseUnpacked

LEMMA NextReleaseTyped ==
    ASSUME NEW r \in Release \cup {None}, NEW s \in ReleaseStatuses,
           NEW d \in SUBSET Kinds
    PROVE  NextRelease(r, s, d) \in Release
  BY DEF NextRelease, Release

\* A condition set on a typed working copy keeps it typed.
LEMMA SetCondTyped ==
    ASSUME NEW c \in BICopy, NEW t \in CondTypes,
           NEW s \in CondStatuses, NEW r \in Reasons
    PROVE  [c EXCEPT !.conds[t] = [status |-> s, reason |-> r]] \in BICopy
  BY CondTyped DEF BICopy

\* A step that runs meta.SetStatusCondition on the copy of pass i keeps
\* the copies typed and leaves the other passes' copies alone.
LEMMA SetCondStep ==
    ASSUME NEW i \in Instances, NEW t \in CondTypes, NEW s \in CondStatuses,
           NEW r \in Reasons,
           bi \in [Instances -> BICopy \cup {None}], bi[i] \in BICopy,
           SetCond(i, t, s, r)
    PROVE  /\ bi' \in [Instances -> BICopy \cup {None}]
           /\ bi'[i] \in BICopy
           /\ \A j \in Instances \ {i} : bi'[j] = bi[j]
           /\ bi'[i].spec = bi[i].spec /\ bi'[i].installed = bi[i].installed
  <1> DEFINE c == [bi[i] EXCEPT !.conds[t] = [status |-> s, reason |-> r]]
  <1>1. bi' = [bi EXCEPT ![i] = c]
    BY DEF SetCond
  <1>2. c \in BICopy
    BY SetCondTyped
  <1>3. QED
    BY <1>1, <1>2

-----------------------------------------------------------------------------
(***************************************************************************)
(* Type correctness.  TypeOK alone is not inductive: a step reads the      *)
(* working copy, phase1 and cur of its pass, so TypeInv adds PassTyped.    *)
(***************************************************************************)

\* Type correctness of every reachable state.
THEOREM TypeCorrect == Spec => []TypeInv
<1>1. Init => TypeInv
  BY DEF Init, TypeInv, TypeOK, PassTyped, BIStatus, NoConds, PCs, Phases,
         PhasePending
<1>2. TypeInv /\ [Next]_vars => TypeInv'
  <2> SUFFICES ASSUME TypeInv, [Next]_vars PROVE TypeInv'
    OBVIOUS
  <2> USE DEF TypeInv, TypeOK, PassTyped, envVars, storeVars, watchVars, passVars
  \* The two ends of the apply phase, shared by Apply and ApplyDone.
  <2>1. ASSUME NEW i \in Instances, NEW reason \in Reasons, bi[i] \in BICopy,
               ApplyFail(i, reason), faults' \in Nat,
               rel' \in [Instances -> Release \cup {None}],
               \A j \in Instances \ {i} : rel'[j] = rel[j],
               UNCHANGED <<envVars, biStatus, watchVars, queue, phase1, desired,
                           cur, restarts>>
        PROVE  TypeInv'
    <3>1. /\ bi' \in [Instances -> BICopy \cup {None}]
          /\ bi'[i] \in BICopy
          /\ \A j \in Instances \ {i} : bi'[j] = bi[j]
      BY <2>1, SetCondStep DEF ApplyFail, CondTypes, CondStatuses
    <3>2. /\ pc' = [pc EXCEPT ![i] = "Patch"]
          /\ retErr' = [retErr EXCEPT ![i] = TRUE]
          /\ UNCHANGED <<drift, applied, todo>>
      BY <2>1 DEF ApplyFail, Return
    <3>3. TypeOK'
      BY <2>1, <3>1, <3>2 DEF PCs
    <3>4. PassTyped'
      BY <2>1, <3>1, <3>2
    <3>5. QED
      BY <3>3, <3>4
  <2>2. ASSUME NEW i \in Instances, bi[i] \in BICopy, ApplyOk(i), faults' \in Nat,
               rel' \in [Instances -> Release \cup {None}],
               \A j \in Instances \ {i} : rel'[j] = rel[j],
               UNCHANGED <<envVars, biStatus, watchVars, queue, phase1, desired,
                           cur, restarts>>
        PROVE  TypeInv'
    <3>1. /\ pc' = [pc EXCEPT ![i] = "Watch"]
          /\ todo' = [todo EXCEPT ![i] = desired[i]]
          /\ drift' = [drift EXCEPT ![i] = {}]
          /\ applied' = [applied EXCEPT ![i] = @ \cup {bi[i].spec}]
          /\ UNCHANGED <<bi, retErr>>
      BY <2>2 DEF ApplyOk
    <3>2. bi[i].spec \in Bundles
      BY <2>2 DEF BICopy
    <3>3. TypeOK'
      BY <2>2, <3>1, <3>2 DEF PCs
    <3>4. PassTyped'
      BY <2>2, <3>1
    <3>5. QED
      BY <3>3, <3>4
  <2>3. ASSUME NEW i \in Instances, Start(i) PROVE TypeInv'
    <3> DEFINE b == biSpec[i]
               copy == [spec |-> b, gen |-> biGen[i], conds |-> biStatus[i].conds,
                        installed |-> biStatus[i].installed]
               lookupFailed(s) ==
                 [copy EXCEPT !.conds["HasValidBundle"] =
                    [status |-> s, reason |-> "BundleLookupFailed"]]
    <3>1. copy \in BICopy
      BY DEF BICopy, BIStatus
    <3>2. lookupFailed("False") \in BICopy /\ lookupFailed("Unknown") \in BICopy
      BY <3>1, SetCondTyped DEF CondTypes, CondStatuses, Reasons
    <3>3. /\ pc[i] = "Idle"
          /\ UNCHANGED <<envVars, storeVars, watchVars, desired, todo, cur,
                         restarts>>
      BY <2>3 DEF Start
    <3>4. CASE Fault /\ UNCHANGED <<queue, passVars>>
      BY <3>3, <3>4 DEF Fault
    <3>5. CASE /\ queue' = queue \ {i}
               /\ bundlePhase[b] = Absent
               /\ bi' = [bi EXCEPT ![i] = lookupFailed("False")]
               /\ Return(i, FALSE)
               /\ UNCHANGED <<faults, phase1>>
      BY <3>2, <3>3, <3>5 DEF Return, PCs
    <3>6. CASE /\ queue' = queue \ {i}
               /\ Fault
               /\ bi' = [bi EXCEPT ![i] = lookupFailed("Unknown")]
               /\ Return(i, TRUE)
               /\ UNCHANGED phase1
      <4>1. /\ pc' = [pc EXCEPT ![i] = "Patch"]
            /\ retErr' = [retErr EXCEPT ![i] = TRUE]
            /\ faults' = faults + 1
        BY <3>6 DEF Fault, Return
      <4>2. TypeOK'
        BY <3>2, <3>3, <3>6, <4>1 DEF PCs
      <4>3. PassTyped'
        BY <3>2, <3>3, <3>6, <4>1
      <4>4. QED
        BY <4>2, <4>3
    <3>7. CASE /\ queue' = queue \ {i}
               /\ bundlePhase[b] # Absent
               /\ bi' = [bi EXCEPT ![i] = copy]
               /\ phase1' = [phase1 EXCEPT ![i] = bundlePhase[b]]
               /\ pc' = [pc EXCEPT ![i] = "LoadBundle"]
               /\ UNCHANGED <<retErr, faults>>
      <4>1. bundlePhase[b] \in Phases
        BY <3>7
      <4>2. QED
        BY <3>1, <3>3, <3>7, <4>1 DEF PCs
    <3>8. QED
      BY <2>3, <3>4, <3>5, <3>6, <3>7 DEF Start
  <2>4. ASSUME NEW i \in Instances, LoadBundle(i) PROVE TypeInv'
    <3> DEFINE b == bi[i].spec
    <3>1. /\ bi[i] \in BICopy /\ phase1[i] \in Phases
          /\ UNCHANGED <<envVars, storeVars, watchVars, queue, phase1, todo,
                         cur, restarts>>
      BY <2>4 DEF LoadBundle
    <3>2. UnpackReason(phase1[i]) \in Reasons
      BY <3>1, UnpackReasonTyped
    \* The three returns: a condition set on the copy, then the patch.
    <3>3. ASSUME NEW t \in CondTypes, NEW s \in CondStatuses, NEW r \in Reasons,
                 NEW err \in BOOLEAN,
                 SetCond(i, t, s, r), Return(i, err), UNCHANGED desired,
                 faults' \in Nat
          PROVE  TypeInv'
      <4>1. /\ bi' \in [Instances -> BICopy \cup {None}]
            /\ bi'[i] \in BICopy
            /\ \A j \in Instances \ {i} : bi'[j] = bi[j]
        BY <3>1, <3>3, SetCondStep
      <4>2. /\ pc' = [pc EXCEPT ![i] = "Patch"]
            /\ retErr' = [retErr EXCEPT ![i] = err]
        BY <3>3 DEF Return
      <4>3. TypeOK'
        BY <3>1, <3>3, <4>1, <4>2 DEF PCs
      <4>4. PassTyped'
        BY <3>1, <4>1, <4>2
      <4>5. QED
        BY <4>3, <4>4
    <3>4. CASE /\ \/ LoadBundleResult(b) = "NotFound" /\ UNCHANGED faults
                  \/ Fault
               /\ SetCond(i, "HasValidBundle", "False", "BundleLoadFailed")
               /\ Return(i, TRUE)
               /\ UNCHANGED desired
      <4>1. faults' \in Nat
        BY <3>4 DEF Fault
      <4>2. QED
        BY <3>3, <3>4, <4>1 DEF CondTypes, CondStatuses, Reasons
    <3>5. CASE /\ LoadBundleResult(b) = "NotUnpacked"
               /\ SetCond(i, "Installed", "False", UnpackReason(phase1[i]))
               /\ Return(i, FALSE)
               /\ UNCHANGED <<desired, faults>>
      BY <3>2, <3>3, <3>5 DEF CondTypes, CondStatuses
    <3>6. CASE /\ LoadBundleResult(b) = "Loaded" /\ b \in Unmarshalable
               /\ SetCond(i, "InvalidBundleContent", "True", "ReadingContentFailed")
               /\ Return(i, TRUE)
               /\ UNCHANGED <<desired, faults>>
      BY <3>3, <3>6 DEF CondTypes, CondStatuses, Reasons
    <3>7. CASE /\ LoadBundleResult(b) = "Loaded" /\ b \notin Unmarshalable
               /\ desired' = [desired EXCEPT ![i] = BundleContent[b]]
               /\ pc' = [pc EXCEPT ![i] = "Apply"]
               /\ UNCHANGED <<bi, retErr, faults>>
      <4>1. BundleContent[b] \subseteq Kinds
        BY <3>1 DEF BICopy
      <4>2. QED
        BY <3>1, <3>7, <4>1 DEF PCs
    <3>8. QED
      BY <2>4, <3>4, <3>5, <3>6, <3>7 DEF LoadBundle
  <2>5. ASSUME NEW i \in Instances, Apply(i) PROVE TypeInv'
    <3> DEFINE d == desired[i]
               st == ReleaseStateOf(rel[i], d)
    <3>1. /\ bi[i] \in BICopy
          /\ UNCHANGED <<envVars, biStatus, watchVars, queue, phase1, desired,
                         cur, restarts>>
      BY <2>5 DEF Apply
    <3>2. ASSUME NEW reason \in Reasons, ApplyFail(i, reason), faults' \in Nat,
                 UNCHANGED rel
          PROVE  TypeInv'
      BY <3>1, <3>2, <2>1
    <3>3. CASE Fault /\ ApplyFail(i, "ErrorGettingClient") /\ UNCHANGED rel
      <4>1. "ErrorGettingClient" \in Reasons /\ faults' \in Nat
        BY <3>3 DEF Reasons, Fault
      <4>2. QED
        BY <3>2, <3>3, <4>1
    <3>4. CASE Fault /\ ApplyFail(i, "ErrorGettingReleaseState") /\ UNCHANGED rel
      <4>1. "ErrorGettingReleaseState" \in Reasons /\ faults' \in Nat
        BY <3>4 DEF Reasons, Fault
      <4>2. QED
        BY <3>2, <3>4, <4>1
    <3>5. CASE /\ st = "Error"
               /\ ApplyFail(i, "ErrorGettingReleaseState")
               /\ UNCHANGED <<rel, faults>>
      <4>1. "ErrorGettingReleaseState" \in Reasons /\ faults' \in Nat
        BY <3>5 DEF Reasons
      <4>2. QED
        BY <3>2, <3>5, <4>1
    <3>6. CASE Fault /\ ApplyFail(i, FailedReason(st)) /\ UNCHANGED rel
      <4>1. FailedReason(st) \in Reasons /\ faults' \in Nat
        BY <3>6 DEF FailedReason, Reasons, Fault
      <4>2. QED
        BY <3>2, <3>6, <4>1
    <3>7. CASE /\ rel' = [rel EXCEPT ![i] = NextRelease(rel[i], PendingStatus(st), d)]
               /\ pc' = [pc EXCEPT ![i] = "Applying"]
               /\ UNCHANGED <<bi, retErr, faults, drift, applied, todo>>
      <4>1. PendingStatus(st) \in ReleaseStatuses
        BY DEF PendingStatus, ReleaseStatuses, PendingStatuses
      <4>2. NextRelease(rel[i], PendingStatus(st), d) \in Release
        BY <4>1, NextReleaseTyped
      <4>3. QED
        BY <3>1, <3>7, <4>2 DEF PCs
    <3>8. CASE ApplyOk(i) /\ UNCHANGED <<faults, rel>>
      BY <3>1, <3>8, <2>2
    <3>9. CASE Fault /\ ApplyFail(i, "ReconcileFailed") /\ UNCHANGED rel
      <4>1. "ReconcileFailed" \in Reasons /\ faults' \in Nat
        BY <3>9 DEF Reasons, Fault
      <4>2. QED
        BY <3>2, <3>9, <4>1
    <3>10. QED
      BY <2>5, <3>3, <3>4, <3>5, <3>6, <3>7, <3>8, <3>9 DEF Apply
  <2>6. ASSUME NEW i \in Instances, ApplyDone(i) PROVE TypeInv'
    <3>1. /\ pc[i] = "Applying" /\ bi[i] \in BICopy /\ rel[i] \in Release
          /\ UNCHANGED <<envVars, biStatus, watchVars, queue, phase1, desired,
                         cur, restarts>>
      BY <2>6 DEF ApplyDone
    <3>2. ASSUME NEW s \in ReleaseStatuses
          PROVE  /\ [rel EXCEPT ![i].status = s] \in [Instances -> Release \cup {None}]
                 /\ \A j \in Instances \ {i} : [rel EXCEPT ![i].status = s][j] = rel[j]
      BY <3>1 DEF Release
    <3>3. CASE ApplyOk(i) /\ UNCHANGED faults
               /\ rel' = [rel EXCEPT ![i].status = "deployed"]
      <4>1. "deployed" \in ReleaseStatuses
        BY DEF ReleaseStatuses
      <4>2. QED
        BY <3>1, <3>3, <4>1, <3>2, <2>2
    <3>4. CASE Fault
               /\ ApplyFail(i, IF rel[i].status = "pending-install"
                               THEN "InstallFailed" ELSE "UpgradeFailed")
               /\ rel' = [rel EXCEPT ![i].status = "failed"]
      <4>1. /\ (IF rel[i].status = "pending-install"
                THEN "InstallFailed" ELSE "UpgradeFailed") \in Reasons
            /\ faults' \in Nat /\ "failed" \in ReleaseStatuses
        BY <3>4 DEF Reasons, Fault, ReleaseStatuses
      <4>2. QED
        BY <3>1, <3>4, <4>1, <3>2, <2>1
    <3>5. QED
      BY <2>6, <3>3, <3>4 DEF ApplyDone
  <2>7. ASSUME NEW i \in Instances, Watch(i) PROVE TypeInv'
    <3> DEFINE done == [bi[i] EXCEPT !.conds["Installed"] =
                          [status |-> "True", reason |-> "InstallationSucceeded"],
                                     !.installed = bi[i].spec]
    <3>1. /\ bi[i] \in BICopy
          /\ UNCHANGED <<envVars, storeVars, watchGVKs, subs, queue, phase1,
                         desired, restarts>>
      BY <2>7 DEF Watch
    <3>2. done \in BICopy
      BY <3>1, CondTyped DEF BICopy, CondTypes, CondStatuses, Reasons
    <3>3. CASE /\ bi' = [bi EXCEPT ![i].conds["Installed"] =
                          [status |-> "True", reason |-> "InstallationSucceeded"],
                                ![i].installed = bi[i].spec]
               /\ Return(i, FALSE)
               /\ UNCHANGED <<lockHolder, cur, todo, faults>>
      <4>1. /\ bi' = [bi EXCEPT ![i] = done]
            /\ pc' = [pc EXCEPT ![i] = "Patch"]
            /\ retErr' = [retErr EXCEPT ![i] = FALSE]
        BY <3>3 DEF Return
      <4>2. QED
        BY <3>1, <3>2, <3>3, <4>1 DEF PCs
    <3>4. CASE /\ Fault
               /\ SetCond(i, "Installed", "False", "CreateDynamicWatchFailed")
               /\ Return(i, TRUE)
               /\ UNCHANGED <<lockHolder, cur, todo>>
      <4>1. /\ bi' \in [Instances -> BICopy \cup {None}]
            /\ bi'[i] \in BICopy
            /\ \A j \in Instances \ {i} : bi'[j] = bi[j]
        BY <3>1, <3>4, SetCondStep DEF CondTypes, CondStatuses, Reasons
      <4>2. /\ pc' = [pc EXCEPT ![i] = "Patch"]
            /\ retErr' = [retErr EXCEPT ![i] = TRUE]
            /\ faults' = faults + 1
        BY <3>4 DEF Fault, Return
      <4>3. TypeOK'
        BY <3>1, <3>4, <4>1, <4>2 DEF PCs
      <4>4. PassTyped'
        BY <3>1, <3>4, <4>1, <4>2
      <4>5. QED
        BY <4>3, <4>4
    <3>5. CASE /\ lockHolder = None
               /\ \E k \in todo[i] :
                     \/ /\ todo' = [todo EXCEPT ![i] = @ \ {k}]
                        /\ UNCHANGED <<pc, lockHolder, cur>>
                     \/ /\ cur' = [cur EXCEPT ![i] = k]
                        /\ lockHolder' = i
                        /\ pc' = [pc EXCEPT ![i] = "WatchStart"]
                        /\ UNCHANGED todo
               /\ UNCHANGED <<bi, retErr, faults>>
      <4>1. PICK k \in todo[i] :
                     \/ /\ todo' = [todo EXCEPT ![i] = @ \ {k}]
                        /\ UNCHANGED <<pc, lockHolder, cur>>
                     \/ /\ cur' = [cur EXCEPT ![i] = k]
                        /\ lockHolder' = i
                        /\ pc' = [pc EXCEPT ![i] = "WatchStart"]
                        /\ UNCHANGED todo
        BY <3>5
      <4>2. k \in Kinds
        OBVIOUS
      <4>3. QED
        BY <3>1, <3>5, <4>1, <4>2 DEF PCs
    <3>6. QED
      BY <2>7, <3>3, <3>4, <3>5 DEF Watch
  <2>8. ASSUME NEW i \in Instances, WatchStart(i) PROVE TypeInv'
    <3>1. bi[i] \in BICopy /\ cur[i] \in Kinds
      BY <2>8 DEF WatchStart
    <3>2. /\ lockHolder' = None
          /\ cur' = [cur EXCEPT ![i] = None]
          /\ UNCHANGED <<envVars, storeVars, queue, phase1, desired, restarts>>
      BY <2>8 DEF WatchStart
    <3>3. CASE /\ Fault
               /\ SetCond(i, "Installed", "False", "CreateDynamicWatchFailed")
               /\ Return(i, TRUE)
               /\ UNCHANGED <<watchGVKs, subs, todo>>
      <4>1. /\ bi' \in [Instances -> BICopy \cup {None}]
            /\ bi'[i] \in BICopy
            /\ \A j \in Instances \ {i} : bi'[j] = bi[j]
        BY <3>1, <3>3, SetCondStep DEF CondTypes, CondStatuses, Reasons
      <4>2. /\ pc' = [pc EXCEPT ![i] = "Patch"]
            /\ retErr' = [retErr EXCEPT ![i] = TRUE]
            /\ faults' = faults + 1
        BY <3>3 DEF Fault, Return
      <4>3. TypeOK'
        BY <3>2, <3>3, <4>1, <4>2 DEF PCs
      <4>4. PassTyped'
        BY <3>2, <4>1, <4>2
      <4>5. QED
        BY <4>3, <4>4
    <3>4. CASE /\ subs' = [subs EXCEPT ![cur[i]] = @ + 1]
               /\ watchGVKs' = watchGVKs \cup {cur[i]}
               /\ todo' = [todo EXCEPT ![i] = @ \ {cur[i]}]
               /\ pc' = [pc EXCEPT ![i] = "Watch"]
               /\ UNCHANGED <<bi, retErr, faults>>
      BY <3>1, <3>2, <3>4 DEF PCs
    <3>5. QED
      BY <2>8, <3>3, <3>4 DEF WatchStart
  <2>9. ASSUME NEW i \in Instances, Patch(i) PROVE TypeInv'
    <3>1. bi[i] \in BICopy
      BY <2>9 DEF Patch
    <3>2. [conds |-> bi[i].conds, installed |-> bi[i].installed] \in BIStatus
      BY <3>1 DEF BICopy, BIStatus
    <3>3. QED
      BY <2>9, <3>2 DEF Patch, Fault, PCs
  <2>10. ASSUME NEW b \in Bundles, BundleChange(b) PROVE TypeInv'
    BY <2>10 DEF BundleChange, Referencing, Phases, Absent, PhasePending,
               PhaseUnpacking, PhaseUnpacked, PhaseFailing
  <2>10a. ASSUME NEW b \in Bundles, BundleRecreate(b) PROVE TypeInv'
    BY <2>10a DEF BundleRecreate, Referencing, Phases, PhasePending
  <2>11. ASSUME NEW i \in Instances, NEW b \in Bundles, UpdateSpec(i, b)
        PROVE TypeInv'
    BY <2>11 DEF UpdateSpec
  <2>12. ASSUME NEW i \in Instances, NEW k \in Kinds, Drift(i, k) PROVE TypeInv'
    BY <2>12 DEF Drift
  <2>13. CASE Resync
    BY <2>13 DEF Resync
  <2>14. CASE Restart
    BY <2>14 DEF Restart, PCs
  <2>15. CASE UNCHANGED vars
    BY <2>15 DEF vars, envVars, storeVars, watchVars, passVars
  <2>16. QED
    BY <2>3, <2>4, <2>5, <2>6, <2>7, <2>8, <2>9, <2>10, <2>10a, <2>11, <2>12,
       <2>13, <2>14, <2>15 DEF Next, Reconcile, Environment
<1>3. QED
  BY <1>1, <1>2, PTL DEF Spec

-----------------------------------------------------------------------------
(***************************************************************************)
(* Exactly-once watch registration.  WatchRegisteredOnce is not inductive *)
(* by itself: WatchStart increments subs[k] blindly, so the proof needs    *)
(* that the pass starting a watch holds dynamicWatchMutex and checked,     *)
(* under the mutex, that k was unwatched (WatchInv).                       *)
(***************************************************************************)

\* The lock is held only by a pass in WatchStart; a step of a pass that is
\* not in WatchStart and does not take the lock leaves it to its holder.
LEMMA HolderNotOther ==
    ASSUME WatchInv, NEW i \in Instances, pc[i] # "WatchStart"
    PROVE  lockHolder # i
  BY DEF WatchInv

\* However passes of different instances interleave around
\* dynamicWatchMutex, no kind ever gets a second informer and the
\* dynamicWatchGVKs map says exactly which kinds have one.
THEOREM WatchOnce == Spec => []WatchInv
<1>1. Init => WatchInv
  BY DEF Init, WatchInv, WatchRegisteredOnce
<1>2. TypeInv /\ WatchInv /\ [Next]_vars => WatchInv'
  <2> SUFFICES ASSUME TypeInv, WatchInv, [Next]_vars PROVE WatchInv'
    OBVIOUS
  <2> USE DEF TypeInv, TypeOK, envVars, storeVars, watchVars, passVars
  \* A pass step that keeps the watch state and keeps pass i out of
  \* WatchStart keeps WatchInv.
  <2>1. ASSUME NEW i \in Instances, pc[i] # "WatchStart",
               pc' = [pc EXCEPT ![i] = pc'[i]], pc'[i] # "WatchStart",
               UNCHANGED <<watchVars, cur>>
        PROVE  WatchInv'
    <3>1. lockHolder # i
      BY <2>1, HolderNotOther
    <3>2. QED
      BY <2>1, <3>1 DEF WatchInv, WatchRegisteredOnce
  <2>2. ASSUME NEW i \in Instances, Start(i) PROVE WatchInv'
    <3>1. pc[i] = "Idle" /\ UNCHANGED <<watchVars, cur>>
      BY <2>2 DEF Start
    <3>2. pc' = [pc EXCEPT ![i] = pc'[i]] /\ pc'[i] \in {"Idle", "Patch", "LoadBundle"}
      BY <2>2 DEF Start, Return
    <3>3. QED
      BY <2>1, <3>1, <3>2
  <2>3. ASSUME NEW i \in Instances, LoadBundle(i) PROVE WatchInv'
    <3>1. pc[i] = "LoadBundle" /\ UNCHANGED <<watchVars, cur>>
      BY <2>3 DEF LoadBundle
    <3>2. pc' = [pc EXCEPT ![i] = pc'[i]] /\ pc'[i] \in {"Patch", "Apply"}
      BY <2>3 DEF LoadBundle, Return
    <3>3. QED
      BY <2>1, <3>1, <3>2
  <2>4. ASSUME NEW i \in Instances, Apply(i) PROVE WatchInv'
    <3>1. pc[i] = "Apply" /\ UNCHANGED <<watchVars, cur>>
      BY <2>4 DEF Apply
    <3>2. pc' = [pc EXCEPT ![i] = pc'[i]] /\ pc'[i] \in {"Patch", "Watch", "Applying"}
      BY <2>4 DEF Apply, ApplyOk, ApplyFail, Return
    <3>3. QED
      BY <2>1, <3>1, <3>2
  <2>5. ASSUME NEW i \in Instances, ApplyDone(i) PROVE WatchInv'
    <3>1. pc[i] = "Applying" /\ UNCHANGED <<watchVars, cur>>
      BY <2>5 DEF ApplyDone
    <3>2. pc' = [pc EXCEPT ![i] = pc'[i]] /\ pc'[i] \in {"Patch", "Watch"}
      BY <2>5 DEF ApplyDone, ApplyOk, ApplyFail, Return
    <3>3. QED
      BY <2>1, <3>1, <3>2
  <2>6. ASSUME NEW i \in Instances, Patch(i) PROVE WatchInv'
    <3>1. /\ pc[i] = "Patch" /\ pc' = [pc EXCEPT ![i] = "Idle"]
          /\ UNCHANGED watchVars
          /\ cur' = [cur EXCEPT ![i] = None]
      BY <2>6 DEF Patch
    <3>2. lockHolder # i
      BY <3>1, HolderNotOther
    <3>3. QED
      BY <3>1, <3>2 DEF WatchInv, WatchRegisteredOnce
  <2>7. ASSUME NEW i \in Instances, Watch(i) PROVE WatchInv'
    <3>1. pc[i] = "Watch" /\ UNCHANGED <<watchGVKs, subs>>
      BY <2>7 DEF Watch
    <3>2. lockHolder # i
      BY <3>1, HolderNotOther
    \* Marking installed, or failing ToUnstructured, returns without the lock.
    <3>3. CASE pc' = [pc EXCEPT ![i] = "Patch"] /\ UNCHANGED <<lockHolder, cur>>
      BY <3>1, <3>2, <3>3 DEF WatchInv, WatchRegisteredOnce
    <3>4. CASE /\ lockHolder = None
               /\ \E k \in todo[i] :
                     \/ /\ k \in watchGVKs
                        /\ UNCHANGED <<pc, lockHolder, cur>>
                     \/ /\ k \notin watchGVKs
                        /\ cur' = [cur EXCEPT ![i] = k]
                        /\ lockHolder' = i
                        /\ pc' = [pc EXCEPT ![i] = "WatchStart"]
      <4>1. PICK k \in todo[i] :
                     \/ /\ k \in watchGVKs
                        /\ UNCHANGED <<pc, lockHolder, cur>>
                     \/ /\ k \notin watchGVKs
                        /\ cur' = [cur EXCEPT ![i] = k]
                        /\ lockHolder' = i
                        /\ pc' = [pc EXCEPT ![i] = "WatchStart"]
        BY <3>4
      \* With the mutex free, no pass is starting a watch.
      <4>2. \A j \in Instances : pc[j] # "WatchStart"
        BY <3>4 DEF WatchInv
      <4>3. QED
        BY <3>1, <3>4, <4>1, <4>2 DEF WatchInv, WatchRegisteredOnce
    <3>5. QED
      BY <2>7, <3>3, <3>4 DEF Watch, Return
  <2>8. ASSUME NEW i \in Instances, WatchStart(i) PROVE WatchInv'
    <3> DEFINE k == cur[i]
    <3>1. /\ pc[i] = "WatchStart" /\ lockHolder = i /\ k \notin watchGVKs
          /\ k \in Kinds /\ subs[k] = 0
      BY <2>8 DEF WatchStart, WatchInv, WatchRegisteredOnce, PassTyped
    <3>2. \A j \in Instances \ {i} : pc[j] # "WatchStart"
      BY <3>1 DEF WatchInv
    <3>3. /\ lockHolder' = None
          /\ pc' = [pc EXCEPT ![i] = pc'[i]] /\ pc'[i] \in {"Patch", "Watch"}
      BY <2>8 DEF WatchStart, Return
    <3>4. CASE UNCHANGED <<watchGVKs, subs>>
      BY <3>2, <3>3, <3>4 DEF WatchInv, WatchRegisteredOnce
    <3>5. CASE subs' = [subs EXCEPT ![k] = @ + 1] /\ watchGVKs' = watchGVKs \cup {k}
      BY <3>1, <3>2, <3>3, <3>5 DEF WatchInv, WatchRegisteredOnce
    <3>6. QED
      BY <2>8, <3>4, <3>5 DEF WatchStart
  <2>9. ASSUME NEW b \in Bundles, BundleChange(b) PROVE WatchInv'
    BY <2>9 DEF BundleChange, WatchInv, WatchRegisteredOnce
  <2>9a. ASSUME NEW b \in Bundles, BundleRecreate(b) PROVE WatchInv'
    BY <2>9a DEF BundleRecreate, WatchInv, WatchRegisteredOnce
  <2>10. ASSUME NEW i \in Instances, NEW b \in Bundles, UpdateSpec(i, b)
        PROVE WatchInv'
    BY <2>10 DEF UpdateSpec, WatchInv, WatchRegisteredOnce
  <2>11. ASSUME NEW i \in Instances, NEW k \in Kinds, Drift(i, k) PROVE WatchInv'
    BY <2>11 DEF Drift, WatchInv, WatchRegisteredOnce
  <2>12. CASE Resync
    BY <2>12 DEF Resync, WatchInv, WatchRegisteredOnce
  <2>13. CASE Restart
    BY <2>13 DEF Restart, WatchInv, WatchRegisteredOnce
  <2>14. CASE UNCHANGED vars
    BY <2>14 DEF vars, WatchInv, WatchRegisteredOnce
  <2>15. QED
    BY <2>2, <2>3, <2>4, <2>5, <2>6, <2>7, <2>8, <2>9, <2>9a, <2>10, <2>11,
       <2>12, <2>13, <2>14 DEF Next, Reconcile, Environment
<1>3. QED
  BY <1>1, <1>2, TypeCorrect, PTL DEF Spec

\* The type invariant the runs check holds in every reachable state.
THEOREM TypeOKHolds == Spec => []TypeOK
<1>1. TypeInv => TypeOK
  BY DEF TypeInv
<1>2. QED
  BY <1>1, TypeCorrect, PTL

\* The exactly-once registration of dynamic watches the runs check holds
\* for every number of instances, kinds and workers.
THEOREM WatchRegisteredOnceHolds == Spec => []WatchRegisteredOnce
<1>1. WatchInv => WatchRegisteredOnce
  BY DEF WatchInv
<1>2. QED
  BY <1>1, WatchOnce, PTL

-----------------------------------------------------------------------------
(***************************************************************************)
(* installedBundleName.  InstalledOnlyAfterApply is about the stored       *)
(* status, which only the deferred patch writes, from the pass's working   *)
(* copy: InstalledInv adds that the copy names only applied bundles.       *)
(***************************************************************************)

\* A step of pass i that keeps the stored status and the history, keeps
\* the copy's installedBundleName, and leaves the pass out of the watch
\* loop keeps InstalledInv.
LEMMA InstalledQuiet ==
    ASSUME TypeInv, InstalledInv, NEW i \in Instances,
           UNCHANGED <<biStatus, applied>>,
           \A j \in Instances \ {i} : pc'[j] = pc[j],
           pc'[i] \notin {"Idle", "Watch", "WatchStart"},
           \A j \in Instances \ {i} : bi'[j] = bi[j],
           bi'[i].installed \in applied[i] \cup {None}
    PROVE  InstalledInv'
  BY DEF InstalledInv, InstalledOnlyAfterApply, TypeInv, TypeOK

\* installedBundleName is only ever set to a bundle whose content a pass
\* applied, whatever failures, conflicting patches and restarts happen.
THEOREM InstalledAfterApply == Spec => []InstalledInv
<1>1. Init => InstalledInv
  BY DEF Init, InstalledInv, InstalledOnlyAfterApply
<1>2. TypeInv /\ InstalledInv /\ [Next]_vars => InstalledInv'
  <2> SUFFICES ASSUME TypeInv, InstalledInv, [Next]_vars PROVE InstalledInv'
    OBVIOUS
  <2> USE DEF envVars, storeVars, watchVars, passVars
  \* The two ends of the apply phase: a failed call, and a successful apply.
  <2>1. ASSUME NEW i \in Instances, NEW r \in Reasons, bi[i] \in BICopy,
               bi[i].installed \in applied[i] \cup {None},
               SetCond(i, "Installed", "False", r), Return(i, TRUE),
               UNCHANGED <<biStatus, applied>>
        PROVE  InstalledInv'
    <3>1. /\ \A j \in Instances \ {i} : bi'[j] = bi[j]
          /\ bi'[i].installed = bi[i].installed
      BY <2>1, SetCondStep DEF TypeInv, TypeOK, CondTypes, CondStatuses
    <3>2. (\A j \in Instances \ {i} : pc'[j] = pc[j]) /\ pc'[i] = "Patch"
      BY <2>1 DEF Return, TypeInv, TypeOK
    <3>3. QED
      BY <2>1, <3>1, <3>2, InstalledQuiet
  <2>2. ASSUME NEW i \in Instances, bi[i] \in BICopy,
               bi[i].installed \in applied[i] \cup {None},
               UNCHANGED biStatus, ApplyOk(i)
        PROVE  InstalledInv'
    BY <2>2 DEF ApplyOk, InstalledInv, InstalledOnlyAfterApply, TypeInv, TypeOK
  <2>3. ASSUME NEW i \in Instances, Start(i) PROVE InstalledInv'
    <3>1. biStatus[i].installed \in applied[i] \cup {None}
      BY DEF InstalledInv, InstalledOnlyAfterApply
    \* The Get of the BundleInstance fails: nothing of the pass changes.
    <3>2. CASE UNCHANGED passVars
      BY <2>3, <3>2 DEF Start, InstalledInv, InstalledOnlyAfterApply
    <3>3. CASE ~UNCHANGED passVars
      <4>1. /\ UNCHANGED <<biStatus, applied>>
            /\ (\A j \in Instances \ {i} : pc'[j] = pc[j]) /\ pc'[i] \in {"Patch", "LoadBundle"}
            /\ \A j \in Instances \ {i} : bi'[j] = bi[j]
            /\ bi'[i].installed = biStatus[i].installed
        BY <2>3, <3>3 DEF Start, Return, TypeInv, TypeOK
      <4>2. QED
        BY <3>1, <4>1, InstalledQuiet
    <3>4. QED
      BY <3>2, <3>3
  <2>4. ASSUME NEW i \in Instances, LoadBundle(i) PROVE InstalledInv'
    <3>1. /\ pc[i] = "LoadBundle" /\ bi[i] \in BICopy
          /\ bi[i].installed \in applied[i] \cup {None}
      BY <2>4 DEF LoadBundle, TypeInv, PassTyped, InstalledInv
    <3>2. ASSUME NEW t \in CondTypes, NEW s \in CondStatuses, NEW r \in Reasons,
                 SetCond(i, t, s, r)
          PROVE  /\ \A j \in Instances \ {i} : bi'[j] = bi[j]
                 /\ bi'[i].installed = bi[i].installed
      BY <3>1, <3>2, SetCondStep DEF TypeInv, TypeOK
    <3>3. UnpackReason(phase1[i]) \in Reasons
      BY <2>4, UnpackReasonTyped DEF LoadBundle, TypeInv, PassTyped
    <3>4. /\ \A j \in Instances \ {i} : bi'[j] = bi[j]
          /\ bi'[i].installed = bi[i].installed
      BY <2>4, <3>2, <3>3 DEF LoadBundle, CondTypes, CondStatuses, Reasons
    <3>5. /\ UNCHANGED <<biStatus, applied>>
          /\ (\A j \in Instances \ {i} : pc'[j] = pc[j]) /\ pc'[i] \in {"Patch", "Apply"}
      BY <2>4 DEF LoadBundle, Return, TypeInv, TypeOK
    <3>6. QED
      BY <3>1, <3>4, <3>5, InstalledQuiet
  <2>5. ASSUME NEW i \in Instances, Apply(i) PROVE InstalledInv'
    <3>1. /\ pc[i] = "Apply" /\ bi[i] \in BICopy
          /\ bi[i].installed \in applied[i] \cup {None}
          /\ UNCHANGED biStatus
      BY <2>5 DEF Apply, TypeInv, PassTyped, InstalledInv
    <3>2. CASE ApplyOk(i)
      BY <2>2, <3>1, <3>2
    <3>3. CASE \E r \in Reasons : ApplyFail(i, r)
      <4>1. PICK r \in Reasons : ApplyFail(i, r)
        BY <3>3
      <4>2. QED
        BY <2>1, <3>1, <4>1 DEF ApplyFail
    \* Helm recorded a pending release: the pass waits for it to finish.
    <3>4. CASE pc' = [pc EXCEPT ![i] = "Applying"] /\ UNCHANGED <<bi, applied>>
      <4>1. (\A j \in Instances \ {i} : pc'[j] = pc[j]) /\ pc'[i] = "Applying"
        BY <3>4 DEF TypeInv, TypeOK
      <4>2. QED
        BY <3>1, <3>4, <4>1, InstalledQuiet
    <3>5. QED
      BY <2>5, <3>2, <3>3, <3>4 DEF Apply, FailedReason, Reasons
  <2>6. ASSUME NEW i \in Instances, ApplyDone(i) PROVE InstalledInv'
    <3>1. /\ pc[i] = "Applying" /\ bi[i] \in BICopy
          /\ bi[i].installed \in applied[i] \cup {None}
          /\ UNCHANGED biStatus
      BY <2>6 DEF ApplyDone, TypeInv, PassTyped, InstalledInv
    <3>2. CASE ApplyOk(i)
      BY <2>2, <3>1, <3>2
    <3>3. CASE \E r \in Reasons : ApplyFail(i, r)
      <4>1. PICK r \in Reasons : ApplyFail(i, r)
        BY <3>3
      <4>2. QED
        BY <2>1, <3>1, <4>1 DEF ApplyFail
    <3>4. QED
      BY <2>6, <3>2, <3>3 DEF ApplyDone, Reasons
  <2>7. ASSUME NEW i \in Instances, Watch(i) PROVE InstalledInv'
    <3>1. /\ pc[i] = "Watch" /\ bi[i] \in BICopy /\ bi[i].spec \in applied[i]
          /\ bi[i].installed \in applied[i] \cup {None}
          /\ UNCHANGED <<biStatus, applied>>
      BY <2>7 DEF Watch, TypeInv, PassTyped, InstalledInv
    \* The end of the loop marks the applied spec installed.
    <3>2. CASE /\ bi' = [bi EXCEPT ![i].conds["Installed"] =
                          [status |-> "True", reason |-> "InstallationSucceeded"],
                                ![i].installed = bi[i].spec]
               /\ Return(i, FALSE)
      <4>1. pc' = [pc EXCEPT ![i] = "Patch"]
        BY <3>2 DEF Return
      <4>2. QED
        BY <3>1, <3>2, <4>1 DEF InstalledInv, InstalledOnlyAfterApply, TypeInv, TypeOK
    <3>3. CASE SetCond(i, "Installed", "False", "CreateDynamicWatchFailed")
               /\ Return(i, TRUE)
      <4>1. "CreateDynamicWatchFailed" \in Reasons
        BY DEF Reasons
      <4>2. QED
        BY <2>1, <3>1, <3>3, <4>1
    <3>4. CASE /\ UNCHANGED bi
               /\ \E k \in todo[i] : \/ UNCHANGED pc
                                   \/ pc' = [pc EXCEPT ![i] = "WatchStart"]
      <4>1. (\A j \in Instances \ {i} : pc'[j] = pc[j]) /\ pc'[i] \in {"Watch", "WatchStart"}
        BY <3>1, <3>4 DEF TypeInv, TypeOK
      <4>2. QED
        BY <3>1, <3>4, <4>1 DEF InstalledInv, InstalledOnlyAfterApply, TypeInv, TypeOK
    <3>5. QED
      BY <2>7, <3>2, <3>3, <3>4 DEF Watch
  <2>8. ASSUME NEW i \in Instances, WatchStart(i) PROVE InstalledInv'
    <3>1. /\ pc[i] = "WatchStart" /\ bi[i] \in BICopy /\ bi[i].spec \in applied[i]
          /\ bi[i].installed \in applied[i] \cup {None}
          /\ UNCHANGED <<biStatus, applied>>
      BY <2>8 DEF WatchStart, TypeInv, PassTyped, InstalledInv
    <3>2. CASE SetCond(i, "Installed", "False", "CreateDynamicWatchFailed")
               /\ Return(i, TRUE)
      <4>1. /\ \A j \in Instances \ {i} : bi'[j] = bi[j]
            /\ bi'[i].installed = bi[i].installed
        BY <3>1, <3>2, SetCondStep DEF TypeInv, TypeOK, CondTypes, CondStatuses,
                                        Reasons
      <4>2. (\A j \in Instances \ {i} : pc'[j] = pc[j]) /\ pc'[i] = "Patch"
        BY <3>2 DEF Return, TypeInv, TypeOK
      <4>3. QED
        BY <3>1, <4>1, <4>2, InstalledQuiet
    <3>3. CASE UNCHANGED bi /\ pc' = [pc EXCEPT ![i] = "Watch"]
      BY <3>1, <3>3 DEF InstalledInv, InstalledOnlyAfterApply, TypeInv, TypeOK
    <3>4. QED
      BY <2>8, <3>2, <3>3 DEF WatchStart
  <2>9. ASSUME NEW i \in Instances, Patch(i) PROVE InstalledInv'
    <3>1. /\ pc[i] = "Patch" /\ bi[i] \in BICopy
          /\ bi[i].installed \in applied[i] \cup {None}
          /\ pc' = [pc EXCEPT ![i] = "Idle"]
          /\ UNCHANGED applied
          /\ \/ UNCHANGED biStatus
             \/ biStatus' = [biStatus EXCEPT ![i] =
                               [conds |-> bi[i].conds, installed |-> bi[i].installed]]
          /\ \A j \in Instances \ {i} : bi'[j] = bi[j]
      BY <2>9 DEF Patch, TypeInv, PassTyped, TypeOK, InstalledInv
    <3>2. QED
      BY <3>1 DEF InstalledInv, InstalledOnlyAfterApply, TypeInv, TypeOK
  <2>10. CASE Environment
    BY <2>10 DEF Environment, BundleChange, BundleRecreate, UpdateSpec, Drift, Resync, Restart,
                InstalledInv, InstalledOnlyAfterApply
  <2>11. CASE UNCHANGED vars
    BY <2>11 DEF vars, InstalledInv, InstalledOnlyAfterApply
  <2>12. QED
    BY <2>3, <2>4, <2>5, <2>6, <2>7, <2>8, <2>9, <2>10, <2>11
       DEF Next, Reconcile
<1>3. QED
  BY <1>1, <1>2, TypeCorrect, PTL DEF Spec

\* Spec invariant 4, as the safety run checks it.
THEOREM InstalledOnlyAfterApplyHolds == Spec => []InstalledOnlyAfterApply
<1>1. InstalledInv => InstalledOnlyAfterApply
  BY DEF InstalledInv
<1>2. QED
  BY <1>1, InstalledAfterApply, PTL

-----------------------------------------------------------------------------
(***************************************************************************)
(* Idempotent heal.  Only Apply records a release version, and only in the *)
(* branch that getReleaseState sent to Install or Upgrade; ApplyDone       *)
(* changes the status of the release it finishes, never its version.       *)
(***************************************************************************)

\* The release-status update Helm makes when it finishes keeps the version.
LEMMA StatusKeepsVersion ==
    ASSUME NEW r \in Release, NEW s
    PROVE  [r EXCEPT !.status = s].version = r.version
  BY DEF Release

\* A new Helm release version is recorded only when there was no release,
\* the rendered content changed, or the latest release is failed or
\* superseded: re-running a pass after a crash or a lost status patch does
\* not upgrade again (spec 8), for every number of instances and bundles.
THEOREM NoSpuriousRevisionHolds == Spec => NoSpuriousRevision
<1> DEFINE Heal(i) == \/ rel[i] = None
                      \/ rel[i].status \in {"failed", "superseded"}
                      \/ rel[i].manifest # rel'[i].manifest
           A == \A i \in Instances : NewRevision(i) => Heal(i)
<1>1. TypeInv /\ [Next]_vars => [A]_vars
  <2> SUFFICES ASSUME TypeInv, [Next]_vars, NEW i \in Instances, NewRevision(i)
               PROVE  Heal(i)
    BY DEF A
  <2> USE DEF TypeInv, TypeOK, PassTyped
  \* A step that keeps rel[i] records no version for i.
  <2>1. rel'[i] # rel[i]
    BY DEF NewRevision
  <2>2. ASSUME NEW j \in Instances, Apply(j) PROVE Heal(i)
    <3> DEFINE d == desired[j]
               st == ReleaseStateOf(rel[j], d)
    <3>1. CASE /\ st \in {"NeedsInstall", "NeedsUpgrade"}
               /\ rel' = [rel EXCEPT ![j] = NextRelease(rel[j], PendingStatus(st), d)]
      <4>1. j = i
        BY <2>1, <3>1
      <4>2. rel'[i].manifest = desired[i]
        BY <3>1, <4>1 DEF NextRelease
      <4>3. CASE st = "NeedsInstall"
        BY <4>1, <4>3 DEF ReleaseStateOf
      <4>4. CASE st = "NeedsUpgrade"
        BY <4>1, <4>2, <4>4 DEF ReleaseStateOf
      <4>5. QED
        BY <3>1, <4>3, <4>4
    <3>2. CASE UNCHANGED rel
      BY <2>1, <3>2
    <3>3. QED
      BY <2>2, <3>1, <3>2 DEF Apply
  <2>3. ASSUME NEW j \in Instances, ApplyDone(j) PROVE Heal(i)
    <3>1. CASE rel[i] = None
      BY <3>1
    <3>2. CASE rel[i] # None
      <4>1. PICK s \in {"deployed", "failed"} : rel' = [rel EXCEPT ![j].status = s]
        BY <2>3 DEF ApplyDone
      <4>2. rel[j] \in Release
        BY <2>3 DEF ApplyDone
      <4>3. rel'[i].version = rel[i].version
        <5>1. CASE j = i
          BY <4>1, <4>2, <5>1, StatusKeepsVersion
        <5>2. CASE j # i
          BY <4>1, <5>2
        <5>3. QED
          BY <5>1, <5>2
      <4>4. QED
        BY <3>2, <4>3 DEF NewRevision
    <3>3. QED
      BY <3>1, <3>2
  \* Every other step leaves the releases alone.
  <2>4. CASE UNCHANGED rel
    BY <2>1, <2>4
  <2>5. QED
    BY <2>2, <2>3, <2>4
       DEF Next, Reconcile, Environment, Start, LoadBundle, Watch, WatchStart,
           Patch, BundleChange, BundleRecreate, UpdateSpec, Drift, Resync, Restart, vars,
           storeVars
<1>2. QED
  BY <1>1, TypeCorrect, PTL DEF NoSpuriousRevision, Spec, A, Heal

=============================================================================
