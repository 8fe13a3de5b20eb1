------------------ MODULE BundleInstanceRefinementProofs ------------------
(***************************************************************************)
(* The controller implements the release contract BundleInstanceReleases   *)
(* under the mapping Releases (the stored installedBundleName for          *)
(* installed).  The proof is the usual one: an invariant RefInv of the     *)
(* detailed specification, then every step maps to a step of the contract  *)
(* or leaves the releases and installedBundleName alone.                   *)
(***************************************************************************)
EXTENDS BundleInstanceReconcilerProofs

USE ConstantsAssumption, NoneNotRelease

\* A step of pass i leaves the state RefInv reads of every other pass alone.
Frame(i) ==
    \A j \in Instances \ {i} :
        /\ pc'[j] = pc[j] /\ bi'[j] = bi[j] /\ biStatus'[j] = biStatus[j]
        /\ rel'[j] = rel[j] /\ desired'[j] = desired[j]

\* Such a step keeps RefInv if it keeps its own instance's part.
LEMMA RefInvFrame ==
    ASSUME RefInv, NEW i \in Instances, Frame(i), RefInvAt(i)'
    PROVE  RefInv'
  BY DEF RefInv, RefInvAt, Holds, Frame

\* A step of pass i that returns with an error, or with nothing installed,
\* keeps the stored installedBundleName in the working copy.
LEMMA RefInvReturn ==
    ASSUME NEW i \in Instances, pc'[i] = "Patch",
           bi'[i].installed = biStatus'[i].installed
    PROVE  RefInvAt(i)'
  BY DEF RefInvAt

\* A release that getReleaseState finds Unchanged is deployed with the
\* desired content.
LEMMA UnchangedIsDeployed ==
    ASSUME NEW r \in Release \cup {None}, NEW d,
           ReleaseStateOf(r, d) = "Unchanged"
    PROVE  r # None /\ r.status = "deployed" /\ r.manifest = d
  BY DEF ReleaseStateOf, Release, ReleaseStatuses, PendingStatuses

-----------------------------------------------------------------------------

\* Every pass reports the stored installedBundleName until its watch loop
\* has ended on a release that holds its bundle, deployed.
THEOREM RefInvariant == Spec => []RefInv
<1>1. Init => RefInv
  BY DEF Init, RefInv, RefInvAt
<1>2. TypeInv /\ RefInv /\ [Next]_vars => RefInv'
  <2> SUFFICES ASSUME TypeInv, RefInv, [Next]_vars PROVE RefInv'
    OBVIOUS
  <2> USE DEF TypeInv, TypeOK, PassTyped, envVars, storeVars, watchVars, passVars
  <2>1. ASSUME NEW i \in Instances, Start(i) PROVE RefInv'
    <3>1. CASE UNCHANGED passVars
      BY <2>1, <3>1 DEF Start, RefInv, RefInvAt, Holds
    <3>2. CASE ~UNCHANGED passVars
      <4>1. /\ pc' = [pc EXCEPT ![i] = pc'[i]] /\ pc'[i] \in {"Patch", "LoadBundle"}
            /\ bi'[i].installed = biStatus[i].installed
            /\ \A j \in Instances \ {i} : bi'[j] = bi[j]
            /\ UNCHANGED <<biStatus, rel, desired>>
        BY <2>1, <3>2 DEF Start, Return
      <4>2. RefInvAt(i)'
        BY <4>1 DEF RefInvAt
      <4>3. QED
        BY <4>1, <4>2, RefInvFrame DEF Frame
    <3>3. QED
      BY <3>1, <3>2
  <2>2. ASSUME NEW i \in Instances, LoadBundle(i) PROVE RefInv'
    <3>1. /\ pc[i] = "LoadBundle" /\ bi[i] \in BICopy
          /\ bi[i].installed = biStatus[i].installed
          /\ UNCHANGED <<biStatus, rel>>
      BY <2>2 DEF LoadBundle, RefInv, RefInvAt
    <3>2. ASSUME NEW t \in CondTypes, NEW s \in CondStatuses, NEW r \in Reasons,
                 SetCond(i, t, s, r)
          PROVE  /\ \A j \in Instances \ {i} : bi'[j] = bi[j]
                 /\ bi'[i].installed = bi[i].installed
      BY <3>1, <3>2, SetCondStep
    <3>3. UnpackReason(phase1[i]) \in Reasons
      BY <2>2, UnpackReasonTyped DEF LoadBundle
    <3>4. /\ \A j \in Instances \ {i} : bi'[j] = bi[j]
          /\ bi'[i].installed = bi[i].installed
      BY <2>2, <3>2, <3>3 DEF LoadBundle, CondTypes, CondStatuses, Reasons
    <3>5. /\ pc' = [pc EXCEPT ![i] = pc'[i]] /\ pc'[i] \in {"Patch", "Apply"}
          /\ desired' = [desired EXCEPT ![i] = desired'[i]]
          /\ pc'[i] = "Apply" => /\ desired'[i] = BundleContent[bi[i].spec]
                                 /\ bi' = bi
      BY <2>2 DEF LoadBundle, Return
    <3>6. RefInvAt(i)'
      BY <3>1, <3>4, <3>5 DEF RefInvAt
    <3>7. QED
      BY <3>1, <3>4, <3>5, <3>6, RefInvFrame DEF Frame
  <2>3. ASSUME NEW i \in Instances, Apply(i) PROVE RefInv'
    <3> DEFINE d == desired[i]
               st == ReleaseStateOf(rel[i], d)
    <3>1. /\ pc[i] = "Apply" /\ bi[i] \in BICopy
          /\ bi[i].installed = biStatus[i].installed
          /\ d = BundleContent[bi[i].spec]
          /\ UNCHANGED <<biStatus, desired>>
      BY <2>3 DEF Apply, RefInv, RefInvAt
    <3>2. ASSUME NEW r \in Reasons, ApplyFail(i, r), UNCHANGED rel PROVE RefInv'
      <4>1. /\ \A j \in Instances \ {i} : bi'[j] = bi[j]
            /\ bi'[i].installed = bi[i].installed
        BY <3>1, <3>2, SetCondStep DEF ApplyFail, CondTypes, CondStatuses
      <4>2. pc' = [pc EXCEPT ![i] = "Patch"]
        BY <3>2 DEF ApplyFail, Return
      <4>3. QED
        BY <3>1, <3>2, <4>1, <4>2, RefInvReturn, RefInvFrame DEF Frame
    <3>3. CASE /\ st \in {"NeedsInstall", "NeedsUpgrade"}
               /\ rel' = [rel EXCEPT ![i] = NextRelease(rel[i], PendingStatus(st), d)]
               /\ pc' = [pc EXCEPT ![i] = "Applying"]
               /\ UNCHANGED bi
      <4>1. /\ rel'[i].status \in PendingStatuses
            /\ rel'[i].manifest = d
        BY <3>3 DEF NextRelease, PendingStatus, PendingStatuses
      <4>2. RefInvAt(i)'
        BY <3>1, <3>3, <4>1 DEF RefInvAt
      <4>3. QED
        BY <3>1, <3>3, <4>2, RefInvFrame DEF Frame
    <3>4. CASE st = "Unchanged" /\ ApplyOk(i) /\ UNCHANGED rel
      <4>1. rel[i] # None /\ rel[i].status = "deployed" /\ rel[i].manifest = d
        BY <3>4, UnchangedIsDeployed
      <4>2. /\ pc' = [pc EXCEPT ![i] = "Watch"]
            /\ UNCHANGED bi
        BY <3>4 DEF ApplyOk
      <4>3. RefInvAt(i)'
        BY <3>1, <3>4, <4>1, <4>2 DEF RefInvAt, Holds
      <4>4. QED
        BY <3>1, <3>4, <4>2, <4>3, RefInvFrame DEF Frame
    <3>5. QED
      <4>1. CASE \/ Fault /\ ApplyFail(i, "ErrorGettingClient") /\ UNCHANGED rel
                 \/ Fault /\ ApplyFail(i, "ErrorGettingReleaseState") /\ UNCHANGED rel
                 \/ ApplyFail(i, "ErrorGettingReleaseState") /\ UNCHANGED rel
                 \/ Fault /\ ApplyFail(i, FailedReason(st)) /\ UNCHANGED rel
                 \/ Fault /\ ApplyFail(i, "ReconcileFailed") /\ UNCHANGED rel
        <5>1. FailedReason(st) \in Reasons
          BY DEF FailedReason, Reasons
        <5>2. QED
          BY <3>2, <4>1, <5>1 DEF Reasons
      <4>2. QED
        BY <2>3, <3>3, <3>4, <4>1 DEF Apply, ApplyOk
  <2>4. ASSUME NEW i \in Instances, ApplyDone(i) PROVE RefInv'
    <3>1. /\ pc[i] = "Applying" /\ bi[i] \in BICopy /\ rel[i] \in Release
          /\ bi[i].installed = biStatus[i].installed
          /\ rel[i].manifest = desired[i]
          /\ desired[i] = BundleContent[bi[i].spec]
          /\ UNCHANGED <<biStatus, desired>>
      BY <2>4 DEF ApplyDone, RefInv, RefInvAt
    <3>2. CASE ApplyOk(i) /\ rel' = [rel EXCEPT ![i].status = "deployed"]
      <4>1. /\ pc' = [pc EXCEPT ![i] = "Watch"]
            /\ UNCHANGED bi
        BY <3>2 DEF ApplyOk
      <4>2. rel'[i] = [rel[i] EXCEPT !.status = "deployed"]
        BY <3>2
      <4>3. /\ rel'[i] \in Release
            /\ rel'[i].status = "deployed"
            /\ rel'[i].manifest = rel[i].manifest
        BY <3>1, <4>2 DEF Release, ReleaseStatuses
      <4>4. RefInvAt(i)'
        BY <3>1, <4>1, <4>3 DEF RefInvAt, Holds
      <4>5. QED
        BY <3>1, <3>2, <4>1, <4>4, RefInvFrame DEF Frame
    <3>3. CASE /\ ApplyFail(i, IF rel[i].status = "pending-install"
                               THEN "InstallFailed" ELSE "UpgradeFailed")
               /\ rel' = [rel EXCEPT ![i].status = "failed"]
      <4>1. (IF rel[i].status = "pending-install"
             THEN "InstallFailed" ELSE "UpgradeFailed") \in Reasons
        BY DEF Reasons
      <4>2. /\ \A j \in Instances \ {i} : bi'[j] = bi[j]
            /\ bi'[i].installed = bi[i].installed
        BY <3>1, <3>3, <4>1, SetCondStep DEF ApplyFail, CondTypes, CondStatuses
      <4>3. pc' = [pc EXCEPT ![i] = "Patch"]
        BY <3>3 DEF ApplyFail, Return
      <4>4. QED
        BY <3>1, <3>3, <4>2, <4>3, RefInvReturn, RefInvFrame DEF Frame
    <3>4. QED
      BY <2>4, <3>2, <3>3 DEF ApplyDone
  <2>5. ASSUME NEW i \in Instances, Watch(i) PROVE RefInv'
    <3>1. /\ pc[i] = "Watch" /\ bi[i] \in BICopy
          /\ bi[i].installed = biStatus[i].installed
          /\ Holds(i, bi[i].spec)
          /\ UNCHANGED <<biStatus, rel, desired>>
      BY <2>5 DEF Watch, RefInv, RefInvAt
    <3>2. CASE /\ bi' = [bi EXCEPT ![i].conds["Installed"] =
                          [status |-> "True", reason |-> "InstallationSucceeded"],
                                ![i].installed = bi[i].spec]
               /\ Return(i, FALSE)
      <4>1. /\ pc' = [pc EXCEPT ![i] = "Patch"]
            /\ bi'[i].installed = bi[i].spec
            /\ \A j \in Instances \ {i} : bi'[j] = bi[j]
        BY <3>1, <3>2 DEF Return, BICopy
      <4>2. bi[i].spec \in Bundles
        BY <3>1 DEF BICopy
      <4>3. RefInvAt(i)'
        BY <3>1, <4>1, <4>2 DEF RefInvAt, Holds
      <4>4. QED
        BY <3>1, <4>1, <4>3, RefInvFrame DEF Frame
    <3>3. CASE SetCond(i, "Installed", "False", "CreateDynamicWatchFailed")
               /\ Return(i, TRUE)
      <4>1. /\ \A j \in Instances \ {i} : bi'[j] = bi[j]
            /\ bi'[i].installed = bi[i].installed
        BY <3>1, <3>3, SetCondStep DEF CondTypes, CondStatuses, Reasons
      <4>2. pc' = [pc EXCEPT ![i] = "Patch"]
        BY <3>3 DEF Return
      <4>3. QED
        BY <3>1, <4>1, <4>2, RefInvReturn, RefInvFrame DEF Frame
    <3>4. CASE /\ UNCHANGED bi
               /\ \E k \in todo[i] : \/ UNCHANGED pc
                                   \/ pc' = [pc EXCEPT ![i] = "WatchStart"]
      <4>1. pc' = [pc EXCEPT ![i] = pc'[i]] /\ pc'[i] \in {"Watch", "WatchStart"}
        BY <3>1, <3>4
      <4>2. RefInvAt(i)'
        BY <3>1, <3>4, <4>1 DEF RefInvAt, Holds
      <4>3. QED
        BY <3>1, <3>4, <4>1, <4>2, RefInvFrame DEF Frame
    <3>5. QED
      BY <2>5, <3>2, <3>3, <3>4 DEF Watch
  <2>6. ASSUME NEW i \in Instances, WatchStart(i) PROVE RefInv'
    <3>1. /\ pc[i] = "WatchStart" /\ bi[i] \in BICopy
          /\ bi[i].installed = biStatus[i].installed
          /\ Holds(i, bi[i].spec)
          /\ UNCHANGED <<biStatus, rel, desired>>
      BY <2>6 DEF WatchStart, RefInv, RefInvAt
    <3>2. CASE SetCond(i, "Installed", "False", "CreateDynamicWatchFailed")
               /\ Return(i, TRUE)
      <4>1. /\ \A j \in Instances \ {i} : bi'[j] = bi[j]
            /\ bi'[i].installed = bi[i].installed
        BY <3>1, <3>2, SetCondStep DEF CondTypes, CondStatuses, Reasons
      <4>2. pc' = [pc EXCEPT ![i] = "Patch"]
        BY <3>2 DEF Return
      <4>3. QED
        BY <3>1, <4>1, <4>2, RefInvReturn, RefInvFrame DEF Frame
    <3>3. CASE UNCHANGED bi /\ pc' = [pc EXCEPT ![i] = "Watch"]
      <4>1. RefInvAt(i)'
        BY <3>1, <3>3 DEF RefInvAt, Holds
      <4>2. QED
        BY <3>1, <3>3, <4>1, RefInvFrame DEF Frame
    <3>4. QED
      BY <2>6, <3>2, <3>3 DEF WatchStart
  <2>7. ASSUME NEW i \in Instances, Patch(i) PROVE RefInv'
    <3>1. /\ pc' = [pc EXCEPT ![i] = "Idle"]
          /\ bi' = [bi EXCEPT ![i] = None]
          /\ desired' = [desired EXCEPT ![i] = {}]
          /\ biStatus' = [biStatus EXCEPT ![i] = biStatus'[i]]
          /\ UNCHANGED rel
      BY <2>7 DEF Patch
    <3>2. RefInvAt(i)'
      BY <3>1 DEF RefInvAt
    <3>3. QED
      BY <3>1, <3>2, RefInvFrame DEF Frame
  <2>8. CASE Restart
    BY <2>8 DEF Restart, RefInv, RefInvAt
  <2>9. CASE UNCHANGED <<pc, bi, biStatus, rel, desired>>
    BY <2>9 DEF RefInv, RefInvAt, Holds
  <2>10. QED
    BY <2>1, <2>2, <2>3, <2>4, <2>5, <2>6, <2>7, <2>8, <2>9
       DEF Next, Reconcile, Environment, BundleChange, BundleRecreate, UpdateSpec, Drift,
           Resync, vars
<1>3. QED
  BY <1>1, <1>2, TypeCorrect, PTL DEF Spec

-----------------------------------------------------------------------------

\* The controller implements the release contract: whatever the passes,
\* failed calls, conflicting patches, restarts and environment do, the
\* Helm releases and installedBundleName only change by an install or
\* upgrade that getReleaseState justifies, by Helm finishing a pending
\* release, or by recording a bundle whose content is deployed.
THEOREM ReleasesImplemented == Spec => ReleasesRefined
<1>1. Init => Releases!Init
  BY DEF Init, Releases!Init
<1>2. TypeInv /\ RefInv /\ [Next]_vars => [Releases!Next]_Releases!vars
  <2> SUFFICES ASSUME TypeInv, RefInv, [Next]_vars
               PROVE  [Releases!Next]_Releases!vars
    OBVIOUS
  <2> USE DEF TypeInv, TypeOK, PassTyped
  <2>1. CASE UNCHANGED <<rel, biStatus>>
    BY <2>1 DEF Releases!vars
  \* An install or upgrade that Helm records as pending is Begin.
  <2>2. ASSUME NEW i \in Instances, Apply(i) PROVE [Releases!Next]_Releases!vars
    <3> DEFINE d == desired[i]
               st == ReleaseStateOf(rel[i], d)
               b == bi[i].spec
    <3>1. /\ bi[i] \in BICopy /\ d = BundleContent[b]
          /\ UNCHANGED biStatus
      BY <2>2 DEF Apply, RefInv, RefInvAt
    <3>2. b \in Bundles
      BY <3>1 DEF BICopy
    <3>3. CASE /\ st \in {"NeedsInstall", "NeedsUpgrade"}
               /\ rel' = [rel EXCEPT ![i] = NextRelease(rel[i], PendingStatus(st), d)]
      <4>1. CASE rel[i] = None
        <5>1. st = "NeedsInstall"
          BY <4>1 DEF ReleaseStateOf
        <5>2. Releases!Begin(i, b)
          BY <3>1, <3>3, <4>1, <5>1 DEF Releases!Begin, NextRelease, PendingStatus
        <5>3. QED
          BY <3>2, <5>2 DEF Releases!Next
      <4>2. CASE rel[i] # None
        <5>1. /\ st = "NeedsUpgrade"
              /\ rel[i].status \notin PendingStatuses
              /\ \/ d # rel[i].manifest
                 \/ rel[i].status \in {"failed", "superseded"}
          BY <3>3, <4>2 DEF ReleaseStateOf
        <5>2. Releases!Begin(i, b)
          BY <3>1, <3>3, <4>2, <5>1
          DEF Releases!Begin, Releases!InProgress, NextRelease, PendingStatus,
              PendingStatuses
        <5>3. QED
          BY <3>2, <5>2 DEF Releases!Next
      <4>3. QED
        BY <4>1, <4>2
    <3>4. CASE UNCHANGED rel
      BY <3>1, <3>4 DEF Releases!vars
    <3>5. QED
      BY <2>2, <3>3, <3>4 DEF Apply
  \* Helm finishing the pending release is Finish.
  <2>3. ASSUME NEW i \in Instances, ApplyDone(i) PROVE [Releases!Next]_Releases!vars
    <3>1. /\ rel[i] \in Release /\ rel[i].status \in PendingStatuses
          /\ UNCHANGED biStatus
      BY <2>3 DEF ApplyDone, RefInv, RefInvAt
    <3>2. PICK s \in {"deployed", "failed"} : rel' = [rel EXCEPT ![i].status = s]
      BY <2>3 DEF ApplyDone
    <3>3. Releases!Finish(i)
      BY <3>1, <3>2 DEF Releases!Finish, Releases!InProgress, PendingStatuses
    <3>4. QED
      BY <3>3 DEF Releases!Next
  \* A status patch that changes installedBundleName is Record.
  <2>4. ASSUME NEW i \in Instances, Patch(i) PROVE [Releases!Next]_Releases!vars
    <3> DEFINE new == [conds |-> bi[i].conds, installed |-> bi[i].installed]
    <3>1. UNCHANGED rel
      BY <2>4 DEF Patch
    <3>2. CASE UNCHANGED biStatus
      BY <3>1, <3>2 DEF Releases!vars
    <3>3. CASE biStatus' = [biStatus EXCEPT ![i] = new]
      <4>1. CASE bi[i].installed = biStatus[i].installed
        <5>1. [j \in Instances |-> biStatus'[j].installed]
                = [j \in Instances |-> biStatus[j].installed]
          BY <3>3, <4>1
        <5>2. QED
          BY <3>1, <5>1 DEF Releases!vars
      <4>2. CASE bi[i].installed # biStatus[i].installed
        <5>1. /\ pc[i] = "Patch"
              /\ bi[i].installed \in Bundles /\ Holds(i, bi[i].installed)
          BY <2>4, <4>2 DEF Patch, RefInv, RefInvAt
        <5>2. PICK b \in Bundles : b = bi[i].installed
          BY <5>1
        <5>3. [j \in Instances |-> biStatus'[j].installed]
                = [[j \in Instances |-> biStatus[j].installed] EXCEPT ![i] = b]
          BY <3>3, <5>2
        <5>4. Releases!Record(i, b)
          BY <3>1, <5>1, <5>2, <5>3 DEF Releases!Record, Holds
        <5>5. QED
          BY <5>4 DEF Releases!Next
      <4>3. QED
        BY <4>1, <4>2
    <3>4. QED
      BY <2>4, <3>2, <3>3 DEF Patch
  <2>5. QED
    BY <2>1, <2>2, <2>3, <2>4
       DEF Next, Reconcile, Environment, Start, LoadBundle, Watch, WatchStart,
           BundleChange, BundleRecreate, UpdateSpec, Drift, Resync, Restart, vars, envVars,
           storeVars
<1>3. QED
  BY <1>1, <1>2, TypeCorrect, RefInvariant, PTL
  DEF Spec, ReleasesRefined, Releases!Spec

=============================================================================
