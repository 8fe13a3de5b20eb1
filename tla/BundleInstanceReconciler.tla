---------------------- MODULE BundleInstanceReconciler ----------------------
(***************************************************************************)
(* The plain provisioner's BundleInstance controller                       *)
(* (internal/provisioner/plain/controllers/bundleinstance_controller.go).  *)
(*                                                                         *)
(* One reconciliation pass of Reconcile is a sequence of steps, one per    *)
(* call that reads or writes shared state (the API server, bundle storage, *)
(* the Helm release backend, the dynamic-watch registry).  Passes for      *)
(* different BundleInstances interleave; the workqueue never runs two      *)
(* passes for the same key at once.  Around the controller the module      *)
(* models its environment: the unpacker moving Bundle phases, users        *)
(* editing spec.bundleName, drift of the installed objects, the events     *)
(* that enqueue keys, failing calls, and process restarts.                 *)
(*                                                                         *)
(* Data is abstracted: a bundle's content is the set of resource kinds of  *)
(* its objects, and a Helm manifest is the content it renders.  Condition  *)
(* messages are left out.                                                  *)
(***************************************************************************)
EXTENDS Naturals, FiniteSets

CONSTANTS
    Instances,               \* names of BundleInstance objects (keys)
    Bundles,                 \* names of Bundle objects
    Kinds,                   \* GroupVersionKinds the bundles' objects have
    BundleContent,           \* BundleContent[b]: kinds of the objects in b
    Unmarshalable,           \* bundles whose objects yaml.Marshal rejects
    MaxConcurrentReconciles, \* worker goroutines of the controller
    MaxFaults,               \* bound on failing external calls
    MaxRestarts,             \* bound on process restarts
    MaxSpecUpdates,          \* bound on user edits of spec.bundleName
    MaxRecreations,          \* bound on re-creations of deleted Bundles
    CrashInHelmCall,         \* whether a restart may cut a Helm install/upgrade
    None                     \* sentinel: no value

ASSUME ConstantsAssumption ==
    /\ BundleContent \in [Bundles -> SUBSET Kinds]
    /\ Unmarshalable \subseteq Bundles
    /\ MaxConcurrentReconciles \in Nat \ {0}
    /\ MaxFaults \in Nat /\ MaxRestarts \in Nat /\ MaxSpecUpdates \in Nat
    /\ MaxRecreations \in Nat
    /\ CrashInHelmCall \in BOOLEAN
    /\ None \notin Instances \cup Bundles \cup Kinds
    /\ Bundles # {}

(***************************************************************************)
(* Vocabulary of api/v1alpha1 and of the controller.                       *)
(***************************************************************************)
PhasePending   == "Pending"
PhaseUnpacking == "Unpacking"
PhaseFailing   == "Failing"
PhaseUnpacked  == "Unpacked"
Phases == {PhasePending, PhaseUnpacking, PhaseFailing, PhaseUnpacked}
Absent == "Absent"   \* the Bundle object does not exist (Get: NotFound)

CondTypes == {"HasValidBundle", "InvalidBundleContent", "Installed"}
CondStatuses == {"True", "False", "Unknown"}
Reasons == {"BundleLookupFailed", "BundleLoadFailed", "ReadingContentFailed",
            "BundleUnpackPending", "BundleUnpackRunning",
            "BundleUnpackFailing", "BundleUnpackUnpacked",
            "ErrorGettingClient", "ErrorGettingReleaseState",
            "InstallFailed", "UpgradeFailed", "ReconcileFailed",
            "CreateDynamicWatchFailed", "InstallationSucceeded"}
Condition == [status : CondStatuses, reason : Reasons]
\* Status of a BundleInstance: conditions by type, installedBundleName.
BIStatus == [conds : [CondTypes -> Condition \cup {None}],
             installed : Bundles \cup {None}]
\* The working copy of the BundleInstance a pass reads and mutates.
BICopy == [spec : Bundles, gen : Nat, conds : [CondTypes -> Condition \cup {None}],
           installed : Bundles \cup {None}]

\* Helm's release statuses that getReleaseState meets: the two pending
\* ones are written when an install or upgrade starts.
PendingStatuses == {"pending-install", "pending-upgrade"}
ReleaseStatuses == {"deployed", "failed", "superseded"} \cup PendingStatuses
\* The latest Helm release of an instance: status, manifest, version.
Release == [status : ReleaseStatuses, manifest : SUBSET Kinds,
            version : Nat \ {0}]

\* The sentinel is no release (a nil *release.Release).
ASSUME NoneNotRelease == None \notin Release

PCs == {"Idle", "LoadBundle", "Apply", "Applying", "Watch", "WatchStart",
        "Patch"}

VARIABLES
    bundlePhase,  \* Bundle .status.phase, or Absent
    biSpec,       \* BundleInstance .spec.bundleName
    biGen,        \* BundleInstance resourceVersion, as a count of spec edits
    biStatus,     \* BundleInstance .status as stored by the API server
    rel,          \* latest Helm release named after the instance, or None
    drift,        \* kinds whose live objects differ from the release
    applied,      \* history: bundles whose content a pass applied for i
    watchGVKs,    \* r.dynamicWatchGVKs
    subs,         \* informers started by r.Controller.Watch, per kind
    lockHolder,   \* holder of r.dynamicWatchMutex, or None
    queue,        \* keys waiting in the workqueue
    pc,           \* step of the pass running for each key
    bi,           \* the pass's working copy of the BundleInstance
    phase1,       \* b.Status.Phase read by the first Get of the Bundle
    desired,      \* kinds of desiredObjects loaded by loadBundle
    todo,         \* kinds the watch loop has still to visit
    cur,          \* kind the watch loop is at
    retErr,       \* whether the pass returns an error (requeue)
    faults, restarts, specUpdates, recreations  \* budgets of the environment

envVars   == <<bundlePhase, biSpec, biGen, specUpdates, recreations>>
storeVars == <<biStatus, rel, drift, applied>>
watchVars == <<watchGVKs, subs, lockHolder>>
passVars  == <<pc, bi, phase1, desired, todo, cur, retErr>>
vars == <<envVars, storeVars, watchVars, passVars, queue, faults, restarts>>

NoConds == [t \in CondTypes |-> None]

Init ==
    /\ bundlePhase = [b \in Bundles |-> PhasePending]
    /\ biSpec \in [Instances -> Bundles]
    /\ biGen = [i \in Instances |-> 0]
    /\ biStatus = [i \in Instances |-> [conds |-> NoConds, installed |-> None]]
    /\ rel = [i \in Instances |-> None]
    /\ drift = [i \in Instances |-> {}]
    /\ applied = [i \in Instances |-> {}]
    /\ watchGVKs = {}
    /\ subs = [k \in Kinds |-> 0]
    /\ lockHolder = None
    /\ queue = Instances
    /\ pc = [i \in Instances |-> "Idle"]
    /\ bi = [i \in Instances |-> None]
    /\ phase1 = [i \in Instances |-> None]
    /\ desired = [i \in Instances |-> {}]
    /\ todo = [i \in Instances |-> {}]
    /\ cur = [i \in Instances |-> None]
    /\ retErr = [i \in Instances |-> FALSE]
    /\ faults = 0 /\ restarts = 0 /\ specUpdates = 0 /\ recreations = 0

-----------------------------------------------------------------------------
(***************************************************************************)
(* Helpers.                                                                *)
(***************************************************************************)

\* An external call fails: consumes one unit of the fault budget.
Fault == faults < MaxFaults /\ faults' = faults + 1

\* meta.SetStatusCondition on the pass's copy: upsert by type.
SetCond(i, t, s, r) ==
    bi' = [bi EXCEPT ![i].conds[t] = [status |-> s, reason |-> r]]

\* The pass returns (with or without error); the deferred patch runs next.
Return(i, err) ==
    /\ pc' = [pc EXCEPT ![i] = "Patch"]
    /\ retErr' = [retErr EXCEPT ![i] = err]

\* Mutant: the reason built as "BundleUnpack" + phase for every phase,
\* without the special case for Unpacking.
UnpackReasonNoRunning(p) ==
    [Pending |-> "BundleUnpackPending", Unpacking |-> "BundleUnpackUnpacking",
     Failing |-> "BundleUnpackFailing", Unpacked |-> "BundleUnpackUnpacked"][p]

\* Reason of the not-yet-unpacked condition, from the phase p
\* ("BundleUnpack" + phase, Unpacking spelled Running).
UnpackReason(p) ==
    IF p = PhaseUnpacking THEN "BundleUnpackRunning"
    ELSE [Pending |-> "BundleUnpackPending", Failing |-> "BundleUnpackFailing",
          Unpacked |-> "BundleUnpackUnpacked"][p]

\* Mutant: the status test inverted (upgrade a deployed release).
ReleaseStateOfDeployedUpgrades(r, d) ==
    IF r = None THEN "NeedsInstall"
    ELSE IF r.status \in PendingStatuses THEN "Error"
    ELSE IF d # r.manifest \/ r.status = "deployed"
         THEN "NeedsUpgrade" ELSE "Unchanged"

\* Mutant: a release left pending is compared like any other (a dry-run
\* upgrade that does not refuse while an operation is in progress).
ReleaseStateOfIgnoresPending(r, d) ==
    IF r = None THEN "NeedsInstall"
    ELSE IF d # r.manifest \/ r.status = "failed" \/ r.status = "superseded"
         THEN "NeedsUpgrade" ELSE "Unchanged"

\* Mutant: the dry-run manifest comparison dropped.
ReleaseStateOfNoDiff(r, d) ==
    IF r = None THEN "NeedsInstall"
    ELSE IF r.status \in PendingStatuses THEN "Error"
    ELSE IF r.status = "failed" \/ r.status = "superseded"
         THEN "NeedsUpgrade" ELSE "Unchanged"

\* getReleaseState on a successful Get: the dry-run upgrade of a release
\* left pending fails (Helm refuses to upgrade while an operation is in
\* progress); otherwise the dry-run manifest of content d is d itself.
ReleaseStateOf(r, d) ==
    IF r = None THEN "NeedsInstall"
    ELSE IF r.status \in PendingStatuses THEN "Error"
    ELSE IF \/ d # r.manifest
            \/ r.status = "failed"
            \/ r.status = "superseded"
         THEN "NeedsUpgrade"
         ELSE "Unchanged"

Busy == {j \in Instances : pc[j] # "Idle"}

-----------------------------------------------------------------------------
(***************************************************************************)
(* The steps of Reconcile.                                                 *)
(***************************************************************************)

\* A worker dequeues key i, Gets the BundleInstance (lines 92-95) and the
\* Bundle it references (lines 104-117).  The two reads are one step: no
\* write of this pass lies between them.
Start(i) ==
    LET b == biSpec[i]
        copy == [spec |-> b, gen |-> biGen[i], conds |-> biStatus[i].conds,
                 installed |-> biStatus[i].installed]
        setCond(s) == bi' = [bi EXCEPT ![i] = [copy EXCEPT !.conds["HasValidBundle"] =
                                 [status |-> s, reason |-> "BundleLookupFailed"]]]
    IN
    /\ pc[i] = "Idle" /\ i \in queue
    /\ Cardinality(Busy) < MaxConcurrentReconciles
    /\ \/ /\ Fault   \* the Get of the BundleInstance fails: requeued,
                     \* before the status patch is deferred
          /\ UNCHANGED <<queue, passVars>>
       \/ /\ queue' = queue \ {i}
          /\ \/ /\ bundlePhase[b] = Absent   \* IgnoreNotFound: no error
                /\ setCond("False")
                /\ Return(i, FALSE)
                /\ UNCHANGED <<faults, phase1>>
             \/ /\ Fault
                /\ setCond("Unknown")
                /\ Return(i, TRUE)
                /\ UNCHANGED phase1
             \/ /\ bundlePhase[b] # Absent
                /\ bi' = [bi EXCEPT ![i] = copy]
                /\ phase1' = [phase1 EXCEPT ![i] = bundlePhase[b]]
                /\ pc' = [pc EXCEPT ![i] = "LoadBundle"]
                /\ UNCHANGED <<retErr, faults>>
    /\ UNCHANGED <<envVars, storeVars, watchVars, desired, todo, cur, restarts>>

\* loadBundle (lines 319-343) on bundle b, when its Get and the storage Load
\* do not fail: NotFound, not yet unpacked, or the objects.  The owner
\* labels it merges in are data the model leaves out.
LoadBundleResult(b) ==
    CASE bundlePhase[b] = Absent -> "NotFound"
      [] bundlePhase[b] # PhaseUnpacked -> "NotUnpacked"
      [] OTHER -> "Loaded"

\* Mutant: installedBundleName set as soon as the content is loaded.
LoadBundleEarlyInstalled(i) ==
    LET b == bi[i].spec IN
    /\ pc[i] = "LoadBundle"
    /\ \/ /\ \/ LoadBundleResult(b) = "NotFound" /\ UNCHANGED faults
             \/ Fault
          /\ SetCond(i, "HasValidBundle", "False", "BundleLoadFailed")
          /\ Return(i, TRUE)
          /\ UNCHANGED desired
       \/ /\ LoadBundleResult(b) = "NotUnpacked"
          /\ SetCond(i, "Installed", "False", UnpackReason(phase1[i]))
          /\ Return(i, FALSE)
          /\ UNCHANGED <<desired, faults>>
       \/ /\ LoadBundleResult(b) = "Loaded" /\ b \in Unmarshalable
          /\ SetCond(i, "InvalidBundleContent", "True", "ReadingContentFailed")
          /\ Return(i, TRUE)
          /\ UNCHANGED <<desired, faults>>
       \/ /\ LoadBundleResult(b) = "Loaded" /\ b \notin Unmarshalable
          /\ desired' = [desired EXCEPT ![i] = BundleContent[b]]
          /\ bi' = [bi EXCEPT ![i].installed = b]
          /\ pc' = [pc EXCEPT ![i] = "Apply"]
          /\ UNCHANGED <<retErr, faults>>
    /\ UNCHANGED <<envVars, storeVars, watchVars, queue, phase1, todo, cur,
                   restarts>>

\* The call of loadBundle and the chart built from its objects
\* (lines 119-162).  loadBundle Gets the Bundle a second time: the phase it
\* checks may differ from phase1, which the not-unpacked reason uses.
LoadBundle(i) ==
    LET b == bi[i].spec IN
    /\ pc[i] = "LoadBundle"
    /\ \/ /\ \/ LoadBundleResult(b) = "NotFound" /\ UNCHANGED faults
             \/ Fault   \* the Get, or storage Load, fails
          /\ SetCond(i, "HasValidBundle", "False", "BundleLoadFailed")
          /\ Return(i, TRUE)
          /\ UNCHANGED desired
       \/ /\ LoadBundleResult(b) = "NotUnpacked"
          /\ SetCond(i, "Installed", "False", UnpackReason(phase1[i]))
          /\ Return(i, FALSE)
          /\ UNCHANGED <<desired, faults>>
       \/ /\ LoadBundleResult(b) = "Loaded" /\ b \in Unmarshalable
          /\ SetCond(i, "InvalidBundleContent", "True", "ReadingContentFailed")
          /\ Return(i, TRUE)
          /\ UNCHANGED <<desired, faults>>
       \/ /\ LoadBundleResult(b) = "Loaded" /\ b \notin Unmarshalable
          /\ desired' = [desired EXCEPT ![i] = BundleContent[b]]
          /\ pc' = [pc EXCEPT ![i] = "Apply"]
          /\ UNCHANGED <<bi, retErr, faults>>
    /\ UNCHANGED <<envVars, storeVars, watchVars, queue, phase1, todo, cur,
                   restarts>>

\* The new latest release after an install or upgrade of content d.
NextRelease(r, s, d) ==
    [status |-> s, manifest |-> d,
     version |-> IF r = None THEN 1 ELSE r.version + 1]

\* The apply succeeded: go on to the watch loop over the desired kinds.
ApplyOk(i) ==
    /\ pc' = [pc EXCEPT ![i] = "Watch"]
    /\ todo' = [todo EXCEPT ![i] = desired[i]]
    /\ drift' = [drift EXCEPT ![i] = {}]
    /\ applied' = [applied EXCEPT ![i] = @ \cup {bi[i].spec}]
    /\ UNCHANGED <<bi, retErr>>

\* A call of the apply phase failed: Installed=False with its reason.
ApplyFail(i, reason) ==
    /\ SetCond(i, "Installed", "False", reason)
    /\ Return(i, TRUE)
    /\ UNCHANGED <<drift, applied, todo>>

\* The reason of a failed install or upgrade, by release state.
FailedReason(st) == IF st = "NeedsInstall" THEN "InstallFailed" ELSE "UpgradeFailed"

\* The status Helm records when it starts an install or upgrade.
PendingStatus(st) ==
    IF st = "NeedsInstall" THEN "pending-install" ELSE "pending-upgrade"

\* ActionClientFor, getReleaseState (release Get, dry-run upgrade and
\* comparison) and the Install, Upgrade or Reconcile the state selects
\* (lines 164-226, 284-305).  Only this pass touches rel[i] (the workqueue
\* serialises a key), so the decision and its use are one step.  An
\* install or upgrade fails before Helm records a release, or records a
\* pending release and finishes it in ApplyDone.
Apply(i) ==
    LET d == desired[i]
        st == ReleaseStateOf(rel[i], d)
    IN
    /\ pc[i] = "Apply"
    /\ \/ Fault /\ ApplyFail(i, "ErrorGettingClient") /\ UNCHANGED rel
       \/ Fault /\ ApplyFail(i, "ErrorGettingReleaseState") /\ UNCHANGED rel
       \/ /\ st = "Error"
          /\ ApplyFail(i, "ErrorGettingReleaseState")
          /\ UNCHANGED <<rel, faults>>
       \/ /\ st \in {"NeedsInstall", "NeedsUpgrade"}
          /\ \/ Fault /\ ApplyFail(i, FailedReason(st)) /\ UNCHANGED rel
             \/ /\ rel' = [rel EXCEPT ![i] = NextRelease(rel[i], PendingStatus(st), d)]
                /\ pc' = [pc EXCEPT ![i] = "Applying"]
                /\ UNCHANGED <<bi, retErr, faults, drift, applied, todo>>
       \/ /\ st = "Unchanged"
          /\ \/ ApplyOk(i) /\ UNCHANGED faults
             \/ Fault /\ ApplyFail(i, "ReconcileFailed")
          /\ UNCHANGED rel
    /\ UNCHANGED <<envVars, biStatus, watchVars, queue, phase1, desired, cur,
                   restarts>>

\* Helm finishes the install or upgrade it recorded as pending: the
\* release is deployed, or marked failed and the call returns its error.
ApplyDone(i) ==
    /\ pc[i] = "Applying"
    /\ \/ /\ ApplyOk(i) /\ UNCHANGED faults
          /\ rel' = [rel EXCEPT ![i].status = "deployed"]
       \/ /\ Fault
          /\ ApplyFail(i, IF rel[i].status = "pending-install"
                          THEN "InstallFailed" ELSE "UpgradeFailed")
          /\ rel' = [rel EXCEPT ![i].status = "failed"]
    /\ UNCHANGED <<envVars, biStatus, watchVars, queue, phase1, desired, cur,
                   restarts>>

\* Mutant: the map checked without taking dynamicWatchMutex.
WatchUnlocked(i) ==
    /\ pc[i] = "Watch"
    /\ \/ /\ todo[i] = {}
          /\ bi' = [bi EXCEPT ![i].conds["Installed"] =
                        [status |-> "True", reason |-> "InstallationSucceeded"],
                              ![i].installed = bi[i].spec]
          /\ Return(i, FALSE)
          /\ UNCHANGED <<lockHolder, cur, todo, faults>>
       \/ /\ todo[i] # {}
          /\ Fault   \* ToUnstructured fails (lines 229-238)
          /\ SetCond(i, "Installed", "False", "CreateDynamicWatchFailed")
          /\ Return(i, TRUE)
          /\ UNCHANGED <<lockHolder, cur, todo>>
       \/ /\ \E k \in todo[i] :
                \/ /\ k \in watchGVKs
                   /\ todo' = [todo EXCEPT ![i] = @ \ {k}]
                   /\ UNCHANGED <<pc, cur>>
                \/ /\ k \notin watchGVKs
                   /\ cur' = [cur EXCEPT ![i] = k]
                   /\ pc' = [pc EXCEPT ![i] = "WatchStart"]
                   /\ UNCHANGED todo
          /\ UNCHANGED <<bi, retErr, lockHolder, faults>>
    /\ UNCHANGED <<envVars, storeVars, watchGVKs, subs, queue, phase1,
                   desired, restarts>>

\* Head of the loop over desiredObjects (lines 228-272).  At the end, mark
\* the instance installed.  Otherwise lock dynamicWatchMutex for the next
\* kind and check the map (lines 242-246): if watched, unlock and go on;
\* if not, go on to start the watch, still holding the lock.
Watch(i) ==
    /\ pc[i] = "Watch"
    /\ \/ /\ todo[i] = {}
          /\ bi' = [bi EXCEPT ![i].conds["Installed"] =
                        [status |-> "True", reason |-> "InstallationSucceeded"],
                              ![i].installed = bi[i].spec]
          /\ Return(i, FALSE)
          /\ UNCHANGED <<lockHolder, cur, todo, faults>>
       \/ /\ todo[i] # {}
          /\ Fault   \* ToUnstructured fails (lines 229-238)
          /\ SetCond(i, "Installed", "False", "CreateDynamicWatchFailed")
          /\ Return(i, TRUE)
          /\ UNCHANGED <<lockHolder, cur, todo>>
       \/ /\ lockHolder = None
          /\ \E k \in todo[i] :
                \/ /\ k \in watchGVKs
                   /\ todo' = [todo EXCEPT ![i] = @ \ {k}]
                   /\ UNCHANGED <<pc, lockHolder, cur>>
                \/ /\ k \notin watchGVKs
                   /\ cur' = [cur EXCEPT ![i] = k]
                   /\ lockHolder' = i
                   /\ pc' = [pc EXCEPT ![i] = "WatchStart"]
                   /\ UNCHANGED todo
          /\ UNCHANGED <<bi, retErr, faults>>
    /\ UNCHANGED <<envVars, storeVars, watchGVKs, subs, queue, phase1,
                   desired, restarts>>

\* Mutant: a failing r.Controller.Watch is logged and the loop goes on.
WatchStartIgnoresError(i) ==
    LET k == cur[i] IN
    /\ pc[i] = "WatchStart"
    /\ lockHolder' = None
    /\ cur' = [cur EXCEPT ![i] = None]
    /\ todo' = [todo EXCEPT ![i] = @ \ {k}]
    /\ pc' = [pc EXCEPT ![i] = "Watch"]
    /\ \/ Fault /\ UNCHANGED <<watchGVKs, subs>>
       \/ /\ subs' = [subs EXCEPT ![k] = @ + 1]
          /\ watchGVKs' = watchGVKs \cup {k}
          /\ UNCHANGED faults
    /\ UNCHANGED <<envVars, storeVars, queue, phase1, desired, bi, retErr,
                   restarts>>

\* Under the mutex: r.Controller.Watch and the insert into the map, then
\* the deferred unlock (lines 246-264).  The informer's initial list gives
\* Create events, which DependentPredicateFuncs drops: starting a watch
\* enqueues nobody.
WatchStart(i) ==
    LET k == cur[i] IN
    /\ pc[i] = "WatchStart"
    /\ lockHolder' = None
    /\ cur' = [cur EXCEPT ![i] = None]
    /\ \/ /\ Fault
          /\ SetCond(i, "Installed", "False", "CreateDynamicWatchFailed")
          /\ Return(i, TRUE)
          /\ UNCHANGED <<watchGVKs, subs, todo>>
       \/ /\ subs' = [subs EXCEPT ![k] = @ + 1]
          /\ watchGVKs' = watchGVKs \cup {k}
          /\ todo' = [todo EXCEPT ![i] = @ \ {k}]
          /\ pc' = [pc EXCEPT ![i] = "Watch"]
          /\ UNCHANGED <<bi, retErr, faults>>
    /\ UNCHANGED <<envVars, storeVars, queue, phase1, desired, restarts>>

\* The deferred status patch (lines 96-102), then the workqueue's Done:
\* requeue on error.  The patch is an apply carrying the resourceVersion
\* read at the start, so it conflicts if the object changed since; a
\* stored status that changes is an update event that enqueues i again.
Patch(i) ==
    LET new == [conds |-> bi[i].conds, installed |-> bi[i].installed]
        again == IF retErr[i] THEN {i} ELSE {}
    IN
    /\ pc[i] = "Patch"
    /\ \/ /\ \/ Fault
             \/ biGen[i] # bi[i].gen /\ UNCHANGED faults
          /\ queue' = queue \cup again
          /\ UNCHANGED biStatus
       \/ /\ biGen[i] = bi[i].gen
          /\ biStatus' = [biStatus EXCEPT ![i] = new]
          /\ queue' = queue \cup again \cup (IF new # biStatus[i] THEN {i} ELSE {})
          /\ UNCHANGED faults
    /\ pc' = [pc EXCEPT ![i] = "Idle"]
    /\ bi' = [bi EXCEPT ![i] = None]
    /\ phase1' = [phase1 EXCEPT ![i] = None]
    /\ desired' = [desired EXCEPT ![i] = {}]
    /\ cur' = [cur EXCEPT ![i] = None]
    /\ todo' = [todo EXCEPT ![i] = {}]
    /\ retErr' = [retErr EXCEPT ![i] = FALSE]
    /\ UNCHANGED <<envVars, rel, drift, applied, watchVars, restarts>>

Reconcile(i) ==
    \/ Start(i) \/ LoadBundle(i) \/ Apply(i) \/ ApplyDone(i) \/ Watch(i)
    \/ WatchStart(i) \/ Patch(i)

-----------------------------------------------------------------------------
(***************************************************************************)
(* The environment.                                                        *)
(***************************************************************************)

\* Bundles that reference b are enqueued on a change of b
\* (MapBundleToBundleInstanceHandler).
Referencing(b) == {i \in Instances : biSpec[i] = b}

\* The unpacker moves a Bundle along Pending -> Unpacking -> Unpacked or
\* Failing; a user may delete a Bundle.
BundleChange(b) ==
    /\ bundlePhase[b] # Absent
    /\ bundlePhase' \in {[bundlePhase EXCEPT ![b] = p] :
          p \in CASE bundlePhase[b] = PhasePending -> {PhaseUnpacking, Absent}
                  [] bundlePhase[b] = PhaseUnpacking ->
                        {PhaseUnpacked, PhaseFailing, Absent}
                  [] OTHER -> {Absent}}
    /\ queue' = queue \cup Referencing(b)
    /\ UNCHANGED <<biSpec, biGen, specUpdates, recreations, storeVars,
                   watchVars, passVars, faults, restarts>>

\* A user creates again a deleted Bundle of the same name: it starts
\* Pending, and the instances that reference it are enqueued.
BundleRecreate(b) ==
    /\ bundlePhase[b] = Absent
    /\ recreations < MaxRecreations
    /\ bundlePhase' = [bundlePhase EXCEPT ![b] = PhasePending]
    /\ recreations' = recreations + 1
    /\ queue' = queue \cup Referencing(b)
    /\ UNCHANGED <<biSpec, biGen, specUpdates, storeVars, watchVars, passVars,
                   faults, restarts>>

\* A user points the instance at another bundle.
UpdateSpec(i, b) ==
    /\ specUpdates < MaxSpecUpdates
    /\ b # biSpec[i]
    /\ biSpec' = [biSpec EXCEPT ![i] = b]
    /\ biGen' = [biGen EXCEPT ![i] = @ + 1]
    /\ specUpdates' = specUpdates + 1
    /\ queue' = queue \cup {i}
    /\ UNCHANGED <<bundlePhase, recreations, storeVars, watchVars, passVars, faults, restarts>>

\* Someone changes or deletes a live object of kind k that i's release
\* owns.  An informer on k sees it and enqueues the owner.
Drift(i, k) ==
    /\ rel[i] # None /\ k \in rel[i].manifest /\ k \notin drift[i]
    /\ drift' = [drift EXCEPT ![i] = @ \cup {k}]
    /\ queue' = queue \cup (IF k \in watchGVKs THEN {i} ELSE {})
    /\ UNCHANGED <<envVars, biStatus, rel, applied, watchVars, passVars,
                   faults, restarts>>

\* The cache's periodic resync delivers an update of every BundleInstance.
Resync ==
    /\ queue' = Instances
    /\ UNCHANGED <<envVars, storeVars, watchVars, passVars, faults, restarts>>

\* The process restarts: passes, the mutex, the watch map and the informers
\* are lost; the initial list enqueues every BundleInstance.  A restart
\* inside a Helm install or upgrade leaves its release pending; the runs
\* that exclude it set CrashInHelmCall to FALSE.
Restart ==
    /\ restarts < MaxRestarts
    /\ CrashInHelmCall \/ \A i \in Instances : pc[i] # "Applying"
    /\ restarts' = restarts + 1
    /\ watchGVKs' = {} /\ subs' = [k \in Kinds |-> 0] /\ lockHolder' = None
    /\ queue' = Instances
    /\ pc' = [i \in Instances |-> "Idle"]
    /\ bi' = [i \in Instances |-> None]
    /\ phase1' = [i \in Instances |-> None]
    /\ desired' = [i \in Instances |-> {}]
    /\ todo' = [i \in Instances |-> {}]
    /\ cur' = [i \in Instances |-> None]
    /\ retErr' = [i \in Instances |-> FALSE]
    /\ UNCHANGED <<envVars, storeVars, faults>>

Environment ==
    \/ \E b \in Bundles : BundleChange(b)
    \/ \E b \in Bundles : BundleRecreate(b)
    \/ \E i \in Instances, b \in Bundles : UpdateSpec(i, b)
    \/ \E i \in Instances, k \in Kinds : Drift(i, k)
    \/ Resync
    \/ Restart

Next == (\E i \in Instances : Reconcile(i)) \/ Environment

Spec == Init /\ [][Next]_vars

\* Each pass runs to its end; a queued key is eventually dequeued and the
\* mutex eventually granted (both wait on others, hence strong fairness);
\* the cache resyncs periodically.
Fairness ==
    /\ \A i \in Instances :
        /\ SF_vars(Start(i)) /\ SF_vars(Watch(i))
        /\ WF_vars(LoadBundle(i)) /\ WF_vars(Apply(i)) /\ WF_vars(ApplyDone(i))
        /\ WF_vars(WatchStart(i)) /\ WF_vars(Patch(i))

FairSpec == Spec /\ Fairness /\ WF_vars(Resync)

\* The same, relying on watch events alone: no periodic resync.
WatchOnlySpec == Spec /\ Fairness

-----------------------------------------------------------------------------
(***************************************************************************)
(* Properties.                                                             *)
(***************************************************************************)

TypeOK ==
    /\ bundlePhase \in [Bundles -> Phases \cup {Absent}]
    /\ biSpec \in [Instances -> Bundles]
    /\ biGen \in [Instances -> Nat]
    /\ biStatus \in [Instances -> BIStatus]
    /\ rel \in [Instances -> Release \cup {None}]
    /\ drift \in [Instances -> SUBSET Kinds]
    /\ applied \in [Instances -> SUBSET Bundles]
    /\ watchGVKs \subseteq Kinds
    /\ subs \in [Kinds -> Nat]
    /\ lockHolder \in Instances \cup {None}
    /\ queue \subseteq Instances
    /\ pc \in [Instances -> PCs]
    /\ bi \in [Instances -> BICopy \cup {None}]
    /\ phase1 \in [Instances -> Phases \cup {None}]
    /\ desired \in [Instances -> SUBSET Kinds]
    /\ todo \in [Instances -> SUBSET Kinds]
    /\ cur \in [Instances -> Kinds \cup {None}]
    /\ retErr \in [Instances -> BOOLEAN]
    /\ faults \in Nat /\ restarts \in Nat /\ specUpdates \in Nat
    /\ recreations \in Nat

\* Exactly-once watch registration (spec 4.6, invariant 3): however the
\* passes of different instances interleave around dynamicWatchMutex, a kind
\* is in dynamicWatchGVKs exactly when one informer for it was started, and
\* no kind ever gets a second informer in the same process.
WatchRegisteredOnce ==
    \A k \in Kinds : subs[k] = IF k \in watchGVKs THEN 1 ELSE 0

\* Pass-local state is defined where a step reads it: the working copy once
\* a pass has started, the first phase read while loading, the kind while
\* a watch is being started, the pending release while Helm finishes it.
PassTyped ==
    \A i \in Instances :
        /\ pc[i] # "Idle" => bi[i] \in BICopy
        /\ pc[i] = "LoadBundle" => phase1[i] \in Phases
        /\ pc[i] = "WatchStart" => cur[i] \in Kinds
        /\ pc[i] = "Applying" => rel[i] \in Release

TypeInv == TypeOK /\ PassTyped

\* The strengthening of WatchRegisteredOnce: a pass starting a watch holds
\* the mutex and has seen its kind unwatched, and only such a pass holds it.
WatchInv ==
    /\ WatchRegisteredOnce
    /\ \A i \in Instances :
          pc[i] = "WatchStart" => lockHolder = i /\ cur[i] \notin watchGVKs
    /\ lockHolder # None => pc[lockHolder] = "WatchStart"

\* The stored installedBundleName only ever names a bundle whose content a
\* pass for that instance installed, upgraded to or re-asserted (spec
\* invariant 4), across failed applies, lost patches and restarts.
InstalledOnlyAfterApply ==
    \A i \in Instances : biStatus[i].installed \in applied[i] \cup {None}

\* The strengthening of InstalledOnlyAfterApply: a pass's working copy
\* names only applied bundles, and once the apply succeeded (the watch
\* loop) the spec it will mark installed is one of them.
InstalledInv ==
    /\ InstalledOnlyAfterApply
    /\ \A i \in Instances :
          /\ pc[i] # "Idle" => bi[i].installed \in applied[i] \cup {None}
          /\ pc[i] \in {"Watch", "WatchStart"} => bi[i].spec \in applied[i]

\* Watches before success (spec 4.6): a pass reports Installed=True and
\* installedBundleName only once an informer runs for every kind of the
\* objects it applied, whether this pass or another instance's started it;
\* a failing ToUnstructured or Watch ends the pass with an error instead.
InstalledOnlyWatched ==
    [][\A i \in Instances :
         (pc[i] = "Watch" /\ pc'[i] = "Patch" /\ ~retErr'[i])
            => desired[i] \subseteq watchGVKs]_vars

\* The strengthening of InstalledOnlyWatched: in the watch loop, every
\* kind the pass has visited is watched.
WatchedSoFar ==
    \A i \in Instances :
        pc[i] \in {"Watch", "WatchStart"} => desired[i] \ todo[i] \subseteq watchGVKs

\* A step records a new Helm release version for i.
NewRevision(i) ==
    rel'[i] # None /\ (rel[i] = None \/ rel'[i].version # rel[i].version)

\* Idempotent heal (spec 8): a new release version is recorded only if there
\* was no release, the rendered content changed, or the latest release is
\* failed or superseded; re-running a pass after a crash or a lost status
\* patch re-asserts the release instead of upgrading it again.
NoSpuriousRevision ==
    [][\A i \in Instances :
         NewRevision(i) =>
            \/ rel[i] = None
            \/ rel[i].status \in {"failed", "superseded"}
            \/ rel[i].manifest # rel'[i].manifest]_vars

\* Spec invariant 1: a release apply operation (install, upgrade, or the
\* heal of an unchanged release) is issued only while the instance's
\* Bundle is Unpacked, although loadBundle checked the phase one step
\* earlier and the unpacker or a user may act in between.
ApplyOnlyUnpacked ==
    [][\A i \in Instances :
         (pc[i] = "Apply" /\ pc'[i] \in {"Applying", "Watch"})
            => bundlePhase[bi[i].spec] = PhaseUnpacked]_vars

\* The instance's bundle is unpacked and its content can be rendered.
Installable(i) ==
    /\ bundlePhase[biSpec[i]] = PhaseUnpacked
    /\ biSpec[i] \notin Unmarshalable

\* The release holds the referenced bundle's content, deployed, without
\* drift, and the stored status says so.
Converged(i) ==
    /\ rel[i] # None
    /\ rel[i].status = "deployed"
    /\ rel[i].manifest = BundleContent[biSpec[i]]
    /\ drift[i] = {}
    /\ biStatus[i].installed = biSpec[i]
    /\ biStatus[i].conds["Installed"] =
          [status |-> "True", reason |-> "InstallationSucceeded"]

\* Convergence (spec 1, 5): while an instance's bundle is unpacked, the
\* controller eventually installs or upgrades to its content, heals drift
\* and records success, despite failed calls, conflicting status patches,
\* restarts and other instances' passes.
Convergence ==
    \A i \in Instances : Installable(i) ~> (Converged(i) \/ ~Installable(i))

\* The not-yet-unpacked condition names the phase in which loadBundle found
\* the Bundle (spec 4.1: the condition carries the current phase).
UnpackReasonCurrent ==
    [][\A i \in Instances :
         LET p == bundlePhase[bi[i].spec] IN
         (pc[i] = "LoadBundle" /\ pc'[i] = "Patch" /\ ~retErr'[i]
            /\ p \in Phases \ {PhaseUnpacked})
            => bi'[i].conds["Installed"].reason = UnpackReason(p)]_vars

\* Drift of an installed instance's objects re-triggers reconciliation and
\* is healed (spec 1, 4.6), through the dynamic watches alone.
DriftRepaired ==
    \A i \in Instances :
        (drift[i] # {} /\ Installable(i)) ~> (drift[i] = {} \/ ~Installable(i))

-----------------------------------------------------------------------------
(***************************************************************************)
(* Refinement of the release contract.                                     *)
(***************************************************************************)

\* The contract on the Helm releases and the stored installedBundleName.
Releases == INSTANCE BundleInstanceReleases
                WITH installed <- [i \in Instances |-> biStatus[i].installed]

\* Whatever the passes, failures, conflicting patches, restarts and
\* environment do, every step either starts an install or upgrade that
\* getReleaseState justifies, finishes a pending release, records as
\* installed a bundle whose content is deployed, or changes neither the
\* releases nor installedBundleName (spec 5, 8 and invariant 4).
ReleasesRefined == Releases!Spec

\* The latest release is deployed with the content of bundle b.
Holds(i, b) ==
    rel[i] # None /\ rel[i].status = "deployed" /\ rel[i].manifest = BundleContent[b]

\* The strengthening the refinement rests on: a pass reports the stored
\* installedBundleName until its watch loop ends; the content it applies
\* is its bundle's; a pending release is its own, with that content; from
\* the successful apply on the release holds its bundle, deployed; and a
\* patch that would change installedBundleName carries a bundle that holds.
RefInvAt(i) ==
    /\ pc[i] \in {"LoadBundle", "Apply", "Applying", "Watch", "WatchStart"}
          => bi[i].installed = biStatus[i].installed
    /\ pc[i] \in {"Apply", "Applying"} => desired[i] = BundleContent[bi[i].spec]
    /\ pc[i] = "Applying" => /\ rel[i].status \in PendingStatuses
                            /\ rel[i].manifest = desired[i]
    /\ pc[i] \in {"Watch", "WatchStart"} => Holds(i, bi[i].spec)
    /\ pc[i] = "Patch" /\ bi[i].installed # biStatus[i].installed
          => bi[i].installed \in Bundles /\ Holds(i, bi[i].installed)

\* The refinement invariant holds for every instance.
RefInv == \A i \in Instances : RefInvAt(i)

=============================================================================
