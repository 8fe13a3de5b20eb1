# TLA+ models of the plain provisioner's BundleInstance controller

This directory holds TLA+ models, TLC configurations and TLAPS proofs for
`src/internal/provisioner/plain/controllers/bundleinstance_controller.go`.
That file is the only program code under `src/`; the rest is API types,
deployment manifests, CI and documentation.

## 1. The system and its parts

| Part | Source | State | Operations |
|---|---|---|---|
| Reconcile pass | `bundleinstance_controller.go` 87-273 | the working copy `bi`, `desiredObjects`, the loop position, the returned error | Get BI and Bundle; loadBundle; build chart; ActionClientFor; getReleaseState; Install / Upgrade / Reconcile; per-kind watch registration; deferred status patch |
| Release-state evaluator | same file, 284-305 | none (reads the Helm release) | Get, dry-run Upgrade, comparison of manifest and status |
| Content loader | same file, 319-343 | none (reads Bundle and storage) | Get Bundle, phase check, storage Load, owner labels |
| Dynamic watch registry | same file, 67-68, 241-256, 355 | `dynamicWatchGVKs`, `dynamicWatchMutex`, the started informers | locked check-then-Watch-then-insert; emptied when the process starts |
| Bundle phases | `src/unnamed/part_000` 36-39 | `Bundle.Status.Phase` | moved by the unpacker, which is not under `src/` |
| Webhook manifests, deploy workflow, bundle format doc | `src/unnamed/part_001`, `src/.github/...`, `src/docs/...` | none | none |

How the parts interact:

- controller-runtime runs `Reconcile` from a workqueue. Keys are
  deduplicated, and one key is never processed by two workers at once.
  `MaxConcurrentReconciles` workers run passes for different keys in
  parallel.
- These events enqueue a key:
  - a BundleInstance event, including the update that the pass's own
    status patch causes;
  - a Bundle event, through `MapBundleToBundleInstanceHandler`;
  - an event on any object of a watched kind owned by the instance,
    through `EnqueueRequestForOwner`. `DependentPredicateFuncs` drops the
    Create events of an informer's initial list;
  - a periodic resync.
- A pass that returns an error is requeued.
- The only state shared between passes is the watch registry. The Helm
  release of an instance is written only by that instance's passes.
- On restart, the registry and every in-flight pass are lost. What
  survives is in the cluster: the Bundles, the BundleInstances and their
  status, and the Helm releases.

The behaviours that are hard to test here:

- passes of different instances racing on a new kind;
- a restart between a successful apply and the status patch;
- a status patch that conflicts because the spec was edited during the
  pass and is therefore lost;
- a failed install or upgrade that leaves a failed release behind;
- the Bundle changing phase between the two Gets of one pass;
- drift that happens before the watch on its kind has started.

## 2. Modules

- `BundleInstanceReconciler.tla` is the whole controller and its
  environment.
  - Constants: `Instances`, `Bundles`, `Kinds`, `BundleContent`
    (the kinds of each bundle's objects), `Unmarshalable` (the bundles
    `yaml.Marshal` rejects), `MaxConcurrentReconciles`, and the bounds
    `MaxFaults`, `MaxRestarts`, `MaxSpecUpdates` and `MaxRecreations`.
  - State: Bundle phases, BundleInstance spec, generation and stored
    status, the Helm release per instance (`status`, `manifest`,
    `version`), drift, the watch registry (`watchGVKs`, `subs` counting
    started informers, `lockHolder`), the workqueue, and the pass-local
    variables (`pc`, `bi`, `phase1`, `desired`, `todo`, `cur`, `retErr`).
  - A pass is a sequence of actions, one per call that touches shared
    state:

    | Action | Source lines | What it does |
    |---|---|---|
    | `Start` | 87-117 | dequeue, Get BI (a failure only requeues), Get Bundle |
    | `LoadBundle` (`LoadBundleResult`) | 119-162 (319-343) | load content, build chart |
    | `Apply` (`ReleaseStateOf`) | 164-226 (284-305) | evaluate release state; reconcile, or start an install or upgrade (Helm records the release pending) |
    | `ApplyDone` | 188-213 | Helm finishes the install or upgrade as deployed or failed; the pass goes on or fails |
    | `Watch` | 228-245, 266-272 | loop head: `ToUnstructured` (may fail), lock and check a kind, or mark installed |
    | `WatchStart` | 246-264 | Watch and insert, under the lock |
    | `Patch` | 96-102 | deferred status patch, then the workqueue's Done |

  - Environment actions:
    - `BundleChange`: the unpacker moves a phase, or a Bundle is deleted;
    - `BundleRecreate`: a deleted Bundle is created again under the same
      name and starts `Pending` (at most `MaxRecreations` times);
    - `UpdateSpec`: a user edits `spec.bundleName`;
    - `Drift`: an owned object changes;
    - `Resync`;
    - `Restart`.
  - Any API, storage or Helm call may fail while the fault budget
    `MaxFaults` lasts.
  - `CrashInHelmCall` says whether `Restart` may happen while a pass is
    inside an install or upgrade (`pc = "Applying"`). Then the release
    stays `pending-install` or `pending-upgrade`. `ReleaseStateOf` starts
    with that case, because Helm's dry-run upgrade of a pending release
    fails, so the pass returns `ErrorGettingReleaseState`.
- `BundleInstanceReleases.tla` is the abstract release contract: per
  instance, `Begin(i, b)` starts a pending release for bundle `b`'s
  content, only when there is none or the latest is not in progress and
  differs or is failed or superseded; `Finish(i)` makes it deployed or
  failed; `Record(i, b)` reports `b` installed while the release holds
  `b`'s content, deployed. `BundleInstanceReconciler` instantiates it as
  `Releases` with `installed` mapped to the stored
  `status.installedBundleName`, and `ReleasesRefined` is its `Spec`.
- `MC_BundleInstanceReconciler.tla` gives TLC its model values: a content
  map in which `b2` adds a kind to `b1` and `b3` holds the other kind,
  and a symmetry set over instances.
- `BundleInstanceReconcilerProofs.tla` holds the TLAPS proofs of the
  invariants and of `NoSpuriousRevision`; `BundleInstanceRefinementProofs.tla`
  proves the refinement; `BundleInstanceApplyProofs.tla` proves the
  properties of the apply step and the watch loop.

Abstractions:

- A bundle's content is the set of kinds of its objects. A rendered Helm
  manifest is that set, so the dry-run comparison is set equality.
- Condition messages, owner labels and template names are left out.
- The generation counts spec edits. It stands for the `resourceVersion`
  that the apply patch carries, so a patch fails with a conflict exactly
  when the spec changed during the pass.
- A failed install or upgrade may or may not have recorded a failed
  release. Both outcomes are possible.
- Not modelled: the unreachable `default` branch (line 225), because
  `getReleaseState` returns only the three states the switch handles.
- Not modelled: what the Helm action client does after a failed install
  or upgrade beyond recording the release failed (rollback or uninstall
  on failure); the model keeps the failed release, which the next pass
  upgrades.

## 3. Runs

| Run (cfg) | Instance | Checks | Result |
|---|---|---|---|
| `watch_registry` (`MC_watch.cfg`) | 2 instances, 2 workers, 1 bundle, 1 kind, 1 fault, 1 restart, symmetry | `WatchRegisteredOnce`, action property `InstalledOnlyWatched` | passes (about 1.2M states) |
| `safety` (`MC_safety.cfg`) | 1 instance, 3 bundles (one unmarshalable), 2 kinds, 1 fault, 1 restart, 1 spec edit | `TypeOK`, `InstalledOnlyAfterApply`, action property `NoSpuriousRevision` | passes (about 5M states) |
| `convergence` (`MC_convergence.cfg`) | 1 instance, 2 bundles, 2 kinds, 1 fault, 1 restart, 1 spec edit, `FairSpec` | `Convergence` | passes (about 670K states) |
| `drift_watch_only` (`MC_drift.cfg`) | as convergence, no faults, `WatchOnlySpec` (no resync) | `DriftRepaired` | violated |
| `unpack_reason` (`MC_unpackreason.cfg`) | as convergence | `UnpackReasonCurrent` | violated |
| `refinement` (`MC_refinement.cfg`) | 1 instance, 2 bundles, 2 kinds, 1 fault, 1 restart, `CrashInHelmCall = TRUE`, 1 Bundle re-creation, no spec edit | `ReleasesRefined` | passes (about 1.3M states) |
| `pending_release` (`MC_pending.cfg`) | as convergence, `CrashInHelmCall = TRUE` | `Convergence` | violated |
| `apply_phase` (`MC_applyphase.cfg`) | as convergence | action property `ApplyOnlyUnpacked` | violated |

What each run shows:

- `watch_registry`: two workers race on the same new kind, and the
  `Watch` call may fail in between. The run reaches every interleaving of
  the lock, the check, the Watch and the insert, across a restart.
  `InstalledOnlyWatched` adds that a pass reports `Installed=True` only
  once every kind it applied is in the map, whether it or the other pass
  started that watch.
  `SetupWithManager` (lines 346-357) keeps controller-runtime's default
  of one worker, so in this build the race is latent. The run checks the
  mutex for any worker count, which spec section 5 asks for and which the
  controller's options allow.
- `safety`: one instance suffices, because an instance's release and
  status are touched only by its own passes, and the only cross-instance
  state is the registry, which `watch_registry` covers. The three bundles
  give three paths: an install, an upgrade whose content changes the
  manifest, and a content error. The fault, the restart and the spec edit
  can land between any two steps. Together these reach:
  - a crash after an apply;
  - a patch lost to a conflict;
  - a failed release being healed.
- `convergence`: shows that a bundle that is or becomes unpacked is
  eventually installed, drift-free and reported, despite faults, a
  restart and a spec edit.
- `refinement`: every controller step, including a restart inside a
  Helm call, is a `Begin`, `Finish` or `Record` of the release contract,
  or leaves releases and `installedBundleName` alone. So the controller
  never starts a release while one is in progress, and never reports a
  bundle that its release does not hold, deployed. The instance's
  Bundle may be deleted and created again meanwhile, so a pass may load
  one incarnation of it and apply while the next is `Pending`.
- The violation runs are findings, listed in `PROJECT.json`:
  - A restart inside an install or upgrade leaves a pending release,
    and every later pass fails on it, so the instance never converges
    (line 190 against spec section 5).
  - The Bundle phase is checked once, in `loadBundle`; a Bundle deleted
    after it is still applied (line 321 against lines 190-215 and spec
    invariant 1).
  - The not-unpacked reason comes from a stale read of the phase (line
    123 against line 321).
  - Without a resync, drift that lands between a restart's re-apply and
    the watch start is never seen.

Every property of a passing run has a mutant: a plausible bug in a mapped
definition that TLC catches. The mutants are:

- `Watch` without the mutex;
- `LoadBundle` setting `installed` early;
- the release-status test inverted;
- the manifest comparison dropped;
- the not-unpacked reason built as `BundleUnpack` + phase, without the
  special case for `Unpacking`;
- `ReleaseStateOf` without its pending-release case, which starts an
  upgrade over a release in progress;
- a failing `Watch` logged and skipped (`WatchStartIgnoresError`).

### Fairness

`Start` and `Watch` are strongly fair, because they wait on others.
`Start` needs a free worker and a queued key; `Watch` needs the mutex.
The other pass steps are weakly fair: a running goroutine continues.
This matches controller-runtime's FIFO workqueue and Go's mutex, under
which a waiting goroutine is not starved forever.

`ApplyDone` is weakly fair: a Helm call in progress returns. The
convergence run sets `CrashInHelmCall = FALSE`, since with a restart in
the call the release is stuck and `pending_release` shows the result.

`Convergence` also assumes weak fairness of `Resync`, because the
informer resyncs periodically. The `drift_watch_only` run drops that
assumption and shows why it is needed. Environment actions other than
`Resync` are not fair, because the model never relies on them happening.

## 4. Proofs

`BundleInstanceReconcilerProofs.tla` assumes `ConstantsAssumption` (the
constants are finite sets and natural numbers, `None` is fresh, and
there is at least one bundle) and `NoneNotRelease` (`None` is no release
record). It proves:

- `TypeCorrect`: `Spec => []TypeInv`. `TypeOK` alone is not inductive,
  because a step reads the pass's working copy, `phase1` and `cur`.
  `PassTyped` adds that these are defined wherever a step reads them.
  The corollary `TypeOKHolds` follows.
- `WatchOnce`: `Spec => []WatchInv`. `WatchRegisteredOnce` is not
  inductive, because `WatchStart` increments `subs[k]` unconditionally.
  The strengthening `WatchInv` adds two facts:
  - a pass in `WatchStart` holds the mutex and saw its kind unwatched;
  - only such a pass holds the mutex.

  The key steps are these. `Watch` takes a free mutex, so no other pass
  is in `WatchStart`. `WatchStart` runs with `subs[k] = 0` and releases
  the mutex. The corollary `WatchRegisteredOnceHolds` follows.
- `InstalledAfterApply`: `Spec => []InstalledInv`. The stored
  `installedBundleName` is written only by the patch, from the working
  copy. So the invariant adds two facts:
  - every working copy names an applied bundle or none;
  - in the watch loop, the copy's spec has been applied.

  The corollary `InstalledOnlyAfterApplyHolds` gives spec invariant 4
  for every number of instances, bundles, faults and restarts.

- `NoSpuriousRevisionHolds`: the action property `NoSpuriousRevision`
  for every value of the constants. Under `TypeInv`, a step that
  changes a release version is an `Apply` whose `ReleaseStateOf` was
  `NeedsInstall` or `NeedsUpgrade`; the lemma `StatusKeepsVersion`
  covers `ApplyDone`, which changes only the status.

`BundleInstanceRefinementProofs.tla` proves:

- `RefInvariant`: `Spec => []RefInv`. A step of the controller maps to
  a step of the contract only if the pass knows where it stands.
  `RefInv` says, per instance:
  - until the patch, the working copy's `installedBundleName` is the
    stored one;
  - in `Apply` and `Applying`, `desired` is the spec bundle's content;
  - in `Applying`, the release is the pass's own pending one;
  - in the watch loop, the release holds the spec bundle's content,
    deployed;
  - a patch that changes `installedBundleName` writes a bundle whose
    content the release holds, deployed.
- `ReleasesImplemented`: `Spec => ReleasesRefined`. Initial states map
  to the contract's initial state. Under `TypeInv /\ RefInv`, `Apply`
  maps to `Begin` or a stutter, `ApplyDone` to `Finish`, a successful
  `Patch` to `Record` or a stutter, and every other step to a stutter.
  The lemmas `RefInvFrame` and `UnchangedIsDeployed` cover the steps that
  leave the release and the pass alone.

`BundleInstanceApplyProofs.tla` proves, from the same assumptions:

- `InstalledOnlyWatchedHolds`: `Spec => InstalledOnlyWatched`. The
  action property is not provable step by step on its own: at the end of
  the loop the proof needs that every visited kind is watched. The
  invariant `WatchedSoFar` (theorem `WatchedSoFarInvariant`) says so for
  passes in `Watch` and `WatchStart`. It holds because a kind leaves
  `todo` only when it is found in the map or just inserted, and the map
  only grows until a restart, which ends every pass.

Each step proof has one step per action, and one case per disjunct where
an action has several. The lemmas `SetCondStep` and `InstalledQuiet`
factor out the condition upsert and the steps that leave the history
alone.

The following stay with TLC only:

- the liveness property `Convergence`, since TLAPS does not handle
  fairness or ENABLED. A safety fact it rests on is proved:
  `InstalledOnlyWatched` (drift of an installed kind has a watch to
  report it);
- the violation runs.

## 5. Plan for the next sittings

1. Add a run with two instances sharing a bundle, to check that
   `Referencing` enqueues every owner and that convergence holds per
   instance under contention for the single worker.
2. Prove the refinement of the watch registry against an abstract
   registry (a set of kinds, each started once per process).
3. Add spec edits back to the refinement run once a cheaper encoding of
   the pass state makes both fit in the run's time.
