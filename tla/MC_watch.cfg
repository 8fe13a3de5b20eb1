\* Two workers (the concurrency spec 5 describes and dynamicWatchMutex
\* guards) on two instances whose bundles share kind k1, one failing call.
CONSTANTS
    i1 = i1  i2 = i2  b1 = b1  b2 = b2  b3 = b3  k1 = k1  k2 = k2
    Instances = {i1, i2}
    Bundles = {b1}
    Kinds = {k1}
    BundleContent <- MCBundleContent
    Unmarshalable = {}
    MaxConcurrentReconciles = 2
    MaxFaults = 1
    MaxRestarts = 1
    MaxSpecUpdates = 0
    MaxRecreations = 0
    CrashInHelmCall = TRUE
    None = None
SYMMETRY MCSymmetry
SPECIFICATION Spec
INVARIANT WatchRegisteredOnce
PROPERTY InstalledOnlyWatched
