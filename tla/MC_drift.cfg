\* Drift repair through watch events alone (no periodic resync, no failing
\* call): one worker, one instance, two bundles, one restart, one edit.
CONSTANTS
    i1 = i1  i2 = i2  b1 = b1  b2 = b2  b3 = b3  k1 = k1  k2 = k2
    Instances = {i1}
    Bundles = {b1, b2}
    Kinds = {k1, k2}
    BundleContent <- MCBundleContent
    Unmarshalable = {}
    MaxConcurrentReconciles = 1
    MaxFaults = 0
    MaxRestarts = 1
    MaxSpecUpdates = 1
    MaxRecreations = 0
    CrashInHelmCall = FALSE
    None = None
SPECIFICATION WatchOnlySpec
PROPERTY DriftRepaired
