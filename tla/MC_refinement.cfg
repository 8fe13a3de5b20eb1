\* The controller implements the release contract (BundleInstanceReleases):
\* one worker, one instance, two bundles, one failing call, one restart
\* that may cut a Helm install or upgrade, and a deletion of the instance's
\* Bundle followed by its re-creation (spec edits are left to the safety
\* run, which checks installedBundleName under them).
CONSTANTS
    i1 = i1  i2 = i2  b1 = b1  b2 = b2  b3 = b3  k1 = k1  k2 = k2
    Instances = {i1}
    Bundles = {b1, b2}
    Kinds = {k1, k2}
    BundleContent <- MCBundleContent
    Unmarshalable = {}
    MaxConcurrentReconciles = 1
    MaxFaults = 1
    MaxRestarts = 1
    MaxSpecUpdates = 0
    MaxRecreations = 1
    CrashInHelmCall = TRUE
    None = None
SPECIFICATION Spec
PROPERTY ReleasesRefined
