\* One worker (the controller is built with the default
\* MaxConcurrentReconciles), one instance, three bundles (one unmarshalable), one failing call,
\* one restart, one edit of spec.bundleName.
CONSTANTS
    i1 = i1  i2 = i2  b1 = b1  b2 = b2  b3 = b3  k1 = k1  k2 = k2
    Instances = {i1}
    Bundles = {b1, b2, b3}
    Kinds = {k1, k2}
    BundleContent <- MCBundleContent
    Unmarshalable = {b3}
    MaxConcurrentReconciles = 1
    MaxFaults = 1
    MaxRestarts = 1
    MaxSpecUpdates = 1
    MaxRecreations = 0
    CrashInHelmCall = TRUE
    None = None

SPECIFICATION Spec
INVARIANT TypeOK InstalledOnlyAfterApply
PROPERTY NoSpuriousRevision
