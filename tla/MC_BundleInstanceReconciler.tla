-------------------- MODULE MC_BundleInstanceReconciler --------------------
(* Small instances of the BundleInstance controller for TLC.               *)
EXTENDS BundleInstanceReconciler, TLC

CONSTANTS i1, i2, b1, b2, b3, k1, k2

\* b1 renders one kind; b2 adds a second kind; b3 holds the other kind.
MCBundleContent ==
    [b \in Bundles |-> CASE b = b1 -> {k1} [] b = b2 -> {k1, k2} [] OTHER -> {k2}]

\* Instances are interchangeable.
MCSymmetry == Permutations({i1, i2})
=============================================================================
