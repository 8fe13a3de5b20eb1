----------------------- MODULE BundleInstanceReleases -----------------------
(***************************************************************************)
(* What the BundleInstance controller promises about the Helm release of   *)
(* each instance and the installedBundleName it reports, without passes,   *)
(* workqueue, watches, conditions or failures.  A release is started       *)
(* (pending) for the content of some bundle, and only when there is none,  *)
(* or none in progress whose content differs or that is failed or          *)
(* superseded; Helm finishes it as deployed or failed; an instance is      *)
(* reported installed with a bundle only while its latest release is that  *)
(* bundle's content, deployed.                                             *)
(*                                                                         *)
(* BundleInstanceReconciler implements this module under the mapping       *)
(* installed <- the stored .status.installedBundleName (Releases there).   *)
(***************************************************************************)
EXTENDS Naturals

CONSTANTS Instances, Bundles, BundleContent, None

VARIABLES
    rel,        \* latest Helm release of each instance, or None
    installed   \* reported installedBundleName of each instance, or None

vars == <<rel, installed>>

InProgress == {"pending-install", "pending-upgrade"}

Init ==
    /\ rel = [i \in Instances |-> None]
    /\ installed = [i \in Instances |-> None]

\* Helm starts an install (no release yet) or an upgrade to the content of
\* bundle b; the new release is the next version, pending.
Begin(i, b) ==
    /\ \/ rel[i] = None
       \/ /\ rel[i].status \notin InProgress
          /\ \/ rel[i].manifest # BundleContent[b]
             \/ rel[i].status \in {"failed", "superseded"}
    /\ rel' = [rel EXCEPT ![i] =
                 IF rel[i] = None
                 THEN [status |-> "pending-install", manifest |-> BundleContent[b],
                       version |-> 1]
                 ELSE [status |-> "pending-upgrade", manifest |-> BundleContent[b],
                       version |-> rel[i].version + 1]]
    /\ UNCHANGED installed

\* Helm finishes the release in progress: deployed or failed.
Finish(i) ==
    /\ rel[i] # None /\ rel[i].status \in InProgress
    /\ \E s \in {"deployed", "failed"} : rel' = [rel EXCEPT ![i].status = s]
    /\ UNCHANGED installed

\* The instance is reported installed with b while its release holds b's
\* content, deployed.
Record(i, b) ==
    /\ rel[i] # None /\ rel[i].status = "deployed"
    /\ rel[i].manifest = BundleContent[b]
    /\ installed' = [installed EXCEPT ![i] = b]
    /\ UNCHANGED rel

Next ==
    \E i \in Instances :
        \/ Finish(i)
        \/ \E b \in Bundles : Begin(i, b) \/ Record(i, b)

Spec == Init /\ [][Next]_vars

=============================================================================
