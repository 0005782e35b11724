------------------------------- MODULE MCK8s -------------------------------
(***************************************************************************)
(* K8sElection on a small instance.  The configurations are one that       *)
(* leaves room for a late renewal, one that does not, one that client-go   *)
(* refuses, and none at all.                                               *)
(***************************************************************************)
EXTENDS K8sElection

CONSTANTS p1, p2

MCEnvironments ==
    {[enabled |-> TRUE, inCluster |-> TRUE, namespaces |-> {"POD_NAMESPACE"}],
     [enabled |-> TRUE, inCluster |-> TRUE, namespaces |-> {}]}

MCSettings ==
    {[lease |-> 5, renew |-> 2, retry |-> 1], [lease |-> 4, renew |-> 3, retry |-> 1],
     [lease |-> 7, renew |-> 6, retry |-> 5], [lease |-> 0, renew |-> 0, retry |-> 0]}
=============================================================================
