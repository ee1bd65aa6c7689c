----------------------------- MODULE MCK8sApply ------------------------------
(* Messages for K8sApply: two of one kind, one that cannot be resolved     *)
(* before others, and one that is not of a namespace.                      *)
EXTENDS K8sApply

CONSTANTS pod, claim, custom, volume, app, side, old, new

MCMessages ==
  << [kind |-> pod, name |-> app, body |-> new],
     [kind |-> custom, name |-> app, body |-> new],
     [kind |-> volume, name |-> app, body |-> new],
     [kind |-> pod, name |-> side, body |-> new],
     [kind |-> claim, name |-> app, body |-> new] >>
=============================================================================
