------------------------------ MODULE MCAccess ------------------------------
(* Who may act, and who agreed: membership and sessions, the sealed         *)
(* manifests with the consents and grants that start a run, and what is sent*)
(* to a model provider.  A behaviour follows one of the three.              *)
EXTENDS WorkspaceAccess, ExecutionSeal, ModelDelivery, TLC

VARIABLE followed   \* the component this behaviour is about

vars == <<followed, accessVars, sealVars, deliveryVars>>

Init ==
  /\ followed \in {"access", "seal", "delivery"}
  /\ AccessInit /\ SealInit /\ DeliveryInit
  /\ (followed # "access" => \A u \in Users \ {Founder} : account[u] = "absent")
  /\ (followed # "seal" => \A u \in Staff : standing[u].role = "OWNER")

Next ==
  \/ followed = "access" /\ AccessNext /\ UNCHANGED <<followed, sealVars, deliveryVars>>
  \/ followed = "seal" /\ SealNext /\ UNCHANGED <<followed, accessVars, deliveryVars>>
  \/ followed = "delivery" /\ DeliveryNext /\ UNCHANGED <<followed, accessVars, sealVars>>

Spec == Init /\ [][Next]_vars

Interchangeable == Permutations(Slots) \cup Permutations(Operators)
=============================================================================
