------------------------ MODULE MCStaleConfirmation -------------------------
(* A restored grant and the administrator who read it before the restore.    *)
EXTENDS GrantSchedules
=============================================================================
