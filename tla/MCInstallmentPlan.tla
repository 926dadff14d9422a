-------------------------- MODULE MCInstallmentPlan --------------------------
(* InstallmentPlan for TLC.                                                *)
EXTENDS InstallmentPlan
=============================================================================
