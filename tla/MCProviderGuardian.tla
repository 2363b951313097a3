------------------------ MODULE MCProviderGuardian ------------------------
(* The guardian with budgets of one or two time units. *)
EXTENDS ProviderGuardian
=============================================================================
