------------------------ MODULE MCTenantProvisioning ------------------------
(* A small instance of TenantProvisioning for TLC.                          *)
EXTENDS TenantProvisioning
=============================================================================
