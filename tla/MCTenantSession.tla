-------------------------- MODULE MCTenantSession --------------------------
(* One process with two sessions and two connections, two tenants.          *)
EXTENDS TenantSession
=============================================================================
