--------------------------- MODULE MCTenantLifecycle ---------------------------
(***************************************************************************)
(* One scheduler, two requests, terms of one and two days, which both end  *)
(* within the days lived through, and a single warning one day ahead.      *)
(***************************************************************************)
EXTENDS TenantLifecycle, TLC

CallSymmetry == Permutations(Calls)

=============================================================================
