----------------------------- MODULE MCJobLock -----------------------------
(* The instance of JobLock that TLC checks: MCJobLock.cfg gives it two     *)
(* executions of one task, two tenants and a lease of two ticks.  Runs     *)
(* and tenants are not declared symmetric, since the run checks liveness.  *)
EXTENDS JobLock
=============================================================================
