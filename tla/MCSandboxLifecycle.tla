-------------------------- MODULE MCSandboxLifecycle --------------------------
(* Two runs of a worker share the starting permit of modal.  Runs of the   *)
(* other deployments share nothing: there the second one stays away.       *)
EXTENDS SandboxLifecycle

CONSTANTS r1, r2

MCRuns == {r1, r2}
MCMaxRetries == [r \in MCRuns |-> IF r = r1 THEN 2 ELSE 1]

SharesNothing == kind # "modal" => pc[r2] = "idle"
===============================================================================
