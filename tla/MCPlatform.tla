----------------------------- MODULE MCPlatform -----------------------------
(* Cleanup leadership and the rate limiter, in one run: they share no state, *)
(* so a behaviour is one of one component and their state spaces add up.     *)
EXTENDS Maintenance, RateLimiter

VARIABLE part

platformVars == <<part, maintenanceVars, limiterVars>>

MCCleanupJobs == <<"sessions", "webhooks">>

PlatformInit ==
    /\ part \in {"maintenance", "limiter"}
    /\ MaintenanceInit /\ LimiterInit
    /\ part # "limiter" => backend = "memory"

\* A step of one component.
Maintaining(A) == part = "maintenance" /\ A /\ UNCHANGED <<part, limiterVars>>
Limiting(A) == part = "limiter" /\ A /\ UNCHANGED <<part, maintenanceVars>>

PlatformNext == Maintaining(MaintenanceNext) \/ Limiting(LimiterNext)

\* The fairness of each component, in its own behaviours.
PlatformFairness ==
    /\ WF_platformVars(Maintaining(MaintenanceTick))
    /\ \A n \in Replicas : /\ WF_platformVars(Maintaining(Coordinate(n)))
                           /\ WF_platformVars(Maintaining(Renew(n)))
                           /\ SF_platformVars(Maintaining(BatchCommit(n, Last(replica[n].agenda))))
    /\ SF_platformVars(Limiting(Tick))
    /\ \A c \in Calls : WF_platformVars(Limiting(Decides(c)))

PlatformSpec == PlatformInit /\ [][PlatformNext]_platformVars /\ PlatformFairness
=============================================================================
