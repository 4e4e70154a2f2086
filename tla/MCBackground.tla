---------------------------- MODULE MCBackground ----------------------------
(* The work behind the requests, in one run: the email queue, the settings  *)
(* that servers reconcile and the life of a process share no state here, so *)
(* a behaviour is one of one component and their state spaces add up.       *)
EXTENDS EmailQueue, RuntimeSettings, Lifecycle

VARIABLE part

backgroundVars == <<part, queueVars, settingsVars, lifecycleVars>>

MCDefault == [access |-> 1, refresh |-> 2, session |-> 3, rotation |-> 1, required |-> Off, enabled |-> Off]
MCEnvValue == [access |-> 2, refresh |-> 3, session |-> 3, rotation |-> 1, required |-> On, enabled |-> On]
Environments == {{}, {"enabled"}, {"access", "refresh"}, {"refresh", "required", "enabled"}}

BackgroundInit ==
    /\ part \in {"email", "settings", "lifecycle"}
    /\ Init /\ SettingsInit /\ LifecycleInit
    /\ environment \in IF part = "settings" THEN Environments ELSE {{}}

\* Operators edit two settings that depend on each other and the one that needs
\* a startup switch; they have read the revision, or believe there is none.
ReasonableEdits ==
    \A s \in Servers : mutation'[s] # NoMutation =>
        /\ mutation'[s].key \in {"access", "refresh", "required"}
        /\ mutation'[s].expected \in {0, stored.override[mutation'[s].key].revision}

\* A step of one component.
Mailing(A) == part = "email" /\ A /\ UNCHANGED <<part, settingsVars, lifecycleVars>>
Configuring(A) == part = "settings" /\ A /\ UNCHANGED <<part, queueVars, lifecycleVars>>
Running(A) == part = "lifecycle" /\ A /\ UNCHANGED <<part, queueVars, settingsVars>>

BackgroundNext ==
    \/ Mailing(Next)
    \/ Configuring(SettingsNext) /\ environment' \in Environments /\ ReasonableEdits
    \/ Running(LifecycleNext)

\* The fairness of each component, in its own behaviours.
BackgroundFairness ==
    /\ \A w \in Workers : WF_backgroundVars(Mailing(Work(w)))
    /\ \A j \in Jobs : WF_backgroundVars(Mailing(ReapStaleEmailJob(j)))
    /\ WF_backgroundVars(Mailing(Tick))
    /\ \A s \in Servers : WF_backgroundVars(Configuring(Finish(s))) /\ WF_backgroundVars(Configuring(Reconcile(s)))
    /\ WF_backgroundVars(Running(Supervisor)) /\ WF_backgroundVars(Running(DeadlinePasses))
    /\ WF_backgroundVars(Running(ServeEnds))
    /\ \A w \in BackgroundWorkers : WF_backgroundVars(Running(Monitor(w)))

BackgroundSpec == BackgroundInit /\ [][BackgroundNext]_backgroundVars /\ BackgroundFairness
=============================================================================
