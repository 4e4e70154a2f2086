--------------------------- MODULE MCWebhookQueue ---------------------------
(* Two small instances of WebhookQueue in one run, told apart by part.      *)
EXTENDS WebhookQueue

VARIABLE part

webhookVars == <<part, vars>>

\* "settle": one event, skewed clocks, a fault or a restart, and no notification
\* is sure to arrive.  "wake": two events in the first ticks, one clock, no
\* failed call, restart or new setting, so that only notifications and the
\* channel are at work.
OneEvent == \A e \in Events : event'[e] # NoEvent => e = CHOOSE d \in Events : TRUE
Exact == /\ \A w \in Workers : worker'[w].at \in {0, worker[w].at, now}
         /\ \A e \in Events : event'[e].created \in {event[e].created, now}
                              /\ event'[e].next \in {event[e].next} \cup now .. MaxTime
Steady == now' <= 2 /\ faults' = 0 /\ restarts' = 0 /\ policy' = policy
Scope == IF part = "settle" THEN OneEvent /\ faults' + restarts' <= 1 ELSE Exact /\ Steady

PartsInit == Init /\ part \in {"settle", "wake"}
PartsNext == Next /\ Scope /\ part' = part

\* The clock of "wake" stops, so that its behaviours are not fair: that part is
\* about safety only.
PartsSpec == PartsInit /\ [][PartsNext]_webhookVars /\ Fairness

\* NewEventsAnnounced, which speaks of one clock, and the types.
WakesKept == TypeOK /\ (part = "wake" => NewEventsAnnounced)
=============================================================================
