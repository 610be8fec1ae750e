-------------------------- MODULE MCAdministration --------------------------
(***************************************************************************)
(* What runs beside the gateway's requests: the accounts of administrators *)
(* and their sessions, a provider with its keys, the routing policies, and *)
(* the scheduled jobs.  They share no state here, and a behaviour follows  *)
(* one part: the choices that the initial states of the others leave are   *)
(* taken away.                                                             *)
(***************************************************************************)
EXTENDS AdminUsers, Providers, RoutingPolicies, UsageDaily, Alerts, AlertRules,
        ProviderHealth, TLC

VARIABLE part

(* Callers, editors and runs of jobs are the same two model values.        *)
Symmetry == Permutations(User) \cup Permutations(SessionId) \cup Permutations(Caller)

jobVars == <<usageVars, alertVars, ruleVars, healthVars>>
vars == <<part, rateVars, adminVars, providerVars, policyVars, jobVars>>

Init ==
    /\ part \in {"users", "providers", "policies", "usage", "alerts", "rules", "health"}
    /\ RateInit /\ AdminInit /\ ProvidersInit /\ PolicyInit
    /\ UsageInit /\ AlertInit /\ RuleInit /\ HealthInit
    /\ part = "policies" \/ rows = {Min(Name)}
    /\ part = "alerts" \/ retention = 0

Users ==
    /\ part = "users" /\ AdminNext
    /\ UNCHANGED <<providerVars, policyVars, jobVars>>
Provider ==
    /\ part = "providers" /\ ProviderNext
    /\ UNCHANGED <<rateVars, adminVars, policyVars, jobVars>>
Policies ==
    /\ part = "policies" /\ PolicyNext
    /\ UNCHANGED <<rateVars, adminVars, providerVars, jobVars>>
Jobs ==
    /\ UNCHANGED <<rateVars, adminVars, providerVars, policyVars>>
    /\ \/ part = "usage" /\ UsageNext /\ UNCHANGED <<alertVars, ruleVars, healthVars>>
       \/ part = "alerts" /\ AlertNext /\ UNCHANGED <<usageVars, ruleVars, healthVars>>
       \/ part = "rules" /\ RuleNext /\ UNCHANGED <<usageVars, alertVars, healthVars>>
       \/ part = "health" /\ HealthNext /\ UNCHANGED <<usageVars, alertVars, ruleVars>>

Next == UNCHANGED part /\ (Users \/ Provider \/ Policies \/ Jobs)

Spec == Init /\ [][Next]_vars
=============================================================================
