----------------------------- MODULE AlertRules -----------------------------
(***************************************************************************)
(* AlertRuleService.evaluate: it reads the enabled rules and then goes     *)
(* through the list, one query after the other, while administrators       *)
(* delete rules and other evaluations run.  A hit writes an error event,   *)
(* notifies, and then writes lastTriggeredAt; nothing remembers a hit from *)
(* one evaluation to the next.                                             *)
(***************************************************************************)
EXTENDS Naturals

CONSTANTS
    Rule,       \* alert rules that are enabled
    Unknown,    \* those whose metric METRICS does not have
    Evaluator,  \* evaluations in progress at once
    MaxHits,    \* bound: error events of one rule
    MaxTrouble  \* bound: failing queries and deleted rules

ASSUME RuleAssumption == Unknown \subseteq Rule /\ MaxHits \in Nat /\ MaxTrouble \in Nat

VARIABLES
    rules,      \* the rows of alert_rules
    triggered,  \* those with a lastTriggeredAt
    hits,       \* hits[r]: error_events of kind alert_rule:r
    evals,      \* evals[v]: an evaluation and the rest of its list
    trouble,    \* what is left of MaxTrouble
    missed      \* history: rules an evaluation that returned did not evaluate

ruleVars == <<rules, triggered, hits, evals, trouble, missed>>

NoEval == [at |-> "idle", todo |-> {}, owed |-> {}, rule |-> {}]

RuleInit ==
    /\ rules = Rule /\ triggered = {} /\ hits = [r \in Rule |-> 0]
    /\ evals = [v \in Evaluator |-> NoEval] /\ trouble = MaxTrouble /\ missed = {}

Evaluates(v, l) == evals[v].at = l
Aborts(v) == evals' = [evals EXCEPT ![v] = NoEval]

RulesRead(v) ==
    /\ Evaluates(v, "idle")
    /\ evals' = [evals EXCEPT ![v] = [at |-> "rules", todo |-> rules, owed |-> rules \ Unknown,
                                      rule |-> {}]]
    /\ UNCHANGED <<rules, triggered, hits, trouble, missed>>

(* `continue`: the other rules of the list.                                *)
UnknownMetric(v, r) == evals[v].todo \ {r}

RuleUnknown(v, r) ==
    /\ Evaluates(v, "rules") /\ r \in evals[v].todo \cap Unknown
    /\ evals' = [evals EXCEPT ![v].todo = UnknownMetric(v, r)]
    /\ UNCHANGED <<rules, triggered, hits, trouble, missed>>

(* Mutant: a hit is marked before its event is written.                    *)
RuleHitMarked(v, r) ==
    /\ Evaluates(v, "rules") /\ r \in evals[v].todo \ Unknown
    /\ triggered' = triggered \cup ({r} \cap rules)
    /\ evals' = [evals EXCEPT ![v].at = "hit", ![v].rule = {r}]
    /\ UNCHANGED <<rules, hits, trouble, missed>>

(* The metric is over the threshold: the error event.  The bus and the     *)
(* notification channels that follow cannot fail the evaluation.           *)
RuleHit(v, r) ==
    /\ Evaluates(v, "rules") /\ r \in evals[v].todo \ Unknown
    /\ hits[r] < MaxHits
    /\ hits' = [hits EXCEPT ![r] = @ + 1]
    /\ evals' = [evals EXCEPT ![v].at = "hit", ![v].rule = {r}]
    /\ UNCHANGED <<rules, triggered, trouble, missed>>

(* It is not, and only lastValue is to be written.                         *)
RuleQuiet(v, r) ==
    /\ Evaluates(v, "rules") /\ r \in evals[v].todo \ Unknown
    /\ evals' = [evals EXCEPT ![v].at = "quiet", ![v].rule = {r}]
    /\ UNCHANGED <<rules, triggered, hits, trouble, missed>>

(* The update throws, and the evaluation ends, when the rule was deleted.  *)
RuleUpdate(v) ==
    /\ Evaluates(v, "hit") \/ Evaluates(v, "quiet")
    /\ triggered' = IF Evaluates(v, "hit") THEN triggered \cup (evals[v].rule \cap rules)
                    ELSE triggered
    /\ IF evals[v].rule \subseteq rules
       THEN evals' = [evals EXCEPT ![v] = [at |-> "rules", todo |-> @.todo \ @.rule,
                                           owed |-> @.owed \ @.rule, rule |-> {}]]
       ELSE Aborts(v)
    /\ UNCHANGED <<rules, hits, trouble, missed>>

(* evaluate returns.                                                       *)
RulesDone(v) ==
    /\ Evaluates(v, "rules") /\ evals[v].todo = {}
    /\ missed' = missed \cup evals[v].owed
    /\ Aborts(v)
    /\ UNCHANGED <<rules, triggered, hits, trouble>>

(* A query fails: a metric, an error event or an update.                   *)
RuleFails(v) ==
    /\ ~Evaluates(v, "idle")
    /\ trouble > 0 /\ trouble' = trouble - 1
    /\ Aborts(v)
    /\ UNCHANGED <<rules, triggered, hits, missed>>

DeleteRule(r) ==
    /\ r \in rules /\ trouble > 0 /\ trouble' = trouble - 1
    /\ rules' = rules \ {r} /\ triggered' = triggered \ {r}
    /\ UNCHANGED <<hits, evals, missed>>

RuleNext ==
    \/ \E v \in Evaluator :
          \/ RulesRead(v) \/ RuleUpdate(v) \/ RulesDone(v) \/ RuleFails(v)
          \/ \E r \in Rule : RuleUnknown(v, r) \/ RuleHit(v, r) \/ RuleQuiet(v, r)
    \/ \E r \in Rule : DeleteRule(r)

RuleSpec == RuleInit /\ [][RuleNext]_ruleVars

-----------------------------------------------------------------------------
(* An evaluation that returns has evaluated every rule it read, whatever   *)
(* the other rules were and whoever else was evaluating (evaluate).        *)
RulesAllEvaluated == missed = {}

(* A rule that says it was triggered has an error event to show for it,    *)
(* with evaluations that overlap or break off (evaluate).                  *)
TriggeredHasEvent == \A r \in triggered : hits[r] > 0
(* Both: what an evaluation leaves behind it.                              *)
RulesInOrder == RulesAllEvaluated /\ TriggeredHasEvent
=============================================================================
