---------------------------- MODULE ConsoleData -----------------------------
(***************************************************************************)
(* What the pages of the web console show and do: the routes they use with *)
(* the tables each reads and writes, the hooks that query them under a key *)
(* of the query cache or that call them and then invalidate keys, and the  *)
(* hooks of each page.  A key is a sequence; "*" stands for a parameter,   *)
(* which is the same in all hooks of one page.  The tables of requests,    *)
(* which no page writes, are left out, with the hooks that show nothing    *)
(* else.                                                                   *)
(***************************************************************************)
EXTENDS SequencesExt

-----------------------------------------------------------------------------
(* The routes.                                                             *)
Reads(tables) == [reads |-> tables, writes |-> {}]
Writes(tables) == [reads |-> {}, writes |-> tables]

ModelRoutes ==
    "GET models" :> Reads({"model", "modelScore"})
    @@ "GET models/*" :> Reads({"model", "modelScore", "provider", "snapshot", "modelEvent"})
    @@ "PATCH models/*" :> Writes({"model"})
    @@ "POST models/refresh" :> Writes({"model", "modelScore", "provider", "snapshot", "modelEvent"})
    @@ "POST models/evaluate" :> Writes({"model", "modelEvent"})
ModelBulkRoutes ==
    "POST models/bulk" :> Writes({"model"})
    @@ "GET models/export" :> Reads({"model"})
    @@ "POST models/import" :> Writes({"model"})
ModelCompareRoutes == "GET model-compare" :> Reads({"model", "modelScore"})

MetricsRoutes == "GET metrics" :> Reads({"provider", "model", "virtualKey", "cooldown"})
(* What these answer is kept by the server for five seconds.               *)
ServedFromMemory == {"GET metrics", "GET virtual-keys/spend-leaderboard"}

ProviderRoutes ==
    "POST providers/*/health" :> Writes({"provider", "healthCheck", "cooldown"})
    @@ "GET providers/*/history" :> Reads({"healthCheck"})
    @@ "POST providers/balance/check" :> Writes({"balanceEvent"})
    @@ "GET providers/balance/alerts" :> Reads({"balanceEvent"})
    @@ "GET providers" :> Reads({"provider", "upstreamKey"})
    @@ "POST providers" :> Writes({"provider", "upstreamKey"})
    @@ "PATCH providers/*" :> Writes({"provider"})
    @@ "DELETE providers/*" :> Writes({"provider", "upstreamKey"})
    @@ "POST providers/*/key" :> Writes({"upstreamKey"})
    @@ "GET providers/health" :> Reads({"provider"})

KeyRoutes ==
    "GET virtual-keys" :> Reads({"virtualKey"})
    @@ "POST virtual-keys" :> Writes({"virtualKey"})
    @@ "POST virtual-keys/*/rotate" :> Writes({"virtualKey"})
    @@ "DELETE virtual-keys/*" :> Writes({"virtualKey"})
KeyReportRoutes ==
    "GET virtual-keys/spend-leaderboard" :> Reads({"virtualKey"})
    @@ "GET virtual-keys/*/usage" :> Reads({"virtualKey"})
    @@ "POST virtual-keys/alerts/check" :> Writes({"usageEvent"})
    @@ "GET virtual-keys/alerts/recent" :> Reads({"usageEvent"})
    @@ "GET virtual-keys/weekly-report" :> Reads({"virtualKey", "usageEvent"})
    @@ "POST virtual-keys/weekly-report/send" :> Writes({"setting"})

(* The error events, by who writes them.                                   *)
Events == {"modelEvent", "balanceEvent", "usageEvent", "ruleEvent"}
AlertRoutes ==
    "GET alerts" :> Reads(Events)
    @@ "GET alerts/stats" :> Reads(Events)
    @@ "POST alerts/*/resolve" :> Writes(Events)
AlertRuleRoutes ==
    "GET alert-rules" :> Reads({"alertRule"})
    @@ "POST alert-rules" :> Writes({"alertRule"})
    @@ "PATCH alert-rules/*" :> Writes({"alertRule"})
    @@ "DELETE alert-rules/*" :> Writes({"alertRule"})
    @@ "POST alert-rules/evaluate" :> Writes({"alertRule", "ruleEvent"})

WebhookRoutes ==
    "GET webhooks" :> Reads({"webhookSubscription"})
    @@ "POST webhooks" :> Writes({"webhookSubscription"})
    @@ "PATCH webhooks/*" :> Writes({"webhookSubscription"})
    @@ "DELETE webhooks/*" :> Writes({"webhookSubscription", "webhookDelivery"})
    @@ "GET webhooks/*/deliveries" :> Reads({"webhookDelivery"})
    @@ "POST deliveries/*/retry" :> Writes({"webhookSubscription", "webhookDelivery"})

(* "own" is the account and the session of who uses the console, which     *)
(* nobody may delete.                                                      *)
UserRoutes ==
    "GET users" :> Reads({"adminUser"})
    @@ "POST users" :> Writes({"adminUser"})
    @@ "PATCH users/*" :> Writes({"adminUser", "own"})
    @@ "DELETE users/*" :> Writes({"adminUser", "session"})
    @@ "GET sessions" :> Reads({"session"})
    @@ "POST sessions/*/revoke" :> Writes({"session", "own"})
AuthRoutes == "GET auth/me" :> Reads({"own"})

SettingRoutes ==
    "GET settings" :> Reads({"settingRetention", "settingRetry", "setting"})
    @@ "PATCH settings" :> Writes({"setting"})
    @@ "GET settings/retention" :> Reads({"settingRetention"})
    @@ "PATCH settings/retention" :> Writes({"settingRetention"})
    @@ "POST settings/retention/purge" :> Writes({"adminAuditLog", "playgroundSession"} \cup Events)
    @@ "GET settings/retry-policy" :> Reads({"settingRetry"})
    @@ "PATCH settings/retry-policy" :> Writes({"settingRetry"})
    @@ "GET settings/retry-policy/preview" :> Reads({"settingRetry"})

BudgetRoutes ==
    "GET budgets" :> Reads({"budget"})
    @@ "POST budgets" :> Writes({"budget"})
    @@ "PATCH budgets/*" :> Writes({"budget"})
    @@ "DELETE budgets/*" :> Writes({"budget"})
ChannelRoutes ==
    "GET notify-channels" :> Reads({"notifyChannel"})
    @@ "POST notify-channels" :> Writes({"notifyChannel"})
    @@ "PATCH notify-channels/*" :> Writes({"notifyChannel"})
    @@ "DELETE notify-channels/*" :> Writes({"notifyChannel"})
    @@ "POST notify-channels/*/test" :> Writes({})

PolicyRoutes ==
    "POST routing-policies" :> Writes({"routingPolicy"})
    @@ "POST routing-policy/*/activate" :> Writes({"routingPolicy"})
    @@ "DELETE routing-policy/*" :> Writes({"routingPolicy"})
PolicyListRoutes == "GET routing-policies" :> Reads({"routingPolicy"})
PolicyEditorRoutes ==
    "GET routing-policy-editor" :> Reads({"routingPolicy", "modelScore"})
    @@ "PUT routing-policy/*" :> Writes({"routingPolicy"})

(* Deleting an organisation deletes its projects, and empties the column of*)
(* their keys.                                                             *)
OrganizationRoutes ==
    "GET organizations" :> Reads({"organization", "project"})
    @@ "POST organizations" :> Writes({"organization"})
    @@ "DELETE organizations/*" :> Writes({"organization", "project", "virtualKey"})
    @@ "GET projects" :> Reads({"project", "organization"})
    @@ "POST projects" :> Writes({"project"})

SessionRoutes ==
    "GET playground/sessions" :> Reads({"playgroundSession"})
    @@ "GET playground/sessions/*" :> Reads({"playgroundSession"})
    @@ "POST playground/sessions" :> Writes({"playgroundSession"})
    @@ "PATCH playground/sessions/*" :> Writes({"playgroundSession"})
    @@ "DELETE playground/sessions/*" :> Writes({"playgroundSession"})
PresetRoutes ==
    "GET playground/presets" :> Reads({"playgroundPreset"})
    @@ "POST playground/presets" :> Writes({"playgroundPreset"})
    @@ "PATCH playground/presets/*" :> Writes({"playgroundPreset"})
    @@ "DELETE playground/presets/*" :> Writes({"playgroundPreset"})
    @@ "POST playground/presets/*/used" :> Writes({"playgroundPreset"})

Route ==
    ModelRoutes @@ ModelBulkRoutes @@ ModelCompareRoutes @@ MetricsRoutes @@ ProviderRoutes
    @@ KeyRoutes @@ KeyReportRoutes @@ AlertRoutes @@ AlertRuleRoutes @@ WebhookRoutes @@ UserRoutes
    @@ AuthRoutes @@ SettingRoutes @@ BudgetRoutes @@ ChannelRoutes @@ PolicyRoutes
    @@ PolicyListRoutes @@ PolicyEditorRoutes @@ OrganizationRoutes @@ SessionRoutes @@ PresetRoutes
=============================================================================
