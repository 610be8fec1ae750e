---------------------------- MODULE ConsoleHooks ----------------------------
(***************************************************************************)
(* The hooks of the console: a view queries a route under a key, and may   *)
(* poll it; a deed calls a route and, when that has succeeded, invalidates *)
(* the keys that begin with one of its own.  And the pages that use them.  *)
(***************************************************************************)
EXTENDS ConsoleData

View(route, key) == [route |-> route, key |-> key, polls |-> FALSE]
Polled(route, key) == [route |-> route, key |-> key, polls |-> TRUE]
Deed(route, keys) == [route |-> route, keys |-> keys]

Models == {<<"admin", "models">>}
ProviderKeys == {<<"admin", "providers">>}
Keys == {<<"admin", "virtual-keys">>}

MetricsViews == "useMetrics" :> Polled("GET metrics", <<"admin", "metrics">>)
ModelViews ==
    "useModels" :> View("GET models", <<"admin", "models", "*">>)
    @@ "useModelDetail" :> View("GET models/*", <<"admin", "models", "*">>)
ProviderViews ==
    "useProviders" :> View("GET metrics", <<"admin", "providers">>)
    @@ "useProvidersHealth" :> View("GET providers/health", <<"admin", "providers", "health">>)
    @@ "useProviderHealthHistory" :>
           View("GET providers/*/history", <<"admin", "providers", "*", "health", "history">>)
ProviderDeeds ==
    "useTriggerProviderHealth" :> Deed("POST providers/*/health", ProviderKeys)
    @@ "useTriggerBalanceCheck" :>
           Deed("POST providers/balance/check", {<<"admin", "providers", "balance">>})
BalanceViews ==
    "useBalanceAlerts" :>
        View("GET providers/balance/alerts", <<"admin", "providers", "balance", "alerts">>)
ModelDeeds ==
    "useEvaluateAutoBlacklist" :> Deed("POST models/evaluate", Models)
    @@ "useBulkPatchModels" :> Deed("POST models/bulk", Models)
    @@ "useImportModels" :> Deed("POST models/import", Models)
RefreshDeeds ==
    "useRefreshModels" :> Deed("POST models/refresh", Models \cup {<<"admin", "metrics">>})
    @@ "usePatchModel" :> Deed("PATCH models/*", Models)

AdminProviders ==
    "useAdminProviders" :> View("GET providers", <<"admin", "providers", "crud">>)
AdminProviderDeeds ==
    "useCreateProvider" :> Deed("POST providers", ProviderKeys)
    @@ "useUpdateProvider" :> Deed("PATCH providers/*", ProviderKeys)
    @@ "useDeleteProvider" :> Deed("DELETE providers/*", ProviderKeys)
    @@ "useRotateProviderKey" :> Deed("POST providers/*/key", ProviderKeys)

UserViews == "useAdminUsers" :> View("GET users", <<"admin", "users">>)
UserDeeds ==
    "useCreateAdminUser" :> Deed("POST users", {<<"admin", "users">>})
    @@ "usePatchAdminUser" :> Deed("PATCH users/*", {<<"admin", "users">>})
    @@ "useDeleteAdminUser" :> Deed("DELETE users/*", {<<"admin", "users">>, <<"admin", "sessions">>})
SessionViews == "useAdminSessions" :> Polled("GET sessions", <<"admin", "sessions">>)
SessionDeeds == "useRevokeAdminSession" :> Deed("POST sessions/*/revoke", {<<"admin", "sessions">>})
AuthViews == "useAuthStatus" :> View("GET auth/me", <<"admin", "auth", "me">>)

OrganizationViews ==
    "useOrganizationsWithProjects" :> View("GET organizations", <<"admin", "organizations", "*">>)
    @@ "useProjects" :> View("GET projects", <<"admin", "projects">>)
KeyViews == "useVirtualKeys" :> View("GET virtual-keys", <<"admin", "virtual-keys">>)
KeyUsageViews ==
    "useVkUsageSnapshot" :> View("GET virtual-keys/*/usage", <<"admin", "virtual-keys", "*", "usage">>)
    @@ "useVkUsageAlerts" :>
           View("GET virtual-keys/alerts/recent", <<"admin", "virtual-keys", "alerts">>)
WeeklyViews ==
    "useVkWeeklyReportPreview" :>
        View("GET virtual-keys/weekly-report", <<"admin", "virtual-keys", "weekly-report">>)
WeeklyDeeds ==
    "useForceSendWeeklyReport" :>
        Deed("POST virtual-keys/weekly-report/send", {<<"admin", "virtual-keys", "weekly-report">>})
    @@ "useTriggerVkUsageCheck" :>
        Deed("POST virtual-keys/alerts/check", {<<"admin", "virtual-keys", "alerts">>})
BoardViews ==
    "useVkSpendLeaderboard" :>
        Polled("GET virtual-keys/spend-leaderboard", <<"admin", "virtual-keys", "spend-leaderboard", "*">>)
KeyDeeds ==
    "useCreateKey" :> Deed("POST virtual-keys", Keys)
    @@ "useRotateKey" :> Deed("POST virtual-keys/*/rotate", Keys)
    @@ "useRevokeKey" :> Deed("DELETE virtual-keys/*", Keys)

AlertViews ==
    "useAlerts" :> View("GET alerts", <<"admin", "alerts", "*">>)
    @@ "useAlertsStats" :> View("GET alerts/stats", <<"admin", "alerts", "stats">>)
AlertDeeds == "useResolveAlert" :> Deed("POST alerts/*/resolve", {<<"admin", "alerts">>})
RuleViews == "useAlertRules" :> View("GET alert-rules", <<"admin", "alert-rules">>)
RuleDeeds ==
    "useCreateAlertRule" :> Deed("POST alert-rules", {<<"admin", "alert-rules">>})
    @@ "useUpdateAlertRule" :> Deed("PATCH alert-rules/*", {<<"admin", "alert-rules">>})
    @@ "useDeleteAlertRule" :> Deed("DELETE alert-rules/*", {<<"admin", "alert-rules">>})
    @@ "useEvaluateAlertRules" :>
           Deed("POST alert-rules/evaluate", {<<"admin", "alert-rules">>, <<"admin", "alerts">>})

WebhookViews == "useWebhooks" :> View("GET webhooks", <<"admin", "webhooks">>)
WebhookDeeds ==
    "useCreateWebhook" :> Deed("POST webhooks", {<<"admin", "webhooks">>})
    @@ "useUpdateWebhook" :> Deed("PATCH webhooks/*", {<<"admin", "webhooks">>})
    @@ "useDeleteWebhook" :> Deed("DELETE webhooks/*", {<<"admin", "webhooks">>})
DeliveryViews ==
    "useWebhookDeliveries" :> View("GET webhooks/*/deliveries", <<"webhook-deliveries", "*">>)
DeliveryDeeds == "useRetryDelivery" :> Deed("POST deliveries/*/retry", {<<"webhook-deliveries">>})

SettingViews == "useSettings" :> View("GET settings", <<"admin", "settings">>)
SettingDeeds == "usePatchSettings" :> Deed("PATCH settings", {<<"admin", "settings">>})
RetentionViews ==
    "useRetentionPolicy" :> View("GET settings/retention", <<"admin", "settings", "retention">>)
RetentionDeeds ==
    "useUpdateRetentionPolicy" :>
        Deed("PATCH settings/retention", {<<"admin", "settings", "retention">>})
    @@ "useRunRetentionPurge" :> Deed("POST settings/retention/purge", {})
RetryViews ==
    "useRetryPolicy" :> View("GET settings/retry-policy", <<"admin", "settings", "retry-policy">>)
    @@ "useRetryPolicyPreview" :>
           View("GET settings/retry-policy/preview", <<"admin", "settings", "retry-policy", "preview", "*">>)
RetryDeeds ==
    "useUpdateRetryPolicy" :>
        Deed("PATCH settings/retry-policy", {<<"admin", "settings", "retry-policy">>,
                                             <<"admin", "settings", "retry-policy", "preview">>})

BudgetViews == "useBudgets" :> View("GET budgets", <<"budgets">>)
BudgetDeeds ==
    "useCreateBudget" :> Deed("POST budgets", {<<"budgets">>})
    @@ "useUpdateBudget" :> Deed("PATCH budgets/*", {<<"budgets">>})
    @@ "useDeleteBudget" :> Deed("DELETE budgets/*", {<<"budgets">>})
ChannelViews == "useNotifyChannels" :> View("GET notify-channels", <<"notify-channels">>)
ChannelDeeds ==
    "useCreateNotifyChannel" :> Deed("POST notify-channels", {<<"notify-channels">>})
    @@ "useUpdateNotifyChannel" :> Deed("PATCH notify-channels/*", {<<"notify-channels">>})
    @@ "useDeleteNotifyChannel" :> Deed("DELETE notify-channels/*", {<<"notify-channels">>})
    @@ "useTestNotifyChannel" :> Deed("POST notify-channels/*/test", {})

PolicyViews == "useRoutingPolicies" :> View("GET routing-policies", <<"routing-policies">>)
PolicyDeeds ==
    "useCreateRoutingPolicy" :> Deed("POST routing-policies", {<<"routing-policies">>})
    @@ "useActivateRoutingPolicy" :> Deed("POST routing-policy/*/activate", {<<"routing-policies">>})
    @@ "useDeleteRoutingPolicy" :> Deed("DELETE routing-policy/*", {<<"routing-policies">>})
EditorViews ==
    "useRoutingPolicyEditor" :> View("GET routing-policy-editor", <<"routing-policy-editor">>)
EditorDeeds == "useSaveRoutingPolicy" :> Deed("PUT routing-policy/*", {<<"routing-policy-editor">>})

CompareViews == "useModelCompare" :> View("GET model-compare", <<"model-compare", "*">>)

Sessions == {<<"playground", "sessions", "*">>}
Presets == {<<"playground", "presets", "*">>}
PlaygroundViews ==
    "usePlaygroundSessions" :> View("GET playground/sessions", <<"playground", "sessions", "*">>)
    @@ "usePlaygroundSession" :>
           View("GET playground/sessions/*", <<"playground", "sessions", "*", "*">>)
PlaygroundDeeds ==
    "useCreatePlaygroundSession" :> Deed("POST playground/sessions", Sessions)
    @@ "useUpdatePlaygroundSession" :>
           Deed("PATCH playground/sessions/*", Sessions \cup {<<"playground", "sessions", "*", "*">>})
    @@ "useDeletePlaygroundSession" :> Deed("DELETE playground/sessions/*", Sessions)
PresetViews ==
    "usePlaygroundPresets" :> View("GET playground/presets", <<"playground", "presets", "*">>)
PresetDeeds ==
    "useCreatePlaygroundPreset" :> Deed("POST playground/presets", Presets)
    @@ "useUpdatePlaygroundPreset" :> Deed("PATCH playground/presets/*", Presets)
    @@ "useDeletePlaygroundPreset" :> Deed("DELETE playground/presets/*", Presets)
    @@ "useMarkPresetUsed" :> Deed("POST playground/presets/*/used", Presets)

ViewOf ==
    MetricsViews @@ ModelViews @@ ProviderViews @@ BalanceViews @@ AdminProviders @@ UserViews
    @@ SessionViews @@ AuthViews @@ OrganizationViews @@ KeyViews @@ KeyUsageViews @@ WeeklyViews
    @@ BoardViews @@ AlertViews @@ RuleViews @@ WebhookViews @@ DeliveryViews @@ SettingViews
    @@ RetentionViews @@ RetryViews @@ BudgetViews @@ ChannelViews @@ PolicyViews @@ EditorViews
    @@ CompareViews @@ PlaygroundViews @@ PresetViews

-----------------------------------------------------------------------------
(* The components of the pages.  Those of organisations call their routes  *)
(* themselves, and the page then invalidates two keys.  The events that the*)
(* dashboard listens to only invalidate what the server's memory answers.  *)
Component(views, deeds) == [views |-> views, deeds |-> deeds]
Page(parts) == [views |-> UNION {c.views : c \in parts}, deeds |-> UNION {c.deeds : c \in parts}]

ModelsPage ==
    Component({"useModels", "useModelDetail"},
              {"useRefreshModels", "usePatchModel", "useEvaluateAutoBlacklist", "useBulkPatchModels",
               "useImportModels"})
DashboardPage == Component({"useMetrics", "useAlertsStats"}, {"useRefreshModels"})

AddProviderDialog == Component({}, {"useCreateProvider"})
AdminProvidersAdvancedCard ==
    Component({"useAdminProviders"}, {"useUpdateProvider", "useDeleteProvider", "useRotateProviderKey"})
ProviderCards ==
    Component({"useProviders", "useProvidersHealth", "useBalanceAlerts"},
              {"useTriggerProviderHealth", "useRefreshModels", "useTriggerBalanceCheck"})
ProvidersPage == Page({ProviderCards, AddProviderDialog, AdminProvidersAdvancedCard})

CreateForm == Component({"useProjects"}, {"useCreateKey"})
VirtualKeyUsageBlock == Component({"useVkUsageSnapshot"}, {})
VKSpendLeaderboardCard == Component({"useVkSpendLeaderboard"}, {})
KeyList ==
    Component({"useVirtualKeys", "useVkUsageAlerts", "useVkWeeklyReportPreview"},
              {"useTriggerVkUsageCheck", "useForceSendWeeklyReport", "useRotateKey", "useRevokeKey"})
VirtualKeysPage == Page({KeyList, CreateForm, VirtualKeyUsageBlock, VKSpendLeaderboardCard})

AlertRulesPanel ==
    Component({"useAlertRules"}, {"useCreateAlertRule", "useUpdateAlertRule", "useDeleteAlertRule",
                                  "useEvaluateAlertRules"})
AlertList == Component({"useAlerts", "useAlertsStats"}, {"useResolveAlert"})
AlertsPage == Page({AlertRulesPanel, AlertList})

CreateWebhookForm == Component({}, {"useCreateWebhook"})
WebhookCard ==
    Component({"useWebhookDeliveries"}, {"useUpdateWebhook", "useDeleteWebhook", "useRetryDelivery"})
WebhooksPage == Page({Component({"useWebhooks"}, {}), WebhookCard, CreateWebhookForm})

AdminUsersCard ==
    Component({"useAdminUsers"}, {"useCreateAdminUser", "usePatchAdminUser", "useDeleteAdminUser"})
AdminSessionsCard == Component({"useAdminSessions"}, {"useRevokeAdminSession"})
AdminPanelPage == Page({Component({"useAuthStatus"}, {}), AdminUsersCard, AdminSessionsCard})

SettingsForm == Component({"useSettings"}, {"usePatchSettings"})
RetentionPolicyCard ==
    Component({"useRetentionPolicy"}, {"useUpdateRetentionPolicy", "useRunRetentionPurge"})
RetryPolicyCard == Component({"useRetryPolicy", "useRetryPolicyPreview"}, {"useUpdateRetryPolicy"})
SettingsPage == Page({SettingsForm, RetentionPolicyCard, RetryPolicyCard})

BudgetCard == Component({}, {"useUpdateBudget", "useDeleteBudget"})
BudgetsPage == Page({Component({"useBudgets"}, {"useCreateBudget"}), BudgetCard})
ChannelCard == Component({}, {"useUpdateNotifyChannel", "useDeleteNotifyChannel", "useTestNotifyChannel"})
NotifyChannelsPage ==
    Page({Component({"useNotifyChannels"}, {"useCreateNotifyChannel"}), ChannelCard})
PolicyCard == Component({}, {"useActivateRoutingPolicy", "useDeleteRoutingPolicy"})
RoutingPoliciesPage ==
    Page({Component({"useRoutingPolicies"}, {"useCreateRoutingPolicy"}), PolicyCard})
RoutingPolicyEditorPage == Component({"useRoutingPolicyEditor"}, {"useSaveRoutingPolicy"})

PresetFormDialog == Component({}, {"useCreatePlaygroundPreset"})
PlaygroundPage ==
    Page({Component({"usePlaygroundSessions", "usePlaygroundSession", "usePlaygroundPresets"},
                    {"useCreatePlaygroundSession", "useUpdatePlaygroundSession",
                     "useDeletePlaygroundSession", "useMarkPresetUsed"}), PresetFormDialog})

OrganizationKeys == {<<"admin", "organizations">>, <<"admin", "projects">>}
OrganizationCard == "delete organization" :> Deed("DELETE organizations/*", OrganizationKeys)
CreateOrganizationForm == "create organization" :> Deed("POST organizations", OrganizationKeys)
CreateProjectForm == "create project" :> Deed("POST projects", OrganizationKeys)
OrganizationDeeds == OrganizationCard @@ CreateOrganizationForm @@ CreateProjectForm
OrganizationsPage == Component({"useOrganizationsWithProjects"}, DOMAIN OrganizationDeeds)

Pages ==
    {ModelsPage, DashboardPage, ProvidersPage, VirtualKeysPage, AlertsPage, WebhooksPage,
     AdminPanelPage, SettingsPage, BudgetsPage, NotifyChannelsPage, RoutingPoliciesPage,
     RoutingPolicyEditorPage, PlaygroundPage, OrganizationsPage}

DeedOf ==
    ProviderDeeds @@ ModelDeeds @@ RefreshDeeds @@ AdminProviderDeeds @@ UserDeeds @@ SessionDeeds
    @@ WeeklyDeeds @@ KeyDeeds @@ AlertDeeds @@ RuleDeeds @@ WebhookDeeds @@ DeliveryDeeds
    @@ SettingDeeds @@ RetentionDeeds @@ RetryDeeds @@ BudgetDeeds @@ ChannelDeeds @@ PolicyDeeds
    @@ EditorDeeds @@ PlaygroundDeeds @@ PresetDeeds @@ OrganizationDeeds

ReadBy(view) == Route[ViewOf[view].route].reads
WrittenBy(deed) == Route[DeedOf[deed].route].writes
Changes(deed, view) == WrittenBy(deed) \cap ReadBy(view) # {}
=============================================================================
