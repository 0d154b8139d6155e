------------------------------ MODULE Catalogue ------------------------------
(***************************************************************************)
(* The domain packs: for each platform the terms that identify it and its  *)
(* modules, with their names, aliases and related modules, as the packs    *)
(* declare them.  Categories and descriptions are left out.                *)
(*                                                                         *)
(* A phrase is one token of a text, in lower case.  What str.__contains__  *)
(* says of two phrases is in the tables at the end of the module.          *)
(***************************************************************************)
EXTENDS Sequences

\* spelled: the key with spaces for underscores.
D(key, name, spelled, aliases, related) ==
    [key |-> key, names |-> <<name>> \o aliases, spelled |-> spelled, related |-> related]

ServiceNowSignals ==
    <<"servicenow", "service-now", "now platform", "glide", "gliderecord", "update set",
      "scoped application", "flow designer">>

ServiceNowDomains == <<
    D("itsm", "it service management", "itsm", <<"incident management", "change management",
      "problem management", "service desk">>, {"csm", "itom", "cmdb", "flow_designer"}),
    D("csm", "customer service management", "csm", <<"customer service", "case management">>,
      {"itsm", "fsm", "portals"}),
    D("hrsd", "hr service delivery", "hrsd", <<"hr service delivery",
      "employee service center">>, {"itsm", "workspaces", "portals"}),
    D("spm", "strategic portfolio management", "spm", <<"itbm", "ppm",
      "project portfolio management", "demand management">>, {"app_engine", "flow_designer"}),
    D("cmdb", "configuration management database", "cmdb", <<"configuration management", "csdm",
      "ci">>, {"itom", "itam", "sam", "itsm"}),
    D("itom", "it operations management", "itom", <<"discovery", "service mapping",
      "event management">>, {"cmdb", "itsm"}),
    D("itam", "it asset management", "itam", <<"asset management", "hardware asset management",
      "ham">>, {"sam", "cmdb"}),
    D("sam", "software asset management", "sam", <<"software asset management",
      "license management">>, {"itam", "cmdb"}),
    D("grc", "governance, risk & compliance", "grc", <<"irm", "integrated risk management",
      "risk management", "audit">>, {"secops"}),
    D("secops", "security operations", "secops", <<"security incident response",
      "vulnerability response", "sir", "vr">>, {"grc", "itsm"}),
    D("fsm", "field service management", "fsm", <<"field service", "work order management">>,
      {"csm", "itsm"}),
    D("app_engine", "app engine", "app engine", <<"appengine", "now platform app development",
      "app engine studio">>, {"flow_designer", "script_includes", "business_rules",
      "ui_policies"}),
    D("flow_designer", "flow designer", "flow designer", <<"flow designer", "flows",
      "subflows">>, {"integrationhub", "business_rules", "app_engine"}),
    D("integrationhub", "integrationhub", "integrationhub", <<"integration hub", "spokes">>,
      {"flow_designer", "rest_soap"}),
    D("script_includes", "script includes", "script includes", <<"script include",
      "server script">>, {"business_rules", "acls", "app_engine"}),
    D("acls", "access control lists", "acls", <<"acl", "access control", "security rules">>,
      {"business_rules", "script_includes"}),
    D("business_rules", "business rules", "business rules", <<"business rule",
      "before/after rule">>, {"script_includes", "client_scripts", "ui_policies",
      "flow_designer"}),
    D("ui_policies", "ui policies", "ui policies", <<"ui policy">>, {"client_scripts",
      "business_rules"}),
    D("client_scripts", "client scripts", "client scripts", <<"client script",
      "onchange script">>, {"ui_policies", "business_rules"}),
    D("catalog_items", "catalog items", "catalog items", <<"catalog item", "record producer",
      "order guide">>, {"flow_designer", "portals", "itsm"}),
    D("workspaces", "workspaces", "workspaces", <<"agent workspace", "configurable workspace",
      "ui builder">>, {"portals", "csm", "hrsd"}),
    D("portals", "service portals", "portals", <<"service portal", "portal widget",
      "employee center">>, {"workspaces", "catalog_items"}),
    D("rest_soap", "rest / soap integrations", "rest soap", <<"rest api", "soap",
      "scripted rest", "web service", "integration">>, {"integrationhub", "script_includes"}) >>

SalesforceSignals ==
    <<"salesforce", "sfdc", "force.com", "apex", "soql", "sosl", "visualforce",
      "lightning web component", "lwc", "trailhead", "validation rule", "permission set",
      "sandbox org">>

SalesforceDomains == <<
    D("sales_cloud", "sales cloud", "sales cloud", <<"sales cloud", "opportunity",
      "lead management", "forecasting", "pipeline">>, {"service_cloud", "data_model",
      "reports_dashboards"}),
    D("service_cloud", "service cloud", "service cloud", <<"service cloud", "case management",
      "omni-channel", "knowledge base">>, {"sales_cloud", "experience_cloud", "data_model"}),
    D("experience_cloud", "experience cloud", "experience cloud", <<"experience cloud",
      "community cloud", "communities", "digital experience">>, {"service_cloud", "lwc"}),
    D("apex", "apex", "apex", <<"apex class", "apex code", "governor limits", "batch apex",
      "queueable">>, {"triggers", "soql_sosl", "integration"}),
    D("triggers", "apex triggers", "triggers", <<"apex trigger", "trigger handler",
      "before insert", "after update">>, {"apex", "flow", "validation_rules"}),
    D("soql_sosl", "soql / sosl", "soql sosl", <<"soql", "sosl", "query", "selective query">>,
      {"apex", "data_model"}),
    D("flow", "flow", "flow", <<"flow builder", "record-triggered flow", "screen flow",
      "process builder">>, {"triggers", "validation_rules", "approval_process"}),
    D("lwc", "lightning web components", "lwc", <<"lightning web component", "lwc", "aura",
      "lightning component", "lightning app builder">>, {"experience_cloud", "apex"}),
    D("visualforce", "visualforce", "visualforce", <<"visualforce page", "vf page",
      "apex controller">>, {"apex", "lwc"}),
    D("validation_rules", "validation rules", "validation rules", <<"validation rule",
      "formula field", "error condition">>, {"flow", "triggers", "data_model"}),
    D("approval_process", "approval processes", "approval process", <<"approval process",
      "approval workflow", "approval step">>, {"flow", "permissions"}),
    D("permissions", "profiles & permissions", "permissions", <<"permission set", "profile",
      "sharing rule", "org-wide defaults", "field-level security", "owd">>, {"data_model",
      "approval_process"}),
    D("data_model", "data model & schema", "data model", <<"custom object", "custom field",
      "relationship", "schema", "record type">>, {"soql_sosl", "permissions",
      "validation_rules"}),
    D("integration", "integration & apis", "integration", <<"rest api", "soap api", "bulk api",
      "platform event", "named credential", "callout">>, {"apex", "data_model"}),
    D("reports_dashboards", "reports & dashboards", "reports dashboards", <<"report",
      "dashboard", "report type", "analytics">>, {"sales_cloud", "data_model"}),
    D("deployment", "devops & deployment", "deployment", <<"sfdx", "change set", "metadata api",
      "scratch org", "unlocked package", "cli">>, {"apex", "integration"}) >>

JiraSignals ==
    <<"jira", "jql", "atlassian", "jira service management", "jira software", "confluence",
      "automation for jira", "jira automation", "jira cloud", "jira admin">>

JiraDomains == <<
    D("boards", "boards", "boards", <<"scrum board", "kanban board", "board", "swimlane",
      "board configuration">>, {"agile", "workflows", "reports"}),
    D("agile", "agile planning", "agile", <<"epic", "sprint", "backlog", "story points",
      "release", "version">>, {"boards", "issues", "reports"}),
    D("issues", "issues & fields", "issues", <<"issue type", "screen scheme",
      "field configuration", "sub-task", "linked issue">>, {"custom_fields", "workflows",
      "projects"}),
    D("custom_fields", "custom fields", "custom fields", <<"custom field", "field context",
      "cascading select">>, {"issues", "jql"}),
    D("workflows", "workflows", "workflows", <<"workflow", "transition", "status",
      "post function", "workflow scheme">>, {"issues", "automation", "permissions"}),
    D("jql", "jql", "jql", <<"jira query language", "jql query", "filter", "saved filter">>,
      {"dashboards", "issues"}),
    D("automation", "automation", "automation", <<"automation rule", "automation for jira",
      "trigger", "smart values">>, {"workflows", "rest_api"}),
    D("projects", "projects", "projects", <<"project configuration", "project role",
      "component", "team-managed", "company-managed">>, {"permissions", "issues"}),
    D("permissions", "permissions & security", "permissions", <<"permission scheme",
      "issue security", "role", "group", "global permission">>, {"projects", "workflows"}),
    D("dashboards", "dashboards & reports", "dashboards", <<"dashboard", "gadget",
      "wallboard">>, {"jql", "reports"}),
    D("reports", "agile reports", "reports", <<"burndown", "burnup", "velocity chart",
      "cumulative flow", "control chart">>, {"agile", "boards"}),
    D("jsm", "jira service management", "jsm", <<"jira service management", "service desk",
      "sla", "request type", "customer portal">>, {"workflows", "automation"}),
    D("rest_api", "rest api & webhooks", "rest api", <<"rest api", "webhook", "api token",
      "forge", "connect app">>, {"automation", "marketplace"}),
    D("marketplace", "marketplace apps", "marketplace", <<"marketplace app", "plugin", "add-on",
      "atlassian marketplace">>, {"rest_api"}) >>

\* The packs in the order in which their entry points are declared.
Packs == <<
    [key |-> "servicenow", signals |-> ServiceNowSignals, domains |-> ServiceNowDomains],
    [key |-> "salesforce", signals |-> SalesforceSignals, domains |-> SalesforceDomains],
    [key |-> "jira", signals |-> JiraSignals, domains |-> JiraDomains] >>

-----------------------------------------------------------------------------
(* Substrings *)

\* <<p, q>>: phrase p holds q as words of its own.
Words ==
    {<<"access control lists", "access control">>, <<"agile planning", "agile">>,
     <<"agile reports", "agile">>, <<"agile reports", "reports">>, <<"apex class", "apex">>,
     <<"apex code", "apex">>, <<"apex controller", "apex">>, <<"apex trigger", "apex">>,
     <<"apex trigger", "trigger">>, <<"apex triggers", "apex">>,
     <<"apex triggers", "triggers">>, <<"app engine studio", "app engine">>,
     <<"approval workflow", "workflow">>, <<"atlassian marketplace", "atlassian">>,
     <<"atlassian marketplace", "marketplace">>, <<"automation for jira", "automation">>,
     <<"automation for jira", "jira">>, <<"automation rule", "automation">>,
     <<"batch apex", "apex">>, <<"board configuration", "board">>,
     <<"configuration management database", "configuration management">>,
     <<"cumulative flow", "flow">>, <<"customer service management", "customer service">>,
     <<"dashboards & reports", "dashboards">>, <<"dashboards & reports", "reports">>,
     <<"data model & schema", "data model">>, <<"data model & schema", "schema">>,
     <<"devops & deployment", "deployment">>, <<"field service management", "field service">>,
     <<"flow builder", "flow">>, <<"flow designer", "flow">>,
     <<"hardware asset management", "asset management">>,
     <<"integrated risk management", "risk management">>,
     <<"integration & apis", "integration">>, <<"integration hub", "integration">>,
     <<"issues & fields", "issues">>, <<"it asset management", "asset management">>,
     <<"jira admin", "jira">>, <<"jira automation", "automation">>,
     <<"jira automation", "jira">>, <<"jira cloud", "jira">>, <<"jira query language", "jira">>,
     <<"jira query language", "query">>, <<"jira service management", "jira">>,
     <<"jira software", "jira">>, <<"jql query", "jql">>, <<"jql query", "query">>,
     <<"kanban board", "board">>, <<"lightning component", "component">>,
     <<"lightning web component", "component">>, <<"marketplace app", "marketplace">>,
     <<"marketplace apps", "marketplace">>, <<"now platform app development", "now platform">>,
     <<"permissions & security", "permissions">>, <<"profiles & permissions", "permissions">>,
     <<"project role", "role">>, <<"record-triggered flow", "flow">>,
     <<"report type", "report">>, <<"reports & dashboards", "dashboards">>,
     <<"reports & dashboards", "reports">>, <<"reports dashboards", "dashboards">>,
     <<"reports dashboards", "reports">>, <<"rest / soap integrations", "soap">>,
     <<"rest api & webhooks", "rest api">>, <<"rest soap", "soap">>,
     <<"saved filter", "filter">>, <<"screen flow", "flow">>, <<"scrum board", "board">>,
     <<"selective query", "query">>, <<"service portals", "portals">>, <<"soap api", "soap">>,
     <<"software asset management", "asset management">>, <<"soql / sosl", "soql">>,
     <<"soql / sosl", "sosl">>, <<"soql sosl", "soql">>, <<"soql sosl", "sosl">>,
     <<"store readiness", "store">>, <<"trigger handler", "trigger">>,
     <<"visualforce page", "visualforce">>, <<"workflow scheme", "workflow">>}

\* <<p, q>>: phrase p holds q, but inside words ("incident" holds "ci").
Inside ==
    {<<"acls", "acl">>, <<"agile reports", "report">>, <<"apex triggers", "apex trigger">>,
     <<"apex triggers", "trigger">>, <<"approval processes", "approval process">>,
     <<"approval workflow", "flow">>, <<"boards", "board">>,
     <<"business rules", "business rule">>, <<"catalog items", "catalog item">>,
     <<"client script", "cli">>, <<"client scripts", "cli">>,
     <<"client scripts", "client script">>, <<"custom fields", "custom field">>,
     <<"dashboard", "board">>, <<"dashboards", "board">>, <<"dashboards", "boards">>,
     <<"dashboards", "dashboard">>, <<"dashboards & reports", "board">>,
     <<"dashboards & reports", "boards">>, <<"dashboards & reports", "dashboard">>,
     <<"dashboards & reports", "report">>, <<"flows", "flow">>, <<"gliderecord", "glide">>,
     <<"incident management", "ci">>, <<"integrationhub", "integration">>,
     <<"lightning web components", "component">>,
     <<"lightning web components", "lightning web component">>,
     <<"marketplace apps", "marketplace app">>, <<"profiles & permissions", "profile">>,
     <<"record-triggered flow", "trigger">>, <<"reports", "report">>,
     <<"reports & dashboards", "board">>, <<"reports & dashboards", "boards">>,
     <<"reports & dashboards", "dashboard">>, <<"reports & dashboards", "report">>,
     <<"reports dashboards", "board">>, <<"reports dashboards", "boards">>,
     <<"reports dashboards", "dashboard">>, <<"reports dashboards", "report">>,
     <<"rest / soap integrations", "integration">>, <<"rest api & webhooks", "webhook">>,
     <<"script includes", "script include">>, <<"security incident response", "ci">>,
     <<"service portals", "service portal">>, <<"subflows", "flow">>, <<"subflows", "flows">>,
     <<"triggers", "trigger">>, <<"ui policies", "ci">>,
     <<"validation rules", "validation rule">>, <<"velocity chart", "ci">>,
     <<"wallboard", "board">>, <<"workflow", "flow">>, <<"workflow scheme", "flow">>,
     <<"workflows", "flow">>, <<"workflows", "flows">>, <<"workflows", "workflow">>}

=============================================================================
