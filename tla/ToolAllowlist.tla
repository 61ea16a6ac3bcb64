---------------------------- MODULE ToolAllowlist ----------------------------
(***************************************************************************)
(* The MCP tool allowlist: a constant table of roles and the lookup that   *)
(* every agent makes before every tool call.  An agent may be named by its *)
(* role or by its agent id; an id counts as the role it spells when its    *)
(* letters are put in upper case, and a hyphen stays a hyphen.             *)
(***************************************************************************)

McpTool == {"GITHUB", "AWS_API_CLI", "TERRAFORM", "AZURE", "S3_KB", "FILESYSTEM", "AWS_DOCS"}

AgentRole == {"SUPERVISOR", "DISCOVERY", "DEVOPS", "SECURITY", "MODERNIZATION",
              "PORTFOLIO_ASSESSMENT", "PR_REVIEWER"}

(* The ids the agents carry. *)
AgentIds == {"discovery", "devops", "security", "modernization",
             "portfolio-assessment", "pr-reviewer"}

(* Seeded fault: the entries of Security and Modernization are swapped. *)
AGENT_MCP_TOOL_ALLOWLIST_Swapped ==
    [ SUPERVISOR           |-> {},
      DISCOVERY            |-> {"AZURE", "FILESYSTEM"},
      DEVOPS               |-> {"GITHUB", "TERRAFORM", "AWS_API_CLI"},
      SECURITY             |-> {"AWS_DOCS", "S3_KB", "FILESYSTEM"},
      MODERNIZATION        |-> {"AWS_API_CLI", "S3_KB"},
      PORTFOLIO_ASSESSMENT |-> {"S3_KB"},
      PR_REVIEWER          |-> {"GITHUB"} ]

AGENT_MCP_TOOL_ALLOWLIST ==
    [ SUPERVISOR           |-> {},
      DISCOVERY            |-> {"AZURE", "FILESYSTEM"},
      DEVOPS               |-> {"GITHUB", "TERRAFORM", "AWS_API_CLI"},
      SECURITY             |-> {"AWS_API_CLI", "S3_KB"},
      MODERNIZATION        |-> {"AWS_DOCS", "S3_KB", "FILESYSTEM"},
      PORTFOLIO_ASSESSMENT |-> {"S3_KB"},
      PR_REVIEWER          |-> {"GITHUB"} ]

(* AgentRole(str(agent).upper()): "portfolio-assessment" and "pr-reviewer" *)
(* spell no role.                                                          *)
ResolveAgentRole(agent) ==
    CASE agent \in AgentRole       -> agent
      [] agent = "discovery"       -> "DISCOVERY"
      [] agent = "devops"          -> "DEVOPS"
      [] agent = "security"        -> "SECURITY"
      [] agent = "modernization"   -> "MODERNIZATION"
      [] OTHER                     -> "UnknownAgentRoleError"

(* enforce_tool_allowlist returns iff this holds; no prompt is an argument. *)
Allowed(agent, tool) ==
    LET role == ResolveAgentRole(agent) IN
    role \in AgentRole /\ tool \in AGENT_MCP_TOOL_ALLOWLIST[role]
===============================================================================
