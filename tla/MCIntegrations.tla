---- MODULE MCIntegrations ----
(* Two plugins, the id of one a prefix of the other's, so that both may offer *)
(* the same tool, which the MCP server of that name may list as well; a       *)
(* server the policy denies; the other declared by a plugin too.              *)
EXTENDS Integrations

MCCandidates == <<"dirA", "dirB">>
MCPluginId == [dirA |-> "a", dirB |-> "a.b"]
MCOffers ==
    [dirA |-> {[kind |-> "tool", name |-> "a.b.t"], [kind |-> "prompt", name |-> "p"]},
     dirB |-> {[kind |-> "tool", name |-> "a.b.t"], [kind |-> "mcp_server", name |-> "a"]}]
MCEnvServers == <<"denied", "a">>
MCAllowedTools == {<<"a", "b.t">>}
MCMaxStaged == [dirA |-> 2, dirB |-> 1]
MCPrefixed == [x \in {"denied", "a"} \X {"b.t"} |->
                 IF x[1] = "a" THEN "a.b.t" ELSE "denied.b.t"]
====
