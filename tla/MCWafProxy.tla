----------------------------- MODULE MCWafProxy -----------------------------
(***************************************************************************)
(* A file that blocks and routes, a whitelist that may allow before it as  *)
(* long as the plugin whose function it calls is there, and an audit file  *)
(* before both: the one cycle never gets past it.                          *)
(***************************************************************************)
EXTENDS WafProxy

MCVerdict == [f \in Files |->
    CASE f = "guard.yaml" -> "Block" [] f = "white.grl" -> "Allow" [] OTHER -> "Log"]

MCSalience == [f \in Files |-> IF f = "audit.grl" THEN 900 ELSE 500]

MCNeeds == [f \in Files |-> IF f = "white.grl" THEN {"blacklist"} ELSE {}]

MCBackend == [f \in Yaml |-> "python"]

MCBackends == [name \in {"python"} |-> "http://127.0.0.1:3001"]

MCPriority == [f \in Yaml |-> 10]

MCOnPath == [f \in Yaml |-> Requests]
=============================================================================
