------------------------- MODULE MCAgentConfigMatch -------------------------
(* A small instance of AgentConfigMatch: two service names and two           *)
(* environments beside the empty ones, two etags so that two configurations  *)
(* of the same service can be told apart.                                    *)
EXTENDS AgentConfigMatch

MCNames == {"", "svcA", "svcB"}
MCEnvs == {"", "prod", "test"}
MCAgentNames == {"", "rum-js", "java"}
MCEtags == {"-", "e1", "e2"}
MCSettingKeys == {"transaction_sample_rate", "capture_body"}
MCUnrestricted == {"transaction_sample_rate"}

\* Configuration with etag e1 is a RUM agent's, the one with e2 a Java agent's.
MCConfig(n, v, e) ==
    [name |-> n, env |-> v, etag |-> e,
     agent |-> IF e = "e1" THEN "rum-js" ELSE "java",
     settings |-> IF e = "e1" THEN MCSettingKeys ELSE MCUnrestricted]

MCAgentConfigs == {MCConfig(n, v, e) : n \in MCNames, v \in MCEnvs, e \in {"e1", "e2"}}

MCQueries == [name : MCNames, env : MCEnvs, insecure : {{}}]
MCInsecureQueries == [name : MCNames, env : MCEnvs, insecure : {{}, {"rum-js"}}]
=============================================================================
