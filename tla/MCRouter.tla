------------------------------- MODULE MCRouter -------------------------------
(* Instances of Router and CommandLine for TLC. *)
EXTENDS CommandLine

Rpm(n) == [l \in LimitKinds |-> IF l = "rpm" THEN n ELSE NoLimit]

AnEntry(provider, model, caps, context) ==
    [provider |-> provider, model |-> model, capabilities |-> caps,
     context_window |-> context, limits |-> Rpm(3)]

E1 == AnEntry("groq", "llama", {"coding"}, 1)
E2 == AnEntry("kimi", "llama", {}, 2)
E3 == AnEntry("kimi", "k2", {"coding"}, 2)

MCRegistries == { <<>>, <<E1>>, <<E3, E1>>, <<E1, E2>>, <<E1, E2, E3>>, <<E3, E1, E2>>,
                  <<E2, E3, E1>> }

AKey(provider, label, enabled, override) ==
    [provider |-> provider, label |-> label, enabled |-> enabled, override |-> override]

K1 == AKey("groq", "a", TRUE, NoLimit)
K2 == AKey("kimi", "a", TRUE, Rpm(0))
K3 == AKey("kimi", "b", TRUE, Rpm(NoLimit))
Off(k) == [k EXCEPT !.enabled = FALSE]

MCKeyLists == { <<>>, <<K1>>, <<K1, K3>>, <<K1, K2>>, <<K3, K1, K2>>, <<K2, Off(K1), K3>>,
                <<Off(K2), Off(K3)>> }

MCPolicies ==
    [prefer : { <<>>, <<"kimi">>, <<"kimi", "groq">>, <<"groq", "kimi", "groq">> },
     avoid : { {}, {"groq"} }, capabilities : { {}, {"coding"} }, min_context : { NoLimit, 2 }]

\* No policy, the default one, or one more logical model.  "k2" is also the name
\* of a physical model.
MCConfigs ==
    [keys : MCKeyLists,
     policies : { <<>> } \cup UNION { [{name} -> MCPolicies] : name \in {"auto", "k2"} }]

MCNames == {"auto", "k2", "llama", "other"}
=============================================================================
