---------------------------- MODULE MCProvider -----------------------------
(***************************************************************************)
(* Instances of ProviderAdapter: every way two catalogue entries can refer *)
(* to each other, to themselves, or to nothing, and every kind of request. *)
(***************************************************************************)
EXTENDS ProviderAdapter

\* Ids of the providers' models, with the provider that knows them.
MCModelIds ==
    [id \in {"claude", "profile", "gpt"} |-> IF id = "gpt" THEN "openai" ELSE "bedrock"]

Entry(alias, provider, type, value, tools, structured) ==
    [ model_alias |-> alias, provider |-> provider, type |-> type, value |-> value,
      supports_tool_use |-> tools, supports_structured_output |-> structured ]

Resolutions(provider) ==
    { << "direct_model_id", IF provider = "openai" THEN "gpt" ELSE "claude" >>,
      << "cross_region_inference_profile", "profile" >> }
    \cup ({"router_alias"} \X {"a", "b", "ghost"})

Entries(alias, tools, structured) ==
    UNION { { Entry(alias, p, r[1], r[2], tools, structured) : r \in Resolutions(p) } :
            p \in {"bedrock", "openai"} }

\* "a" is what is asked for; "b" is another entry, before or after it.
MCCatalogueFiles ==
    LET As == Entries("a", TRUE, FALSE)
        Bs == Entries("b", FALSE, TRUE)
    IN  { << x >> : x \in As } \cup { << x, y >> : x \in As, y \in Bs }
        \cup { << x, x >> : x \in As }

MCProviderRequests ==
    { [ model_alias |-> alias, requires_tool_use |-> need = "tools",
        requires_structured_output |-> need = "structured", stream |-> stream ] :
        alias \in {"a", "b", "ghost"}, need \in {"none", "tools", "structured"}, stream \in BOOLEAN }

=============================================================================
