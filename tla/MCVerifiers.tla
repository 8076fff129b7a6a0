----------------------------- MODULE MCVerifiers -----------------------------
(***************************************************************************)
(* Texts of six tokens whose gaps hit and miss both windows, bundles of    *)
(* three traces in contexts with and without an exit code, and values and  *)
(* schemas two levels deep.                                                *)
(***************************************************************************)
EXTENDS SchemaProbe, TLC

MCText ==
    {"", "private", "team", "shared", "research-agent", "audit-agent", "quant-research", "run",
     "cross-check", "derived_from", "episodic", "mom-v2", "executor", "Promote strategy",
     "Require Sharpe > 0.5", "metric:sharpe=0.62", "metric:sharpe=0.38",
     "pytest:passed", "pytest:failed"}
MCStrip == [t \in MCText |-> t]
MCExecutorTag == [t \in MCText |-> "executor"]
MCKeys == {"pytest_exit_code", "strategy_id"}
MCPytestTags == {"pytest:passed", "pytest:failed"}

Write(kind, size, v) == [kind |-> kind, size |-> size, value |-> v]
Gap(n) == Write("gap", n, 0)
MCTokens == {Write("anchor", 6, 0), Write("minus", 1, 0), Gap(1), Gap(20), Gap(40),
             Write("number", 1, 1), Write("number", 1, 2)}
Reading(before, between, number) ==
    <<Gap(before), Write("anchor", 6, 0), Gap(between), Write("number", 4, number)>>
MCSpelling ==
    [t \in MCText |->
        CASE t = "Require Sharpe > 0.5" -> Reading(8, 3, 50)
          [] t = "metric:sharpe=0.62"   -> Reading(7, 1, 62)
          [] t = "metric:sharpe=0.38"   -> Reading(7, 1, 38)
          [] OTHER -> <<>>]
Meta(name) == [kind |-> "text", items |-> {name}]
MCPyValue ==
    (Meta("mom-v2") :> [type |-> "str"])
    @@ (Meta("") :> [type |-> "int", value |-> 0])
    @@ (Meta("run") :> [type |-> "int", value |-> 1])

Code(code) == [key \in MCKeys |-> IF key = "pytest_exit_code" THEN code ELSE None]

MCTraces ==
    {[executor_id |-> "run", content |-> "cross-check", trace_id |-> None, evidence |-> evidence,
      metadata |-> Code(code)] :
        evidence \in {<<>>, <<"pytest:passed">>, <<"pytest:failed", "run">>, <<"run", "pytest:passed">>},
        code \in {None, Meta(""), Meta("run")}}
MCContexts ==
    {[principal |-> "run", scope |-> "MemoryScope.TEAM", relationship |-> "run",
      classification |-> "run", trace_id |-> None, metadata |-> Code(code)] :
        code \in {None, Meta("")}}

Leaves == {[type |-> "int", value |-> 0], [type |-> "int", value |-> 2], [type |-> "float", value |-> 1],
           [type |-> "bool", value |-> 1], [type |-> "str"], [type |-> "none"], [type |-> "tuple"]}
Deeper(values) ==
    {[type |-> "list", items |-> <<>>]}
    \cup {[type |-> "list", items |-> <<v, w>>] : v, w \in values}
    \cup {[type |-> "dict", fields |-> [key \in keys |-> v]] : keys \in SUBSET {"a", "b"}, v \in values}
Shallow == Leaves \cup {[type |-> "list", items |-> <<[type |-> "int", value |-> 0]>>],
                        [type |-> "dict", fields |-> [key \in {"a"} |-> [type |-> "bool", value |-> 1]]]}
MCValues == Shallow \cup Deeper(Shallow)

Plain == {[type |-> t] : t \in {"string", "integer", "boolean", "null"}}
         \cup {[type |-> "number", minimum |-> lo, maximum |-> hi] : lo, hi \in {None, 1}}
Nested(schemas) ==
    {[type |-> "array", items |-> s] : s \in schemas \cup {None}}
    \cup {[type |-> "object", required |-> r, properties |-> [key \in {"a"} |-> s]] :
             r \in {{}, {"a"}, {"b"}}, s \in schemas}
MCSchemas == Plain \cup Nested(Plain)
                 \cup Nested({[type |-> "array", items |-> [type |-> "integer"]],
                              [type |-> "object", required |-> {"b"}, properties |-> <<>>]})
=============================================================================
