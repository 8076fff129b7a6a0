----------------------------- MODULE SchemaProbe -----------------------------
(***************************************************************************)
(* The schema verifier's walk into a value, part by part, from any of a    *)
(* set of values held to any of a set of schemas, beside the texts and     *)
(* bundles of VerifierProbe, with the two cases of                         *)
(* examples/edv_commit_demo.py among the bundles.                          *)
(***************************************************************************)
EXTENDS VerifierProbe, JsonSchema

CONSTANTS Values, Schemas

VARIABLES value, schema

probeVars == <<text, bundle, value, schema>>

Nothing == [type |-> "nothing"]
NoSchema == [type |-> "string"]

NoNames == [key \in MetaKeys |-> None]

\* The traces of the demo's two cases; numbers are in hundredths.
Strategy == [NoNames EXCEPT !["strategy_id"] = [kind |-> "text", items |-> {"mom-v2"}]]

DemoTraces(lesson, evidence) ==
    <<[executor_id |-> "research-agent", content |-> lesson, trace_id |-> "run",
       evidence |-> evidence, metadata |-> Strategy],
      [executor_id |-> "audit-agent", content |-> "cross-check", trace_id |-> "run",
       evidence |-> <<>>, metadata |-> NoNames]>>

CommittedCase == DemoTraces("Require Sharpe > 0.5", <<"metric:sharpe=0.62", "pytest:passed">>)
RejectedCase  == DemoTraces("Promote strategy", <<"metric:sharpe=0.38", "pytest:failed">>)

DemoContext ==
    [principal |-> "quant-research", scope |-> "MemoryScope.TEAM",
     relationship |-> "derived_from", classification |-> "episodic", trace_id |-> "run",
     metadata |-> Strategy]

SharpeVerifier ==
    [expected |-> 62, tolerance |-> 5, sources |-> {"lesson", "evidence", "metadata"},
     metadata_key |-> None]
StrategySchema ==
    [field |-> "metadata",
     schema |-> [type |-> "object", required |-> {"strategy_id"},
                 properties |-> [key \in {"strategy_id"} |-> [type |-> "string"]]]]

\* A value and a schema, or a text or a bundle to be continued.
ProbeInit ==
    /\ text = <<>>
    /\ \/ value \in Values /\ schema \in Schemas /\ bundle = <<>>
       \/ /\ value = Nothing /\ schema = NoSchema
          /\ bundle \in {<<>>, CommittedCase, RejectedCase}

\* The validator calls itself for a field that is present and described ...
IntoField ==
    /\ schema.type = "object" /\ value.type = "dict"
    /\ \E key \in DOMAIN schema.properties \cap DOMAIN value.fields :
          /\ value' = value.fields[key]
          /\ schema' = schema.properties[key]
    /\ UNCHANGED verifierVars

\* ... and for every item of a list whose items are described.
IntoItem ==
    /\ schema.type = "array" /\ value.type = "list" /\ schema.items # None
    /\ \E i \in DOMAIN value.items : value' = value.items[i]
    /\ schema' = schema.items
    /\ UNCHANGED verifierVars

ProbeNext ==
    \/ IntoField \/ IntoItem
    \/ value = Nothing /\ VerifierNext /\ UNCHANGED <<value, schema>>

ProbeSpec == ProbeInit /\ [][ProbeNext]_probeVars

\* What the default distiller makes of a case, the demo's registry, its pipeline.
DemoCandidate == Candidate(DemoContext)

DemoAnswers ==
    <<PytestVerify(DemoCandidate), NumericVerify(SharpeVerifier, DemoCandidate),
      JsonSchemaVerify(StrategySchema, DemoCandidate)>>

DemoOutcome ==
    Run([traces |-> bundle, context |-> DemoContext, min_traces |-> 2,
         lesson_executor_id |-> None, distiller |-> None,
         registry |-> [answers |-> DemoAnswers, min_passes |-> 2]])

-----------------------------------------------------------------------------
(***************************************************************************)
(* Properties.                                                             *)
(***************************************************************************)
\* Pairs of a value and the schema it is held to, and those of their parts.
Holds(pairs) ==
    pairs
    \cup UNION {{<<p[1].fields[key], p[2].properties[key]>> :
                    key \in DOMAIN p[1].fields \cap DOMAIN p[2].properties} :
                p \in {q \in pairs : q[2].type = "object" /\ q[1].type = "dict"}}
    \cup UNION {{<<p[1].items[i], p[2].items>> : i \in DOMAIN p[1].items} :
                p \in {q \in pairs : q[2].type = "array" /\ q[1].type = "list" /\ q[2].items # None}}

TypesOf(type) ==
    CASE type = "object" -> {"dict"} [] type = "string" -> {"str"} [] type = "array" -> {"list"}
      [] type = "number" -> {"int", "float"} [] type = "integer" -> {"int"}
      [] type = "boolean" -> {"bool"} [] OTHER -> {"dict", "str", "list", "int", "float", "bool", "none", "tuple"}

\* A value is valid exactly when no part of it, two levels down, offends the
\* part of the schema that it is held to; a bool is never a number.
SchemaReachesEveryPart ==
    Conforms(value, schema) <=>
        \A p \in Holds(Holds({<<value, schema>>})) :
            /\ p[1].type \in TypesOf(p[2].type)
            /\ p[2].type = "object" => p[2].required \subseteq DOMAIN p[1].fields
            /\ p[2].type = "number" =>
                  /\ p[2].minimum # None => ~(p[1].value < p[2].minimum)
                  /\ p[2].maximum # None => ~(p[1].value > p[2].maximum)

\* The demo's own test: its first case is committed and its second rejected.
DemoEndsAsItSays ==
    /\ bundle = CommittedCase => DemoOutcome.ok
    /\ bundle = RejectedCase => ~DemoOutcome.ok
=============================================================================
