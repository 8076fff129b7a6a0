----------------------------- MODULE JsonSchema -----------------------------
(***************************************************************************)
(* builtin_verifiers.py: the schema subset and its verifier.  A value is a *)
(* record that carries its Python type.                                    *)
(***************************************************************************)
EXTENDS BuiltinVerifiers

RECURSIVE Conforms(_, _), ConformsShallow(_, _)

\* Mutant: the fields of an object are checked for their presence alone.
ConformsShallow(value, schema) ==
    CASE schema.type = "object" -> value.type = "dict" /\ schema.required \subseteq DOMAIN value.fields
      [] schema.type = "string"  -> value.type = "str"
      [] schema.type = "number"  ->
           /\ value.type \in {"int", "float"}
           /\ schema.minimum # None => value.value >= schema.minimum
           /\ schema.maximum # None => value.value <= schema.maximum
      [] schema.type = "integer" -> value.type = "int"
      [] schema.type = "boolean" -> value.type = "bool"
      [] schema.type = "array"   ->
           /\ value.type = "list"
           /\ schema.items # None => \A i \in DOMAIN value.items : ConformsShallow(value.items[i], schema.items)
      [] OTHER -> TRUE

\* _validate_json_value: whether the list of errors is empty.
Conforms(value, schema) ==
    CASE schema.type = "object"  ->
           /\ value.type = "dict"
           /\ schema.required \subseteq DOMAIN value.fields
           /\ \A key \in DOMAIN schema.properties \cap DOMAIN value.fields :
                  Conforms(value.fields[key], schema.properties[key])
      [] schema.type = "string"  -> value.type = "str"
      [] schema.type = "number"  ->
           /\ value.type \in {"int", "float"}
           /\ schema.minimum # None => value.value >= schema.minimum
           /\ schema.maximum # None => value.value <= schema.maximum
      [] schema.type = "integer" -> value.type = "int"
      [] schema.type = "boolean" -> value.type = "bool"
      [] schema.type = "array"   ->
           /\ value.type = "list"
           /\ schema.items # None => \A i \in DOMAIN value.items : Conforms(value.items[i], schema.items)
      [] OTHER -> TRUE

AsDict(metadata) ==
    [type |-> "dict",
     fields |-> [key \in {k \in MetaKeys : metadata[k] # None} |-> PyValue[metadata[key]]]]

\* The fields that are not None of a candidate: tuples are not lists.
JsonSchemaVerify(verifier, candidate) ==
    LET value == CASE verifier.field = "metadata" -> AsDict(candidate.metadata)
                   [] verifier.field = "evidence" -> [type |-> "tuple"]
                   [] OTHER -> [type |-> "str"]
    IN  IF verifier.field = "trace_id" /\ candidate.trace_id = None THEN "skip"
        ELSE IF Conforms(value, verifier.schema) THEN "pass" ELSE "fail"
=============================================================================
