--------------------------- MODULE GateValidation ---------------------------
(***************************************************************************)
(* gate.py: the governance checks on a candidate.  Only the gate makes     *)
(* them; they are stated apart so that other writers can be held to them.  *)
(***************************************************************************)
EXTENDS MemoryModels

ValidClassifications == {"episodic", "semantic", "procedural"}

\* validate(): the tags it objects to.  The scope may be blank, not empty.
Validate(candidate) ==
    {field \in {"lesson", "principal", "relationship"} : IsBlank(candidate[field])}
    \cup (IF NormalizedScope(candidate.scope) = Empty THEN {"scope"} ELSE {})
    \cup (IF Strip[candidate.classification] \in ValidClassifications
          THEN {} ELSE {"classification"})
=============================================================================
