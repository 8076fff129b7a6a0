----------------------------- MODULE Verifiers -----------------------------
(***************************************************************************)
(* verifiers.py: the consensus quorum.  A verifier is a black box: all the *)
(* registry learns of it is its answer for the candidate at hand, so a     *)
(* registry is the tuple of those answers and the quorum's min_passes.     *)
(***************************************************************************)
EXTENDS MemoryModels

VerifierOutcome == {"pass", "fail", "skip"}

\* QuorumConfig refuses min_passes < 1 when it is built.
VerifierRegistry == [answers : Seq(VerifierOutcome), min_passes : Nat \ {0}]

Consensus == [passed : BOOLEAN, results : Seq(VerifierOutcome)]

Applicable(results) == {i \in DOMAIN results : results[i] # "skip"}
Passing(results)    == {i \in DOMAIN results : results[i] = "pass"}

\* QuorumConfig.reached: with nothing applicable the answer is yes.
Reached(min_passes, results) ==
    LET needed == Cardinality(Applicable(results))
    IN  \/ Applicable(results) = {}
        \/ Cardinality(Passing(results)) >= IF min_passes <= needed THEN min_passes ELSE needed

\* VerifierRegistry.evaluate; an empty registry passes without a quorum.
Evaluate(registry) ==
    [passed  |-> registry.answers = <<>> \/ Reached(registry.min_passes, registry.answers),
     results |-> registry.answers]

\* ADR 0002's rule without the arithmetic: a candidate passes when no verifier
\* that applies objects, or when enough of them approve.
Endorsed(min_passes, results) ==
    \/ \A i \in DOMAIN results : results[i] # "fail"
    \/ Cardinality(Passing(results)) >= min_passes
=============================================================================
