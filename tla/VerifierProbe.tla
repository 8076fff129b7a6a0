---------------------------- MODULE VerifierProbe ----------------------------
(***************************************************************************)
(* What the built-in verifiers read: numbers in texts written token by     *)
(* token, and the tags and codes of candidates that the rule-based         *)
(* distiller makes of a growing bundle of traces.                          *)
(***************************************************************************)
EXTENDS BuiltinVerifiers

CONSTANTS
    Tokens,     \* what texts are written of
    MaxTokens,  \* bound on their length
    Traces,     \* what bundles are made of
    MaxTraces,  \* bound on their length
    Contexts    \* the contexts they are distilled in

ASSUME ProbeAssumption ==
    /\ Tokens \subseteq Token
    /\ Traces \subseteq ExecutorTrace
    /\ Contexts \subseteq DistillContext

VARIABLES text, bundle

verifierVars == <<text, bundle>>

\* Either a text or a bundle is written.
VerifierInit == text = <<>> /\ bundle = <<>>

\* A digit after a digit is the same number.
WriteToken ==
    /\ bundle = <<>> /\ Len(text) < MaxTokens
    /\ \E token \in Tokens :
          /\ ~(text # <<>> /\ token.kind = "number" /\ text[Len(text)].kind = "number")
          /\ text' = Append(text, token)
    /\ UNCHANGED bundle

AddTrace ==
    /\ text = <<>> /\ Len(bundle) < MaxTraces
    /\ \E trace \in Traces : bundle' = Append(bundle, trace)
    /\ UNCHANGED text

VerifierNext == WriteToken \/ AddTrace

VerifierSpec == VerifierInit /\ [][VerifierNext]_verifierVars

\* What the default distiller makes of the bundle.
Candidate(context) == RuleBasedDistill(None, bundle, context).candidate

-----------------------------------------------------------------------------
(***************************************************************************)
(* Properties.                                                             *)
(***************************************************************************)
\* A number is read exactly when one lies within the window after or before
\* some occurrence of the anchor, and what is read is, but for its sign, one
\* of those numbers.
ReadsANumberInReach ==
    LET near == {j \in Are(text, "number") : \E i \in Are(text, "anchor") :
                    Follows(text, i, j) \/ Precedes(text, j, i)}
        read == ExtractAnchoredNumber(text)
    IN  IF near = {} THEN read = None
        ELSE \E j \in near : read \in {text[j].value, -text[j].value}

TagsOf(trace) == {k \in DOMAIN trace.evidence : trace.evidence[k] \in PytestTags}

\* Whose test run speaks for a bundle: an exit code outranks all evidence, any
\* trace's code the context's own, and of several codes the last trace's
\* counts; of several tags in the evidence the first trace's first one does.
PytestSpeaksForBundle ==
    LET coded  == {i \in DOMAIN bundle : bundle[i].metadata["pytest_exit_code"] # None}
        tagged == {i \in DOMAIN bundle : TagsOf(bundle[i]) # {}}
        code(context) ==
            (IF coded = {} THEN context ELSE bundle[Max(coded)]).metadata["pytest_exit_code"]
        tag == LET first == bundle[Min(tagged)] IN first.evidence[Min(TagsOf(first))]
    IN  bundle # <<>> =>
        \A context \in Contexts :
            PytestVerify(Candidate(context)) =
                IF code(context) # None
                THEN IF IsZero(PyValue[code(context)]) THEN "pass" ELSE "fail"
                ELSE IF tagged = {} THEN "skip"
                ELSE IF tag = PytestPassed THEN "pass" ELSE "fail"

\* The docstring, "the nearest number": a number with a minus sign in front
\* of it is not read without the sign.
SignsAreRead ==
    LET read == ExtractAnchoredNumber(text)
    IN  read # None => \E j \in Are(text, "number") : read = Signed(text, j)

=============================================================================
