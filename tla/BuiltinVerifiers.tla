-------------------------- MODULE BuiltinVerifiers --------------------------
(***************************************************************************)
(* builtin_verifiers.py: the number next to a word, and the two verifiers  *)
(* that read a candidate's texts and tags.                                 *)
(*                                                                         *)
(* Where a number is looked for, a text is a sequence of tokens: the       *)
(* anchor, a minus sign, a number, or a gap of other characters.  A value  *)
(* of a dict is a record that carries its Python type.                     *)
(***************************************************************************)
EXTENDS EDVStages, Integers

CONSTANTS
    Spelling,   \* the tokens of a string
    PyValue,    \* the Python value that a metadata value stands for
    PytestTags  \* the strings that start with "pytest:"

PytestPassed == "pytest:passed"

Token == [kind : {"anchor", "minus", "number", "gap"}, size : Nat, value : Int]

\* An executor's tag starts with "executor:" (edv.py:160).
ASSUME SpellingAssumption ==
    /\ None \notin Int
    /\ Spelling \in [Text -> Seq(Token)]
    /\ PytestPassed \in PytestTags /\ PytestTags \subseteq Text
    /\ \A t \in Text : ExecutorTag[t] \notin PytestTags
    /\ "pytest_exit_code" \in MetaKeys

-----------------------------------------------------------------------------
(***************************************************************************)
(* extract_anchored_number.  The gap pattern is greedy and takes any       *)
(* character but a digit, the minus sign of the number included, unless    *)
(* the sign is the one character that the window of 40 has no room for.    *)
(***************************************************************************)
AfterWindow  == 40
BeforeWindow == 20

Are(text, kind) == {i \in DOMAIN text : text[i].kind = kind}

\* The characters between two tokens.
Width(text, i, j) == FoldLeft(LAMBDA n, token : n + token.size, 0, SubSeq(text, i + 1, j - 1))

Signed(text, j)   == IF j > 1 /\ text[j - 1].kind = "minus" THEN -text[j].value ELSE text[j].value
Adjacent(text, i, j) == i < j /\ \A n \in Are(text, "number") : ~(i < n /\ n < j)

\* The sign that the gap could not take.
SignIsLeft(text, i, j) == Width(text, i, j) = AfterWindow + 1 /\ text[j - 1].kind = "minus"

Follows(text, i, j) ==
    Adjacent(text, i, j) /\ (Width(text, i, j) <= AfterWindow \/ SignIsLeft(text, i, j))

Precedes(text, j, i) == Adjacent(text, j, i) /\ Width(text, j, i) <= BeforeWindow

\* Mutant: only the first anchor is tried.
AfterMatchFirstAnchor(text) ==
    LET i == SelectInSeq(text, LAMBDA token : token.kind = "anchor")
        found == {j \in Are(text, "number") : i # 0 /\ Follows(text, i, j)}
    IN  IF found = {} THEN None
        ELSE LET j == CHOOSE j \in found : TRUE
             IN  IF SignIsLeft(text, i, j) THEN -text[j].value ELSE text[j].value

\* The number after the first anchor that has one near enough.
AfterMatch(text) ==
    LET found == {ij \in Are(text, "anchor") \X Are(text, "number") : Follows(text, ij[1], ij[2])}
        first == CHOOSE ij \in found : \A other \in found : ij[1] <= other[1]
    IN  IF found = {} THEN None
        ELSE IF SignIsLeft(text, first[1], first[2]) THEN -text[first[2]].value ELSE text[first[2]].value

\* The first number that has an anchor near enough after it, with its sign.
BeforeMatch(text) ==
    LET found == {j \in Are(text, "number") : \E i \in Are(text, "anchor") : Precedes(text, j, i)}
    IN  IF found = {} THEN None
        ELSE Signed(text, CHOOSE j \in found : \A other \in found : j <= other)

ExtractAnchoredNumber(text) ==
    IF AfterMatch(text) # None THEN AfterMatch(text) ELSE BeforeMatch(text)

-----------------------------------------------------------------------------
(***************************************************************************)
(* The verifiers, on a candidate.                                          *)
(***************************************************************************)
ExitCode(candidate) == candidate.metadata["pytest_exit_code"]
IsZero(value) == value.type \in {"int", "float", "bool"} /\ value.value = 0

\* Mutant: any passed run among the evidence will do.
PytestVerifyAnyPass(candidate) ==
    IF ExitCode(candidate) # None
    THEN IF IsZero(PyValue[ExitCode(candidate)]) THEN "pass" ELSE "fail"
    ELSE IF Contains(candidate.evidence, PytestPassed) THEN "pass"
    ELSE IF \E i \in DOMAIN candidate.evidence : candidate.evidence[i] \in PytestTags THEN "fail"
    ELSE "skip"

\* Mutant: the evidence is not read.
PytestVerifyMetadataOnly(candidate) ==
    IF ExitCode(candidate) = None THEN "skip"
    ELSE IF IsZero(PyValue[ExitCode(candidate)]) THEN "pass" ELSE "fail"

\* PytestExitCodeVerifier: the exit code, else the first tag of the evidence.
PytestVerify(candidate) ==
    LET tag == SelectInSeq(candidate.evidence, LAMBDA item : item \in PytestTags)
    IN  IF ExitCode(candidate) # None
        THEN IF IsZero(PyValue[ExitCode(candidate)]) THEN "pass" ELSE "fail"
        ELSE IF tag = 0 THEN "skip"
        ELSE IF candidate.evidence[tag] = PytestPassed THEN "pass" ELSE "fail"

\* NumericToleranceVerifier._extract
Observed(verifier, candidate) ==
    LET key == verifier.metadata_key
        raw == IF "metadata" \notin verifier.sources \/ key = None THEN None ELSE candidate.metadata[key]
        texts == (IF "lesson" \in verifier.sources THEN <<candidate.lesson>> ELSE <<>>)
                 \o (IF "evidence" \in verifier.sources THEN candidate.evidence ELSE <<>>)
        found == SelectInSeq(texts, LAMBDA t : ExtractAnchoredNumber(Spelling[t]) # None)
    IN  IF raw # None /\ PyValue[raw].type \in {"int", "float"} THEN PyValue[raw].value
        ELSE IF found # 0 THEN ExtractAnchoredNumber(Spelling[texts[found]])
        ELSE None

NumericVerify(verifier, candidate) ==
    LET observed == Observed(verifier, candidate)
    IN  IF observed = None THEN "skip"
        ELSE IF observed - verifier.expected \in -verifier.tolerance .. verifier.tolerance
        THEN "pass" ELSE "fail"
=============================================================================
