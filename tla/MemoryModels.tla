---------------------------- MODULE MemoryModels ----------------------------
(***************************************************************************)
(* The schemas of models.py that the other modules share.                  *)
(*                                                                         *)
(* A Python string is a member of Text.  What the program does with one    *)
(* besides comparing it is str.strip(), which is the function Strip, and   *)
(* the truth test, which fails for "" alone: a string such as " " is true  *)
(* and strips to "".                                                       *)
(*                                                                         *)
(* metadata is a dict with string keys: a function that maps the keys it   *)
(* lacks to None.  A key that is present with the value Python's None maps *)
(* to a "null" value, for dict.get() tells the two apart.                  *)
(***************************************************************************)
EXTENDS Naturals, Sequences, FiniteSets

CONSTANTS Text,      \* the strings in play
          Strip,     \* str.strip() on them
          MetaKeys,  \* the metadata keys in play
          None       \* Python's None

Empty == ""

ASSUME TextAssumption ==
    /\ Empty \in Text
    /\ None \notin Text
    /\ Strip \in [Text -> Text]
    /\ Strip[Empty] = Empty
    /\ \A t \in Text : Strip[Strip[t]] = Strip[t]

Optional(S) == S \cup {None}

\* The truth test and the strip test that every validator here combines.
IsBlank(t) == t = Empty \/ Strip[t] = Empty

(***************************************************************************)
(* Scopes.  MemoryScope is an enum whose members carry a string value; a   *)
(* tag may be given as a member or as a plain string.                      *)
(***************************************************************************)
Private == "private"
Team    == "team"
Shared  == "shared"

MemoryScope == {"MemoryScope.PRIVATE", "MemoryScope.TEAM", "MemoryScope.SHARED"}

ScopeValue(member) ==
    CASE member = "MemoryScope.PRIVATE" -> Private
      [] member = "MemoryScope.TEAM"    -> Team
      [] member = "MemoryScope.SHARED"  -> Shared

ASSUME ScopeAssumption ==
    /\ {Private, Team, Shared} \subseteq Text
    /\ MemoryScope \cap Text = {}

\* candidate.normalized_scope(): the enum's value, or the string as it is.
NormalizedScope(scope) == IF scope \in MemoryScope THEN ScopeValue(scope) ELSE scope

\* A metadata value: an explicit None, one string, or a collection of strings.
MetaValue == [kind : {"null", "text", "items"}, items : SUBSET Text]
Metadata  == [MetaKeys -> Optional(MetaValue)]

CandidateExperience ==
    [lesson         : Text,
     principal      : Text,
     scope          : MemoryScope \cup Text,
     relationship   : Text,
     classification : Text,
     trace_id       : Optional(Text),
     evidence       : Seq(Text),
     metadata       : Metadata]

MemoryEntry ==
    [lesson         : Text,
     principal      : Text,
     scope          : Text,
     relationship   : Text,
     classification : Text,
     trace_id       : Optional(Text),
     evidence       : Seq(Text),
     metadata       : Metadata]

\* MemoryEntry.from_candidate.  The fresh uuid4 it also draws is the key the
\* row is stored under and is chosen by the caller's action.  The scope is
\* the one tag that is not stripped.
FromCandidate(candidate) ==
    [lesson         |-> Strip[candidate.lesson],
     principal      |-> Strip[candidate.principal],
     scope          |-> NormalizedScope(candidate.scope),
     relationship   |-> Strip[candidate.relationship],
     classification |-> Strip[candidate.classification],
     trace_id       |-> candidate.trace_id,
     evidence       |-> candidate.evidence,
     metadata       |-> candidate.metadata]

RetrievalFilter ==
    [requester      : Optional(Text),
     principal      : Optional(Text),
     scope          : Optional(Text),
     classification : Optional(Text),
     relationship   : Optional(Text),
     team_id        : Optional(Text)]
=============================================================================
