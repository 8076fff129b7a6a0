----------------------------- MODULE Governance -----------------------------
(***************************************************************************)
(* governance.py: who may read a memory row.                               *)
(*                                                                         *)
(* Every check is pure and answers "grant" or "deny".  A third answer,     *)
(* "raise", is the TypeError that iterating a tag whose value is an        *)
(* explicit None throws; it escapes to the caller of list().               *)
(***************************************************************************)
EXTENDS MemoryModels

Verdict == {"grant", "deny", "raise"}

ASSUME MetaKeyAssumption ==
    {"leak_targets", "delegates", "allowed_relationships", "team_id"} \subseteq MetaKeys

Absent == [kind |-> "items", items |-> {}]

\* metadata.get(key, ()).
Tag(metadata, key) == IF metadata[key] # None THEN metadata[key] ELSE Absent

\* frozenset({raw}) if raw is a non-empty string, else its items.
Members(tag) == IF tag.kind = "text" THEN tag.items \ {Empty} ELSE tag.items

\* parse_leak_targets: an explicit None counts as no target here.
LeakTargets(metadata) ==
    LET tag == Tag(metadata, "leak_targets")
    IN  IF tag.kind = "null" THEN {} ELSE tag.items \ {Empty}

Delegates(entry) == Tag(entry.metadata, "delegates")

AllowedRelationships(entry) == Tag(entry.metadata, "allowed_relationships")

\* effective_requester: the explicit requester, or the principal filtered on.
EffectiveRequester(filters) ==
    IF filters.requester # None THEN filters.requester ELSE filters.principal

(***************************************************************************)
(* The two tests that both the leak check and the team branch make, in     *)
(* their order: is the requester a delegate, is the relationship allowed.  *)
(***************************************************************************)
VouchedFor(requester, entry, relationship) ==
    IF Delegates(entry).kind = "null" THEN "raise"
    ELSE IF requester \in Members(Delegates(entry)) THEN "grant"
    ELSE IF relationship = None THEN "deny"
    ELSE IF AllowedRelationships(entry).kind = "null" THEN "raise"
    ELSE IF relationship \in Members(AllowedRelationships(entry)) THEN "grant"
    ELSE "deny"

\* Mutant: the owner is looked up among the delegates like anybody else.
LeakTargetAuthorizedNoOwner(requester, entry, relationship) ==
    IF LeakTargets(entry.metadata) = {}
    THEN "grant"
    ELSE VouchedFor(requester, entry, relationship)

LeakTargetAuthorized(requester, entry, relationship) ==
    IF LeakTargets(entry.metadata) = {} \/ requester = entry.principal
    THEN "grant"
    ELSE VouchedFor(requester, entry, relationship)

SameTeam(entry, team_id) ==
    LET tag == Tag(entry.metadata, "team_id")
    IN  team_id # None /\ tag.kind = "text" /\ tag.items = {team_id}

\* Mutant: a team member is not held to the leak check.
CanReadTeamUnchecked(requester, entry, relationship, team_id) ==
    IF requester = entry.principal \/ entry.scope = Shared
    THEN LeakTargetAuthorized(requester, entry, relationship)
    ELSE IF entry.scope # Team THEN "deny"
    ELSE IF SameTeam(entry, team_id) THEN "grant"
    ELSE VouchedFor(requester, entry, relationship)

\* can_read.  A scope that is none of the three known ones, " team" say, is
\* denied to everybody but the owner.
CanRead(requester, entry, relationship, team_id) ==
    IF requester = entry.principal \/ entry.scope = Shared
    THEN LeakTargetAuthorized(requester, entry, relationship)
    ELSE IF entry.scope # Team THEN "deny"
    ELSE IF SameTeam(entry, team_id)
    THEN LeakTargetAuthorized(requester, entry, relationship)
    ELSE IF VouchedFor(requester, entry, relationship) = "grant"
    THEN LeakTargetAuthorized(requester, entry, relationship)
    ELSE VouchedFor(requester, entry, relationship)

\* passes_acl: without a requester there is no check at all.
PassesAcl(entry, filters) ==
    IF EffectiveRequester(filters) = None
    THEN "grant"
    ELSE CanRead(EffectiveRequester(filters), entry,
                 filters.relationship, filters.team_id)

-----------------------------------------------------------------------------
(***************************************************************************)
(* What ADR 0004 promises, stated without reference to the order in which  *)
(* the code asks its questions.                                            *)
(***************************************************************************)
WellTagged(entry) ==
    \A key \in {"delegates", "allowed_relationships"} :
        Tag(entry.metadata, key).kind # "null"

Vouched(requester, entry, relationship) ==
    \/ requester \in Members(Delegates(entry))
    \/ relationship # None /\ relationship \in Members(AllowedRelationships(entry))

Authorized(requester, entry, relationship, team_id) ==
    \/ requester = entry.principal
    \/ /\ \/ entry.scope = Shared
          \/ entry.scope = Team /\ (\/ SameTeam(entry, team_id)
                                    \/ Vouched(requester, entry, relationship))
       /\ \/ LeakTargets(entry.metadata) = {}
          \/ Vouched(requester, entry, relationship)

\* The row as it would be had its author not protected any entity.
Unprotected(entry) ==
    [entry EXCEPT !.metadata["leak_targets"] = None]
=============================================================================
