------------------------------ MODULE MCStore ------------------------------
(***************************************************************************)
(* A small store: three ids, two owners, the scopes and tags that make the *)
(* ACL decide differently, and every filter over them.                     *)
(***************************************************************************)
EXTENDS StoreSpec

MCText == {"", "a", "b", "private", "team", "shared", "episodic", "peer", "red", "secret"}
MCStrip == [t \in MCText |-> t]
MCMetaKeys == {"leak_targets", "delegates", "allowed_relationships", "team_id"}

OneOf(t)  == [kind |-> "text", items |-> {t}]
ManyOf(S) == [kind |-> "items", items |-> S]
Null      == [kind |-> "null", items |-> {}]

Row(owner, scope, metadata) ==
    [lesson |-> "red", principal |-> owner, scope |-> scope, relationship |-> "peer",
     classification |-> "episodic", trace_id |-> None, evidence |-> <<>>,
     metadata |-> [key \in MCMetaKeys |->
                      IF key \in DOMAIN metadata THEN metadata[key] ELSE None]]

MCRows ==
    {Row("a", "private", <<>>),
     Row("a", "shared", [leak_targets |-> OneOf("secret")]),
     Row("b", "team", [team_id |-> OneOf("red"), leak_targets |-> OneOf("secret"),
                       allowed_relationships |-> ManyOf({"peer"})]),
     Row("b", "team", [delegates |-> Null, leak_targets |-> OneOf("secret")])}

MCFilters ==
    [requester : {None, "a", "b"}, principal : {None, "a", "b"},
     scope : {None, "private", "team", "shared"}, classification : {None, "peer"},
     relationship : {None, "peer"}, team_id : {None, "red"}]
=============================================================================
