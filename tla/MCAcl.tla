------------------------------- MODULE MCAcl -------------------------------
(***************************************************************************)
(* Every shape of every tag the ACL looks at: absent, explicit None, one   *)
(* string, the empty string, an empty and a non-empty collection.          *)
(***************************************************************************)
EXTENDS AclProbe

MCText == {"", "a", "b", "private", "team", " team", "shared", "peer", "red", "secret"}
MCStrip == [t \in MCText |-> IF t = " team" THEN "team" ELSE t]
MCMetaKeys == {"leak_targets", "delegates", "allowed_relationships", "team_id"}

OneOf(t)  == [kind |-> "text", items |-> {t}]
ManyOf(S) == [kind |-> "items", items |-> S]
Null      == [kind |-> "null", items |-> {}]

MCMetadata ==
    {[key \in MCMetaKeys |-> CASE key = "leak_targets" -> leak
                               [] key = "delegates" -> delegates
                               [] key = "allowed_relationships" -> allowed
                               [] key = "team_id" -> team] :
        leak \in {None, Null, OneOf("secret"), OneOf(""), ManyOf({"", "secret"}), ManyOf({""})},
        delegates \in {None, Null, OneOf("b"), OneOf(""), ManyOf({"", "b"})},
        allowed \in {None, Null, OneOf("peer"), ManyOf({"", "peer"})},
        team \in {None, Null, OneOf("red")}}

MCRows ==
    [lesson : {"red"}, principal : {"a"}, scope : {"private", "team", " team", "shared"},
     relationship : {"peer"}, classification : {"peer"}, trace_id : {None},
     evidence : {<<>>}, metadata : MCMetadata]

MCFilters ==
    [requester : {None, "a", "b"}, principal : {None, "b"}, scope : {None},
     classification : {None}, relationship : {None, "", "peer"}, team_id : {None, "red"}]
=============================================================================
