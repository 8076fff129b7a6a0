------------------------------ MODULE AclProbe ------------------------------
(***************************************************************************)
(* One row, read with one filter after another: the access decisions of    *)
(* governance.py over every combination of tags that makes it branch.      *)
(***************************************************************************)
EXTENDS RowsAndFilters

VARIABLES probed,  \* the row under probe
          asked    \* the filter of the latest read

probeVars == <<probed, asked>>

ProbeInit == probed \in Rows /\ asked \in Filters

\* The next read of the same row.
Read(f) == asked' = f /\ UNCHANGED probed

ProbeNext == \E f \in Filters : Read(f)

ProbeSpec == ProbeInit /\ [][ProbeNext]_probeVars

Reader == EffectiveRequester(asked)

\* On tags that can be iterated, the ten return statements of can_read and
\* its helpers decide what ADR 0004 words as one rule: the owner always, else
\* an open enough scope and, for a protected row, somebody who vouches.
AclMatchesAdr ==
    Reader # None /\ WellTagged(probed)
        => (PassesAcl(probed, asked) = "grant"
               <=> Authorized(Reader, probed, asked.relationship, asked.team_id))

\* Marking a row's protected entities never opens it: whoever reads it with
\* the leak targets on also reads it with them off.
LeakTargetsOnlyNarrow ==
    PassesAcl(probed, asked) = "grant" => PassesAcl(Unprotected(probed), asked) = "grant"

\* Somebody has to vouch for the reader: on another's team row that the
\* reader's team does not open, and on another's team or shared row that
\* protects an entity.
VoucherSought ==
    /\ Reader \notin {None, probed.principal}
    /\ \/ probed.scope = Team /\ ~SameTeam(probed, asked.team_id)
       \/ probed.scope \in {Team, Shared} /\ LeakTargets(probed.metadata) # {}

\* The voucher is looked up in a tag that is an explicit None: in delegates,
\* or, for a reader who is no delegate and names a relationship, in
\* allowed_relationships.
VoucherIsNull ==
    \/ Delegates(probed).kind = "null"
    \/ /\ Reader \notin Members(Delegates(probed))
       /\ asked.relationship # None
       /\ AllowedRelationships(probed).kind = "null"

\* A read throws exactly where somebody has to vouch for the reader and the
\* tag that would say who is null.  So no owner's read throws, no read of a
\* private row or of an unknown scope, and no read that delegates already
\* settle; but a team row that protects nothing is not safe from it.
RaiseIsConfined == PassesAcl(probed, asked) = "raise" <=> VoucherSought /\ VoucherIsNull
=============================================================================
