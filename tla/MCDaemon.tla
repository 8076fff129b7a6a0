------------------------------ MODULE MCDaemon ------------------------------
(***************************************************************************)
(* A request, which may come at any time, on a gate with two calls while   *)
(* it has a log.                                                           *)
(***************************************************************************)
EXTENDS AuditDaemon, MCGate

DaemonSubmissions ==
    {Call("a", "MemoryScope.TEAM", "episodic", OneTrace, <<"pass">>),
     Call("b", "private", "episodic", <<>>, <<"pass">>)}

MCQueries == {NoQuery, [kind |-> "write", actor |-> "a"]}

DaemonView == <<storeVars, inboxVars, auditVars, mode, attached, served, request, wiring>>
DaemonSymmetry == Permutations(MemoryIds)
=============================================================================
