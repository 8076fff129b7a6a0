----------------------------- MODULE MCThreads -----------------------------
(***************************************************************************)
(* Two threads that call the gate, and a reader.  The submissions are      *)
(* those of MCGate that two calls can get in each other's way with.        *)
(***************************************************************************)
EXTENDS ThreadedStore, MCGate

TwoSubmissions ==
    {Call("a", "MemoryScope.TEAM", "episodic", OneTrace, <<"pass">>),
     Call(" ", "private", "episodic", OneTrace, <<"pass">>)}

Asked(principal, scope) ==
    [requester |-> None, principal |-> principal, scope |-> scope, classification |-> None,
     relationship |-> None, team_id |-> None]

MCReadFilters == {None, Asked("a", None), Asked(None, "team"), Asked("a", "team")}

ThreadSymmetry == MCSymmetry \cup Permutations(Threads)
=============================================================================
