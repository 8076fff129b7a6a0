-------------------------- MODULE GateSolo_proofs --------------------------
(***************************************************************************)
(* Threads that wait for one another, for any number of them: the steps of *)
(* GateThreads add up to the calls of MemoryGate.                          *)
(***************************************************************************)
EXTENDS GateSolo, GateThreads_proofs

\* What the frame of a call that nobody interrupts says of the call so far.
Held(f)    == f.call # None /\ f.pid # None
Popped(f)  == f.call = None /\ f.pid # None
Stored(f)  == f.at \in {"index", "scope", "audit"} /\ f.id # None /\ f.who = None
Granted(f) == f.who # None /\ f.ok

\* The shared state is that of the last moment of rest, but for what the call
\* under way has done to it by now.
StoreMidway(f) ==
    /\ minted = IF Stored(f) THEN before.minted \cup {f.id} ELSE before.minted
    /\ entries = IF Stored(f) THEN [before.entries EXCEPT ![f.id] = f.row] ELSE before.entries
    /\ byPrincipal =
           IF Stored(f) /\ f.at # "index"
           THEN [before.byPrincipal EXCEPT ![f.row.principal] = @ \cup {f.id}]
           ELSE IF Granted(f) /\ f.at \notin {"mark", "unindex"}
           THEN [before.byPrincipal EXCEPT ![f.row.principal] = @ \ {f.id}]
           ELSE before.byPrincipal
    /\ byScope =
           IF Stored(f) /\ f.at \notin {"index", "scope"}
           THEN [before.byScope EXCEPT ![f.row.scope] = @ \cup {f.id}]
           ELSE IF Granted(f) /\ f.at \notin {"mark", "unindex", "unscope"}
           THEN [before.byScope EXCEPT ![f.row.scope] = @ \ {f.id}]
           ELSE before.byScope
    /\ tombstones = IF Granted(f) /\ f.at # "mark"
                    THEN [before.tombstones EXCEPT ![f.id] = f.who] ELSE before.tombstones
    /\ embeddings = IF Granted(f) /\ f.at = "audit"
                    THEN [before.embeddings EXCEPT ![f.id] = None] ELSE before.embeddings

InboxMidway(f) ==
    /\ pending = IF Held(f) THEN [before.pending EXCEPT ![f.pid] = f.candidate]
                 ELSE IF Popped(f) THEN [before.pending EXCEPT ![f.pid] = None]
                 ELSE before.pending
    /\ held = IF Held(f) THEN [before.held EXCEPT ![f.pid] = f.candidate] ELSE before.held
    /\ promoted = IF Popped(f) /\ Stored(f)
                  THEN [before.promoted EXCEPT ![f.pid] = f.id] ELSE before.promoted

RestMidway(f) ==
    /\ auditLog = before.auditLog /\ unlogged = before.unlogged /\ calls = before.calls
    /\ mode = before.mode /\ attached = before.attached
    /\ latest = IF f.call # None THEN Outcome[f.call] ELSE before.latest

\* The conditions that have brought the call so far still hold of the state
\* before it.
CommitMidway(f) ==
    f.call # None =>
        /\ f.at \in {"render", "hold", "insert", "index", "scope", "audit"} /\ f.who = None
        /\ f.at # "render" => f.candidate = Outcome[f.call].candidate
        /\ f.at \in {"render", "hold"} => f.id = None /\ f.pid = None
        /\ f.at = "insert" \/ Stored(f) => Admissible(f.call) /\ mode = "auto_commit" /\ f.pid = None
        /\ f.at = "hold" \/ Held(f) => Admissible(f.call) /\ mode = "manual_review" /\ f.id = None
        /\ f.at = "audit" /\ f.id = None /\ f.pid = None => ~Admissible(f.call)
        /\ Held(f) => f.at = "audit" /\ before.held[f.pid] = None

InsertMidway(f) ==
    /\ Popped(f) => /\ f.candidate # None /\ before.pending[f.pid] = f.candidate
                    /\ f.who = None /\ (f.at = "insert" \/ Stored(f))
    /\ f.at = "insert" => f.id = None
    /\ f.at \in {"insert", "index", "scope"} \/ (f.at = "audit" /\ f.who = None) =>
           f.call # None \/ Popped(f)
    /\ f.at \in {"index", "scope"} => Stored(f)
    /\ Stored(f) => f.id \notin before.minted /\ f.row = FromCandidate(f.candidate)

ForgetMidway(f) ==
    /\ f.at \in {"mark", "unindex", "unscope", "unbind"} => Granted(f)
    /\ f.who # None =>
           /\ f.call = None /\ f.pid = None /\ f.id # None /\ f.who \in Callers
           /\ f.at \in {"mark", "unindex", "unscope", "unbind", "audit"}
           /\ f.row = before.entries[f.id]
           /\ f.ok <=> /\ before.entries[f.id] # None /\ before.tombstones[f.id] = None
                       /\ f.who = f.row.principal
    /\ f.at = "bind" =>
           /\ f.call = None /\ f.pid = None /\ f.who = None /\ f.id # None /\ f.vector # None
           /\ before.entries[f.id] # None /\ before.tombstones[f.id] = None

TaskMidway(f) == CommitMidway(f) /\ InsertMidway(f) /\ ForgetMidway(f)

Midway(f) == StoreMidway(f) /\ InboxMidway(f) /\ RestMidway(f) /\ TaskMidway(f)

\* The others wait for t.
OthersRest(t) == \A u \in Threads \ {t} : frame[u].at = "idle"

SoloInv ==
    /\ \A t \in Threads : frame[t].at = "idle" => frame[t] = Idle
    /\ \A t \in Threads : OthersRest(t) => Midway(frame[t])

\* At rest the call so far has done nothing.
LEMMA MidwayAtRest ==
    Midway(Idle) <=>
        /\ entries = before.entries /\ byPrincipal = before.byPrincipal
        /\ byScope = before.byScope /\ tombstones = before.tombstones
        /\ embeddings = before.embeddings /\ minted = before.minted
        /\ pending = before.pending /\ held = before.held /\ promoted = before.promoted
        /\ auditLog = before.auditLog /\ unlogged = before.unlogged /\ calls = before.calls
        /\ mode = before.mode /\ attached = before.attached /\ latest = before.latest
<1>1. /\ ~Held(Idle) /\ ~Popped(Idle) /\ ~Stored(Idle) /\ ~Granted(Idle)
      /\ Idle.at = "idle" /\ Idle.call = None /\ Idle.who = None
    BY DEF Idle, Held, Popped, Stored, Granted
<1> QED
    BY <1>1
    DEF Midway, StoreMidway, InboxMidway, RestMidway, TaskMidway, CommitMidway, InsertMidway, ForgetMidway

\* The new moment of rest.
LEMMA RestTaken ==
    ASSUME before' = GateState'
    PROVE  /\ before'.entries = entries' /\ before'.byPrincipal = byPrincipal'
           /\ before'.byScope = byScope' /\ before'.tombstones = tombstones'
           /\ before'.embeddings = embeddings' /\ before'.minted = minted'
           /\ before'.pending = pending' /\ before'.held = held' /\ before'.promoted = promoted'
           /\ before'.auditLog = auditLog' /\ before'.unlogged = unlogged'
           /\ before'.calls = calls' /\ before'.mode = mode' /\ before'.attached = attached'
           /\ before'.latest = latest'
BY DEF GateState

\* A call that has returned leaves nothing half done.
LEMMA AtRestAgain ==
    ASSUME before' = GateState'
    PROVE  Midway(Idle)'
<1>1. ~Held(Idle) /\ ~Popped(Idle) /\ ~Stored(Idle) /\ ~Granted(Idle)
      /\ Idle.at = "idle" /\ Idle.call = None /\ Idle.who = None
    BY DEF Idle, Held, Popped, Stored, Granted
<1> QED
    BY <1>1, RestTaken
    DEF Midway, StoreMidway, InboxMidway, RestMidway, TaskMidway, CommitMidway, InsertMidway, ForgetMidway

-----------------------------------------------------------------------------
(***************************************************************************)
(* A call that begins.                                                     *)
(***************************************************************************)
LEMMA CommitRunMidway ==
    ASSUME ThreadsInv, Midway(Idle), before' = before, NEW t \in Threads, NEW call \in Submissions,
           CommitRun(t, call)
    PROVE  Midway(frame[t])'
<1>1. PICK g : g = [Idle EXCEPT !.at = "render", !.call = call]
    OBVIOUS
<1>2. /\ g.at = "render" /\ g.call = call /\ call # None /\ g.id = None /\ g.pid = None
      /\ g.who = None
    BY <1>1, ThreadsAssumption DEF Idle
<1>3. ~Held(g) /\ ~Popped(g) /\ ~Stored(g) /\ ~Granted(g)
    BY <1>2 DEF Held, Popped, Stored, Granted
<1>4. Midway(g)'
    BY <1>2, <1>3, MidwayAtRest
    DEF CommitRun, storeVars, inboxVars, auditVars, Outcome,
        Midway, StoreMidway, InboxMidway, RestMidway, TaskMidway, CommitMidway, InsertMidway, ForgetMidway
<1>5. frame'[t] = g
    BY <1>1 DEF CommitRun, Begin, ThreadsInv
<1> QED
    BY <1>4, <1>5

\* Each step within a call keeps the account of what the call has done so far.
LEMMA ApprovePopMidway ==
    ASSUME ThreadsInv, Midway(Idle), before' = before, NEW t \in Threads, NEW pid \in PendingIds,
           ApprovePop(t, pid)
    PROVE  Midway(frame[t])'
<1>1. PICK g : g = [Idle EXCEPT !.at = "insert", !.pid = pid, !.candidate = pending[pid]]
    OBVIOUS
<1>2. /\ g.at = "insert" /\ g.call = None /\ g.id = None /\ g.pid = pid /\ pid # None
      /\ g.who = None /\ g.candidate = pending[pid] /\ pending[pid] # None
    BY <1>1, GateAssumption DEF Idle, ApprovePop
<1>3. ~Held(g) /\ Popped(g) /\ ~Stored(g) /\ ~Granted(g)
    BY <1>2 DEF Held, Popped, Stored, Granted
<1>4. Midway(g)'
    BY <1>2, <1>3, MidwayAtRest
    DEF ApprovePop, storeVars, auditVars,
        Midway, StoreMidway, InboxMidway, RestMidway, TaskMidway, CommitMidway, InsertMidway, ForgetMidway
<1>5. frame'[t] = g
    BY <1>1 DEF ApprovePop, Begin, ThreadsInv
<1> QED
    BY <1>4, <1>5

LEMMA ForgetCheckMidway ==
    ASSUME ThreadsInv, Midway(Idle), before' = before, NEW t \in Threads, NEW id \in MemoryIds,
           NEW who \in Callers, ForgetCheck(t, id, who)
    PROVE  Midway(frame[t])'
<1>1. PICK ok \in BOOLEAN, there \in {"mark", "audit"} :
          /\ ok = MayTombstone(id, who)
          /\ there = IF MayTombstone(id, who) THEN "mark" ELSE "audit"
    BY DEF MayTombstone, Live, Known, IsTombstoned
<1>2. PICK g : g = [Idle EXCEPT !.at = there, !.id = id, !.row = entries[id], !.who = who, !.ok = ok]
    OBVIOUS
<1>3. /\ g.at = there /\ g.call = None /\ g.id = id /\ g.pid = None /\ g.who = who /\ g.ok = ok
      /\ g.row = entries[id] /\ id # None /\ who # None
    BY <1>2, GateAssumption, TextAssumption DEF Idle
<1>4. ~Held(g) /\ ~Popped(g) /\ ~Stored(g) /\ (Granted(g) <=> there = "mark")
    BY <1>1, <1>3 DEF Held, Popped, Stored, Granted
<1>5. ok <=> entries[id] # None /\ tombstones[id] = None /\ who = entries[id].principal
    BY <1>1 DEF MayTombstone, Live, Known, IsTombstoned
<1>6. Midway(g)'
    BY <1>1, <1>3, <1>4, <1>5, MidwayAtRest
    DEF ForgetCheck, gateVars, storeVars, inboxVars, auditVars,
        Midway, StoreMidway, InboxMidway, RestMidway, TaskMidway, CommitMidway, InsertMidway, ForgetMidway
<1>7. frame'[t] = g
    <2>1. [Idle EXCEPT !.at = IF MayTombstone(id, who) THEN "mark" ELSE "audit",
                       !.id = id, !.row = entries[id], !.who = who,
                       !.ok = MayTombstone(id, who)] = g
        BY <1>1, <1>2 DEF Idle
    <2> QED
        BY <2>1 DEF ForgetCheck, Begin, ThreadsInv
<1> QED
    BY <1>6, <1>7

LEMMA BindCheckMidway ==
    ASSUME ThreadsInv, Midway(Idle), before' = before, NEW t \in Threads, NEW id \in MemoryIds,
           NEW vector \in VectorIds, BindCheck(t, id, vector)
    PROVE  Midway(frame[t])'
<1>1. PICK g : g = [Idle EXCEPT !.at = "bind", !.id = id, !.vector = vector]
    OBVIOUS
<1>2. /\ g.at = "bind" /\ g.call = None /\ g.id = id /\ g.pid = None /\ g.who = None
      /\ g.vector = vector /\ id # None /\ vector # None
    BY <1>1, GateAssumption, IdAssumption DEF Idle
<1>3. ~Held(g) /\ ~Popped(g) /\ ~Stored(g) /\ ~Granted(g)
    BY <1>2 DEF Held, Popped, Stored, Granted
<1>4. Midway(g)'
    BY <1>2, <1>3, MidwayAtRest
    DEF BindCheck, Live, Known, IsTombstoned, gateVars, storeVars, inboxVars, auditVars,
        Midway, StoreMidway, InboxMidway, RestMidway, TaskMidway, CommitMidway, InsertMidway, ForgetMidway
<1>5. frame'[t] = g
    BY <1>1 DEF BindCheck, Begin, ThreadsInv
<1> QED
    BY <1>4, <1>5

-----------------------------------------------------------------------------
(***************************************************************************)
(* A call that goes on.                                                    *)
(***************************************************************************)
LEMMA DecideMidway ==
    ASSUME ThreadsInv, GateTypeOK, before' = before, NEW t \in Threads, Midway(frame[t]), Decide(t)
    PROVE  Midway(frame[t])'
<1>1. PICK f \in Frame : f = frame[t] /\ Midway(f) /\ f.at = "render" /\ f.call # None
    BY DEF Decide, ThreadsInv, FrameOK
<1>2. PICK there : there = IF ~Admissible(f.call) THEN "audit"
                           ELSE IF mode = "manual_review" THEN "hold" ELSE "insert"
    OBVIOUS
<1>3. PICK g : g = [f EXCEPT !.candidate = Outcome[f.call].candidate, !.at = there]
    OBVIOUS
<1>4. /\ g.at = there /\ g.call = f.call /\ g.id = f.id /\ g.pid = f.pid /\ g.who = f.who
      /\ g.candidate = Outcome[f.call].candidate
    BY <1>1, <1>3 DEF Frame
<1>5. f.id = None /\ f.pid = None /\ f.who = None
    BY <1>1 DEF Midway, TaskMidway, CommitMidway
<1>6. /\ ~Held(f) /\ ~Popped(f) /\ ~Stored(f) /\ ~Granted(f)
      /\ ~Held(g) /\ ~Popped(g) /\ ~Stored(g) /\ ~Granted(g)
    BY <1>4, <1>5 DEF Held, Popped, Stored, Granted
<1>7. UNCHANGED <<storeVars, inboxVars, auditVars, mode, attached, latest>>
    BY DEF Decide, gateVars
<1>8. StoreMidway(g)' /\ InboxMidway(g)' /\ RestMidway(g)'
    BY <1>1, <1>4, <1>6, <1>7
    DEF Midway, StoreMidway, InboxMidway, RestMidway, storeVars, inboxVars, auditVars, Outcome
<1>9. mode = "manual_review" \/ mode = "auto_commit"
    BY DEF GateTypeOK, GateMode
<1>10. TaskMidway(g)'
    BY <1>1, <1>2, <1>4, <1>5, <1>6, <1>7, <1>9
    DEF TaskMidway, CommitMidway, InsertMidway, ForgetMidway, Outcome, Admissible
<1>11. frame'[t] = g
    BY <1>1, <1>2, <1>3 DEF Decide, ThreadsInv
<1> QED
    BY <1>8, <1>10, <1>11 DEF Midway

LEMMA HoldMidway ==
    ASSUME ThreadsInv, before' = before, NEW t \in Threads, Midway(frame[t]), NEW pid \in PendingIds,
           Hold(t, pid)
    PROVE  Midway(frame[t])'
<1>1. PICK f \in Frame : f = frame[t] /\ Midway(f) /\ f.at = "hold" /\ f.call # None
    BY DEF Hold, ThreadsInv, FrameOK
<1>2. PICK g : g = [f EXCEPT !.at = "audit", !.pid = pid]
    OBVIOUS
<1>3. /\ g.at = "audit" /\ g.call = f.call /\ g.id = f.id /\ g.pid = pid /\ g.who = f.who
      /\ g.candidate = f.candidate /\ pid # None
    BY <1>1, <1>2, GateAssumption DEF Frame
<1>4. /\ f.id = None /\ f.pid = None /\ f.who = None /\ Admissible(f.call) /\ mode = "manual_review"
      /\ f.candidate = Outcome[f.call].candidate
    BY <1>1 DEF Midway, TaskMidway, CommitMidway
<1>5. /\ ~Held(f) /\ ~Popped(f) /\ ~Stored(f) /\ ~Granted(f)
      /\ Held(g) /\ ~Popped(g) /\ ~Stored(g) /\ ~Granted(g)
    BY <1>1, <1>3, <1>4 DEF Held, Popped, Stored, Granted
<1>6. /\ UNCHANGED <<storeVars, promoted, auditVars, mode, attached, latest>>
      /\ held[pid] = None
      /\ pending' = [pending EXCEPT ![pid] = f.candidate]
      /\ held' = [held EXCEPT ![pid] = f.candidate]
    BY <1>1 DEF Hold
<1>7. pending = before.pending /\ held = before.held /\ promoted = before.promoted
    BY <1>1, <1>5 DEF Midway, InboxMidway
<1>8. InboxMidway(g)'
    BY <1>3, <1>5, <1>6, <1>7 DEF InboxMidway
<1>9. StoreMidway(g)' /\ RestMidway(g)'
    BY <1>1, <1>3, <1>5, <1>6
    DEF Midway, StoreMidway, RestMidway, storeVars, auditVars, Outcome
<1>10. TaskMidway(g)'
    <2>1. CommitMidway(g)'
        BY <1>1, <1>3, <1>4, <1>5, <1>6, <1>7 DEF CommitMidway, Outcome, Admissible
    <2>2. InsertMidway(g)' /\ ForgetMidway(g)'
        BY <1>1, <1>3, <1>4, <1>5 DEF InsertMidway, ForgetMidway
    <2> QED
        BY <2>1, <2>2 DEF TaskMidway
<1>11. frame'[t] = g
    BY <1>1, <1>2 DEF Hold, ThreadsInv
<1> QED
    BY <1>8, <1>9, <1>10, <1>11 DEF Midway

LEMMA InsertEntryMidway ==
    ASSUME ThreadsInv, before' = before, NEW t \in Threads, Midway(frame[t]), NEW id \in MemoryIds,
           InsertEntry(t, id)
    PROVE  Midway(frame[t])'
<1>1. PICK f \in Frame : f = frame[t] /\ Midway(f) /\ f.at = "insert"
    BY DEF InsertEntry, ThreadsInv
<1>2. PICK g, row : /\ row = FromCandidate(f.candidate)
                    /\ g = [f EXCEPT !.at = "index", !.id = id, !.row = row]
    OBVIOUS
<1>3. /\ g.at = "index" /\ g.call = f.call /\ g.id = id /\ g.pid = f.pid /\ g.who = f.who
      /\ g.candidate = f.candidate /\ g.row = row /\ id # None
    BY <1>1, <1>2, GateAssumption DEF Frame
<1>4. /\ f.id = None /\ f.who = None /\ (f.call # None \/ Popped(f))
      /\ f.call # None => /\ Admissible(f.call) /\ mode = "auto_commit" /\ f.pid = None
                          /\ f.candidate = Outcome[f.call].candidate
    BY <1>1 DEF Midway, TaskMidway, CommitMidway, InsertMidway, ForgetMidway, Popped
<1>5. /\ ~Held(f) /\ ~Stored(f) /\ ~Granted(f)
      /\ ~Held(g) /\ (Popped(g) <=> Popped(f)) /\ Stored(g) /\ ~Granted(g)
      /\ Popped(f) <=> f.pid # None
    BY <1>1, <1>3, <1>4 DEF Held, Popped, Stored, Granted
<1>6. /\ UNCHANGED <<byPrincipal, byScope, tombstones, embeddings, pending, held, auditVars, mode,
                     attached, latest>>
      /\ id \notin minted /\ minted' = minted \cup {id}
      /\ entries' = [entries EXCEPT ![id] = row]
      /\ promoted' = IF f.pid = None THEN promoted ELSE [promoted EXCEPT ![f.pid] = id]
    BY <1>1, <1>2 DEF InsertEntry
<1>7. StoreMidway(g)'
    BY <1>1, <1>3, <1>5, <1>6 DEF Midway, StoreMidway
<1>8. InboxMidway(g)'
    BY <1>1, <1>3, <1>5, <1>6 DEF Midway, InboxMidway
<1>9. RestMidway(g)'
    BY <1>1, <1>3, <1>6 DEF Midway, RestMidway, auditVars, Outcome
<1>10. id \notin before.minted
    BY <1>1, <1>5, <1>6 DEF Midway, StoreMidway
<1>11. Popped(f) => f.candidate # None /\ before.pending[f.pid] = f.candidate
    BY <1>1 DEF Midway, TaskMidway, InsertMidway
<1>12. TaskMidway(g)'
    BY <1>2, <1>3, <1>4, <1>5, <1>6, <1>10, <1>11
    DEF TaskMidway, CommitMidway, InsertMidway, ForgetMidway, Outcome, Admissible
<1>13. frame'[t] = g
    BY <1>1, <1>2 DEF InsertEntry, ThreadsInv
<1> QED
    BY <1>7, <1>8, <1>9, <1>12, <1>13 DEF Midway

\* A call goes from one label to the next.
LEMMA Onward ==
    ASSUME ThreadsInv, NEW t \in Threads, NEW here, NEW there \in Labels, Goto(t, here, there)
    PROVE  \E f, g \in Frame :
               /\ f = frame[t] /\ g = frame'[t] /\ f.at = here /\ g.at = there
               /\ g.call = f.call /\ g.id = f.id /\ g.pid = f.pid /\ g.who = f.who /\ g.ok = f.ok
               /\ g.candidate = f.candidate /\ g.row = f.row
<1>1. PICK f \in Frame : f = frame[t] /\ f.at = here
    BY DEF Goto, ThreadsInv
<1>2. PICK g : g = [f EXCEPT !.at = there]
    OBVIOUS
<1>3. /\ g \in Frame /\ g.at = there
      /\ g.call = f.call /\ g.id = f.id /\ g.pid = f.pid /\ g.who = f.who /\ g.ok = f.ok
      /\ g.candidate = f.candidate /\ g.row = f.row
    BY <1>1, <1>2 DEF Frame
<1>4. frame'[t] = g
    BY <1>1, <1>2 DEF Goto, ThreadsInv
<1> QED
    BY <1>1, <1>3, <1>4

LEMMA IndexPrincipalMidway ==
    ASSUME ThreadsInv, before' = before, NEW t \in Threads, Midway(frame[t]), IndexPrincipal(t)
    PROVE  Midway(frame[t])'
<1>0. "scope" \in Labels
    BY DEF Labels
<1>1. PICK f \in Frame, g \in Frame :
          /\ f = frame[t] /\ g = frame'[t] /\ f.at = "index" /\ g.at = "scope" /\ Midway(f)
          /\ g.call = f.call /\ g.id = f.id /\ g.pid = f.pid /\ g.who = f.who /\ g.ok = f.ok
          /\ g.candidate = f.candidate /\ g.row = f.row
    BY <1>0, Onward DEF IndexPrincipal
<1>2. /\ Stored(f) /\ ~Granted(f) /\ f.who = None /\ f.id # None
    BY <1>1 DEF Midway, TaskMidway, InsertMidway, Stored, Granted
<1>3. /\ Stored(g) /\ ~Granted(g) /\ (Held(g) <=> Held(f)) /\ (Popped(g) <=> Popped(f))
    BY <1>1, <1>2 DEF Held, Popped, Stored, Granted
<1>4. UNCHANGED <<inboxVars, auditVars, mode, attached, latest>>
    BY DEF IndexPrincipal, StoreStep
<1>5. StoreMidway(g)'
    BY <1>1, <1>2, <1>3 DEF IndexPrincipal, StoreStep, Midway, StoreMidway
<1>6. InboxMidway(g)' /\ RestMidway(g)'
    BY <1>1, <1>2, <1>3, <1>4
    DEF Midway, InboxMidway, RestMidway, inboxVars, auditVars, Outcome
<1>7. TaskMidway(g)'
    <2>1. CommitMidway(g)'
        BY <1>1, <1>2, <1>3, <1>4 DEF Midway, TaskMidway, CommitMidway, Outcome, Admissible
    <2>2. InsertMidway(g)'
        BY <1>1, <1>2, <1>3 DEF Midway, TaskMidway, InsertMidway
    <2>3. ForgetMidway(g)'
        BY <1>1, <1>2, <1>3 DEF Midway, TaskMidway, ForgetMidway
    <2> QED
        BY <2>1, <2>2, <2>3 DEF TaskMidway
<1> QED
    BY <1>1, <1>5, <1>6, <1>7 DEF Midway

LEMMA IndexScopeMidway ==
    ASSUME ThreadsInv, before' = before, NEW t \in Threads, Midway(frame[t]), IndexScope(t)
    PROVE  Midway(frame[t])'
<1>0. "audit" \in Labels
    BY DEF Labels
<1>1. PICK f \in Frame, g \in Frame :
          /\ f = frame[t] /\ g = frame'[t] /\ f.at = "scope" /\ g.at = "audit" /\ Midway(f)
          /\ g.call = f.call /\ g.id = f.id /\ g.pid = f.pid /\ g.who = f.who /\ g.ok = f.ok
          /\ g.candidate = f.candidate /\ g.row = f.row
    BY <1>0, Onward DEF IndexScope
<1>2. /\ Stored(f) /\ ~Granted(f) /\ f.who = None /\ f.id # None
    BY <1>1 DEF Midway, TaskMidway, InsertMidway, Stored, Granted
<1>3. /\ Stored(g) /\ ~Granted(g) /\ (Held(g) <=> Held(f)) /\ (Popped(g) <=> Popped(f))
    BY <1>1, <1>2 DEF Held, Popped, Stored, Granted
<1>4. UNCHANGED <<inboxVars, auditVars, mode, attached, latest>>
    BY DEF IndexScope, StoreStep
<1>5. StoreMidway(g)'
    BY <1>1, <1>2, <1>3 DEF IndexScope, StoreStep, Midway, StoreMidway
<1>6. InboxMidway(g)' /\ RestMidway(g)'
    BY <1>1, <1>2, <1>3, <1>4
    DEF Midway, InboxMidway, RestMidway, inboxVars, auditVars, Outcome
<1>7. TaskMidway(g)'
    <2>1. CommitMidway(g)'
        BY <1>1, <1>2, <1>3, <1>4 DEF Midway, TaskMidway, CommitMidway, Outcome, Admissible
    <2>2. InsertMidway(g)'
        BY <1>1, <1>2, <1>3 DEF Midway, TaskMidway, InsertMidway
    <2>3. ForgetMidway(g)'
        BY <1>1, <1>2, <1>3 DEF Midway, TaskMidway, ForgetMidway
    <2> QED
        BY <2>1, <2>2, <2>3 DEF TaskMidway
<1> QED
    BY <1>1, <1>5, <1>6, <1>7 DEF Midway

LEMMA MarkMidway ==
    ASSUME ThreadsInv, before' = before, NEW t \in Threads, Midway(frame[t]), Mark(t)
    PROVE  Midway(frame[t])'
<1>0. "unindex" \in Labels
    BY DEF Labels
<1>1. PICK f \in Frame, g \in Frame :
          /\ f = frame[t] /\ g = frame'[t] /\ f.at = "mark" /\ g.at = "unindex" /\ Midway(f)
          /\ g.call = f.call /\ g.id = f.id /\ g.pid = f.pid /\ g.who = f.who /\ g.ok = f.ok
          /\ g.candidate = f.candidate /\ g.row = f.row
    BY <1>0, Onward DEF Mark
<1>2. /\ ~Stored(f) /\ Granted(f) /\ f.who # None /\ f.call = None /\ f.pid = None
    BY <1>1 DEF Midway, TaskMidway, ForgetMidway, Stored, Granted
<1>3. /\ ~Stored(g) /\ Granted(g) /\ ~Held(f) /\ ~Popped(f) /\ ~Held(g) /\ ~Popped(g)
    BY <1>1, <1>2 DEF Held, Popped, Stored, Granted
<1>4. UNCHANGED <<inboxVars, auditVars, mode, attached, latest>>
    BY DEF Mark, StoreStep
<1>5. StoreMidway(g)'
    BY <1>1, <1>2, <1>3 DEF Mark, StoreStep, Midway, StoreMidway
<1>6. InboxMidway(g)' /\ RestMidway(g)'
    BY <1>1, <1>2, <1>3, <1>4
    DEF Midway, InboxMidway, RestMidway, inboxVars, auditVars, Outcome
<1>7. TaskMidway(g)'
    <2>1. CommitMidway(g)'
        BY <1>1, <1>2, <1>3, <1>4 DEF Midway, TaskMidway, CommitMidway, Outcome, Admissible
    <2>2. InsertMidway(g)'
        BY <1>1, <1>2, <1>3 DEF Midway, TaskMidway, InsertMidway
    <2>3. ForgetMidway(g)'
        BY <1>1, <1>2, <1>3 DEF Midway, TaskMidway, ForgetMidway
    <2> QED
        BY <2>1, <2>2, <2>3 DEF TaskMidway
<1> QED
    BY <1>1, <1>5, <1>6, <1>7 DEF Midway

LEMMA UnindexPrincipalMidway ==
    ASSUME ThreadsInv, before' = before, NEW t \in Threads, Midway(frame[t]), UnindexPrincipal(t)
    PROVE  Midway(frame[t])'
<1>0. "unscope" \in Labels
    BY DEF Labels
<1>1. PICK f \in Frame, g \in Frame :
          /\ f = frame[t] /\ g = frame'[t] /\ f.at = "unindex" /\ g.at = "unscope" /\ Midway(f)
          /\ g.call = f.call /\ g.id = f.id /\ g.pid = f.pid /\ g.who = f.who /\ g.ok = f.ok
          /\ g.candidate = f.candidate /\ g.row = f.row
    BY <1>0, Onward DEF UnindexPrincipal
<1>2. /\ ~Stored(f) /\ Granted(f) /\ f.who # None /\ f.call = None /\ f.pid = None
    BY <1>1 DEF Midway, TaskMidway, ForgetMidway, Stored, Granted
<1>3. /\ ~Stored(g) /\ Granted(g) /\ ~Held(f) /\ ~Popped(f) /\ ~Held(g) /\ ~Popped(g)
    BY <1>1, <1>2 DEF Held, Popped, Stored, Granted
<1>4. UNCHANGED <<inboxVars, auditVars, mode, attached, latest>>
    BY DEF UnindexPrincipal, StoreStep
<1>5. StoreMidway(g)'
    BY <1>1, <1>2, <1>3 DEF UnindexPrincipal, StoreStep, Midway, StoreMidway
<1>6. InboxMidway(g)' /\ RestMidway(g)'
    BY <1>1, <1>2, <1>3, <1>4
    DEF Midway, InboxMidway, RestMidway, inboxVars, auditVars, Outcome
<1>7. TaskMidway(g)'
    <2>1. CommitMidway(g)'
        BY <1>1, <1>2, <1>3, <1>4 DEF Midway, TaskMidway, CommitMidway, Outcome, Admissible
    <2>2. InsertMidway(g)'
        BY <1>1, <1>2, <1>3 DEF Midway, TaskMidway, InsertMidway
    <2>3. ForgetMidway(g)'
        BY <1>1, <1>2, <1>3 DEF Midway, TaskMidway, ForgetMidway
    <2> QED
        BY <2>1, <2>2, <2>3 DEF TaskMidway
<1> QED
    BY <1>1, <1>5, <1>6, <1>7 DEF Midway

LEMMA UnindexScopeMidway ==
    ASSUME ThreadsInv, before' = before, NEW t \in Threads, Midway(frame[t]), UnindexScope(t)
    PROVE  Midway(frame[t])'
<1>0. "unbind" \in Labels
    BY DEF Labels
<1>1. PICK f \in Frame, g \in Frame :
          /\ f = frame[t] /\ g = frame'[t] /\ f.at = "unscope" /\ g.at = "unbind" /\ Midway(f)
          /\ g.call = f.call /\ g.id = f.id /\ g.pid = f.pid /\ g.who = f.who /\ g.ok = f.ok
          /\ g.candidate = f.candidate /\ g.row = f.row
    BY <1>0, Onward DEF UnindexScope
<1>2. /\ ~Stored(f) /\ Granted(f) /\ f.who # None /\ f.call = None /\ f.pid = None
    BY <1>1 DEF Midway, TaskMidway, ForgetMidway, Stored, Granted
<1>3. /\ ~Stored(g) /\ Granted(g) /\ ~Held(f) /\ ~Popped(f) /\ ~Held(g) /\ ~Popped(g)
    BY <1>1, <1>2 DEF Held, Popped, Stored, Granted
<1>4. UNCHANGED <<inboxVars, auditVars, mode, attached, latest>>
    BY DEF UnindexScope, StoreStep
<1>5. StoreMidway(g)'
    BY <1>1, <1>2, <1>3 DEF UnindexScope, StoreStep, Midway, StoreMidway
<1>6. InboxMidway(g)' /\ RestMidway(g)'
    BY <1>1, <1>2, <1>3, <1>4
    DEF Midway, InboxMidway, RestMidway, inboxVars, auditVars, Outcome
<1>7. TaskMidway(g)'
    <2>1. CommitMidway(g)'
        BY <1>1, <1>2, <1>3, <1>4 DEF Midway, TaskMidway, CommitMidway, Outcome, Admissible
    <2>2. InsertMidway(g)'
        BY <1>1, <1>2, <1>3 DEF Midway, TaskMidway, InsertMidway
    <2>3. ForgetMidway(g)'
        BY <1>1, <1>2, <1>3 DEF Midway, TaskMidway, ForgetMidway
    <2> QED
        BY <2>1, <2>2, <2>3 DEF TaskMidway
<1> QED
    BY <1>1, <1>5, <1>6, <1>7 DEF Midway

LEMMA UnbindMidway ==
    ASSUME ThreadsInv, before' = before, NEW t \in Threads, Midway(frame[t]), Unbind(t)
    PROVE  Midway(frame[t])'
<1>0. "audit" \in Labels
    BY DEF Labels
<1>1. PICK f \in Frame, g \in Frame :
          /\ f = frame[t] /\ g = frame'[t] /\ f.at = "unbind" /\ g.at = "audit" /\ Midway(f)
          /\ g.call = f.call /\ g.id = f.id /\ g.pid = f.pid /\ g.who = f.who /\ g.ok = f.ok
          /\ g.candidate = f.candidate /\ g.row = f.row
    BY <1>0, Onward DEF Unbind
<1>2. /\ ~Stored(f) /\ Granted(f) /\ f.who # None /\ f.call = None /\ f.pid = None
    BY <1>1 DEF Midway, TaskMidway, ForgetMidway, Stored, Granted
<1>3. /\ ~Stored(g) /\ Granted(g) /\ ~Held(f) /\ ~Popped(f) /\ ~Held(g) /\ ~Popped(g)
    BY <1>1, <1>2 DEF Held, Popped, Stored, Granted
<1>4. UNCHANGED <<inboxVars, auditVars, mode, attached, latest>>
    BY DEF Unbind, StoreStep
<1>5. StoreMidway(g)'
    BY <1>1, <1>2, <1>3 DEF Unbind, StoreStep, Midway, StoreMidway
<1>6. InboxMidway(g)' /\ RestMidway(g)'
    BY <1>1, <1>2, <1>3, <1>4
    DEF Midway, InboxMidway, RestMidway, inboxVars, auditVars, Outcome
<1>7. TaskMidway(g)'
    <2>1. CommitMidway(g)'
        BY <1>1, <1>2, <1>3, <1>4 DEF Midway, TaskMidway, CommitMidway, Outcome, Admissible
    <2>2. InsertMidway(g)'
        BY <1>1, <1>2, <1>3 DEF Midway, TaskMidway, InsertMidway
    <2>3. ForgetMidway(g)'
        BY <1>1, <1>2, <1>3 DEF Midway, TaskMidway, ForgetMidway
    <2> QED
        BY <2>1, <2>2, <2>3 DEF TaskMidway
<1> QED
    BY <1>1, <1>5, <1>6, <1>7 DEF Midway

-----------------------------------------------------------------------------
(***************************************************************************)
(* What the actions of MemoryGate compute is computed of their arguments   *)
(* alone, whatever state they are taken in.                                *)
(***************************************************************************)
LEMMA SameRow ==
    ASSUME NEW candidate
    PROVE  /\ Atomic!NormalizedScope(candidate.scope) = NormalizedScope(candidate.scope)
           /\ Atomic!FromCandidate(candidate) = FromCandidate(candidate)
           /\ Atomic!Validate(candidate) = Validate(candidate)
BY  DEF Atomic!FromCandidate, FromCandidate, Atomic!Validate, Validate, Atomic!ValidClassifications, ValidClassifications,
        Atomic!NormalizedScope, NormalizedScope, Atomic!MemoryScope, MemoryScope, Atomic!ScopeValue, ScopeValue,
        Atomic!Private, Private, Atomic!Team, Team, Atomic!Shared, Shared,
        Atomic!IsBlank, IsBlank, Atomic!Empty, Empty

\* The operators of the atomic gate are those of the threaded one.
LEMMA SameVerdict ==
    ASSUME NEW registry, NEW candidate
    PROVE  Atomic!Verify(registry, candidate) = Verify(registry, candidate)
BY  DEF Atomic!Verify, Verify, Atomic!Evaluate, Evaluate, Atomic!Reached, Reached,
        Atomic!Applicable, Applicable, Atomic!Passing, Passing, Atomic!Cardinality, Cardinality,
        Atomic!IsFiniteSet, IsFiniteSet

LEMMA SameIngest ==
    ASSUME NEW min_traces, NEW traces
    PROVE  Atomic!Ingest(min_traces, traces) = Ingest(min_traces, traces)
BY  DEF Atomic!Ingest, Ingest, Atomic!IsBlank, IsBlank, Atomic!Empty, Empty

LEMMA SameDistilled ==
    ASSUME NEW call
    PROVE  Atomic!Distilled(call) = Distilled(call)
BY  DEF Atomic!Distilled, Distilled, Atomic!RuleBasedDistill, RuleBasedDistill, Atomic!LessonIndex, LessonIndex,
        Atomic!MergedTraceId, MergedTraceId, Atomic!MergedEvidence, MergedEvidence, Atomic!MergedMetadata, MergedMetadata,
        Atomic!Update, Update, Atomic!Contains, Contains, Atomic!FlattenSeq, FlattenSeq,
        Atomic!FoldLeft, FoldLeft, Atomic!MapThenFoldSet, MapThenFoldSet, Atomic!SelectInSeq, SelectInSeq,
        Atomic!Min, Min, Atomic!Max, Max, Atomic!Empty, Empty

LEMMA SameOutcome == Atomic!Outcome = Outcome
BY  SameVerdict, SameIngest, SameDistilled
    DEF Atomic!Outcome, Outcome, Atomic!Run, Run

LEMMA SameAudits ==
    ASSUME NEW outcome
    PROVE  Atomic!VerifierAudits(outcome) = VerifierAudits(outcome)
BY  DEF Atomic!VerifierAudits, VerifierAudits, Atomic!SelectInSeq, SelectInSeq, Atomic!Min, Min

LEMMA SameAdmission ==
    ASSUME NEW call
    PROVE  Atomic!Admissible(call) <=> Admissible(call)
BY  SameOutcome, SameRow DEF Atomic!Admissible, Admissible

LEMMA SameRecords ==
    ASSUME NEW actor, NEW status, NEW id, NEW pid, NEW candidate, NEW verifiers, NEW success
    PROVE  /\ Atomic!WriteRecord(actor, status, id, pid, candidate, verifiers)
                = WriteRecord(actor, status, id, pid, candidate, verifiers)
           /\ Atomic!DeletionRecord(actor, id, success) = DeletionRecord(actor, id, success)
BY  SameRow DEF Atomic!WriteRecord, WriteRecord, Atomic!DeletionRecord, DeletionRecord
-----------------------------------------------------------------------------
(***************************************************************************)
(* A call that returns: its steps add up to an action of MemoryGate.       *)
(***************************************************************************)
LEMMA AuditAdds ==
    ASSUME NEW t \in Threads, RestMidway(frame[t]), before' = GateState', NEW record,
           attached' = attached, Audit(record)
    PROVE  Atomic!Audit(record)
<1>1. /\ before.auditLog = auditLog /\ before.unlogged = unlogged /\ before.calls = calls
      /\ before.attached = attached
    BY DEF RestMidway
<1> QED
    BY <1>1, RestTaken DEF Audit, Atomic!Audit

\* The frame of a call that is about to leave its audit row.
LEMMA Leaving ==
    ASSUME ThreadsInv, NEW t \in Threads, Midway(frame[t]), AuditReturn(t), before' = GateState'
    PROVE  \E f \in Frame :
               /\ f = frame[t] /\ f.at = "audit" /\ Midway(f) /\ Atomic!Audit(FrameRecord(f))
               /\ UNCHANGED <<storeVars, inboxVars, mode, attached, latest>>
<1>1. PICK f \in Frame : f = frame[t] /\ f.at = "audit"
    BY DEF AuditReturn, Return, ThreadsInv
<1>2. Audit(FrameRecord(f)) /\ UNCHANGED <<storeVars, inboxVars, mode, attached, latest>>
    BY <1>1 DEF AuditReturn
<1>3. Atomic!Audit(FrameRecord(f))
    BY <1>1, <1>2, AuditAdds DEF Midway
<1> QED
    BY <1>1, <1>2, <1>3

\* The step in which a call returns is one step of the atomic gate.
LEMMA CommitReturns ==
    ASSUME ThreadsInv, NEW t \in Threads, Midway(frame[t]), AuditReturn(t), before' = GateState',
           frame[t].call # None
    PROVE  Atomic!GateNext
<1>1. PICK f \in Frame : /\ f = frame[t] /\ f.at = "audit" /\ Midway(f) /\ f.call # None
                         /\ Atomic!Audit(FrameRecord(f))
                         /\ UNCHANGED <<storeVars, inboxVars, mode, attached, latest>>
    BY Leaving
<1>2. PICK call \in Submissions : call = f.call
    BY <1>1 DEF Frame, Optional
<1>3. /\ StoreMidway(f) /\ InboxMidway(f) /\ RestMidway(f) /\ CommitMidway(f)
    BY <1>1 DEF Midway, TaskMidway
<1>4. ~Popped(f) /\ ~Granted(f) /\ f.who = None /\ f.candidate = Outcome[call].candidate
    BY <1>1, <1>2, <1>3 DEF CommitMidway, Popped, Granted
<1>5. /\ before'.latest = Outcome[call] /\ before'.mode = before.mode
      /\ before'.attached = before.attached
    BY <1>1, <1>2, <1>3, RestTaken DEF RestMidway
<1>6. FrameRecord(f) = WriteRecord(call.context.principal, Status(f), f.id, f.pid,
                                   IF Outcome[call].candidate # None THEN Outcome[call].candidate
                                   ELSE before'.latest.candidate,
                                   VerifierAudits(Outcome[call]))
    <2>1. latest = Outcome[call]
        BY <1>1, <1>2, <1>3 DEF RestMidway
    <2> QED
        BY <1>1, <1>2, <1>4, <1>5, <2>1 DEF FrameRecord, CommitRecord
<1>7. Atomic!AuditWrite(call, Status(f), f.id, f.pid)
    BY <1>1, <1>6, SameOutcome, SameAudits, SameRecords DEF Atomic!AuditWrite
<1>8. CASE f.id # None
    <2>1. Stored(f) /\ ~Held(f) /\ f.pid = None /\ Admissible(call) /\ mode = "auto_commit"
        BY <1>1, <1>2, <1>3, <1>4, <1>8 DEF CommitMidway, Stored, Held
    <2>2. f.id \in MemoryIds /\ Status(f) = "committed"
        BY <1>1, <1>8 DEF Frame, Optional, Status
    <2>3. f.id \notin before.minted /\ f.row = FromCandidate(Outcome[call].candidate)
        BY <1>1, <1>4, <2>1 DEF Midway, TaskMidway, InsertMidway
    <2>4. /\ minted = before.minted \cup {f.id}
          /\ entries = [before.entries EXCEPT ![f.id] = f.row]
          /\ byPrincipal = [before.byPrincipal EXCEPT ![f.row.principal] = @ \cup {f.id}]
          /\ byScope = [before.byScope EXCEPT ![f.row.scope] = @ \cup {f.id}]
          /\ tombstones = before.tombstones /\ embeddings = before.embeddings
        BY <1>1, <1>3, <1>4, <2>1 DEF StoreMidway
    <2>5. Atomic!Insert(f.id, f.row)
        BY <1>1, <2>3, <2>4, RestTaken DEF Atomic!Insert, storeVars
    <2>6. /\ before'.pending = before.pending /\ before'.held = before.held
          /\ before'.promoted = before.promoted
        BY <1>1, <1>3, <1>4, <2>1, RestTaken DEF InboxMidway, inboxVars
    <2>7. before.mode = "auto_commit"
        BY <1>3, <2>1 DEF RestMidway
    <2>8. Atomic!CommitStored(call, f.id)
        BY <1>5, <1>7, <2>1, <2>2, <2>3, <2>5, <2>6, <2>7, SameOutcome, SameRow, SameAdmission
        DEF Atomic!CommitStored, Atomic!inboxVars
    <2> QED
        BY <2>2, <2>8 DEF Atomic!GateNext
<1>9. CASE f.id = None
    <2>1. ~Stored(f)
        BY <1>9 DEF Stored
    <2>2. UNCHANGED <<before.entries, before.byPrincipal, before.byScope, before.tombstones,
                      before.embeddings, before.minted>>
        BY <1>1, <1>3, <1>4, <2>1, RestTaken DEF StoreMidway, storeVars
    <2>3. CASE f.pid # None
        <3>1. Held(f) /\ f.pid \in PendingIds /\ Status(f) = "pending"
            BY <1>1, <1>9, <2>3 DEF Held, Frame, Optional, Status
        <3>2. Admissible(call) /\ before.mode = "manual_review" /\ before.held[f.pid] = None
            BY <1>1, <1>2, <1>3, <3>1 DEF CommitMidway, RestMidway
        <3>3. /\ before'.pending = [before.pending EXCEPT ![f.pid] = f.candidate]
              /\ before'.held = [before.held EXCEPT ![f.pid] = f.candidate]
              /\ before'.promoted = before.promoted
            BY <1>1, <1>3, <1>4, <2>1, <3>1, RestTaken DEF InboxMidway, inboxVars
        <3>4. Atomic!CommitHeld(call, f.pid)
            BY <1>4, <1>5, <1>7, <1>9, <2>2, <3>1, <3>2, <3>3, SameOutcome, SameAdmission
            DEF Atomic!CommitHeld, Atomic!storeVars
        <3> QED
            BY <3>1, <3>4 DEF Atomic!GateNext
    <2>4. CASE f.pid = None
        <3>1. ~Held(f) /\ Status(f) = "rejected"
            BY <1>9, <2>4 DEF Held, Status
        <3>2. ~Admissible(call)
            BY <1>1, <1>2, <1>3, <1>9, <2>4 DEF CommitMidway
        <3>3. /\ before'.pending = before.pending /\ before'.held = before.held
              /\ before'.promoted = before.promoted
            BY <1>1, <1>3, <1>4, <2>1, <3>1, RestTaken DEF InboxMidway, inboxVars
        <3>4. Atomic!CommitRejected(call)
            BY <1>5, <1>7, <1>9, <2>2, <2>4, <3>1, <3>2, <3>3, SameOutcome, SameAdmission
            DEF Atomic!CommitRejected, Atomic!storeVars, Atomic!inboxVars
        <3> QED
            BY <3>4 DEF Atomic!GateNext
    <2> QED
        BY <2>3, <2>4
<1> QED
    BY <1>8, <1>9

LEMMA ApproveReturns ==
    ASSUME ThreadsInv, NEW t \in Threads, Midway(frame[t]), AuditReturn(t), before' = GateState',
           frame[t].call = None, frame[t].who = None
    PROVE  Atomic!GateNext
<1>1. PICK f \in Frame : /\ f = frame[t] /\ f.at = "audit" /\ Midway(f)
                         /\ f.call = None /\ f.who = None
                         /\ Atomic!Audit(FrameRecord(f))
                         /\ UNCHANGED <<storeVars, inboxVars, mode, attached, latest>>
    BY Leaving
<1>2. /\ StoreMidway(f) /\ InboxMidway(f) /\ RestMidway(f) /\ InsertMidway(f)
    BY <1>1 DEF Midway, TaskMidway
<1>3. ~Held(f) /\ Popped(f) /\ Stored(f) /\ ~Granted(f)
    BY <1>1, <1>2 DEF InsertMidway, Held, Popped, Granted
<1>4. f.id \in MemoryIds /\ f.pid \in PendingIds
    BY <1>1, <1>3 DEF Frame, Optional, Popped, Stored
<1>5. /\ f.id \notin before.minted /\ f.row = FromCandidate(f.candidate)
      /\ f.candidate # None /\ before.pending[f.pid] = f.candidate
    BY <1>2, <1>3 DEF InsertMidway
<1>6. /\ minted = before.minted \cup {f.id}
      /\ entries = [before.entries EXCEPT ![f.id] = f.row]
      /\ byPrincipal = [before.byPrincipal EXCEPT ![f.row.principal] = @ \cup {f.id}]
      /\ byScope = [before.byScope EXCEPT ![f.row.scope] = @ \cup {f.id}]
      /\ tombstones = before.tombstones /\ embeddings = before.embeddings
    BY <1>1, <1>2, <1>3 DEF StoreMidway
<1>7. Atomic!Insert(f.id, f.row)
    BY <1>1, <1>5, <1>6, RestTaken DEF Atomic!Insert, storeVars
<1>8. /\ before'.pending = [before.pending EXCEPT ![f.pid] = None]
      /\ before'.promoted = [before.promoted EXCEPT ![f.pid] = f.id]
      /\ before'.held = before.held
    BY <1>1, <1>2, <1>3, RestTaken DEF InboxMidway, inboxVars
<1>9. /\ before'.mode = before.mode /\ before'.attached = before.attached
      /\ before'.latest = before.latest
    BY <1>1, <1>2, RestTaken DEF RestMidway
<1>10. FrameRecord(f) = WriteRecord(before.pending[f.pid].principal, "committed", f.id, None,
                                    before.pending[f.pid], <<>>)
    BY <1>1, <1>5 DEF FrameRecord
<1>11. Atomic!Approve(f.pid, f.id)
    BY <1>1, <1>5, <1>7, <1>8, <1>9, <1>10, SameRow, SameRecords DEF Atomic!Approve
<1> QED
    BY <1>4, <1>11 DEF Atomic!GateNext

LEMMA ForgetReturns ==
    ASSUME ThreadsInv, NEW t \in Threads, Midway(frame[t]), AuditReturn(t), before' = GateState',
           frame[t].call = None, frame[t].who # None
    PROVE  Atomic!GateNext
<1>1. PICK f \in Frame : /\ f = frame[t] /\ f.at = "audit" /\ Midway(f)
                         /\ f.call = None /\ f.who # None
                         /\ Atomic!Audit(FrameRecord(f))
                         /\ UNCHANGED <<storeVars, inboxVars, mode, attached, latest>>
    BY Leaving
<1>2. /\ StoreMidway(f) /\ InboxMidway(f) /\ RestMidway(f) /\ ForgetMidway(f)
    BY <1>1 DEF Midway, TaskMidway
<1>3. /\ f.pid = None /\ f.id \in MemoryIds /\ f.who \in Callers /\ f.ok \in BOOLEAN
      /\ f.row = before.entries[f.id]
      /\ f.ok <=> /\ before.entries[f.id] # None /\ before.tombstones[f.id] = None
                  /\ f.who = f.row.principal
    BY <1>1, <1>2 DEF ForgetMidway, Frame, Optional
<1>4. ~Held(f) /\ ~Popped(f) /\ ~Stored(f) /\ (Granted(f) <=> f.ok)
    BY <1>1, <1>3 DEF Held, Popped, Stored, Granted
<1>5. f.ok = Atomic!MayTombstone(f.id, f.who)
    BY <1>3 DEF Atomic!MayTombstone, Atomic!Live, Atomic!Known, Atomic!IsTombstoned
<1>6. Atomic!Tombstone(f.id, f.who)
    <2>1. CASE f.ok
        <3>1. /\ minted = before.minted /\ entries = before.entries
              /\ byPrincipal = [before.byPrincipal EXCEPT ![f.row.principal] = @ \ {f.id}]
              /\ byScope = [before.byScope EXCEPT ![f.row.scope] = @ \ {f.id}]
              /\ tombstones = [before.tombstones EXCEPT ![f.id] = f.who]
              /\ embeddings = [before.embeddings EXCEPT ![f.id] = None]
            BY <1>1, <1>2, <1>4, <2>1 DEF StoreMidway
        <3> QED
            BY <1>1, <1>3, <1>5, <2>1, <3>1, RestTaken DEF Atomic!Tombstone, storeVars
    <2>2. CASE ~f.ok
        <3>1. /\ minted = before.minted /\ entries = before.entries
              /\ byPrincipal = before.byPrincipal /\ byScope = before.byScope
              /\ tombstones = before.tombstones /\ embeddings = before.embeddings
            BY <1>1, <1>2, <1>4, <2>2 DEF StoreMidway
        <3> QED
            BY <1>1, <1>5, <2>2, <3>1, RestTaken DEF Atomic!Tombstone, Atomic!storeVars, storeVars
    <2> QED
        BY <2>1, <2>2
<1>7. /\ before'.pending = before.pending /\ before'.held = before.held
      /\ before'.promoted = before.promoted
    BY <1>1, <1>2, <1>4, RestTaken DEF InboxMidway, inboxVars
<1>8. /\ before'.mode = before.mode /\ before'.attached = before.attached
      /\ before'.latest = before.latest
    BY <1>1, <1>2, RestTaken DEF RestMidway
<1>9. FrameRecord(f) = DeletionRecord(f.who, f.id, f.ok)
    BY <1>1 DEF FrameRecord
<1>10. Atomic!Forget(f.id, f.who)
    BY <1>1, <1>5, <1>6, <1>7, <1>8, <1>9, SameRecords DEF Atomic!Forget, Atomic!inboxVars
<1> QED
    BY <1>3, <1>10 DEF Atomic!GateNext

LEMMA RenderRaisesReturns ==
    ASSUME ThreadsInv, NEW t \in Threads, Midway(frame[t]), RenderRaises(t), before' = GateState'
    PROVE  Atomic!GateNext
<1>1. PICK f \in Frame : f = frame[t] /\ f.at = "render" /\ Midway(f) /\ f.call # None
    BY DEF RenderRaises, Return, ThreadsInv, FrameOK
<1>2. PICK call \in Submissions : call = f.call
    BY <1>1 DEF Frame, Optional
<1>3. f.id = None /\ f.pid = None /\ f.who = None
    BY <1>1 DEF Midway, TaskMidway, CommitMidway
<1>4. ~Held(f) /\ ~Popped(f) /\ ~Stored(f) /\ ~Granted(f)
    BY <1>3 DEF Held, Popped, Stored, Granted
<1>5. Renders /\ UNCHANGED <<storeVars, inboxVars, auditVars, mode, attached, latest>>
    BY DEF RenderRaises, gateVars
<1>6. UNCHANGED <<before.entries, before.byPrincipal, before.byScope, before.tombstones,
                  before.embeddings, before.minted>>
    BY <1>1, <1>4, <1>5, RestTaken DEF Midway, StoreMidway, storeVars
<1>7. UNCHANGED <<before.pending, before.held, before.promoted>>
    BY <1>1, <1>4, <1>5, RestTaken DEF Midway, InboxMidway, inboxVars
<1>8. /\ UNCHANGED <<before.auditLog, before.unlogged, before.calls, before.mode, before.attached>>
      /\ before'.latest = Outcome[call]
    BY <1>1, <1>2, <1>5, RestTaken DEF Midway, RestMidway, auditVars
<1>9. Atomic!CommitRaises(call)
    BY <1>5, <1>6, <1>7, <1>8, SameOutcome
    DEF Atomic!CommitRaises, Atomic!storeVars, Atomic!inboxVars, Atomic!auditVars
<1> QED
    BY <1>9 DEF Atomic!GateNext

LEMMA BindReturns ==
    ASSUME ThreadsInv, NEW t \in Threads, Midway(frame[t]), Bind(t), before' = GateState'
    PROVE  Atomic!GateNext
<1>1. PICK f \in Frame : f = frame[t] /\ f.at = "bind" /\ Midway(f)
    BY DEF Bind, Return, ThreadsInv
<1>2. /\ f.call = None /\ f.pid = None /\ f.who = None
      /\ f.id \in MemoryIds /\ f.vector \in VectorIds
      /\ before.entries[f.id] # None /\ before.tombstones[f.id] = None
    BY <1>1 DEF Midway, TaskMidway, ForgetMidway, Frame, Optional
<1>3. ~Held(f) /\ ~Popped(f) /\ ~Stored(f) /\ ~Granted(f)
    BY <1>1, <1>2 DEF Held, Popped, Stored, Granted
<1>4. /\ embeddings' = [embeddings EXCEPT ![f.id] = f.vector]
      /\ UNCHANGED <<entries, byPrincipal, byScope, tombstones, minted, inboxVars, auditVars, mode,
                     attached, latest>>
    BY <1>1 DEF Bind, StoreStep
<1>5. /\ before'.embeddings = [before.embeddings EXCEPT ![f.id] = f.vector]
      /\ UNCHANGED <<before.entries, before.byPrincipal, before.byScope, before.tombstones,
                     before.minted>>
    BY <1>1, <1>3, <1>4, RestTaken DEF Midway, StoreMidway
<1>6. UNCHANGED <<before.pending, before.held, before.promoted>>
    BY <1>1, <1>3, <1>4, RestTaken DEF Midway, InboxMidway, inboxVars
<1>7. UNCHANGED <<before.auditLog, before.unlogged, before.calls, before.mode, before.attached,
                  before.latest>>
    BY <1>1, <1>2, <1>4, RestTaken DEF Midway, RestMidway, auditVars
<1>8. Atomic!GateBindEmbedding(f.id, f.vector)
    BY <1>2, <1>5, <1>6, <1>7
    DEF Atomic!GateBindEmbedding, Atomic!BindEmbedding, Atomic!Live, Atomic!Known,
        Atomic!IsTombstoned, Atomic!inboxVars, Atomic!auditVars
<1> QED
    BY <1>2, <1>8 DEF Atomic!GateNext

\* The calls that touch nothing but a public attribute or the count of calls.
LEMMA AtOnce ==
    ASSUME NEW t \in Threads, Midway(Idle), before' = GateState',
           Configure(t) \/ \E pid \in PendingIds : ApproveMiss(t, pid)
    PROVE  Atomic!GateNext
<1>1. CASE Configure(t)
    <2>1. CASE \E m \in GateMode : SetMode(m)
        <3>1. PICK m \in GateMode : SetMode(m)
            BY <2>1
        <3>2. m \in Atomic!GateMode /\ Atomic!SetMode(m)
            BY <3>1, MidwayAtRest, RestTaken
            DEF SetMode, storeVars, inboxVars, auditVars, GateMode, Atomic!GateMode,
                Atomic!SetMode, Atomic!storeVars, Atomic!inboxVars, Atomic!auditVars
        <3> QED
            BY <3>2 DEF Atomic!GateNext
    <2>2. CASE AttachLog
        <3>1. Atomic!AttachLog
            BY <2>2, MidwayAtRest, RestTaken
            DEF AttachLog, storeVars, inboxVars, auditVars,
                Atomic!AttachLog, Atomic!storeVars, Atomic!inboxVars, Atomic!auditVars
        <3> QED
            BY <3>1 DEF Atomic!GateNext
    <2> QED
        BY <1>1, <2>1, <2>2 DEF Configure
<1>2. ASSUME NEW pid \in PendingIds, ApproveMiss(t, pid) PROVE Atomic!GateNext
    <2>1. Atomic!ApproveUnknown(pid)
        BY <1>2, MidwayAtRest, RestTaken
        DEF ApproveMiss, ApproveUnknown, storeVars, inboxVars,
            Atomic!ApproveUnknown, Atomic!storeVars, Atomic!inboxVars
    <2> QED
        BY <2>1 DEF Atomic!GateNext
<1> QED
    BY <1>1, <1>2

-----------------------------------------------------------------------------
(***************************************************************************)
(* All steps.                                                              *)
(***************************************************************************)
\* What a thread may do next depends on where it is.
LEMMA Turn ==
    ASSUME ThreadsInv, NEW t \in Threads, ThreadNext(t)
    PROVE  /\ \A u \in Threads \ {t} : frame'[u] = frame[u]
           /\ frame'[t].at = "idle" =>
                  \/ /\ frame'[t] = Idle
                     /\ RenderRaises(t) \/ AuditReturn(t) \/ Bind(t)
                  \/ /\ frame'[t] = frame[t]
                     /\ Configure(t) \/ \E pid \in PendingIds : ApproveMiss(t, pid)
<1>1. Idle.at = "idle"
    BY DEF Idle
<1>2. ASSUME NEW next, Begin(t, next), next.at # "idle"
      PROVE  frame'[t].at # "idle" /\ \A u \in Threads \ {t} : frame'[u] = frame[u]
    BY <1>2 DEF Begin, ThreadsInv
<1>3. ASSUME NEW here, NEW there, Goto(t, here, there), there # "idle"
      PROVE  frame'[t].at # "idle" /\ \A u \in Threads \ {t} : frame'[u] = frame[u]
    BY <1>3 DEF Goto, ThreadsInv, Frame
<1>4. ASSUME NEW here, Return(t, here)
      PROVE  frame'[t] = Idle /\ \A u \in Threads \ {t} : frame'[u] = frame[u]
    BY <1>4 DEF Return, ThreadsInv
<1>5. ASSUME \/ \E call \in Submissions : CommitRun(t, call)
             \/ \E pid \in PendingIds : ApprovePop(t, pid)
             \/ \E id \in MemoryIds, who \in Callers : ForgetCheck(t, id, who)
             \/ \E id \in MemoryIds, vector \in VectorIds : BindCheck(t, id, vector)
      PROVE  frame'[t].at # "idle" /\ \A u \in Threads \ {t} : frame'[u] = frame[u]
    <2>1. ASSUME NEW call, CommitRun(t, call)
          PROVE  \E next : Begin(t, next) /\ next.at # "idle"
        <3>1. PICK next : next = [Idle EXCEPT !.at = "render", !.call = call]
            OBVIOUS
        <3>2. Begin(t, next)
            BY <2>1, <3>1 DEF CommitRun
        <3>3. next.at # "idle"
            BY <3>1 DEF Idle
        <3> QED
            BY <3>2, <3>3
    <2>2. ASSUME NEW pid, ApprovePop(t, pid)
          PROVE  \E next : Begin(t, next) /\ next.at # "idle"
        <3>1. PICK next : next = [Idle EXCEPT !.at = "insert", !.pid = pid, !.candidate = pending[pid]]
            OBVIOUS
        <3>2. Begin(t, next)
            BY <2>2, <3>1 DEF ApprovePop
        <3>3. next.at # "idle"
            BY <3>1 DEF Idle
        <3> QED
            BY <3>2, <3>3
    <2>3. ASSUME NEW id, NEW who, ForgetCheck(t, id, who)
          PROVE  \E next : Begin(t, next) /\ next.at # "idle"
        <3>1. PICK next : next = [Idle EXCEPT
                  !.at = IF MayTombstone(id, who) THEN "mark" ELSE "audit",
                  !.id = id, !.row = entries[id], !.who = who, !.ok = MayTombstone(id, who)]
            OBVIOUS
        <3>2. Begin(t, next)
            BY <2>3, <3>1 DEF ForgetCheck
        <3>3. next.at \in {"mark", "audit"}
            BY <3>1 DEF Idle
        <3> QED
            BY <3>2, <3>3
    <2>4. ASSUME NEW id, NEW vector, BindCheck(t, id, vector)
          PROVE  \E next : Begin(t, next) /\ next.at # "idle"
        <3>1. PICK next : next = [Idle EXCEPT !.at = "bind", !.id = id, !.vector = vector]
            OBVIOUS
        <3>2. Begin(t, next)
            BY <2>4, <3>1 DEF BindCheck
        <3>3. next.at # "idle"
            BY <3>1 DEF Idle
        <3> QED
            BY <3>2, <3>3
    <2> QED
        BY <1>2, <1>5, <2>1, <2>2, <2>3, <2>4
<1>6. CASE RenderRaises(t) \/ AuditReturn(t) \/ Bind(t)
    BY <1>4, <1>6 DEF RenderRaises, AuditReturn, Bind
<1>7. CASE \/ IndexPrincipal(t) \/ IndexScope(t) \/ Mark(t) \/ UnindexPrincipal(t)
           \/ UnindexScope(t) \/ Unbind(t)
    BY <1>3, <1>7
    DEF IndexPrincipal, IndexScope, Mark, UnindexPrincipal, UnindexScope, Unbind
<1>8. CASE Configure(t) \/ \E pid \in PendingIds : ApproveMiss(t, pid)
    BY <1>8 DEF Configure, ApproveMiss
<1>9. CASE Decide(t)
    <2>1. PICK there \in {"audit", "hold", "insert"} :
              there = IF ~Admissible(frame[t].call) THEN "audit"
                      ELSE IF mode = "manual_review" THEN "hold" ELSE "insert"
        OBVIOUS
    <2> QED
        BY <1>9, <2>1 DEF Decide, ThreadsInv, Frame
<1>10. CASE \E pid \in PendingIds : Hold(t, pid)
    BY <1>10 DEF Hold, ThreadsInv, Frame
<1>11. CASE \E id \in MemoryIds : InsertEntry(t, id)
    BY <1>11 DEF InsertEntry, ThreadsInv, Frame
<1> QED
    BY <1>5, <1>6, <1>7, <1>8, <1>9, <1>10, <1>11 DEF ThreadNext

\* A step that leaves its call under way.
LEMMA CallGoesOn ==
    ASSUME ThreadsInv, GateTypeOK, NEW t \in Threads, Midway(frame[t]),
           frame[t].at = "idle" => frame[t] = Idle,
           ThreadNext(t), before' = before, frame'[t].at # "idle"
    PROVE  Midway(frame[t])'
<1>1. ASSUME frame[t].at = "idle" PROVE Midway(Idle)
    BY <1>1
<1>2. CASE \/ \E call \in Submissions : CommitRun(t, call)
           \/ \E pid \in PendingIds : ApprovePop(t, pid)
           \/ \E id \in MemoryIds, who \in Callers : ForgetCheck(t, id, who)
           \/ \E id \in MemoryIds, vector \in VectorIds : BindCheck(t, id, vector)
    <2>1. Midway(Idle)
        BY <1>1, <1>2 DEF CommitRun, ApprovePop, ForgetCheck, BindCheck, Begin
    <2> QED
        BY <1>2, <2>1, CommitRunMidway, ApprovePopMidway, ForgetCheckMidway, BindCheckMidway
<1>3. CASE RenderRaises(t) \/ AuditReturn(t) \/ Bind(t)
    BY <1>3 DEF RenderRaises, AuditReturn, Bind, Return, ThreadsInv, Idle
<1>4. CASE \/ IndexPrincipal(t) \/ IndexScope(t) \/ Mark(t) \/ UnindexPrincipal(t)
           \/ UnindexScope(t) \/ Unbind(t)
    BY <1>4, IndexPrincipalMidway, IndexScopeMidway, MarkMidway, UnindexPrincipalMidway,
       UnindexScopeMidway, UnbindMidway
<1>5. CASE Configure(t) \/ \E pid \in PendingIds : ApproveMiss(t, pid)
    BY <1>5 DEF Configure, ApproveMiss
<1>6. CASE \/ Decide(t)
           \/ \E pid \in PendingIds : Hold(t, pid)
           \/ \E id \in MemoryIds : InsertEntry(t, id)
    BY <1>6, DecideMidway, HoldMidway, InsertEntryMidway
<1> QED
    BY <1>2, <1>3, <1>4, <1>5, <1>6 DEF ThreadNext

\* A step after which no call is under way.
LEMMA CallEnds ==
    ASSUME ThreadsInv, NEW t \in Threads, Midway(frame[t]),
           frame[t].at = "idle" => frame[t] = Idle,
           ThreadNext(t), before' = GateState', frame'[t].at = "idle"
    PROVE  Atomic!GateNext
<1>1. CASE RenderRaises(t) \/ AuditReturn(t) \/ Bind(t)
    BY <1>1, RenderRaisesReturns, CommitReturns, ApproveReturns, ForgetReturns, BindReturns
<1>2. CASE Configure(t) \/ \E pid \in PendingIds : ApproveMiss(t, pid)
    <2>1. Midway(Idle)
        BY <1>2 DEF Configure, ApproveMiss
    <2> QED
        BY <1>2, <2>1, AtOnce
<1> QED
    BY <1>1, <1>2, Turn

\* Threads that wait for one another are threads.
LEMMA SoloIsThreads == SoloSpec => ThreadsSpec
<1>1. SoloInit => ThreadsInit
    BY DEF SoloInit
<1>2. [SoloNext]_<<threadVars, before>> => [ThreadsNext]_threadVars
    BY DEF SoloNext, ThreadsNext
<1> QED
    BY <1>1, <1>2, PTL DEF SoloSpec, ThreadsSpec

\* Any step of the one thread that is under way is a step of the atomic gate or none.
LEMMA SoloStep ==
    ASSUME ThreadsInv, GateTypeOK, SoloInv, NEW t \in Threads, OthersRest(t), ThreadNext(t),
           before' = IF Quiescent' THEN GateState' ELSE before
    PROVE  /\ SoloInv'
           /\ IF frame'[t].at = "idle" THEN Atomic!GateNext ELSE before' = before
<1>1. Midway(frame[t])
    BY DEF SoloInv
<1>2. /\ \A u \in Threads \ {t} : frame'[u] = frame[u] /\ frame[u].at = "idle"
      /\ \A u \in Threads : frame'[u].at = "idle" => frame'[u] = Idle
    BY Turn DEF SoloInv, OthersRest
<1>3. CASE frame'[t].at = "idle"
    <2>1. Quiescent'
        BY <1>2, <1>3 DEF Quiescent
    <2>2. before' = GateState'
        BY <2>1
    <2>3. \A u \in Threads : frame'[u] = Idle
        BY <1>2, <2>1 DEF Quiescent
    <2>4. SoloInv'
        BY <2>2, <2>3, AtRestAgain DEF SoloInv
    <2> QED
        BY <1>1, <1>3, <2>2, <2>4, CallEnds DEF SoloInv
<1>4. CASE frame'[t].at # "idle"
    <2>1. ~Quiescent'
        BY <1>4 DEF Quiescent
    <2>2. before' = before
        BY <2>1
    <2>3. Midway(frame[t])'
        BY <1>1, <1>4, <2>2, CallGoesOn DEF SoloInv
    <2>4. \A u \in Threads : OthersRest(u)' => u = t
        BY <1>4 DEF OthersRest
    <2>5. SoloInv'
        BY <1>2, <2>3, <2>4 DEF SoloInv
    <2> QED
        BY <1>4, <2>2, <2>5
<1> QED
    BY <1>3, <1>4

\* A call under way has changed exactly what its frame says it has.
THEOREM SoloInvariant == SoloSpec => []SoloInv
<1>1. SoloInit => SoloInv
    <2> SUFFICES ASSUME SoloInit PROVE SoloInv
        OBVIOUS
    <2>1. \A t \in Threads : frame[t] = Idle
        BY DEF SoloInit, ThreadsInit
    <2>2. Midway(Idle)
        BY MidwayAtRest DEF SoloInit, GateState
    <2> QED
        BY <2>1, <2>2 DEF SoloInv
<1>2. ThreadsInv /\ LedgerInv /\ SoloInv /\ [SoloNext]_<<threadVars, before>> => SoloInv'
    <2> SUFFICES ASSUME ThreadsInv, LedgerInv, SoloInv, [SoloNext]_<<threadVars, before>>
                 PROVE  SoloInv'
        OBVIOUS
    <2>1. CASE SoloNext
        BY <2>1, SoloStep DEF SoloNext, OthersRest, LedgerInv
    <2>2. CASE UNCHANGED <<threadVars, before>>
        BY <2>2
        DEF SoloInv, OthersRest, threadVars, gateVars, storeVars, inboxVars, auditVars, Midway,
            StoreMidway, InboxMidway, RestMidway, TaskMidway, CommitMidway, InsertMidway, ForgetMidway,
            Outcome, Admissible
    <2> QED
        BY <2>1, <2>2
<1> QED
    BY <1>1, <1>2, SoloIsThreads, ThreadsInvariant, LedgerInvariant, PTL DEF SoloSpec

\* The statements of commit, approve, forget and bind_embedding (gate.py), run
\* one call after another, are the calls of MemoryGate.
THEOREM SoloImplementsGate == SoloSpec => ImplementsGate
<1>1. SoloInit => Atomic!GateInit
    BY DEF SoloInit, GateState, ThreadsInit, GateInit, StoreInit, GateMode,
           Atomic!GateInit, Atomic!StoreInit, Atomic!GateMode
<1>2. /\ ThreadsInv /\ LedgerInv /\ SoloInv
      /\ [SoloNext]_<<threadVars, before>>
      => [Atomic!GateNext]_(Atomic!gateVars)
    <2> SUFFICES ASSUME ThreadsInv, LedgerInv, SoloInv, [SoloNext]_<<threadVars, before>>
                 PROVE  Atomic!GateNext \/ UNCHANGED Atomic!gateVars
        OBVIOUS
    <2>1. before' = before => UNCHANGED Atomic!gateVars
        BY DEF Atomic!gateVars, Atomic!storeVars, Atomic!inboxVars, Atomic!auditVars
    <2>2. CASE SoloNext
        BY <2>1, <2>2, SoloStep DEF SoloNext, OthersRest, LedgerInv
    <2>3. CASE UNCHANGED <<threadVars, before>>
        BY <2>1, <2>3
    <2> QED
        BY <2>2, <2>3
<1> QED
    BY <1>1, <1>2, SoloIsThreads, ThreadsInvariant, LedgerInvariant, SoloInvariant, PTL
    DEF SoloSpec, ImplementsGate, Atomic!GateSpec

\* _audit_write's fallback to _latest names no other call's trace, as long as
\* no other call comes in between.
THEOREM EarlyRefusals == SoloSpec => EarlyRefusalsNameNoTrace
<1>1. /\ ThreadsInv /\ LedgerInv /\ SoloInv
      /\ [SoloNext]_<<threadVars, before>>
      => [\A t \in Threads :
              frame[t].at = "audit" /\ frame[t].call # None /\ frame[t].candidate = None
              /\ Len(auditLog') > Len(auditLog)
                  => auditLog'[Len(auditLog')].trace_id = None]_threadVars
    <2> SUFFICES ASSUME ThreadsInv, LedgerInv, SoloInv, SoloNext, NEW t \in Threads,
                        frame[t].at = "audit", frame[t].call # None, frame[t].candidate = None,
                        Len(auditLog') > Len(auditLog)
                 PROVE  auditLog'[Len(auditLog')].trace_id = None
        BY DEF threadVars
    <2>1. PICK u \in Threads : OthersRest(u) /\ ThreadNext(u)
        BY DEF SoloNext, OthersRest
    <2>2. u = t /\ Midway(frame[t])
        BY <2>1 DEF OthersRest, SoloInv
    <2>3. auditLog \in Seq(AuditRecord)
        BY DEF LedgerInv, GateTypeOK
    <2>4. AuditReturn(t)
        BY <2>1, <2>2
        DEF ThreadNext, CommitRun, RenderRaises, Decide, Configure, Hold, ApprovePop, ApproveMiss,
            InsertEntry, IndexPrincipal, IndexScope, ForgetCheck, Mark, UnindexPrincipal,
            UnindexScope, Unbind, BindCheck, Bind, Begin, Goto, Return
    <2>5. auditLog' = Append(auditLog, FrameRecord(frame[t]))
        BY <2>3, <2>4 DEF AuditReturn, Audit
    <2>6. latest.candidate = None
        BY <2>2 DEF Midway, TaskMidway, RestMidway, CommitMidway
    <2>7. FrameRecord(frame[t]).trace_id = None
        BY <2>6 DEF FrameRecord, CommitRecord, WriteRecord
    <2>8. auditLog'[Len(auditLog')] = FrameRecord(frame[t])
        BY <2>3, <2>5
    <2> QED
        BY <2>7, <2>8
<1> QED
    BY <1>1, SoloIsThreads, ThreadsInvariant, LedgerInvariant, SoloInvariant, PTL
    DEF SoloSpec, EarlyRefusalsNameNoTrace
=============================================================================
