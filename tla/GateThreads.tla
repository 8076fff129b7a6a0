---------------------------- MODULE GateThreads ----------------------------
(***************************************************************************)
(* gate.py and store.py called by several threads: each action is one      *)
(* access to state that the threads share, and neither module takes a      *)
(* lock.  An on_render callback that calls the gate again is a special     *)
(* case: a thread whose call starts and ends while another one renders.    *)
(*                                                                         *)
(* What one dict or set operation does is atomic, as it is in CPython.     *)
(***************************************************************************)
EXTENDS MemoryGate

CONSTANTS
    Threads,     \* callers of commit, approve, forget and bind_embedding
    Readers,     \* callers of retrieve, once each
    ReadFilters  \* what they ask for; None asks for everything

ASSUME ThreadsAssumption ==
    /\ None \notin Submissions
    /\ ReadFilters \subseteq Optional(RetrievalFilter)

VARIABLES
    frame,  \* each thread's place in its call and its local variables
    read    \* each reader's

threadVars == <<gateVars, frame, read>>

Idle == [at |-> "idle", call |-> None, candidate |-> None, pid |-> None, row |-> None,
         id |-> None, who |-> None, vector |-> None, ok |-> FALSE]

Unread == [at |-> "idle", filters |-> None, source |-> {}, seen |-> {}, rows |-> {},
           gone |-> {}, settled |-> {}]

Labels == {"idle", "render", "hold", "insert", "index", "scope", "mark", "unindex",
           "unscope", "unbind", "bind", "audit"}

Frame ==
    [at        : Labels,
     call      : Optional(Submissions),
     candidate : Optional(CandidateExperience),
     pid       : Optional(PendingIds),
     row       : Optional(MemoryEntry),
     id        : Optional(MemoryIds),
     who       : Optional(Text),
     vector    : Optional(VectorIds),
     ok        : BOOLEAN]

ReaderState ==
    [at      : {"idle", "meet", "scan", "returned", "raised"},
     filters : Optional(RetrievalFilter),
     source  : SUBSET MemoryIds,  \* what was copied, or iterated, at the start
     seen    : SUBSET MemoryIds,  \* what has been visited
     rows    : SUBSET MemoryIds,  \* what was found not to be deleted
     gone    : SUBSET MemoryIds,  \* history: deleted before the read began
     settled : SUBSET MemoryIds]  \* history: wholly inserted before it began

ThreadsTypeOK ==
    /\ GateTypeOK
    /\ frame \in [Threads -> Frame]
    /\ read \in [Readers -> ReaderState]

ThreadsInit ==
    /\ GateInit
    /\ frame = [t \in Threads |-> Idle]
    /\ read = [r \in Readers |-> Unread]

Quiescent == \A t \in Threads : frame[t].at = "idle"

\* Bound: calls that will be counted when they return.
Available == calls + Cardinality({t \in Threads : frame[t].at # "idle"}) < MaxCalls

\* Bound: the writes under way will all find a fresh id.
Fits(ids) == Cardinality({t \in Threads : frame[t].at \in {"render", "hold", "insert"}}) < Cardinality(ids)
RowsFit == Fits(MemoryIds \ minted)
ItemsFit == Fits({pid \in PendingIds : held[pid] = None})

Begin(t, next) ==
    /\ frame[t].at = "idle" /\ Available
    /\ frame' = [frame EXCEPT ![t] = next]

\* From one label to the next.
Goto(t, here, there) ==
    /\ frame[t].at = here
    /\ frame' = [frame EXCEPT ![t].at = there]

Return(t, here) ==
    /\ frame[t].at = here
    /\ frame' = [frame EXCEPT ![t] = Idle]

\* A step inside the store.
StoreStep == UNCHANGED <<minted, inboxVars, auditVars, mode, attached, latest, read>>

-----------------------------------------------------------------------------
(***************************************************************************)
(* commit()                                                                *)
(***************************************************************************)
\* Mutant: only a run that succeeds becomes the latest.
CommitRunOkOnly(t, call) ==
    /\ RowsFit /\ ItemsFit
    /\ Begin(t, [Idle EXCEPT !.at = "render", !.call = call])
    /\ latest' = IF Outcome[call].ok \/ latest = None THEN Outcome[call] ELSE latest
    /\ UNCHANGED <<storeVars, inboxVars, auditVars, mode, attached, read>>

\* The pipeline has run; its result becomes the latest one and is rendered.
CommitRun(t, call) ==
    /\ RowsFit /\ ItemsFit
    /\ Begin(t, [Idle EXCEPT !.at = "render", !.call = call])
    /\ latest' = Outcome[call]
    /\ UNCHANGED <<storeVars, inboxVars, auditVars, mode, attached, read>>

RenderRaises(t) ==
    /\ Renders
    /\ Return(t, "render")
    /\ UNCHANGED <<gateVars, read>>

\* Verdict, validation and, last, a look at the mode.
Decide(t) ==
    LET call == frame[t].call
    IN  /\ frame[t].at = "render"
        /\ frame' = [frame EXCEPT
               ![t].candidate = Outcome[call].candidate,
               ![t].at = IF ~Admissible(call) THEN "audit"
                         ELSE IF mode = "manual_review" THEN "hold" ELSE "insert"]
        /\ UNCHANGED <<gateVars, read>>

Hold(t, pid) ==
    /\ frame[t].at = "hold" /\ held[pid] = None
    /\ frame' = [frame EXCEPT ![t].at = "audit", ![t].pid = pid]
    /\ pending' = [pending EXCEPT ![pid] = frame[t].candidate]
    /\ held' = [held EXCEPT ![pid] = frame[t].candidate]
    /\ UNCHANGED <<storeVars, promoted, auditVars, mode, attached, latest, read>>

-----------------------------------------------------------------------------
(***************************************************************************)
(* approve(), and the insert it shares with commit().                      *)
(***************************************************************************)
\* Mutant: the item is looked up here and left in the inbox.
ApprovePopPeek(t, pid) ==
    /\ pending[pid] # None /\ RowsFit
    /\ Begin(t, [Idle EXCEPT !.at = "insert", !.pid = pid, !.candidate = pending[pid]])
    /\ UNCHANGED <<gateVars, read>>

\* dict.pop takes the item out in one step.
ApprovePop(t, pid) ==
    /\ pending[pid] # None /\ RowsFit
    /\ Begin(t, [Idle EXCEPT !.at = "insert", !.pid = pid, !.candidate = pending[pid]])
    /\ pending' = [pending EXCEPT ![pid] = None]
    /\ UNCHANGED <<storeVars, held, promoted, auditVars, mode, attached, latest, read>>

ApproveMiss(t, pid) ==
    /\ frame[t].at = "idle" /\ Available
    /\ ApproveUnknown(pid)
    /\ UNCHANGED <<frame, read>>

\* The row that from_candidate makes goes into the dict before any index.
InsertEntry(t, id) ==
    /\ frame[t].at = "insert" /\ id \notin minted
    /\ frame' = [frame EXCEPT ![t].at = "index", ![t].id = id,
                              ![t].row = FromCandidate(frame[t].candidate)]
    /\ minted' = minted \cup {id}
    /\ entries' = [entries EXCEPT ![id] = FromCandidate(frame[t].candidate)]
    /\ promoted' = IF frame[t].pid = None THEN promoted
                   ELSE [promoted EXCEPT ![frame[t].pid] = id]
    /\ UNCHANGED <<byPrincipal, byScope, tombstones, embeddings, pending, held,
                   auditVars, mode, attached, latest, read>>

IndexPrincipal(t) ==
    /\ Goto(t, "index", "scope")
    /\ byPrincipal' = [byPrincipal EXCEPT ![frame[t].row.principal] = @ \cup {frame[t].id}]
    /\ UNCHANGED <<entries, byScope, tombstones, embeddings>>
    /\ StoreStep

\* Mutant: the scope index is not maintained.
IndexScopeSkipped(t) ==
    /\ Goto(t, "scope", "audit")
    /\ UNCHANGED <<gateVars, read>>

IndexScope(t) ==
    /\ Goto(t, "scope", "audit")
    /\ byScope' = [byScope EXCEPT ![frame[t].row.scope] = @ \cup {frame[t].id}]
    /\ UNCHANGED <<entries, byPrincipal, tombstones, embeddings>>
    /\ StoreStep

-----------------------------------------------------------------------------
(***************************************************************************)
(* forget() and bind_embedding(): a check, then what it was a check for.   *)
(***************************************************************************)
\* Mutant: the owner is not compared.
ForgetCheckAnyone(t, id, who) ==
    /\ Begin(t, [Idle EXCEPT !.at = IF Live(id) THEN "mark" ELSE "audit",
                             !.id = id, !.row = entries[id], !.who = who, !.ok = Live(id)])
    /\ UNCHANGED <<gateVars, read>>

ForgetCheck(t, id, who) ==
    /\ Begin(t, [Idle EXCEPT !.at = IF MayTombstone(id, who) THEN "mark" ELSE "audit",
                             !.id = id, !.row = entries[id], !.who = who, !.ok = MayTombstone(id, who)])
    /\ UNCHANGED <<gateVars, read>>

Mark(t) ==
    /\ Goto(t, "mark", "unindex")
    /\ tombstones' = [tombstones EXCEPT ![frame[t].id] = frame[t].who]
    /\ UNCHANGED <<entries, byPrincipal, byScope, embeddings>>
    /\ StoreStep

UnindexPrincipal(t) ==
    /\ Goto(t, "unindex", "unscope")
    /\ byPrincipal' = [byPrincipal EXCEPT ![frame[t].row.principal] = @ \ {frame[t].id}]
    /\ UNCHANGED <<entries, byScope, tombstones, embeddings>>
    /\ StoreStep

UnindexScope(t) ==
    /\ Goto(t, "unscope", "unbind")
    /\ byScope' = [byScope EXCEPT ![frame[t].row.scope] = @ \ {frame[t].id}]
    /\ UNCHANGED <<entries, byPrincipal, tombstones, embeddings>>
    /\ StoreStep

\* Mutant: the embedding index is not maintained.
UnbindSkipped(t) ==
    /\ Goto(t, "unbind", "audit")
    /\ UNCHANGED <<gateVars, read>>

Unbind(t) ==
    /\ Goto(t, "unbind", "audit")
    /\ embeddings' = [embeddings EXCEPT ![frame[t].id] = None]
    /\ UNCHANGED <<entries, byPrincipal, byScope, tombstones>>
    /\ StoreStep

\* bind_embedding of a row that is not there returns False at once.
BindCheck(t, id, vector) ==
    /\ Live(id)
    /\ Begin(t, [Idle EXCEPT !.at = "bind", !.id = id, !.vector = vector])
    /\ UNCHANGED <<gateVars, read>>

Bind(t) ==
    /\ Return(t, "bind")
    /\ embeddings' = [embeddings EXCEPT ![frame[t].id] = frame[t].vector]
    /\ UNCHANGED <<entries, byPrincipal, byScope, tombstones>>
    /\ StoreStep

-----------------------------------------------------------------------------
(***************************************************************************)
(* The audit row, by which every call but bind_embedding ends.             *)
(***************************************************************************)
Status(f) ==
    IF f.id # None THEN "committed" ELSE IF f.pid # None THEN "pending" ELSE "rejected"

\* A commit without a candidate of its own names the latest one's trace, which
\* by now may be another call's.
CommitRecord(f) ==
    WriteRecord(f.call.context.principal, Status(f), f.id, f.pid,
                IF f.candidate # None THEN f.candidate ELSE latest.candidate,
                VerifierAudits(Outcome[f.call]))

FrameRecord(f) ==
    IF f.call # None THEN CommitRecord(f)
    ELSE IF f.who # None THEN DeletionRecord(f.who, f.id, f.ok)
    ELSE WriteRecord(f.candidate.principal, "committed", f.id, None, f.candidate, <<>>)

\* Mutant: a row that was inserted meanwhile by another thread hides this one.
AuditReturnDropped(t) ==
    /\ Return(t, "audit")
    /\ IF \E u \in Threads : u # t /\ frame[u].at = "audit"
       THEN UNCHANGED auditVars ELSE Audit(FrameRecord(frame[t]))
    /\ UNCHANGED <<storeVars, inboxVars, mode, attached, latest, read>>

\* The look at _latest that CommitRecord may need and the append are one step
\* here: only which other call's trace a refused commit's row names could differ.
AuditReturn(t) ==
    /\ Return(t, "audit")
    /\ Audit(FrameRecord(frame[t]))
    /\ UNCHANGED <<storeVars, inboxVars, mode, attached, latest, read>>

\* A caller sets one of the gate's two public attributes.
Configure(t) ==
    /\ frame[t].at = "idle"
    /\ (\E m \in GateMode : SetMode(m)) \/ AttachLog
    /\ UNCHANGED <<frame, read>>

-----------------------------------------------------------------------------
(***************************************************************************)
(* retrieve(): list() visits ids one after another.                        *)
(***************************************************************************)
AsksBoth(filters) == filters # None /\ filters.principal # None /\ filters.scope # None

\* Mutant: without the set() around the principal's index only & makes a set of its own.
CopiedNever(filters) == AsksBoth(filters)

\* list() copies the index of a principal; it iterates the index of a scope,
\* and the dict of all rows, while they may change.
Copied(filters) == filters # None /\ filters.principal # None
ByScopeAlone(filters) == filters # None /\ filters.principal = None /\ filters.scope # None

\* What list() looks up first.
Bucket(filters) ==
    IF filters = None \/ (filters.principal = None /\ filters.scope = None)
    THEN {id \in MemoryIds : Known(id)}
    ELSE IF filters.principal # None THEN byPrincipal[filters.principal] ELSE byScope[filters.scope]

BeingInserted(id) == \E t \in Threads : frame[t].id = id /\ frame[t].at \in {"index", "scope"}

ReadBegin(r, filters) ==
    /\ read[r].at = "idle"
    /\ read' = [read EXCEPT ![r] =
           [at |-> IF AsksBoth(filters) THEN "meet" ELSE "scan",
            filters |-> filters, source |-> Bucket(filters), seen |-> {}, rows |-> {},
            gone |-> {id \in MemoryIds : IsTombstoned(id)},
            settled |-> {id \in MemoryIds : Live(id) /\ ~BeingInserted(id)}]]
    /\ UNCHANGED <<gateVars, frame>>

\* candidate_ids & scope_ids: the copy is met with the scope's index of now.
ReadMeet(r) ==
    /\ read[r].at = "meet"
    /\ read' = [read EXCEPT ![r].at = "scan", ![r].source = @ \cap byScope[read[r].filters.scope]]
    /\ UNCHANGED <<gateVars, frame>>

\* What a live structure holds by now; it must not have changed in size.
SameSize(r) == Copied(read[r].filters) \/
    Cardinality(Bucket(read[r].filters)) = Cardinality(read[r].source)

Remaining(r) ==
    (IF Copied(read[r].filters) THEN read[r].source ELSE Bucket(read[r].filters)) \ read[r].seen

\* Mutant: the tombstones are left to the indexes.
ReadVisitUnchecked(r, id) ==
    /\ read[r].at = "scan" /\ SameSize(r) /\ id \in Remaining(r)
    /\ read' = [read EXCEPT ![r].seen = @ \cup {id}, ![r].rows = @ \cup {id}]
    /\ UNCHANGED <<gateVars, frame>>

ReadVisit(r, id) ==
    /\ read[r].at = "scan" /\ SameSize(r) /\ id \in Remaining(r)
    /\ read' = [read EXCEPT ![r].seen = @ \cup {id},
                            ![r].rows = IF IsTombstoned(id) THEN @ ELSE @ \cup {id}]
    /\ UNCHANGED <<gateVars, frame>>

\* The ACL that follows is List's, of rows that never change.
\* Of a live set that lost one id and gained another the iterator may miss any.
ReadReturn(r) ==
    /\ read[r].at = "scan" /\ SameSize(r)
    /\ Remaining(r) = {} \/
           (~Copied(read[r].filters) /\ Bucket(read[r].filters) # read[r].source)
    /\ read' = [read EXCEPT ![r].at = "returned",
                            ![r].rows = IF read[r].filters = None THEN @
                                        ELSE {id \in @ : HasClassification(id, read[r].filters)}]
    /\ UNCHANGED <<gateVars, frame>>

\* Mutant: the error is caught, and what was found so far returned.
ReadRaisesNot(r) ==
    /\ read[r].at = "scan" /\ ~SameSize(r)
    /\ read' = [read EXCEPT ![r].at = "returned"]
    /\ UNCHANGED <<gateVars, frame>>

\* RuntimeError: changed size during iteration.
ReadRaises(r) ==
    /\ read[r].at = "scan" /\ ~SameSize(r)
    /\ read' = [read EXCEPT ![r].at = "raised"]
    /\ UNCHANGED <<gateVars, frame>>

ThreadNext(t) ==
    \/ \E call \in Submissions : CommitRun(t, call)
    \/ RenderRaises(t) \/ Decide(t) \/ AuditReturn(t) \/ Configure(t)
    \/ \E pid \in PendingIds : Hold(t, pid) \/ ApprovePop(t, pid) \/ ApproveMiss(t, pid)
    \/ \E id \in MemoryIds : InsertEntry(t, id)
    \/ IndexPrincipal(t) \/ IndexScope(t)
    \/ \E id \in MemoryIds, who \in Callers : ForgetCheck(t, id, who)
    \/ Mark(t) \/ UnindexPrincipal(t) \/ UnindexScope(t) \/ Unbind(t)
    \/ \E id \in MemoryIds, vector \in VectorIds : BindCheck(t, id, vector)
    \/ Bind(t)

ReadNext(r) ==
    \/ \E filters \in ReadFilters : ReadBegin(r, filters)
    \/ \E id \in MemoryIds : ReadVisit(r, id)
    \/ ReadMeet(r) \/ ReadReturn(r) \/ ReadRaises(r)

ThreadsNext == (\E t \in Threads : ThreadNext(t)) \/ (\E r \in Readers : ReadNext(r))

ThreadsSpec == ThreadsInit /\ [][ThreadsNext]_threadVars

-----------------------------------------------------------------------------
(***************************************************************************)
(* What remains of the promises of MemoryGate, where calls take turns.     *)
(***************************************************************************)
\* The thread has taken the item out of the inbox and not yet stored it.
Carries(t, pid) == frame[t].call = None /\ frame[t].pid = pid /\ frame[t].at = "insert"

\* Where the candidate held under pid is.
OneWayOutOf(pid) ==
    IF held[pid] = None
    THEN pending[pid] = None /\ promoted[pid] = None /\ \A t \in Threads : ~Carries(t, pid)
    ELSE \/ /\ pending[pid] = held[pid] /\ promoted[pid] = None
            /\ \A t \in Threads : ~Carries(t, pid)
         \/ /\ pending[pid] = None /\ promoted[pid] = None
            /\ \E t \in Threads : /\ Carries(t, pid) /\ frame[t].candidate = held[pid]
                                  /\ \A u \in Threads : Carries(u, pid) => u = t
         \/ /\ pending[pid] = None /\ promoted[pid] # None
            /\ entries[promoted[pid]] = FromCandidate(held[pid])
            /\ \A t \in Threads : ~Carries(t, pid)

\* A held candidate is at one place: in the inbox, in the hands of one
\* approving thread, or in the row that was made of it.  No two approvals get
\* hold of it, and no two rows are made of it.
OneWayOut == \A pid \in PendingIds : OneWayOutOf(pid)

\* Whatever the interleaving, the log accounts for each row exactly once as
\* soon as no call is under way; while one is, a row may be ahead of the log
\* by that call, and the log is never ahead of the rows.
WritesReconcileAtRest ==
    /\ Quiescent => WritesReconcile
    /\ \A i, j \in DOMAIN auditLog : auditLog[i].status = "committed" =>
           /\ Known(auditLog[i].memory_id)
           /\ auditLog[j].status = "committed" /\ auditLog[j].memory_id = auditLog[i].memory_id
                  => i = j

\* Of two threads that delete one row both may succeed, and leave a success
\* row each; but each such row is for a row that is deleted, is its owner's,
\* and at rest no deletion is without one.
DeletionsAccounted ==
    /\ \A i \in DOMAIN auditLog : auditLog[i].kind = "deletion" /\ auditLog[i].success =>
           /\ IsTombstoned(auditLog[i].memory_id)
           /\ auditLog[i].actor = entries[auditLog[i].memory_id].principal
    /\ Quiescent => \A id \in MemoryIds : IsTombstoned(id) /\ id \notin unlogged.deleted =>
           \E i \in DOMAIN auditLog : IsDeletionRow(auditLog[i], id)

\* A query by tag never looks up an id that the dict does not hold
\* (self._entries[mid], store.py:83), not even in the middle of an insert.
IndexedAreKnown ==
    \A id \in MemoryIds :
        (\E tag \in Text : id \in byPrincipal[tag] \cup byScope[tag]) => Known(id)

\* A live row that nobody is about to insert or delete is found under its own
\* tags and no others.  (An index may keep a deleted row for good, when it was
\* deleted before its insert had indexed it.)
LiveRowsIndexed ==
    \A id \in MemoryIds : Live(id) /\ ~BeingInserted(id) =>
        \A tag \in Text :
            /\ id \in byPrincipal[tag] <=> entries[id].principal = tag
            /\ id \in byScope[tag] <=> entries[id].scope = tag

\* A read returns rows that match its tags and were not yet deleted when it
\* began, although tombstones and indexes are updated one by one.
ReadsAreSound ==
    \A r \in Readers : read[r].at = "returned" =>
        \A id \in read[r].rows :
            /\ Known(id) /\ id \notin read[r].gone
            /\ read[r].filters # None => MatchesTags(entries[id], read[r].filters)

\* A read that is not by scope alone misses no row that was there throughout.
ReadsAreComplete ==
    \A r \in Readers :
        read[r].at = "returned" /\ ~ByScopeAlone(read[r].filters) =>
            \A id \in read[r].settled :
                /\ Live(id)
                /\ read[r].filters # None => MatchesTags(entries[id], read[r].filters)
                => id \in read[r].rows

\* A principal's read never fails for what others do meanwhile.
OwnReadsSurviveWrites ==
    \A r \in Readers : read[r].at = "raised" => read[r].filters = None \/ read[r].filters.principal = None

\* A commit that was refused before it had a candidate is logged without a
\* trace: the fallback to _latest (gate.py:262) finds the call's own result
\* again, as long as no other call comes in between.
EarlyRefusalsNameNoTrace ==
    [][\A t \in Threads :
          frame[t].at = "audit" /\ frame[t].call # None /\ frame[t].candidate = None
          /\ Len(auditLog') > Len(auditLog)
              => auditLog'[Len(auditLog')].trace_id = None]_threadVars
=============================================================================
