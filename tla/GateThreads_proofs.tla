------------------------- MODULE GateThreads_proofs -------------------------
(***************************************************************************)
(* What remains of the gate's promises between threads that take no lock,  *)
(* for any number of threads, readers, calls and ids.                      *)
(***************************************************************************)
EXTENDS ThreadedStore, MemoryGate_proofs

\* The candidate comes from a submission that passed every check.
Admitted(candidate) ==
    \E call \in Submissions : Admissible(call) /\ candidate = Outcome[call].candidate

\* What a thread that is about to do something knows.
FrameOK(f) ==
    /\ f.at = "render" => f.call # None /\ f.pid = None
    /\ f.at \in {"hold", "insert"} => Admitted(f.candidate)
    /\ f.at = "hold" => f.call # None
    /\ f.at = "insert" => (f.call = None <=> f.pid # None)
    /\ f.at \in {"index", "scope", "mark", "unindex", "unscope"} =>
           f.id # None /\ Known(f.id) /\ f.row = entries[f.id]
    /\ f.at = "mark" => f.who # None
    /\ f.at \in {"unindex", "unscope"} => IsTombstoned(f.id)

\* A row is indexed under its own tags only; a live row under its principal
\* once its insert has got so far, and then under its scope.
RowIndexed(id) ==
    /\ \A tag \in Text :
           /\ id \in byPrincipal[tag] => Known(id) /\ entries[id].principal = tag
           /\ id \in byScope[tag] => Known(id) /\ entries[id].scope = tag
    /\ Live(id) /\ (\A t \in Threads : frame[t].id = id => frame[t].at # "index") =>
           id \in byPrincipal[entries[id].principal]
    /\ Live(id) /\ ~BeingInserted(id) => id \in byScope[entries[id].scope]

IndexesOK == \A id \in MemoryIds : RowIndexed(id)

HeldOK == \A pid \in PendingIds :
              /\ pending[pid] # None => Admitted(pending[pid])
              /\ promoted[pid] # None => promoted[pid] \in MemoryIds /\ Known(promoted[pid])

\* What the threads share, apart from the log.
SharedTypeOK ==
    /\ StoreTypeOK
    /\ pending \in [PendingIds -> Optional(CandidateExperience)]
    /\ held \in [PendingIds -> Optional(CandidateExperience)]
    /\ promoted \in [PendingIds -> Optional(MemoryIds)]

ThreadsInv ==
    /\ SharedTypeOK
    /\ frame \in [Threads -> Frame]
    /\ \A t \in Threads : FrameOK(frame[t])
    /\ OnlyMintedKnown
    /\ IndexesOK
    /\ HeldOK
    /\ OneWayOut
    /\ OnlyVerifiedRows

\* A candidate is where it was when the inbox, the row it may have become and
\* whoever may carry it have not moved.
LEMMA StaysOut ==
    ASSUME NEW pid \in PendingIds, OneWayOutOf(pid),
           held'[pid] = held[pid], pending'[pid] = pending[pid], promoted'[pid] = promoted[pid],
           promoted[pid] # None => entries'[promoted[pid]] = entries[promoted[pid]],
           \A u \in Threads : Carries(u, pid)' <=> Carries(u, pid),
           \A u \in Threads : Carries(u, pid) => frame'[u] = frame[u]
    PROVE  OneWayOutOf(pid)'
<1>1. CASE \E t \in Threads : Carries(t, pid)
    <2>1. /\ held[pid] # None /\ pending[pid] = None /\ promoted[pid] = None
          /\ \E t \in Threads : /\ Carries(t, pid) /\ frame[t].candidate = held[pid]
                                /\ \A u \in Threads : Carries(u, pid) => u = t
        BY <1>1 DEF OneWayOutOf
    <2>2. PICK t \in Threads : /\ Carries(t, pid) /\ frame[t].candidate = held[pid]
                               /\ \A u \in Threads : Carries(u, pid) => u = t
        BY <2>1
    <2>3. /\ Carries(t, pid)' /\ frame'[t].candidate = held'[pid]
          /\ \A u \in Threads : Carries(u, pid)' => u = t
        BY <2>2
    <2> QED
        BY <2>1, <2>3 DEF OneWayOutOf
<1>2. CASE \A t \in Threads : ~Carries(t, pid)
    <2>1. \A t \in Threads : ~Carries(t, pid)'
        BY <1>2
    <2> QED
        BY <1>2, <2>1 DEF OneWayOutOf
<1> QED
    BY <1>1, <1>2

\* A thread moves on, and neither rows nor inbox change.
LEMMA QuietStep ==
    ASSUME ThreadsInv, NEW t \in Threads, NEW f \in Frame,
           frame' = [frame EXCEPT ![t] = f],
           FrameOK(f)', \A pid \in PendingIds : ~Carries(t, pid) /\ ~Carries(t, pid)',
           UNCHANGED <<entries, minted, inboxVars>>,
           \A id \in MemoryIds : IsTombstoned(id) => IsTombstoned(id)',
           StoreTypeOK', IndexesOK'
    PROVE  ThreadsInv'
<1>1. /\ frame' \in [Threads -> Frame] /\ frame'[t] = f
      /\ \A u \in Threads \ {t} : frame'[u] = frame[u]
    BY DEF ThreadsInv
<1>2. entries' = entries /\ minted' = minted /\ pending' = pending /\ held' = held
      /\ promoted' = promoted
    BY DEF inboxVars
<1>3. SharedTypeOK'
    BY <1>2 DEF ThreadsInv, SharedTypeOK
<1>4. ASSUME NEW u \in Threads PROVE FrameOK(frame[u])'
    <2>1. CASE u = t
        BY <1>1, <2>1 DEF FrameOK
    <2>2. CASE u # t
        <3>1. frame[u] \in Frame /\ FrameOK(frame[u]) /\ frame'[u] = frame[u]
            BY <1>1, <2>2 DEF ThreadsInv
        <3>2. frame[u].id # None => frame[u].id \in MemoryIds
            BY <3>1 DEF Frame, Optional
        <3> QED
            BY <1>2, <3>1, <3>2 DEF FrameOK, Known
    <2> QED
        BY <2>1, <2>2
<1>5. OnlyMintedKnown' /\ HeldOK' /\ OnlyVerifiedRows'
    BY <1>2 DEF ThreadsInv, OnlyMintedKnown, HeldOK, OnlyVerifiedRows, Known
<1>6. ASSUME NEW u \in Threads, NEW pid \in PendingIds
      PROVE  Carries(u, pid)' <=> Carries(u, pid)
    BY <1>1 DEF Carries
<1>7. ASSUME NEW u \in Threads, NEW pid \in PendingIds, Carries(u, pid)
      PROVE  frame'[u] = frame[u]
    BY <1>1, <1>7
<1>8. OneWayOut'
    BY <1>2, <1>6, <1>7 DEF ThreadsInv, OneWayOut, OneWayOutOf
<1> QED
    BY <1>1, <1>3, <1>4, <1>5, <1>8 DEF ThreadsInv

\* The indexes are as good as before when neither they nor the threads that are
\* writing to them have moved.
LEMMA IndexesKept ==
    ASSUME ThreadsInv, NEW t \in Threads, NEW f \in Frame,
           frame' = [frame EXCEPT ![t] = f], frame[t].at \notin {"index", "scope"},
           UNCHANGED <<entries, byPrincipal, byScope>>,
           \A id \in MemoryIds : IsTombstoned(id) => IsTombstoned(id)'
    PROVE  IndexesOK'
<1>1. /\ frame \in [Threads -> Frame]
      /\ \A u \in Threads : frame[u].at \in {"index", "scope"} => frame'[u] = frame[u]
    BY DEF ThreadsInv
<1>2. ASSUME NEW id \in MemoryIds PROVE RowIndexed(id)'
    <2>1. RowIndexed(id)
        BY DEF ThreadsInv, IndexesOK
    <2>2. Live(id)' => Live(id)
        BY DEF Live, Known
    <2>3. (\A u \in Threads : frame[u].id = id => frame[u].at # "index")' =>
              \A u \in Threads : frame[u].id = id => frame[u].at # "index"
        BY <1>1
    <2>4. ~BeingInserted(id)' => ~BeingInserted(id)
        BY <1>1 DEF BeingInserted
    <2> QED
        BY <2>1, <2>2, <2>3, <2>4 DEF RowIndexed, Known
<1> QED
    BY <1>2 DEF IndexesOK

\* A call begins or ends, or decides what to do, without touching the store.
LEMMA OutsideStep ==
    ASSUME ThreadsInv, NEW t \in Threads, NEW f \in Frame,
           frame' = [frame EXCEPT ![t] = f],
           frame[t].at \notin {"index", "scope", "insert"},
           FrameOK(f), f.at = "insert" => f.call # None,
           UNCHANGED <<storeVars, inboxVars>>
    PROVE  ThreadsInv'
<1>1. /\ entries' = entries /\ byPrincipal' = byPrincipal /\ byScope' = byScope
      /\ tombstones' = tombstones /\ embeddings' = embeddings /\ minted' = minted
    BY DEF storeVars
<1>2. IndexesOK' /\ \A id \in MemoryIds : IsTombstoned(id) => IsTombstoned(id)'
    BY <1>1, IndexesKept DEF IsTombstoned
<1>3. StoreTypeOK'
    BY <1>1 DEF ThreadsInv, SharedTypeOK, StoreTypeOK
<1>4. FrameOK(f)'
    BY <1>1 DEF FrameOK, Known, IsTombstoned
<1>5. \A pid \in PendingIds : ~Carries(t, pid) /\ ~Carries(t, pid)'
    BY DEF ThreadsInv, Carries
<1> QED
    BY <1>1, <1>2, <1>3, <1>4, <1>5, QuietStep

\* A step inside the store that rewrites an index, a tombstone or a vector.
LEMMA InsideStep ==
    ASSUME ThreadsInv, NEW t \in Threads, NEW here, NEW there \in Labels, Goto(t, here, there),
           NEW f \in Frame, f = [frame[t] EXCEPT !.at = there], FrameOK(f)',
           here # "insert", there # "insert",
           UNCHANGED <<entries, minted, inboxVars>>, StoreTypeOK', IndexesOK',
           \A id \in MemoryIds : IsTombstoned(id) => IsTombstoned(id)'
    PROVE  ThreadsInv'
<1>1. f.at = there
    BY DEF ThreadsInv, Frame
<1>2. frame' = [frame EXCEPT ![t] = f] /\ frame[t].at = here
    BY DEF Goto
<1>3. frame'[t] = f
    BY <1>2 DEF ThreadsInv
<1>4. \A pid \in PendingIds : ~Carries(t, pid) /\ ~Carries(t, pid)'
    BY <1>1, <1>2, <1>3 DEF Carries
<1> QED
    BY <1>2, <1>4, QuietStep

\* What a thread inside the store has in hand.
LEMMA Inside ==
    ASSUME ThreadsInv, NEW t \in Threads, NEW there \in Labels,
           frame[t].at \in {"index", "scope", "mark", "unindex", "unscope", "unbind"}
    PROVE  /\ frame[t] \in Frame /\ FrameOK(frame[t])
           /\ [frame[t] EXCEPT !.at = there] \in Frame
           /\ frame[t].id \in Optional(MemoryIds)
           /\ frame[t].at # "unbind" =>
                  /\ frame[t].id \in MemoryIds /\ frame[t].id # None /\ Known(frame[t].id)
                  /\ frame[t].row = entries[frame[t].id] /\ frame[t].row \in MemoryEntry
                  /\ frame[t].row.principal \in Text /\ frame[t].row.scope \in Text
<1>1. frame[t] \in Frame /\ FrameOK(frame[t])
    BY DEF ThreadsInv
<1>2. [frame[t] EXCEPT !.at = there] \in Frame
    BY <1>1 DEF Frame
<1>3. ASSUME frame[t].at # "unbind"
      PROVE  /\ frame[t].id \in MemoryIds /\ frame[t].id # None /\ Known(frame[t].id)
             /\ frame[t].row = entries[frame[t].id] /\ frame[t].row \in MemoryEntry
    BY <1>1, <1>3 DEF Frame, FrameOK, Optional, Known
<1>4. \A row \in MemoryEntry : row.principal \in Text /\ row.scope \in Text
    BY DEF MemoryEntry
<1> QED
    BY <1>1, <1>2, <1>3, <1>4 DEF Frame

-----------------------------------------------------------------------------
(***************************************************************************)
(* The steps of insert().                                                  *)
(***************************************************************************)
LEMMA IndexPrincipalInv ==
    ASSUME ThreadsInv, NEW t \in Threads, IndexPrincipal(t)
    PROVE  ThreadsInv'
<1> DEFINE id == frame[t].id
           tag == frame[t].row.principal
<1>1. /\ frame[t].at = "index" /\ "scope" \in Labels
      /\ byPrincipal' = [byPrincipal EXCEPT ![tag] = @ \cup {id}]
      /\ entries' = entries /\ byScope' = byScope /\ tombstones' = tombstones
      /\ embeddings' = embeddings /\ minted' = minted /\ UNCHANGED inboxVars
    BY DEF IndexPrincipal, Goto, StoreStep, Labels
<1>2. /\ id \in MemoryIds /\ id # None /\ Known(id) /\ frame[t].row = entries[id]
      /\ tag = entries[id].principal /\ tag \in Text
    BY <1>1, Inside
<1>0. PICK f \in Frame : f = [frame[t] EXCEPT !.at = "scope"]
    BY <1>1, Inside
<1>3. byPrincipal \in [Text -> SUBSET MemoryIds]
    BY DEF ThreadsInv, SharedTypeOK, StoreTypeOK
<1>4. byPrincipal' \in [Text -> SUBSET MemoryIds]
    BY <1>1, <1>2, <1>3
<1>5. StoreTypeOK'
    BY <1>1, <1>4 DEF ThreadsInv, SharedTypeOK, StoreTypeOK
<1>6. /\ frame' = [frame EXCEPT ![t] = f] /\ frame \in [Threads -> Frame]
      /\ frame'[t].at = "scope" /\ frame'[t].id = id
      /\ \A u \in Threads \ {t} : frame'[u] = frame[u]
    BY <1>0, <1>1 DEF IndexPrincipal, Goto, ThreadsInv, Frame
<1>7. ASSUME NEW i \in MemoryIds PROVE RowIndexed(i)'
    <2>1. RowIndexed(i)
        BY DEF ThreadsInv, IndexesOK
    <2>2. ASSUME NEW other \in Text
          PROVE  i \in byPrincipal'[other] <=> i \in byPrincipal[other] \/ (i = id /\ other = tag)
        BY <1>1, <1>2, <1>3
    <2>3. ~BeingInserted(i)' => ~BeingInserted(i) /\ i # id
        BY <1>1, <1>6 DEF BeingInserted
    <2>4. (\A u \in Threads : frame[u].id = i => frame[u].at # "index")' /\ i # id =>
              \A u \in Threads : frame[u].id = i => frame[u].at # "index"
        BY <1>6
    <2>5. Known(i)' = Known(i) /\ Live(i)' = Live(i)
        BY <1>1 DEF Known, Live, IsTombstoned
    <2>6. Known(i) => entries[i].principal \in Text
        BY DEF ThreadsInv, SharedTypeOK, StoreTypeOK, Known, Optional, MemoryEntry
    <2> HIDE DEF id, tag
    <2>7. ASSUME NEW other \in Text
          PROVE  /\ i \in byPrincipal'[other] => Known(i)' /\ entries'[i].principal = other
                 /\ i \in byScope'[other] => Known(i)' /\ entries'[i].scope = other
        BY <1>1, <1>2, <2>1, <2>2, <2>5 DEF RowIndexed
    <2>8. Live(i)' /\ (\A u \in Threads : frame[u].id = i => frame[u].at # "index")' =>
              i \in byPrincipal'[entries'[i].principal]
        BY <1>1, <1>2, <2>1, <2>2, <2>4, <2>5, <2>6 DEF RowIndexed, Live
    <2>9. Live(i)' /\ ~BeingInserted(i)' => i \in byScope'[entries'[i].scope]
        BY <1>1, <2>1, <2>3, <2>5 DEF RowIndexed
    <2> QED
        BY <2>7, <2>8, <2>9 DEF RowIndexed
<1>8. FrameOK(f)'
    <2>1. f.at = "scope" /\ f.id = id /\ f.row = frame[t].row
        BY <1>0, <1>1, Inside DEF Frame
    <2> QED
        BY <1>1, <1>2, <2>1 DEF FrameOK, Known
<1>9. Goto(t, "index", "scope") /\ IndexesOK'
      /\ \A i \in MemoryIds : IsTombstoned(i) => IsTombstoned(i)'
    BY <1>1, <1>7 DEF IndexPrincipal, IndexesOK, IsTombstoned
<1> QED
    BY <1>0, <1>1, <1>5, <1>8, <1>9, InsideStep

\* The steps of an insertion and of a deletion, one table at a time.
LEMMA IndexScopeInv ==
    ASSUME ThreadsInv, NEW t \in Threads, IndexScope(t)
    PROVE  ThreadsInv'
<1> DEFINE id == frame[t].id
           tag == frame[t].row.scope
<1>1. /\ frame[t].at = "scope" /\ "audit" \in Labels
      /\ byScope' = [byScope EXCEPT ![tag] = @ \cup {id}]
      /\ entries' = entries /\ byPrincipal' = byPrincipal /\ tombstones' = tombstones
      /\ embeddings' = embeddings /\ minted' = minted /\ UNCHANGED inboxVars
    BY DEF IndexScope, Goto, StoreStep, Labels
<1>2. /\ id \in MemoryIds /\ id # None /\ Known(id) /\ frame[t].row = entries[id]
      /\ tag = entries[id].scope /\ tag \in Text
    BY <1>1, Inside
<1>0. PICK f \in Frame : f = [frame[t] EXCEPT !.at = "audit"]
    BY <1>1, Inside
<1>3. byScope \in [Text -> SUBSET MemoryIds]
    BY DEF ThreadsInv, SharedTypeOK, StoreTypeOK
<1>4. byScope' \in [Text -> SUBSET MemoryIds]
    BY <1>1, <1>2, <1>3
<1>5. StoreTypeOK'
    BY <1>1, <1>4 DEF ThreadsInv, SharedTypeOK, StoreTypeOK
<1>6. /\ frame' = [frame EXCEPT ![t] = f] /\ frame \in [Threads -> Frame]
      /\ frame'[t].at = "audit" /\ frame'[t].id = id
      /\ \A u \in Threads \ {t} : frame'[u] = frame[u]
    BY <1>0, <1>1 DEF IndexScope, Goto, ThreadsInv, Frame
<1>7. ASSUME NEW i \in MemoryIds PROVE RowIndexed(i)'
    <2>1. RowIndexed(i)
        BY DEF ThreadsInv, IndexesOK
    <2>2. ASSUME NEW other \in Text
          PROVE  i \in byScope'[other] <=> i \in byScope[other] \/ (i = id /\ other = tag)
        BY <1>1, <1>2, <1>3
    <2>3. ~BeingInserted(i)' /\ i # id => ~BeingInserted(i)
        BY <1>1, <1>6 DEF BeingInserted
    <2>4. (\A u \in Threads : frame[u].id = i => frame[u].at # "index")' =>
              \A u \in Threads : frame[u].id = i => frame[u].at # "index"
        BY <1>1, <1>6
    <2>5. Known(i)' = Known(i) /\ Live(i)' = Live(i)
        BY <1>1 DEF Known, Live, IsTombstoned
    <2>6. Known(i) => entries[i].scope \in Text
        BY DEF ThreadsInv, SharedTypeOK, StoreTypeOK, Known, Optional, MemoryEntry
    <2> HIDE DEF id, tag
    <2>7. ASSUME NEW other \in Text
          PROVE  /\ i \in byPrincipal'[other] => Known(i)' /\ entries'[i].principal = other
                 /\ i \in byScope'[other] => Known(i)' /\ entries'[i].scope = other
        BY <1>1, <1>2, <2>1, <2>2, <2>5 DEF RowIndexed
    <2>8. Live(i)' /\ (\A u \in Threads : frame[u].id = i => frame[u].at # "index")' =>
              i \in byPrincipal'[entries'[i].principal]
        BY <1>1, <2>1, <2>4, <2>5 DEF RowIndexed
    <2>9. Live(i)' /\ ~BeingInserted(i)' => i \in byScope'[entries'[i].scope]
        BY <1>1, <1>2, <2>1, <2>2, <2>3, <2>5, <2>6 DEF RowIndexed, Live
    <2> QED
        BY <2>7, <2>8, <2>9 DEF RowIndexed
<1>8. FrameOK(f)'
    <2>1. f.at = "audit"
        BY <1>0, <1>1, Inside DEF Frame
    <2> QED
        BY <2>1 DEF FrameOK
<1>9. Goto(t, "scope", "audit") /\ IndexesOK'
      /\ \A i \in MemoryIds : IsTombstoned(i) => IsTombstoned(i)'
    BY <1>1, <1>7 DEF IndexScope, IndexesOK, IsTombstoned
<1> QED
    BY <1>0, <1>1, <1>5, <1>8, <1>9, InsideStep

\* An id that uuid4 has not handed out yet is in nobody's hands.
LEMMA FreshId ==
    ASSUME ThreadsInv, NEW id \in MemoryIds \ minted
    PROVE  /\ ~Known(id)
           /\ \A t \in Threads : frame[t].id = id =>
                  frame[t].at \notin {"index", "scope", "mark", "unindex", "unscope"}
           /\ \A tag \in Text : id \notin byPrincipal[tag] /\ id \notin byScope[tag]
           /\ \A pid \in PendingIds : promoted[pid] # id
<1>1. ~Known(id)
    BY DEF ThreadsInv, OnlyMintedKnown
<1>2. id # None
    BY GateAssumption
<1>3. \A t \in Threads : frame[t].id = id =>
          frame[t].at \notin {"index", "scope", "mark", "unindex", "unscope"}
    BY <1>1 DEF ThreadsInv, FrameOK
<1> QED
    BY <1>1, <1>2, <1>3 DEF ThreadsInv, IndexesOK, RowIndexed, HeldOK

LEMMA InsertEntryInv ==
    ASSUME ThreadsInv, NEW t \in Threads, NEW id \in MemoryIds, InsertEntry(t, id)
    PROVE  ThreadsInv'
<1> DEFINE row == FromCandidate(frame[t].candidate)
<1>p. PICK pid \in Optional(PendingIds) : pid = frame[t].pid
    BY DEF ThreadsInv, Frame
<1>1. /\ frame[t].at = "insert" /\ id \notin minted
      /\ minted' = minted \cup {id} /\ entries' = [entries EXCEPT ![id] = row]
      /\ promoted' = IF pid = None THEN promoted ELSE [promoted EXCEPT ![pid] = id]
      /\ byPrincipal' = byPrincipal /\ byScope' = byScope /\ tombstones' = tombstones
      /\ embeddings' = embeddings /\ pending' = pending /\ held' = held
    BY <1>p DEF InsertEntry
<1>2. /\ frame[t] \in Frame /\ FrameOK(frame[t]) /\ frame \in [Threads -> Frame]
    BY DEF ThreadsInv, Frame
<1>3. PICK call \in Submissions : Admissible(call) /\ frame[t].candidate = Outcome[call].candidate
    BY <1>1, <1>2 DEF FrameOK, Admitted
<1>4. row \in MemoryEntry /\ row # None /\ id # None
    BY <1>3, AdmissibleFacts, IdAssumption, GateAssumption
<1>0. PICK f : f = [frame[t] EXCEPT !.at = "index", !.id = id, !.row = row]
    OBVIOUS
<1>5. /\ f \in Frame /\ f.at = "index" /\ f.id = id /\ f.row = row
      /\ f.call = frame[t].call /\ f.pid = pid /\ f.candidate = frame[t].candidate
    <2>1. "index" \in Labels /\ id \in Optional(MemoryIds) /\ row \in Optional(MemoryEntry)
        BY <1>4 DEF Labels, Optional
    <2> HIDE DEF row
    <2> QED
        BY <1>0, <1>2, <1>p, <2>1 DEF Frame
<1>6. /\ frame' \in [Threads -> Frame] /\ frame'[t] = f
      /\ \A u \in Threads \ {t} : frame'[u] = frame[u]
    <2>1. frame' = [frame EXCEPT ![t] = f]
        BY <1>0 DEF InsertEntry
    <2> QED
        BY <1>2, <1>5, <2>1
<1>7. entries \in [MemoryIds -> Optional(MemoryEntry)] /\ promoted \in [PendingIds -> Optional(MemoryIds)]
    BY DEF ThreadsInv, SharedTypeOK, StoreTypeOK
<1> HIDE DEF row
<1>8. /\ entries' \in [MemoryIds -> Optional(MemoryEntry)] /\ entries'[id] = row
      /\ \A i \in MemoryIds \ {id} : entries'[i] = entries[i]
    BY <1>1, <1>4, <1>7 DEF Optional
<1>9. promoted' \in [PendingIds -> Optional(MemoryIds)]
    BY <1>1, <1>7 DEF Optional
<1>10. SharedTypeOK'
    BY <1>1, <1>8, <1>9 DEF ThreadsInv, SharedTypeOK, StoreTypeOK
<1>11. \A i \in MemoryIds : /\ Known(i) => i # id /\ Known(i)' /\ entries'[i] = entries[i]
                            /\ Known(i)' => i = id \/ Known(i)
    BY <1>1, <1>8, FreshId DEF Known
<1>12. ASSUME NEW u \in Threads PROVE FrameOK(frame[u])'
    <2>1. CASE u = t
        BY <1>4, <1>5, <1>6, <1>8, <2>1 DEF FrameOK, Known
    <2>2. CASE u # t
        <3>1. frame[u] \in Frame /\ FrameOK(frame[u]) /\ frame'[u] = frame[u]
            BY <1>6, <2>2 DEF ThreadsInv
        <3>2. frame[u].id # None => frame[u].id \in MemoryIds
            BY <3>1 DEF Frame, Optional
        <3>3. \A i : IsTombstoned(i)' = IsTombstoned(i)
            BY <1>1 DEF IsTombstoned
        <3> QED
            BY <1>11, <3>1, <3>2, <3>3 DEF FrameOK
    <2> QED
        BY <2>1, <2>2
<1>13. OnlyMintedKnown'
    BY <1>1, <1>11 DEF ThreadsInv, OnlyMintedKnown
<1>14. ASSUME NEW i \in MemoryIds PROVE RowIndexed(i)'
    <2>1. RowIndexed(i)
        BY DEF ThreadsInv, IndexesOK
    <2>2. CASE i = id
        <3>1. frame'[t].id = i /\ frame'[t].at = "index"
            BY <1>5, <1>6, <2>2
        <3>2. BeingInserted(i)'
            BY <3>1 DEF BeingInserted
        <3>3. \A tag \in Text : i \notin byPrincipal'[tag] /\ i \notin byScope'[tag]
            BY <1>1, <2>2, FreshId
        <3> QED
            BY <3>1, <3>2, <3>3 DEF RowIndexed
    <2>3. CASE i # id
        <3>1. entries'[i] = entries[i] /\ (Known(i)' <=> Known(i)) /\ (Live(i)' <=> Live(i))
            BY <1>1, <1>8, <2>3 DEF Known, Live, IsTombstoned
        <3>2. (\A u \in Threads : frame[u].id = i => frame[u].at # "index")' =>
                  \A u \in Threads : frame[u].id = i => frame[u].at # "index"
            BY <1>1, <1>6
        <3>3. ~BeingInserted(i)' => ~BeingInserted(i)
            BY <1>1, <1>6 DEF BeingInserted
        <3> QED
            BY <1>1, <2>1, <3>1, <3>2, <3>3 DEF RowIndexed
    <2> QED
        BY <2>2, <2>3
<1>15. OnlyVerifiedRows'
    <2>1. \A i \in MemoryIds : Known(i)' /\ i # id => Known(i) /\ entries'[i] = entries[i]
        BY <1>11
    <2>2. Outcome'[call] = Outcome[call]
        BY DEF Outcome
    <2>3. /\ Outcome[call].ok /\ Validate(Outcome[call].candidate) = {}
          /\ call.registry # None => Endorsed(call.registry.min_passes, call.registry.answers)
          /\ entries'[id] = FromCandidate(Outcome[call].candidate)
        BY <1>3, <1>8, AdmissibleFacts DEF row
    <2> QED
        BY <2>1, <2>3 DEF ThreadsInv, OnlyVerifiedRows
<1>16. HeldOK'
    BY <1>1, <1>4, <1>7, <1>8, <1>9, <1>11 DEF ThreadsInv, HeldOK, Known
<1>17. ASSUME NEW p \in PendingIds
       PROVE  /\ Carries(t, p) <=> (frame[t].call = None /\ pid = p)
              /\ ~Carries(t, p)'
              /\ \A u \in Threads \ {t} : Carries(u, p)' <=> Carries(u, p)
    BY <1>1, <1>5, <1>6, <1>p DEF Carries
<1>18. OneWayOut'
    <2>1. frame[t].call = None <=> pid # None
        BY <1>1, <1>2, <1>p DEF FrameOK
    <2>2. CASE pid = None
        <3>1. promoted' = promoted
            BY <1>1, <2>2
        <3>2. \A p \in PendingIds, u \in Threads : Carries(u, p)' <=> Carries(u, p)
            BY <1>17, <2>1, <2>2
        <3>3. ASSUME NEW p \in PendingIds
              PROVE  OneWayOutOf(p)'
            <4>1. OneWayOutOf(p)
                BY DEF ThreadsInv, OneWayOut
            <4>2. \A u \in Threads : Carries(u, p) => frame'[u] = frame[u]
                BY <1>6, <1>17, <3>2
            <4>3. promoted[p] # None => entries'[promoted[p]] = entries[promoted[p]]
                BY <1>11 DEF ThreadsInv, HeldOK
            <4> QED
                BY <1>1, <3>1, <3>2, <4>1, <4>2, <4>3, StaysOut
        <3> QED
            BY <3>3 DEF OneWayOut
    <2>3. CASE pid # None
        <3>1. pid \in PendingIds /\ Carries(t, pid)
            BY <1>17, <2>1, <2>3 DEF Optional
        <3>2. held[pid] # None /\ pending[pid] = None /\ frame[t].candidate = held[pid]
              /\ \A u \in Threads : Carries(u, pid) => u = t
            BY <3>1 DEF ThreadsInv, OneWayOut, OneWayOutOf
        <3>3. promoted'[pid] = id /\ \A p \in PendingIds \ {pid} : promoted'[p] = promoted[p]
            BY <1>1, <1>7, <2>3, <3>1
        <3>4. \A u \in Threads : ~Carries(u, pid)'
            BY <1>17, <3>1, <3>2
        <3>5. ASSUME NEW p \in PendingIds \ {pid}
              PROVE  /\ \A u \in Threads : Carries(u, p)' <=> Carries(u, p)
                     /\ \A u \in Threads : Carries(u, p) => frame'[u] = frame[u]
                     /\ promoted[p] # None => entries'[promoted[p]] = entries[promoted[p]]
            <4>1. \A u \in Threads : Carries(u, p)' <=> Carries(u, p)
                BY <1>17
            <4>2. ~Carries(t, p)
                BY <1>17
            <4>3. \A u \in Threads : Carries(u, p) => frame'[u] = frame[u]
                BY <1>6, <4>2
            <4>4. promoted[p] # None => entries'[promoted[p]] = entries[promoted[p]]
                BY <1>11 DEF ThreadsInv, HeldOK
            <4> QED
                BY <4>1, <4>3, <4>4
        <3>6. entries'[id] = FromCandidate(held[pid])
            BY <1>8, <3>2 DEF row
        <3>7. ASSUME NEW p \in PendingIds \ {pid}
              PROVE  OneWayOutOf(p)'
            <4>1. OneWayOutOf(p)
                BY DEF ThreadsInv, OneWayOut
            <4> QED
                BY <1>1, <3>3, <3>5, <4>1, StaysOut
        <3>8. OneWayOutOf(pid)'
            BY <1>1, <1>4, <3>2, <3>3, <3>4, <3>6 DEF OneWayOutOf
        <3> QED
            BY <3>7, <3>8 DEF OneWayOut
    <2> QED
        BY <2>2, <2>3
<1> QED
    BY <1>6, <1>10, <1>12, <1>13, <1>14, <1>15, <1>16, <1>18 DEF ThreadsInv, IndexesOK

-----------------------------------------------------------------------------
(***************************************************************************)
(* The steps of tombstone().                                               *)
(***************************************************************************)
LEMMA MarkInv ==
    ASSUME ThreadsInv, NEW t \in Threads, Mark(t)
    PROVE  ThreadsInv'
<1>1. /\ frame[t].at = "mark" /\ "unindex" \in Labels
      /\ tombstones' = [tombstones EXCEPT ![frame[t].id] = frame[t].who]
      /\ entries' = entries /\ byPrincipal' = byPrincipal /\ byScope' = byScope
      /\ embeddings' = embeddings /\ minted' = minted /\ UNCHANGED inboxVars
    BY DEF Mark, Goto, StoreStep, Labels
<1>2. /\ frame[t].id \in MemoryIds /\ frame[t].id # None /\ Known(frame[t].id)
      /\ frame[t].row = entries[frame[t].id]
      /\ frame[t].who \in Text /\ frame[t].who # None
    BY <1>1, Inside DEF FrameOK, Frame, Optional
<1>3. PICK f \in Frame : f = [frame[t] EXCEPT !.at = "unindex"]
    BY <1>1, Inside
<1>4. /\ tombstones' \in [MemoryIds -> Optional(Text)] /\ tombstones'[frame[t].id] # None
      /\ \A i \in MemoryIds : IsTombstoned(i) => IsTombstoned(i)'
    BY <1>1, <1>2 DEF ThreadsInv, SharedTypeOK, StoreTypeOK, Optional, IsTombstoned
<1>5. StoreTypeOK'
    BY <1>1, <1>4 DEF ThreadsInv, SharedTypeOK, StoreTypeOK
<1>6. frame' = [frame EXCEPT ![t] = f]
    BY <1>3 DEF Mark, Goto
<1>7. IndexesOK'
    BY <1>1, <1>4, <1>6, IndexesKept
<1>8. FrameOK(f)'
    <2>1. f.at = "unindex" /\ f.id = frame[t].id /\ f.row = frame[t].row
        BY <1>1, <1>3, Inside DEF Frame
    <2> QED
        BY <1>1, <1>2, <1>4, <2>1 DEF FrameOK, Known, IsTombstoned
<1>9. Goto(t, "mark", "unindex")
    BY DEF Mark
<1> QED
    BY <1>1, <1>3, <1>4, <1>5, <1>7, <1>8, <1>9, InsideStep

LEMMA UnindexPrincipalInv ==
    ASSUME ThreadsInv, NEW t \in Threads, UnindexPrincipal(t)
    PROVE  ThreadsInv'
<1> DEFINE id == frame[t].id
           tag == frame[t].row.principal
<1>1. /\ frame[t].at = "unindex" /\ "unscope" \in Labels
      /\ byPrincipal' = [byPrincipal EXCEPT ![tag] = @ \ {id}]
      /\ entries' = entries /\ byScope' = byScope /\ tombstones' = tombstones
      /\ embeddings' = embeddings /\ minted' = minted /\ UNCHANGED inboxVars
    BY DEF UnindexPrincipal, Goto, StoreStep, Labels
<1>2. /\ id \in MemoryIds /\ id # None /\ Known(id) /\ frame[t].row = entries[id]
      /\ tag \in Text /\ IsTombstoned(id)
    BY <1>1, Inside DEF FrameOK
<1>3. PICK f \in Frame : f = [frame[t] EXCEPT !.at = "unscope"]
    BY <1>1, Inside
<1>4. byPrincipal \in [Text -> SUBSET MemoryIds]
    BY DEF ThreadsInv, SharedTypeOK, StoreTypeOK
<1>5. /\ byPrincipal' \in [Text -> SUBSET MemoryIds]
      /\ \A i \in MemoryIds, tag2 \in Text :
             /\ i \in byPrincipal'[tag2] => i \in byPrincipal[tag2]
             /\ i # id /\ i \in byPrincipal[tag2] => i \in byPrincipal'[tag2]
    BY <1>1, <1>2, <1>4
<1>6. StoreTypeOK'
    BY <1>1, <1>5 DEF ThreadsInv, SharedTypeOK, StoreTypeOK
<1>7. \A u \in Threads : frame[u].at \in {"index", "scope"} => frame'[u] = frame[u]
    BY <1>1 DEF UnindexPrincipal, Goto, ThreadsInv
<1>8. ASSUME NEW i \in MemoryIds PROVE RowIndexed(i)'
    <2>1. RowIndexed(i)
        BY DEF ThreadsInv, IndexesOK
    <2>2. Live(i)' => Live(i) /\ i # id
        BY <1>1, <1>2 DEF Live, Known, IsTombstoned
    <2>3. (\A u \in Threads : frame[u].id = i => frame[u].at # "index")' =>
              \A u \in Threads : frame[u].id = i => frame[u].at # "index"
        BY <1>7
    <2>4. ~BeingInserted(i)' => ~BeingInserted(i)
        BY <1>7 DEF BeingInserted
    <2>5. Known(i) => entries[i].principal \in Text
        BY DEF ThreadsInv, SharedTypeOK, StoreTypeOK, Known, Optional, MemoryEntry
    <2> HIDE DEF id, tag
    <2> QED
        BY <1>1, <1>5, <2>1, <2>2, <2>3, <2>4, <2>5 DEF RowIndexed, Known, Live
<1>9. FrameOK(f)'
    <2>1. f.at = "unscope" /\ f.id = id /\ f.row = frame[t].row
        BY <1>1, <1>3, Inside DEF Frame
    <2> QED
        BY <1>1, <1>2, <2>1 DEF FrameOK, Known, IsTombstoned
<1>10. Goto(t, "unindex", "unscope") /\ IndexesOK'
       /\ \A i \in MemoryIds : IsTombstoned(i) => IsTombstoned(i)'
    BY <1>1, <1>8 DEF UnindexPrincipal, IndexesOK, IsTombstoned
<1> QED
    BY <1>1, <1>3, <1>6, <1>9, <1>10, InsideStep

LEMMA UnindexScopeInv ==
    ASSUME ThreadsInv, NEW t \in Threads, UnindexScope(t)
    PROVE  ThreadsInv'
<1> DEFINE id == frame[t].id
           tag == frame[t].row.scope
<1>1. /\ frame[t].at = "unscope" /\ "unbind" \in Labels
      /\ byScope' = [byScope EXCEPT ![tag] = @ \ {id}]
      /\ entries' = entries /\ byPrincipal' = byPrincipal /\ tombstones' = tombstones
      /\ embeddings' = embeddings /\ minted' = minted /\ UNCHANGED inboxVars
    BY DEF UnindexScope, Goto, StoreStep, Labels
<1>2. /\ id \in MemoryIds /\ id # None /\ Known(id) /\ frame[t].row = entries[id]
      /\ tag \in Text /\ IsTombstoned(id)
    BY <1>1, Inside DEF FrameOK
<1>3. PICK f \in Frame : f = [frame[t] EXCEPT !.at = "unbind"]
    BY <1>1, Inside
<1>4. byScope \in [Text -> SUBSET MemoryIds]
    BY DEF ThreadsInv, SharedTypeOK, StoreTypeOK
<1>5. /\ byScope' \in [Text -> SUBSET MemoryIds]
      /\ \A i \in MemoryIds, tag2 \in Text :
             /\ i \in byScope'[tag2] => i \in byScope[tag2]
             /\ i # id /\ i \in byScope[tag2] => i \in byScope'[tag2]
    BY <1>1, <1>2, <1>4
<1>6. StoreTypeOK'
    BY <1>1, <1>5 DEF ThreadsInv, SharedTypeOK, StoreTypeOK
<1>7. \A u \in Threads : frame[u].at \in {"index", "scope"} => frame'[u] = frame[u]
    BY <1>1 DEF UnindexScope, Goto, ThreadsInv
<1>8. ASSUME NEW i \in MemoryIds PROVE RowIndexed(i)'
    <2>1. RowIndexed(i)
        BY DEF ThreadsInv, IndexesOK
    <2>2. Live(i)' => Live(i) /\ i # id
        BY <1>1, <1>2 DEF Live, Known, IsTombstoned
    <2>3. (\A u \in Threads : frame[u].id = i => frame[u].at # "index")' =>
              \A u \in Threads : frame[u].id = i => frame[u].at # "index"
        BY <1>7
    <2>4. ~BeingInserted(i)' => ~BeingInserted(i)
        BY <1>7 DEF BeingInserted
    <2>5. Known(i) => entries[i].scope \in Text
        BY DEF ThreadsInv, SharedTypeOK, StoreTypeOK, Known, Optional, MemoryEntry
    <2> HIDE DEF id, tag
    <2> QED
        BY <1>1, <1>5, <2>1, <2>2, <2>3, <2>4, <2>5 DEF RowIndexed, Known, Live
<1>9. FrameOK(f)'
    <2>1. f.at = "unbind" /\ f.id = id /\ f.row = frame[t].row
        BY <1>1, <1>3, Inside DEF Frame
    <2> QED
        BY <1>1, <1>2, <2>1 DEF FrameOK, Known, IsTombstoned
<1>10. Goto(t, "unscope", "unbind") /\ IndexesOK'
       /\ \A i \in MemoryIds : IsTombstoned(i) => IsTombstoned(i)'
    BY <1>1, <1>8 DEF UnindexScope, IndexesOK, IsTombstoned
<1> QED
    BY <1>1, <1>3, <1>6, <1>9, <1>10, InsideStep

LEMMA UnbindInv ==
    ASSUME ThreadsInv, NEW t \in Threads, Unbind(t)
    PROVE  ThreadsInv'
<1>1. /\ frame[t].at = "unbind" /\ "audit" \in Labels
      /\ embeddings' = [embeddings EXCEPT ![frame[t].id] = None]
      /\ entries' = entries /\ byPrincipal' = byPrincipal /\ byScope' = byScope
      /\ tombstones' = tombstones /\ minted' = minted /\ UNCHANGED inboxVars
    BY DEF Unbind, Goto, StoreStep, Labels
<1>2. PICK f \in Frame : f = [frame[t] EXCEPT !.at = "audit"]
    BY <1>1, Inside
<1>3. embeddings' \in [MemoryIds -> Optional(VectorIds)]
    BY <1>1 DEF ThreadsInv, SharedTypeOK, StoreTypeOK, Optional
<1>4. StoreTypeOK'
    BY <1>1, <1>3 DEF ThreadsInv, SharedTypeOK, StoreTypeOK
<1>5. frame' = [frame EXCEPT ![t] = f] /\ \A i \in MemoryIds : IsTombstoned(i) => IsTombstoned(i)'
    BY <1>1, <1>2 DEF Unbind, Goto, IsTombstoned
<1>6. IndexesOK'
    BY <1>1, <1>5, IndexesKept
<1>7. FrameOK(f)'
    <2>1. f.at = "audit"
        BY <1>1, <1>2, Inside DEF Frame
    <2> QED
        BY <2>1 DEF FrameOK
<1>8. Goto(t, "unbind", "audit")
    BY DEF Unbind
<1> QED
    BY <1>1, <1>2, <1>4, <1>5, <1>6, <1>7, <1>8, InsideStep

-----------------------------------------------------------------------------
(***************************************************************************)
(* The steps outside the store.                                            *)
(***************************************************************************)
LEMMA IdleFrame ==
    /\ Idle \in Frame /\ Idle.at = "idle"
    /\ FrameOK(Idle)
<1>1. Idle \in Frame /\ Idle.at = "idle"
    BY DEF Idle, Frame, Labels, Optional
<1> QED
    BY <1>1 DEF FrameOK

\* Nothing that ThreadsInv speaks of has changed.
LEMMA StillInv ==
    ASSUME ThreadsInv, UNCHANGED <<storeVars, inboxVars, frame>>
    PROVE  ThreadsInv'
<1>1. /\ entries' = entries /\ byPrincipal' = byPrincipal /\ byScope' = byScope
      /\ tombstones' = tombstones /\ embeddings' = embeddings /\ minted' = minted
      /\ pending' = pending /\ held' = held /\ promoted' = promoted /\ frame' = frame
    BY DEF storeVars, inboxVars
<1>2. SharedTypeOK' /\ frame' \in [Threads -> Frame] /\ OnlyMintedKnown' /\ HeldOK' /\ OnlyVerifiedRows'
    BY <1>1 DEF ThreadsInv, SharedTypeOK, StoreTypeOK, OnlyMintedKnown, HeldOK, OnlyVerifiedRows, Known
<1>3. \A t \in Threads : FrameOK(frame[t])'
    BY <1>1 DEF ThreadsInv, FrameOK, Known, IsTombstoned
<1>4. IndexesOK'
    BY <1>1 DEF ThreadsInv, IndexesOK, RowIndexed, BeingInserted, Known, Live, IsTombstoned
<1>5. OneWayOut'
    BY <1>1 DEF ThreadsInv, OneWayOut, OneWayOutOf, Carries
<1> QED
    BY <1>2, <1>3, <1>4, <1>5 DEF ThreadsInv

\* A call ends; of the shared state only a vector may have changed.
LEMMA ReturnInv ==
    ASSUME ThreadsInv, NEW t \in Threads, NEW here \in {"render", "bind", "audit"}, Return(t, here),
           UNCHANGED <<entries, byPrincipal, byScope, tombstones, minted, inboxVars>>,
           embeddings' \in [MemoryIds -> Optional(VectorIds)]
    PROVE  ThreadsInv'
<1>1. frame' = [frame EXCEPT ![t] = Idle] /\ frame[t].at = here
    BY DEF Return
<1>2. StoreTypeOK' /\ \A i \in MemoryIds : IsTombstoned(i) => IsTombstoned(i)'
    BY DEF ThreadsInv, SharedTypeOK, StoreTypeOK, IsTombstoned
<1>3. IndexesOK'
    BY <1>1, <1>2, IdleFrame, IndexesKept
<1>4. FrameOK(Idle)'
    BY IdleFrame DEF FrameOK
<1>5. \A pid \in PendingIds : ~Carries(t, pid) /\ ~Carries(t, pid)'
    BY <1>1, IdleFrame DEF ThreadsInv, Carries
<1> QED
    BY <1>1, <1>2, <1>3, <1>4, <1>5, IdleFrame, QuietStep

\* The steps in which a call begins.
LEMMA CommitRunInv ==
    ASSUME ThreadsInv, NEW t \in Threads, NEW call \in Submissions, CommitRun(t, call)
    PROVE  ThreadsInv'
<1>1. PICK f : f = [Idle EXCEPT !.at = "render", !.call = call]
    OBVIOUS
<1>2. f \in Frame /\ f.at = "render" /\ f.call # None /\ f.pid = None
    <2>1. call # None
        BY ThreadsAssumption
    <2>2. "render" \in Labels
        BY DEF Labels
    <2> QED
        BY <1>1, <2>1, <2>2 DEF Idle, Frame, Optional
<1> QED
    BY <1>1, <1>2, OutsideStep DEF CommitRun, Begin, FrameOK

LEMMA DecideInv ==
    ASSUME ThreadsInv, NEW t \in Threads, Decide(t)
    PROVE  ThreadsInv'
<1> DEFINE call == frame[t].call
<1>1. /\ frame[t] \in Frame /\ frame[t].at = "render"
      /\ call \in Submissions /\ call # None /\ frame[t].pid = None
      /\ UNCHANGED <<storeVars, inboxVars>>
    BY DEF ThreadsInv, Frame, FrameOK, Optional, Decide, gateVars
<1>2. Outcome[call].candidate \in Optional(CandidateExperience)
    BY <1>1, OutcomeFacts
<1>3. PICK there \in {"audit", "hold", "insert"} :
          /\ frame' = [frame EXCEPT ![t].candidate = Outcome[call].candidate, ![t].at = there]
          /\ there # "audit" => Admissible(call)
    BY DEF Decide
<1>4. PICK f : f = [frame[t] EXCEPT !.candidate = Outcome[call].candidate, !.at = there]
    OBVIOUS
<1>5. /\ f \in Frame /\ f.at = there /\ f.candidate = Outcome[call].candidate
      /\ f.call = call /\ f.pid = None
    <2>1. there \in Labels
        BY DEF Labels
    <2> QED
        BY <1>1, <1>2, <1>4, <2>1 DEF Frame
<1>6. frame' = [frame EXCEPT ![t] = f]
    BY <1>3, <1>4 DEF ThreadsInv
<1>7. FrameOK(f)
    BY <1>1, <1>3, <1>5 DEF FrameOK, Admitted
<1> QED
    BY <1>1, <1>5, <1>6, <1>7, OutsideStep

LEMMA ForgetCheckInv ==
    ASSUME ThreadsInv, NEW t \in Threads, NEW id \in MemoryIds, NEW who \in Callers,
           ForgetCheck(t, id, who)
    PROVE  ThreadsInv'
<1>1. /\ who \in Text /\ who # None /\ id # None /\ entries[id] \in Optional(MemoryEntry)
      /\ MayTombstone(id, who) \in BOOLEAN
      /\ MayTombstone(id, who) => Known(id)
    BY GateAssumption, TextAssumption
    DEF MayTombstone, Live, Known, IsTombstoned, ThreadsInv, SharedTypeOK, StoreTypeOK
<1>2. PICK ok \in BOOLEAN, there \in {"mark", "audit"}, row \in Optional(MemoryEntry) :
          /\ ok = MayTombstone(id, who) /\ there = (IF MayTombstone(id, who) THEN "mark" ELSE "audit")
          /\ row = entries[id]
    BY <1>1
<1>3. PICK f : f = [Idle EXCEPT !.at = there, !.id = id, !.row = row, !.who = who, !.ok = ok]
    OBVIOUS
<1>4. f \in Frame /\ f.id = id /\ f.row = row /\ f.who = who /\ f.at = there
    <2>1. there \in Labels /\ id \in Optional(MemoryIds) /\ who \in Optional(Text)
        BY <1>1 DEF Labels, Optional
    <2>2. f = [at |-> there, call |-> None, candidate |-> None, pid |-> None, row |-> row,
               id |-> id, who |-> who, vector |-> None, ok |-> ok]
        BY <1>3 DEF Idle
    <2> QED
        BY <2>1, <2>2 DEF Frame, Optional
<1>5. FrameOK(f)
    BY <1>1, <1>2, <1>4 DEF FrameOK
<1>6. frame' = [frame EXCEPT ![t] = f] /\ frame[t].at = "idle" /\ UNCHANGED <<storeVars, inboxVars>>
    <2>1. [Idle EXCEPT !.at = IF MayTombstone(id, who) THEN "mark" ELSE "audit",
                       !.id = id, !.row = entries[id], !.who = who,
                       !.ok = MayTombstone(id, who)] = f
        BY <1>2, <1>3 DEF Idle
    <2> QED
        BY <2>1 DEF ForgetCheck, Begin, gateVars
<1>7. f.at # "insert"
    BY <1>4
<1> QED
    BY <1>4, <1>5, <1>6, <1>7, OutsideStep

LEMMA BindCheckInv ==
    ASSUME ThreadsInv, NEW t \in Threads, NEW id \in MemoryIds, NEW vector \in VectorIds,
           BindCheck(t, id, vector)
    PROVE  ThreadsInv'
<1>1. PICK f : f = [Idle EXCEPT !.at = "bind", !.id = id, !.vector = vector]
    OBVIOUS
<1>2. f \in Frame /\ f.at = "bind"
    BY <1>1 DEF Idle, Frame, Labels, Optional
<1> QED
    BY <1>1, <1>2, OutsideStep DEF BindCheck, Begin, gateVars, FrameOK

-----------------------------------------------------------------------------
(***************************************************************************)
(* Into the inbox, and out of it.                                          *)
(***************************************************************************)
LEMMA HoldInv ==
    ASSUME ThreadsInv, NEW t \in Threads, NEW pid \in PendingIds, Hold(t, pid)
    PROVE  ThreadsInv'
<1> DEFINE candidate == frame[t].candidate
<1>1. /\ frame[t].at = "hold" /\ held[pid] = None
      /\ pending' = [pending EXCEPT ![pid] = candidate]
      /\ held' = [held EXCEPT ![pid] = candidate] /\ promoted' = promoted
      /\ UNCHANGED storeVars
    BY DEF Hold
<1>2. PICK f : f = [frame[t] EXCEPT !.at = "audit", !.pid = pid]
    OBVIOUS
<1>3. /\ frame[t] \in Frame /\ frame[t].call # None
      /\ candidate \in CandidateExperience /\ candidate # None /\ Admitted(candidate)
    BY <1>1, AdmissibleFacts DEF ThreadsInv, FrameOK, Admitted
<1>4. f \in Frame /\ f.at = "audit" /\ f.call # None
    <2>1. "audit" \in Labels /\ pid \in Optional(PendingIds)
        BY DEF Labels, Optional
    <2> QED
        BY <1>2, <1>3, <2>1 DEF Frame
<1>5. /\ frame' = [frame EXCEPT ![t] = f] /\ frame' \in [Threads -> Frame] /\ frame'[t] = f
      /\ \A u \in Threads \ {t} : frame'[u] = frame[u]
    BY <1>2, <1>4 DEF Hold, ThreadsInv
<1>6. /\ entries' = entries /\ byPrincipal' = byPrincipal /\ byScope' = byScope
      /\ tombstones' = tombstones /\ embeddings' = embeddings /\ minted' = minted
    BY <1>1 DEF storeVars
<1>7. /\ pending \in [PendingIds -> Optional(CandidateExperience)]
      /\ held \in [PendingIds -> Optional(CandidateExperience)]
    BY DEF ThreadsInv, SharedTypeOK
<1> HIDE DEF candidate
<1>8. /\ pending' \in [PendingIds -> Optional(CandidateExperience)]
      /\ held' \in [PendingIds -> Optional(CandidateExperience)]
      /\ pending'[pid] = candidate /\ held'[pid] = candidate
      /\ \A p \in PendingIds \ {pid} : pending'[p] = pending[p] /\ held'[p] = held[p]
    BY <1>1, <1>3, <1>7 DEF Optional
<1>9. SharedTypeOK'
    BY <1>1, <1>6, <1>8 DEF ThreadsInv, SharedTypeOK, StoreTypeOK
<1>10. ASSUME NEW u \in Threads PROVE FrameOK(frame[u])'
    BY <1>4, <1>5, <1>6 DEF ThreadsInv, FrameOK, Known, IsTombstoned
<1>11. OnlyMintedKnown' /\ OnlyVerifiedRows'
    BY <1>6 DEF ThreadsInv, OnlyMintedKnown, OnlyVerifiedRows, Known
<1>12. IndexesOK'
    BY <1>1, <1>4, <1>5, <1>6, IndexesKept DEF IsTombstoned
<1>13. HeldOK'
    BY <1>1, <1>3, <1>6, <1>8 DEF ThreadsInv, HeldOK, Known
<1>14. \A u \in Threads, p \in PendingIds : Carries(u, p)' <=> Carries(u, p)
    BY <1>1, <1>4, <1>5 DEF Carries
<1>15. ASSUME NEW p \in PendingIds PROVE OneWayOutOf(p)'
    <2>1. OneWayOutOf(p)
        BY DEF ThreadsInv, OneWayOut
    <2>2. CASE p = pid
        <3>1. promoted'[p] = None /\ \A u \in Threads : ~Carries(u, p)'
            BY <1>1, <1>14, <2>1, <2>2 DEF OneWayOutOf
        <3> QED
            BY <1>3, <1>8, <2>2, <3>1 DEF OneWayOutOf
    <2>3. CASE p # pid
        <3>1. \A u \in Threads : Carries(u, p) => frame'[u] = frame[u]
            BY <1>1, <1>5 DEF Carries
        <3> QED
            BY <1>1, <1>6, <1>8, <1>14, <2>1, <2>3, <3>1, StaysOut
    <2> QED
        BY <2>2, <2>3
<1> QED
    BY <1>5, <1>9, <1>10, <1>11, <1>12, <1>13, <1>15 DEF ThreadsInv, OneWayOut

LEMMA ApprovePopInv ==
    ASSUME ThreadsInv, NEW t \in Threads, NEW pid \in PendingIds, ApprovePop(t, pid)
    PROVE  ThreadsInv'
<1>1. /\ frame[t].at = "idle" /\ pending[pid] # None
      /\ pending' = [pending EXCEPT ![pid] = None]
      /\ held' = held /\ promoted' = promoted /\ UNCHANGED storeVars
    BY DEF ApprovePop, Begin
<1>2. PICK f : f = [Idle EXCEPT !.at = "insert", !.pid = pid, !.candidate = pending[pid]]
    OBVIOUS
<1>3. /\ pending[pid] \in CandidateExperience /\ Admitted(pending[pid])
      /\ pid # None /\ pending[pid] = held[pid] /\ promoted[pid] = None /\ held[pid] # None
      /\ \A u \in Threads : ~Carries(u, pid)
    BY <1>1, GateAssumption
    DEF ThreadsInv, SharedTypeOK, HeldOK, OneWayOut, OneWayOutOf, Optional
<1>4. /\ f \in Frame /\ f.at = "insert" /\ f.call = None /\ f.pid = pid
      /\ f.candidate = pending[pid]
    <2>1. "insert" \in Labels /\ pid \in Optional(PendingIds)
        BY DEF Labels, Optional
    <2> QED
        BY <1>2, <1>3, <2>1 DEF Idle, Frame, Optional
<1>5. /\ frame' = [frame EXCEPT ![t] = f] /\ frame' \in [Threads -> Frame] /\ frame'[t] = f
      /\ \A u \in Threads \ {t} : frame'[u] = frame[u]
    BY <1>2, <1>4 DEF ApprovePop, Begin, ThreadsInv
<1>6. /\ entries' = entries /\ byPrincipal' = byPrincipal /\ byScope' = byScope
      /\ tombstones' = tombstones /\ embeddings' = embeddings /\ minted' = minted
    BY <1>1 DEF storeVars
<1>7. /\ pending' \in [PendingIds -> Optional(CandidateExperience)] /\ pending'[pid] = None
      /\ \A p \in PendingIds \ {pid} : pending'[p] = pending[p]
    BY <1>1 DEF ThreadsInv, SharedTypeOK, Optional
<1>8. SharedTypeOK'
    BY <1>1, <1>6, <1>7 DEF ThreadsInv, SharedTypeOK, StoreTypeOK
<1>9. FrameOK(f)
    BY <1>3, <1>4 DEF FrameOK
<1>10. ASSUME NEW u \in Threads PROVE FrameOK(frame[u])'
    BY <1>5, <1>6, <1>9 DEF ThreadsInv, FrameOK, Known, IsTombstoned
<1>11. OnlyMintedKnown' /\ OnlyVerifiedRows' /\ HeldOK'
    BY <1>1, <1>6, <1>7 DEF ThreadsInv, OnlyMintedKnown, OnlyVerifiedRows, HeldOK, Known
<1>12. IndexesOK'
    BY <1>1, <1>4, <1>5, <1>6, IndexesKept DEF IsTombstoned
<1>13. \A p \in PendingIds :
           /\ Carries(t, p)' <=> p = pid
           /\ ~Carries(t, p)
           /\ \A u \in Threads \ {t} : Carries(u, p)' <=> Carries(u, p)
    BY <1>1, <1>4, <1>5 DEF Carries
<1>14. ASSUME NEW p \in PendingIds PROVE OneWayOutOf(p)'
    <2>1. OneWayOutOf(p)
        BY DEF ThreadsInv, OneWayOut
    <2>2. CASE p = pid
        <3>1. /\ Carries(t, pid)' /\ frame'[t].candidate = held'[pid]
              /\ \A u \in Threads : Carries(u, pid)' => u = t
            BY <1>1, <1>3, <1>4, <1>5, <1>13
        <3> QED
            BY <1>1, <1>3, <1>7, <2>2, <3>1 DEF OneWayOutOf
    <2>3. CASE p # pid
        <3>1. \A u \in Threads : /\ Carries(u, p)' <=> Carries(u, p)
                                 /\ Carries(u, p) => frame'[u] = frame[u]
            BY <1>5, <1>13, <2>3
        <3> QED
            BY <1>1, <1>6, <1>7, <2>1, <2>3, <3>1, StaysOut
    <2> QED
        BY <2>2, <2>3
<1> QED
    BY <1>5, <1>8, <1>10, <1>11, <1>12, <1>14 DEF ThreadsInv, OneWayOut

-----------------------------------------------------------------------------
(***************************************************************************)
(* The theorems.                                                           *)
(***************************************************************************)
\* A reader changes nothing that the callers share.
LEMMA ReadStep ==
    ASSUME NEW r \in Readers, ReadNext(r)
    PROVE  UNCHANGED <<storeVars, inboxVars, frame>>
BY DEF ReadNext, ReadBegin, ReadMeet, ReadVisit, ReadReturn, ReadRaises, gateVars

\* The steps of commit, approve, forget and bind_embedding, in any interleaving
\* of any number of threads, keep what each of them relies on.
THEOREM ThreadsInvariant == ThreadsSpec => []ThreadsInv
<1>1. ThreadsInit => ThreadsInv
    <2> SUFFICES ASSUME ThreadsInit PROVE ThreadsInv
        OBVIOUS
    <2>1. StoreTypeOK
        BY StoreInitInv DEF ThreadsInit, GateInit, StoreInv
    <2>2. /\ pending = [pid \in PendingIds |-> None] /\ held = pending
          /\ promoted = [pid \in PendingIds |-> None]
          /\ frame = [t \in Threads |-> Idle]
          /\ entries = [id \in MemoryIds |-> None]
          /\ byPrincipal = [tag \in Text |-> {}] /\ byScope = [tag \in Text |-> {}]
        BY DEF ThreadsInit, GateInit, StoreInit
    <2>3. SharedTypeOK
        BY <2>1, <2>2 DEF SharedTypeOK, Optional
    <2>4. /\ frame \in [Threads -> Frame] /\ \A t \in Threads : FrameOK(frame[t])
          /\ \A t \in Threads, pid \in PendingIds : ~Carries(t, pid)
        BY <2>2, IdleFrame DEF Carries
    <2>5. OnlyMintedKnown /\ IndexesOK /\ HeldOK /\ OnlyVerifiedRows
        BY <2>2 DEF OnlyMintedKnown, IndexesOK, RowIndexed, HeldOK, OnlyVerifiedRows, Known, Live
    <2>6. OneWayOut
        BY <2>2, <2>4 DEF OneWayOut, OneWayOutOf
    <2> QED
        BY <2>3, <2>4, <2>5, <2>6 DEF ThreadsInv
<1>2. ThreadsInv /\ [ThreadsNext]_threadVars => ThreadsInv'
    <2> SUFFICES ASSUME ThreadsInv, [ThreadsNext]_threadVars PROVE ThreadsInv'
        OBVIOUS
    <2>1. CASE UNCHANGED threadVars
        BY <2>1, StillInv DEF threadVars, gateVars
    <2>2. ASSUME NEW r \in Readers, ReadNext(r) PROVE ThreadsInv'
        BY <2>2, ReadStep, StillInv
    <2>3. ASSUME NEW t \in Threads, ThreadNext(t) PROVE ThreadsInv'
        <3>1. ASSUME NEW call \in Submissions, CommitRun(t, call) PROVE ThreadsInv'
            BY <3>1, CommitRunInv
        <3>2. embeddings \in [MemoryIds -> Optional(VectorIds)]
            BY DEF ThreadsInv, SharedTypeOK, StoreTypeOK
        <3>3. CASE RenderRaises(t)
            BY <3>2, <3>3, ReturnInv DEF RenderRaises, gateVars, storeVars
        <3>4. CASE Decide(t)
            BY <3>4, DecideInv
        <3>5. CASE AuditReturn(t)
            BY <3>2, <3>5, ReturnInv DEF AuditReturn, storeVars
        <3>6. CASE Configure(t)
            BY <3>6, StillInv DEF Configure, SetMode, AttachLog
        <3>7. ASSUME NEW pid \in PendingIds, Hold(t, pid) \/ ApprovePop(t, pid) \/ ApproveMiss(t, pid)
              PROVE  ThreadsInv'
            BY <3>7, HoldInv, ApprovePopInv, StillInv DEF ApproveMiss, ApproveUnknown
        <3>8. ASSUME NEW id \in MemoryIds, InsertEntry(t, id) PROVE ThreadsInv'
            BY <3>8, InsertEntryInv
        <3>9. CASE IndexPrincipal(t) \/ IndexScope(t)
            BY <3>9, IndexPrincipalInv, IndexScopeInv
        <3>10. ASSUME NEW id \in MemoryIds, NEW who \in Callers, ForgetCheck(t, id, who)
               PROVE  ThreadsInv'
            BY <3>10, ForgetCheckInv
        <3>11. CASE Mark(t) \/ UnindexPrincipal(t) \/ UnindexScope(t) \/ Unbind(t)
            BY <3>11, MarkInv, UnindexPrincipalInv, UnindexScopeInv, UnbindInv
        <3>12. ASSUME NEW id \in MemoryIds, NEW vector \in VectorIds, BindCheck(t, id, vector)
               PROVE  ThreadsInv'
            BY <3>12, BindCheckInv
        <3>13. CASE Bind(t)
            <4>1. frame[t].vector \in Optional(VectorIds)
                BY DEF ThreadsInv, Frame
            <4>2. embeddings' \in [MemoryIds -> Optional(VectorIds)]
                BY <3>2, <3>13, <4>1 DEF Bind
            <4> QED
                BY <3>13, <4>2, ReturnInv DEF Bind, StoreStep
        <3> QED
            BY <2>3, <3>1, <3>3, <3>4, <3>5, <3>6, <3>7, <3>8, <3>9, <3>10, <3>11, <3>12, <3>13
            DEF ThreadNext
    <2> QED
        BY <2>1, <2>2, <2>3 DEF ThreadsNext
<1> QED
    BY <1>1, <1>2, PTL DEF ThreadsSpec

\* dict.pop in approve() gives a held candidate to one thread, so that exactly
\* one row is made of it, however many threads approve it.
THEOREM OneWayOutHolds == ThreadsSpec => []OneWayOut
<1>1. ThreadsInv => OneWayOut
    BY DEF ThreadsInv
<1> QED
    BY <1>1, ThreadsInvariant, PTL

\* Validation and quorum cannot be bypassed by threads that race each other and
\* change the mode.
THEOREM ThreadedRowsAreVerified == ThreadsSpec => []OnlyVerifiedRows
<1>1. ThreadsInv => OnlyVerifiedRows
    BY DEF ThreadsInv
<1> QED
    BY <1>1, ThreadsInvariant, PTL

\* store.insert fills the dict before the indexes, and nothing leaves the dict,
\* so list() always finds the row of an id it took from an index.
THEOREM IndexedKnown == ThreadsSpec => []IndexedAreKnown
<1>1. ThreadsInv => IndexedAreKnown
    BY DEF ThreadsInv, IndexesOK, RowIndexed, IndexedAreKnown
<1> QED
    BY <1>1, ThreadsInvariant, PTL

\* However inserts and deletions interleave, a live row is indexed under its
\* own two tags and no others as soon as its insert is over.
THEOREM LiveRowsAreIndexed == ThreadsSpec => []LiveRowsIndexed
<1>1. ThreadsInv => LiveRowsIndexed
    <2> SUFFICES ASSUME ThreadsInv, NEW id \in MemoryIds, Live(id), ~BeingInserted(id),
                        NEW tag \in Text
                 PROVE  /\ id \in byPrincipal[tag] <=> entries[id].principal = tag
                        /\ id \in byScope[tag] <=> entries[id].scope = tag
        BY DEF LiveRowsIndexed
    <2>1. RowIndexed(id)
        BY DEF ThreadsInv, IndexesOK
    <2>2. \A t \in Threads : frame[t].id = id => frame[t].at # "index"
        BY DEF BeingInserted
    <2> QED
        BY <2>1, <2>2 DEF RowIndexed
<1> QED
    BY <1>1, ThreadsInvariant, PTL

-----------------------------------------------------------------------------
(***************************************************************************)
(* Reads among the writes.                                                 *)
(***************************************************************************)
\* The row carries the principal and the scope that the reader asks for.
FitsQuery(row, filters) ==
    filters # None =>
        /\ filters.principal # None => row.principal = filters.principal
        /\ filters.scope # None => row.scope = filters.scope

\* list() iterates the dict of all rows, which only grows.
WholeDict(filters) == ~Copied(filters) /\ ~ByScopeAlone(filters)

\* What a reader has collected is sound whatever it is yet to visit, and it
\* has passed over no row that is still there.
ReadOK(q) ==
    /\ q.filters # None => q.filters \in ReadFilters
    /\ \A id \in q.gone : IsTombstoned(id)
    /\ \A id \in q.settled : Known(id) /\ ~BeingInserted(id)
    /\ \A id \in q.rows : Known(id) /\ id \notin q.gone /\ FitsQuery(entries[id], q.filters)
    /\ q.at = "meet" =>
           /\ AsksBoth(q.filters) /\ q.seen = {}
           /\ \A id \in q.source : Known(id) /\ entries[id].principal = q.filters.principal
           /\ \A id \in q.settled :
                  IsTombstoned(id) \/ entries[id].principal # q.filters.principal \/ id \in q.source
    /\ q.at = "scan" =>
           /\ \A id \in q.seen : id \in q.rows \/ IsTombstoned(id)
           /\ Copied(q.filters) =>
                  /\ \A id \in q.source : Known(id) /\ FitsQuery(entries[id], q.filters)
                  /\ \A id \in q.settled :
                         IsTombstoned(id) \/ ~FitsQuery(entries[id], q.filters) \/ id \in q.source
           /\ WholeDict(q.filters) => \A id \in q.source : Known(id)
    /\ q.at = "returned" =>
           /\ q.filters # None => \A id \in q.rows : MatchesTags(entries[id], q.filters)
           /\ ~ByScopeAlone(q.filters) =>
                  \A id \in q.settled :
                      \/ IsTombstoned(id) \/ id \in q.rows
                      \/ q.filters # None /\ ~MatchesTags(entries[id], q.filters)
    /\ q.at = "raised" => ~Copied(q.filters)

ReadsInv ==
    /\ read \in [Readers -> ReaderState]
    /\ \A r \in Readers : ReadOK(read[r])

\* A filter that a reader brings.
LEMMA FilterFacts ==
    ASSUME NEW filters \in ReadFilters, filters # None
    PROVE  /\ filters \in RetrievalFilter
           /\ filters.principal \in Optional(Text) /\ filters.scope \in Optional(Text)
BY ThreadsAssumption DEF RetrievalFilter, Optional

\* A row whose insert is over is not inserted again: ids are minted fresh.
LEMMA OnlyInsertingInserts ==
    ASSUME ThreadsInv, NEW t \in Threads, ThreadNext(t),
           NEW id \in MemoryIds, Known(id), ~BeingInserted(id)
    PROVE  ~BeingInserted(id)'
<1>1. frame \in [Threads -> Frame]
    BY DEF ThreadsInv
<1>2. ASSUME NEW new \in MemoryIds, InsertEntry(t, new)
      PROVE  ~BeingInserted(id)'
    <2>1. new # id
        BY <1>2, FreshId DEF InsertEntry, Known
    <2> QED
        BY <1>1, <1>2, <2>1 DEF InsertEntry, BeingInserted
<1>3. CASE IndexPrincipal(t)
    <2>1. frame[t].at = "index" /\ frame' = [frame EXCEPT ![t].at = "scope"]
        BY <1>3 DEF IndexPrincipal, Goto
    <2> QED
        BY <1>1, <2>1 DEF BeingInserted
<1>4. CASE \A u \in Threads : frame'[u].at \in {"index", "scope"} => frame'[u] = frame[u]
    BY <1>4 DEF BeingInserted
<1>5. frame[t] \in Frame
    BY <1>1
<1>6. ASSUME Mark(t) \/ UnindexPrincipal(t) \/ UnindexScope(t) \/ Unbind(t) \/ IndexScope(t)
                \/ Decide(t) \/ \E pid \in PendingIds : Hold(t, pid)
      PROVE  \A u \in Threads : frame'[u].at \in {"index", "scope"} => frame'[u] = frame[u]
    BY <1>1, <1>5, <1>6 DEF Mark, UnindexPrincipal, UnindexScope, Unbind, IndexScope, Decide, Hold,
                            Goto, Frame
<1>7. ASSUME \/ \E call \in Submissions : CommitRun(t, call)
             \/ \E pid \in PendingIds : ApprovePop(t, pid)
             \/ \E i \in MemoryIds, who \in Callers : ForgetCheck(t, i, who)
             \/ \E i \in MemoryIds, vector \in VectorIds : BindCheck(t, i, vector)
      PROVE  \A u \in Threads : frame'[u].at \in {"index", "scope"} => frame'[u] = frame[u]
    <2>1. ASSUME NEW f, Begin(t, f), f.at \notin {"index", "scope"}
          PROVE  \A u \in Threads : frame'[u].at \in {"index", "scope"} => frame'[u] = frame[u]
        BY <1>1, <2>1 DEF Begin
    <2>2. ASSUME NEW call \in Submissions, CommitRun(t, call)
          PROVE  \E f : Begin(t, f) /\ f.at = "render"
        <3>1. PICK f : f = [Idle EXCEPT !.at = "render", !.call = call]
            OBVIOUS
        <3>2. f.at = "render" /\ Begin(t, f)
            BY <2>2, <3>1 DEF CommitRun, Idle
        <3> QED
            BY <3>2
    <2>3. ASSUME NEW pid \in PendingIds, ApprovePop(t, pid)
          PROVE  \E f : Begin(t, f) /\ f.at = "insert"
        <3>1. PICK f : f = [Idle EXCEPT !.at = "insert", !.pid = pid, !.candidate = pending[pid]]
            OBVIOUS
        <3>2. f.at = "insert" /\ Begin(t, f)
            BY <2>3, <3>1 DEF ApprovePop, Idle
        <3> QED
            BY <3>2
    <2>4. ASSUME NEW i \in MemoryIds, NEW who \in Callers, ForgetCheck(t, i, who)
          PROVE  \E f : Begin(t, f) /\ f.at \in {"mark", "audit"}
        <3>1. PICK f : f = [Idle EXCEPT !.at = IF MayTombstone(i, who) THEN "mark" ELSE "audit",
                                      !.id = i, !.row = entries[i], !.who = who,
                                      !.ok = MayTombstone(i, who)]
            OBVIOUS
        <3>2. f.at \in {"mark", "audit"} /\ Begin(t, f)
            BY <2>4, <3>1 DEF ForgetCheck, Idle
        <3> QED
            BY <3>2
    <2>5. ASSUME NEW i \in MemoryIds, NEW vector \in VectorIds, BindCheck(t, i, vector)
          PROVE  \E f : Begin(t, f) /\ f.at = "bind"
        <3>1. PICK f : f = [Idle EXCEPT !.at = "bind", !.id = i, !.vector = vector]
            OBVIOUS
        <3>2. f.at = "bind" /\ Begin(t, f)
            BY <2>5, <3>1 DEF BindCheck, Idle
        <3> QED
            BY <3>2
    <2>6. PICK f : Begin(t, f) /\ f.at \notin {"index", "scope"}
        BY <1>7, <2>2, <2>3, <2>4, <2>5
    <2> QED
        BY <2>1, <2>6
<1>8. ASSUME RenderRaises(t) \/ AuditReturn(t) \/ Bind(t)
      PROVE  \A u \in Threads : frame'[u].at \in {"index", "scope"} => frame'[u] = frame[u]
    BY <1>1, <1>8 DEF RenderRaises, AuditReturn, Bind, Return, Idle
<1>9. CASE UNCHANGED frame
    BY <1>9 DEF BeingInserted
<1>10. ASSUME Configure(t) \/ \E pid \in PendingIds : ApproveMiss(t, pid)
      PROVE  UNCHANGED frame
    BY <1>10 DEF Configure, ApproveMiss
<1> QED
    BY <1>2, <1>3, <1>4, <1>6, <1>7, <1>8, <1>9, <1>10 DEF ThreadNext

\* Rows are written once and stay, and so do tombstones; no caller touches
\* what a reader has in hand.
LEMMA WritersMoveOn ==
    ASSUME ThreadsInv, NEW t \in Threads, ThreadNext(t)
    PROVE  /\ read' = read
           /\ \A id \in MemoryIds : /\ Known(id) => Known(id)' /\ entries'[id] = entries[id]
                                    /\ IsTombstoned(id) => IsTombstoned(id)'
                                    /\ Known(id) /\ ~BeingInserted(id) => ~BeingInserted(id)'
<1>1. ASSUME NEW id \in MemoryIds, InsertEntry(t, id)
      PROVE  read' = read /\ tombstones' = tombstones
             /\ \A i \in MemoryIds : Known(i) => Known(i)' /\ entries'[i] = entries[i]
    BY <1>1, FreshId DEF InsertEntry, Known, ThreadsInv, SharedTypeOK, StoreTypeOK
<1>2. ASSUME Mark(t)
      PROVE  read' = read /\ entries' = entries
             /\ \A i \in MemoryIds : IsTombstoned(i) => IsTombstoned(i)'
    <2>1. frame[t].who # None /\ tombstones' = [tombstones EXCEPT ![frame[t].id] = frame[t].who]
        BY <1>2 DEF Mark, Goto, ThreadsInv, FrameOK
    <2>2. tombstones \in [MemoryIds -> Optional(Text)]
        BY DEF ThreadsInv, SharedTypeOK, StoreTypeOK
    <2> QED
        BY <1>2, <2>1, <2>2 DEF Mark, StoreStep, IsTombstoned
<1>3. ASSUME UNCHANGED <<entries, tombstones, read>>
      PROVE  /\ read' = read /\ entries' = entries
             /\ \A i \in MemoryIds : IsTombstoned(i) => IsTombstoned(i)'
    BY <1>3 DEF IsTombstoned
<1>4. \/ \E id \in MemoryIds : InsertEntry(t, id)
      \/ Mark(t)
      \/ UNCHANGED <<entries, tombstones, read>>
    BY DEF ThreadNext, CommitRun, RenderRaises, Decide, AuditReturn, Configure, Hold, ApprovePop,
           ApproveMiss, ApproveUnknown, IndexPrincipal, IndexScope, ForgetCheck, UnindexPrincipal,
           UnindexScope, Unbind, BindCheck, Bind, StoreStep, SetMode, AttachLog, gateVars, storeVars
<1>5. ASSUME NEW id \in MemoryIds, Known(id), ~BeingInserted(id)
      PROVE  ~BeingInserted(id)'
    BY <1>5, OnlyInsertingInserts
<1> QED
    BY <1>1, <1>2, <1>3, <1>4, <1>5 DEF Known, IsTombstoned

\* So what a reader has found out so far stays true.
LEMMA ReadKept ==
    ASSUME ReadsInv, read' = read,
           \A id \in MemoryIds : /\ Known(id) => Known(id)' /\ entries'[id] = entries[id]
                                 /\ IsTombstoned(id) => IsTombstoned(id)'
                                 /\ Known(id) /\ ~BeingInserted(id) => ~BeingInserted(id)'
    PROVE  ReadsInv'
<1> SUFFICES ASSUME NEW r \in Readers PROVE ReadOK(read[r])'
    BY DEF ReadsInv
<1>1. PICK q \in ReaderState : q = read[r] /\ q = read'[r] /\ ReadOK(q)
    BY DEF ReadsInv
<1>2. /\ q.source \subseteq MemoryIds /\ q.seen \subseteq MemoryIds /\ q.rows \subseteq MemoryIds
      /\ q.gone \subseteq MemoryIds /\ q.settled \subseteq MemoryIds
    BY DEF ReaderState
<1>3. ReadOK(q)'
    BY <1>1, <1>2 DEF ReadOK
<1> QED
    BY <1>1, <1>3

\* One reader moves on.
LEMMA ReaderMoves ==
    ASSUME ReadsInv, NEW r \in Readers, NEW q \in ReaderState, ReadOK(q),
           read' = [read EXCEPT ![r] = q], UNCHANGED <<gateVars, frame>>
    PROVE  ReadsInv'
<1>1. entries' = entries /\ tombstones' = tombstones /\ frame' = frame
    BY DEF gateVars, storeVars
<1>2. /\ read' \in [Readers -> ReaderState] /\ read'[r] = q
      /\ \A other \in Readers \ {r} : read'[other] = read[other]
    BY DEF ReadsInv
<1>3. \A other \in Readers : ReadOK(read'[other])
    BY <1>2 DEF ReadsInv
<1>4. ASSUME NEW other \in Readers PROVE ReadOK(read[other])'
    BY <1>1, <1>3 DEF ReadOK, Known, IsTombstoned, BeingInserted
<1> QED
    BY <1>2, <1>4 DEF ReadsInv

\* An id that an index or the dict yields is that of a row the reader asks for.
LEMMA BucketFits ==
    ASSUME ThreadsInv, NEW filters \in ReadFilters
    PROVE  /\ Bucket(filters) \subseteq MemoryIds
           /\ \A id \in Bucket(filters) :
                  /\ Known(id)
                  /\ Copied(filters) => entries[id].principal = filters.principal
                  /\ ~AsksBoth(filters) => FitsQuery(entries[id], filters)
           /\ WholeDict(filters) => Bucket(filters) = {id \in MemoryIds : Known(id)}
           /\ Copied(filters) => Bucket(filters) = byPrincipal[filters.principal]
<1>1. CASE filters = None
    BY <1>1 DEF Bucket, FitsQuery, Copied, WholeDict, ByScopeAlone
<1>2. CASE filters # None
    <2>1. /\ byPrincipal \in [Text -> SUBSET MemoryIds] /\ byScope \in [Text -> SUBSET MemoryIds]
          /\ \A id \in MemoryIds : RowIndexed(id)
        BY DEF ThreadsInv, SharedTypeOK, StoreTypeOK, IndexesOK
    <2> QED
        BY <1>2, <2>1, FilterFacts
        DEF Bucket, FitsQuery, WholeDict, Copied, ByScopeAlone, AsksBoth, RowIndexed, Optional
<1> QED
    BY <1>1, <1>2

-----------------------------------------------------------------------------
(***************************************************************************)
(* The steps of list().                                                    *)
(***************************************************************************)
LEMMA ReadBeginInv ==
    ASSUME ThreadsInv, ReadsInv, NEW r \in Readers, NEW filters \in ReadFilters,
           ReadBegin(r, filters)
    PROVE  ReadsInv'
<1> DEFINE gone    == {id \in MemoryIds : IsTombstoned(id)}
           settled == {id \in MemoryIds : Live(id) /\ ~BeingInserted(id)}
<1>1. PICK q : q = [at |-> IF AsksBoth(filters) THEN "meet" ELSE "scan", filters |-> filters, source |-> Bucket(filters), seen |-> {},
                    rows |-> {}, gone |-> gone, settled |-> settled]
    OBVIOUS
<1>2. q \in ReaderState
    <2>1. filters \in Optional(RetrievalFilter)
        BY FilterFacts DEF Optional
    <2> QED
        BY <1>1, <2>1, BucketFits DEF ReaderState
<1>3. ASSUME Copied(filters), NEW id \in settled, entries[id].principal = filters.principal
      PROVE  id \in Bucket(filters)
    <2>1. RowIndexed(id) /\ \A t \in Threads : frame[t].id = id => frame[t].at # "index"
        BY DEF ThreadsInv, IndexesOK, BeingInserted
    <2> QED
        BY <1>3, <2>1, BucketFits DEF RowIndexed
<1>4. \A id \in settled : Known(id) /\ ~BeingInserted(id)
    BY DEF Live
<1>5. ReadOK(q)
    <2>1. CASE AsksBoth(filters)
        BY <1>1, <1>3, <1>4, <2>1, BucketFits DEF ReadOK, AsksBoth, Copied
    <2>2. CASE ~AsksBoth(filters)
        <3>1. ASSUME Copied(filters), NEW id \in settled, FitsQuery(entries[id], filters)
              PROVE  id \in Bucket(filters)
            BY <1>3, <3>1 DEF FitsQuery, Copied
        <3>2. \A id \in Bucket(filters) : Known(id) /\ FitsQuery(entries[id], filters)
            BY <2>2, BucketFits
        <3> QED
            BY <1>1, <1>4, <2>2, <3>1, <3>2 DEF ReadOK
    <2> QED
        BY <2>1, <2>2
<1>6. read' = [read EXCEPT ![r] = q] /\ UNCHANGED <<gateVars, frame>>
    BY <1>1 DEF ReadBegin
<1> QED
    BY <1>2, <1>5, <1>6, ReaderMoves

\* What a reader has in hand while it scans.
LEMMA Scanning ==
    ASSUME ThreadsInv, ReadsInv, NEW r \in Readers, read[r].at = "scan"
    PROVE  /\ read[r] \in ReaderState /\ ReadOK(read[r])
           /\ \A id \in Remaining(r) :
                  id \in MemoryIds /\ Known(id) /\ FitsQuery(entries[id], read[r].filters)
<1> DEFINE q == read[r]
<1>1. q \in ReaderState /\ ReadOK(q)
    BY DEF ReadsInv
<1>2. q.source \subseteq MemoryIds
    BY <1>1 DEF ReaderState
<1> HIDE DEF q
<1>3. ASSUME NEW id \in (IF Copied(q.filters) THEN q.source ELSE Bucket(q.filters))
      PROVE  id \in MemoryIds /\ Known(id) /\ FitsQuery(entries[id], q.filters)
    <2>1. CASE Copied(q.filters)
        <3>1. q.filters \in ReadFilters /\ q.filters # None
            BY <1>1, <2>1 DEF ReadOK, Copied
        <3>2. q.at = "scan"
            BY DEF q
        <3> QED
            BY <1>1, <1>2, <1>3, <2>1, <3>1, <3>2 DEF ReadOK
    <2>2. CASE q.filters # None /\ ~Copied(q.filters)
        BY <1>1, <1>3, <2>2, BucketFits DEF ReadOK, Copied, AsksBoth
    <2>3. CASE q.filters = None
        BY <1>3, <2>3 DEF Bucket, Copied, FitsQuery
    <2> QED
        BY <2>1, <2>2, <2>3
<1> QED
    BY <1>1, <1>3 DEF Remaining, q

\* The copied ids meet the scope's index: a row that was there before the read
\* began is in it, unless it is deleted or of another scope.
LEMMA ReadMeetInv ==
    ASSUME ThreadsInv, ReadsInv, NEW r \in Readers, ReadMeet(r)
    PROVE  ReadsInv'
<1>1. PICK old \in ReaderState : old = read[r] /\ ReadOK(old) /\ old.at = "meet"
    BY DEF ReadMeet, ReadsInv
<1>2. PICK filters : filters = old.filters /\ filters \in ReadFilters /\ AsksBoth(filters)
    BY <1>1 DEF ReadOK, AsksBoth
<1>3. filters # None /\ filters.principal # None /\ filters.scope \in Text
    BY <1>2, FilterFacts DEF AsksBoth, Optional
<1>4. PICK q : q = [old EXCEPT !.at = "scan", !.source = old.source \cap byScope[filters.scope]]
    OBVIOUS
<1>5. /\ q \in ReaderState /\ q.at = "scan" /\ q.filters = filters /\ q.gone = old.gone
      /\ q.settled = old.settled /\ q.seen = old.seen /\ q.rows = old.rows
      /\ q.source = old.source \cap byScope[filters.scope]
    BY <1>1, <1>2, <1>4 DEF ReaderState
<1>6. \A id \in MemoryIds : RowIndexed(id)
    BY DEF ThreadsInv, IndexesOK
<1>7. old.source \subseteq MemoryIds /\ old.settled \subseteq MemoryIds
    BY <1>1 DEF ReaderState
<1>8. ASSUME NEW id \in q.source
      PROVE  Known(id) /\ FitsQuery(entries[id], filters)
    BY <1>1, <1>2, <1>3, <1>5, <1>6, <1>7, <1>8 DEF ReadOK, RowIndexed, FitsQuery
<1>9. ASSUME NEW id \in q.settled, ~IsTombstoned(id), FitsQuery(entries[id], filters)
      PROVE  id \in q.source
    <2>1. Live(id) /\ ~BeingInserted(id) /\ id \in MemoryIds
        BY <1>1, <1>5, <1>7, <1>9 DEF ReadOK, Live
    <2>2. entries[id].principal = filters.principal /\ entries[id].scope = filters.scope
        BY <1>2, <1>9 DEF FitsQuery, AsksBoth
    <2>3. id \in old.source
        BY <1>1, <1>2, <1>5, <1>9, <2>2 DEF ReadOK
    <2> QED
        BY <1>5, <1>6, <2>1, <2>2, <2>3 DEF RowIndexed
<1>10. ReadOK(q)
    BY <1>1, <1>2, <1>5, <1>8, <1>9 DEF ReadOK, WholeDict, Copied, AsksBoth
<1>11. read' = [read EXCEPT ![r] = q] /\ UNCHANGED <<gateVars, frame>>
    BY <1>1, <1>2, <1>4 DEF ReadMeet
<1> QED
    BY <1>5, <1>10, <1>11, ReaderMoves

\* The steps of a reader.
LEMMA ReadVisitInv ==
    ASSUME ThreadsInv, ReadsInv, NEW r \in Readers, NEW id \in MemoryIds, ReadVisit(r, id)
    PROVE  ReadsInv'
<1>1. PICK old \in ReaderState : old = read[r] /\ ReadOK(old) /\ old.at = "scan"
    BY Scanning DEF ReadVisit
<1>2. PICK q : q = [old EXCEPT !.seen = @ \cup {id},
                               !.rows = IF IsTombstoned(id) THEN @ ELSE @ \cup {id}]
    OBVIOUS
<1>3. /\ q \in ReaderState /\ q.at = "scan" /\ q.filters = old.filters /\ q.source = old.source
      /\ q.gone = old.gone /\ q.settled = old.settled /\ q.seen = old.seen \cup {id}
      /\ q.rows = (IF IsTombstoned(id) THEN old.rows ELSE old.rows \cup {id})
    BY <1>1, <1>2 DEF ReaderState
<1>4. Known(id) /\ FitsQuery(entries[id], old.filters)
    BY <1>1, Scanning DEF ReadVisit
<1>5. ReadOK(q)
    BY <1>1, <1>3, <1>4 DEF ReadOK
<1>6. read' = [read EXCEPT ![r] = q] /\ UNCHANGED <<gateVars, frame>>
    BY <1>1, <1>2 DEF ReadVisit
<1> QED
    BY <1>3, <1>5, <1>6, ReaderMoves

\* A dict that only grows and has kept its size is the same dict.
LEMMA SameSizeSameDict ==
    ASSUME ThreadsInv, ReadsInv, NEW r \in Readers, read[r].at = "scan",
           WholeDict(read[r].filters), SameSize(r)
    PROVE  Bucket(read[r].filters) = read[r].source
<1>1. PICK filters : filters = read[r].filters
    OBVIOUS
<1>2. Bucket(filters) = {id \in MemoryIds : Known(id)}
    BY <1>1, Scanning, BucketFits DEF ReadOK, Bucket
<1>3. read[r].source \subseteq Bucket(filters)
    BY <1>1, <1>2, Scanning DEF ReadOK, ReaderState
<1>4. IsFiniteSet(Bucket(filters))
    BY <1>2, IdAssumption, FS_Subset
<1>5. Cardinality(Bucket(filters)) = Cardinality(read[r].source)
    BY <1>1 DEF SameSize, WholeDict
<1> QED
    BY <1>1, <1>3, <1>4, <1>5, FS_Subset

LEMMA ReadReturnInv ==
    ASSUME ThreadsInv, ReadsInv, NEW r \in Readers, ReadReturn(r)
    PROVE  ReadsInv'
<1>1. PICK old \in ReaderState : old = read[r] /\ ReadOK(old) /\ old.at = "scan"
    BY Scanning DEF ReadReturn
<1>2. PICK q : q = [old EXCEPT !.at = "returned",
                               !.rows = IF old.filters = None THEN @
                                        ELSE {id \in @ : HasClassification(id, old.filters)}]
    OBVIOUS
<1>3. /\ q \in ReaderState /\ q.at = "returned" /\ q.filters = old.filters
      /\ q.gone = old.gone /\ q.settled = old.settled
      /\ q.rows = (IF old.filters = None THEN old.rows
                   ELSE {id \in old.rows : HasClassification(id, old.filters)})
    BY <1>1, <1>2 DEF ReaderState
<1>4. \A row, filters : filters # None =>
          (MatchesTags(row, filters) <=>
               /\ FitsQuery(row, filters)
               /\ filters.classification # None => row.classification = filters.classification)
    BY DEF MatchesTags, FitsQuery
<1>5. ASSUME ~ByScopeAlone(old.filters),
             NEW id \in old.settled, ~IsTombstoned(id),
             old.filters # None => MatchesTags(entries[id], old.filters)
      PROVE  id \in old.rows
    <2>1. Known(id) /\ id \in MemoryIds
        BY <1>1 DEF ReadOK, ReaderState
    <2>2. Remaining(r) = {} \/ (~Copied(old.filters) /\ Bucket(old.filters) # old.source)
        BY <1>1 DEF ReadReturn
    <2>3. CASE Copied(old.filters)
        <3>1. id \in old.source
            BY <1>1, <1>4, <1>5, <2>3 DEF ReadOK, Copied
        <3>2. old.source \ old.seen = {}
            BY <1>1, <2>2, <2>3 DEF Remaining
        <3> QED
            BY <1>1, <1>5, <3>1, <3>2 DEF ReadOK
    <2>4. CASE ~Copied(old.filters)
        <3>1. WholeDict(old.filters)
            BY <1>5, <2>4 DEF WholeDict
        <3>2. Bucket(old.filters) = old.source
            BY <1>1, <3>1, SameSizeSameDict DEF ReadReturn
        <3>3. Bucket(old.filters) \ old.seen = {}
            BY <1>1, <2>2, <2>4, <3>2 DEF Remaining
        <3>4. id \in Bucket(old.filters)
            BY <1>1, <2>1, <3>1, BucketFits DEF ReadOK, Bucket
        <3> QED
            BY <1>1, <1>5, <3>3, <3>4 DEF ReadOK
    <2> QED
        BY <2>3, <2>4
<1>6. ReadOK(q)
    <2>1. q.filters # None => \A id \in q.rows : MatchesTags(entries[id], q.filters)
        BY <1>1, <1>3, <1>4 DEF ReadOK, HasClassification
    <2>2. ~ByScopeAlone(q.filters) =>
              \A id \in q.settled :
                  \/ IsTombstoned(id) \/ id \in q.rows
                  \/ q.filters # None /\ ~MatchesTags(entries[id], q.filters)
        BY <1>3, <1>4, <1>5 DEF HasClassification
    <2> QED
        BY <1>1, <1>3, <2>1, <2>2 DEF ReadOK
<1>7. read' = [read EXCEPT ![r] = q] /\ UNCHANGED <<gateVars, frame>>
    BY <1>1, <1>2 DEF ReadReturn
<1> QED
    BY <1>3, <1>6, <1>7, ReaderMoves

LEMMA ReadRaisesInv ==
    ASSUME ThreadsInv, ReadsInv, NEW r \in Readers, ReadRaises(r)
    PROVE  ReadsInv'
<1>1. PICK old \in ReaderState : old = read[r] /\ ReadOK(old) /\ old.at = "scan"
    BY Scanning DEF ReadRaises
<1>2. PICK q : q = [old EXCEPT !.at = "raised"]
    OBVIOUS
<1>3. /\ q \in ReaderState /\ q.at = "raised" /\ q.filters = old.filters /\ q.rows = old.rows
      /\ q.gone = old.gone /\ q.settled = old.settled
    BY <1>1, <1>2 DEF ReaderState
<1>4. ~Copied(old.filters)
    BY <1>1 DEF ReadRaises, SameSize
<1>5. ReadOK(q)
    BY <1>1, <1>3, <1>4 DEF ReadOK
<1>6. read' = [read EXCEPT ![r] = q] /\ UNCHANGED <<gateVars, frame>>
    BY <1>1, <1>2 DEF ReadRaises
<1> QED
    BY <1>3, <1>5, <1>6, ReaderMoves

\* A reader keeps what it needs to know, whoever inserts and deletes meanwhile.
THEOREM ReadersInvariant == ThreadsSpec => []ReadsInv
<1>1. ThreadsInit => ReadsInv
    <2> SUFFICES ASSUME ThreadsInit PROVE ReadsInv
        OBVIOUS
    <2>1. read = [r \in Readers |-> Unread] /\ Unread \in ReaderState /\ ReadOK(Unread)
        BY DEF ThreadsInit, Unread, ReaderState, ReadOK, Optional
    <2> QED
        BY <2>1 DEF ReadsInv
<1>2. ThreadsInv /\ ReadsInv /\ [ThreadsNext]_threadVars => ReadsInv'
    <2> SUFFICES ASSUME ThreadsInv, ReadsInv, [ThreadsNext]_threadVars PROVE ReadsInv'
        OBVIOUS
    <2>1. CASE UNCHANGED threadVars
        BY <2>1, ReadKept DEF threadVars, gateVars, storeVars, Known, IsTombstoned, BeingInserted
    <2>2. ASSUME NEW t \in Threads, ThreadNext(t) PROVE ReadsInv'
        BY <2>2, WritersMoveOn, ReadKept
    <2>3. ASSUME NEW r \in Readers, ReadNext(r) PROVE ReadsInv'
        BY <2>3, ReadBeginInv, ReadMeetInv, ReadVisitInv, ReadReturnInv, ReadRaisesInv DEF ReadNext
    <2> QED
        BY <2>1, <2>2, <2>3 DEF ThreadsNext
<1> QED
    BY <1>1, <1>2, ThreadsInvariant, PTL DEF ThreadsSpec

\* list() gives out no row that was deleted before it began, and none of other
\* tags than those it was asked for, in any interleaving with the writers.
THEOREM ReadsSound == ThreadsSpec => []ReadsAreSound
<1>1. ReadsInv => ReadsAreSound
    BY DEF ReadsInv, ReadOK, ReadsAreSound
<1> QED
    BY <1>1, ReadersInvariant, PTL

\* list() of everything, or by principal with or without a scope, that returns
\* at all returns every row it was asked for that was there before it began and
\* is there when it is compared.
THEOREM ReadsComplete == ThreadsSpec => []ReadsAreComplete
<1>1. ReadsInv => ReadsAreComplete
    BY DEF ReadsInv, ReadOK, ReadsAreComplete, Live
<1> QED
    BY <1>1, ReadersInvariant, PTL

\* The set() in list() around a principal's index keeps its reader from failing
\* when the index changes under it.
THEOREM OwnReadsSurvive == ThreadsSpec => []OwnReadsSurviveWrites
<1>1. ReadsInv => OwnReadsSurviveWrites
    BY DEF ReadsInv, ReadOK, OwnReadsSurviveWrites, Copied
<1> QED
    BY <1>1, ReadersInvariant, PTL

-----------------------------------------------------------------------------
(***************************************************************************)
(* The log among the threads.                                              *)
(***************************************************************************)
\* What a thread needs to know for the audit row it has yet to leave.
TaskOK(f) ==
    /\ f.call # None => f.who = None /\ latest \in PipelineResult
    /\ f.at \in {"render", "hold", "insert"} => f.id = None /\ f.who = None
    /\ f.at \in {"index", "scope"} => f.who = None
    /\ f.at \in {"insert", "index", "scope", "audit"} /\ f.call = None /\ f.who = None =>
           f.candidate \in CandidateExperience
    /\ f.at = "audit" /\ f.call = None => f.id # None
    /\ f.at \in {"mark", "unindex", "unscope", "unbind"} => f.who # None /\ f.ok
    /\ f.who # None => f.id # None
    /\ f.who # None /\ f.ok =>
           /\ f.at \in {"mark", "unindex", "unscope", "unbind", "audit"}
           /\ Known(f.id) /\ f.who = entries[f.id].principal
           /\ f.at # "mark" => IsTombstoned(f.id)

\* The thread has written the row, or deleted it, and not yet said so.
Writes(t, id) ==
    /\ frame[t].id = id /\ frame[t].who = None
    /\ frame[t].at \in {"index", "scope", "audit"}

Deletes(t, id) ==
    /\ frame[t].id = id /\ frame[t].who # None /\ frame[t].ok
    /\ frame[t].at \in {"unindex", "unscope", "unbind", "audit"}

\* A row is in the log, or written before there was one, or in the hands of
\* the one thread that has just written it.
WriteAccounted(id) ==
    /\ \A t, u \in Threads : Writes(t, id) /\ Writes(u, id) => t = u
    /\ \A t \in Threads : Writes(t, id) => Known(id) /\ id \notin unlogged.written
    /\ IF Known(id) /\ id \notin unlogged.written /\ \A t \in Threads : ~Writes(t, id)
       THEN /\ \E i \in DOMAIN auditLog : IsCommitRow(auditLog[i], id)
            /\ \A i, j \in DOMAIN auditLog :
                   IsCommitRow(auditLog[i], id) /\ IsCommitRow(auditLog[j], id) => i = j
       ELSE \A i \in DOMAIN auditLog : ~IsCommitRow(auditLog[i], id)

\* So is a deletion, but several threads may have it in hand and leave a row each.
DeletionAccounted(id) ==
    /\ \A i \in DOMAIN auditLog : IsDeletionRow(auditLog[i], id) =>
           Known(id) /\ IsTombstoned(id) /\ auditLog[i].actor = entries[id].principal
    /\ IsTombstoned(id) => \/ id \in unlogged.deleted
                           \/ \E i \in DOMAIN auditLog : IsDeletionRow(auditLog[i], id)
                           \/ \E t \in Threads : Deletes(t, id)

LedgerInv ==
    /\ GateTypeOK
    /\ \A t \in Threads : TaskOK(frame[t])
    /\ UnloggedStays
    /\ \A id \in MemoryIds : WriteAccounted(id) /\ DeletionAccounted(id)
    /\ \A i \in DOMAIN auditLog :
           auditLog[i].status = "committed" \/ auditLog[i].kind = "deletion" =>
               auditLog[i].memory_id \in MemoryIds

\* The types of what a step leaves behind.
LEMMA Typed ==
    ASSUME GateTypeOK, ThreadsInv', AuditTypeOK', mode' \in GateMode, attached' \in BOOLEAN,
           latest' \in Optional(PipelineResult)
    PROVE  GateTypeOK'
BY DEF GateTypeOK, AuditTypeOK, ThreadsInv, SharedTypeOK

\* A step that does not touch the ledger keeps the types of what the gate keeps.
LEMMA TypedStep ==
    ASSUME LedgerInv, ThreadsInv', UNCHANGED <<auditVars, mode, attached>>,
           latest' \in Optional(PipelineResult)
    PROVE  GateTypeOK' /\ auditLog' = auditLog /\ unlogged' = unlogged
BY Typed DEF LedgerInv, GateTypeOK, AuditTypeOK, auditVars

\* A step of one thread that neither writes nor deletes a row nor says so.
LEMMA LedgerKept ==
    ASSUME ThreadsInv, LedgerInv, ThreadsInv', UNCHANGED <<auditVars, mode, attached>>,
           latest' = latest \/ latest' \in PipelineResult,
           NEW t \in Threads, frame'[t] \in Frame, TaskOK(frame[t])',
           \A u \in Threads \ {t} : frame'[u] = frame[u],
           UNCHANGED <<entries, tombstones>>,
           \A id \in MemoryIds : /\ Writes(t, id)' <=> Writes(t, id)
                                 /\ Deletes(t, id)' <=> Deletes(t, id)
    PROVE  LedgerInv'
<1>1. GateTypeOK' /\ auditLog' = auditLog /\ unlogged' = unlogged
    BY TypedStep DEF LedgerInv, GateTypeOK, Optional
<1>2. \A id : (Known(id)' <=> Known(id)) /\ (IsTombstoned(id)' <=> IsTombstoned(id))
    BY DEF Known, IsTombstoned
<1>3. ASSUME NEW u \in Threads PROVE TaskOK(frame[u])'
    <2>1. CASE u = t
        BY <2>1
    <2>2. CASE u # t
        <3>1. frame'[u] = frame[u] /\ TaskOK(frame[u])
            BY <2>2 DEF LedgerInv
        <3> QED
            BY <1>2, <3>1 DEF TaskOK
    <2> QED
        BY <2>1, <2>2
<1>4. UnloggedStays'
    BY <1>1, <1>2 DEF LedgerInv, UnloggedStays
<1>5. ASSUME NEW id \in MemoryIds PROVE WriteAccounted(id)' /\ DeletionAccounted(id)'
    <2>1. \A u \in Threads : /\ Writes(u, id)' <=> Writes(u, id)
                             /\ Deletes(u, id)' <=> Deletes(u, id)
        BY DEF Writes, Deletes
    <2>2. WriteAccounted(id) /\ DeletionAccounted(id)
        BY DEF LedgerInv
    <2>3. WriteAccounted(id)'
        BY <1>1, <1>2, <2>1, <2>2 DEF WriteAccounted
    <2>4. DeletionAccounted(id)'
        BY <1>1, <1>2, <2>1, <2>2 DEF DeletionAccounted
    <2> QED
        BY <2>3, <2>4
<1> QED
    BY <1>1, <1>3, <1>4, <1>5 DEF LedgerInv

\* Nothing that LedgerInv speaks of has changed, but a log may be attached now.
LEMMA LedgerStill ==
    ASSUME LedgerInv, ThreadsInv',
           UNCHANGED <<entries, tombstones, frame, auditLog, unlogged, latest>>,
           calls' \in Nat, mode' \in GateMode, attached' \in BOOLEAN
    PROVE  LedgerInv'
<1>1. GateTypeOK'
    BY Typed DEF LedgerInv, GateTypeOK, AuditTypeOK
<1>2. /\ \A id : (Known(id)' <=> Known(id)) /\ (IsTombstoned(id)' <=> IsTombstoned(id))
      /\ \A t, id : (Writes(t, id)' <=> Writes(t, id)) /\ (Deletes(t, id)' <=> Deletes(t, id))
    BY DEF Known, IsTombstoned, Writes, Deletes
<1>3. \A t \in Threads : TaskOK(frame[t])'
    BY <1>2 DEF LedgerInv, TaskOK
<1>4. UnloggedStays' /\ \A id \in MemoryIds : WriteAccounted(id)' /\ DeletionAccounted(id)'
    BY <1>2 DEF LedgerInv, UnloggedStays, WriteAccounted, DeletionAccounted
<1> QED
    BY <1>1, <1>3, <1>4 DEF LedgerInv

\* A thread moves from one label to the next inside the store, or returns from
\* it, and has written or deleted as much as before.
LEMMA LedgerOnward ==
    ASSUME ThreadsInv, LedgerInv, ThreadsInv', NEW t \in Threads, NEW here, NEW there \in Labels,
           Goto(t, here, there),
           UNCHANGED <<entries, tombstones, auditVars, mode, attached, latest>>,
           \/ here = "index" /\ there = "scope"
           \/ here = "scope" /\ there = "audit"
           \/ here = "unindex" /\ there = "unscope"
           \/ here = "unscope" /\ there = "unbind"
           \/ here = "unbind" /\ there = "audit"
    PROVE  LedgerInv'
<1>1. PICK f \in Frame : f = frame[t] /\ f.at = here /\ FrameOK(f) /\ TaskOK(f)
    BY DEF ThreadsInv, LedgerInv, Goto
<1>2. PICK g : g = [f EXCEPT !.at = there]
    OBVIOUS
<1>3. /\ g \in Frame /\ g.at = there /\ g.id = f.id /\ g.who = f.who /\ g.ok = f.ok
      /\ g.call = f.call /\ g.candidate = f.candidate
    BY <1>1, <1>2 DEF Frame
<1>4. frame'[t] = g /\ \A u \in Threads \ {t} : frame'[u] = frame[u]
    BY <1>1, <1>2 DEF Goto, ThreadsInv
<1>5. TaskOK(g)'
    BY <1>1, <1>3 DEF TaskOK, FrameOK, Known, IsTombstoned
<1>6. /\ here \in {"index", "scope"} => f.who = None
      /\ here \in {"unindex", "unscope", "unbind"} => f.who # None
    BY <1>1 DEF TaskOK
<1>7. ASSUME NEW id \in MemoryIds
      PROVE  (Writes(t, id)' <=> Writes(t, id)) /\ (Deletes(t, id)' <=> Deletes(t, id))
    BY <1>1, <1>3, <1>4, <1>6 DEF Writes, Deletes
<1> QED
    BY <1>3, <1>4, <1>5, <1>7, LedgerKept

-----------------------------------------------------------------------------
(***************************************************************************)
(* The steps that begin, end or decide a call.                             *)
(***************************************************************************)
LEMMA IdleTask ==
    /\ Idle \in Frame /\ Idle.at = "idle" /\ Idle.who = None
    /\ TaskOK(Idle) /\ TaskOK(Idle)'
BY IdleFrame DEF Idle, TaskOK

\* A call begins, and has neither written nor deleted anything yet.
LEMMA LedgerBegin ==
    ASSUME ThreadsInv, LedgerInv, ThreadsInv', UNCHANGED <<auditVars, mode, attached>>,
           latest' = latest \/ latest' \in PipelineResult,
           NEW t \in Threads, NEW f \in Frame, Begin(t, f), TaskOK(f)',
           f.at \in {"render", "insert", "mark", "bind"} \/ (f.who # None /\ ~f.ok),
           UNCHANGED <<entries, tombstones>>
    PROVE  LedgerInv'
<1>1. frame[t].at = "idle" /\ frame'[t] = f /\ \A u \in Threads \ {t} : frame'[u] = frame[u]
    BY DEF Begin, ThreadsInv
<1>2. \A id \in MemoryIds : /\ Writes(t, id)' <=> Writes(t, id)
                            /\ Deletes(t, id)' <=> Deletes(t, id)
    BY <1>1 DEF Writes, Deletes
<1> QED
    BY <1>1, <1>2, LedgerKept

\* The steps in which a call begins leave the ledger alone.
LEMMA CommitRunLedger ==
    ASSUME ThreadsInv, LedgerInv, ThreadsInv', NEW t \in Threads, NEW call \in Submissions,
           CommitRun(t, call)
    PROVE  LedgerInv'
<1>1. PICK f : f = [Idle EXCEPT !.at = "render", !.call = call]
    OBVIOUS
<1>2. f \in Frame /\ f.at = "render" /\ f.id = None /\ f.who = None
    BY <1>1 DEF Idle, Frame, Labels, Optional
<1>3. latest' \in PipelineResult
    BY OutcomeFacts DEF CommitRun
<1>4. TaskOK(f)'
    BY <1>2, <1>3 DEF TaskOK
<1> QED
    BY <1>1, <1>2, <1>3, <1>4, LedgerBegin DEF CommitRun, storeVars

LEMMA DecideLedger ==
    ASSUME ThreadsInv, LedgerInv, ThreadsInv', NEW t \in Threads, Decide(t)
    PROVE  LedgerInv'
<1>1. PICK f \in Frame : /\ f = frame[t] /\ f.at = "render" /\ FrameOK(f) /\ TaskOK(f)
                         /\ f.call # None /\ f.id = None /\ f.who = None
                         /\ latest \in PipelineResult
    BY DEF ThreadsInv, LedgerInv, Decide, FrameOK, TaskOK
<1>2. PICK there \in {"audit", "hold", "insert"} :
          frame' = [frame EXCEPT ![t].candidate = Outcome[f.call].candidate, ![t].at = there]
    BY <1>1 DEF Decide
<1>3. PICK g : g = [f EXCEPT !.candidate = Outcome[f.call].candidate, !.at = there]
    OBVIOUS
<1>4. /\ g \in Frame /\ g.at = there /\ g.id = None /\ g.who = None /\ g.call = f.call
    <2>1. there \in Labels /\ Outcome[f.call].candidate \in Optional(CandidateExperience)
        BY <1>1, OutcomeFacts DEF Labels, Frame, Optional
    <2> QED
        BY <1>1, <1>3, <2>1 DEF Frame
<1>5. frame'[t] = g /\ \A u \in Threads \ {t} : frame'[u] = frame[u]
    BY <1>1, <1>2, <1>3 DEF ThreadsInv
<1>6. UNCHANGED <<entries, tombstones, auditVars, mode, attached, latest>>
    BY DEF Decide, gateVars, storeVars
<1>7. TaskOK(g)'
    BY <1>1, <1>4, <1>6 DEF TaskOK
<1>8. ASSUME NEW id \in MemoryIds
      PROVE  (Writes(t, id)' <=> Writes(t, id)) /\ (Deletes(t, id)' <=> Deletes(t, id))
    BY <1>1, <1>4, <1>5, GateAssumption DEF Writes, Deletes
<1> QED
    BY <1>4, <1>5, <1>6, <1>7, <1>8, LedgerKept

LEMMA HoldLedger ==
    ASSUME ThreadsInv, LedgerInv, ThreadsInv', NEW t \in Threads, NEW pid \in PendingIds,
           Hold(t, pid)
    PROVE  LedgerInv'
<1>1. PICK f \in Frame : /\ f = frame[t] /\ f.at = "hold" /\ f.call # None /\ f.id = None
                         /\ f.who = None /\ latest \in PipelineResult
    BY DEF ThreadsInv, LedgerInv, Hold, FrameOK, TaskOK
<1>2. PICK g : g = [f EXCEPT !.at = "audit", !.pid = pid]
    OBVIOUS
<1>3. /\ g \in Frame /\ g.at = "audit" /\ g.id = None /\ g.who = None /\ g.call = f.call
    <2>1. "audit" \in Labels /\ pid \in Optional(PendingIds)
        BY DEF Labels, Optional
    <2> QED
        BY <1>1, <1>2, <2>1 DEF Frame
<1>4. frame'[t] = g /\ \A u \in Threads \ {t} : frame'[u] = frame[u]
    BY <1>1, <1>2 DEF Hold, ThreadsInv
<1>5. UNCHANGED <<entries, tombstones, auditVars, mode, attached, latest>>
    BY DEF Hold, storeVars
<1>6. TaskOK(g)'
    BY <1>1, <1>3, <1>5 DEF TaskOK
<1>7. ASSUME NEW id \in MemoryIds
      PROVE  (Writes(t, id)' <=> Writes(t, id)) /\ (Deletes(t, id)' <=> Deletes(t, id))
    BY <1>1, <1>3, <1>4, GateAssumption DEF Writes, Deletes
<1> QED
    BY <1>3, <1>4, <1>5, <1>6, <1>7, LedgerKept

LEMMA ApprovePopLedger ==
    ASSUME ThreadsInv, LedgerInv, ThreadsInv', NEW t \in Threads, NEW pid \in PendingIds,
           ApprovePop(t, pid)
    PROVE  LedgerInv'
<1>1. pending[pid] \in CandidateExperience
    BY DEF ApprovePop, ThreadsInv, SharedTypeOK, Optional
<1>2. PICK f : f = [Idle EXCEPT !.at = "insert", !.pid = pid, !.candidate = pending[pid]]
    OBVIOUS
<1>3. /\ f \in Frame /\ f.at = "insert" /\ f.id = None /\ f.who = None /\ f.call = None
      /\ f.candidate \in CandidateExperience
    BY <1>1, <1>2 DEF Idle, Frame, Labels, Optional
<1>4. TaskOK(f)'
    BY <1>3 DEF TaskOK
<1> QED
    BY <1>2, <1>3, <1>4, LedgerBegin DEF ApprovePop, storeVars

LEMMA ForgetCheckLedger ==
    ASSUME ThreadsInv, LedgerInv, ThreadsInv', NEW t \in Threads, NEW id \in MemoryIds,
           NEW who \in Callers, ForgetCheck(t, id, who)
    PROVE  LedgerInv'
<1>1. /\ who \in Text /\ who # None /\ id # None /\ entries[id] \in Optional(MemoryEntry)
      /\ MayTombstone(id, who) \in BOOLEAN
      /\ MayTombstone(id, who) => Known(id) /\ who = entries[id].principal
    BY GateAssumption, TextAssumption
    DEF MayTombstone, Live, Known, IsTombstoned, ThreadsInv, SharedTypeOK, StoreTypeOK
<1>2. PICK ok \in BOOLEAN, there \in {"mark", "audit"}, row \in Optional(MemoryEntry) :
          /\ ok = MayTombstone(id, who) /\ there = (IF MayTombstone(id, who) THEN "mark" ELSE "audit")
          /\ row = entries[id]
    BY <1>1
<1>3. PICK f : f = [Idle EXCEPT !.at = there, !.id = id, !.row = row, !.who = who, !.ok = ok]
    OBVIOUS
<1>4. /\ f \in Frame /\ f.at = there /\ f.id = id /\ f.who = who /\ f.call = None /\ f.ok = ok
    <2>1. there \in Labels /\ id \in Optional(MemoryIds) /\ who \in Optional(Text)
        BY <1>1 DEF Labels, Optional
    <2>2. f = [at |-> there, call |-> None, candidate |-> None, pid |-> None, row |-> row,
               id |-> id, who |-> who, vector |-> None, ok |-> ok]
        BY <1>3 DEF Idle
    <2> QED
        BY <2>1, <2>2 DEF Frame, Optional
<1>5. Begin(t, f) /\ UNCHANGED <<entries, tombstones, auditVars, mode, attached, latest>>
    <2>1. [Idle EXCEPT !.at = IF MayTombstone(id, who) THEN "mark" ELSE "audit",
                       !.id = id, !.row = entries[id], !.who = who,
                       !.ok = MayTombstone(id, who)] = f
        BY <1>2, <1>3 DEF Idle
    <2> QED
        BY <2>1 DEF ForgetCheck, gateVars, storeVars
<1>6. TaskOK(f)'
    BY <1>1, <1>2, <1>4, <1>5 DEF TaskOK, Known
<1>7. f.at \in {"render", "insert", "mark", "bind"} \/ (f.who # None /\ ~f.ok)
    BY <1>1, <1>2, <1>4
<1> QED
    BY <1>4, <1>5, <1>6, <1>7, LedgerBegin

LEMMA BindCheckLedger ==
    ASSUME ThreadsInv, LedgerInv, ThreadsInv', NEW t \in Threads, NEW id \in MemoryIds,
           NEW vector \in VectorIds, BindCheck(t, id, vector)
    PROVE  LedgerInv'
<1>1. PICK f : f = [Idle EXCEPT !.at = "bind", !.id = id, !.vector = vector]
    OBVIOUS
<1>2. f \in Frame /\ f.at = "bind" /\ f.who = None /\ f.call = None
    BY <1>1 DEF Idle, Frame, Labels, Optional
<1>3. TaskOK(f)'
    BY <1>2 DEF TaskOK
<1> QED
    BY <1>1, <1>2, <1>3, LedgerBegin DEF BindCheck, gateVars, storeVars

\* A call that returns without an audit row has written nothing.
LEMMA ReturnLedger ==
    ASSUME ThreadsInv, LedgerInv, ThreadsInv', NEW t \in Threads, NEW here \in {"render", "bind"},
           Return(t, here), UNCHANGED <<entries, tombstones, auditVars, mode, attached, latest>>
    PROVE  LedgerInv'
<1>1. frame[t].at = here /\ frame'[t] = Idle /\ \A u \in Threads \ {t} : frame'[u] = frame[u]
    BY DEF Return, ThreadsInv
<1>2. ASSUME NEW id \in MemoryIds
      PROVE  (Writes(t, id)' <=> Writes(t, id)) /\ (Deletes(t, id)' <=> Deletes(t, id))
    BY <1>1, IdleTask DEF Writes, Deletes
<1> QED
    BY <1>1, <1>2, IdleTask, LedgerKept

-----------------------------------------------------------------------------
(***************************************************************************)
(* The steps that write a row, delete one, and say so.                     *)
(***************************************************************************)
LEMMA InsertEntryLedger ==
    ASSUME ThreadsInv, LedgerInv, ThreadsInv', NEW t \in Threads, NEW id \in MemoryIds,
           InsertEntry(t, id)
    PROVE  LedgerInv'
<1>1. PICK f \in Frame : f = frame[t] /\ f.at = "insert" /\ TaskOK(f) /\ FrameOK(f)
    BY DEF ThreadsInv, LedgerInv, InsertEntry
<1>2. PICK g : g = frame'[t]
    OBVIOUS
<1>3. /\ g \in Frame /\ g = [f EXCEPT !.at = "index", !.id = id, !.row = FromCandidate(f.candidate)]
      /\ \A u \in Threads \ {t} : frame'[u] = frame[u]
    BY <1>1, <1>2 DEF InsertEntry, ThreadsInv
<1>4. g.at = "index" /\ g.id = id /\ g.who = None /\ g.call = f.call /\ g.candidate = f.candidate
    BY <1>1, <1>3 DEF Frame, TaskOK
<1>5. /\ UNCHANGED <<tombstones, auditVars, mode, attached, latest>>
      /\ id \notin minted /\ ~Known(id) /\ id # None
    BY FreshId, GateAssumption DEF InsertEntry
<1>6. /\ Known(id)'
      /\ \A i \in MemoryIds \ {id} : entries'[i] = entries[i] /\ (Known(i)' <=> Known(i))
      /\ \A i : IsTombstoned(i)' <=> IsTombstoned(i)
    <2>1. frame'[t].at = "index" /\ frame'[t].id = id
        BY <1>2, <1>4
    <2>2. Known(id)'
        BY <2>1 DEF ThreadsInv, FrameOK
    <2> QED
        BY <1>5, <2>2 DEF InsertEntry, ThreadsInv, SharedTypeOK, StoreTypeOK, Known, IsTombstoned
<1>7. GateTypeOK' /\ auditLog' = auditLog /\ unlogged' = unlogged
    BY <1>5, TypedStep DEF LedgerInv, GateTypeOK
<1>8. ASSUME NEW u \in Threads PROVE TaskOK(frame[u])'
    <2>1. CASE u = t
        BY <1>1, <1>2, <1>4, <1>5, <2>1 DEF TaskOK
    <2>2. CASE u # t
        <3>1. frame'[u] = frame[u] /\ TaskOK(frame[u]) /\ frame[u] \in Frame
            BY <1>3, <2>2 DEF LedgerInv, ThreadsInv
        <3>2. frame[u].id # None => frame[u].id \in MemoryIds
            BY <3>1 DEF Frame, Optional
        <3> QED
            BY <1>5, <1>6, <3>1, <3>2 DEF TaskOK
    <2> QED
        BY <2>1, <2>2
<1>9. UnloggedStays'
    BY <1>5, <1>6, <1>7 DEF LedgerInv, UnloggedStays, GateTypeOK
<1>10. ASSUME NEW u \in Threads, NEW i \in MemoryIds
       PROVE  /\ Writes(u, i)' <=> Writes(u, i) \/ (u = t /\ i = id)
              /\ Deletes(u, i)' <=> Deletes(u, i)
    <2>1. CASE u = t
        BY <1>1, <1>2, <1>4, <2>1 DEF Writes, Deletes
    <2>2. CASE u # t
        <3>1. frame'[u] = frame[u]
            BY <1>3, <2>2
        <3> QED
            BY <2>2, <3>1 DEF Writes, Deletes
    <2> QED
        BY <2>1, <2>2
<1>11. ASSUME NEW i \in MemoryIds PROVE WriteAccounted(i)'
    <2>1. WriteAccounted(i)
        BY DEF LedgerInv
    <2>2. CASE i = id
        <3>1. id \notin unlogged.written
            BY <1>5 DEF LedgerInv, UnloggedStays
        <3>2. /\ \A u \in Threads : ~Writes(u, id)
              /\ \A k \in DOMAIN auditLog : ~IsCommitRow(auditLog[k], id)
            BY <1>5, <2>1, <2>2 DEF WriteAccounted
        <3> QED
            BY <1>6, <1>7, <1>10, <2>2, <3>1, <3>2 DEF WriteAccounted
    <2>3. CASE i # id
        BY <1>6, <1>7, <1>10, <2>1, <2>3 DEF WriteAccounted
    <2> QED
        BY <2>2, <2>3
<1>12. ASSUME NEW i \in MemoryIds PROVE DeletionAccounted(i)'
    <2>1. DeletionAccounted(i)
        BY DEF LedgerInv
    <2> QED
        BY <1>5, <1>6, <1>7, <1>10, <2>1 DEF DeletionAccounted
<1> QED
    BY <1>7, <1>8, <1>9, <1>11, <1>12 DEF LedgerInv

LEMMA MarkLedger ==
    ASSUME ThreadsInv, LedgerInv, ThreadsInv', NEW t \in Threads, Mark(t)
    PROVE  LedgerInv'
<1>1. PICK f \in Frame : /\ f = frame[t] /\ f.at = "mark" /\ TaskOK(f) /\ FrameOK(f)
                         /\ f.id \in MemoryIds /\ f.who # None /\ f.ok /\ Known(f.id)
    <2>1. frame[t] \in Frame /\ frame[t].at = "mark" /\ TaskOK(frame[t]) /\ FrameOK(frame[t])
        BY DEF ThreadsInv, LedgerInv, Mark, Goto
    <2> QED
        BY <2>1, "mark" \in Labels, Inside DEF TaskOK, Labels
<1>2. PICK g : g = [f EXCEPT !.at = "unindex"]
    OBVIOUS
<1>3. /\ g \in Frame /\ g.at = "unindex" /\ g.id = f.id /\ g.who = f.who /\ g.ok = f.ok
      /\ g.call = f.call
    BY <1>1, <1>2 DEF Frame, Labels
<1>4. frame'[t] = g /\ \A u \in Threads \ {t} : frame'[u] = frame[u]
    BY <1>1, <1>2 DEF Mark, Goto, ThreadsInv
<1>5. UNCHANGED <<entries, auditVars, mode, attached, latest>>
    BY DEF Mark, StoreStep
<1>6. /\ \A i : Known(i)' <=> Known(i)
      /\ \A i \in MemoryIds : IsTombstoned(i)' <=> IsTombstoned(i) \/ i = f.id
    BY <1>1, <1>5 DEF Mark, ThreadsInv, SharedTypeOK, StoreTypeOK, Known, IsTombstoned
<1>7. GateTypeOK' /\ auditLog' = auditLog /\ unlogged' = unlogged
    BY <1>5, TypedStep DEF LedgerInv, GateTypeOK
<1>8. ASSUME NEW u \in Threads PROVE TaskOK(frame[u])'
    <2>1. CASE u = t
        BY <1>1, <1>3, <1>4, <1>5, <1>6, <2>1 DEF TaskOK
    <2>2. CASE u # t
        <3>1. frame'[u] = frame[u] /\ TaskOK(frame[u]) /\ frame[u] \in Frame
            BY <1>4, <2>2 DEF LedgerInv, ThreadsInv
        <3>2. frame[u].id # None => frame[u].id \in MemoryIds
            BY <3>1 DEF Frame, Optional
        <3> QED
            BY <1>5, <1>6, <3>1, <3>2 DEF TaskOK
    <2> QED
        BY <2>1, <2>2
<1>9. UnloggedStays'
    BY <1>6, <1>7 DEF LedgerInv, UnloggedStays, GateTypeOK
<1>10. \A u \in Threads, i \in MemoryIds :
           /\ Writes(u, i)' <=> Writes(u, i)
           /\ Deletes(u, i)' <=> Deletes(u, i) \/ (u = t /\ i = f.id)
    BY <1>1, <1>3, <1>4 DEF Writes, Deletes
<1>11. ASSUME NEW i \in MemoryIds PROVE WriteAccounted(i)' /\ DeletionAccounted(i)'
    <2>1. WriteAccounted(i) /\ DeletionAccounted(i)
        BY DEF LedgerInv
    <2>2. WriteAccounted(i)'
        BY <1>6, <1>7, <1>10, <2>1 DEF WriteAccounted
    <2>3. DeletionAccounted(i)'
        BY <1>5, <1>6, <1>7, <1>10, <2>1 DEF DeletionAccounted
    <2> QED
        BY <2>2, <2>3
<1> QED
    BY <1>7, <1>8, <1>9, <1>11 DEF LedgerInv

\* The row that a thread leaves says what the thread has done, and no more.
LEMMA RecordTellsTheTask ==
    ASSUME ThreadsInv, LedgerInv, NEW t \in Threads, frame[t].at = "audit"
    PROVE  /\ FrameRecord(frame[t]) \in AuditRecord
           /\ \/ FrameRecord(frame[t]).status = "committed"
              \/ FrameRecord(frame[t]).kind = "deletion"
              => FrameRecord(frame[t]).memory_id \in MemoryIds
           /\ FrameRecord(frame[t]).kind = "deletion" =>
                  FrameRecord(frame[t]).status = None /\ FrameRecord(frame[t]).actor = frame[t].who
           /\ \A id \in MemoryIds :
                  /\ IsCommitRow(FrameRecord(frame[t]), id) <=> Writes(t, id)
                  /\ IsDeletionRow(FrameRecord(frame[t]), id) <=> Deletes(t, id)
<1>1. PICK f \in Frame : f = frame[t] /\ f.at = "audit" /\ TaskOK(f)
    BY DEF ThreadsInv, LedgerInv
<1>2. PICK record : record = FrameRecord(f)
    OBVIOUS
<1>3. /\ None \notin MemoryIds /\ None \notin CommitStatus
      /\ f.id \in Optional(MemoryIds) /\ f.pid \in Optional(PendingIds)
      /\ f.candidate \in Optional(CandidateExperience)
    BY <1>1, GateAssumption DEF Frame
<1>4. CASE f.call # None
    <2>1. f.call \in Submissions /\ f.who = None /\ latest \in PipelineResult
        BY <1>1, <1>4 DEF Frame, Optional, TaskOK
    <2>2. Status(f) \in CommitStatus /\ (Status(f) = "committed" <=> f.id # None)
        BY DEF Status, CommitStatus
    <2>3. PICK candidate \in Optional(CandidateExperience) :
              candidate = IF f.candidate # None THEN f.candidate ELSE latest.candidate
        BY <1>3, <2>1 DEF PipelineResult
    <2>4. record = WriteRecord(f.call.context.principal, Status(f), f.id, f.pid, candidate,
                               VerifierAudits(Outcome[f.call]))
        BY <1>2, <1>4, <2>3 DEF FrameRecord, CommitRecord
    <2>5. /\ record \in AuditRecord /\ record.kind = "write" /\ record.status = Status(f)
          /\ record.memory_id = f.id
        BY <1>3, <2>1, <2>2, <2>4, OutcomeFacts, VerifierAuditsType, RecordTypes
    <2> QED
        BY <1>1, <1>2, <1>3, <2>1, <2>2, <2>5
        DEF IsCommitRow, IsDeletionRow, Writes, Deletes, Optional
<1>5. CASE f.call = None /\ f.who # None
    <2>1. f.who \in Text /\ f.id \in MemoryIds /\ f.ok \in BOOLEAN
        BY <1>1, <1>5 DEF Frame, Optional, TaskOK
    <2>2. record = DeletionRecord(f.who, f.id, f.ok)
        BY <1>2, <1>5 DEF FrameRecord
    <2>3. /\ record \in AuditRecord /\ record.kind = "deletion" /\ record.status = None
          /\ record.memory_id = f.id /\ record.actor = f.who /\ record.success = f.ok
        BY <2>1, <2>2, RecordTypes
    <2> QED
        BY <1>1, <1>2, <1>3, <1>5, <2>1, <2>3
        DEF IsCommitRow, IsDeletionRow, Writes, Deletes, CommitStatus
<1>6. CASE f.call = None /\ f.who = None
    <2>1. f.id \in MemoryIds /\ f.candidate \in CandidateExperience
        BY <1>1, <1>6 DEF Frame, Optional, TaskOK
    <2>2. /\ record = WriteRecord(f.candidate.principal, "committed", f.id, None, f.candidate, <<>>)
          /\ f.candidate.principal \in Text
        BY <1>2, <1>6, <2>1 DEF FrameRecord, CandidateExperience
    <2>3. PICK status \in CommitStatus, pid \in Optional(PendingIds), verifiers \in Seq(VerifierOutcome) :
              status = "committed" /\ pid = None /\ verifiers = <<>>
        <3>1. <<>> \in Seq(VerifierOutcome)
            OBVIOUS
        <3>2. "committed" \in CommitStatus /\ None \in Optional(PendingIds)
            BY DEF CommitStatus, Optional
        <3> QED
            BY <3>1, <3>2
    <2>4. PICK actor \in Text : record = WriteRecord(actor, status, f.id, pid, f.candidate, verifiers)
        BY <2>2, <2>3
    <2>5. /\ record \in AuditRecord /\ record.kind = "write" /\ record.status = status
          /\ record.memory_id = f.id
        BY <1>3, <2>4, RecordTypes
    <2> QED
        BY <1>1, <1>2, <1>3, <1>6, <2>1, <2>3, <2>5 DEF IsCommitRow, IsDeletionRow, Writes, Deletes
<1> QED
    BY <1>4, <1>5, <1>6

LEMMA AuditReturnLedger ==
    ASSUME ThreadsInv, LedgerInv, ThreadsInv', NEW t \in Threads, AuditReturn(t)
    PROVE  LedgerInv'
<1>1. PICK record \in AuditRecord :
          /\ Audit(record)
          /\ record.status = "committed" \/ record.kind = "deletion" => record.memory_id \in MemoryIds
          /\ record.kind = "deletion" => record.status = None /\ record.actor = frame[t].who
          /\ \A id \in MemoryIds : /\ IsCommitRow(record, id) <=> Writes(t, id)
                                   /\ IsDeletionRow(record, id) <=> Deletes(t, id)
    BY RecordTellsTheTask DEF AuditReturn, Return
<1>2. /\ frame'[t] = Idle /\ \A u \in Threads \ {t} : frame'[u] = frame[u]
      /\ UNCHANGED <<entries, tombstones, mode, attached, latest>>
    BY DEF AuditReturn, Return, ThreadsInv, storeVars
<1>3. \A id : (Known(id)' <=> Known(id)) /\ (IsTombstoned(id)' <=> IsTombstoned(id))
    BY <1>2 DEF Known, IsTombstoned
<1>4. GateTypeOK'
    BY <1>1, <1>2, AuditTyped, Typed DEF LedgerInv, GateTypeOK
<1>5. ASSUME NEW u \in Threads PROVE TaskOK(frame[u])'
    <2>1. CASE u = t
        BY <1>2, <2>1, IdleTask
    <2>2. CASE u # t
        <3>1. frame'[u] = frame[u] /\ TaskOK(frame[u])
            BY <1>2, <2>2 DEF LedgerInv
        <3> QED
            BY <1>2, <1>3, <3>1 DEF TaskOK
    <2> QED
        BY <2>1, <2>2
<1>6. \A u \in Threads, id \in MemoryIds :
          /\ Writes(u, id)' <=> Writes(u, id) /\ u # t
          /\ Deletes(u, id)' <=> Deletes(u, id) /\ u # t
    BY <1>2, IdleTask DEF Writes, Deletes
<1>7. ASSUME NEW id \in MemoryIds
      PROVE  /\ WriteAccounted(id) /\ DeletionAccounted(id) /\ UnloggedStays /\ GateTypeOK
             /\ Deletes(t, id) => /\ Known(id) /\ IsTombstoned(id)
                                  /\ frame[t].who = entries[id].principal
    BY DEF LedgerInv, Deletes, TaskOK
<1>8. CASE attached
    <2>1. auditLog' = Append(auditLog, record) /\ unlogged' = unlogged
        BY <1>1, <1>8 DEF Audit
    <2>2. /\ Len(auditLog) \in Nat
          /\ DOMAIN auditLog = 1..Len(auditLog) /\ DOMAIN auditLog' = 1..(Len(auditLog) + 1)
          /\ \A i \in 1..Len(auditLog) : auditLog'[i] = auditLog[i]
          /\ auditLog'[Len(auditLog) + 1] = record
        BY <1>1, <2>1, Appended DEF LedgerInv
    <2>3. UnloggedStays'
        BY <1>3, <2>1 DEF LedgerInv, UnloggedStays
    <2>4. ASSUME NEW id \in MemoryIds PROVE WriteAccounted(id)'
        <3>1. CASE Writes(t, id)
            <4>1. /\ Known(id) /\ id \notin unlogged.written /\ \A u \in Threads : ~Writes(u, id)'
                  /\ \A i \in DOMAIN auditLog : ~IsCommitRow(auditLog[i], id)
                  /\ IsCommitRow(record, id)
                BY <1>1, <1>6, <1>7, <3>1 DEF WriteAccounted
            <4>2. \A i \in DOMAIN auditLog' :
                      IsCommitRow(auditLog'[i], id) <=> i = Len(auditLog) + 1
                BY <2>2, <4>1
            <4> QED
                BY <1>3, <2>1, <2>2, <4>1, <4>2 DEF WriteAccounted
        <3>2. CASE ~Writes(t, id)
            <4>1. ~IsCommitRow(record, id) /\ \A u \in Threads : Writes(u, id)' <=> Writes(u, id)
                BY <1>1, <1>6, <3>2
            <4>2. \A i \in DOMAIN auditLog' :
                      IsCommitRow(auditLog'[i], id) <=> i \in DOMAIN auditLog /\ IsCommitRow(auditLog[i], id)
                BY <2>2, <4>1
            <4> QED
                BY <1>3, <1>7, <2>1, <2>2, <4>1, <4>2 DEF WriteAccounted
        <3> QED
            BY <3>1, <3>2
    <2>5. ASSUME NEW id \in MemoryIds PROVE DeletionAccounted(id)'
        <3>1. /\ IsDeletionRow(record, id) <=> Deletes(t, id)
              /\ IsDeletionRow(record, id) => record.actor = frame[t].who
            BY <1>1 DEF IsDeletionRow
        <3>2. \A i \in DOMAIN auditLog' : IsDeletionRow(auditLog'[i], id) =>
                  Known(id) /\ IsTombstoned(id) /\ auditLog'[i].actor = entries[id].principal
            BY <1>7, <2>2, <3>1 DEF DeletionAccounted
        <3>3. (\E i \in DOMAIN auditLog : IsDeletionRow(auditLog[i], id)) \/ Deletes(t, id) =>
                  \E i \in DOMAIN auditLog' : IsDeletionRow(auditLog'[i], id)
            BY <2>2, <3>1
        <3> QED
            BY <1>2, <1>3, <1>6, <1>7, <2>1, <3>2, <3>3 DEF DeletionAccounted
    <2>6. \A i \in DOMAIN auditLog' :
              auditLog'[i].status = "committed" \/ auditLog'[i].kind = "deletion" =>
                  auditLog'[i].memory_id \in MemoryIds
        BY <1>1, <2>2 DEF LedgerInv
    <2> QED
        BY <1>4, <1>5, <2>3, <2>4, <2>5, <2>6 DEF LedgerInv
<1>9. CASE ~attached
    <2>1. auditLog' = auditLog
        BY <1>1, <1>9 DEF Audit
    <2>2. ASSUME NEW id \in MemoryIds
          PROVE  /\ id \in unlogged'.written <=> id \in unlogged.written \/ Writes(t, id)
                 /\ id \in unlogged'.deleted <=> id \in unlogged.deleted \/ Deletes(t, id)
        <3>1. None # "committed"
            BY GateAssumption DEF CommitStatus
        <3>2. unlogged \in [written : SUBSET MemoryIds, deleted : SUBSET MemoryIds]
            BY DEF LedgerInv, GateTypeOK
        <3>3. CASE record.status = "committed"
            <4>1. unlogged' = [unlogged EXCEPT !.written = @ \cup {record.memory_id}]
                BY <1>1, <1>9, <3>1, <3>3 DEF Audit
            <4> QED
                BY <1>1, <3>1, <3>2, <3>3, <4>1 DEF IsCommitRow, IsDeletionRow
        <3>4. CASE record.kind = "deletion" /\ record.success
            <4>1. unlogged' = [unlogged EXCEPT !.deleted = @ \cup {record.memory_id}]
                BY <1>1, <1>9, <3>1, <3>4 DEF Audit
            <4> QED
                BY <1>1, <3>1, <3>2, <3>4, <4>1 DEF IsCommitRow, IsDeletionRow
        <3>5. CASE record.status # "committed" /\ ~(record.kind = "deletion" /\ record.success)
            <4>1. unlogged' = unlogged
                BY <1>1, <1>9, <3>5 DEF Audit
            <4> QED
                BY <1>1, <3>5, <4>1 DEF IsCommitRow, IsDeletionRow
        <3> QED
            BY <3>3, <3>4, <3>5
    <2>3. UnloggedStays'
        <3>1. unlogged'.written \subseteq MemoryIds /\ unlogged'.deleted \subseteq MemoryIds
            BY <1>4 DEF GateTypeOK
        <3> QED
            BY <1>3, <1>7, <2>2, <3>1 DEF UnloggedStays, WriteAccounted
    <2>4. ASSUME NEW id \in MemoryIds PROVE WriteAccounted(id)'
        BY <1>3, <1>6, <1>7, <2>1, <2>2 DEF WriteAccounted
    <2>5. ASSUME NEW id \in MemoryIds PROVE DeletionAccounted(id)'
        BY <1>2, <1>3, <1>6, <1>7, <2>1, <2>2 DEF DeletionAccounted
    <2> QED
        BY <1>4, <1>5, <2>1, <2>3, <2>4, <2>5 DEF LedgerInv
<1> QED
    BY <1>8, <1>9 DEF LedgerInv, GateTypeOK

\* The threads between them account for every row and every deletion.
THEOREM LedgerInvariant == ThreadsSpec => []LedgerInv
<1>1. ThreadsInit => LedgerInv
    <2> SUFFICES ASSUME ThreadsInit PROVE LedgerInv
        OBVIOUS
    <2>1. GateTypeOK
        BY StoreInitInv, GateAssumption DEF ThreadsInit, GateInit, GateTypeOK, StoreInv, Optional
    <2>2. \A t \in Threads : TaskOK(frame[t]) /\ frame[t].at = "idle"
        BY IdleTask DEF ThreadsInit
    <2>3. /\ \A id \in MemoryIds : ~Known(id) /\ ~IsTombstoned(id)
          /\ auditLog = <<>> /\ unlogged.written = {} /\ unlogged.deleted = {}
        BY DEF ThreadsInit, GateInit, StoreInit, Known, IsTombstoned
    <2> QED
        BY <2>1, <2>2, <2>3
        DEF LedgerInv, UnloggedStays, WriteAccounted, DeletionAccounted, Writes, Deletes
<1>2. ThreadsInv /\ ThreadsInv' /\ LedgerInv /\ [ThreadsNext]_threadVars => LedgerInv'
    <2> SUFFICES ASSUME ThreadsInv, ThreadsInv', LedgerInv, [ThreadsNext]_threadVars
                 PROVE  LedgerInv'
        OBVIOUS
    <2>0. calls \in Nat /\ mode \in GateMode /\ attached \in BOOLEAN
        BY DEF LedgerInv, GateTypeOK
    <2>1. CASE UNCHANGED <<gateVars, frame>>
        BY <2>0, <2>1, LedgerStill DEF gateVars, storeVars, auditVars
    <2>2. ASSUME NEW r \in Readers, ReadNext(r) PROVE LedgerInv'
        BY <2>1, <2>2 DEF ReadNext, ReadBegin, ReadMeet, ReadVisit, ReadReturn, ReadRaises
    <2>3. ASSUME NEW t \in Threads, ThreadNext(t) PROVE LedgerInv'
        <3>1. ASSUME NEW call \in Submissions, CommitRun(t, call) PROVE LedgerInv'
            BY <3>1, CommitRunLedger
        <3>2. CASE RenderRaises(t)
            BY <3>2, ReturnLedger DEF RenderRaises, gateVars, storeVars
        <3>3. CASE Decide(t) \/ AuditReturn(t)
            BY <3>3, DecideLedger, AuditReturnLedger
        <3>4. CASE Configure(t)
            BY <2>0, <3>4, LedgerStill DEF Configure, SetMode, AttachLog, storeVars, auditVars
        <3>5. ASSUME NEW pid \in PendingIds, Hold(t, pid) \/ ApprovePop(t, pid)
              PROVE  LedgerInv'
            BY <3>5, HoldLedger, ApprovePopLedger
        <3>6. ASSUME NEW pid \in PendingIds, ApproveMiss(t, pid) PROVE LedgerInv'
            BY <2>0, <3>6, LedgerStill DEF ApproveMiss, ApproveUnknown, storeVars
        <3>7. ASSUME NEW id \in MemoryIds, InsertEntry(t, id) PROVE LedgerInv'
            BY <3>7, InsertEntryLedger
        <3>8. CASE IndexPrincipal(t) \/ IndexScope(t)
            BY <3>8, LedgerOnward DEF IndexPrincipal, IndexScope, StoreStep, Labels
        <3>9. ASSUME NEW id \in MemoryIds, NEW who \in Callers, ForgetCheck(t, id, who)
              PROVE  LedgerInv'
            BY <3>9, ForgetCheckLedger
        <3>10. CASE Mark(t)
            BY <3>10, MarkLedger
        <3>11. CASE UnindexPrincipal(t) \/ UnindexScope(t) \/ Unbind(t)
            BY <3>11, LedgerOnward DEF UnindexPrincipal, UnindexScope, Unbind, StoreStep, Labels
        <3>12. ASSUME NEW id \in MemoryIds, NEW vector \in VectorIds, BindCheck(t, id, vector)
               PROVE  LedgerInv'
            BY <3>12, BindCheckLedger
        <3>13. CASE Bind(t)
            BY <3>13, ReturnLedger DEF Bind, StoreStep
        <3> QED
            BY <2>3, <3>1, <3>2, <3>3, <3>4, <3>5, <3>6, <3>7, <3>8, <3>9, <3>10, <3>11, <3>12, <3>13
            DEF ThreadNext
    <2> QED
        BY <2>1, <2>2, <2>3 DEF ThreadsNext, threadVars
<1> QED
    BY <1>1, <1>2, ThreadsInvariant, PTL DEF ThreadsSpec

\* Threads that take no lock still leave one "committed" row for each row of
\* the store, however their calls interleave.
THEOREM ThreadedWritesReconcile == ThreadsSpec => []WritesReconcileAtRest
<1>1. LedgerInv => WritesReconcileAtRest
    <2> SUFFICES ASSUME LedgerInv PROVE WritesReconcileAtRest
        OBVIOUS
    <2>1. Quiescent => WritesReconcile
        <3> SUFFICES ASSUME Quiescent, NEW id \in MemoryIds PROVE WriteReconciles(id)
            BY ById
        <3>1. \A t \in Threads : ~Writes(t, id)
            BY DEF Quiescent, Writes
        <3> QED
            BY <3>1 DEF LedgerInv, WriteAccounted, WriteReconciles
    <2>2. ASSUME NEW i \in DOMAIN auditLog, NEW j \in DOMAIN auditLog,
                 auditLog[i].status = "committed"
          PROVE  /\ Known(auditLog[i].memory_id)
                 /\ auditLog[j].status = "committed" /\ auditLog[j].memory_id = auditLog[i].memory_id
                        => i = j
        <3>1. PICK id \in MemoryIds : id = auditLog[i].memory_id /\ IsCommitRow(auditLog[i], id)
            BY <2>2 DEF LedgerInv, IsCommitRow
        <3>2. /\ Known(id)
              /\ \A k \in DOMAIN auditLog : IsCommitRow(auditLog[k], id) => i = k
            BY <3>1 DEF LedgerInv, WriteAccounted
        <3> QED
            BY <3>1, <3>2 DEF IsCommitRow
    <2> QED
        BY <2>1, <2>2 DEF WritesReconcileAtRest
<1> QED
    BY <1>1, LedgerInvariant, PTL

\* Of racing deletions each may be logged as the one that succeeded, but none
\* that had no effect, and none in another principal's name; at rest no
\* deletion is missing from the log.
THEOREM ThreadedDeletionsAccounted == ThreadsSpec => []DeletionsAccounted
<1>1. LedgerInv => DeletionsAccounted
    <2> SUFFICES ASSUME LedgerInv PROVE DeletionsAccounted
        OBVIOUS
    <2>1. ASSUME NEW i \in DOMAIN auditLog, auditLog[i].kind = "deletion", auditLog[i].success
          PROVE  /\ IsTombstoned(auditLog[i].memory_id)
                 /\ auditLog[i].actor = entries[auditLog[i].memory_id].principal
        BY <2>1 DEF LedgerInv, DeletionAccounted, IsDeletionRow
    <2>2. ASSUME Quiescent, NEW id \in MemoryIds, IsTombstoned(id), id \notin unlogged.deleted
          PROVE  \E i \in DOMAIN auditLog : IsDeletionRow(auditLog[i], id)
        BY <2>2 DEF LedgerInv, DeletionAccounted, Quiescent, Deletes
    <2> QED
        BY <2>1, <2>2 DEF DeletionsAccounted
<1> QED
    BY <1>1, LedgerInvariant, PTL

\* Every attribute that the threads share, and every frame and reader, keeps
\* its type.
THEOREM ThreadsTypes == ThreadsSpec => []ThreadsTypeOK
<1>1. ThreadsInv /\ LedgerInv /\ ReadsInv => ThreadsTypeOK
    BY DEF ThreadsInv, LedgerInv, ReadsInv, ThreadsTypeOK
<1> QED
    BY <1>1, ThreadsInvariant, LedgerInvariant, ReadersInvariant, PTL

-----------------------------------------------------------------------------
(***************************************************************************)
(* The store as it is seen through its point reads.                        *)
(***************************************************************************)
\* A thread is about to bind a row that is there; if the row was deleted since
\* the thread's check, the deletion has overtaken it.
BindOK(f) ==
    /\ f.id \in MemoryIds /\ Known(f.id) /\ f.vector \in VectorIds
    /\ IsTombstoned(f.id) => f.id \in raced

LifeInv ==
    /\ \A id \in MemoryIds : IsTombstoned(id) => Known(id)
    /\ \A t \in Threads : frame[t].at = "bind" => BindOK(frame[t])
    /\ GhostsComeOfRaces

Deleting == {"unindex", "unscope", "unbind"}

\* A step that neither marks a row nor touches a vector: it only has to keep
\* deletions going and to start no binding of a row that is not there.
LEMMA LifeKept ==
    ASSUME LifeInv, raced \subseteq raced', UNCHANGED <<tombstones, embeddings>>,
           \A id \in MemoryIds : Known(id) => Known(id)',
           \A t \in Threads : frame[t].at \in Deleting =>
               frame'[t].at \in Deleting /\ frame'[t].id = frame[t].id,
           \A t \in Threads : frame'[t].at = "bind" /\ frame'[t] # frame[t] =>
               /\ frame'[t].id \in MemoryIds /\ Live(frame'[t].id)
               /\ frame'[t].vector \in VectorIds
    PROVE  LifeInv'
<1>1. tombstones' = tombstones /\ embeddings' = embeddings
    OBVIOUS
<1>2. ASSUME NEW t \in Threads, frame'[t].at = "bind"
      PROVE  BindOK(frame[t])'
    <2>1. PICK m : m = frame'[t].id
        OBVIOUS
    <2>2. /\ m \in MemoryIds /\ Known(m)
          /\ frame'[t].vector \in VectorIds
          /\ IsTombstoned(m) => m \in raced
        <3>1. CASE frame'[t] = frame[t]
            BY <1>2, <2>1, <3>1 DEF LifeInv, BindOK
        <3>2. CASE frame'[t] # frame[t]
            BY <1>2, <2>1, <3>2 DEF Live
        <3> QED
            BY <3>1, <3>2
    <2>3. Known(m)' /\ (IsTombstoned(m)' <=> IsTombstoned(m))
        BY <1>1, <2>2 DEF IsTombstoned
    <2> QED
        BY <2>1, <2>2, <2>3 DEF BindOK, Known, IsTombstoned
<1>3. ASSUME NEW id \in MemoryIds, IsTombstoned(id), embeddings[id] # None
      PROVE  (id \in raced \/ BeingDeleted(id))'
    <2>1. CASE id \in raced
        BY <2>1
    <2>2. CASE BeingDeleted(id)
        <3>1. PICK t \in Threads : frame[t].id = id /\ frame[t].at \in Deleting
            BY <2>2 DEF BeingDeleted, Deleting
        <3>2. frame'[t].id = id /\ frame'[t].at \in Deleting
            BY <3>1
        <3> QED
            BY <3>2 DEF BeingDeleted, Deleting
    <2> QED
        BY <1>3, <2>1, <2>2 DEF LifeInv, GhostsComeOfRaces
<1>4. GhostsComeOfRaces'
    BY <1>1, <1>3 DEF GhostsComeOfRaces, IsTombstoned
<1>5. \A id \in MemoryIds : IsTombstoned(id)' => Known(id)'
    BY <1>1 DEF LifeInv, IsTombstoned
<1> QED
    BY <1>2, <1>4, <1>5 DEF LifeInv

\* tombstone() marks the row: whoever is about to bind it has been overtaken,
\* and its vector, if any, is this thread's to remove.
LEMMA MarkLife ==
    ASSUME ThreadsInv, LifeInv, NEW t \in Threads, Mark(t),
           raced' = raced \cup {id \in MemoryIds : Overtaken(id)}
    PROVE  LifeInv'
<1>1. PICK m \in MemoryIds : m = frame[t].id /\ Known(m)
    BY DEF ThreadsInv, FrameOK, Frame, Optional, Mark, Goto
<1>2. PICK w : w = frame[t].who /\ w # None
    BY DEF ThreadsInv, FrameOK, Mark, Goto
<1>3. /\ tombstones \in [MemoryIds -> Optional(Text)]
      /\ frame \in [Threads -> Frame] /\ frame[t].at = "mark"
      /\ frame' = [frame EXCEPT ![t].at = "unindex"]
      /\ tombstones' = [tombstones EXCEPT ![m] = w]
      /\ entries' = entries /\ embeddings' = embeddings
    BY <1>1, <1>2 DEF ThreadsInv, SharedTypeOK, StoreTypeOK, Mark, Goto
<1>4. /\ frame'[t].at = "unindex" /\ frame'[t].id = m
      /\ \A u \in Threads \ {t} : frame'[u] = frame[u]
    BY <1>1, <1>3 DEF Frame
<1>5. /\ IsTombstoned(m)'
      /\ \A id \in MemoryIds \ {m} : IsTombstoned(id)' <=> IsTombstoned(id)
    BY <1>2, <1>3 DEF IsTombstoned
<1>6. \A id \in MemoryIds : IsTombstoned(id)' => Known(id)'
    BY <1>1, <1>3, <1>5 DEF LifeInv, Known
<1>7. ASSUME NEW u \in Threads, frame'[u].at = "bind"
      PROVE  BindOK(frame[u])'
    <2>1. frame'[u] = frame[u] /\ frame[u].at = "bind"
        BY <1>4, <1>7
    <2>2. PICK i : i = frame[u].id /\ i = frame'[u].id
        BY <2>1
    <2>3. i \in MemoryIds /\ Known(i) /\ frame'[u].vector \in VectorIds
          /\ (IsTombstoned(i) => i \in raced)
        BY <2>1, <2>2 DEF LifeInv, BindOK
    <2>4. IsTombstoned(i)' /\ ~IsTombstoned(i) => Overtaken(i)
        BY <2>1, <2>2 DEF Overtaken
    <2>5. Known(i)' /\ (IsTombstoned(i)' => i \in raced')
        BY <1>3, <2>3, <2>4 DEF Known
    <2> QED
        BY <2>2, <2>3, <2>5 DEF BindOK, Known, IsTombstoned
<1>8. ASSUME NEW id \in MemoryIds, IsTombstoned(id)', embeddings'[id] # None
      PROVE  (id \in raced \/ BeingDeleted(id))'
    <2>1. CASE id = m
        BY <1>4, <2>1 DEF BeingDeleted
    <2>2. CASE id # m
        <3>1. id \in raced \/ BeingDeleted(id)
            BY <1>3, <1>5, <1>8, <2>2 DEF LifeInv, GhostsComeOfRaces
        <3>2. ASSUME NEW u \in Threads, frame[u].id = id, frame[u].at \in Deleting
              PROVE  frame'[u] = frame[u]
            BY <1>3, <1>4, <3>2 DEF Deleting
        <3> QED
            BY <3>1, <3>2 DEF BeingDeleted, Deleting
    <2> QED
        BY <2>1, <2>2
<1> QED
    BY <1>6, <1>7, <1>8 DEF LifeInv, GhostsComeOfRaces

\* Its last statement removes the vector; until then it is being deleted.
LEMMA UnbindLife ==
    ASSUME ThreadsInv, LedgerInv, LifeInv, NEW t \in Threads, Unbind(t), raced \subseteq raced'
    PROVE  LifeInv'
<1>1. PICK m \in MemoryIds : m = frame[t].id
    BY DEF ThreadsInv, LedgerInv, TaskOK, Frame, Optional, Unbind, Goto
<1>2. /\ embeddings \in [MemoryIds -> Optional(VectorIds)]
      /\ frame \in [Threads -> Frame] /\ frame[t].at = "unbind"
      /\ frame' = [frame EXCEPT ![t].at = "audit"]
      /\ embeddings' = [embeddings EXCEPT ![m] = None]
      /\ entries' = entries /\ tombstones' = tombstones
    BY <1>1 DEF ThreadsInv, SharedTypeOK, StoreTypeOK, Unbind, Goto
<1>3. /\ frame'[t].at = "audit"
      /\ \A u \in Threads \ {t} : frame'[u] = frame[u]
    BY <1>2 DEF Frame
<1>4. \A id \in MemoryIds : IsTombstoned(id)' => Known(id)'
    BY <1>2 DEF LifeInv, IsTombstoned, Known
<1>5. ASSUME NEW u \in Threads, frame'[u].at = "bind"
      PROVE  BindOK(frame[u])'
    <2>1. frame'[u] = frame[u] /\ frame[u].at = "bind"
        BY <1>3, <1>5
    <2> QED
        BY <1>2, <2>1 DEF LifeInv, BindOK, Known, IsTombstoned
<1>6. ASSUME NEW id \in MemoryIds, IsTombstoned(id)', embeddings'[id] # None
      PROVE  (id \in raced \/ BeingDeleted(id))'
    <2>1. id # m /\ embeddings[id] # None /\ IsTombstoned(id)
        BY <1>2, <1>6 DEF IsTombstoned
    <2>2. id \in raced \/ BeingDeleted(id)
        BY <2>1 DEF LifeInv, GhostsComeOfRaces
    <2>3. ASSUME NEW u \in Threads, frame[u].id = id PROVE frame'[u] = frame[u]
        BY <1>1, <1>3, <2>1, <2>3
    <2> QED
        BY <2>2, <2>3 DEF BeingDeleted
<1> QED
    BY <1>4, <1>5, <1>6 DEF LifeInv, GhostsComeOfRaces

\* A vector bound to a deleted row is a ghost, of a binding that was overtaken.
LEMMA BindLife ==
    ASSUME ThreadsInv, LifeInv, NEW t \in Threads, Bind(t), raced \subseteq raced'
    PROVE  LifeInv'
<1>1. PICK m \in MemoryIds : /\ m = frame[t].id
                             /\ IsTombstoned(m) => m \in raced
    BY DEF LifeInv, BindOK, Bind, Return
<1>2. /\ embeddings \in [MemoryIds -> Optional(VectorIds)]
      /\ frame \in [Threads -> Frame] /\ frame[t].at = "bind"
      /\ frame' = [frame EXCEPT ![t] = Idle]
      /\ embeddings' = [embeddings EXCEPT ![m] = frame[t].vector]
      /\ entries' = entries /\ tombstones' = tombstones
    BY <1>1 DEF ThreadsInv, SharedTypeOK, StoreTypeOK, Bind, Return
<1>3. /\ frame'[t].at = "idle"
      /\ \A u \in Threads \ {t} : frame'[u] = frame[u]
    BY <1>2 DEF Idle
<1>4. \A id \in MemoryIds : IsTombstoned(id)' => Known(id)'
    BY <1>2 DEF LifeInv, IsTombstoned, Known
<1>5. ASSUME NEW u \in Threads, frame'[u].at = "bind"
      PROVE  BindOK(frame[u])'
    <2>1. frame'[u] = frame[u] /\ frame[u].at = "bind"
        BY <1>3, <1>5
    <2> QED
        BY <1>2, <2>1 DEF LifeInv, BindOK, Known, IsTombstoned
<1>6. ASSUME NEW id \in MemoryIds, IsTombstoned(id)', embeddings'[id] # None
      PROVE  (id \in raced \/ BeingDeleted(id))'
    <2>0. IsTombstoned(id)
        BY <1>2, <1>6 DEF IsTombstoned
    <2>1. CASE id = m
        BY <1>1, <2>0, <2>1
    <2>2. CASE id # m
        <3>1. id \in raced \/ BeingDeleted(id)
            BY <1>2, <1>6, <2>0, <2>2 DEF LifeInv, GhostsComeOfRaces
        <3>2. ASSUME NEW u \in Threads, frame[u].id = id PROVE frame'[u] = frame[u]
            BY <1>1, <1>3, <2>2, <3>2
        <3> QED
            BY <3>1, <3>2 DEF BeingDeleted
    <2> QED
        BY <2>1, <2>2
<1> QED
    BY <1>4, <1>5, <1>6 DEF LifeInv, GhostsComeOfRaces

\* Every step keeps it, whoever moves.
THEOREM LifeInvariant == ThreadedStoreSpec => []LifeInv
<1>1. ThreadedStoreInit => LifeInv
    BY DEF ThreadedStoreInit, ThreadsInit, GateInit, StoreInit, Idle, LifeInv, GhostsComeOfRaces,
           IsTombstoned
<1>2. ThreadsInv /\ LedgerInv /\ LifeInv /\ [ThreadedStoreNext]_<<threadVars, raced>> => LifeInv'
    <2> SUFFICES ASSUME ThreadsInv, LedgerInv, LifeInv,
                        [ThreadedStoreNext]_<<threadVars, raced>>
                 PROVE  LifeInv'
        OBVIOUS
    <2>1. raced \subseteq raced'
        BY DEF ThreadedStoreNext
    <2>2. CASE UNCHANGED <<storeVars, frame>>
        BY <2>1, <2>2, LifeKept DEF storeVars, Known
    <2>3. CASE UNCHANGED <<threadVars, raced>>
        BY <2>2, <2>3 DEF threadVars, gateVars
    <2>4. ASSUME NEW r \in Readers, ReadNext(r) PROVE LifeInv'
        BY <2>2, <2>4 DEF ReadNext, ReadBegin, ReadMeet, ReadVisit, ReadReturn, ReadRaises, gateVars
    <2>5. ASSUME NEW t \in Threads, ThreadNext(t),
                 raced' = raced \cup {id \in MemoryIds : Overtaken(id)}
          PROVE  LifeInv'
        <3>1. frame \in [Threads -> Frame]
            BY DEF ThreadsInv
        <3>2. ASSUME NEW f, frame[t].at \notin Deleting, frame' = [frame EXCEPT ![t] = f],
                     f.at = "bind" =>
                         f.id \in MemoryIds /\ Live(f.id) /\ f.vector \in VectorIds,
                     UNCHANGED <<tombstones, embeddings>>,
                     \A id \in MemoryIds : Known(id) => Known(id)'
              PROVE  LifeInv'
            <4>1. frame'[t] = f /\ \A u \in Threads \ {t} : frame'[u] = frame[u]
                BY <3>1, <3>2
            <4>2. \A u \in Threads : frame[u].at \in Deleting =>
                      frame'[u].at \in Deleting /\ frame'[u].id = frame[u].id
                BY <3>2, <4>1
            <4>3. \A u \in Threads : frame'[u].at = "bind" /\ frame'[u] # frame[u] =>
                      /\ frame'[u].id \in MemoryIds /\ Live(frame'[u].id)
                      /\ frame'[u].vector \in VectorIds
                BY <3>2, <4>1
            <4> QED
                BY <2>1, <3>2, <4>2, <4>3, LifeKept
        <3>3. ASSUME NEW call \in Submissions, CommitRun(t, call) PROVE LifeInv'
            BY <3>2, <3>3 DEF CommitRun, Begin, Idle, Deleting, storeVars, Known
        <3>4. CASE RenderRaises(t) \/ AuditReturn(t)
            BY <3>2, <3>4
            DEF RenderRaises, AuditReturn, Return, Idle, Deleting, gateVars, storeVars, Known
        <3>5. CASE Decide(t)
            <4>1. PICK f : f = frame'[t]
                OBVIOUS
            <4>2. f.at # "bind" /\ frame' = [frame EXCEPT ![t] = f] /\ frame[t].at = "render"
                BY <3>1, <3>5, <4>1 DEF Decide, Frame
            <4> QED
                BY <3>2, <3>5, <4>2 DEF Decide, Deleting, gateVars, storeVars, Known
        <3>6. CASE Configure(t)
            BY <2>2, <3>6 DEF Configure, SetMode, AttachLog, storeVars
        <3>7. ASSUME NEW pid \in PendingIds, Hold(t, pid) PROVE LifeInv'
            <4>1. PICK f : f = [frame[t] EXCEPT !.at = "audit", !.pid = pid]
                OBVIOUS
            <4>2. f.at # "bind" /\ frame' = [frame EXCEPT ![t] = f] /\ frame[t].at = "hold"
                BY <3>1, <3>7, <4>1 DEF Hold, Frame
            <4> QED
                BY <3>2, <3>7, <4>2 DEF Hold, Deleting, storeVars, Known
        <3>8. ASSUME NEW pid \in PendingIds, ApprovePop(t, pid) PROVE LifeInv'
            BY <3>2, <3>8 DEF ApprovePop, Begin, Idle, Deleting, storeVars, Known
        <3>9. ASSUME NEW pid \in PendingIds, ApproveMiss(t, pid) PROVE LifeInv'
            BY <2>2, <3>9 DEF ApproveMiss, ApproveUnknown, storeVars
        <3>10. ASSUME NEW id \in MemoryIds, InsertEntry(t, id) PROVE LifeInv'
            <4>1. PICK f : f = frame'[t]
                OBVIOUS
            <4>2. f.at # "bind" /\ frame' = [frame EXCEPT ![t] = f] /\ frame[t].at = "insert"
                BY <3>1, <3>10, <4>1 DEF InsertEntry, Frame
            <4>3. \A other \in MemoryIds : Known(other) => Known(other)'
                BY <3>10 DEF InsertEntry, ThreadsInv, SharedTypeOK, StoreTypeOK, OnlyMintedKnown, Known
            <4> QED
                BY <3>2, <3>10, <4>2, <4>3 DEF InsertEntry, Deleting
        <3>11. CASE IndexPrincipal(t) \/ IndexScope(t)
            <4>1. PICK f : f = frame'[t]
                OBVIOUS
            <4>2. /\ f.at # "bind" /\ frame' = [frame EXCEPT ![t] = f]
                  /\ frame[t].at \in {"index", "scope"}
                BY <3>1, <3>11, <4>1 DEF IndexPrincipal, IndexScope, Goto, Frame
            <4> QED
                BY <3>2, <3>11, <4>2 DEF IndexPrincipal, IndexScope, Deleting, Known
        <3>12. ASSUME NEW id \in MemoryIds, NEW who \in Callers, ForgetCheck(t, id, who)
               PROVE  LifeInv'
            <4>1. PICK f : f = frame'[t]
                OBVIOUS
            <4>2. f.at # "bind" /\ frame' = [frame EXCEPT ![t] = f] /\ frame[t].at = "idle"
                BY <3>1, <3>12, <4>1 DEF ForgetCheck, Begin, Idle
            <4> QED
                BY <3>2, <3>12, <4>2 DEF ForgetCheck, Deleting, gateVars, storeVars, Known
        <3>13. CASE UnindexPrincipal(t) \/ UnindexScope(t)
            <4>1. /\ frame[t].at \in {"unindex", "unscope"}
                  /\ frame' = [frame EXCEPT ![t].at = frame'[t].at]
                  /\ frame'[t].at \in {"unscope", "unbind"}
                BY <3>1, <3>13 DEF UnindexPrincipal, UnindexScope, Goto, Frame
            <4>2. /\ frame'[t].at \in Deleting /\ frame'[t].at # "bind"
                  /\ frame'[t].id = frame[t].id
                  /\ \A u \in Threads \ {t} : frame'[u] = frame[u]
                BY <3>1, <4>1 DEF Deleting, Frame
            <4>3. \A u \in Threads : frame[u].at \in Deleting =>
                      frame'[u].at \in Deleting /\ frame'[u].id = frame[u].id
                BY <4>2
            <4>4. \A u \in Threads : frame'[u].at = "bind" => frame'[u] = frame[u]
                BY <4>2
            <4> QED
                BY <2>1, <3>13, <4>3, <4>4, LifeKept DEF UnindexPrincipal, UnindexScope, Known
        <3>14. CASE Mark(t) \/ Unbind(t) \/ Bind(t)
            BY <2>1, <2>5, <3>14, MarkLife, UnbindLife, BindLife
        <3>15. ASSUME NEW id \in MemoryIds, NEW vector \in VectorIds, BindCheck(t, id, vector)
               PROVE  LifeInv'
            BY <3>2, <3>15 DEF BindCheck, Begin, Idle, Deleting, gateVars, storeVars, Known
        <3> QED
            BY <2>5, <3>3, <3>4, <3>5, <3>6, <3>7, <3>8, <3>9, <3>10, <3>11, <3>12, <3>13, <3>14, <3>15
            DEF ThreadNext
    <2> QED
        BY <2>3, <2>4, <2>5 DEF ThreadedStoreNext, ThreadsNext
<1>3. ThreadedStoreInit => ThreadsInit
    BY DEF ThreadedStoreInit
<1>4. [ThreadedStoreNext]_<<threadVars, raced>> => [ThreadsNext]_threadVars
    BY DEF ThreadedStoreNext
<1> QED
    BY <1>1, <1>2, <1>3, <1>4, ThreadsInvariant, LedgerInvariant, PTL
    DEF ThreadedStoreSpec, ThreadsSpec

\* With any number of threads, a deleted row keeps a vector only because the
\* deletion overtook a binding, or while the deletion is still under way.
THEOREM GhostsOnlyByRace == ThreadedStoreSpec => []GhostsComeOfRaces
<1>1. LifeInv => GhostsComeOfRaces
    BY DEF LifeInv
<1> QED
    BY <1>1, LifeInvariant, PTL

\* Seen through get() and embedding_vector_id(), each statement of each thread
\* is one step in the life of a memory, or changes nothing that a reader sees.
LEMMA StatementRefines ==
    ThreadsInv /\ LedgerInv /\ LifeInv /\ [ThreadedStoreNext]_<<threadVars, raced>>
        => [Lifecycle!LifecycleNext]_(Lifecycle!lifecycleVars)
<1> SUFFICES ASSUME ThreadsInv, LedgerInv, LifeInv, [ThreadedStoreNext]_<<threadVars, raced>>
             PROVE  [Lifecycle!LifecycleNext]_(Lifecycle!lifecycleVars)
    OBVIOUS
<1>1. StoreTypeOK /\ frame \in [Threads -> Frame]
    BY DEF ThreadsInv, SharedTypeOK
<1> USE DEF Lifecycle!lifecycleVars, Get, EmbeddingVectorId, IsTombstoned
<1>2. CASE UNCHANGED <<entries, tombstones, embeddings, minted>>
    BY <1>2
<1>3. ASSUME NEW t \in Threads, NEW id \in MemoryIds, InsertEntry(t, id)
      PROVE  \E content \in VerifiedRows : Lifecycle!Remember(id, content)
    <2>1. PICK content : content = FromCandidate(frame[t].candidate)
        OBVIOUS
    <2>2. content \in VerifiedRows
        BY <1>3, <2>1 DEF ThreadsInv, FrameOK, Admitted, InsertEntry, VerifiedRows
    <2>3. ~Known(id) /\ ~IsTombstoned(id)
        BY <1>3 DEF ThreadsInv, OnlyMintedKnown, LifeInv, InsertEntry
    <2>4. Lifecycle!Remember(id, content)
        BY <1>1, <1>3, <2>1, <2>3 DEF StoreTypeOK, InsertEntry, Lifecycle!Remember
    <2> QED
        BY <2>2, <2>4
<1>4. ASSUME NEW t \in Threads, Mark(t)
      PROVE  \/ \E id \in MemoryIds : Lifecycle!Erase(id)
             \/ UNCHANGED Lifecycle!lifecycleVars
    <2>1. PICK m \in MemoryIds : m = frame[t].id /\ Known(m)
        BY <1>4 DEF ThreadsInv, FrameOK, Frame, Optional, Mark, Goto
    <2>2. PICK w : w = frame[t].who /\ w # None
        BY <1>4 DEF ThreadsInv, FrameOK, Mark, Goto
    <2>3. /\ tombstones' = [tombstones EXCEPT ![m] = w]
          /\ entries' = entries /\ embeddings' = embeddings /\ minted' = minted
        BY <1>4, <2>1, <2>2 DEF Mark, StoreStep
    <2>4. CASE IsTombstoned(m)
        BY <1>1, <2>2, <2>3, <2>4 DEF StoreTypeOK
    <2>5. CASE ~IsTombstoned(m)
        BY <1>1, <2>1, <2>2, <2>3, <2>5 DEF StoreTypeOK, Known, Lifecycle!Erase
    <2> QED
        BY <2>4, <2>5
<1>5. ASSUME NEW t \in Threads, Unbind(t) PROVE UNCHANGED Lifecycle!lifecycleVars
    <2>1. PICK m : m = frame[t].id /\ IsTombstoned(m)
        BY <1>5 DEF LedgerInv, TaskOK, Unbind, Goto
    <2>2. /\ embeddings' = [embeddings EXCEPT ![m] = None]
          /\ entries' = entries /\ tombstones' = tombstones /\ minted' = minted
        BY <1>5, <2>1 DEF Unbind, StoreStep
    <2>3. \A id \in MemoryIds : EmbeddingVectorId(id)' = EmbeddingVectorId(id)
        BY <1>1, <2>1, <2>2 DEF StoreTypeOK
    <2> QED
        BY <2>2, <2>3
<1>6. ASSUME NEW t \in Threads, Bind(t)
      PROVE  \/ \E id \in MemoryIds, v \in VectorIds : Lifecycle!Link(id, v)
             \/ UNCHANGED Lifecycle!lifecycleVars
    <2>1. PICK m \in MemoryIds, v \in VectorIds : m = frame[t].id /\ v = frame[t].vector /\ Known(m)
        BY <1>6 DEF LifeInv, BindOK, Bind, Return
    <2>2. /\ embeddings' = [embeddings EXCEPT ![m] = v]
          /\ entries' = entries /\ tombstones' = tombstones /\ minted' = minted
        BY <1>6, <2>1 DEF Bind, StoreStep
    <2>3. CASE IsTombstoned(m)
        <3>1. \A id \in MemoryIds : EmbeddingVectorId(id)' = EmbeddingVectorId(id)
            BY <1>1, <2>2, <2>3 DEF StoreTypeOK
        <3> QED
            BY <2>2, <3>1
    <2>4. CASE ~IsTombstoned(m)
        <3>1. Lifecycle!Link(m, v)
            BY <1>1, <2>1, <2>2, <2>4 DEF StoreTypeOK, Known, Lifecycle!Link
        <3> QED
            BY <3>1
    <2> QED
        BY <2>3, <2>4
<1>7. ASSUME NEW t \in Threads, ThreadNext(t)
      PROVE  [Lifecycle!LifecycleNext]_(Lifecycle!lifecycleVars)
    <2>1. \/ UNCHANGED <<entries, tombstones, embeddings, minted>>
          \/ \E id \in MemoryIds : InsertEntry(t, id)
          \/ Mark(t) \/ Unbind(t) \/ Bind(t)
        BY <1>7 DEF ThreadNext, CommitRun, RenderRaises, Decide, AuditReturn, Configure, SetMode,
                    AttachLog, Hold, ApprovePop, ApproveMiss, ApproveUnknown, IndexPrincipal,
                    IndexScope, ForgetCheck, UnindexPrincipal, UnindexScope, BindCheck, StoreStep,
                    gateVars, storeVars
    <2> QED
        BY <1>2, <1>3, <1>4, <1>5, <1>6, <2>1 DEF Lifecycle!LifecycleNext
<1>8. ASSUME NEW r \in Readers, ReadNext(r)
      PROVE  [Lifecycle!LifecycleNext]_(Lifecycle!lifecycleVars)
    BY <1>2, <1>8 DEF ReadNext, ReadBegin, ReadMeet, ReadVisit, ReadReturn, ReadRaises, gateVars, storeVars
<1>9. CASE UNCHANGED <<threadVars, raced>>
    BY <1>2, <1>9 DEF threadVars, gateVars, storeVars
<1> QED
    BY <1>7, <1>8, <1>9 DEF ThreadedStoreNext, ThreadsNext

\* Threads that interrupt each other between any two statements still
\* implement the abstract life of a memory, with verified rows only.
THEOREM ThreadsRefineLifecycle == ThreadedStoreSpec => ThreadsImplementLifecycle
<1>1. ThreadedStoreInit => Lifecycle!LifecycleInit
    BY DEF ThreadedStoreInit, ThreadsInit, GateInit, StoreInit, Lifecycle!LifecycleInit,
           Get, EmbeddingVectorId, IsTombstoned
<1>2. ThreadedStoreInit => ThreadsInit
    BY DEF ThreadedStoreInit
<1>3. [ThreadedStoreNext]_<<threadVars, raced>> => [ThreadsNext]_threadVars
    BY DEF ThreadedStoreNext
<1> QED
    BY <1>1, <1>2, <1>3, StatementRefines, ThreadsInvariant, LedgerInvariant, LifeInvariant, PTL
    DEF ThreadedStoreSpec, ThreadsSpec, ThreadsImplementLifecycle, Lifecycle!LifecycleSpec
=============================================================================
