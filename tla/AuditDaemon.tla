---------------------------- MODULE AuditDaemon ----------------------------
(***************************************************************************)
(* daemon.py: an HTTP application over a gate and an audit log.  Requests  *)
(* are served by a pool of threads (FastAPI runs plain functions in one)   *)
(* while the application's own thread calls the gate; a request looks at   *)
(* one audit row, or one memory, at a time.                                *)
(***************************************************************************)
EXTENDS MemoryGate

CONSTANTS
    Requests,  \* requests made, one call of an endpoint each
    Queries    \* the kind and actor that GET /audit is asked for

NoQuery == [kind |-> None, actor |-> None]

ASSUME QueryAssumption ==
    Queries \subseteq [kind : Optional({"write", "deletion"}), actor : Optional(Text)]

VARIABLES
    served,   \* whose log the app serves: "gate", "other", or "none" before create_app
    request,  \* each request: its endpoint, what it has visited and collected
    wiring    \* history: how create_app was called

daemonVars == <<gateVars, served, request, wiring>>

\* The log the endpoints close over; a log other than the gate's stays empty,
\* since nothing else in the process is known to write to it.
Log == IF served = "gate" THEN auditLog ELSE <<>>

\* The log it ought to be: the gate's, whether it came with the call, with the
\* gate, or from neither, unless the caller passes a log beside a gate that
\* already has another one.
DueLog == IF wiring.given = "other" /\ wiring.attached THEN <<>> ELSE auditLog

Unasked == [at |-> "idle", endpoint |-> None, query |-> NoQuery, from |-> 0, pos |-> 0,
            out |-> <<>>, size |-> 0, seen |-> {}, rows |-> {}, gone |-> {}]

RequestState ==
    [at       : {"idle", "busy", "returned", "raised"},
     endpoint : Optional({"/audit", "/memories", "/audit/event_id"}),
     query    : Queries \cup {NoQuery},
     from     : Nat,                  \* history: the log's length at the start
     pos      : Nat,                  \* audit rows visited
     out      : Seq(AuditRecord),
     size     : Nat,                  \* the dict's size at the start
     seen     : SUBSET MemoryIds,
     rows     : SUBSET MemoryIds,
     gone     : SUBSET MemoryIds]     \* history: deleted before the start

DaemonTypeOK ==
    /\ GateTypeOK
    /\ served \in {"none", "gate", "other"}
    /\ served # "none" => wiring \in [given : {"nothing", "same", "other"}, attached : BOOLEAN]
    /\ request \in [Requests -> RequestState]

DaemonInit ==
    /\ GateInit
    /\ served = "none"
    /\ request = [q \in Requests |-> Unasked]
    /\ wiring = None

-----------------------------------------------------------------------------
\* Mutant: a gate without a log is not given the daemon's.
CreateAppUnattached(given) ==
    /\ served = "none"
    /\ given = "same" => attached
    /\ served' = IF given = "other" \/ ~attached THEN "other" ELSE "gate"
    /\ wiring' = [given |-> given, attached |-> attached]
    /\ UNCHANGED <<gateVars, request>>

\* create_app(gate, audit_log): the log given, or the gate's, or a new one;
\* a gate without a log of its own is given the one that is served.
CreateApp(given) ==
    /\ served = "none"
    /\ given = "same" => attached
    /\ served' = IF given = "other" /\ attached THEN "other" ELSE "gate"
    /\ attached' = TRUE
    /\ wiring' = [given |-> given, attached |-> attached]
    /\ UNCHANGED <<storeVars, inboxVars, auditVars, mode, latest, request>>

Ask(q, endpoint, query) ==
    /\ served # "none" /\ request[q].at = "idle"
    /\ request' = [request EXCEPT ![q] =
           [Unasked EXCEPT !.at = "busy", !.endpoint = endpoint, !.query = query, !.from = Len(DueLog),
                           !.size = Cardinality({id \in MemoryIds : Known(id)}),
                           !.gone = {id \in MemoryIds : IsTombstoned(id)}]]
    /\ UNCHANGED <<gateVars, served, wiring>>

-----------------------------------------------------------------------------
(***************************************************************************)
(* GET /audit and GET /audit/export: AppendOnlyAuditLog.list and           *)
(* export_records iterate the list the gate appends to.                    *)
(***************************************************************************)
Matches(record, query) ==
    /\ query.kind # None => record.kind = query.kind
    /\ query.actor # None => record.actor = query.actor

AuditVisit(q) ==
    LET record == Log[request[q].pos + 1]
    IN  /\ request[q].at = "busy" /\ request[q].endpoint = "/audit"
        /\ request[q].pos < Len(Log)
        /\ request' = [request EXCEPT
               ![q].pos = @ + 1,
               ![q].out = IF Matches(record, request[q].query) THEN Append(@, record) ELSE @]
        /\ UNCHANGED <<gateVars, served, wiring>>

\* The iterator of a list goes on until it finds no further element.
AuditReturn(q) ==
    /\ request[q].at = "busy" /\ request[q].endpoint = "/audit"
    /\ request[q].pos >= Len(Log)
    /\ request' = [request EXCEPT ![q].at = "returned"]
    /\ UNCHANGED <<gateVars, served, wiring>>

\* GET /audit/{event_id}: the first row with that id in a copy of the log, or
\* a 404, shown as no row.  An id is the place of its row.
EventLookup(q, event) ==
    /\ request[q].at = "busy" /\ request[q].endpoint = "/audit/event_id"
    /\ request' = [request EXCEPT ![q].at = "returned", ![q].pos = event,
                                  ![q].out = IF event <= Len(Log) THEN <<Log[event]>> ELSE <<>>]
    /\ UNCHANGED <<gateVars, served, wiring>>

-----------------------------------------------------------------------------
(***************************************************************************)
(* GET /memories: retrieve() without filters iterates the dict of rows.    *)
(***************************************************************************)
SameSize(q) == Cardinality({id \in MemoryIds : Known(id)}) = request[q].size

MemoryVisit(q, id) ==
    /\ request[q].at = "busy" /\ request[q].endpoint = "/memories" /\ SameSize(q)
    /\ Known(id) /\ id \notin request[q].seen
    /\ request' = [request EXCEPT ![q].seen = @ \cup {id},
                                  ![q].rows = IF IsTombstoned(id) THEN @ ELSE @ \cup {id}]
    /\ UNCHANGED <<gateVars, served, wiring>>

MemoriesReturn(q) ==
    /\ request[q].at = "busy" /\ request[q].endpoint = "/memories" /\ SameSize(q)
    /\ \A id \in MemoryIds : Known(id) => id \in request[q].seen
    /\ request' = [request EXCEPT ![q].at = "returned"]
    /\ UNCHANGED <<gateVars, served, wiring>>

\* RuntimeError, and with it a 500: the dict has changed size.
MemoriesRaise(q) ==
    /\ request[q].at = "busy" /\ request[q].endpoint = "/memories" /\ ~SameSize(q)
    /\ request' = [request EXCEPT ![q].at = "raised"]
    /\ UNCHANGED <<gateVars, served, wiring>>

DaemonNext ==
    \/ GateNext /\ UNCHANGED <<served, request, wiring>>
    \/ \E given \in {"nothing", "same", "other"} : CreateApp(given)
    \/ \E q \in Requests :
           \/ \E query \in Queries : Ask(q, "/audit", query)
           \/ Ask(q, "/memories", NoQuery) \/ Ask(q, "/audit/event_id", NoQuery)
           \/ AuditVisit(q) \/ AuditReturn(q)
           \/ \E event \in 1 .. MaxCalls : EventLookup(q, event)
           \/ \E id \in MemoryIds : MemoryVisit(q, id)
           \/ MemoriesReturn(q) \/ MemoriesRaise(q)

DaemonSpec == DaemonInit /\ [][DaemonNext]_daemonVars

-----------------------------------------------------------------------------
\* The places of the rows, among the first so many, that a request asks for.
AskedFor(q, length) ==
    {k \in 1 .. length : /\ request[q].query.kind \in {None, DueLog[k].kind}
                         /\ request[q].query.actor \in {None, DueLog[k].actor}}

\* The answer holds those and no others, the n-th of them as its n-th row.
AnswersUpTo(q, length) ==
    /\ Len(request[q].out) = Cardinality(AskedFor(q, length))
    /\ \A k \in AskedFor(q, length) :
           request[q].out[Cardinality(AskedFor(q, k))] = DueLog[k]

\* A list of audit rows holds, in the order they were appended, all rows of
\* the gate's own log that match both criteria and were there when the request
\* came, and no gap: it is the answer of one instant, however many rows the
\* gate appended meanwhile.  And an event that was in the log when it was asked
\* for is found: nothing that any answer has shown turns into a 404.
AnswersAreOneInstants ==
    \A q \in Requests : request[q].at = "returned" =>
        /\ request[q].endpoint = "/audit" =>
              \E length \in request[q].from .. Len(DueLog) : AnswersUpTo(q, length)
        /\ request[q].endpoint = "/audit/event_id" /\ request[q].pos <= request[q].from =>
              request[q].out = <<DueLog[request[q].pos]>>

\* The list of memories fails only for a row that was stored meanwhile, never
\* for a deletion, and what it returns was not deleted when it was asked.
MemoriesFailOnlyByInsert ==
    \A q \in Requests : request[q].endpoint = "/memories" =>
        /\ request[q].at = "raised" => Cardinality({id \in MemoryIds : Known(id)}) > request[q].size
        /\ request[q].at = "returned" => \A id \in request[q].rows : Known(id) /\ id \notin request[q].gone
=============================================================================
