--------------------------- MODULE ActionHistory ----------------------------
(***************************************************************************)
(* The history of the audit trail, newest run first, and a client that     *)
(* pages through it while runs are claimed, executed and undone.           *)
(*                                                                         *)
(* queryActionRuns of the memory store sorts the runs that match, looks    *)
(* for the cursor in the list and cuts it there, in one step.  That of the *)
(* PostgreSQL store reads the run the cursor names, and then selects the   *)
(* runs that come after its time and identifier, in another statement.     *)
(*                                                                         *)
(* Runs move as ActionLifecycle says, which both runtimes implement.  The  *)
(* phase "pending" stands for the status created, which is all PostgreSQL  *)
(* shows of it to others, and in the memory store for running as well.     *)
(***************************************************************************)
EXTENDS ActionLifecycle, Naturals, SequencesExt

CONSTANTS Scopes,       \* values of the fields of a run that never change:
          ScopeOf,      \* tenant, actor, target and name
          Queries,      \* what the client asks for
          Times         \* the times at which runs are created

(* An identifier is a number for the place its text has in the order of    *)
(* identifiers.  The client asks for one run at least.                     *)
ASSUME HistoryAssumption ==
  /\ Identifiers \subseteq Nat
  /\ Times \subseteq Nat
  /\ ScopeOf \in [Identifiers -> Scopes]
  /\ \A q \in Queries :
       /\ q.scope \in {{}} \cup {{s} : s \in Scopes}
       /\ q.phase \in {{}} \cup {{p} : p \in Phase}
       /\ \A m, n \in q.limit : n \in Nat /\ n > 0 /\ m = n

VARIABLES createdAt,  \* when each run was created
          reader,     \* the client: its store and query, its last cursor, and
                      \* history: the runs it was shown, whether one of
                      \* them twice, the cursors that were ignored
          expected    \* history: the runs that matched when the first page
                      \* was read and have matched ever since

historyVars == <<runs, createdAt, reader, expected>>

-----------------------------------------------------------------------------
(* ActionHistoryQuery: a filter that is {} is absent.                      *)
Matches(r, query) ==
  /\ query.scope # {} => query.scope = {ScopeOf[r]}
  /\ query.phase # {} => query.phase = {runs[r].phase}

Matching(query) == {r \in DOMAIN runs : Matches(r, query)}

(* ORDER BY created_at DESC, id DESC: a is listed before b. *)
Newer(a, b) ==
  \/ createdAt[a] > createdAt[b]
  \/ createdAt[a] = createdAt[b] /\ a > b

NewestFirst(S) ==
  CHOOSE list \in [1 .. Cardinality(S) -> S] :
    \A i, j \in DOMAIN list : i < j => Newer(list[i], list[j])

RunsOf(list) == {list[i] : i \in DOMAIN list}

FirstOf(list, limit) ==
  IF \E n \in limit : n < Len(list)
  THEN SubSeq(list, 1, CHOOSE n \in limit : TRUE) ELSE list

(* Fault: the page begins with the cursor. *)
FaultyAfterIndex(list, cursor) ==
  IF cursor # {} /\ cursor \subseteq RunsOf(list)
  THEN LET i == CHOOSE i \in DOMAIN list : cursor = {list[i]}
       IN  SubSeq(list, i, Len(list))
  ELSE list

(* runs.slice(cursorIndex + 1), or the whole list. *)
AfterIndex(list, cursor) ==
  IF cursor # {} /\ cursor \subseteq RunsOf(list)
  THEN LET i == CHOOSE i \in DOMAIN list : cursor = {list[i]}
       IN  SubSeq(list, i + 1, Len(list))
  ELSE list

MemoryPage(query, cursor) ==
  FirstOf(AfterIndex(NewestFirst(Matching(query)), cursor), query.limit)

(* The run of a cursor that exists and matches; any other cursor is        *)
(* ignored.                                                                *)
Bound(query, cursor) == cursor \cap Matching(query)

(* Fault: runs created in the same millisecond as the cursor are left out. *)
FaultyAfterBound(r, bound) ==
  \A b \in bound : createdAt[r] < createdAt[b]

(* created_at < $1 OR (created_at = $1 AND id < $2) *)
AfterBound(r, bound) ==
  \A b \in bound :
    \/ createdAt[r] < createdAt[b]
    \/ createdAt[r] = createdAt[b] /\ r < b

PostgresPage(query, bound) ==
  FirstOf(NewestFirst({r \in Matching(query) : AfterBound(r, bound)}),
          query.limit)

-----------------------------------------------------------------------------
HistoryInit ==
  /\ Init
  /\ createdAt = [r \in {} |-> r]
  /\ reader \in [store : {"memory", "postgres"}, query : Queries,
                 stage : {"asking"}, cursor : {{}}, bound : {{}},
                 shown : {{}}, repeated : {FALSE}, lost : {{}}]
  /\ expected = {}

(* Bound: what happens after the last page is read is left out. *)
Paging == reader.stage # "done"

(* A run is created with the clock of the process that claims it, and its  *)
(* row appears some time after: it may come before or after any run that   *)
(* is there.                                                               *)
CreateRun(id, claim, time) ==
  /\ Paging
  /\ Claim(id, claim, TRUE)
  /\ createdAt' = [r \in DOMAIN runs' |-> IF r = id THEN time ELSE createdAt[r]]
  /\ UNCHANGED <<reader, expected>>

(* Every run may be undone here: one that may not stays completed, as this *)
(* one may, and an irreversible side effect ends in RefuseUndo.            *)
Settle(id) ==
  /\ Paging
  /\ \/ Complete(id, FALSE)
     \/ Fail(id)
     \/ StartUndo(id)
     \/ Undo(id)
     \/ RefuseUndo(id)
  /\ UNCHANGED <<createdAt, reader>>
  /\ expected' = {r \in expected : Matches(r, reader.query)'}

(* What the client does with a page: an empty one is the end, and the last *)
(* run of any other is the next cursor.  lost are the cursors that the     *)
(* query ignored.                                                          *)
Receive(page, lost) ==
  /\ reader' = [reader EXCEPT
       !.stage = IF page = <<>> THEN "done" ELSE "asking",
       !.cursor = IF page = <<>> THEN @ ELSE {Last(page)},
       !.bound = {},
       !.shown = @ \cup RunsOf(page),
       !.repeated = @ \/ RunsOf(page) \cap reader.shown # {},
       !.lost = @ \cup lost]
  /\ expected' = IF reader.cursor = {} THEN Matching(reader.query) ELSE expected
  /\ UNCHANGED <<runs, createdAt>>

(* The cursor of the client, if the query takes it for no cursor at all.   *)
LostCursor == reader.cursor \ Bound(reader.query, reader.cursor)

ReadMemory ==
  /\ reader.store = "memory"
  /\ reader.stage = "asking"
  /\ Receive(MemoryPage(reader.query, reader.cursor), LostCursor)

(* getActionRun(query.cursor), only when there is a cursor. *)
ReadCursor ==
  /\ reader.store = "postgres"
  /\ reader.stage = "asking"
  /\ reader' = [reader EXCEPT !.stage = "selecting",
                              !.bound = Bound(reader.query, reader.cursor),
                              !.lost = @ \cup LostCursor]
  /\ UNCHANGED <<runs, createdAt, expected>>

SelectPage ==
  /\ reader.stage = "selecting"
  /\ Receive(PostgresPage(reader.query, reader.bound), {})

ReadHistory == ReadMemory \/ ReadCursor \/ SelectPage

HistoryNext ==
  \/ \E id \in Identifiers, claim \in {{}} \cup {{k} : k \in Claims},
        time \in Times :
       CreateRun(id, claim, time)
  \/ \E id \in Identifiers : Settle(id)
  \/ ReadHistory

HistorySpec == HistoryInit /\ [][HistoryNext]_historyVars

(* Both stores answer a query; the client asks on until a page is empty.   *)
FairHistorySpec == HistorySpec /\ WF_historyVars(ReadHistory)

-----------------------------------------------------------------------------
(* One client code runs over either store: whatever the filters, the       *)
(* cursor and the limit, cutting the sorted list at the cursor and         *)
(* selecting by time and identifier give the same page, for runs of the    *)
(* same millisecond, for cursors that do not exist and for those that do   *)
(* not match.                                                              *)
StoresAgree ==
  \A query \in Queries, cursor \in {{}} \cup {{r} : r \in Identifiers} :
    MemoryPage(query, cursor) = PostgresPage(query, Bound(query, cursor))

(* A client is shown no run twice, whatever was created or settled between *)
(* its pages and within its reads, unless a cursor was ignored; and that   *)
(* happens to a client that filters by status only.                        *)
NoRunTwice ==
  /\ reader.repeated => reader.lost # {}
  /\ reader.lost # {} => reader.query.phase # {}

(* A client that reached the end was shown every run that matched all the  *)
(* time, also when a cursor was ignored because its run had moved on.      *)
NothingMissed ==
  reader.stage = "done" =>
    expected \subseteq reader.shown

(* Every page leads on to older runs, also those read after a cursor was   *)
(* ignored.  A client is sent back to newer runs only by a cursor whose    *)
(* run has left the status it asks for, and never twice by the same run    *)
(* (but for one that a rollback of the memory store takes from running     *)
(* back to created, which are one phase here).                             *)
PagingGoesOn ==
  [][reader' # reader /\ reader'.stage = "asking" =>
       \A c \in reader.cursor, next \in reader'.cursor :
         \/ Newer(c, next)
         \/ c \in reader'.lost /\ next \notin reader'.lost]_historyVars

(* Paging ends, unless one cursor after the other is ignored: a client     *)
(* that filters by status gets the first page again each time the run of   *)
(* its cursor has moved on, and nothing in the code stops that from        *)
(* happening for as long as runs come and move.  That there is an end to   *)
(* the runs older than a cursor is that of Identifiers and Times here, and *)
(* the going on of the clock in the code.                                  *)
PagingEnds ==
  \/ <>(reader.stage = "done")
  \/ []<><<reader'.lost # reader.lost>>_historyVars
=============================================================================
