------------------------------- MODULE Lists -------------------------------
(***************************************************************************)
(* The paged lists of the HTTP API (internal/registry, internal/db,        *)
(* internal/pagination): a caller asks for a page, then for the page after *)
(* the cursor that came with it, until one comes without a cursor. While   *)
(* the caller reads, rows are inserted, purged and changed: one caller     *)
(* walks one list to its end in every behaviour.                           *)
(*                                                                         *)
(* A row carries what a list sorts by, `at` (created_at, received_at or    *)
(* ts) and `tie` (its id), and `about`, which stands for every column that *)
(* a filter compares and that no statement updates (site, device, actor,   *)
(* action, target, from and to). A row of segments is a group of sites.    *)
(***************************************************************************)
EXTENDS Integers, FiniteSets

CONSTANTS
  List,            \* the lists of the deployment that are walked
  Tie,             \* ids, of rows
  About,           \* what a filter may ask for
  MaxAt,           \* bound: the clock
  MaxLimit,        \* 200, and 500 for telemetry
  DefaultPageLimit,
  None

AllLists == {"sites", "users", "devices", "telemetry", "actions", "ingestion", "health", "segments"}

ASSUME ListsAssumption ==
  /\ List \subseteq AllLists
  /\ Tie \subseteq Nat
  /\ MaxAt \in Nat \ {0}
  /\ MaxLimit \in Nat
  /\ DefaultPageLimit \in 1..MaxLimit
  /\ None \notin About \cup {"errors", "processed"}
  /\ About \cap {"errors", "processed"} = {}
  /\ None \notin [at : 1..MaxAt, tie : Tie]

VARIABLES
  clock,
  list,      \* the list this behaviour is about
  rows,      \* the rows a query sees
  begun,     \* the rows of transactions that have not committed
  failed,    \* the rows of the ingestion audit with an error
  limit,     \* the page size of the walk
  filter,    \* what its filter asks for, or None
  walk,      \* "new", "open" or "done"
  cursor,    \* where the next page starts, or None
  page,      \* the last page answered
  earlier,   \* what the pages before it held
  owed       \* the rows that match, and have matched since the walk began

listsVars == <<clock, list, rows, begun, failed, limit, filter, walk, cursor, page, earlier, owed>>

table == <<clock, rows, begun, failed>>

Row == [at : 1..MaxAt, tie : Tie, about : About \cup {None}]

Cursor == [at : 1..MaxAt, tie : Tie]

(***************************************************************************)
(* The tables.                                                             *)
(***************************************************************************)

\* Lists that take no filter.
Unfiltered == {"users", "health", "segments"}

\* The key of telemetry is (device_id, ts), that of any other table an id.
SameKey(a, b) == a.tie = b.tie /\ (list = "telemetry" => a.at = b.at)

ListsInit ==
  /\ clock = 1
  /\ list \in List
  /\ rows = {}
  /\ begun = {}
  /\ failed = {}
  /\ limit = DefaultPageLimit
  /\ filter = None
  /\ walk = "new"
  /\ cursor = None
  /\ page = {}
  /\ earlier = {}
  /\ owed = {}

Tick ==
  /\ clock < MaxAt /\ walk # "done"
  /\ clock' = clock + 1
  /\ UNCHANGED <<list, rows, begun, failed, limit, filter, walk, cursor, page, earlier, owed>>

\* created_at is the time the transaction began, and the id is whatever the
\* caller or the sequence gives; ts is a device's own, of now or of before.
Begin(row) ==
  /\ walk # "done"
  /\ row.about = None <=> list \in Unfiltered
  /\ IF list = "telemetry" THEN row.at <= clock ELSE row.at = clock
  /\ \A other \in rows \cup begun : ~SameKey(row, other)
  /\ begun' = begun \cup {row}
  /\ UNCHANGED <<clock, list, rows, failed, limit, filter, walk, cursor, page, earlier, owed>>

Commit(row) ==
  /\ walk # "done"
  /\ row \in begun
  /\ begun' = begun \ {row}
  /\ rows' = rows \cup {row}
  /\ UNCHANGED <<clock, list, failed, limit, filter, walk, cursor, page, earlier, owed>>

\* add_retention_policy: what is older than the interval goes.
PurgeRows(before) ==
  /\ walk # "done"
  /\ list \in {"telemetry", "ingestion"}
  /\ before < clock
  /\ \E row \in rows : row.at <= before
  /\ rows' = {row \in rows : row.at > before}
  /\ failed' = failed \cap rows'
  /\ owed' = owed \cap rows'
  /\ UNCHANGED <<clock, list, begun, limit, filter, walk, cursor, page, earlier>>

\* The error of an audit row is set once its message has been looked at.
SetError(row) ==
  /\ walk # "done"
  /\ list = "ingestion"
  /\ row \in rows \ failed
  /\ failed' = failed \cup {row}
  /\ owed' = IF filter = "processed" THEN owed \ {row} ELSE owed
  /\ UNCHANGED <<clock, list, rows, begun, limit, filter, walk, cursor, page, earlier>>

(***************************************************************************)
(* The queries: the rows that match, after a cursor.                       *)
(***************************************************************************)

\* Mutant: the rows of one timestamp are all taken to have been listed.
OlderByTime(a, b) == a.at < b.at

\* Mutant: <= for <.
OlderOrSame(a, b) == a.at < b.at \/ (a.at = b.at /\ a.tie <= b.tie)

\* (created_at, id) < (cursor_created_at, cursor_id)
Older(a, b) == a.at < b.at \/ (a.at = b.at /\ a.tie < b.tie)

SitesQuery(c) ==
  {row \in rows : /\ filter = None \/ row.about = filter
                  /\ c = None \/ Older(row, c)}

UsersQuery(c) == {row \in rows : c = None \/ Older(row, c)}

DevicesQuery(c) ==
  {row \in rows : /\ filter = None \/ row.about = filter
                  /\ c = None \/ Older(row, c)}

TelemetryQuery(c) ==
  {row \in rows : /\ row.about = filter
                  /\ c = None \/ Older(row, c)}

ActionsQuery(c) ==
  {row \in rows : /\ filter = None \/ row.about = filter
                  /\ c = None \/ Older(row, c)}

\* errors_only is true, false or not asked for.
IngestionQuery(c) ==
  {row \in rows : /\ filter = "errors" => row \in failed
                  /\ filter = "processed" => row \notin failed
                  /\ filter \in About => row.about = filter
                  /\ c = None \/ Older(row, c)}

HealthQuery(c) == {row \in rows : c = None \/ row.tie > c.tie}

SegmentKeys(c) == {row \in rows : c = None \/ row.tie > c.tie}

Query(c) ==
  CASE list = "sites" -> SitesQuery(c)
    [] list = "users" -> UsersQuery(c)
    [] list = "devices" -> DevicesQuery(c)
    [] list = "telemetry" -> TelemetryQuery(c)
    [] list = "actions" -> ActionsQuery(c)
    [] list = "ingestion" -> IngestionQuery(c)
    [] list = "health" -> HealthQuery(c)
    [] list = "segments" -> SegmentKeys(c)

\* ORDER BY at DESC, tie DESC; health and segments by tie alone, ascending.
Precedes(a, b) ==
  IF list \in {"health", "segments"} THEN a.tie < b.tie
  ELSE a.at > b.at \/ (a.at = b.at /\ a.tie > b.tie)

(***************************************************************************)
(* Pages.                                                                  *)
(***************************************************************************)

Encode(row) == [at |-> row.at, tie |-> row.tie]

PageLimit(asked) == IF asked \in 1..MaxLimit THEN asked ELSE DefaultPageLimit

Filters ==
  CASE list \in Unfiltered -> {None}
    [] list = "telemetry" -> About
    [] list = "ingestion" -> About \cup {None, "errors", "processed"}
    [] OTHER -> About \cup {None}

\* A caller asks for the first page, and will use one page size and filter.
Start(asked, asks) ==
  /\ walk = "new"
  /\ asks \in Filters
  /\ limit' = PageLimit(asked)
  /\ filter' = asks
  /\ walk' = "open"
  /\ UNCHANGED <<clock, list, rows, begun, failed, cursor, page, earlier>>
  /\ owed' = Query(None)'

\* ORDER BY ... LIMIT
FirstRows(some, match) ==
  /\ some \subseteq match
  /\ \/ some = match /\ Cardinality(match) <= limit
     \/ Cardinality(some) = limit
  /\ \A a \in some, b \in match \ some : Precedes(a, b)

Answer(some, more) ==
  /\ page' = some
  /\ earlier' = earlier \cup page
  /\ IF more
     THEN /\ \E last \in some :
               /\ \A a \in some \ {last} : Precedes(a, last)
               /\ cursor' = Encode(last)
          /\ walk' = "open"
     ELSE /\ cursor' = None
          /\ walk' = "done"
  /\ UNCHANGED <<table, list, limit, filter, owed>>

\* A full page has a next one, which may turn out empty.
FullPage(some) == Cardinality(some) = limit

Listing(name, match) ==
  /\ walk = "open"
  /\ list = name
  /\ \E some \in SUBSET match : FirstRows(some, match) /\ Answer(some, FullPage(some))

SitesList == Listing("sites", SitesQuery(cursor))

UsersList == Listing("users", UsersQuery(cursor))

DevicesList == Listing("devices", DevicesQuery(cursor))

TelemetryList == Listing("telemetry", TelemetryQuery(cursor))

ActionsList == Listing("actions", ActionsQuery(cursor))

IngestionList == Listing("ingestion", IngestionQuery(cursor))

FleetHealth == Listing("health", HealthQuery(cursor))

\* Segment pages over the keys it has worked out, and looks whether any are left.
SegmentPage ==
  /\ walk = "open"
  /\ list = "segments"
  /\ LET match == SegmentKeys(cursor)
     IN \E some \in SUBSET match : FirstRows(some, match) /\ Answer(some, some # match)

NextPage ==
  \/ SitesList
  \/ UsersList
  \/ DevicesList
  \/ TelemetryList
  \/ ActionsList
  \/ IngestionList
  \/ FleetHealth
  \/ SegmentPage

ListsNext ==
  \/ Tick
  \/ \E row \in Row : Begin(row) \/ Commit(row) \/ SetError(row)
  \/ \E before \in 1..MaxAt : PurgeRows(before)
  \/ \E asked \in 0..MaxLimit : \E asks \in Filters : Start(asked, asks)
  \/ NextPage

ListsSpec == ListsInit /\ [][ListsNext]_listsVars

(***************************************************************************)
(* Properties.                                                             *)
(***************************************************************************)

\* The variables have their types. (Every list function.)
ListsTypeOK ==
  /\ clock \in 1..MaxAt
  /\ list \in List
  /\ rows \subseteq Row /\ begun \subseteq Row /\ failed \subseteq Row
  /\ limit \in 1..MaxLimit
  /\ walk \in {"new", "open", "done"}
  /\ cursor \in Cursor \cup {None}
  /\ page \subseteq Row /\ earlier \subseteq Row /\ owed \subseteq Row

\* No row is listed twice, whatever is inserted, purged or changed between
\* two pages. (The keyset cursors: "unstable under concurrent inserts" is
\* what cursor.go:2 avoids offsets for.)
ListedOnce == page \cap earlier = {}

\* A walk that has ended listed every row that was there, and matched, from
\* its first page to its last. (The cursors again, the row-value comparisons
\* of the queries and the test for a last page.)
WalkComplete == walk = "done" => owed \subseteq page \cup earlier
=============================================================================
