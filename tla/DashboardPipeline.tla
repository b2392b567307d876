-------------------------- MODULE DashboardPipeline --------------------------
(***************************************************************************)
(* From a plan to a dashboard: catalog, rows of panels, their IDs and grid *)
(* positions, the limits, strict mode and the last validation              *)
(* (dashboard/pipeline, dashboard/ids.go, dashboard/layout.go, and the     *)
(* order executeDashboard calls them in).                                  *)
(*                                                                         *)
(* The plan is the complete one of the planner's modules.                  *)
(***************************************************************************)
EXTENDS Panels

CONSTANTS
  Inputs,         \* document, planner policy, dashboard policy, service name, hash seed
  Hash(_, _, _)   \* hash of a key, by seed and attempt

GridColumns == 24
PanelIDs == 0..(2^30 - 1 + 2^30)   \* 31 bits of the hash
PlanIn(in) == CompletePlan([doc |-> in.doc, policy |-> in.gen])

\* Machine names and operations are normalized, and then fit for a query.
Normalized(doc) ==
  /\ \A f \in Range(doc.function) : f.norm \notin Uncontrolled
  /\ \A e \in Range(doc.endpoint) \cup Range(doc.dependency) : e.op \notin Uncontrolled

\* The planner lets out no other plan (PlanIsSound of Planner).
Sound(plan) ==
  \A x, y \in UNION Range(plan) :
    /\ StableID(x) = StableID(y) => x = y
    /\ x.target.id = y.target.id => x.target.kind = y.target.kind

ASSUME InputsAssumption ==
  \A in \in Inputs :
    /\ \A kind \in EntityKinds : in.doc[kind] \in Seq(EntityFields[kind])
    /\ WellFormed(in.doc) /\ Normalized(in.doc) /\ Sound(PlanIn(in))
    /\ in.service # Missing

VARIABLES
  input,
  pc,
  catalog,      \* items, diagnostics and errors
  rows,         \* rows with panels, in canonical order
  diagnostics,
  step,         \* next builder of category rows
  at,           \* row being rendered or stacked
  ids,          \* panel IDs of that row, by key
  attempt,      \* rehashes of the key at hand
  cursor,       \* line of the grid being filled: x, y and height
  placed,       \* placements of the row
  rendered,     \* placements of each finished row
  top,          \* first free line under the rows stacked so far
  error

vars == <<input, pc, catalog, rows, diagnostics, step, at, ids, attempt, cursor, placed,
          rendered, top, error>>

NoCatalog == [items |-> {}, diagnostics |-> {}, errors |-> {}]
NoLine == [x |-> 0, y |-> 0, h |-> 0]
Done == {"built", "failed"}
Builders == <<"http", "rpc", "kafka", "dependencies">>

Init ==
  /\ input \in Inputs
  /\ pc = "catalog"
  /\ catalog = NoCatalog
  /\ rows = <<>> /\ diagnostics = {} /\ step = 1
  /\ at = 1 /\ ids = <<>> /\ attempt = 0 /\ cursor = NoLine /\ placed = {}
  /\ rendered = <<>> /\ top = 0 /\ error = "none"

Layout == <<at, ids, attempt, cursor, placed, rendered, top>>

Fail(code) == pc' = "failed" /\ error' = code
------------------------------------------------------------------------------
(* The rows *)

CatalogItems ==
  LET built == BuildCatalog(input.doc, PlanIn(input), input.policy)
  IN  /\ pc = "catalog"
      /\ catalog' = built
      /\ IF built.errors # {} THEN Fail("CATALOG") /\ UNCHANGED diagnostics
         ELSE /\ pc' = "overview" /\ diagnostics' = built.diagnostics
              /\ UNCHANGED error
      /\ UNCHANGED <<input, rows, step, Layout>>

\* Rows without panels are left out.
Shown(built) == Kept(built.rows, {n \in DOMAIN built.rows : built.rows[n].panels # {}})

Take(built, next) ==
  IF built.error # "none" THEN Fail(built.error) /\ UNCHANGED <<rows, diagnostics>>
  ELSE /\ rows' = rows \o Shown(built)
       /\ diagnostics' = diagnostics \cup built.diagnostics
       /\ pc' = next
       /\ UNCHANGED error

\* The overview is rendered before any other row is planned.
OverviewRow ==
  /\ pc = "overview"
  /\ \E built \in {BuildOverview(catalog.items, input.service)} : Take(built, "identify")
  /\ UNCHANGED <<input, catalog, step, Layout>>

Sequentially(built) ==
  IF \E i \in DOMAIN built : built[i].error # "none"
    THEN built[Min({i \in DOMAIN built : built[i].error # "none"})]
    ELSE Built(FlattenSeq([i \in DOMAIN built |-> built[i].rows]),
               UNION {built[i].diagnostics : i \in DOMAIN built})

RowsOf(builder) ==
  CASE builder \in {"http", "rpc"} ->
         EndpointRow(catalog.items, builder, input.service, input.policy)
    [] builder = "kafka" -> KafkaRow(catalog.items, input.service, input.policy)
    [] builder = "dependencies" ->
         LET classes == IncludedClasses(input.policy)
         IN  Sequentially([i \in DOMAIN classes |->
               DependencyRow(catalog.items, classes[i], input.service, input.policy)])

CategoryRows ==
  /\ pc = "category"
  /\ step' = step + 1
  /\ \E built \in {RowsOf(Builders[step])} :
       Take(built, IF step = Len(Builders) THEN "identify" ELSE "category")
  /\ UNCHANGED <<input, catalog, Layout>>
------------------------------------------------------------------------------
(* Panel IDs of one row (resolveIDs): a hash of the key, rehashed until the *)
(* row has not used it.  CHOOSE stands for the sorted order of the keys.    *)

Keys(row) == {p.key : p \in row.panels}

PanelOf(key) == CHOOSE p \in rows[at].panels : p.key = key

With(f, k, v) == [x \in DOMAIN f \cup {k} |-> IF x = k THEN v ELSE f[x]]

\* Mutant: the attempt is not part of the hash.
TakeSameHash ==
  /\ pc = "identify" /\ at <= Len(rows)
  /\ Keys(rows[at]) \ DOMAIN ids # {}
  /\ LET key == CHOOSE k \in Keys(rows[at]) \ DOMAIN ids : TRUE
         id  == Hash(input.seed, key, 0)
     IN  IF id \in Range(ids) THEN UNCHANGED <<attempt, ids>>
         ELSE ids' = With(ids, key, id) /\ attempt' = 0
  /\ UNCHANGED <<input, pc, catalog, rows, diagnostics, step, at, cursor, placed, rendered,
                 top, error>>

TakeID ==
  /\ pc = "identify" /\ at <= Len(rows)
  /\ Keys(rows[at]) \ DOMAIN ids # {}
  /\ LET key == CHOOSE k \in Keys(rows[at]) \ DOMAIN ids : TRUE
         id  == Hash(input.seed, key, attempt)
     IN  /\ id \in PanelIDs
         /\ IF id \in Range(ids) THEN attempt' = attempt + 1 /\ UNCHANGED ids
            ELSE ids' = With(ids, key, id) /\ attempt' = 0
  /\ UNCHANGED <<input, pc, catalog, rows, diagnostics, step, at, cursor, placed, rendered,
                 top, error>>

\* Reference IDs run from A to Z, in the order of the query keys.
Crowded(panel) == Cardinality(panel.targets) > MaxTargets

NumberTargets ==
  /\ pc = "identify" /\ at <= Len(rows)
  /\ Keys(rows[at]) \subseteq DOMAIN ids
  /\ IF \E p \in rows[at].panels : Crowded(p)
       THEN Fail("PANEL_LIMIT_EXCEEDED") ELSE pc' = "place" /\ UNCHANGED error
  /\ UNCHANGED <<input, catalog, rows, diagnostics, step, Layout>>

RowsIdentified ==
  /\ pc = "identify" /\ at > Len(rows)
  /\ IF step > Len(Builders) THEN pc' = "stack" /\ at' = 1
     ELSE pc' = "category" /\ UNCHANGED at
  /\ UNCHANGED <<input, catalog, rows, diagnostics, step, ids, attempt, cursor, placed,
                 rendered, top, error>>
------------------------------------------------------------------------------
(* The grid of one row (PlanGrid, placePanels): panels by ascending ID, a   *)
(* new line whenever the next one does not fit                              *)

ClampGrid(extent) ==
  IF extent \in 1..GridColumns THEN extent ELSE IF extent > GridColumns THEN GridColumns ELSE 1

Pending == {k \in Keys(rows[at]) : \A b \in placed : b.key # k}

NextPanel == CHOOSE k \in Pending : \A l \in Pending : ids[k] <= ids[l]

\* The line the next panel of width w goes on.
LineFor(w) ==
  IF cursor.x + w > GridColumns THEN [x |-> 0, y |-> cursor.y + cursor.h, h |-> 0] ELSE cursor

Higher(a, b) == IF a > b THEN a ELSE b

PlacePanel ==
  /\ pc = "place" /\ Pending # {}
  /\ LET panel == PanelOf(NextPanel)
         w     == ClampGrid(panel.width)
         h     == ClampGrid(panel.height)
         line  == LineFor(w)
     IN  /\ placed' = placed \cup
              {[key |-> NextPanel, id |-> ids[NextPanel], x |-> line.x, y |-> line.y,
                w |-> w, h |-> h]}
         /\ cursor' = [x |-> line.x + w, y |-> line.y, h |-> Higher(line.h, h)]
  /\ UNCHANGED <<input, pc, catalog, rows, diagnostics, step, at, ids, attempt, rendered,
                 top, error>>

\* Mutant: the IDs of the row are kept for the next one.
FinishRowKeepingIDs ==
  /\ pc = "place" /\ Pending = {}
  /\ rendered' = Append(rendered, placed)
  /\ at' = at + 1 /\ attempt' = 0 /\ cursor' = NoLine /\ placed' = {}
  /\ pc' = "identify"
  /\ UNCHANGED <<input, catalog, rows, diagnostics, step, ids, top, error>>

FinishRow ==
  /\ pc = "place" /\ Pending = {}
  /\ rendered' = Append(rendered, placed)
  /\ at' = at + 1 /\ ids' = <<>> /\ attempt' = 0 /\ cursor' = NoLine /\ placed' = {}
  /\ pc' = "identify"
  /\ UNCHANGED <<input, catalog, rows, diagnostics, step, top, error>>
------------------------------------------------------------------------------
(* The whole dashboard *)

\* Mutant: the band of the row itself is forgotten.
StackRowTight ==
  /\ pc = "stack" /\ at <= Len(rendered)
  /\ LET moved == {[b EXCEPT !.y = @ + top] : b \in rendered[at]}
     IN  /\ rendered' = [rendered EXCEPT ![at] = moved]
         /\ top' = IF moved = {} THEN top ELSE Max({b.y + b.h : b \in moved})
  /\ at' = at + 1
  /\ UNCHANGED <<input, pc, catalog, rows, diagnostics, step, ids, attempt, cursor, placed, error>>

\* One row is moved under the rows before it, below its own band.
StackRow ==
  /\ pc = "stack" /\ at <= Len(rendered)
  /\ LET moved == {[b EXCEPT !.y = @ + top + 1] : b \in rendered[at]}
     IN  /\ rendered' = [rendered EXCEPT ![at] = moved]
         /\ top' = IF moved = {} THEN top ELSE Max({b.y + b.h : b \in moved})
  /\ at' = at + 1
  /\ UNCHANGED <<input, pc, catalog, rows, diagnostics, step, ids, attempt, cursor, placed, error>>

AllPanels == UNION {r.panels : r \in Range(rows)}

\* The limits of the policy, and a dashboard with nothing on it.
CheckLimits ==
  /\ pc = "stack" /\ at > Len(rendered)
  /\ IF \/ Cardinality(AllPanels) > input.policy.maxPanels
        \/ Cardinality(Targets(AllPanels)) > input.policy.maxQueries
       THEN Fail("PANEL_LIMIT_EXCEEDED")
     ELSE IF AllPanels = {} THEN Fail("EMPTY_CATEGORY")
     ELSE pc' = "strict" /\ UNCHANGED error
  /\ UNCHANGED <<input, catalog, rows, diagnostics, step, Layout>>

\* Mutant: only the warnings of the catalog count.
CheckStrictCatalog ==
  /\ pc = "strict"
  /\ IF input.policy.strict /\ Strictly(catalog.diagnostics) # {} THEN Fail("STRICT")
     ELSE pc' = "validate" /\ UNCHANGED error
  /\ UNCHANGED <<input, catalog, rows, diagnostics, step, Layout>>

CheckStrict ==
  /\ pc = "strict"
  /\ IF input.policy.strict /\ Strictly(diagnostics) # {} THEN Fail("STRICT")
     ELSE pc' = "validate" /\ UNCHANGED error
  /\ UNCHANGED <<input, catalog, rows, diagnostics, step, Layout>>

Placements == UNION Range(rendered)

\* model.Validate: IDs are positive and unique in the whole dashboard,
\* positions inside the grid, reference IDs unique in a panel.
ValidModel ==
  /\ \A b \in Placements : b.id > 0
  /\ \A b, c \in Placements : b.id = c.id => b.key = c.key
  /\ \A b \in Placements :
       b.w \in 1..GridColumns /\ b.h \in 1..GridColumns /\ b.x + b.w <= GridColumns
  /\ \A p \in AllPanels :
       ~Crowded(p) /\ \A q, r \in p.targets : q.key = r.key => q = r

Validate ==
  /\ pc = "validate"
  /\ IF ValidModel THEN pc' = "built" /\ UNCHANGED error ELSE Fail("RENDER_ERROR")
  /\ UNCHANGED <<input, catalog, rows, diagnostics, step, Layout>>

Next ==
  \/ CatalogItems \/ OverviewRow \/ CategoryRows
  \/ TakeID \/ NumberTargets \/ RowsIdentified \/ PlacePanel \/ FinishRow
  \/ StackRow \/ CheckLimits \/ CheckStrict \/ Validate

Spec == Init /\ [][Next]_vars /\ WF_vars(Next)
------------------------------------------------------------------------------
(* Properties *)

\* Types, and the position of the renderer within the rows and their keys.
TypeOK ==
  /\ input \in Inputs
  /\ pc \in {"catalog", "overview", "category", "identify", "place", "stack", "strict",
             "validate"} \cup Done
  /\ step \in 1..(Len(Builders) + 1) /\ at \in 1..(Len(rows) + 1)
  /\ \A i \in DOMAIN rows : rows[i].panels # {}
  /\ (ids # <<>> /\ at <= Len(rows)) => DOMAIN ids \subseteq Keys(rows[at])
  /\ attempt \in Nat /\ top \in Nat
  /\ \A b \in placed : b.key \in DOMAIN ids /\ b.id = ids[b.key]
  /\ Len(rendered) <= Len(rows)
  /\ pc = "failed" <=> error # "none"

Disjoint(b, c) ==
  b.x + b.w <= c.x \/ c.x + c.w <= b.x \/ b.y + b.h <= c.y \/ c.y + c.h <= b.y

Stacked == IF pc \in {"stack", "strict", "validate", "built"} THEN at - 1 ELSE 0

\* No two panels of a row share a cell, none leaves the 24 columns, and between
\* the rows that are stacked there is room for the band of the lower one,
\* whatever the sizes, the order of the IDs and the wrapping of lines.
NothingOverlaps ==
  /\ \A row \in Range(rendered) \cup {placed} : \A b, c \in row :
       b.x >= 0 /\ b.x + b.w <= GridColumns /\ (b.key # c.key => Disjoint(b, c))
  /\ \A j \in 1..Stacked : \A c \in rendered[j] :
       c.y >= 1 /\ \A i \in 1..(j - 1) : \A b \in rendered[i] : b.y + b.h + 1 <= c.y

CallEdges == {x \in PlanIn(input)["tracing"] : x.target.kind = "edge"}

\* A dashboard has positive IDs no two panels share, and a call fails only for
\* a reason in its input: spans of call edges, hashes that are zero or clash
\* between rows, no metrics at all, strict mode or a limit.  In particular no
\* query the builders make is refused by the validator.
FailuresAreExplained ==
  /\ pc = "built" =>
       \A b, c \in Placements : b.id > 0 /\ (b.id = c.id => b.key = c.key)
  /\ error = "CATALOG" =>
       CallEdges # {} \/ (input.policy.strict /\ Unmapped(input.doc) # {})
  /\ error = "RENDER_ERROR" =>
       \E b \in Placements : b.id = 0 \/ \E c \in Placements \ {b} : c.id = b.id
  /\ error = "EMPTY_CATEGORY" => \A i \in catalog.items : i.metrics = {}
  /\ error = "STRICT" => input.policy.strict

TargetsIn(category) == UNION {p.targets : p \in {x \in AllPanels : x.key[1] = category}}
LinksIn(category) == UNION {p.links : p \in {x \in AllPanels : x.key[1] = category}}

Reported(code, id) == \E d \in diagnostics : d.code = code /\ d.target = id

\* Every endpoint and dependency of the document is in a panel of its own
\* category by one of its metrics, is reported, or is a client call nobody
\* asked for; and so is its span, where links are wanted and the row has them.
EverythingIsShown ==
  pc = "built" =>
    /\ \A e \in Range(input.doc.endpoint) \cup Range(input.doc.dependency) :
         \/ Reported("UNSUPPORTED_TARGET", e.id)
         \/ e.kind \in ClientKinds /\ ~input.policy.clients
         \/ \E i \in catalog.items : i.target.id = e.id
    /\ \A i \in catalog.items :
         /\ \E q \in TargetsIn(i.category) : q.plans \cap {m.id : m \in i.metrics} # {}
         /\ (input.policy.links /\ i.category # Overview) => \A x \in i.spans :
              \/ \E l \in LinksIn(i.category) : l.span = x.name
              \/ Reported("SENSITIVE_VALUE_DROPPED", i.target.id)
              \/ Reported("SENSITIVE_VALUE_DROPPED", NoId)

\* The series of a planned metric: its operation is a constant of the plan.
Matches(s, x) ==
  /\ s.metric = NameOf(x)
  /\ \A l \in s.matchers : l.op = "=" =>
       l.value = (IF l.label = "service" THEN input.service ELSE x.base[2])

Reached(q) ==
  \A s \in Selectors(q) : \E x \in PlanIn(input)["metrics"] :
    StableID(x) \in q.plans /\ Matches(s, x)

\* No target of the dashboard filters by a service or an operation that none of
\* the metrics it is built from carries.
QueriesReachTheirSeries ==
  pc = "built" => \A p \in AllPanels : \A q \in p.targets : Reached(q)

\* Endpoints whose method, route or name the analyzer did not find, and their metrics.
IncompleteIDs == {e.id : e \in {x \in Range(input.doc.endpoint) : EndpointIncomplete(x)}}

IncompleteNames ==
  {NameOf(x) : x \in {y \in PlanIn(input)["metrics"] : y.target.id \in IncompleteIDs}}

\* The same of every target but those on a metric that such an endpoint has, alone
\* or together with others of its name.
CompleteQueriesReachTheirSeries ==
  pc = "built" => \A p \in AllPanels : \A q \in p.targets :
    Reached(q) \/ q.selector.metric \in IncompleteNames

\* A dashboard built in strict mode lacks nothing: every panel of the overview,
\* every panel of every endpoint, and every link that is wanted (of a dependency,
\* if spans are planned at all: the lack of a span is reported of endpoints only).
StrictDashboardsAreComplete ==
  (pc = "built" /\ input.policy.strict) =>
    /\ {p.key[4] : p \in {x \in AllPanels : x.key[1] = Overview}} = OverviewPurposes
    /\ \A i \in {x \in catalog.items : x.target.kind = "endpoint" /\ x.category # Overview} :
         \A purpose \in ClassPurposes \cup {"in_flight"} :
           \E p \in AllPanels : /\ p.key = <<i.category, "item", i.target.id, purpose>>
                               /\ input.policy.links => p.links # {}
    /\ \A i \in {x \in catalog.items : x.target.kind = "dependency"} :
         input.policy.links => \A x \in i.spans : \E l \in LinksIn(i.category) : l.span = x.name

\* However the hashes collide, the dashboard is built or refused in the end.
Terminates == <>(pc \in Done)
==============================================================================
