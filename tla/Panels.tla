-------------------------------- MODULE Panels --------------------------------
(***************************************************************************)
(* The panels of a dashboard: dashboard/overview plans the row over all    *)
(* items, dashboard/category the rows of HTTP and RPC endpoints, of Kafka  *)
(* and of the other dependencies.                                          *)
(*                                                                         *)
(* A builder returns rows of panels, diagnostics and an error, "none" when *)
(* there is none.  Titles, units and descriptions are left out.            *)
(***************************************************************************)
EXTENDS Queries, Lists

CONSTANTS
  MaxOverviewQueries,      \* targets of the overview row
  MaxPanelsPerCategory, MaxQueriesPerCategory,
  MaxTargets               \* targets, and reference IDs, of one panel

ASSUME LimitsAssumption ==
  {MaxOverviewQueries, MaxPanelsPerCategory, MaxQueriesPerCategory, MaxTargets} \subseteq Nat

StatWidth == 6
TableWidth == 24
PanelHeight == 8

\* key: category, slot, entity and purpose; of one category all keys differ.
Panel(key, width, targets, links) ==
  [key |-> key, width |-> width, height |-> PanelHeight, targets |-> targets, links |-> links]

Row(category, purpose, panels) == [key |-> <<category, purpose>>, panels |-> panels]

Built(rows, diagnostics) == [rows |-> rows, diagnostics |-> diagnostics, error |-> "none"]
Refused(error) == [rows |-> <<>>, diagnostics |-> {}, error |-> error]

Targets(panels) == UNION {{<<p.key, q.key>> : q \in p.targets} : p \in panels}

Empty(category, purpose) == Diagnostic("EMPTY_CATEGORY", NoId, <<category, purpose>>)
MissingPanel(scope, purpose) == Diagnostic("MISSING_REQUIRED_METRIC", NoId, <<scope, purpose>>)
------------------------------------------------------------------------------
(* Targets over families, each validated against all items it aggregates *)

FamilyTargets(families, purpose, scope, service) ==
  {FamilyQuery(f, purpose, scope, service) : f \in {g \in families : purpose \in FamilyPurposes(g)}}

Validated(families, purpose, scope, service) ==
  \A f \in {g \in families : purpose \in FamilyPurposes(g)} :
    ValidateOverviewPlan(FamilyQuery(f, purpose, scope, service), f.items, service)
------------------------------------------------------------------------------
(* Service overview *)

Overview == "service_overview"
OverviewPurposes == {"rate", "error_ratio", "in_flight", "top_failing"} \cup Quantiles3

OverviewPanels(items, service) ==
  {Panel(<<Overview, "overview", NoId, p>>, IF p = "top_failing" THEN TableWidth ELSE StatWidth,
         FamilyTargets(Families(items), p, Overview, service), {}) : p \in OverviewPurposes}

\* The options of the operation variable, offered from two operations on.
OperationOptions(items) ==
  LET operations == {i.operation : i \in items} \ Uncontrolled
  IN  IF Cardinality(operations) < 2 THEN {} ELSE operations

OverviewDiagnostics(items) ==
  UncontrolledMetrics(items)
    \cup {Diagnostic("SENSITIVE_VALUE_DROPPED", i.target.id, <<"operation">>) :
            i \in {x \in items : x.operation \in Uncontrolled}}

\* All queries count, then the panels without any are left out.
BuildOverview(items, service) ==
  LET safe   == ControlledService(service)
      all    == IF items = {} THEN {} ELSE OverviewPanels(items, safe)
      panels == {p \in all : p.targets # {}}
  IN  IF \E p \in OverviewPurposes : ~Validated(Families(items), p, Overview, safe)
        THEN Refused("RENDER_ERROR")
      ELSE IF Cardinality(Targets(all)) > MaxOverviewQueries
        THEN Refused("PANEL_LIMIT_EXCEEDED")
      ELSE Built(<<Row(Overview, "panels", panels)>>,
                 ServiceDropped(service) \cup OverviewDiagnostics(items)
                   \cup {MissingPanel(Overview, p.key[4]) : p \in all \ panels}
                   \cup (IF panels = {} THEN {Empty(Overview, "panels")} ELSE {}))
------------------------------------------------------------------------------
(* The operations table of a set of items: one target for each operation of *)
(* every counter family                                                     *)

CounterFamilies(items) == {f \in Families(items) : "rate" \in FamilyPurposes(f)}

TableOf(f, service) == Breakdown(f, {i.operation : i \in f.items}, service)

OperationTable(items, key, links, service) ==
  LET tables  == {TableOf(f, service) : f \in CounterFamilies(items)}
      targets == UNION {t.queries : t \in tables}
  IN  [refused |-> (\E t \in tables : t.error) \/ Cardinality(targets) > MaxTargets,
       diagnostics |-> UNION {t.diagnostics : t \in tables},
       panels |-> IF targets = {} THEN {} ELSE {Panel(key, TableWidth, targets, links)}]

WithinRowLimits(panels) ==
  /\ Cardinality(panels) <= MaxPanelsPerCategory
  /\ Cardinality(Targets(panels)) <= MaxQueriesPerCategory
------------------------------------------------------------------------------
(* HTTP and RPC rows: panels of every endpoint and one operations table *)

ItemPanels(item, service, policy) ==
  LET planned == ItemQueries(item, service, policy)
  IN  {Panel(<<item.category, "item", item.target.id, q.purpose>>, StatWidth, {q},
             {l \in planned.links : ValidateTraceLink(l, item)}) : q \in planned.queries}

EndpointRow(items, category, service, policy) ==
  LET safe     == ControlledService(service)
      handlers == {i \in items : i.category = category /\ i.target.kind = "endpoint"}
      table    == OperationTable(handlers, <<category, "operations", NoId, "operations">>, {}, safe)
      panels   == (UNION {ItemPanels(i, service, policy) : i \in handlers}) \cup table.panels
  IN  IF \E i \in handlers : \E q \in ItemQueries(i, service, policy).queries :
           ~ValidatePlan(q, i, safe)
        THEN Refused("RENDER_ERROR")
      ELSE IF table.refused \/ ~WithinRowLimits(panels)
        THEN Refused("PANEL_LIMIT_EXCEEDED")
      ELSE Built(<<Row(category, "panels", panels)>>,
                 ServiceDropped(service)
                   \cup (UNION {ItemQueries(i, service, policy).diagnostics : i \in handlers})
                   \cup table.diagnostics
                   \cup (IF panels = {} THEN {Empty(category, "panels")} ELSE {}))
------------------------------------------------------------------------------
(* Dependency rows: panels over the families of one class of calls *)

Class(category, kind, purpose, slot, scope) ==
  [category |-> category, kind |-> kind, purpose |-> purpose, slot |-> slot, scope |-> scope]

\* Mutant: consumers are forgotten.
KafkaProducers == <<Class("kafka", "kafka_producer", "panels", "producer", "kafka")>>

KafkaClasses ==
  <<Class("kafka", "kafka_producer", "panels", "producer", "kafka"),
    Class("kafka", "kafka_consumer", "panels", "consumer", "kafka")>>

DependencyClasses ==
  <<Class("database", "sql", "panels", "sql", "database"),
    Class("cache", "redis", "panels", "redis", "cache"),
    Class("http", "http_client", "clients", "client", "http_client"),
    Class("rpc", "rpc_client", "clients", "client", "rpc_client")>>

ClassItems(items, class) == {i \in items : i.target.kind = "dependency" /\ i.kind = class.kind}

ClassPurposes == {"rate", "error_ratio"} \cup Quantiles3

\* The links of all items of the class, on every one of its panels.
ClassLinks(items, service, policy) ==
  UNION {{l \in TraceLink(i, service, policy) : l.operation \notin Uncontrolled} : i \in items}

LinksDropped(items, policy) ==
  UNION {{d \in TraceLinkDropped(i, policy) : d.code = "SENSITIVE_VALUE_DROPPED"} : i \in items}

ClassPanels(items, class, service, policy) ==
  LET families == Families(items)
      links    == ClassLinks(items, service, policy)
      Stat(p)  == Panel(<<class.category, class.slot, NoId, p>>, StatWidth,
                        FamilyTargets(families, p, class.scope, service), links)
      stats    == {s \in {Stat(p) : p \in ClassPurposes} : s.targets # {}}
      table    == OperationTable(items, <<class.category, class.slot, NoId, "operations">>,
                                 links, service)
      panels   == stats \cup table.panels
  IN  [panels |-> panels,
       error |-> IF \E p \in ClassPurposes : ~Validated(families, p, class.scope, service)
                   THEN "RENDER_ERROR"
                 ELSE IF table.refused THEN "PANEL_LIMIT_EXCEEDED" ELSE "none",
       diagnostics |->
         UncontrolledMetrics(items) \cup LinksDropped(items, policy) \cup table.diagnostics
           \cup {MissingPanel(class.slot, p) :
                   p \in (ClassPurposes \cup {"operations"}) \ {x.key[4] : x \in panels}}]

\* One row with the panels of both kinds of Kafka calls.
KafkaRow(items, service, policy) ==
  LET safe    == ControlledService(service)
      parts   == {ClassPanels(ClassItems(items, c), c, safe, policy) :
                    c \in {x \in Range(KafkaClasses) : ClassItems(items, x) # {}}}
      panels  == UNION {p.panels : p \in parts}
      errors  == {p.error : p \in parts} \ {"none"}
  IN  IF errors # {} THEN Refused(CHOOSE e \in errors : TRUE)
      ELSE IF ~WithinRowLimits(panels) THEN Refused("PANEL_LIMIT_EXCEEDED")
      ELSE Built(<<Row("kafka", "panels", panels)>>,
                 ServiceDropped(service) \cup (UNION {p.diagnostics : p \in parts})
                   \cup (IF panels = {} THEN {Empty("kafka", "panels")} ELSE {}))

DependencyRow(items, class, service, policy) ==
  LET safe == ControlledService(service)
      mine == ClassItems(items, class)
      part == ClassPanels(mine, class, safe, policy)
  IN  IF mine = {} THEN Built(<<Row(class.category, class.purpose, {})>>,
                              ServiceDropped(service) \cup {Empty(class.category, class.purpose)})
      ELSE IF part.error # "none" THEN Refused(part.error)
      ELSE IF ~WithinRowLimits(part.panels) THEN Refused("PANEL_LIMIT_EXCEEDED")
      ELSE Built(<<Row(class.category, class.purpose, part.panels)>>,
                 ServiceDropped(service) \cup part.diagnostics
                   \cup (IF part.panels = {} THEN {Empty(class.category, class.purpose)} ELSE {}))

\* A class of client calls has no row unless the policy asks for it.
IncludedClasses(policy) ==
  Kept(DependencyClasses, {n \in DOMAIN DependencyClasses :
                             DependencyClasses[n].kind \in ClientKinds => policy.clients})
==============================================================================
