------------------------------- MODULE Catalog -------------------------------
(***************************************************************************)
(* dashboard.BuildCatalog (dashboard/builder.go): every endpoint and       *)
(* dependency of the document becomes a dashboard item that refers to the  *)
(* metrics and spans planned for it and says which queries they allow.     *)
(*                                                                         *)
(* A document and a plan have the form of the planner's modules.  Display  *)
(* names, units and provenance are left out; lists the code sorts are sets.*)
(***************************************************************************)
EXTENDS Plans

\* Texts that the character patterns of metric names, span names and matcher
\* values refuse, such as a route with a parameter.
CONSTANT Uncontrolled

\* The words metric names are made of beside the texts of the document.
TableWords == EndpointKinds \cup Range(System) \cup {"unknown", "op"}
                \cup {"count", "duration", "in_flight", "duration_summary"}

ASSUME UncontrolledAssumption ==
  Uncontrolled \subseteq STRING \ {Missing} /\ Uncontrolled \cap TableWords = {}

Categories == {"service_overview", "http", "rpc", "kafka", "database", "cache"}

EndpointCategory == [http |-> "http", grpc |-> "rpc", cron |-> "service_overview"]

DependencyCategory ==
  [kafka_producer |-> "kafka", kafka_consumer |-> "kafka", sql |-> "database",
   redis |-> "cache", http_client |-> "http", rpc_client |-> "rpc"]

ClientKinds == {"http_client", "rpc_client"}

Diagnostic(code, target, field) == [code |-> code, target |-> target, field |-> field]

\* The codes strict mode turns into errors.
StrictCodes == {"MISSING_REQUIRED_METRIC", "UNSUPPORTED_TARGET", "NAME_COLLISION",
                "SENSITIVE_VALUE_DROPPED"}
Strictly(diagnostics) == {d \in diagnostics : d.code \in StrictCodes}
------------------------------------------------------------------------------
(* References to what the plan declares for an entity *)

\* The labels a metric carries; a gauge of operations in flight has no status.
Labels(purpose) == {"service", "operation"} \cup (IF purpose = "in_flight" THEN {} ELSE {"status"})

MetricType == [count |-> "counter", duration |-> "histogram", in_flight |-> "gauge",
               duration_summary |-> "summary"]

MetricReference(x) ==
  [id |-> StableID(x), name |-> NameOf(x), type |-> MetricType[x.purpose],
   attributes |-> Labels(x.purpose)]

SpanReference(x) == [id |-> StableID(x), name |-> NameOf(x)]

Controlled(name) == \A i \in DOMAIN name[1] : name[1][i] \notin Uncontrolled

\* What the queries of an item may rely on.
Capabilities(metrics, spans) ==
  {c \in {"rate", "error_ratio", "percentiles", "in_flight", "trace_link"} :
     CASE c = "rate"        -> \E m \in metrics : {"service", "operation"} \subseteq m.attributes
       [] c = "error_ratio" -> \E m \in metrics : "status" \in m.attributes
       [] c = "percentiles" -> \E m \in metrics : m.type = "histogram"
       [] c = "in_flight"   -> \E m \in metrics : m.type = "gauge"
       [] c = "trace_link"  -> spans # {}}
------------------------------------------------------------------------------
(* Items *)

\* The operation of an endpoint, whether or not its route is known.
EndpointItemOperation(e) == IF e.op = Missing THEN e.kind ELSE e.op

\* Mutant: named like an endpoint.
DependencyItemOperationKind(d) == IF d.op = Missing THEN d.kind ELSE d.op

DependencyItemOperation(d) == IF d.op = Missing THEN "unknown" ELSE d.op

PlannedFor(items, id) == {x \in items : x.target.id = id}

CatalogItem(kind, e, category, operation, plan) ==
  LET metrics == {MetricReference(x) : x \in PlannedFor(plan["metrics"], e.id)}
      spans   == {SpanReference(x) : x \in PlannedFor(plan["tracing"], e.id)}
  IN  [id |-> <<category, e.id>>, category |-> category, target |-> Target(kind, e.id),
       kind |-> e.kind, operation |-> operation, metrics |-> metrics, spans |-> spans,
       capabilities |-> Capabilities(metrics, spans)]

EndpointItems(doc, plan) ==
  {CatalogItem("endpoint", e, EndpointCategory[e.kind], EndpointItemOperation(e), plan) :
     e \in {x \in Range(doc.endpoint) : x.kind \in EndpointKinds}}

\* Client calls are taken on request only; without it they leave no trace.
DependencyItems(doc, plan, policy) ==
  {CatalogItem("dependency", d, DependencyCategory[d.kind], DependencyItemOperation(d), plan) :
     d \in {x \in Range(doc.dependency) : x.kind \in DependencyKinds
                                         /\ (x.kind \in ClientKinds => policy.clients)}}

Unmapped(doc) ==
  {Diagnostic("UNSUPPORTED_TARGET", e.id, <<"kind">>) :
     e \in {x \in Range(doc.endpoint) : x.kind \notin EndpointKinds}
             \cup {x \in Range(doc.dependency) : x.kind \notin DependencyKinds}}
------------------------------------------------------------------------------
(* The catalog, or the violations that leave none *)

DuplicateIDs(plan) ==
  LET all == UNION Range(plan)
  IN  {Diagnostic("INVALID_IR", x.target.id, <<"id">>) :
         x \in {y \in all : \E z \in all \ {y} : StableID(y) = StableID(z)}}

\* Metrics and spans must point at an endpoint or a dependency of the document.
DanglingTargets(doc, plan) ==
  {Diagnostic("DANGLING_REFERENCE", x.target.id, <<"target">>) :
     x \in {y \in plan["metrics"] \cup plan["tracing"] :
              ~\E kind \in {"endpoint", "dependency"} :
                 y.target.kind = kind /\ \E e \in Range(doc[kind]) : e.id = y.target.id}}

BuildCatalog(doc, plan, policy) ==
  LET duplicates == DuplicateIDs(plan)
      errors == IF duplicates # {} THEN duplicates ELSE DanglingTargets(doc, plan)
      unmapped == Unmapped(doc)
  IN  IF errors # {} THEN [items |-> {}, diagnostics |-> {}, errors |-> errors]
      ELSE [items |-> EndpointItems(doc, plan) \cup DependencyItems(doc, plan, policy),
            diagnostics |-> unmapped,
            errors |-> IF policy.strict THEN Strictly(unmapped) ELSE {}]
==============================================================================
