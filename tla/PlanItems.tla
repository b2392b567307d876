------------------------------ MODULE PlanItems ------------------------------
(***************************************************************************)
(* What the signal sub-planners of generator/planner make of one entity of *)
(* the analysed document: the metric instruments, spans and log events     *)
(* planned for it, the warnings it causes, and the names they get.         *)
(*                                                                         *)
(* A name is the tuple of the normalized components it is built from plus  *)
(* the ID whose hash was appended to it (0: none).  Attributes, log        *)
(* fields, units and descriptions are left out.                            *)
(***************************************************************************)
EXTENDS AnalyzedDocument, FiniteSets

CONSTANTS
  Buckets,    \* number of finite histogram boundaries of the policy
  Quantiles   \* number of summary quantiles of the policy

ASSUME BoundariesAssumption == Buckets \in Nat \ {0} /\ Quantiles \in Nat \ {0}

Statuses == 5

Signals == {"metrics", "tracing", "logging"}
EndpointKinds == {"http", "grpc", "cron"}

\* The system of a dependency in metric names, and in span names.
System == [kafka_producer |-> "kafka", kafka_consumer |-> "kafka", sql |-> "sql",
           redis |-> "redis", http_client |-> "http", rpc_client |-> "rpc"]
SpanSystem == [System EXCEPT !.sql = "db", !.http_client = "HTTP"]
DependencyKinds == DOMAIN System
------------------------------------------------------------------------------
(* Plan items, their IDs and the outcome of planning one entity *)

Target(kind, id) == [kind |-> kind, id |-> id]

Item(signal, kind, e, purpose, base) ==
  [signal |-> signal, target |-> Target(kind, e.id), purpose |-> purpose,
   base |-> base, suffix |-> NoId]

StableID(item) == <<item.signal, item.target.id, item.purpose>>
NameOf(item) == <<item.base, item.suffix>>

Warning(code, signal, id) == [code |-> code, signal |-> signal, target |-> id]

Nothing == [items |-> {}, diagnostics |-> {}, skipped |-> 0]

\* An entity the mapping table of the sub-planner does not know is skipped.
Skip(code, signal, e) ==
  [items |-> {}, diagnostics |-> {Warning(code, signal, e.id)}, skipped |-> 1]

Unsupported(signal, e) == Skip("GEN_UNSUPPORTED_ENTITY", signal, e)

Planned(signal, e, items, incomplete) ==
  [items |-> items, skipped |-> 0,
   diagnostics |-> IF incomplete THEN {Warning("GEN_INCOMPLETE_TARGET", signal, e.id)} ELSE {}]
------------------------------------------------------------------------------
(* Metrics: one instrument per purpose and entity *)

Instruments(policy) ==
  {"count", "duration"}
    \cup (IF policy.gauges THEN {"in_flight"} ELSE {})
    \cup (IF policy.summaries THEN {"duration_summary"} ELSE {})

\* An HTTP endpoint needs method and route, the others their own identity.
EndpointIncomplete(e) == e.op = Missing \/ (e.kind = "http" /\ e.route = Missing)

EndpointOperation(doc, e) ==
  IF ~EndpointIncomplete(e) THEN e.op
  ELSE IF e.kind = "grpc" THEN FunctionOf(doc, e.fn).norm ELSE e.kind

EndpointMetrics(doc, policy, e) ==
  IF e.kind \notin EndpointKinds THEN Unsupported("metrics", e)
  ELSE Planned("metrics", e,
         {Item("metrics", "endpoint", e, p,
               <<FunctionOf(doc, e.fn).norm, EndpointOperation(doc, e), e.kind, p>>) :
            p \in Instruments(policy)},
         EndpointIncomplete(e))

DependencyOperation(d) == IF d.op = Missing THEN "unknown" ELSE d.op

DependencyIncomplete(d) == d.op = Missing \/ ~d.static

DependencyMetrics(doc, policy, d) ==
  IF d.kind \notin DependencyKinds THEN Unsupported("metrics", d)
  ELSE Planned("metrics", d,
         {Item("metrics", "dependency", d, p,
               <<FunctionOf(doc, d.fn).norm, DependencyOperation(d), System[d.kind], p, "op">>) :
            p \in Instruments(policy)},
         DependencyIncomplete(d))

\* Classic-exposition series of one instrument: service and operation are
\* constant, the status of an operation has five values.
SeriesPer ==
  [count |-> Statuses, in_flight |-> 1,
   duration |-> Statuses * (Buckets + 3), duration_summary |-> Statuses * (Quantiles + 2)]

Series(items) ==
  LET Of(p) == Cardinality({x \in items : x.purpose = p}) * SeriesPer[p]
  IN  Of("count") + Of("duration") + Of("in_flight") + Of("duration_summary")

WithinLimits(items, policy) ==
  /\ Cardinality(items) <= policy.maxInstruments
  /\ Series(items) <= policy.maxSeries
------------------------------------------------------------------------------
(* Spans: a root span per endpoint, a child span per dependency and, if the *)
(* policy asks for them, an internal span per resolved call edge            *)

\* What is no HTTP method is named by a constant.
Methods == {"get", "head", "post", "put", "delete", "connect", "options", "trace", "patch"}
SpanMethod(op) == IF op \in Methods THEN op ELSE "http"

RootSpan(doc, e) ==
  IF e.kind \notin EndpointKinds THEN Unsupported("tracing", e)
  ELSE LET base == IF EndpointIncomplete(e) THEN <<FunctionOf(doc, e.fn).name>>
                   ELSE IF e.kind = "http" THEN <<SpanMethod(e.op), e.route>>
                   ELSE <<e.kind, e.op>>
       IN  Planned("tracing", e, {Item("tracing", "endpoint", e, "root", base)},
                   EndpointIncomplete(e))

SpanOperation(d) ==
  IF d.kind = "http_client" THEN SpanMethod(d.op) ELSE DependencyOperation(d)

ChildSpan(d) ==
  IF d.kind \notin DependencyKinds THEN Unsupported("tracing", d)
  ELSE Planned("tracing", d,
         {Item("tracing", "dependency", d, "child",
               <<SpanSystem[d.kind], SpanOperation(d)>>)},
         DependencyIncomplete(d))

InternalSpan(doc, edge) ==
  IF ~edge.resolved THEN Skip("GEN_INCOMPLETE_TARGET", "tracing", edge)
  ELSE Planned("tracing", edge,
         {Item("tracing", "edge", edge, "child", <<FunctionOf(doc, edge.callee).name>>)},
         FALSE)
------------------------------------------------------------------------------
(* Logs: start, completion and failure events of endpoints, failures of    *)
(* dependencies.  policy.redacts says that a configured redaction name     *)
(* matches a field that every event carries, which is dropped and reported.*)

Events(signal, kind, e, purposes) ==
  {Item(signal, kind, e, p, <<e.kind, p>>) : p \in purposes}

Redacting(policy, result, e) ==
  IF policy.redacts /\ result.items # {}
    THEN [result EXCEPT !.diagnostics =
            @ \cup {Warning("GEN_SENSITIVE_VALUE_DROPPED", "logging", e.id)}]
    ELSE result

EndpointLogs(policy, e) ==
  IF e.kind \notin EndpointKinds THEN Unsupported("logging", e)
  ELSE LET purposes == (IF policy.startEvents THEN {"started"} ELSE {})
                         \cup (IF policy.completionEvents THEN {"completed", "failed"} ELSE {})
       IN  Redacting(policy,
             Planned("logging", e, Events("logging", "endpoint", e, purposes), e.op = Missing), e)

DependencyLogs(policy, d) ==
  IF d.kind \notin DependencyKinds THEN Unsupported("logging", d)
  ELSE IF ~policy.dependencyErrors THEN Nothing
  ELSE Redacting(policy,
         Planned("logging", d, Events("logging", "dependency", d, {"failed"}),
                 DependencyIncomplete(d)), d)
------------------------------------------------------------------------------
(* Collisions: of the items with one base name the one with the smallest   *)
(* target keeps it, every other gets a suffix made from its target.        *)

Yields(items, x) == \E y \in items : y.base = x.base /\ y.target.id < x.target.id

\* Mutant: names are matched back to items by target only.
DisambiguateByTarget(items) ==
  {[x EXCEPT !.base = (CHOOSE y \in items : y.target = x.target).base,
             !.suffix = IF Yields(items, x) THEN x.target.id ELSE NoId] : x \in items}

Disambiguate(items) ==
  {[x EXCEPT !.suffix = IF Yields(items, x) THEN x.target.id ELSE NoId] : x \in items}

Collisions(signal, items) ==
  {Warning("GEN_NAME_COLLISION", signal, x.target.id) : x \in {y \in items : Yields(items, y)}}
==============================================================================
