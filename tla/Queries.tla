------------------------------- MODULE Queries -------------------------------
(***************************************************************************)
(* dashboard/query: the typed queries built for one catalog item or one    *)
(* family of items, and the validator every query passes before it becomes *)
(* a panel target.                                                         *)
(*                                                                         *)
(* A query is one sum by labels over a selector, rated or not, possibly    *)
(* under a quantile (percentiles) or divided by the sum over a second      *)
(* selector (error ratios).  Its text form, legends and provenance are     *)
(* left out.                                                               *)
(***************************************************************************)
EXTENDS Catalog

CONSTANT MaxBreakdown   \* operations of one metric in a breakdown table

ASSUME BreakdownAssumption == MaxBreakdown \in Nat

Vocabulary == {"service", "operation", "status", "le"}
Quantiles3 == {"p50", "p95", "p99"}
ErrorStatusPattern == "5[0-9]{2}|error"

Matcher(label, op, value) == [label |-> label, op |-> op, value |-> value]
FailedStatus == Matcher("status", "=~", ErrorStatusPattern)
FiniteBucket == Matcher("le", "!=", "+Inf")

Selector(metric, matchers) == [metric |-> metric, matchers |-> matchers]

\* rated: rate() is applied; over: the denominator, if there is one.
Query(kind, purpose, key, plans, rated, by, selector, over) ==
  [kind |-> kind, purpose |-> purpose, key |-> key, plans |-> plans, rated |-> rated,
   by |-> by, selector |-> selector, over |-> over]

Selectors(q) == {q.selector} \cup q.over

ControlledService(service) == IF service \in Uncontrolled THEN Missing ELSE service
ServiceDropped(service) ==
  IF service \in Uncontrolled
    THEN {Diagnostic("SENSITIVE_VALUE_DROPPED", NoId, <<"service">>)} ELSE {}
------------------------------------------------------------------------------
(* Queries of one item *)

\* The labels a metric declares, restricted to values fit for an expression.
BaseMatchers(m, service, operation) ==
  {x \in {Matcher("service", "=", service), Matcher("operation", "=", operation)} :
     x.label \in m.attributes /\ x.value \notin Uncontrolled \cup {Missing}}

\* The metric a query of the item is built from: an item has one of a type at most.
Eligible(item, type, required) ==
  {m \in item.metrics : m.type = type /\ Controlled(m.name) /\ required \subseteq m.attributes}

ItemKey(item, kind, purpose) == <<kind, "item", item.target.id, <<>>, purpose>>

ByOperation(m) == m.attributes \cap {"operation"}

RateQuery(item, service) ==
  {Query("rate", "rate", ItemKey(item, "rate", "rate"), {m.id}, TRUE, {"operation"},
         Selector(m.name, BaseMatchers(m, service, item.operation)), {}) :
     m \in Eligible(item, "counter", {"service", "operation"})}

\* Mutant: the status matcher ends up on both sides.
ErrorRatioQueryOnce(item, service) ==
  {LET domain == BaseMatchers(m, service, item.operation) \cup {FailedStatus}
   IN  Query("error_ratio", "error_ratio", ItemKey(item, "error_ratio", "error_ratio"), {m.id},
             TRUE, ByOperation(m), Selector(m.name, domain), {Selector(m.name, domain)}) :
     m \in Eligible(item, "counter", {"status"})}

ErrorRatioQuery(item, service) ==
  {LET domain == BaseMatchers(m, service, item.operation)
   IN  Query("error_ratio", "error_ratio", ItemKey(item, "error_ratio", "error_ratio"), {m.id},
             TRUE, ByOperation(m), Selector(m.name, domain \cup {FailedStatus}),
             {Selector(m.name, domain)}) :
     m \in Eligible(item, "counter", {"status"})}

PercentileQuery(item, service) ==
  {Query("percentile", p, ItemKey(item, "percentile", p), {m.id}, TRUE, {"le"},
         Selector(m.name, BaseMatchers(m, service, item.operation) \cup {FiniteBucket}), {}) :
     m \in Eligible(item, "histogram", {"service", "operation"}), p \in Quantiles3}

InFlightQuery(item, service) ==
  {Query("in_flight", "in_flight", ItemKey(item, "in_flight", "in_flight"), {m.id}, FALSE,
         ByOperation(m), Selector(m.name, BaseMatchers(m, service, item.operation)), {}) :
     m \in Eligible(item, "gauge", {})}

\* A missing capability leaves no substitute, only a diagnostic.
Offered(item, capability, queries) ==
  IF capability \in item.capabilities THEN queries ELSE {}

Lacking(item, capability, found) ==
  IF found # {} THEN {}
  ELSE {Diagnostic("MISSING_REQUIRED_METRIC", item.target.id, <<capability>>)}

\* The first span of the item, if its name may enter a link.
LinkedSpan(item) ==
  CHOOSE x \in item.spans : \A y \in item.spans : x.id[2] <= y.id[2]

TraceLink(item, service, policy) ==
  IF ~policy.links \/ item.spans = {} \/ ~Controlled(LinkedSpan(item).name) THEN {}
  ELSE {[service |-> service, operation |-> item.operation, span |-> LinkedSpan(item).name]}

TraceLinkDropped(item, policy) ==
  IF ~policy.links THEN {}
  ELSE IF item.spans = {}
    THEN {Diagnostic("MISSING_REQUIRED_METRIC", item.target.id, <<"trace_link">>)}
  ELSE IF ~Controlled(LinkedSpan(item).name)
    THEN {Diagnostic("SENSITIVE_VALUE_DROPPED", item.target.id, <<"span">>)} ELSE {}

ItemQueries(item, service, policy) ==
  LET safe  == ControlledService(service)
      rate  == Offered(item, "rate", RateQuery(item, safe))
      ratio == Offered(item, "error_ratio", ErrorRatioQuery(item, safe))
      tiles == Offered(item, "percentiles", PercentileQuery(item, safe))
      gauge == Offered(item, "in_flight", InFlightQuery(item, safe))
  IN  [queries |-> rate \cup ratio \cup tiles \cup gauge,
       links |-> TraceLink(item, safe, policy),
       diagnostics |->
         ServiceDropped(service)
           \cup {Diagnostic("SENSITIVE_VALUE_DROPPED", item.target.id, <<"metric">>) :
                   m \in {x \in item.metrics : ~Controlled(x.name)}}
           \cup Lacking(item, "rate", rate) \cup Lacking(item, "error_ratio", ratio)
           \cup Lacking(item, "percentiles", tiles) \cup Lacking(item, "in_flight", gauge)
           \cup TraceLinkDropped(item, policy)]
------------------------------------------------------------------------------
(* Families: metrics of one name, type and set of labels, whatever items   *)
(* they come from                                                          *)

Families(items) ==
  LET shapes == {<<m.name, m.type, m.attributes>> :
                   m \in {x \in UNION {i.metrics : i \in items} : Controlled(x.name)}}
      Of(shape) == {i \in items : \E m \in i.metrics : <<m.name, m.type, m.attributes>> = shape}
  IN  {[name |-> shape[1], type |-> shape[2], attributes |-> shape[3], items |-> Of(shape),
        plans |-> {m.id : m \in {x \in UNION {i.metrics : i \in Of(shape)} :
                                   <<x.name, x.type, x.attributes>> = shape}}] :
         shape \in shapes}

UncontrolledMetrics(items) ==
  {Diagnostic("SENSITIVE_VALUE_DROPPED", i.target.id, <<"metric">>) :
     i \in {x \in items : \E m \in x.metrics : ~Controlled(m.name)}}

\* The purposes a family can feed.
FamilyPurposes(f) ==
  {p \in {"rate", "error_ratio", "in_flight", "top_failing"} \cup Quantiles3 :
     CASE p = "rate" -> f.type = "counter" /\ {"service", "operation"} \subseteq f.attributes
       [] p \in {"error_ratio", "top_failing"} ->
            f.type = "counter" /\ {"service", "status"} \subseteq f.attributes
       [] p \in Quantiles3 -> f.type = "histogram" /\ "service" \in f.attributes
       [] p = "in_flight" -> f.type = "gauge" /\ "service" \in f.attributes}

KindOfPurpose(p) == IF p \in Quantiles3 THEN "percentile" ELSE p

FamilySelector(f, service, extra) ==
  Selector(f.name, BaseMatchers([f EXCEPT !.attributes = @ \cap {"service"}], service, Missing)
                     \cup extra)

\* One query over all items of a family; scope is the row it is for.
FamilyQuery(f, p, scope, service) ==
  LET failed == p \in {"error_ratio", "top_failing"}
      extra  == IF failed THEN {FailedStatus} ELSE IF p \in Quantiles3 THEN {FiniteBucket} ELSE {}
  IN  Query(KindOfPurpose(p), p, <<KindOfPurpose(p), scope, NoId, f.name, p>>, f.plans,
            p # "in_flight",
            IF p \in Quantiles3 THEN {"le"}
            ELSE IF p = "in_flight" THEN ByOperation(f) ELSE {"operation"},
            FamilySelector(f, service, extra),
            IF p = "error_ratio" THEN {FamilySelector(f, service, {})} ELSE {})

\* The rate of every operation of a counter family; too many are an error.
Breakdown(f, operations, service) ==
  LET plan == CHOOSE x \in f.plans : \A y \in f.plans : x[2] <= y[2]
  IN  [error |-> Cardinality(operations) > MaxBreakdown,
       queries |-> {Query("operation_breakdown", "breakdown",
                          <<"operation_breakdown", "plan", plan[2], f.name, o>>, {plan}, TRUE,
                          {"operation"}, Selector(f.name, BaseMatchers(f, service, o)), {}) :
                      o \in operations \ Uncontrolled},
       diagnostics |-> {Diagnostic("SENSITIVE_VALUE_DROPPED", plan[2], <<"operation">>) :
                          o \in operations \cap Uncontrolled}]
------------------------------------------------------------------------------
(* The validator *)

\* A selector of a metric declared so, for the given service and operation
\* (Missing: any), as validateSelector checks it.
ValidSelector(s, declared, service, operation, statusAllowed) ==
  /\ Controlled(s.metric) /\ declared # {}
  /\ \A x \in s.matchers :
       /\ x.label \in Vocabulary
       /\ x.label = "le" => x = FiniteBucket
       /\ x.label # "le" =>
            /\ IF x.op = "=~" THEN x.value = ErrorStatusPattern
               ELSE x.value \notin Uncontrolled \cup {Missing}
            /\ \A m \in declared : x.label \in m.attributes
       /\ x.label = "status" => statusAllowed
       /\ (x.label = "service" /\ x.op = "=") => x.value = service
       /\ (x.label = "operation" /\ x.op = "=") => operation \in {Missing, x.value}

\* Both sides of a ratio select the same domain but for the status.
SameDomain(s, t) ==
  LET Domain(u) == {x \in u.matchers : x.label # "status"}
  IN  s.metric = t.metric /\ Domain(s) = Domain(t)

ValidExpression(q, declared, service, operation) ==
  LET Of(s) == {m \in declared : m.name = s.metric}
  IN  /\ q.by \subseteq Vocabulary
      /\ q.rated => \A s \in Selectors(q) : \A m \in Of(s) : m.type # "gauge"
      /\ q.kind = "percentile" => q.purpose \in Quantiles3
      /\ q.kind = "error_ratio" => q.over # {} /\ \A t \in q.over : SameDomain(q.selector, t)
      /\ ValidSelector(q.selector, Of(q.selector), service, operation,
                       q.kind \in {"error_ratio", "top_failing"})
      /\ \A t \in q.over : ValidSelector(t, Of(t), service, operation, FALSE)

\* A query against the item it was built from.
ValidatePlan(q, item, service) ==
  /\ q.plans \subseteq {m.id : m \in item.metrics} \cup {x.id : x \in item.spans}
  /\ ValidExpression(q, item.metrics, service, item.operation)

\* A query against all items it aggregates: they declare its metrics alike.
ValidateOverviewPlan(q, items, service) ==
  LET all == UNION {i.metrics : i \in items}
  IN  /\ items # {}
      /\ q.plans \subseteq {m.id : m \in all}
      /\ \A s \in Selectors(q) :
           /\ \A i \in items : \E m \in i.metrics : m.name = s.metric
           /\ \A m, n \in {x \in all : x.name = s.metric} :
                m.type = n.type /\ m.attributes = n.attributes
           /\ \E m \in all : m.name = s.metric /\ m.id \in q.plans
           /\ \A x \in s.matchers : x.label # "operation"
      /\ ValidExpression(q, all, service, Missing)

\* A link that enters a panel: its service and operation are controlled.
ValidateTraceLink(link, item) ==
  /\ link.service \notin Uncontrolled \cup {Missing}
  /\ link.operation \notin Uncontrolled \cup {Missing}
  /\ link.span \in {x.name : x \in item.spans}
==============================================================================
