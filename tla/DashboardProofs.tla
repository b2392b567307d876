--------------------------- MODULE DashboardProofs ---------------------------
(***************************************************************************)
(* What holds of every dashboard, for any documents, policies, limits and  *)
(* hashes: its panels do not overlap, its queries reach their series, it   *)
(* shows every item of the catalog or reports why not, nothing is lacking  *)
(* in strict mode, and a refusal has a reason in the input.                *)
(*                                                                         *)
(* First come facts about one input: what the plan has for an entity, the  *)
(* items of the catalog, their queries, the panels and rows of each        *)
(* builder and what they serve.  Then the invariant of the pipeline, which *)
(* says what the rows taken so far serve.                                  *)
(***************************************************************************)
EXTENDS DashboardPipeline, PlanFacts, ListFacts

(* What the plan has for an entity *)

\* The planner's input of a call.
Planning(in) == [doc |-> in.doc, policy |-> in.gen]

\* What is assumed of an input.
LEMMA InputFacts ==
  ASSUME NEW in \in Inputs
  PROVE  /\ \A kind \in EntityKinds : in.doc[kind] \in Seq(EntityFields[kind])
         /\ WellFormed(in.doc) /\ Normalized(in.doc) /\ Sound(PlanIn(in)) /\ in.service # Missing
         /\ PlanIn(in) = CompletePlan(Planning(in))
         /\ Planning(in).doc = in.doc /\ Planning(in).policy = in.gen
BY InputsAssumption DEF PlanIn, Planning

\* Entities of a list the plan covers are told apart by their IDs.
LEMMA EntityID ==
  ASSUME NEW in \in Inputs, NEW kind \in EntityKinds, NEW e \in Range(in.doc[kind])
  PROVE  /\ e \in EntityFields[kind] /\ e.id \in Nat
         /\ \A d \in Range(in.doc[kind]) : d.id = e.id => d = e
<1>1. in.doc[kind] \in Seq(EntityFields[kind]) /\ WellFormed(in.doc)
  BY InputFacts
<1>2. e \in EntityFields[kind]
  BY <1>1 DEF Range
<1>3. e.id \in Nat
  <2>1. CASE kind = "function"
    BY <1>2, <2>1 DEF EntityFields
  <2>2. CASE kind = "endpoint"
    BY <1>2, <2>2 DEF EntityFields
  <2>3. CASE kind = "dependency"
    BY <1>2, <2>3 DEF EntityFields
  <2>4. CASE kind = "edge"
    BY <1>2, <2>4 DEF EntityFields
  <2> QED BY <2>1, <2>2, <2>3, <2>4 DEF EntityKinds
<1>4. \A d \in Range(in.doc[kind]) : d.id = e.id => d = e
  BY <1>1 DEF WellFormed, Range
<1> QED
  BY <1>2, <1>3, <1>4

\* An item of the plan comes from one entity by one sub-planner.
ComesFrom(x, s, e, in) ==
  /\ e \in Range(in.doc[SourceOf[s]])
  /\ \E y \in PlanOf(s, Planning(in), e).items : x = Renamed(y, x.suffix)
  /\ x.signal = SignalOf[s] /\ x.target = Target(SourceOf[s], e.id)

\* Every item of the plan comes from an entity, by a sub-planner that is on.
LEMMA PlannedComesFrom ==
  ASSUME NEW in \in Inputs, NEW signal \in Signals, NEW x \in PlanIn(in)[signal]
  PROVE  /\ signal \in in.gen.signals
         /\ \E s \in SubPlanners : \E e : SignalOf[s] = signal /\ ComesFrom(x, s, e, in)
<1> DEFINE G == Planning(in)
<1>0. WellFormed(G.doc) /\ PlanIn(in) = CompletePlan(G) /\ G.doc = in.doc /\ G.policy = in.gen
  BY InputFacts
<1> HIDE DEF G
<1>1. signal \in in.gen.signals
  BY <1>0 DEF CompletePlan
<1>2. x \in UNION {Whole(s, G) : s \in {t \in SubPlanners : SignalOf[t] = signal}}
  BY <1>0, <1>1 DEF CompletePlan
<1>3. PICK s \in SubPlanners : SignalOf[s] = signal /\ x \in Whole(s, G)
  BY <1>2
<1>4. PICK e, y : /\ e \in Range(Entities(s, G)) /\ y \in PlanOf(s, G, e).items
                  /\ x = Renamed(y, x.suffix)
  <2>1. \E e, y :
           /\ e \in Range(Entities(s, G)) /\ y \in PlanOf(s, G, e).items
           /\ x = Renamed(y, x.suffix)
           /\ s \notin Disambiguated => x.suffix = NoId
           /\ s \in Disambiguated =>
                x.suffix = IF Yields(UNION {PlanOf(s, G, d).items : d \in Range(Entities(s, G))}, y)
                             THEN e.id ELSE NoId
    BY <1>3, WholeItems
  <2> QED BY <2>1
<1>5. e \in Range(in.doc[SourceOf[s]])
  BY <1>0, <1>4 DEF Entities, Range
<1>6. y = [signal |-> SignalOf[s], target |-> Target(SourceOf[s], e.id),
           purpose |-> y.purpose, base |-> y.base, suffix |-> NoId]
  BY <1>4, PlanOfItems DEF ItemsOf
<1>7. x.signal = SignalOf[s] /\ x.target = Target(SourceOf[s], e.id)
  BY <1>4, <1>6 DEF Renamed
<1>8. ComesFrom(x, s, e, in)
  BY <1>4, <1>5, <1>7 DEF ComesFrom, G
<1> QED BY <1>1, <1>3, <1>8

\* Whatever a sub-planner makes of an entity is in the plan, up to its suffix.
LEMMA PlannedFully ==
  ASSUME NEW in \in Inputs, NEW s \in SubPlanners, s # "internal_spans",
         SignalOf[s] \in in.gen.signals, NEW e \in Range(in.doc[SourceOf[s]]),
         NEW y \in PlanOf(s, Planning(in), e).items
  PROVE  \E x \in PlanIn(in)[SignalOf[s]] :
           /\ x.purpose = y.purpose /\ x.base = y.base /\ x.target = y.target
<1> DEFINE G == Planning(in)
           items == UNION {PlanOf(s, G, d).items : d \in Range(Entities(s, G))}
<1>0. WellFormed(G.doc) /\ PlanIn(in) = CompletePlan(G) /\ G.doc = in.doc /\ G.policy = in.gen
  BY InputFacts
<1>1. Entities(s, G) = in.doc[SourceOf[s]]
  BY <1>0 DEF Entities
<1>2. y \in items
  BY <1>1
<1>3. y = [signal |-> SignalOf[s], target |-> Target(SourceOf[s], e.id),
           purpose |-> y.purpose, base |-> y.base, suffix |-> NoId]
  BY PlanOfItems DEF ItemsOf
<1>4. PICK x \in Whole(s, G) : x.purpose = y.purpose /\ x.base = y.base /\ x.target = y.target
  <2>1. CASE s \notin Disambiguated
    BY <1>2, <2>1 DEF Whole
  <2>2. CASE s \in Disambiguated
    <3> DEFINE n == IF Yields(items, y) THEN y.target.id ELSE NoId
               x == [y EXCEPT !.suffix = n]
    <3>1. x \in Whole(s, G)
      BY <1>2, <2>2 DEF Whole, Disambiguate
    <3>2. x.purpose = y.purpose /\ x.base = y.base /\ x.target = y.target
      <4> HIDE DEF n
      <4> QED BY <1>3
    <3> HIDE DEF x
    <3> QED BY <3>1, <3>2
  <2> QED BY <2>1, <2>2
<1>5. SignalOf[s] \in Signals
  BY SubPlannerFacts
<1>6. x \in PlanIn(in)[SignalOf[s]]
  <2> HIDE DEF G
  <2> QED BY <1>0, <1>4, <1>5 DEF CompletePlan
<1> QED BY <1>4, <1>6
\* What items are for.
Owners == {"endpoint", "dependency"}

\* The entities of a list that the mapping tables know.
Mapped(in, kind) ==
  {e \in Range(in.doc[kind]) :
     e.kind \in (IF kind = "endpoint" THEN EndpointKinds ELSE DependencyKinds)}

MetricPlanner(kind) == IF kind = "endpoint" THEN "endpoint_metrics" ELSE "dependency_metrics"

\* What the name of a metric is built from.
MetricBase(in, kind, e, p) ==
  LET norm == FunctionOf(in.doc, e.fn).norm
  IN  IF kind = "endpoint" THEN <<norm, EndpointOperation(in.doc, e), e.kind, p>>
      ELSE <<norm, DependencyOperation(e), System[e.kind], p, "op">>

\* Both kinds of entities have a sub-planner for metrics.
LEMMA OwnerFacts ==
  ASSUME NEW kind \in Owners
  PROVE  /\ kind \in EntityKinds /\ MetricPlanner(kind) \in SubPlanners
         /\ MetricPlanner(kind) # "internal_spans"
         /\ SignalOf[MetricPlanner(kind)] = "metrics" /\ SourceOf[MetricPlanner(kind)] = kind
         /\ "metrics" \in Signals /\ "tracing" \in Signals
<1>1. CASE kind = "endpoint"
  BY <1>1 DEF EntityKinds, MetricPlanner, SubPlanners, SignalOf, SourceOf, Signals
<1>2. CASE kind = "dependency"
  BY <1>2 DEF EntityKinds, MetricPlanner, SubPlanners, SignalOf, SourceOf, Signals
<1> QED BY <1>1, <1>2 DEF Owners

\* The metrics a sub-planner makes of an entity the tables know: one for each
\* instrument.
LEMMA MetricItems ==
  ASSUME NEW in \in Inputs, NEW kind \in Owners, NEW e \in Mapped(in, kind)
  PROVE  PlanOf(MetricPlanner(kind), Planning(in), e).items
           = {Item("metrics", kind, e, p, MetricBase(in, kind, e, p)) : p \in Instruments(in.gen)}
<1>1. CASE kind = "endpoint"
  <2>1. PlanOf(MetricPlanner(kind), Planning(in), e) = EndpointMetrics(in.doc, in.gen, e)
    BY <1>1 DEF PlanOf, MetricPlanner, Planning
  <2>2. e.kind \in EndpointKinds
    BY <1>1 DEF Mapped
  <2> QED BY <1>1, <2>1, <2>2 DEF EndpointMetrics, Planned, MetricBase
<1>2. CASE kind = "dependency"
  <2>1. PlanOf(MetricPlanner(kind), Planning(in), e) = DependencyMetrics(in.doc, in.gen, e)
    BY <1>2 DEF PlanOf, MetricPlanner, Planning
  <2>2. e.kind \in DependencyKinds
    BY <1>2 DEF Mapped
  <2>3. \A p : MetricBase(in, kind, e, p) =
                <<FunctionOf(in.doc, e.fn).norm, DependencyOperation(e), System[e.kind], p, "op">>
    BY <1>2 DEF MetricBase
  <2>4. DependencyMetrics(in.doc, in.gen, e).items =
          {Item("metrics", "dependency", e, p,
                <<FunctionOf(in.doc, e.fn).norm, DependencyOperation(e), System[e.kind], p, "op">>) :
             p \in Instruments(in.gen)}
    BY <2>2 DEF DependencyMetrics, Planned
  <2> QED BY <1>2, <2>1, <2>3, <2>4
<1> QED BY <1>1, <1>2 DEF Owners

\* With metrics on, an entity the tables know has one of every instrument.
LEMMA MetricPlanned ==
  ASSUME NEW in \in Inputs, "metrics" \in in.gen.signals, NEW kind \in Owners,
         NEW e \in Mapped(in, kind), NEW p \in Instruments(in.gen)
  PROVE  \E x \in PlanIn(in)["metrics"] : x.target = Target(kind, e.id) /\ x.purpose = p
<1> DEFINE s == MetricPlanner(kind)
           y == Item("metrics", kind, e, p, MetricBase(in, kind, e, p))
<1>1. s \in SubPlanners /\ s # "internal_spans" /\ SignalOf[s] = "metrics" /\ SourceOf[s] = kind
  BY OwnerFacts
<1>2. e \in Range(in.doc[SourceOf[s]])
  BY <1>1 DEF Mapped
<1>3. y \in PlanOf(s, Planning(in), e).items
  BY MetricItems
<1>4. y.purpose = p /\ y.target = Target(kind, e.id)
  BY DEF Item
<1> HIDE DEF s, y
<1>5. \E x \in PlanIn(in)[SignalOf[s]] :
           /\ x.purpose = y.purpose /\ x.base = y.base /\ x.target = y.target
  BY <1>1, <1>2, <1>3, PlannedFully
<1> QED BY <1>1, <1>4, <1>5

\* What is planned for the ID of an entity with metrics is about that entity.
LEMMA TargetKind ==
  ASSUME NEW in \in Inputs, NEW signal \in Signals, NEW x \in PlanIn(in)[signal],
         NEW other \in Signals, NEW y \in PlanIn(in)[other]
  PROVE  /\ x.target.id = y.target.id => x.target.kind = y.target.kind
         /\ StableID(x) = StableID(y) => x = y
<1>1. PlanIn(in) = [s \in Signals |-> PlanIn(in)[s]]
  BY InputFacts DEF CompletePlan
<1>2. x \in UNION Range(PlanIn(in)) /\ y \in UNION Range(PlanIn(in))
  BY <1>1 DEF Range
<1> QED BY <1>2, InputFacts DEF Sound

\* A metric planned for the ID of an entity the tables know is one of its own.
OwnMetric(x, in, kind, e) ==
  /\ x.signal = "metrics" /\ x.target = Target(kind, e.id)
  /\ x.purpose \in Instruments(in.gen) /\ x.base = MetricBase(in, kind, e, x.purpose)

\* The metrics planned for an ID are those of the entity with that ID.
LEMMA MetricsOwned ==
  ASSUME NEW in \in Inputs, NEW kind \in Owners, NEW e \in Mapped(in, kind),
         NEW x \in PlannedFor(PlanIn(in)["metrics"], e.id)
  PROVE  OwnMetric(x, in, kind, e)
<1>1. "metrics" \in Signals /\ kind \in EntityKinds
  BY OwnerFacts
<1>2. x \in PlanIn(in)["metrics"] /\ x.target.id = e.id
  BY DEF PlannedFor
<1>3. "metrics" \in in.gen.signals
        /\ \E s \in SubPlanners : \E d : SignalOf[s] = "metrics" /\ ComesFrom(x, s, d, in)
  BY <1>1, <1>2, PlannedComesFrom
<1>4. PICK s \in SubPlanners : \E d : SignalOf[s] = "metrics" /\ ComesFrom(x, s, d, in)
  BY <1>3
<1>5. PICK d : SignalOf[s] = "metrics" /\ ComesFrom(x, s, d, in)
  BY <1>4
<1>6. PICK own \in Owners : s = MetricPlanner(own)
  <2>1. s \in {"endpoint_metrics", "dependency_metrics"}
    BY <1>5 DEF SignalOf, SubPlanners
  <2> QED BY <2>1 DEF Owners, MetricPlanner
<1>7. SourceOf[s] = own /\ own \in EntityKinds
  BY <1>6, OwnerFacts
<1>8. /\ d \in Range(in.doc[own]) /\ x.signal = "metrics" /\ x.target = Target(own, d.id)
      /\ \E y \in PlanOf(s, Planning(in), d).items : x = Renamed(y, x.suffix)
  BY <1>5, <1>7 DEF ComesFrom
<1>9. own = kind
  <2>1. "count" \in Instruments(in.gen)
    BY DEF Instruments
  <2>2. PICK z \in PlanIn(in)["metrics"] : z.target = Target(kind, e.id)
    BY <1>3, <2>1, MetricPlanned
  <2>3. x.target.id = z.target.id
    BY <1>2, <2>2 DEF Target
  <2>4. x.target.kind = z.target.kind
    BY <1>1, <1>2, <2>2, <2>3, TargetKind
  <2> QED BY <1>8, <2>2, <2>4 DEF Target
<1>10. d = e
  <2>1. d.id = e.id
    BY <1>2, <1>8 DEF Target
  <2>2. e \in Range(in.doc[kind])
    BY DEF Mapped
  <2> QED BY <1>1, <1>8, <1>9, <2>1, <2>2, EntityID
<1>11. PICK y \in PlanOf(MetricPlanner(kind), Planning(in), e).items : x = Renamed(y, x.suffix)
  BY <1>6, <1>8, <1>9, <1>10
<1>12. PICK p \in Instruments(in.gen) :
         y = Item("metrics", kind, e, p, MetricBase(in, kind, e, p))
  BY <1>11, MetricItems
<1>13. y.purpose = p /\ y.base = MetricBase(in, kind, e, p)
  BY <1>12 DEF Item
<1>14. x.purpose = p /\ x.base = MetricBase(in, kind, e, p)
  BY <1>11, <1>13 DEF Renamed
<1> QED BY <1>8, <1>9, <1>10, <1>14 DEF OwnMetric

\* No entity has two spans.
LEMMA OneSpan ==
  ASSUME NEW in \in Inputs, NEW id,
         NEW x \in PlannedFor(PlanIn(in)["tracing"], id),
         NEW y \in PlannedFor(PlanIn(in)["tracing"], id)
  PROVE  x = y
<1>1. "tracing" \in Signals
  BY DEF Signals
<1>2. /\ x \in PlanIn(in)["tracing"] /\ x.target.id = id
      /\ y \in PlanIn(in)["tracing"] /\ y.target.id = id
  BY DEF PlannedFor
<1> DEFINE Purpose(s) == IF s = "root_spans" THEN "root" ELSE "child"
<1>3. ASSUME NEW z \in PlanIn(in)["tracing"]
      PROVE  /\ z.signal = "tracing"
             /\ \E s \in SubPlanners : /\ SignalOf[s] = "tracing" /\ z.target.kind = SourceOf[s]
                                       /\ z.purpose = Purpose(s)
  <2>1. \E s \in SubPlanners : \E d : SignalOf[s] = "tracing" /\ ComesFrom(z, s, d, in)
    BY <1>1, PlannedComesFrom
  <2>2. PICK s \in SubPlanners : \E d : SignalOf[s] = "tracing" /\ ComesFrom(z, s, d, in)
    BY <2>1
  <2>3. PICK d : SignalOf[s] = "tracing" /\ ComesFrom(z, s, d, in)
    BY <2>2
  <2>4. PICK w \in PlanOf(s, Planning(in), d).items : z = Renamed(w, z.suffix)
    BY <2>3 DEF ComesFrom
  <2>5. s \in {"root_spans", "child_spans", "internal_spans"}
    BY <2>3 DEF SignalOf, SubPlanners
  <2>6. w.purpose = Purpose(s)
    <3> USE DEF Unsupported, Skip, Planned, Item
    <3>1. CASE s = "root_spans"
      BY <2>4, <3>1 DEF PlanOf, RootSpan
    <3>2. CASE s = "child_spans"
      BY <2>4, <3>2 DEF PlanOf, ChildSpan
    <3>3. CASE s = "internal_spans"
      BY <2>4, <3>3 DEF PlanOf, InternalSpan
    <3> QED BY <2>5, <3>1, <3>2, <3>3
  <2>7. z.purpose = Purpose(s)
    BY <2>4, <2>6 DEF Renamed
  <2>8. z.signal = "tracing" /\ z.target.kind = SourceOf[s]
    BY <2>3 DEF ComesFrom, Target
  <2> HIDE DEF Purpose
  <2> QED BY <2>3, <2>7, <2>8
<1>4. PICK s \in SubPlanners : /\ SignalOf[s] = "tracing" /\ x.target.kind = SourceOf[s]
                               /\ x.purpose = Purpose(s)
  BY <1>2, <1>3
<1>5. PICK t \in SubPlanners : /\ SignalOf[t] = "tracing" /\ y.target.kind = SourceOf[t]
                               /\ y.purpose = Purpose(t)
  BY <1>2, <1>3
<1>6. x.target.kind = y.target.kind
  BY <1>1, <1>2, TargetKind
<1>7. s = t
  BY <1>4, <1>5, <1>6, SubPlannerFacts
<1>8. StableID(x) = StableID(y)
  BY <1>2, <1>3, <1>4, <1>5, <1>7 DEF StableID
<1> QED BY <1>1, <1>2, <1>8, TargetKind
-----------------------------------------------------------------------------
(* The items of the catalog *)

CatalogIn(in) == BuildCatalog(in.doc, PlanIn(in), in.policy)

IncompleteNamesIn(in) ==
  {NameOf(x) : x \in {y \in PlanIn(in)["metrics"] :
     y.target.id \in {e.id : e \in {z \in Range(in.doc.endpoint) : EndpointIncomplete(z)}}}}

LabelsOf(type) == {"service", "operation"} \cup (IF type = "gauge" THEN {} ELSE {"status"})

\* A metric is controlled and planned, and its name tells its type and labels.
GoodMetric(m, in) ==
  /\ Controlled(m.name) /\ m.type = MetricType[m.name[1][4]] /\ m.attributes = LabelsOf(m.type)
  /\ m.type \in {"counter", "histogram", "gauge", "summary"}
  /\ m.id[2] \in Nat
  /\ \E x \in PlanIn(in)["metrics"] : m.id = StableID(x) /\ m.name = NameOf(x)

\* An item has one metric of a type, counters and histograms always; its
\* operation is that of its metrics unless the endpoint is incomplete.
GoodMetrics(i, in) ==
  /\ \A m \in i.metrics :
       GoodMetric(m, in) /\ (m.name[1][2] = i.operation \/ m.name \in IncompleteNamesIn(in))
  /\ \A m, n \in i.metrics : m.type = n.type => m = n
  /\ i.metrics # {} => \E m \in i.metrics : m.type = "counter"
  /\ i.metrics # {} => \E m \in i.metrics : m.type = "histogram"
  /\ i.metrics # {} <=> "metrics" \in in.gen.signals

GoodItem(i, in) ==
  /\ GoodMetrics(i, in)
  /\ i.target.kind \in Owners
  /\ i.kind \in (IF i.target.kind = "endpoint" THEN EndpointKinds ELSE DependencyKinds)
  /\ i.category = (IF i.target.kind = "endpoint" THEN EndpointCategory[i.kind]
                     ELSE DependencyCategory[i.kind])
  /\ i.target.kind = "dependency" /\ i.kind \in ClientKinds => in.policy.clients
  /\ i.operation \notin Uncontrolled \cup {Missing}
  /\ i.capabilities = Capabilities(i.metrics, i.spans)
  /\ \A x \in i.spans : x.id[2] \in Nat
  /\ \A x, y \in i.spans : x = y

\* The words of the tables may stand in a query.
LEMMA Words ==
  /\ TableWords \cap (Uncontrolled \cup {Missing}) = {}
  /\ EndpointKinds \subseteq TableWords /\ {"unknown", "op"} \subseteq TableWords
  /\ \A in : Instruments(in.gen) \subseteq {"count", "duration", "in_flight", "duration_summary"}
  /\ {"count", "duration", "in_flight", "duration_summary"} \subseteq TableWords
  /\ \A kind \in DependencyKinds : System[kind] \in TableWords
<1>0. /\ DOMAIN System = {"kafka_producer", "kafka_consumer", "sql", "redis", "http_client",
                           "rpc_client"}
      /\ \A k \in DOMAIN System : System[k] \in {"kafka", "sql", "redis", "http", "rpc"}
  BY DEF System
<1>1. Range(System) \subseteq {"kafka", "sql", "redis", "http", "rpc"}
  BY <1>0 DEF Range
<1>2. TableWords \cap (Uncontrolled \cup {Missing}) = {}
  BY <1>1, UncontrolledAssumption DEF TableWords, Missing, EndpointKinds
<1>3. \A kind \in DependencyKinds : System[kind] \in Range(System)
  BY DEF DependencyKinds, Range
<1> QED BY <1>2, <1>3 DEF TableWords, Instruments

\* The words a metric of an entity is named with may stand in a query.
LEMMA ControlledBase ==
  ASSUME NEW in \in Inputs, NEW kind \in Owners, NEW e \in Mapped(in, kind),
         NEW p \in Instruments(in.gen)
  PROVE  \A k \in DOMAIN MetricBase(in, kind, e, p) :
           MetricBase(in, kind, e, p)[k] \notin Uncontrolled
<1>0. e \in Range(in.doc[kind]) /\ kind \in EntityKinds
  BY OwnerFacts DEF Mapped
<1> DEFINE norm == FunctionOf(in.doc, e.fn).norm
<1>1. norm \notin Uncontrolled
  <2>1. Named(in.doc, "function", e.fn)
    BY <1>0, InputFacts DEF WellFormed, Owners
  <2>2. \E f \in Range(in.doc.function) : f.id = e.fn
    BY <2>1 DEF Named
  <2>3. FunctionOf(in.doc, e.fn) \in Range(in.doc.function)
    BY <2>2 DEF FunctionOf
  <2> QED BY <2>3, InputFacts DEF Normalized
<1>2. e.op \notin Uncontrolled
  BY <1>0, InputFacts DEF Normalized, Owners
<1>3. p \notin Uncontrolled /\ "op" \notin Uncontrolled /\ "unknown" \notin Uncontrolled
  BY Words
<1> HIDE DEF norm
<1>4. CASE kind = "endpoint"
  <2>1. e.kind \in EndpointKinds
    BY <1>4 DEF Mapped
  <2>2. e.kind \notin Uncontrolled
    BY <2>1, Words
  <2>3. EndpointOperation(in.doc, e) \notin Uncontrolled
    BY <1>1, <1>2, <2>2 DEF EndpointOperation, norm
  <2>4. MetricBase(in, kind, e, p) = <<norm, EndpointOperation(in.doc, e), e.kind, p>>
    BY <1>4 DEF MetricBase, norm
  <2> DEFINE op == EndpointOperation(in.doc, e)
  <2> HIDE DEF op
  <2>5. \A k \in DOMAIN <<norm, op, e.kind, p>> : <<norm, op, e.kind, p>>[k] \in {norm, op, e.kind, p}
    OBVIOUS
  <2> QED BY <1>1, <1>3, <2>2, <2>3, <2>4, <2>5 DEF op
<1>5. CASE kind = "dependency"
  <2>1. e.kind \in DependencyKinds
    BY <1>5 DEF Mapped
  <2>2. System[e.kind] \notin Uncontrolled
    BY <2>1, Words
  <2>3. DependencyOperation(e) \notin Uncontrolled
    BY <1>2, <1>3 DEF DependencyOperation
  <2> DEFINE op == DependencyOperation(e)
             sys == System[e.kind]
             end == "op"
  <2>4. MetricBase(in, kind, e, p) = <<norm, op, sys, p, end>>
    BY <1>5 DEF MetricBase, norm
  <2>6. op \notin Uncontrolled /\ sys \notin Uncontrolled /\ end \notin Uncontrolled
    BY <1>3, <2>2, <2>3
  <2> HIDE DEF op, sys, end
  <2>5. \A k \in DOMAIN <<norm, op, sys, p, end>> :
          <<norm, op, sys, p, end>>[k] \in {norm, op, sys, p, end}
    OBVIOUS
  <2> QED BY <1>1, <1>3, <2>4, <2>5, <2>6
<1> QED BY <1>4, <1>5 DEF Owners

\* The parts of the name: the operation second, the instrument fourth.
LEMMA BaseParts ==
  ASSUME NEW in, NEW kind \in Owners, NEW e, NEW p
  PROVE  /\ MetricBase(in, kind, e, p)[4] = p
         /\ MetricBase(in, kind, e, p)[2] =
              IF kind = "endpoint" THEN EndpointOperation(in.doc, e) ELSE DependencyOperation(e)
BY DEF MetricBase, Owners

\* What the catalog refers to for an entity.
MetricRefs(in, id) == {MetricReference(x) : x \in PlannedFor(PlanIn(in)["metrics"], id)}

\* The metrics of an entity are good, and of each type there is one.
LEMMA MetricRefFacts ==
  ASSUME NEW in \in Inputs, NEW kind \in Owners, NEW e \in Mapped(in, kind)
  PROVE  /\ \A m \in MetricRefs(in, e.id) :
              /\ GoodMetric(m, in)
              /\ \E x : OwnMetric(x, in, kind, e) /\ m.name = NameOf(x)
         /\ \A m, n \in MetricRefs(in, e.id) : m.type = n.type => m = n
<1>1. ASSUME NEW x \in PlannedFor(PlanIn(in)["metrics"], e.id)
      PROVE  /\ OwnMetric(x, in, kind, e) /\ x \in PlanIn(in)["metrics"]
             /\ x.purpose \in {"count", "duration", "in_flight", "duration_summary"}
             /\ x.base[4] = x.purpose
  <2>1. OwnMetric(x, in, kind, e)
    BY MetricsOwned
  <2>2. x.purpose \in {"count", "duration", "in_flight", "duration_summary"}
    BY <2>1, Words DEF OwnMetric
  <2> QED BY <2>1, <2>2, BaseParts DEF OwnMetric, PlannedFor
<1>2. ASSUME NEW x \in PlannedFor(PlanIn(in)["metrics"], e.id), NEW m, m = MetricReference(x)
      PROVE  /\ m.id = StableID(x) /\ m.name = NameOf(x) /\ m.type = MetricType[x.purpose]
             /\ m.name[1] = x.base /\ m.attributes = Labels(x.purpose)
  BY <1>2 DEF MetricReference, NameOf
<1>3. ASSUME NEW m \in MetricRefs(in, e.id) PROVE GoodMetric(m, in)
  <2>1. PICK x \in PlannedFor(PlanIn(in)["metrics"], e.id) : m = MetricReference(x)
    BY DEF MetricRefs
  <2>2. /\ m.id = StableID(x) /\ m.name = NameOf(x) /\ m.type = MetricType[x.purpose]
        /\ m.name[1] = x.base /\ m.attributes = Labels(x.purpose)
    BY <1>2, <2>1
  <2>3. /\ OwnMetric(x, in, kind, e) /\ x \in PlanIn(in)["metrics"]
        /\ x.purpose \in {"count", "duration", "in_flight", "duration_summary"}
        /\ x.base[4] = x.purpose
    BY <1>1
  <2>4. Controlled(m.name)
    <3>1. \A k \in DOMAIN x.base : x.base[k] \notin Uncontrolled
      BY <2>3, ControlledBase DEF OwnMetric
    <3> QED BY <2>2, <3>1 DEF Controlled
  <2>5. m.type = MetricType[m.name[1][4]]
    BY <2>2, <2>3
  <2>6. m.type \in {"counter", "histogram", "gauge", "summary"} /\ m.attributes = LabelsOf(m.type)
    BY <2>2, <2>3 DEF MetricType, Labels, LabelsOf
  <2>7. m.id[2] \in Nat
    <3>1. e \in Range(in.doc[kind]) /\ kind \in EntityKinds
      BY OwnerFacts DEF Mapped
    <3>2. e.id \in Nat
      BY <3>1, EntityID
    <3> QED BY <2>2, <2>3, <3>2 DEF StableID, OwnMetric, Target
  <2> QED BY <2>2, <2>3, <2>4, <2>5, <2>6, <2>7 DEF GoodMetric
<1>4. ASSUME NEW m \in MetricRefs(in, e.id)
      PROVE  \E x : OwnMetric(x, in, kind, e) /\ m.name = NameOf(x)
  BY <1>1, <1>2 DEF MetricRefs
<1>5. ASSUME NEW m \in MetricRefs(in, e.id), NEW n \in MetricRefs(in, e.id), m.type = n.type
      PROVE  m = n
  <2>1. PICK x \in PlannedFor(PlanIn(in)["metrics"], e.id) : m = MetricReference(x)
    BY DEF MetricRefs
  <2>2. PICK y \in PlannedFor(PlanIn(in)["metrics"], e.id) : n = MetricReference(y)
    BY DEF MetricRefs
  <2>3. MetricType[x.purpose] = MetricType[y.purpose]
    BY <1>2, <1>5, <2>1, <2>2
  <2>4. x.purpose = y.purpose
    BY <1>1, <2>3 DEF MetricType
  <2>5. StableID(x) = StableID(y)
    BY <1>1, <2>4 DEF StableID, OwnMetric
  <2>6. x = y
    BY <1>1, <2>5, TargetKind, OwnerFacts
  <2> QED BY <2>1, <2>2, <2>6
<1> QED BY <1>3, <1>4, <1>5

\* With metrics planned at all, every entity has a counter and a histogram.
LEMMA MetricRefsExist ==
  ASSUME NEW in \in Inputs, NEW kind \in Owners, NEW e \in Mapped(in, kind)
  PROVE  /\ MetricRefs(in, e.id) # {} => "metrics" \in in.gen.signals
         /\ "metrics" \in in.gen.signals =>
              /\ \E m \in MetricRefs(in, e.id) : m.type = "counter"
              /\ \E m \in MetricRefs(in, e.id) : m.type = "histogram"
<1>1. ASSUME MetricRefs(in, e.id) # {} PROVE "metrics" \in in.gen.signals
  <2>1. PICK x : x \in PlanIn(in)["metrics"]
    BY <1>1 DEF MetricRefs, PlannedFor
  <2> QED BY <2>1, PlannedComesFrom, OwnerFacts
<1>2. ASSUME "metrics" \in in.gen.signals, NEW p \in {"count", "duration"}
      PROVE  \E m \in MetricRefs(in, e.id) : m.type = MetricType[p]
  <2>1. p \in Instruments(in.gen)
    BY DEF Instruments
  <2>2. PICK x \in PlanIn(in)["metrics"] : x.target = Target(kind, e.id) /\ x.purpose = p
    BY <1>2, <2>1, MetricPlanned
  <2>3. x \in PlannedFor(PlanIn(in)["metrics"], e.id)
    BY <2>2 DEF PlannedFor, Target
  <2>4. MetricReference(x).type = MetricType[p]
    BY <2>2 DEF MetricReference
  <2> QED BY <2>3, <2>4 DEF MetricRefs
<1> QED BY <1>1, <1>2 DEF MetricType
-----------------------------------------------------------------------------
\* The item of an entity the tables know.
ItemOf(in, kind, e) ==
  IF kind = "endpoint"
    THEN CatalogItem("endpoint", e, EndpointCategory[e.kind], EndpointItemOperation(e), PlanIn(in))
    ELSE CatalogItem("dependency", e, DependencyCategory[e.kind], DependencyItemOperation(e),
                     PlanIn(in))

SpanRefs(in, id) == {SpanReference(x) : x \in PlannedFor(PlanIn(in)["tracing"], id)}

ItemOperation(kind, e) ==
  IF kind = "endpoint" THEN EndpointItemOperation(e) ELSE DependencyItemOperation(e)

\* The fields of an item.
LEMMA ItemParts ==
  ASSUME NEW in, NEW kind \in Owners, NEW e
  PROVE  LET i == ItemOf(in, kind, e)
         IN  /\ i.target = Target(kind, e.id) /\ i.kind = e.kind
             /\ i.target.kind = kind /\ i.target.id = e.id
             /\ i.category = (IF kind = "endpoint" THEN EndpointCategory[e.kind]
                                ELSE DependencyCategory[e.kind])
             /\ i.operation = ItemOperation(kind, e)
             /\ i.metrics = MetricRefs(in, e.id) /\ i.spans = SpanRefs(in, e.id)
             /\ i.capabilities = Capabilities(i.metrics, i.spans)
<1>1. CASE kind = "endpoint"
  BY <1>1 DEF ItemOf, CatalogItem, ItemOperation, MetricRefs, SpanRefs, Target
<1>2. CASE kind = "dependency"
  BY <1>2 DEF ItemOf, CatalogItem, ItemOperation, MetricRefs, SpanRefs, Target
<1> QED BY <1>1, <1>2 DEF Owners

\* The operation of an item is that of its metrics, unless the endpoint is incomplete.
LEMMA OperationFacts ==
  ASSUME NEW in \in Inputs, NEW kind \in Owners, NEW e \in Mapped(in, kind)
  PROVE  /\ ItemOperation(kind, e) \notin Uncontrolled \cup {Missing}
         /\ \A x : OwnMetric(x, in, kind, e) /\ x \in PlanIn(in)["metrics"] =>
              x.base[2] = ItemOperation(kind, e) \/ NameOf(x) \in IncompleteNamesIn(in)
<1>0. e \in Range(in.doc[kind]) /\ e.op \notin Uncontrolled
  <2>1. e \in Range(in.doc[kind])
    BY DEF Mapped
  <2> QED BY <2>1, InputFacts DEF Normalized, Owners
<1>1. CASE kind = "endpoint"
  <2>1. e.kind \notin Uncontrolled \cup {Missing}
    BY <1>1, Words DEF Mapped
  <2>2. ItemOperation(kind, e) \notin Uncontrolled \cup {Missing}
    BY <1>0, <1>1, <2>1 DEF ItemOperation, EndpointItemOperation
  <2>3. ASSUME NEW x \in PlanIn(in)["metrics"], OwnMetric(x, in, kind, e)
        PROVE  x.base[2] = ItemOperation(kind, e) \/ NameOf(x) \in IncompleteNamesIn(in)
    <3>1. x.base[2] = EndpointOperation(in.doc, e) /\ x.target.id = e.id
      BY <1>1, <2>3, BaseParts DEF OwnMetric, Target
    <3>2. CASE EndpointIncomplete(e)
      BY <1>0, <1>1, <3>1, <3>2 DEF IncompleteNamesIn
    <3>3. CASE ~EndpointIncomplete(e)
      BY <1>1, <3>1, <3>3 DEF EndpointIncomplete, EndpointOperation, ItemOperation,
                              EndpointItemOperation
    <3> QED BY <3>2, <3>3
  <2> QED BY <2>2, <2>3
<1>2. CASE kind = "dependency"
  <2>1. ItemOperation(kind, e) = DependencyOperation(e)
    BY <1>2 DEF ItemOperation, DependencyItemOperation, DependencyOperation
  <2>2. "unknown" \notin Uncontrolled \cup {Missing}
    BY Words
  <2>3. DependencyOperation(e) \notin Uncontrolled \cup {Missing}
    BY <1>0, <2>2 DEF DependencyOperation
  <2>4. \A x : OwnMetric(x, in, kind, e) => x.base[2] = DependencyOperation(e)
    BY <1>2, BaseParts DEF OwnMetric
  <2> QED BY <2>1, <2>3, <2>4
<1> QED BY <1>1, <1>2 DEF Owners

\* The item of an entity is a good one.
LEMMA ItemIsGood ==
  ASSUME NEW in \in Inputs, NEW kind \in Owners, NEW e \in Mapped(in, kind),
         kind = "dependency" /\ e.kind \in ClientKinds => in.policy.clients
  PROVE  GoodItem(ItemOf(in, kind, e), in)
<1> DEFINE i == ItemOf(in, kind, e)
<1>1. /\ i.kind = e.kind /\ i.target.kind = kind
      /\ i.category = (IF kind = "endpoint" THEN EndpointCategory[e.kind]
                         ELSE DependencyCategory[e.kind])
      /\ i.operation = ItemOperation(kind, e)
      /\ i.metrics = MetricRefs(in, e.id) /\ i.spans = SpanRefs(in, e.id)
      /\ i.capabilities = Capabilities(i.metrics, i.spans)
  BY ItemParts
<1> HIDE DEF i
<1>2. ASSUME NEW m \in i.metrics
      PROVE  GoodMetric(m, in) /\ (m.name[1][2] = i.operation \/ m.name \in IncompleteNamesIn(in))
  <2>1. m \in MetricRefs(in, e.id)
    BY <1>1
  <2>2. GoodMetric(m, in)
    BY <2>1, MetricRefFacts
  <2>3. PICK x \in PlannedFor(PlanIn(in)["metrics"], e.id) : m = MetricReference(x)
    BY <2>1 DEF MetricRefs
  <2>4. OwnMetric(x, in, kind, e) /\ x \in PlanIn(in)["metrics"]
    BY MetricsOwned DEF PlannedFor
  <2>5. m.name = NameOf(x) /\ m.name[1] = x.base
    BY <2>3 DEF MetricReference, NameOf
  <2> QED BY <1>1, <2>2, <2>4, <2>5, OperationFacts
<1>3. \A m, n \in i.metrics : m.type = n.type => m = n
  BY <1>1, MetricRefFacts
<1>4. /\ i.metrics # {} => \E m \in i.metrics : m.type = "counter"
      /\ i.metrics # {} => \E m \in i.metrics : m.type = "histogram"
      /\ i.metrics # {} <=> "metrics" \in in.gen.signals
  <2>1. /\ MetricRefs(in, e.id) # {} => "metrics" \in in.gen.signals
        /\ "metrics" \in in.gen.signals => \E m \in MetricRefs(in, e.id) : m.type = "counter"
        /\ "metrics" \in in.gen.signals => \E m \in MetricRefs(in, e.id) : m.type = "histogram"
    BY MetricRefsExist
  <2>2. i.metrics = MetricRefs(in, e.id)
    BY <1>1
  <2> QED BY <2>1, <2>2
<1>5. \A x, y \in i.spans : x = y
  BY <1>1, OneSpan DEF SpanRefs
<1>9. \A x \in i.spans : x.id[2] \in Nat
  <2>1. e.id \in Nat
    BY OwnerFacts, EntityID DEF Mapped
  <2>2. ASSUME NEW y \in PlannedFor(PlanIn(in)["tracing"], e.id)
        PROVE  SpanReference(y).id[2] = e.id
    BY DEF PlannedFor, SpanReference, StableID
  <2> QED BY <1>1, <2>1, <2>2 DEF SpanRefs
<1>6. i.operation \notin Uncontrolled \cup {Missing}
  BY <1>1, OperationFacts
<1>7. i.kind \in (IF i.target.kind = "endpoint" THEN EndpointKinds ELSE DependencyKinds)
  BY <1>1 DEF Mapped
<1>8. GoodItem(i, in)
  BY <1>1, <1>2, <1>3, <1>4, <1>5, <1>6, <1>7, <1>9 DEF GoodItem, GoodMetrics
<1> QED BY <1>8 DEF i

\* The items are those of the entities the tables know, but for unwanted clients.
Listed(in, kind) ==
  {e \in Mapped(in, kind) : kind = "dependency" /\ e.kind \in ClientKinds => in.policy.clients}

\* The catalog has an item for each of them, and reports the others.
LEMMA CatalogFacts ==
  ASSUME NEW in \in Inputs, CatalogIn(in).errors = {}
  PROVE  /\ \A i \in CatalogIn(in).items :
              \E kind \in Owners : \E e \in Listed(in, kind) : i = ItemOf(in, kind, e)
         /\ \A kind \in Owners : \A e \in Listed(in, kind) : ItemOf(in, kind, e) \in CatalogIn(in).items
         /\ CatalogIn(in).diagnostics = Unmapped(in.doc)
<1> DEFINE doc == in.doc
           plan == PlanIn(in)
           policy == in.policy
           dup == DuplicateIDs(plan)
           dang == DanglingTargets(doc, plan)
<1>1. /\ CatalogIn(in).items = EndpointItems(doc, plan) \cup DependencyItems(doc, plan, policy)
      /\ CatalogIn(in).diagnostics = Unmapped(doc)
  <2>1. (IF dup # {} THEN dup ELSE dang) = {}
    <3>1. CASE (IF dup # {} THEN dup ELSE dang) # {}
      BY <3>1 DEF CatalogIn, BuildCatalog
    <3> QED BY <3>1
  <2> QED BY <2>1 DEF CatalogIn, BuildCatalog
<1>2. EndpointItems(doc, plan) = {ItemOf(in, "endpoint", e) : e \in Listed(in, "endpoint")}
  BY DEF EndpointItems, ItemOf, Listed, Mapped
<1>3. DependencyItems(doc, plan, policy) = {ItemOf(in, "dependency", e) : e \in Listed(in, "dependency")}
  BY DEF DependencyItems, ItemOf, Listed, Mapped
<1> QED BY <1>1, <1>2, <1>3 DEF Owners

\* All items of the catalog are good.
LEMMA CatalogIsGood ==
  ASSUME NEW in \in Inputs, CatalogIn(in).errors = {}, NEW i \in CatalogIn(in).items
  PROVE  GoodItem(i, in)
<1>1. PICK kind \in Owners : \E e \in Listed(in, kind) : i = ItemOf(in, kind, e)
  BY CatalogFacts
<1>2. PICK e \in Listed(in, kind) : i = ItemOf(in, kind, e)
  BY <1>1
<1>3. e \in Mapped(in, kind) /\ (kind = "dependency" /\ e.kind \in ClientKinds => in.policy.clients)
  BY DEF Listed
<1> QED BY <1>2, <1>3, ItemIsGood

\* A catalog is refused for the span of a call edge or an entity no table knows.
LEMMA CatalogErrors ==
  ASSUME NEW in \in Inputs, CatalogIn(in).errors # {}
  PROVE  \/ {x \in PlanIn(in)["tracing"] : x.target.kind = "edge"} # {}
         \/ in.policy.strict /\ Unmapped(in.doc) # {}
<1> DEFINE doc == in.doc
           plan == PlanIn(in)
           dup == DuplicateIDs(plan)
           dang == DanglingTargets(doc, plan)
<1>1. dup = {}
  BY InputFacts DEF DuplicateIDs, Sound
<1>2. CASE dang # {}
  <2>1. PICK x \in plan["metrics"] \cup plan["tracing"] :
               ~\E kind \in {"endpoint", "dependency"} :
                  x.target.kind = kind /\ \E e \in Range(doc[kind]) : e.id = x.target.id
    BY <1>2 DEF DanglingTargets
  <2>2. PICK signal \in {"metrics", "tracing"} : x \in plan[signal]
    BY <2>1
  <2>3. signal \in Signals
    BY DEF Signals
  <2>4. PICK s \in SubPlanners : \E e : SignalOf[s] = signal /\ ComesFrom(x, s, e, in)
    <3>1. \E s \in SubPlanners : \E e : SignalOf[s] = signal /\ ComesFrom(x, s, e, in)
      BY <2>2, <2>3, PlannedComesFrom
    <3> QED BY <3>1
  <2>5. PICK e : SignalOf[s] = signal /\ ComesFrom(x, s, e, in)
    BY <2>4
  <2>6. e \in Range(doc[SourceOf[s]]) /\ x.target = Target(SourceOf[s], e.id)
    BY <2>5 DEF ComesFrom
  <2>7. x.target.kind = SourceOf[s] /\ x.target.id = e.id
    BY <2>6 DEF Target
  <2>8. SourceOf[s] \notin {"endpoint", "dependency"}
    BY <2>1, <2>6, <2>7
  <2>9. s = "internal_spans"
    BY <2>8 DEF SourceOf, SubPlanners
  <2>10. signal = "tracing" /\ SourceOf[s] = "edge"
    BY <2>5, <2>9 DEF SignalOf, SourceOf, SubPlanners
  <2> QED BY <2>2, <2>7, <2>10
<1>3. CASE dang = {}
  BY <1>1, <1>3 DEF CatalogIn, BuildCatalog, Strictly
<1> QED BY <1>2, <1>3
-----------------------------------------------------------------------------
(* Families *)

GoodItems(items, in) == \A i \in items : GoodItem(i, in)

Shape(m) == <<m.name, m.type, m.attributes>>
MetricsIn(items) == UNION {i.metrics : i \in items}
Sharing(items, shape) == {i \in items : \E m \in i.metrics : Shape(m) = shape}
FamilyOf(items, shape) ==
  [name |-> shape[1], type |-> shape[2], attributes |-> shape[3], items |-> Sharing(items, shape),
   plans |-> {m.id : m \in {x \in MetricsIn(Sharing(items, shape)) : Shape(x) = shape}}]

\* Families are those of the shapes of the controlled metrics.
LEMMA FamilySet ==
  ASSUME NEW items
  PROVE  Families(items) = {FamilyOf(items, shape) : shape \in
                              {Shape(m) : m \in {x \in MetricsIn(items) : Controlled(x.name)}}}
BY DEF Families, FamilyOf, Sharing, MetricsIn, Shape

\* Metrics of one name are alike.
LEMMA Alike ==
  ASSUME NEW in, NEW m, GoodMetric(m, in), NEW n, GoodMetric(n, in), m.name = n.name
  PROVE  m.type = n.type /\ m.attributes = n.attributes /\ Shape(m) = Shape(n)
BY DEF GoodMetric, Shape

\* The metrics of good items are good.
LEMMA MetricsAreGood ==
  ASSUME NEW in, NEW items, GoodItems(items, in), NEW m \in MetricsIn(items)
  PROVE  GoodMetric(m, in) /\ \E i \in items : m \in i.metrics
BY DEF GoodItems, GoodItem, GoodMetrics, MetricsIn

\* A family has all items that have a metric of its name.
FamilyOK(f, items, in) ==
  /\ f = [name |-> f.name, type |-> f.type, attributes |-> f.attributes, items |-> f.items,
          plans |-> f.plans]
  /\ \E m \in MetricsIn(items) :
       GoodMetric(m, in) /\ f.name = m.name /\ f.type = m.type /\ f.attributes = m.attributes
  /\ f.items = {i \in items : \E m \in i.metrics : m.name = f.name}
  /\ f.items # {} /\ f.plans # {}
  /\ f.plans = {m.id : m \in {x \in MetricsIn(items) : x.name = f.name}}

\* The family of a metric.
LEMMA FamilyParts ==
  ASSUME NEW in, NEW items, GoodItems(items, in), NEW m \in MetricsIn(items)
  PROVE  /\ FamilyOf(items, Shape(m)).name = m.name
         /\ FamilyOf(items, Shape(m)).type = m.type
         /\ FamilyOK(FamilyOf(items, Shape(m)), items, in)
<1> DEFINE f == FamilyOf(items, Shape(m))
<1>1. GoodMetric(m, in)
  BY MetricsAreGood
<1>2. /\ f.name = m.name /\ f.type = m.type /\ f.attributes = m.attributes
      /\ f.items = Sharing(items, Shape(m))
      /\ f.plans = {x.id : x \in {y \in MetricsIn(f.items) : Shape(y) = Shape(m)}}
      /\ f = [name |-> f.name, type |-> f.type, attributes |-> f.attributes, items |-> f.items,
              plans |-> f.plans]
  BY DEF FamilyOf, Shape
<1> HIDE DEF f
<1>3. \A x \in MetricsIn(items) : Shape(x) = Shape(m) <=> x.name = m.name
  <2>1. \A x \in MetricsIn(items) : Shape(x) = Shape(m) => x.name = m.name
    BY DEF Shape
  <2>2. \A x \in MetricsIn(items) : x.name = m.name => Shape(x) = Shape(m)
    BY <1>1, MetricsAreGood, Alike
  <2> QED BY <2>1, <2>2
<1>4. f.items = {i \in items : \E x \in i.metrics : x.name = f.name}
  <2>1. \A i \in items : \A x \in i.metrics : x \in MetricsIn(items)
    BY DEF MetricsIn
  <2> QED BY <1>2, <1>3, <2>1 DEF Sharing
<1>5. f.plans = {x.id : x \in {y \in MetricsIn(items) : y.name = f.name}}
  <2>1. {y \in MetricsIn(f.items) : Shape(y) = Shape(m)} = {y \in MetricsIn(items) : y.name = f.name}
    BY <1>2, <1>3, <1>4 DEF MetricsIn
  <2> QED BY <1>2, <2>1
<1>6. f.items # {} /\ f.plans # {}
  BY <1>2, <1>4, <1>5 DEF MetricsIn
<1>7. FamilyOK(f, items, in)
  BY <1>1, <1>2, <1>4, <1>5, <1>6 DEF FamilyOK
<1> QED BY <1>2, <1>7 DEF f

\* Families are told apart by their names.
LEMMA FamilyFacts ==
  ASSUME NEW in, NEW items, GoodItems(items, in), NEW f \in Families(items)
  PROVE  /\ FamilyOK(f, items, in)
         /\ \A g \in Families(items) : g.name = f.name => g = f
<1>1. ASSUME NEW g \in Families(items)
      PROVE  \E m \in MetricsIn(items) : g = FamilyOf(items, Shape(m))
  BY FamilySet
<1>2. PICK m \in MetricsIn(items) : f = FamilyOf(items, Shape(m))
  BY <1>1
<1>3. FamilyOK(f, items, in) /\ f.name = m.name
  BY <1>2, FamilyParts
<1>4. ASSUME NEW g \in Families(items), g.name = f.name PROVE g = f
  <2>1. PICK n \in MetricsIn(items) : g = FamilyOf(items, Shape(n))
    BY <1>1
  <2>2. g.name = n.name
    BY <2>1, FamilyParts
  <2>3. GoodMetric(m, in) /\ GoodMetric(n, in) /\ m.name = n.name
    BY <1>3, <1>4, <2>2, MetricsAreGood
  <2>4. Shape(m) = Shape(n)
    BY <2>3, Alike
  <2> QED BY <1>2, <2>1, <2>4
<1> QED BY <1>3, <1>4

\* Every metric has a family.
LEMMA FamilyExists ==
  ASSUME NEW in, NEW items, GoodItems(items, in), NEW m \in MetricsIn(items)
  PROVE  \E f \in Families(items) : f.name = m.name /\ f.type = m.type
<1>1. Controlled(m.name)
  BY MetricsAreGood DEF GoodMetric
<1>2. FamilyOf(items, Shape(m)) \in Families(items)
  BY <1>1, FamilySet
<1> QED BY <1>2, FamilyParts
-----------------------------------------------------------------------------
(* Queries *)

\* A matcher of the metric's own labels, by a controlled value, or one of the
\* two patterns.
Fit(x, attributes, service, operation) ==
  \/ x = FailedStatus /\ "status" \in attributes
  \/ x = FiniteBucket
  \/ /\ x.op = "=" /\ x.label \in attributes /\ x.label \in {"service", "operation"}
     /\ x.value \notin Uncontrolled \cup {Missing}
     /\ x.value = IF x.label = "service" THEN service ELSE operation

\* A query built from metric m for a service and an operation (Missing: any).
QueryFits(q, m, service, operation) ==
  /\ q.by \subseteq Vocabulary
  /\ q.rated => m.type # "gauge"
  /\ q.kind = "percentile" => q.purpose \in Quantiles3
  /\ m.id \in q.plans
  /\ q.selector.metric = m.name
  /\ \A x \in q.selector.matchers :
       /\ Fit(x, m.attributes, service, operation)
       /\ x.label = "status" => q.kind \in {"error_ratio", "top_failing"}
  /\ \A t \in q.over :
       /\ t.metric = m.name /\ SameDomain(q.selector, t)
       /\ \A x \in t.matchers : Fit(x, m.attributes, service, operation) /\ x.label # "status"
  /\ q.kind = "error_ratio" => q.over # {}

\* The matchers of a query fit the labels of its metric.
LEMMA BaseFit ==
  ASSUME NEW m, NEW service, NEW operation, NEW attributes, m.attributes \subseteq attributes
  PROVE  \A x \in BaseMatchers(m, service, operation) :
           /\ Fit(x, attributes, service, operation) /\ x.label # "status"
           /\ x.label \in m.attributes
BY DEF BaseMatchers, Fit, Matcher

\* So do the patterns.
LEMMA PatternsFit ==
  ASSUME NEW attributes, NEW service, NEW operation
  PROVE  /\ Fit(FiniteBucket, attributes, service, operation) /\ FiniteBucket.label = "le"
         /\ FailedStatus.label = "status"
         /\ "status" \in attributes => Fit(FailedStatus, attributes, service, operation)
BY DEF Fit, FiniteBucket, FailedStatus, Matcher

\* Selectors with such matchers pass the validator.
LEMMA SelectorFits ==
  ASSUME NEW s, NEW m, NEW declared, m \in declared, Controlled(m.name), s.metric = m.name,
         NEW service, NEW operation, NEW asked, asked \in {Missing, operation}, NEW allowed,
         \A n \in declared : n.attributes = m.attributes,
         \A x \in s.matchers : /\ Fit(x, m.attributes, service, operation)
                               /\ x.label = "status" => allowed
  PROVE  ValidSelector(s, declared, service, asked, allowed)
<1>1. ASSUME NEW x \in s.matchers
      PROVE  /\ x.label \in Vocabulary
             /\ x.label = "le" => x = FiniteBucket
             /\ x.label # "le" =>
                  /\ IF x.op = "=~" THEN x.value = ErrorStatusPattern
                     ELSE x.value \notin Uncontrolled \cup {Missing}
                  /\ \A n \in declared : x.label \in n.attributes
             /\ x.label = "status" => allowed
             /\ (x.label = "service" /\ x.op = "=") => x.value = service
             /\ (x.label = "operation" /\ x.op = "=") => asked \in {Missing, x.value}
  <2>1. Fit(x, m.attributes, service, operation) /\ (x.label = "status" => allowed)
    OBVIOUS
  <2>2. CASE x = FailedStatus /\ "status" \in m.attributes
    BY <2>1, <2>2 DEF FailedStatus, Matcher, Vocabulary
  <2>3. CASE x = FiniteBucket
    BY <2>3 DEF FiniteBucket, Matcher, Vocabulary
  <2>4. CASE /\ x.op = "=" /\ x.label \in m.attributes /\ x.label \in {"service", "operation"}
             /\ x.value \notin Uncontrolled \cup {Missing}
             /\ x.value = IF x.label = "service" THEN service ELSE operation
    BY <2>1, <2>4 DEF Vocabulary
  <2> QED BY <2>1, <2>2, <2>3, <2>4 DEF Fit
<1> QED BY <1>1 DEF ValidSelector

\* Queries that fit a metric pass the validator.
LEMMA ExpressionFits ==
  ASSUME NEW in, NEW declared, \A n \in declared : GoodMetric(n, in), NEW m \in declared,
         NEW q, NEW service, NEW operation, QueryFits(q, m, service, operation),
         NEW asked, asked \in {Missing, operation}
  PROVE  ValidExpression(q, declared, service, asked)
<1> DEFINE Of(s) == {n \in declared : n.name = s.metric}
           own == {n \in declared : n.name = m.name}
<1>1. /\ m \in own /\ Controlled(m.name)
      /\ \A n \in own : n.attributes = m.attributes /\ n.type = m.type
  BY Alike DEF GoodMetric
<1>2. Of(q.selector) = own /\ \A t \in q.over : Of(t) = own
  BY DEF QueryFits
<1> HIDE DEF own
<1>3. ValidSelector(q.selector, own, service, asked, q.kind \in {"error_ratio", "top_failing"})
  <2> DEFINE s == q.selector
             allowed == q.kind \in {"error_ratio", "top_failing"}
  <2>1. /\ s.metric = m.name
        /\ \A x \in s.matchers : /\ Fit(x, m.attributes, service, operation)
                                 /\ x.label = "status" => allowed
    BY DEF QueryFits
  <2> HIDE DEF s, allowed
  <2>2. ValidSelector(s, own, service, asked, allowed)
    BY <1>1, <2>1, SelectorFits
  <2> QED BY <2>2 DEF s, allowed
<1>4. ASSUME NEW t \in q.over PROVE ValidSelector(t, own, service, asked, FALSE)
  <2>1. /\ t.metric = m.name
        /\ \A x \in t.matchers : /\ Fit(x, m.attributes, service, operation)
                                 /\ x.label = "status" => FALSE
    BY DEF QueryFits
  <2> QED BY <1>1, <2>1, SelectorFits
<1>5. q.rated => \A s \in Selectors(q) : \A n \in Of(s) : n.type # "gauge"
  <2>1. \A s \in Selectors(q) : Of(s) = own
    BY <1>2 DEF Selectors
  <2> QED BY <1>1, <2>1 DEF QueryFits
<1>6. /\ q.by \subseteq Vocabulary
      /\ q.kind = "percentile" => q.purpose \in Quantiles3
      /\ q.kind = "error_ratio" => q.over # {} /\ \A t \in q.over : SameDomain(q.selector, t)
  BY DEF QueryFits
<1> HIDE DEF Of
<1>7. ValidSelector(q.selector, Of(q.selector), service, asked, q.kind \in {"error_ratio", "top_failing"})
  BY <1>2, <1>3
<1>8. \A t \in q.over : ValidSelector(t, Of(t), service, asked, FALSE)
  BY <1>2, <1>4
<1> USE DEF Of
<1> QED BY <1>5, <1>6, <1>7, <1>8 DEF ValidExpression

\* The same as Reached, of the input of a call.
ReachedIn(q, in) ==
  \A s \in Selectors(q) : \E x \in PlanIn(in)["metrics"] :
    /\ StableID(x) \in q.plans
    /\ s.metric = NameOf(x)
    /\ \A l \in s.matchers : l.op = "=" =>
         l.value = (IF l.label = "service" THEN in.service ELSE x.base[2])

TargetOK(q, in) == ReachedIn(q, in) \/ q.selector.metric \in IncompleteNamesIn(in)

\* A service name that may stand in a query stands there unchanged.
LEMMA SafeService ==
  ASSUME NEW in \in Inputs, ControlledService(in.service) # Missing
  PROVE  ControlledService(in.service) = in.service
BY DEF ControlledService

\* Queries that fit a metric reach its series.
LEMMA FitReaches ==
  ASSUME NEW in \in Inputs, NEW m, GoodMetric(m, in), NEW q, NEW operation,
         QueryFits(q, m, ControlledService(in.service), operation),
         operation = Missing \/ m.name[1][2] = operation \/ m.name \in IncompleteNamesIn(in)
  PROVE  TargetOK(q, in)
<1> SUFFICES ASSUME m.name \notin IncompleteNamesIn(in) PROVE ReachedIn(q, in)
  BY DEF TargetOK, QueryFits
<1> DEFINE service == ControlledService(in.service)
<1>1. PICK x \in PlanIn(in)["metrics"] : m.id = StableID(x) /\ m.name = NameOf(x)
  BY DEF GoodMetric
<1>2. m.name[1][2] = x.base[2]
  BY <1>1 DEF NameOf
<1>3. service # Missing => service = in.service
  BY SafeService
<1> HIDE DEF service
<1>4. ASSUME NEW l, Fit(l, m.attributes, service, operation), l.op = "="
      PROVE  l.value = (IF l.label = "service" THEN in.service ELSE x.base[2])
  <2>1. FailedStatus.op # "=" /\ FiniteBucket.op # "="
    BY DEF FailedStatus, FiniteBucket, Matcher
  <2>2. /\ l.value # Missing /\ l.label \in {"service", "operation"}
        /\ l.value = IF l.label = "service" THEN service ELSE operation
    BY <1>4, <2>1 DEF Fit
  <2> QED BY <1>2, <1>3, <2>2
<1>5. ASSUME NEW s \in Selectors(q)
      PROVE  /\ s.metric = m.name
             /\ \A l \in s.matchers : Fit(l, m.attributes, service, operation)
  BY DEF Selectors, QueryFits, service
<1>6. m.id \in q.plans
  BY DEF QueryFits
<1> QED BY <1>1, <1>4, <1>5, <1>6 DEF ReachedIn
-----------------------------------------------------------------------------
(* The queries and links of one item *)

Safe(in) == ControlledService(in.service)

\* A query of an item: built from one of its metrics.
ItemQuery(q, i, in) ==
  \E m \in i.metrics : QueryFits(q, m, Safe(in), i.operation) /\ q.plans = {m.id}

\* Rates fit the metric they are built from.
LEMMA RateFits ==
  ASSUME NEW in, NEW i, GoodItem(i, in), NEW q \in RateQuery(i, Safe(in)) PROVE ItemQuery(q, i, in)
<1>1. PICK m \in Eligible(i, "counter", {"service", "operation"}) :
        q = Query("rate", "rate", ItemKey(i, "rate", "rate"), {m.id}, TRUE, {"operation"},
                  Selector(m.name, BaseMatchers(m, Safe(in), i.operation)), {})
  BY DEF RateQuery
<1>2. m \in i.metrics /\ m.type = "counter"
  BY DEF Eligible
<1>3. /\ q.kind = "rate" /\ q.plans = {m.id} /\ q.by = {"operation"} /\ q.over = {}
      /\ q.selector.metric = m.name /\ q.selector.matchers = BaseMatchers(m, Safe(in), i.operation)
  BY <1>1 DEF Query, Selector
<1>4. QueryFits(q, m, Safe(in), i.operation)
  BY <1>2, <1>3, BaseFit DEF QueryFits, Vocabulary
<1> QED BY <1>2, <1>3, <1>4 DEF ItemQuery

\* What an error ratio and a percentile are made of.
RatioOf(m, i, in) ==
  LET domain == BaseMatchers(m, Safe(in), i.operation)
  IN  Query("error_ratio", "error_ratio", ItemKey(i, "error_ratio", "error_ratio"), {m.id},
            TRUE, ByOperation(m), Selector(m.name, domain \cup {FailedStatus}),
            {Selector(m.name, domain)})

TileOf(m, p, i, in) ==
  Query("percentile", p, ItemKey(i, "percentile", p), {m.id}, TRUE, {"le"},
        Selector(m.name, BaseMatchers(m, Safe(in), i.operation) \cup {FiniteBucket}), {})

\* Error ratios, one by one.
LEMMA RatioSet ==
  ASSUME NEW in, NEW i
  PROVE  ErrorRatioQuery(i, Safe(in)) = {RatioOf(m, i, in) : m \in Eligible(i, "counter", {"status"})}
BY DEF ErrorRatioQuery, RatioOf

\* Percentiles, one by one.
LEMMA TileSet ==
  ASSUME NEW in, NEW i
  PROVE  PercentileQuery(i, Safe(in)) =
           {TileOf(m, p, i, in) : m \in Eligible(i, "histogram", {"service", "operation"}),
                                  p \in Quantiles3}
BY DEF PercentileQuery, TileOf

\* There is one for each histogram and quantile.
LEMMA TileMembers ==
  ASSUME NEW in, NEW i
  PROVE  /\ \A q \in PercentileQuery(i, Safe(in)) :
              \E m \in Eligible(i, "histogram", {"service", "operation"}) :
                \E p \in Quantiles3 : q = TileOf(m, p, i, in)
         /\ \A m \in Eligible(i, "histogram", {"service", "operation"}) : \A p \in Quantiles3 :
              TileOf(m, p, i, in) \in PercentileQuery(i, Safe(in))
BY TileSet

\* Error ratios fit, on both sides.
LEMMA RatioFits ==
  ASSUME NEW in, NEW i, GoodItem(i, in), NEW q \in ErrorRatioQuery(i, Safe(in))
  PROVE  ItemQuery(q, i, in)
<1> DEFINE Domain(m) == BaseMatchers(m, Safe(in), i.operation)
<1>1. PICK m \in Eligible(i, "counter", {"status"}) : q = RatioOf(m, i, in)
  BY RatioSet
<1>2. m \in i.metrics /\ m.type = "counter" /\ "status" \in m.attributes
  BY DEF Eligible
<1>3. /\ q.kind = "error_ratio" /\ q.plans = {m.id} /\ q.by = ByOperation(m)
      /\ q.selector.metric = m.name /\ q.selector.matchers = Domain(m) \cup {FailedStatus}
  BY <1>1 DEF RatioOf, Query, Selector
<1>0. q.over = {Selector(m.name, Domain(m))}
  BY <1>1 DEF RatioOf, Query
<1>10. q.over # {} /\ \A t \in q.over : t.metric = m.name /\ t.matchers = Domain(m)
  BY <1>0 DEF Selector
<1>4. \A x \in Domain(m) : Fit(x, m.attributes, Safe(in), i.operation) /\ x.label # "status"
  BY BaseFit
<1>5. Fit(FailedStatus, m.attributes, Safe(in), i.operation) /\ FailedStatus.label = "status"
  BY <1>2, PatternsFit
<1> HIDE DEF Domain
<1>6. \A t \in q.over : SameDomain(q.selector, t)
  BY <1>3, <1>10, <1>4, <1>5 DEF SameDomain
<1>7. q.by \subseteq Vocabulary
  BY <1>3 DEF ByOperation, Vocabulary
<1>8. QueryFits(q, m, Safe(in), i.operation)
  BY <1>2, <1>3, <1>10, <1>4, <1>5, <1>6, <1>7 DEF QueryFits
<1> QED BY <1>2, <1>3, <1>8 DEF ItemQuery

\* Percentiles fit.
LEMMA TilesFit ==
  ASSUME NEW in, NEW i, GoodItem(i, in), NEW q \in PercentileQuery(i, Safe(in))
  PROVE  ItemQuery(q, i, in)
<1> DEFINE Domain(m) == BaseMatchers(m, Safe(in), i.operation)
<1>0. PICK m \in Eligible(i, "histogram", {"service", "operation"}) :
        \E p \in Quantiles3 : q = TileOf(m, p, i, in)
  BY TileMembers
<1>1. PICK p \in Quantiles3 : q = TileOf(m, p, i, in)
  BY <1>0
<1>2. m \in i.metrics /\ m.type = "histogram"
  BY DEF Eligible
<1>3. /\ q.kind = "percentile" /\ q.purpose = p /\ q.plans = {m.id} /\ q.by = {"le"}
      /\ q.selector.metric = m.name /\ q.selector.matchers = Domain(m) \cup {FiniteBucket}
      /\ q.over = {}
  BY <1>1 DEF TileOf, Query, Selector
<1>4. \A x \in Domain(m) : Fit(x, m.attributes, Safe(in), i.operation) /\ x.label # "status"
  BY BaseFit
<1>5. Fit(FiniteBucket, m.attributes, Safe(in), i.operation) /\ FiniteBucket.label = "le"
  BY PatternsFit
<1> HIDE DEF Domain
<1>6. QueryFits(q, m, Safe(in), i.operation)
  BY <1>2, <1>3, <1>4, <1>5 DEF QueryFits, Vocabulary
<1> QED BY <1>2, <1>3, <1>6 DEF ItemQuery

\* Gauges of operations in flight fit.
LEMMA GaugeFits ==
  ASSUME NEW in, NEW i, GoodItem(i, in), NEW q \in InFlightQuery(i, Safe(in))
  PROVE  ItemQuery(q, i, in)
<1>1. PICK m \in Eligible(i, "gauge", {}) :
        q = Query("in_flight", "in_flight", ItemKey(i, "in_flight", "in_flight"), {m.id}, FALSE,
                  ByOperation(m), Selector(m.name, BaseMatchers(m, Safe(in), i.operation)), {})
  BY DEF InFlightQuery
<1>2. m \in i.metrics
  BY DEF Eligible
<1>3. /\ q.kind = "in_flight" /\ q.plans = {m.id} /\ q.by = ByOperation(m) /\ q.over = {}
      /\ ~q.rated
      /\ q.selector.metric = m.name /\ q.selector.matchers = BaseMatchers(m, Safe(in), i.operation)
  BY <1>1 DEF Query, Selector
<1>4. QueryFits(q, m, Safe(in), i.operation)
  BY <1>2, <1>3, BaseFit DEF QueryFits, Vocabulary, ByOperation
<1> QED BY <1>2, <1>3, <1>4 DEF ItemQuery

\* The queries of an item, by what offers them.
Rates(i, in) == Offered(i, "rate", RateQuery(i, Safe(in)))
Ratios(i, in) == Offered(i, "error_ratio", ErrorRatioQuery(i, Safe(in)))
Tiles(i, in) == Offered(i, "percentiles", PercentileQuery(i, Safe(in)))
Gauges(i, in) == Offered(i, "in_flight", InFlightQuery(i, Safe(in)))

ItemQueriesIn(i, in) == ItemQueries(i, in.service, in.policy)

\* What ItemQueries returns.
LEMMA ItemQueryParts ==
  ASSUME NEW in, NEW i
  PROVE  /\ ItemQueriesIn(i, in).queries
              = Rates(i, in) \cup Ratios(i, in) \cup Tiles(i, in) \cup Gauges(i, in)
         /\ ItemQueriesIn(i, in).links = TraceLink(i, Safe(in), in.policy)
         /\ ItemQueriesIn(i, in).diagnostics =
              ServiceDropped(in.service)
                \cup {Diagnostic("SENSITIVE_VALUE_DROPPED", i.target.id, <<"metric">>) :
                        m \in {x \in i.metrics : ~Controlled(x.name)}}
                \cup Lacking(i, "rate", Rates(i, in)) \cup Lacking(i, "error_ratio", Ratios(i, in))
                \cup Lacking(i, "percentiles", Tiles(i, in)) \cup Lacking(i, "in_flight", Gauges(i, in))
                \cup TraceLinkDropped(i, in.policy)
BY DEF ItemQueriesIn, ItemQueries, Rates, Ratios, Tiles, Gauges, Safe

\* All queries of an item fit.
LEMMA ItemQueryFacts ==
  ASSUME NEW in, NEW i, GoodItem(i, in), NEW q \in ItemQueriesIn(i, in).queries
  PROVE  ItemQuery(q, i, in)
<1>1. q \in RateQuery(i, Safe(in)) \cup ErrorRatioQuery(i, Safe(in))
             \cup PercentileQuery(i, Safe(in)) \cup InFlightQuery(i, Safe(in))
  BY ItemQueryParts DEF Offered, Rates, Ratios, Tiles, Gauges
<1> QED BY <1>1, RateFits, RatioFits, TilesFit, GaugeFits

\* An item with metrics has a rate.
LEMMA RateExists ==
  ASSUME NEW in, NEW i, GoodItem(i, in), i.metrics # {}
  PROVE  \E q \in ItemQueriesIn(i, in).queries : q.plans \cap {m.id : m \in i.metrics} # {}
<1>1. PICK m \in i.metrics : m.type = "counter"
  BY DEF GoodItem, GoodMetrics
<1>2. GoodMetric(m, in)
  BY DEF GoodItem, GoodMetrics
<1>3. m \in Eligible(i, "counter", {"service", "operation"})
  BY <1>1, <1>2 DEF Eligible, GoodMetric, LabelsOf
<1>4. "rate" \in i.capabilities
  BY <1>1, <1>2 DEF GoodItem, Capabilities, GoodMetric, LabelsOf
<1>5. PICK q \in RateQuery(i, Safe(in)) : q.plans = {m.id}
  <2> DEFINE Of(n) == Query("rate", "rate", ItemKey(i, "rate", "rate"), {n.id}, TRUE, {"operation"},
                            Selector(n.name, BaseMatchers(n, Safe(in), i.operation)), {})
  <2>1. Of(m).plans = {m.id}
    BY DEF Query
  <2>2. Of(m) \in RateQuery(i, Safe(in))
    BY <1>3 DEF RateQuery
  <2> HIDE DEF Of
  <2> QED BY <2>1, <2>2
<1>6. q \in ItemQueriesIn(i, in).queries
  BY <1>4, <1>5, ItemQueryParts DEF Offered, Rates
<1> QED BY <1>5, <1>6

\* An item of which nothing is reported as missing has queries of every purpose.
LEMMA AllPurposes ==
  ASSUME NEW in, NEW i, \A d \in ItemQueriesIn(i, in).diagnostics : d.code # "MISSING_REQUIRED_METRIC",
         NEW p \in ClassPurposes \cup {"in_flight"}
  PROVE  \E q \in ItemQueriesIn(i, in).queries : q.purpose = p
<1>1. /\ Rates(i, in) # {} /\ Ratios(i, in) # {} /\ Tiles(i, in) # {} /\ Gauges(i, in) # {}
  <2>1. ASSUME NEW c, NEW found, Lacking(i, c, found) \subseteq ItemQueriesIn(i, in).diagnostics
        PROVE  found # {}
    BY <2>1 DEF Lacking, Diagnostic
  <2> QED BY <2>1, ItemQueryParts
<1>2. CASE p = "rate"
  <2>1. PICK q \in Rates(i, in) : q.purpose = "rate"
    BY <1>1 DEF Rates, Offered, RateQuery, Query
  <2> QED BY <1>2, <2>1, ItemQueryParts
<1>3. CASE p = "error_ratio"
  <2>1. PICK q \in Ratios(i, in) : q.purpose = "error_ratio"
    <3>1. \A m : RatioOf(m, i, in).purpose = "error_ratio"
      BY DEF RatioOf, Query
    <3> QED BY <1>1, <3>1, RatioSet DEF Ratios, Offered
  <2> QED BY <1>3, <2>1, ItemQueryParts
<1>4. CASE p = "in_flight"
  <2>1. PICK q \in Gauges(i, in) : q.purpose = "in_flight"
    BY <1>1 DEF Gauges, Offered, InFlightQuery, Query
  <2> QED BY <1>4, <2>1, ItemQueryParts
<1>5. CASE p \in Quantiles3
  <2>1. Tiles(i, in) = PercentileQuery(i, Safe(in))
    BY <1>1 DEF Tiles, Offered
  <2>2. PICK m : m \in Eligible(i, "histogram", {"service", "operation"})
    BY <1>1, <2>1, TileMembers
  <2>3. PICK q \in Tiles(i, in) : q.purpose = p
    <3>1. TileOf(m, p, i, in) \in Tiles(i, in)
      BY <1>5, <2>1, <2>2, TileMembers
    <3>2. TileOf(m, p, i, in).purpose = p
      BY DEF TileOf, Query
    <3> QED BY <3>1, <3>2
  <2> QED BY <2>3, ItemQueryParts
<1> QED BY <1>2, <1>3, <1>4, <1>5 DEF ClassPurposes

\* The link of an item is to its span, unless its name may not stand in a link.
LEMMA LinkFacts ==
  ASSUME NEW in, NEW i, GoodItem(i, in), in.policy.links, NEW x \in i.spans, NEW service
  PROVE  /\ Controlled(x.name) =>
              TraceLink(i, service, in.policy) =
                {[service |-> service, operation |-> i.operation, span |-> x.name]}
         /\ ~Controlled(x.name) =>
              TraceLinkDropped(i, in.policy) =
                {Diagnostic("SENSITIVE_VALUE_DROPPED", i.target.id, <<"span">>)}
<1>1. LinkedSpan(i) = x
  <2>1. x.id[2] <= x.id[2] /\ \A y \in i.spans : y = x
    BY DEF GoodItem
  <2>2. \E z \in i.spans : \A y \in i.spans : z.id[2] <= y.id[2]
    BY <2>1
  <2>3. LinkedSpan(i) \in i.spans
    BY <2>2 DEF LinkedSpan
  <2> QED BY <2>1, <2>3
<1>2. i.spans # {}
  OBVIOUS
<1> QED BY <1>1, <1>2 DEF TraceLink, TraceLinkDropped
-----------------------------------------------------------------------------
(* Queries over families *)

\* The patterns a family query adds to its matchers.
Extra(p) ==
  IF p \in {"error_ratio", "top_failing"} THEN {FailedStatus}
  ELSE IF p \in Quantiles3 THEN {FiniteBucket} ELSE {}

FamilyQueryHas(q, f, p, scope, service) ==
  /\ q.kind = KindOfPurpose(p) /\ q.purpose = p /\ q.plans = f.plans
  /\ q.key = <<KindOfPurpose(p), scope, NoId, f.name, p>>
  /\ q.rated = (p # "in_flight")
  /\ q.by \subseteq Vocabulary
  /\ q.selector = FamilySelector(f, service, Extra(p))
  /\ q.over = IF p = "error_ratio" THEN {FamilySelector(f, service, {})} ELSE {}

\* The fields of a query over a family.
LEMMA FamilyQueryParts ==
  ASSUME NEW f, NEW p, NEW scope, NEW service
  PROVE  FamilyQueryHas(FamilyQuery(f, p, scope, service), f, p, scope, service)
<1> DEFINE by == IF p \in Quantiles3 THEN {"le"}
                 ELSE IF p = "in_flight" THEN ByOperation(f) ELSE {"operation"}
           over == IF p = "error_ratio" THEN {FamilySelector(f, service, {})} ELSE {}
           rated == p # "in_flight"
           key == <<KindOfPurpose(p), scope, NoId, f.name, p>>
           selector == FamilySelector(f, service, Extra(p))
           plans == f.plans
           kind == KindOfPurpose(p)
<1>1. FamilyQuery(f, p, scope, service) = Query(kind, p, key, plans, rated, by, selector, over)
  BY DEF FamilyQuery, Extra
<1>2. by \subseteq Vocabulary
  BY DEF ByOperation, Vocabulary
<1> HIDE DEF by, over, rated, key, selector, plans, kind
<1>3. LET q == Query(kind, p, key, plans, rated, by, selector, over)
      IN  /\ q.kind = kind /\ q.purpose = p /\ q.plans = plans /\ q.key = key
          /\ q.rated = rated /\ q.by = by /\ q.selector = selector /\ q.over = over
  BY DEF Query
<1> USE DEF over, rated, key, selector, plans, kind
<1> QED BY <1>1, <1>2, <1>3 DEF FamilyQueryHas

\* A selector of a family: by service only, and by what is added.
LEMMA FamilySelectorFacts ==
  ASSUME NEW in, NEW items, NEW f, FamilyOK(f, items, in), NEW m, m.attributes = f.attributes,
         NEW service, NEW extra
  PROVE  LET s == FamilySelector(f, service, extra)
         IN  /\ s.metric = f.name
             /\ \E base : /\ s.matchers = base \cup extra
                          /\ base = FamilySelector(f, service, {}).matchers
                          /\ \A x \in base : Fit(x, m.attributes, service, Missing)
                                             /\ x.label # "status" /\ x.label # "operation"
<1> DEFINE g == [f EXCEPT !.attributes = @ \cap {"service"}]
           base == BaseMatchers(g, service, Missing)
<1>1. f = [name |-> f.name, type |-> f.type, attributes |-> f.attributes, items |-> f.items,
           plans |-> f.plans]
  BY DEF FamilyOK
<1>2. g.attributes = f.attributes \cap {"service"}
  BY <1>1
<1>3. /\ FamilySelector(f, service, extra).metric = f.name
      /\ FamilySelector(f, service, extra).matchers = base \cup extra
      /\ FamilySelector(f, service, {}).matchers = base
  BY DEF FamilySelector, Selector
<1> HIDE DEF g
<1>4. \A x \in base : Fit(x, m.attributes, service, Missing) /\ x.label # "status"
                      /\ x.label \in g.attributes
  BY <1>2, BaseFit
<1> HIDE DEF base
<1> QED BY <1>2, <1>3, <1>4

\* It fits every metric of its family, and selects no operation.
LEMMA FamilyQueryFits ==
  ASSUME NEW in, NEW items, NEW f, FamilyOK(f, items, in), NEW p \in FamilyPurposes(f),
         NEW m, GoodMetric(m, in), m.name = f.name, m.id \in f.plans, NEW scope, NEW service
  PROVE  LET q == FamilyQuery(f, p, scope, service)
         IN  /\ QueryFits(q, m, service, Missing)
             /\ \A s \in Selectors(q) : \A x \in s.matchers : x.label # "operation"
<1> DEFINE q == FamilyQuery(f, p, scope, service)
           extra == Extra(p)
<1>1. /\ q.kind = KindOfPurpose(p) /\ q.purpose = p /\ q.plans = f.plans
      /\ q.rated = (p # "in_flight")
      /\ q.by \subseteq Vocabulary
      /\ q.selector = FamilySelector(f, service, extra)
      /\ q.over = IF p = "error_ratio" THEN {FamilySelector(f, service, {})} ELSE {}
  <2>1. FamilyQueryHas(q, f, p, scope, service)
    BY FamilyQueryParts
  <2> QED BY <2>1 DEF FamilyQueryHas
<1> HIDE DEF q
<1>2. m.type = f.type /\ m.attributes = f.attributes
  <2>1. PICK n : GoodMetric(n, in) /\ f.name = n.name /\ f.type = n.type /\ f.attributes = n.attributes
    BY DEF FamilyOK
  <2> QED BY <2>1, Alike
<1>3. /\ p \in {"rate", "error_ratio", "in_flight", "top_failing"} \cup Quantiles3
      /\ p = "rate" => m.type = "counter"
      /\ p \in {"error_ratio", "top_failing"} => m.type = "counter" /\ "status" \in m.attributes
      /\ p \in Quantiles3 => m.type = "histogram"
  BY <1>2 DEF FamilyPurposes, Quantiles3
<1>4. PICK base :
        /\ q.selector.matchers = base \cup extra /\ q.selector.metric = f.name
        /\ base = FamilySelector(f, service, {}).matchers
        /\ \A x \in base : Fit(x, m.attributes, service, Missing)
                           /\ x.label # "status" /\ x.label # "operation"
  BY <1>1, <1>2, FamilySelectorFacts
<1>5. FamilySelector(f, service, {}).metric = f.name
  BY <1>2, FamilySelectorFacts
<1>6. \A t \in q.over : p = "error_ratio" /\ t.metric = f.name /\ t.matchers = base
  BY <1>1, <1>4, <1>5
<1>7. \A x \in extra : /\ Fit(x, m.attributes, service, Missing) /\ x.label # "operation"
                       /\ x.label = "status" => p \in {"error_ratio", "top_failing"}
  <2>1. CASE p \in {"error_ratio", "top_failing"}
    BY <1>3, <2>1, PatternsFit DEF Extra
  <2>2. CASE p \notin {"error_ratio", "top_failing"}
    BY <2>2, PatternsFit DEF Extra
  <2> QED BY <2>1, <2>2
<1>8. ASSUME NEW t \in q.over PROVE SameDomain(q.selector, t)
  <2>1. extra = {FailedStatus} /\ FailedStatus.label = "status"
    BY <1>6, PatternsFit DEF Extra
  <2> HIDE DEF extra
  <2> QED BY <1>4, <1>6, <2>1 DEF SameDomain
<1>9. /\ q.kind = "percentile" => p \in Quantiles3
      /\ p \in {"error_ratio", "top_failing"} => q.kind = p
      /\ q.kind = "error_ratio" => p = "error_ratio"
  BY <1>1, <1>3 DEF KindOfPurpose, Quantiles3
<1> HIDE DEF extra
<1>10. q.rated => m.type # "gauge"
  BY <1>1, <1>3 DEF Quantiles3
<1>11. \A x \in q.selector.matchers :
         /\ Fit(x, m.attributes, service, Missing)
         /\ x.label = "status" => q.kind \in {"error_ratio", "top_failing"}
         /\ x.label # "operation"
  BY <1>4, <1>7, <1>9
<1>12. q.kind = "error_ratio" => q.over # {}
  BY <1>1, <1>9
<1>13. QueryFits(q, m, service, Missing)
  BY <1>1, <1>4, <1>6, <1>8, <1>9, <1>10, <1>11, <1>12 DEF QueryFits
<1>14. \A s \in Selectors(q) : \A x \in s.matchers : x.label # "operation"
  BY <1>4, <1>6, <1>11 DEF Selectors
<1> QED BY <1>13, <1>14 DEF q

\* A family query passes the validator and reaches its series.
LEMMA FamilyQueryValid ==
  ASSUME NEW in \in Inputs, NEW items, GoodItems(items, in), NEW f \in Families(items),
         NEW p \in FamilyPurposes(f), NEW scope
  PROVE  /\ ValidateOverviewPlan(FamilyQuery(f, p, scope, Safe(in)), f.items, Safe(in))
         /\ TargetOK(FamilyQuery(f, p, scope, Safe(in)), in)
         /\ "metrics" \in in.gen.signals
<1> DEFINE q == FamilyQuery(f, p, scope, Safe(in))
           all == MetricsIn(f.items)
<1>1. FamilyOK(f, items, in)
  BY FamilyFacts
<1>2. /\ f.items = {i \in items : \E m \in i.metrics : m.name = f.name}
      /\ f.items # {} /\ f.plans # {}
      /\ f.plans = {m.id : m \in {x \in MetricsIn(items) : x.name = f.name}}
  BY <1>1 DEF FamilyOK
<1>3. f.plans = {m.id : m \in {x \in all : x.name = f.name}}
  <2>1. {x \in MetricsIn(items) : x.name = f.name} = {x \in all : x.name = f.name}
    BY <1>2 DEF MetricsIn
  <2> QED BY <1>2, <2>1
<1>4. \A m \in all : GoodMetric(m, in) /\ m \in MetricsIn(items)
  BY <1>2, MetricsAreGood DEF MetricsIn
<1>5. PICK m \in all : m.name = f.name /\ m.id \in f.plans
  BY <1>2, <1>3
<1>6. /\ QueryFits(q, m, Safe(in), Missing)
      /\ \A s \in Selectors(q) : \A x \in s.matchers : x.label # "operation"
  BY <1>1, <1>4, <1>5, FamilyQueryFits
<1>7. q.plans = f.plans
  <2>1. FamilyQueryHas(q, f, p, scope, Safe(in))
    BY FamilyQueryParts
  <2> QED BY <2>1 DEF FamilyQueryHas
<1> HIDE DEF q, all
<1>8. ValidExpression(q, all, Safe(in), Missing)
  BY <1>4, <1>6, ExpressionFits
<1>9. \A s \in Selectors(q) : s.metric = f.name
  BY <1>5, <1>6 DEF QueryFits, Selectors
<1>10. \A x, y \in {z \in all : z.name = f.name} : x.type = y.type /\ x.attributes = y.attributes
  BY <1>4, Alike
<1>11. \A i \in f.items : \E x \in i.metrics : x.name = f.name
  BY <1>2
<1>12. ValidateOverviewPlan(q, f.items, Safe(in))
  <2>1. all = UNION {i.metrics : i \in f.items}
    BY DEF all, MetricsIn
  <2>2. q.plans \subseteq {x.id : x \in all}
    BY <1>3, <1>7
  <2> QED BY <1>2, <1>5, <1>6, <1>7, <1>8, <1>9, <1>10, <1>11, <2>1, <2>2 DEF ValidateOverviewPlan
<1>13. TargetOK(q, in)
  BY <1>4, <1>6, FitReaches DEF Safe
<1>14. "metrics" \in in.gen.signals
  <2>1. PICK i \in items : m \in i.metrics
    BY <1>2 DEF all, MetricsIn
  <2> QED BY <2>1 DEF GoodItems, GoodItem, GoodMetrics
<1> QED BY <1>12, <1>13, <1>14 DEF q
-----------------------------------------------------------------------------
(* Targets of a panel *)

TargetsOK(targets, in) ==
  /\ \A q \in targets : TargetOK(q, in) /\ "metrics" \in in.gen.signals
  /\ \A q, r \in targets : q.key = r.key => q = r

\* The targets over the families of any good items are good and valid.
LEMMA FamilyTargetsOK ==
  ASSUME NEW in \in Inputs, NEW items, GoodItems(items, in), NEW p, NEW scope
  PROVE  /\ TargetsOK(FamilyTargets(Families(items), p, scope, Safe(in)), in)
         /\ Validated(Families(items), p, scope, Safe(in))
<1> DEFINE Of(f) == FamilyQuery(f, p, scope, Safe(in))
           fs == {g \in Families(items) : p \in FamilyPurposes(g)}
<1>1. FamilyTargets(Families(items), p, scope, Safe(in)) = {Of(f) : f \in fs}
  BY DEF FamilyTargets
<1>2. ASSUME NEW f \in fs
      PROVE  /\ ValidateOverviewPlan(Of(f), f.items, Safe(in)) /\ TargetOK(Of(f), in)
             /\ "metrics" \in in.gen.signals
  BY FamilyQueryValid
<1>3. ASSUME NEW f \in fs, NEW g \in fs, Of(f).key = Of(g).key PROVE Of(f) = Of(g)
  <2>1. FamilyQueryHas(Of(f), f, p, scope, Safe(in)) /\ FamilyQueryHas(Of(g), g, p, scope, Safe(in))
    BY FamilyQueryParts
  <2>2. Of(f).key[4] = f.name
    <3> HIDE DEF Of
    <3> QED BY <2>1 DEF FamilyQueryHas
  <2>3. Of(g).key[4] = g.name
    <3> HIDE DEF Of
    <3> QED BY <2>1 DEF FamilyQueryHas
  <2>4. f.name = g.name
    BY <1>3, <2>2, <2>3
  <2> QED BY <2>4, FamilyFacts
<1>4. Validated(Families(items), p, scope, Safe(in))
  BY <1>2 DEF Validated
<1> HIDE DEF Of, fs
<1>5. TargetsOK({Of(f) : f \in fs}, in)
  BY <1>2, <1>3 DEF TargetsOK
<1> QED BY <1>1, <1>4, <1>5

\* The rate of an item's family is among the targets.
LEMMA RateCovers ==
  ASSUME NEW in \in Inputs, NEW items, GoodItems(items, in), NEW i \in items, i.metrics # {},
         NEW scope
  PROVE  \E q \in FamilyTargets(Families(items), "rate", scope, Safe(in)) :
           q.plans \cap {m.id : m \in i.metrics} # {}
<1>1. PICK m \in i.metrics : m.type = "counter"
  BY DEF GoodItems, GoodItem, GoodMetrics
<1>2. m \in MetricsIn(items) /\ GoodMetric(m, in)
  BY MetricsAreGood DEF MetricsIn
<1>3. PICK f \in Families(items) : f.name = m.name /\ f.type = m.type
  BY <1>2, FamilyExists
<1>4. FamilyOK(f, items, in)
  BY FamilyFacts
<1>5. m.id \in f.plans
  BY <1>2, <1>3, <1>4 DEF FamilyOK
<1>6. f.attributes = LabelsOf(f.type)
  BY <1>4 DEF FamilyOK, GoodMetric
<1>7. "rate" \in FamilyPurposes(f)
  <2>1. f.type = "counter" /\ {"service", "operation"} \subseteq f.attributes
    BY <1>1, <1>3, <1>6 DEF LabelsOf
  <2> QED BY <2>1 DEF FamilyPurposes, Quantiles3
<1> DEFINE q == FamilyQuery(f, "rate", scope, Safe(in))
<1>8. q \in FamilyTargets(Families(items), "rate", scope, Safe(in))
  BY <1>7 DEF FamilyTargets
<1>9. FamilyQueryHas(q, f, "rate", scope, Safe(in))
  BY FamilyQueryParts
<1> HIDE DEF q
<1> QED BY <1>5, <1>8, <1>9 DEF FamilyQueryHas

\* Of identifiers with numbers one has the least.
LEMMA LeastExists ==
  ASSUME NEW S, S # {}, \A x \in S : x[2] \in Nat
  PROVE  \E x \in S : \A y \in S : x[2] <= y[2]
<1> SUFFICES ASSUME \A x \in S : \E y \in S : ~(x[2] <= y[2]) PROVE FALSE
  OBVIOUS
<1> DEFINE G == {n \in Nat : \A x \in S : n <= x[2]}
<1>1. 0 \in G
  OBVIOUS
<1>2. ASSUME NEW n \in G \cap Nat PROVE n + 1 \in G
  <2>1. ASSUME NEW x \in S PROVE n + 1 <= x[2]
    <3>1. PICK y \in S : ~(x[2] <= y[2])
      OBVIOUS
    <3>2. n <= x[2] /\ n <= y[2] /\ x[2] \in Nat /\ y[2] \in Nat
      OBVIOUS
    <3> QED BY <3>1, <3>2
  <2> QED BY <2>1
<1> HIDE DEF G
<1>3. Nat \subseteq G
  BY <1>1, <1>2, NatSetInduction
<1>4. PICK x : x \in S
  OBVIOUS
<1>5. x[2] + 1 \in G
  BY <1>3, <1>4
<1> QED BY <1>4, <1>5 DEF G

\* One query of a breakdown, and the metric that stands for its family.
LeadOf(f) == CHOOSE x \in f.plans : \A y \in f.plans : x[2] <= y[2]
BreakdownQuery(f, o, service) ==
  Query("operation_breakdown", "breakdown",
        <<"operation_breakdown", "plan", LeadOf(f)[2], f.name, o>>, {LeadOf(f)}, TRUE,
        {"operation"}, Selector(f.name, BaseMatchers(f, service, o)), {})

\* A breakdown has one query for each operation.
LEMMA BreakdownSet ==
  ASSUME NEW f, NEW service
  PROVE  TableOf(f, service).queries =
           {BreakdownQuery(f, o, service) : o \in {i.operation : i \in f.items} \ Uncontrolled}
BY DEF TableOf, Breakdown, BreakdownQuery, LeadOf

BreakdownHas(q, f, o, service) ==
  /\ q.kind = "operation_breakdown" /\ q.plans = {LeadOf(f)} /\ q.by = {"operation"}
  /\ q.key = <<"operation_breakdown", "plan", LeadOf(f)[2], f.name, o>>
  /\ q.over = {} /\ q.selector.metric = f.name
  /\ q.selector.matchers = BaseMatchers(f, service, o)

\* The fields of such a query.
LEMMA BreakdownParts ==
  ASSUME NEW f, NEW o, NEW service
  PROVE  BreakdownHas(BreakdownQuery(f, o, service), f, o, service)
BY DEF BreakdownQuery, BreakdownHas, Query, Selector

\* It reaches the series of its family.
LEMMA BreakdownOK ==
  ASSUME NEW in \in Inputs, NEW items, GoodItems(items, in), NEW f \in CounterFamilies(items),
         NEW i \in f.items
  PROVE  TargetOK(BreakdownQuery(f, i.operation, Safe(in)), in) /\ "metrics" \in in.gen.signals
<1> DEFINE q == BreakdownQuery(f, i.operation, Safe(in))
<1>1. f \in Families(items) /\ "rate" \in FamilyPurposes(f)
  BY DEF CounterFamilies
<1>2. FamilyOK(f, items, in)
  BY <1>1, FamilyFacts
<1>3. /\ f.items = {j \in items : \E m \in j.metrics : m.name = f.name}
      /\ f.plans # {}
      /\ f.plans = {m.id : m \in {x \in MetricsIn(items) : x.name = f.name}}
  BY <1>2 DEF FamilyOK
<1>4. \A x \in f.plans : x[2] \in Nat
  BY <1>3, MetricsAreGood DEF GoodMetric
<1>5. LeadOf(f) \in f.plans
  <2>1. \E x \in f.plans : \A y \in f.plans : x[2] <= y[2]
    BY <1>3, <1>4, LeastExists
  <2> QED BY <2>1 DEF LeadOf
<1>6. PICK m \in MetricsIn(items) : m.name = f.name /\ m.id = LeadOf(f)
  BY <1>3, <1>5
<1>7. GoodMetric(m, in)
  BY <1>6, MetricsAreGood
<1>8. m.attributes = f.attributes /\ m.type = f.type
  <2>1. PICK n : GoodMetric(n, in) /\ f.name = n.name /\ f.type = n.type /\ f.attributes = n.attributes
    BY <1>2 DEF FamilyOK
  <2> QED BY <1>6, <1>7, <2>1, Alike
<1>9. f.type = "counter"
  BY <1>1 DEF FamilyPurposes, Quantiles3
<1>10. BreakdownHas(q, f, i.operation, Safe(in))
  BY BreakdownParts
<1> HIDE DEF q
<1>11. \A x \in BaseMatchers(f, Safe(in), i.operation) :
         Fit(x, m.attributes, Safe(in), i.operation) /\ x.label # "status"
  BY <1>8, BaseFit
<1>12. QueryFits(q, m, Safe(in), i.operation)
  BY <1>6, <1>8, <1>9, <1>10, <1>11 DEF BreakdownHas, QueryFits, Vocabulary
<1>13. PICK n \in i.metrics : n.name = f.name /\ i \in items
  BY <1>3
<1>14. /\ n.name[1][2] = i.operation \/ n.name \in IncompleteNamesIn(in)
       /\ "metrics" \in in.gen.signals
  BY <1>13 DEF GoodItems, GoodItem, GoodMetrics
<1>15. TargetOK(q, in)
  <2>1. m.name[1][2] = i.operation \/ m.name \in IncompleteNamesIn(in)
    BY <1>6, <1>13, <1>14
  <2>2. QueryFits(q, m, ControlledService(in.service), i.operation)
    BY <1>12 DEF Safe
  <2> QED BY <1>7, <2>1, <2>2, FitReaches
<1> QED BY <1>14, <1>15 DEF q

\* The targets of an operations table.
TableTargets(items, in) == UNION {t.queries : t \in {TableOf(f, Safe(in)) : f \in CounterFamilies(items)}}

\* So do all targets of an operations table.
LEMMA TableOK ==
  ASSUME NEW in \in Inputs, NEW items, GoodItems(items, in)
  PROVE  TargetsOK(TableTargets(items, in), in)
<1>1. ASSUME NEW q \in TableTargets(items, in)
      PROVE  \E f \in CounterFamilies(items) : \E i \in f.items :
               q = BreakdownQuery(f, i.operation, Safe(in))
  <2>1. PICK f \in CounterFamilies(items) : q \in TableOf(f, Safe(in)).queries
    BY DEF TableTargets
  <2> QED BY <2>1, BreakdownSet
<1>2. ASSUME NEW q \in TableTargets(items, in)
      PROVE  TargetOK(q, in) /\ "metrics" \in in.gen.signals
  BY <1>1, BreakdownOK
<1>3. ASSUME NEW q \in TableTargets(items, in), NEW r \in TableTargets(items, in), q.key = r.key
      PROVE  q = r
  <2>1. PICK f \in CounterFamilies(items) : \E i \in f.items :
               q = BreakdownQuery(f, i.operation, Safe(in))
    BY <1>1
  <2>2. PICK g \in CounterFamilies(items) : \E j \in g.items :
               r = BreakdownQuery(g, j.operation, Safe(in))
    BY <1>1
  <2>3. PICK i \in f.items : q = BreakdownQuery(f, i.operation, Safe(in))
    BY <2>1
  <2>4. PICK j \in g.items : r = BreakdownQuery(g, j.operation, Safe(in))
    BY <2>2
  <2>5. BreakdownHas(q, f, i.operation, Safe(in)) /\ BreakdownHas(r, g, j.operation, Safe(in))
    BY <2>3, <2>4, BreakdownParts
  <2>8. /\ q.key[4] = f.name /\ q.key[5] = i.operation
        /\ r.key[4] = g.name /\ r.key[5] = j.operation
    BY <2>5 DEF BreakdownHas
  <2>6. f.name = g.name /\ i.operation = j.operation
    BY <1>3, <2>8
  <2>7. f = g
    BY <2>6, FamilyFacts DEF CounterFamilies
  <2> QED BY <2>3, <2>4, <2>6, <2>7
<1> QED BY <1>2, <1>3 DEF TargetsOK

\* An operations table is a panel with these targets or none.
LEMMA TableParts ==
  ASSUME NEW in, NEW items, NEW key, NEW links
  PROVE  OperationTable(items, key, links, Safe(in)).panels
           = IF TableTargets(items, in) = {} THEN {}
             ELSE {Panel(key, TableWidth, TableTargets(items, in), links)}
BY DEF OperationTable, TableTargets
-----------------------------------------------------------------------------
(* Rows of panels *)

PanelOK(p, in) == p.targets # {} /\ TargetsOK(p.targets, in)

\* A builder exceeds a limit, or makes one row and reports what it lacks.
OneRow(built, panels, reported) ==
  \/ built.error = "PANEL_LIMIT_EXCEEDED"
  \/ /\ built.error = "none" /\ built.diagnostics = reported
     /\ \E row : built.rows = <<row>> /\ row.panels = panels

\* An item is on a panel of its category, and so is its span or a report of it.
Dropped(reported, i) ==
  \E d \in reported : d.code = "SENSITIVE_VALUE_DROPPED" /\ d.target \in {i.target.id, NoId}

Metered(panels, i) ==
  \E p \in panels : /\ p.key[1] = i.category
                    /\ \E q \in p.targets : q.plans \cap {m.id : m \in i.metrics} # {}

Linked(panels, i, x) ==
  \E p \in panels : p.key[1] = i.category /\ \E l \in p.links : l.span = x.name

Shows(panels, reported, i, in) ==
  /\ Metered(panels, i)
  /\ in.policy.links /\ i.category # Overview =>
       \A x \in i.spans : Linked(panels, i, x) \/ Dropped(reported, i)

Missed(reported) == \E d \in reported : d.code = "MISSING_REQUIRED_METRIC"

\* The fields of a panel.
LEMMA PanelParts ==
  ASSUME NEW key, NEW width, NEW targets, NEW links
  PROVE  /\ Panel(key, width, targets, links).key = key
         /\ Panel(key, width, targets, links).targets = targets
         /\ Panel(key, width, targets, links).links = links
BY DEF Panel

\* The ends of a key.
LEMMA KeyParts ==
  ASSUME NEW a, NEW b, NEW c, NEW d
  PROVE  <<a, b, c, d>>[1] = a /\ <<a, b, c, d>>[4] = d
OBVIOUS

\* A builder that succeeds makes one row.
LEMMA BuiltRow ==
  ASSUME NEW category, NEW purpose, NEW panels, NEW reported
  PROVE  OneRow(Built(<<Row(category, purpose, panels)>>, reported), panels, reported)
<1>1. Row(category, purpose, panels).panels = panels
  BY DEF Row
<1> QED BY <1>1 DEF OneRow, Built

\* A builder that refuses does so at a limit.
LEMMA RefusedRow ==
  ASSUME NEW panels, NEW reported PROVE OneRow(Refused("PANEL_LIMIT_EXCEEDED"), panels, reported)
BY DEF OneRow, Refused
-----------------------------------------------------------------------------
(* The overview *)

OverviewPanel(p, items, in) ==
  Panel(<<Overview, "overview", NoId, p>>, IF p = "top_failing" THEN TableWidth ELSE StatWidth,
        FamilyTargets(Families(items), p, Overview, Safe(in)), {})

OverviewAll(items, in) ==
  IF items = {} THEN {} ELSE {OverviewPanel(p, items, in) : p \in OverviewPurposes}

OverviewShown(items, in) == {x \in OverviewAll(items, in) : x.targets # {}}

OverviewReported(items, in) ==
  LET panels == OverviewShown(items, in)
  IN  ServiceDropped(in.service) \cup OverviewDiagnostics(items)
        \cup {MissingPanel(Overview, p.key[4]) : p \in OverviewAll(items, in) \ panels}
        \cup (IF panels = {} THEN {Empty(Overview, "panels")} ELSE {})

\* The overview passes its validation.
LEMMA OverviewBuilt ==
  ASSUME NEW in \in Inputs, NEW items, GoodItems(items, in)
  PROVE  OneRow(BuildOverview(items, in.service), OverviewShown(items, in),
                OverviewReported(items, in))
<1>1. \A p \in OverviewPurposes : Validated(Families(items), p, Overview, Safe(in))
  BY FamilyTargetsOK
<1>2. OverviewAll(items, in) = IF items = {} THEN {} ELSE OverviewPanels(items, Safe(in))
  BY DEF OverviewAll, OverviewPanels, OverviewPanel
<1> DEFINE built == Built(<<Row(Overview, "panels", OverviewShown(items, in))>>,
                          OverviewReported(items, in))
<1>3. BuildOverview(items, in.service) \in {built, Refused("PANEL_LIMIT_EXCEEDED")}
  BY <1>1, <1>2 DEF BuildOverview, OverviewShown, OverviewReported, Safe
<1>4. OneRow(built, OverviewShown(items, in), OverviewReported(items, in))
  BY BuiltRow
<1> HIDE DEF built
<1> QED BY <1>3, <1>4, RefusedRow

\* Its panels are good.
LEMMA OverviewPanelFacts ==
  ASSUME NEW in \in Inputs, NEW items, GoodItems(items, in), NEW x \in OverviewShown(items, in)
  PROVE  PanelOK(x, in) /\ x.key[1] = Overview /\ x.key[4] \in OverviewPurposes
<1>1. PICK p \in OverviewPurposes : x = OverviewPanel(p, items, in)
  BY DEF OverviewShown, OverviewAll
<1>2. /\ x.key = <<Overview, "overview", NoId, p>>
      /\ x.targets = FamilyTargets(Families(items), p, Overview, Safe(in))
  BY <1>1, PanelParts DEF OverviewPanel
<1>3. x.targets # {}
  BY DEF OverviewShown
<1>4. x.key[1] = Overview /\ x.key[4] = p
  BY <1>2
<1> QED BY <1>2, <1>3, <1>4, FamilyTargetsOK DEF PanelOK

\* Every item with metrics is in the overview.
LEMMA OverviewMeters ==
  ASSUME NEW in \in Inputs, NEW items, GoodItems(items, in), NEW i \in items, i.metrics # {}
  PROVE  \E x \in OverviewShown(items, in) :
           x.key[1] = Overview /\ \E q \in x.targets : q.plans \cap {m.id : m \in i.metrics} # {}
<1> DEFINE x == OverviewPanel("rate", items, in)
<1>1. /\ x.key = <<Overview, "overview", NoId, "rate">>
      /\ x.targets = FamilyTargets(Families(items), "rate", Overview, Safe(in))
  BY PanelParts DEF OverviewPanel
<1>2. "rate" \in OverviewPurposes
  BY DEF OverviewPurposes
<1>3. x \in OverviewAll(items, in)
  BY <1>2 DEF OverviewAll
<1> HIDE DEF x
<1>4. PICK q \in x.targets : q.plans \cap {m.id : m \in i.metrics} # {}
  BY <1>1, RateCovers
<1>5. x \in OverviewShown(items, in)
  BY <1>3, <1>4 DEF OverviewShown
<1>6. x.key[1] = Overview
  BY <1>1
<1> QED BY <1>4, <1>5, <1>6

\* An overview nothing is reported missing of has all its panels.
LEMMA OverviewComplete ==
  ASSUME NEW in \in Inputs, NEW items, items # {}, ~Missed(OverviewReported(items, in)),
         NEW p \in OverviewPurposes
  PROVE  \E x \in OverviewShown(items, in) : x.key[1] = Overview /\ x.key[4] = p
<1> DEFINE x == OverviewPanel(p, items, in)
<1>1. x.key = <<Overview, "overview", NoId, p>>
  BY PanelParts DEF OverviewPanel
<1>2. x \in OverviewAll(items, in)
  BY DEF OverviewAll
<1> HIDE DEF x
<1>3. x.key[1] = Overview /\ x.key[4] = p
  BY <1>1
<1>4. x \in OverviewShown(items, in)
  <2> SUFFICES ASSUME x \notin OverviewShown(items, in) PROVE FALSE
    OBVIOUS
  <2>1. MissingPanel(Overview, x.key[4]) \in OverviewReported(items, in)
    BY <1>2 DEF OverviewReported
  <2>2. MissingPanel(Overview, x.key[4]).code = "MISSING_REQUIRED_METRIC"
    BY DEF MissingPanel, Diagnostic
  <2> QED BY <2>1, <2>2 DEF Missed
<1> QED BY <1>3, <1>4
-----------------------------------------------------------------------------
(* Endpoints *)

Handlers(items, category) == {i \in items : i.category = category /\ i.target.kind = "endpoint"}

ItemPanel(i, q, in) ==
  Panel(<<i.category, "item", i.target.id, q.purpose>>, StatWidth, {q},
        {l \in ItemQueriesIn(i, in).links : ValidateTraceLink(l, i)})

PanelsOf(i, in) == {ItemPanel(i, q, in) : q \in ItemQueriesIn(i, in).queries}

HandlerTable(items, category, in) ==
  OperationTable(Handlers(items, category), <<category, "operations", NoId, "operations">>, {},
                 Safe(in))

EndpointShown(items, category, in) ==
  (UNION {PanelsOf(i, in) : i \in Handlers(items, category)})
    \cup HandlerTable(items, category, in).panels

EndpointReported(items, category, in) ==
  ServiceDropped(in.service)
    \cup (UNION {ItemQueriesIn(i, in).diagnostics : i \in Handlers(items, category)})
    \cup HandlerTable(items, category, in).diagnostics
    \cup (IF EndpointShown(items, category, in) = {} THEN {Empty(category, "panels")} ELSE {})

\* The queries of an item pass the validator and reach their series.
LEMMA ItemQueryValid ==
  ASSUME NEW in \in Inputs, NEW i, GoodItem(i, in), NEW q \in ItemQueriesIn(i, in).queries
  PROVE  ValidatePlan(q, i, Safe(in)) /\ TargetOK(q, in) /\ "metrics" \in in.gen.signals
<1>1. PICK m \in i.metrics : QueryFits(q, m, Safe(in), i.operation) /\ q.plans = {m.id}
  BY ItemQueryFacts DEF ItemQuery
<1>2. \A n \in i.metrics : GoodMetric(n, in)
  BY DEF GoodItem, GoodMetrics
<1>3. ValidExpression(q, i.metrics, Safe(in), i.operation)
  BY <1>1, <1>2, ExpressionFits
<1>4. ValidatePlan(q, i, Safe(in))
  BY <1>1, <1>3 DEF ValidatePlan
<1>5. m.name[1][2] = i.operation \/ m.name \in IncompleteNamesIn(in)
  BY DEF GoodItem, GoodMetrics
<1>6. QueryFits(q, m, ControlledService(in.service), i.operation)
  BY <1>1 DEF Safe
<1>7. TargetOK(q, in)
  BY <1>2, <1>5, <1>6, FitReaches
<1> QED BY <1>4, <1>7 DEF GoodItem, GoodMetrics

\* The row of the endpoints passes its validation.
LEMMA EndpointBuilt ==
  ASSUME NEW in \in Inputs, NEW items, GoodItems(items, in), NEW category
  PROVE  OneRow(EndpointRow(items, category, in.service, in.policy),
                EndpointShown(items, category, in), EndpointReported(items, category, in))
<1>1. ~\E i \in Handlers(items, category) :
         \E q \in ItemQueries(i, in.service, in.policy).queries : ~ValidatePlan(q, i, Safe(in))
  BY ItemQueryValid DEF Handlers, GoodItems, ItemQueriesIn
<1>2. \A i : ItemPanels(i, in.service, in.policy) = PanelsOf(i, in)
  BY DEF ItemPanels, PanelsOf, ItemPanel, ItemQueriesIn
<1> DEFINE built == Built(<<Row(category, "panels", EndpointShown(items, category, in))>>,
                          EndpointReported(items, category, in))
           handlers == Handlers(items, category)
           table == HandlerTable(items, category, in)
           panels == (UNION {ItemPanels(i, in.service, in.policy) : i \in handlers}) \cup table.panels
<1>3. panels = EndpointShown(items, category, in)
  BY <1>2 DEF EndpointShown
<1>4. EndpointRow(items, category, in.service, in.policy) =
        IF \E i \in handlers :
             \E q \in ItemQueries(i, in.service, in.policy).queries : ~ValidatePlan(q, i, Safe(in))
          THEN Refused("RENDER_ERROR")
        ELSE IF table.refused \/ ~WithinRowLimits(panels) THEN Refused("PANEL_LIMIT_EXCEEDED")
        ELSE Built(<<Row(category, "panels", panels)>>,
                   ServiceDropped(in.service)
                     \cup (UNION {ItemQueries(i, in.service, in.policy).diagnostics : i \in handlers})
                     \cup table.diagnostics
                     \cup (IF panels = {} THEN {Empty(category, "panels")} ELSE {}))
  BY DEF EndpointRow, Handlers, HandlerTable, Safe
<1>5. EndpointRow(items, category, in.service, in.policy) \in {built, Refused("PANEL_LIMIT_EXCEEDED")}
  <2> HIDE DEF panels, table, handlers
  <2> QED BY <1>1, <1>3, <1>4 DEF EndpointReported, ItemQueriesIn, handlers, table
<1>6. OneRow(built, EndpointShown(items, category, in), EndpointReported(items, category, in))
  BY BuiltRow
<1> HIDE DEF built
<1> QED BY <1>5, <1>6, RefusedRow

\* Its panels are good.
LEMMA EndpointPanelFacts ==
  ASSUME NEW in \in Inputs, NEW items, GoodItems(items, in), NEW category,
         NEW x \in EndpointShown(items, category, in)
  PROVE  PanelOK(x, in) /\ x.key[1] = category
<1>1. CASE \E i \in Handlers(items, category) : x \in PanelsOf(i, in)
  <2>1. PICK i \in Handlers(items, category) : x \in PanelsOf(i, in)
    BY <1>1
  <2>2. PICK q \in ItemQueriesIn(i, in).queries : x = ItemPanel(i, q, in)
    BY <2>1 DEF PanelsOf
  <2>3. x.key = <<i.category, "item", i.target.id, q.purpose>> /\ x.targets = {q}
    BY <2>2, PanelParts DEF ItemPanel
  <2>4. GoodItem(i, in) /\ i.category = category
    BY DEF Handlers, GoodItems
  <2>5. TargetsOK(x.targets, in)
    BY <2>3, <2>4, ItemQueryValid DEF TargetsOK
  <2> QED BY <2>3, <2>4, <2>5 DEF PanelOK
<1>2. CASE x \in HandlerTable(items, category, in).panels
  <2> DEFINE key == <<category, "operations", NoId, "operations">>
             targets == TableTargets(Handlers(items, category), in)
  <2>1. x \in (IF targets = {} THEN {} ELSE {Panel(key, TableWidth, targets, {})})
    BY <1>2, TableParts DEF HandlerTable
  <2>2. targets # {} /\ x.targets = targets /\ x.key = key
    <3> HIDE DEF key, targets
    <3> QED BY <2>1, PanelParts
  <2>3. GoodItems(Handlers(items, category), in)
    BY DEF GoodItems, Handlers
  <2> QED BY <2>2, <2>3, TableOK DEF PanelOK
<1> QED BY <1>1, <1>2 DEF EndpointShown
-----------------------------------------------------------------------------
\* Nothing strict mode would refuse is reported.
Clean(reported) == \A d \in reported : d.code \notin StrictCodes

Complete(panels, i, in) ==
  \A purpose \in ClassPurposes \cup {"in_flight"} :
    \E p \in panels : /\ p.key = <<i.category, "item", i.target.id, purpose>>
                      /\ in.policy.links => p.links # {}

\* What a dashboard does for an item: it shows its metrics and spans, and all
\* of an endpoint unless something is reported.
Serves(panels, reported, i, in) ==
  /\ i.metrics # {} => Shows(panels, reported, i, in)
  /\ Clean(reported) /\ i.target.kind = "endpoint" /\ i.category # Overview =>
       Complete(panels, i, in)

\* More panels and more reports serve no item less.
LEMMA ServesMore ==
  ASSUME NEW panels, NEW reported, NEW i, NEW in, Serves(panels, reported, i, in),
         NEW more, panels \subseteq more, NEW longer, reported \subseteq longer
  PROVE  Serves(more, longer, i, in)
<1>1. Clean(longer) => Clean(reported)
  BY DEF Clean
<1>2. Complete(panels, i, in) => Complete(more, i, in)
  BY DEF Complete
<1>3. Metered(panels, i) => Metered(more, i)
  BY DEF Metered
<1>4. \A x : Linked(panels, i, x) => Linked(more, i, x)
  BY DEF Linked
<1>5. Dropped(reported, i) => Dropped(longer, i)
  BY DEF Dropped
<1>6. Shows(panels, reported, i, in) => Shows(more, longer, i, in)
  BY <1>3, <1>4, <1>5 DEF Shows
<1> QED BY <1>1, <1>2, <1>6 DEF Serves
-----------------------------------------------------------------------------
(* What the row of the endpoints shows of each *)

LinksOf(i, in) == {l \in ItemQueriesIn(i, in).links : ValidateTraceLink(l, i)}

\* The span of an endpoint is linked, or reported as dropped.
LEMMA EndpointLinked ==
  ASSUME NEW in \in Inputs, NEW i, GoodItem(i, in), in.policy.links, NEW x \in i.spans
  PROVE  \/ \E l \in LinksOf(i, in) : l.span = x.name
         \/ Dropped(ItemQueriesIn(i, in).diagnostics, i)
<1> DEFINE reported == ItemQueriesIn(i, in).diagnostics
           link == [service |-> Safe(in), operation |-> i.operation, span |-> x.name]
<1>1. ServiceDropped(in.service) \subseteq reported /\ TraceLinkDropped(i, in.policy) \subseteq reported
  BY ItemQueryParts
<1>2. ItemQueriesIn(i, in).links = TraceLink(i, Safe(in), in.policy)
  BY ItemQueryParts
<1> HIDE DEF reported
<1>3. CASE ~Controlled(x.name)
  <2> DEFINE d == Diagnostic("SENSITIVE_VALUE_DROPPED", i.target.id, <<"span">>)
  <2>1. d \in reported
    BY <1>1, <1>3, LinkFacts
  <2>2. d.code = "SENSITIVE_VALUE_DROPPED" /\ d.target = i.target.id
    BY DEF Diagnostic
  <2> HIDE DEF d
  <2> QED BY <2>1, <2>2 DEF Dropped, reported
<1>4. CASE in.service \in Uncontrolled
  <2> DEFINE d == Diagnostic("SENSITIVE_VALUE_DROPPED", NoId, <<"service">>)
  <2>1. d \in reported
    BY <1>1, <1>4 DEF ServiceDropped
  <2>2. d.code = "SENSITIVE_VALUE_DROPPED" /\ d.target = NoId
    BY DEF Diagnostic
  <2> HIDE DEF d
  <2> QED BY <2>1, <2>2 DEF Dropped, reported
<1>5. CASE Controlled(x.name) /\ in.service \notin Uncontrolled
  <2>1. ItemQueriesIn(i, in).links = {link}
    BY <1>2, <1>5, LinkFacts
  <2>2. Safe(in) \notin Uncontrolled \cup {Missing}
    BY <1>5, InputFacts DEF Safe, ControlledService
  <2>3. ValidateTraceLink(link, i)
    BY <2>2 DEF ValidateTraceLink, GoodItem
  <2>4. link.span = x.name
    OBVIOUS
  <2> HIDE DEF link
  <2> QED BY <2>1, <2>3, <2>4 DEF LinksOf
<1> QED BY <1>3, <1>4, <1>5

\* The panel of a query of an endpoint.
LEMMA ItemPanelParts ==
  ASSUME NEW i, NEW q, NEW in
  PROVE  /\ ItemPanel(i, q, in).key = <<i.category, "item", i.target.id, q.purpose>>
         /\ ItemPanel(i, q, in).key[1] = i.category
         /\ ItemPanel(i, q, in).targets = {q}
         /\ ItemPanel(i, q, in).links = LinksOf(i, in)
<1>1. ItemPanel(i, q, in).key = <<i.category, "item", i.target.id, q.purpose>>
  BY PanelParts DEF ItemPanel
<1> QED BY <1>1, PanelParts DEF ItemPanel, LinksOf

\* The row of the endpoints serves every one of them.
LEMMA EndpointServes ==
  ASSUME NEW in \in Inputs, NEW items, GoodItems(items, in), NEW category,
         NEW i \in Handlers(items, category)
  PROVE  Serves(EndpointShown(items, category, in), EndpointReported(items, category, in), i, in)
<1> DEFINE panels == EndpointShown(items, category, in)
           reported == EndpointReported(items, category, in)
           mine == ItemQueriesIn(i, in).diagnostics
<1>1. GoodItem(i, in)
  BY DEF Handlers, GoodItems
<1>2. mine \subseteq reported
  BY DEF EndpointReported
<1>3. \A q \in ItemQueriesIn(i, in).queries : ItemPanel(i, q, in) \in panels
  BY DEF EndpointShown, PanelsOf
<1> HIDE DEF panels, reported, mine
<1>4. Dropped(mine, i) => Dropped(reported, i)
  BY <1>2 DEF Dropped
<1>5. ASSUME i.metrics # {} PROVE Shows(panels, reported, i, in)
  <2>1. PICK q \in ItemQueriesIn(i, in).queries : q.plans \cap {m.id : m \in i.metrics} # {}
    BY <1>1, <1>5, RateExists
  <2> DEFINE p == ItemPanel(i, q, in)
  <2>2. /\ p \in panels /\ p.key[1] = i.category /\ q \in p.targets
        /\ p.links = LinksOf(i, in)
    BY <1>3, ItemPanelParts
  <2> HIDE DEF p
  <2>3. Metered(panels, i)
    BY <2>1, <2>2 DEF Metered
  <2>4. ASSUME in.policy.links, NEW x \in i.spans
        PROVE  Linked(panels, i, x) \/ Dropped(reported, i)
    BY <2>4, <2>2, <1>1, <1>4, EndpointLinked DEF Linked, mine
  <2> QED BY <2>3, <2>4 DEF Shows
<1>6. ASSUME Clean(reported) PROVE Complete(panels, i, in)
  <2>1. \A d \in mine : d.code \notin StrictCodes
    BY <1>2, <1>6 DEF Clean
  <2>2. \A d \in mine : d.code # "MISSING_REQUIRED_METRIC" /\ d.code # "SENSITIVE_VALUE_DROPPED"
    BY <2>1 DEF StrictCodes
  <2>3. ASSUME in.policy.links PROVE LinksOf(i, in) # {}
    <3>1. i.spans # {}
      <4> SUFFICES ASSUME i.spans = {} PROVE FALSE
        OBVIOUS
      <4> DEFINE d == Diagnostic("MISSING_REQUIRED_METRIC", i.target.id, <<"trace_link">>)
      <4>1. d \in mine
        BY <2>3, ItemQueryParts DEF TraceLinkDropped, mine
      <4>2. d.code = "MISSING_REQUIRED_METRIC"
        BY DEF Diagnostic
      <4> HIDE DEF d
      <4> QED BY <4>1, <4>2, <2>2
    <3>2. ~Dropped(mine, i)
      BY <2>2 DEF Dropped
    <3> QED BY <3>1, <3>2, <2>3, <1>1, EndpointLinked DEF mine
  <2>4. ASSUME NEW purpose \in ClassPurposes \cup {"in_flight"}
        PROVE  \E p \in panels : /\ p.key = <<i.category, "item", i.target.id, purpose>>
                                 /\ in.policy.links => p.links # {}
    <3>1. PICK q \in ItemQueriesIn(i, in).queries : q.purpose = purpose
      BY <2>2, AllPurposes DEF mine
    <3> DEFINE p == ItemPanel(i, q, in)
    <3>2. /\ p \in panels /\ p.key = <<i.category, "item", i.target.id, q.purpose>>
          /\ p.links = LinksOf(i, in)
      BY <1>3, ItemPanelParts
    <3> HIDE DEF p
    <3> QED BY <3>1, <3>2, <2>3
  <2> QED BY <2>4 DEF Complete
<1> QED BY <1>5, <1>6 DEF Serves, panels, reported
-----------------------------------------------------------------------------
(* What a builder answers *)

PanelsOn(list) == UNION {r.panels : r \in Range(list)}

PanelSound(p, items, in) ==
  /\ PanelOK(p, in) /\ items # {}
  /\ p.key[1] = Overview => p.key[4] \in OverviewPurposes

\* A limit is exceeded, or all panels are sound and serve the items in mine.
Answers(built, items, mine, in) ==
  \/ built.error = "PANEL_LIMIT_EXCEEDED"
  \/ /\ built.error = "none" /\ IsList(built.rows)
     /\ \A p \in PanelsOn(built.rows) : PanelSound(p, items, in)
     /\ \A i \in mine : Serves(PanelsOn(built.rows), built.diagnostics, i, in)

\* A builder of one row answers if its panels do.
LEMMA OneRowAnswers ==
  ASSUME NEW built, NEW panels, NEW reported, OneRow(built, panels, reported),
         NEW items, NEW mine, NEW in,
         \A p \in panels : PanelSound(p, items, in),
         \A i \in mine : Serves(panels, reported, i, in)
  PROVE  Answers(built, items, mine, in)
<1>1. CASE built.error = "PANEL_LIMIT_EXCEEDED"
  BY <1>1 DEF Answers
<1>2. CASE built.error # "PANEL_LIMIT_EXCEEDED"
  <2>1. built.error = "none" /\ built.diagnostics = reported
    BY <1>2 DEF OneRow
  <2>2. PICK row : built.rows = <<row>> /\ row.panels = panels
    BY <1>2 DEF OneRow
  <2>3. IsList(built.rows) /\ Range(built.rows) = {row}
    BY <2>2, ListOfOne DEF Range
  <2>4. PanelsOn(built.rows) = panels
    BY <2>2, <2>3 DEF PanelsOn
  <2> QED BY <2>1, <2>3, <2>4 DEF Answers
<1> QED BY <1>1, <1>2

\* An operations table needs items.
LEMMA NoFamilies ==
  ASSUME NEW in \in Inputs, NEW items, GoodItems(items, in), TableTargets(items, in) # {}
  PROVE  items # {}
<1>1. PICK f \in Families(items) : TRUE
  BY DEF TableTargets, CounterFamilies
<1>2. FamilyOK(f, items, in)
  BY FamilyFacts
<1> QED BY <1>2 DEF FamilyOK

\* The builder of the endpoints answers for them.
LEMMA EndpointAnswers ==
  ASSUME NEW in \in Inputs, NEW items, GoodItems(items, in), NEW category, category # Overview
  PROVE  Answers(EndpointRow(items, category, in.service, in.policy), items,
                 Handlers(items, category), in)
<1>1. OneRow(EndpointRow(items, category, in.service, in.policy),
             EndpointShown(items, category, in), EndpointReported(items, category, in))
  BY EndpointBuilt
<1>2. ASSUME NEW p \in EndpointShown(items, category, in) PROVE PanelSound(p, items, in)
  <2>1. PanelOK(p, in) /\ p.key[1] = category
    BY EndpointPanelFacts
  <2>2. items # {}
    <3>1. CASE Handlers(items, category) # {}
      BY <3>1 DEF Handlers
    <3>2. CASE HandlerTable(items, category, in).panels # {}
      <4>1. TableTargets(Handlers(items, category), in) # {}
        BY <3>2, TableParts DEF HandlerTable
      <4>2. GoodItems(Handlers(items, category), in)
        BY DEF GoodItems, Handlers
      <4> QED BY <4>1, <4>2, NoFamilies DEF Handlers
    <3> QED BY <3>1, <3>2 DEF EndpointShown
  <2> QED BY <2>1, <2>2 DEF PanelSound
<1> QED BY <1>1, <1>2, EndpointServes, OneRowAnswers

\* The builder of the overview answers for what is on no other row.
LEMMA OverviewAnswers ==
  ASSUME NEW in \in Inputs, NEW items, GoodItems(items, in)
  PROVE  Answers(BuildOverview(items, in.service), items,
                 {i \in items : i.category = Overview}, in)
<1>1. OneRow(BuildOverview(items, in.service), OverviewShown(items, in), OverviewReported(items, in))
  BY OverviewBuilt
<1>2. ASSUME NEW p \in OverviewShown(items, in) PROVE PanelSound(p, items, in)
  <2>1. PanelOK(p, in) /\ p.key[1] = Overview /\ p.key[4] \in OverviewPurposes
    BY OverviewPanelFacts
  <2>2. items # {}
    BY DEF OverviewShown, OverviewAll
  <2> QED BY <2>1, <2>2 DEF PanelSound
<1>3. ASSUME NEW i \in items, i.category = Overview
      PROVE  Serves(OverviewShown(items, in), OverviewReported(items, in), i, in)
  BY <1>3, OverviewMeters DEF Serves, Shows, Metered
<1> QED BY <1>1, <1>2, <1>3, OneRowAnswers
-----------------------------------------------------------------------------
(* Dependencies of one class *)

ClassPart(items, c, in) == ClassPanels(ClassItems(items, c), c, Safe(in), in.policy)

ClassStat(items, c, p, in) ==
  Panel(<<c.category, c.slot, NoId, p>>, StatWidth,
        FamilyTargets(Families(ClassItems(items, c)), p, c.scope, Safe(in)),
        ClassLinks(ClassItems(items, c), Safe(in), in.policy))

ClassTable(items, c, in) ==
  OperationTable(ClassItems(items, c), <<c.category, c.slot, NoId, "operations">>,
                 ClassLinks(ClassItems(items, c), Safe(in), in.policy), Safe(in))

ClassShown(items, c, in) ==
  {s \in {ClassStat(items, c, p, in) : p \in ClassPurposes} : s.targets # {}}
    \cup ClassTable(items, c, in).panels

\* What ClassPanels returns: no query is refused.
LEMMA ClassParts ==
  ASSUME NEW in \in Inputs, NEW items, GoodItems(items, in), NEW c
  PROVE  /\ ClassPart(items, c, in).error \in {"none", "PANEL_LIMIT_EXCEEDED"}
         /\ ClassPart(items, c, in).panels = ClassShown(items, c, in)
         /\ LinksDropped(ClassItems(items, c), in.policy) \subseteq ClassPart(items, c, in).diagnostics
<1>1. GoodItems(ClassItems(items, c), in)
  BY DEF GoodItems, ClassItems
<1>2. \A p \in ClassPurposes : Validated(Families(ClassItems(items, c)), p, c.scope, Safe(in))
  BY <1>1, FamilyTargetsOK
<1> DEFINE mine == ClassItems(items, c)
<1>3. ClassPart(items, c, in).error =
        IF \E p \in ClassPurposes : ~Validated(Families(mine), p, c.scope, Safe(in)) THEN "RENDER_ERROR"
        ELSE IF ClassTable(items, c, in).refused THEN "PANEL_LIMIT_EXCEEDED" ELSE "none"
  BY DEF ClassPart, ClassPanels, ClassTable
<1>4. ClassPart(items, c, in).error \in {"none", "PANEL_LIMIT_EXCEEDED"}
  BY <1>2, <1>3
<1>5. ClassPart(items, c, in).panels = ClassShown(items, c, in)
  BY DEF ClassPart, ClassPanels, ClassTable, ClassShown, ClassStat
<1>6. LinksDropped(mine, in.policy) \subseteq ClassPart(items, c, in).diagnostics
  BY DEF ClassPart, ClassPanels
<1> QED BY <1>4, <1>5, <1>6

\* Its panels are sound.
LEMMA ClassPanelFacts ==
  ASSUME NEW in \in Inputs, NEW items, GoodItems(items, in), NEW c, c.category # Overview,
         NEW x \in ClassShown(items, c, in)
  PROVE  PanelSound(x, items, in)
<1> DEFINE mine == ClassItems(items, c)
           links == ClassLinks(mine, Safe(in), in.policy)
<1>1. GoodItems(mine, in)
  BY DEF GoodItems, ClassItems
<1>2. CASE \E p \in ClassPurposes : x = ClassStat(items, c, p, in) /\ x.targets # {}
  <2>1. PICK p \in ClassPurposes : x = ClassStat(items, c, p, in) /\ x.targets # {}
    BY <1>2
  <2>2. /\ x.key = <<c.category, c.slot, NoId, p>>
        /\ x.targets = FamilyTargets(Families(mine), p, c.scope, Safe(in))
    BY <2>1, PanelParts DEF ClassStat
  <2>3. TargetsOK(x.targets, in)
    BY <2>2, <1>1, FamilyTargetsOK
  <2>4. PICK f \in Families(mine) : TRUE
    BY <2>1, <2>2 DEF FamilyTargets
  <2>5. FamilyOK(f, mine, in)
    BY <1>1, <2>4, FamilyFacts
  <2>6. items # {}
    BY <2>5 DEF FamilyOK, ClassItems
  <2>7. x.key[1] = c.category
    BY <2>2
  <2> QED BY <2>1, <2>3, <2>6, <2>7 DEF PanelSound, PanelOK
<1>3. CASE x \in ClassTable(items, c, in).panels
  <2> DEFINE key == <<c.category, c.slot, NoId, "operations">>
             targets == TableTargets(mine, in)
  <2>1. x \in (IF targets = {} THEN {} ELSE {Panel(key, TableWidth, targets, links)})
    BY <1>3, TableParts DEF ClassTable
  <2>2. targets # {} /\ x.targets = targets /\ x.key = key
    <3> HIDE DEF key, targets, links
    <3> QED BY <2>1, PanelParts
  <2>3. TargetsOK(targets, in)
    BY <1>1, TableOK
  <2>4. items # {}
    BY <1>1, <2>2, NoFamilies DEF ClassItems
  <2>5. x.key[1] = c.category
    BY <2>2
  <2> QED BY <2>2, <2>3, <2>4, <2>5 DEF PanelSound, PanelOK
<1> QED BY <1>2, <1>3 DEF ClassShown

\* The panels of a class serve its calls.
LEMMA ClassServes ==
  ASSUME NEW in \in Inputs, NEW items, GoodItems(items, in), NEW c,
         NEW i \in ClassItems(items, c), i.category = c.category
  PROVE  Serves(ClassPart(items, c, in).panels, ClassPart(items, c, in).diagnostics, i, in)
<1> DEFINE mine == ClassItems(items, c)
           links == ClassLinks(mine, Safe(in), in.policy)
           panels == ClassPart(items, c, in).panels
           reported == ClassPart(items, c, in).diagnostics
           rate == ClassStat(items, c, "rate", in)
<1>1. GoodItems(mine, in) /\ GoodItem(i, in) /\ i.target.kind = "dependency"
  BY DEF GoodItems, ClassItems
<1>2. /\ rate.key = <<c.category, c.slot, NoId, "rate">> /\ rate.links = links
      /\ rate.targets = FamilyTargets(Families(mine), "rate", c.scope, Safe(in))
  BY PanelParts DEF ClassStat
<1>3. panels = ClassShown(items, c, in) /\ LinksDropped(mine, in.policy) \subseteq reported
  BY ClassParts
<1>4. rate \in {ClassStat(items, c, p, in) : p \in ClassPurposes}
  BY DEF ClassPurposes
<1> HIDE DEF rate, panels, reported
<1>5. ASSUME NEW x \in i.spans, in.policy.links
      PROVE  (\E l \in links : l.span = x.name) \/ Dropped(reported, i)
  <2> DEFINE link == [service |-> Safe(in), operation |-> i.operation, span |-> x.name]
             d == Diagnostic("SENSITIVE_VALUE_DROPPED", i.target.id, <<"span">>)
  <2>1. link.operation = i.operation /\ link.span = x.name
    OBVIOUS
  <2>2. d.code = "SENSITIVE_VALUE_DROPPED" /\ d.target = i.target.id
    BY DEF Diagnostic
  <2>3. CASE Controlled(x.name)
    <3>1. TraceLink(i, Safe(in), in.policy) = {link}
      BY <1>1, <1>5, <2>3, LinkFacts
    <3> HIDE DEF link
    <3>2. link \in links
      BY <3>1, <2>1, <1>1 DEF ClassLinks, GoodItem
    <3> QED BY <3>2, <2>1
  <2>4. CASE ~Controlled(x.name)
    <3>1. TraceLinkDropped(i, in.policy) = {d}
      BY <1>1, <1>5, <2>4, LinkFacts
    <3> HIDE DEF d
    <3>2. d \in reported
      BY <3>1, <2>2, <1>3 DEF LinksDropped
    <3> QED BY <3>2, <2>2 DEF Dropped
  <2> QED BY <2>3, <2>4
<1>6. ASSUME i.metrics # {} PROVE Shows(panels, reported, i, in)
  <2>1. PICK q \in rate.targets : q.plans \cap {m.id : m \in i.metrics} # {}
    BY <1>1, <1>2, <1>6, RateCovers
  <2>2. rate \in panels
    BY <1>3, <1>4, <2>1 DEF ClassShown
  <2>3. rate.key[1] = i.category
    BY <1>2
  <2>4. Metered(panels, i)
    BY <2>1, <2>2, <2>3 DEF Metered
  <2>5. ASSUME in.policy.links, NEW x \in i.spans
        PROVE  Linked(panels, i, x) \/ Dropped(reported, i)
    BY <2>5, <1>2, <1>5, <2>2, <2>3 DEF Linked
  <2> QED BY <2>4, <2>5 DEF Shows
<1> QED BY <1>1, <1>6 DEF Serves, panels, reported
-----------------------------------------------------------------------------
(* The rows of dependencies *)

KafkaParts(items, in) ==
  {ClassPart(items, c, in) : c \in {x \in Range(KafkaClasses) : ClassItems(items, x) # {}}}

KafkaShown(items, in) == UNION {p.panels : p \in KafkaParts(items, in)}

KafkaReported(items, in) ==
  ServiceDropped(in.service) \cup (UNION {p.diagnostics : p \in KafkaParts(items, in)})
    \cup (IF KafkaShown(items, in) = {} THEN {Empty("kafka", "panels")} ELSE {})

\* The Kafka row passes its validation.
LEMMA KafkaBuilt ==
  ASSUME NEW in \in Inputs, NEW items, GoodItems(items, in)
  PROVE  OneRow(KafkaRow(items, in.service, in.policy), KafkaShown(items, in),
                KafkaReported(items, in))
<1> DEFINE errors == {p.error : p \in KafkaParts(items, in)} \ {"none"}
           built == Built(<<Row("kafka", "panels", KafkaShown(items, in))>>, KafkaReported(items, in))
<1>1. errors # {} => (CHOOSE e \in errors : TRUE) = "PANEL_LIMIT_EXCEEDED"
  <2>1. errors \subseteq {"PANEL_LIMIT_EXCEEDED"}
    BY ClassParts DEF KafkaParts
  <2> HIDE DEF errors
  <2> QED BY <2>1
<1>2. KafkaRow(items, in.service, in.policy) =
        IF errors # {} THEN Refused(CHOOSE e \in errors : TRUE)
        ELSE IF ~WithinRowLimits(KafkaShown(items, in)) THEN Refused("PANEL_LIMIT_EXCEEDED")
        ELSE built
  BY DEF KafkaRow, KafkaShown, KafkaReported, KafkaParts, ClassPart, Safe
<1>3. KafkaRow(items, in.service, in.policy) \in {built, Refused("PANEL_LIMIT_EXCEEDED")}
  <2> HIDE DEF errors, built
  <2> QED BY <1>1, <1>2
<1>4. OneRow(built, KafkaShown(items, in), KafkaReported(items, in))
  BY BuiltRow
<1> HIDE DEF built
<1> QED BY <1>3, <1>4, RefusedRow

\* Both Kafka kinds have a class.
LEMMA KafkaClassFacts ==
  /\ \A c \in Range(KafkaClasses) : c.category = "kafka"
  /\ \A kind \in {"kafka_producer", "kafka_consumer"} : \E c \in Range(KafkaClasses) : c.kind = kind
BY DEF KafkaClasses, Class, Range

\* The kinds of dependencies and their categories.
LEMMA CallKinds ==
  /\ DependencyKinds = {"kafka_producer", "kafka_consumer", "sql", "redis", "http_client", "rpc_client"}
  /\ DependencyCategory["sql"] = "database" /\ DependencyCategory["redis"] = "cache"
  /\ DependencyCategory["http_client"] = "http" /\ DependencyCategory["rpc_client"] = "rpc"
  /\ DependencyCategory["kafka_producer"] = "kafka" /\ DependencyCategory["kafka_consumer"] = "kafka"
BY DEF DependencyKinds, System, DependencyCategory

\* Calls of one category.
Calls(items, category) == {i \in items : i.target.kind = "dependency" /\ i.category = category}

\* The builder of the Kafka row answers for both kinds.
LEMMA KafkaAnswers ==
  ASSUME NEW in \in Inputs, NEW items, GoodItems(items, in)
  PROVE  Answers(KafkaRow(items, in.service, in.policy), items, Calls(items, "kafka"), in)
<1>1. ASSUME NEW p \in KafkaShown(items, in) PROVE PanelSound(p, items, in)
  <2>1. PICK c \in Range(KafkaClasses) : p \in ClassPart(items, c, in).panels
    BY DEF KafkaShown, KafkaParts
  <2>2. c.category # Overview
    BY KafkaClassFacts DEF Overview
  <2> QED BY <2>1, <2>2, ClassParts, ClassPanelFacts
<1>2. ASSUME NEW i \in Calls(items, "kafka")
      PROVE  Serves(KafkaShown(items, in), KafkaReported(items, in), i, in)
  <2>1. i.kind \in DependencyKinds /\ DependencyCategory[i.kind] = "kafka"
    BY DEF Calls, GoodItems, GoodItem
  <2>2. i.kind \in {"kafka_producer", "kafka_consumer"}
    BY <2>1, CallKinds
  <2>3. PICK c \in Range(KafkaClasses) : c.kind = i.kind
    BY <2>2, KafkaClassFacts
  <2>4. i \in ClassItems(items, c) /\ i.category = c.category
    BY <2>3, KafkaClassFacts DEF ClassItems, Calls
  <2> DEFINE part == ClassPart(items, c, in)
  <2>5. part \in KafkaParts(items, in)
    BY <2>4 DEF KafkaParts
  <2>6. Serves(part.panels, part.diagnostics, i, in)
    BY <2>4, ClassServes
  <2> HIDE DEF part
  <2>7. part.panels \subseteq KafkaShown(items, in) /\ part.diagnostics \subseteq KafkaReported(items, in)
    BY <2>5 DEF KafkaShown, KafkaReported
  <2> QED BY <2>6, <2>7, ServesMore
<1> QED BY <1>1, <1>2, KafkaBuilt, OneRowAnswers
-----------------------------------------------------------------------------
(* One class of the other dependencies *)

ClassReported(items, c, in) ==
  ServiceDropped(in.service) \cup ClassPart(items, c, in).diagnostics
    \cup (IF ClassPart(items, c, in).panels = {} THEN {Empty(c.category, c.purpose)} ELSE {})

\* The builder of a class of calls answers for that class.
LEMMA DependencyAnswers ==
  ASSUME NEW in \in Inputs, NEW items, GoodItems(items, in), NEW c, c.category # Overview
  PROVE  Answers(DependencyRow(items, c, in.service, in.policy), items,
                 {i \in ClassItems(items, c) : i.category = c.category}, in)
<1> DEFINE mine == ClassItems(items, c)
           part == ClassPart(items, c, in)
           none == ServiceDropped(in.service) \cup {Empty(c.category, c.purpose)}
           built == Built(<<Row(c.category, c.purpose, part.panels)>>, ClassReported(items, c, in))
<1>1. DependencyRow(items, c, in.service, in.policy) =
        IF mine = {} THEN Built(<<Row(c.category, c.purpose, {})>>, none)
        ELSE IF part.error # "none" THEN Refused(part.error)
        ELSE IF ~WithinRowLimits(part.panels) THEN Refused("PANEL_LIMIT_EXCEEDED")
        ELSE built
  BY DEF DependencyRow, ClassReported, ClassPart, Safe
<1>2. CASE mine = {}
  <2>1. OneRow(DependencyRow(items, c, in.service, in.policy), {}, none)
    BY <1>1, <1>2, BuiltRow
  <2>2. \A i \in {i \in mine : i.category = c.category} : Serves({}, none, i, in)
    BY <1>2
  <2> HIDE DEF none
  <2> QED BY <2>1, <2>2, OneRowAnswers
<1>3. CASE mine # {}
  <2>1. part.error \in {"none", "PANEL_LIMIT_EXCEEDED"} /\ part.panels = ClassShown(items, c, in)
    BY ClassParts
  <2>2. DependencyRow(items, c, in.service, in.policy) \in {built, Refused("PANEL_LIMIT_EXCEEDED")}
    <3> HIDE DEF mine, part, built
    <3> QED BY <1>1, <1>3, <2>1
  <2>3. OneRow(built, part.panels, ClassReported(items, c, in))
    BY BuiltRow
  <2>4. \A p \in part.panels : PanelSound(p, items, in)
    BY <2>1, ClassPanelFacts
  <2>5. ASSUME NEW i \in {x \in mine : x.category = c.category}
        PROVE  Serves(part.panels, ClassReported(items, c, in), i, in)
    <3>1. Serves(part.panels, part.diagnostics, i, in)
      BY ClassServes
    <3>2. part.diagnostics \subseteq ClassReported(items, c, in)
      BY DEF ClassReported
    <3> HIDE DEF part
    <3> QED BY <3>1, <3>2, ServesMore
  <2> HIDE DEF built, part, mine
  <2>6. OneRow(DependencyRow(items, c, in.service, in.policy), part.panels, ClassReported(items, c, in))
    BY <2>2, <2>3, RefusedRow
  <2> QED BY <2>4, <2>5, <2>6, OneRowAnswers DEF mine
<1> QED BY <1>2, <1>3
-----------------------------------------------------------------------------
(* Several builders one after the other *)

\* A set of numbers that is not empty has its minimum.
LEMMA MinIn == ASSUME NEW S, S \subseteq Nat, S # {} PROVE Min(S) \in S
<1> DEFINE T == {<<n, n>> : n \in S}
<1>1. T # {}
  OBVIOUS
<1>5. ASSUME NEW x \in T PROVE x[2] \in Nat
  <2>1. PICK n \in S : x = <<n, n>>
    OBVIOUS
  <2> QED BY <2>1
<1>2. PICK x \in T : \A y \in T : x[2] <= y[2]
  <2> HIDE DEF T
  <2> QED BY <1>1, <1>5, LeastExists
<1>3. \A n \in S : <<n, n>> \in T /\ <<n, n>>[2] = n
  OBVIOUS
<1>4. x[2] \in S /\ \A n \in S : x[2] <= n
  BY <1>2, <1>3
<1> QED BY <1>4 DEF Min

\* Builders one after the other answer for all their items.
LEMMA SequentiallyAnswers ==
  ASSUME NEW n \in Nat, NEW built, built = [k \in 1..n |-> built[k]],
         NEW items, NEW mine, NEW in, \A k \in 1..n : Answers(built[k], items, mine[k], in)
  PROVE  Answers(Sequentially(built), items, UNION {mine[k] : k \in 1..n}, in)
<1> DEFINE failed == {k \in DOMAIN built : built[k].error # "none"}
           lists == [k \in DOMAIN built |-> built[k].rows]
           flat == FlattenSeq(lists)
           reported == UNION {built[k].diagnostics : k \in DOMAIN built}
<1>1. DOMAIN built = 1..n
  OBVIOUS
<1>2. CASE failed # {}
  <2>1. Sequentially(built) = built[Min(failed)]
    BY <1>2 DEF Sequentially
  <2>2. Min(failed) \in failed
    <3>1. failed \subseteq Nat
      BY <1>1
    <3> HIDE DEF failed
    <3> QED BY <3>1, <1>2, MinIn
  <2>3. Answers(built[Min(failed)], items, mine[Min(failed)], in)
    BY <1>1, <2>2
  <2>4. built[Min(failed)].error = "PANEL_LIMIT_EXCEEDED"
    BY <2>2, <2>3 DEF Answers
  <2> QED BY <2>1, <2>4 DEF Answers
<1>3. CASE failed = {}
  <2> DEFINE S == UNION {Range(built[k].rows) : k \in 1..n}
             all == Built(flat, reported)
  <2>1. Sequentially(built) = all
    BY <1>3 DEF Sequentially
  <2>2. \A k \in 1..n : built[k].error = "none"
    BY <1>1, <1>3
  <2>3. ASSUME NEW k \in 1..n
        PROVE  /\ IsList(built[k].rows)
               /\ \A p \in PanelsOn(built[k].rows) : PanelSound(p, items, in)
               /\ \A i \in mine[k] : Serves(PanelsOn(built[k].rows), built[k].diagnostics, i, in)
    BY <2>2 DEF Answers
  <2>4. \A k \in 1..n : lists[k] = built[k].rows
    BY <1>1
  <2>5. \A k \in 1..n : lists[k] \in Seq(S)
    <3> SUFFICES ASSUME NEW k \in 1..n PROVE lists[k] \in Seq(S)
      OBVIOUS
    <3>1. IsList(lists[k])
      BY <2>3, <2>4
    <3>2. \A j \in DOMAIN lists[k] : lists[k][j] \in S
      BY <2>4 DEF Range
    <3> HIDE DEF S, lists
    <3> QED BY <3>1, <3>2, ListIn DEF IsList
  <2>6. lists = [k \in 1..n |-> lists[k]]
    BY <1>1
  <2> HIDE DEF lists, S
  <2>7. IsList(lists) /\ Len(lists) = n
    BY <2>6, ListFromFunction
  <2>8. lists \in Seq(Seq(S))
    <3>1. \A k \in DOMAIN lists : lists[k] \in Seq(S)
      BY <2>5, <2>6
    <3> QED BY <3>1, <2>7, ListIn DEF IsList
  <2>9. /\ flat \in Seq(S) /\ Covers(flat, lists, n)
        /\ \E place : IsPlacing(place, flat, lists, n)
    BY <2>7, <2>8, FlattenFacts
  <2> HIDE DEF flat
  <2>10. IsList(flat) /\ DOMAIN flat = 1..Len(flat)
    BY <2>9, ListOfSet
  <2>11. ASSUME NEW k \in 1..n PROVE PanelsOn(built[k].rows) \subseteq PanelsOn(flat)
    <3> SUFFICES ASSUME NEW p \in PanelsOn(built[k].rows) PROVE p \in PanelsOn(flat)
      OBVIOUS
    <3>1. PICK j \in DOMAIN lists[k] : p \in lists[k][j].panels
      BY <2>4 DEF PanelsOn, Range
    <3>2. PICK l \in 1..Len(flat) : flat[l] = lists[k][j]
      BY <2>9, <3>1 DEF Covers
    <3> QED BY <3>1, <3>2, <2>10 DEF PanelsOn, Range
  <2>12. ASSUME NEW p \in PanelsOn(flat) PROVE PanelSound(p, items, in)
    <3>1. PICK l \in 1..Len(flat) : p \in flat[l].panels
      BY <2>10 DEF PanelsOn, Range
    <3>2. PICK place : IsPlacing(place, flat, lists, n)
      BY <2>9
    <3>3. PICK k \in 1..n : \E j \in DOMAIN lists[k] : flat[l] = lists[k][j]
      BY <3>2 DEF IsPlacing
    <3>4. p \in PanelsOn(built[k].rows)
      BY <3>1, <3>3, <2>4 DEF PanelsOn, Range
    <3> QED BY <3>4, <2>3
  <2>13. ASSUME NEW k \in 1..n, NEW i \in mine[k]
         PROVE  Serves(PanelsOn(flat), reported, i, in)
    <3>1. Serves(PanelsOn(built[k].rows), built[k].diagnostics, i, in)
      BY <2>3
    <3>2. built[k].diagnostics \subseteq reported
      BY <1>1
    <3> HIDE DEF reported
    <3> QED BY <3>1, <3>2, <2>11, ServesMore
  <2>14. \A i \in UNION {mine[k] : k \in 1..n} : Serves(PanelsOn(flat), reported, i, in)
    BY <2>13
  <2>15. all.rows = flat /\ all.diagnostics = reported /\ all.error = "none"
    BY DEF Built
  <2> HIDE DEF all, reported
  <2> QED BY <2>1, <2>10, <2>12, <2>14, <2>15 DEF Answers
<1> QED BY <1>2, <1>3
-----------------------------------------------------------------------------
(* All other dependencies *)

OtherCalls(items) ==
  {i \in items : i.target.kind = "dependency"
                   /\ i.kind \in {"sql", "redis", "http_client", "rpc_client"}}

\* Every class that is asked for has its place.
LEMMA ClassesIncluded ==
  ASSUME NEW policy
  PROVE  /\ IncludedClasses(policy) \in Seq(Range(DependencyClasses))
         /\ \A kind \in {"sql", "redis", "http_client", "rpc_client"} :
              (kind \in ClientKinds => policy.clients) =>
                \E k \in DOMAIN IncludedClasses(policy) :
                  IncludedClasses(policy)[k].kind = kind
                    /\ IncludedClasses(policy)[k].category = DependencyCategory[kind]
         /\ \A c \in Range(DependencyClasses) : c.category # Overview
<1> DEFINE places == {n \in DOMAIN DependencyClasses :
                        DependencyClasses[n].kind \in ClientKinds => policy.clients}
           classes == DependencyClasses
<1>1. /\ classes \in Seq(Range(classes)) /\ DOMAIN classes = 1..4
      /\ classes[1].kind = "sql" /\ classes[1].category = "database"
      /\ classes[2].kind = "redis" /\ classes[2].category = "cache"
      /\ classes[3].kind = "http_client" /\ classes[3].category = "http"
      /\ classes[4].kind = "rpc_client" /\ classes[4].category = "rpc"
  BY DEF DependencyClasses, Class, Range
<1>2. IncludedClasses(policy) = Kept(classes, places)
  BY DEF IncludedClasses
<1> HIDE DEF classes, places
<1>3. Kept(classes, places) \in Seq(Range(classes)) /\ Selects(Kept(classes, places), classes, places)
  BY <1>1, KeptSelects
<1>4. ASSUME NEW kind \in {"sql", "redis", "http_client", "rpc_client"},
             kind \in ClientKinds => policy.clients
      PROVE  \E k \in DOMAIN Kept(classes, places) :
               Kept(classes, places)[k].kind = kind
                 /\ Kept(classes, places)[k].category = DependencyCategory[kind]
  <2>1. PICK n \in 1..4 : classes[n].kind = kind /\ classes[n].category = DependencyCategory[kind]
    BY <1>1, CallKinds
  <2>2. n \in DOMAIN classes /\ n \in places
    BY <1>1, <1>4, <2>1 DEF places, classes
  <2>3. \E k \in DOMAIN Kept(classes, places) : Kept(classes, places)[k] = classes[n]
    BY <1>3, <2>2 DEF Selects
  <2> QED BY <2>1, <2>3
<1>5. \A c \in Range(classes) : c.category # Overview
  BY <1>1 DEF Range, Overview
<1> QED BY <1>2, <1>3, <1>4, <1>5 DEF classes

DependencyRows(items, in) ==
  LET classes == IncludedClasses(in.policy)
  IN  [k \in DOMAIN classes |-> DependencyRow(items, classes[k], in.service, in.policy)]

\* The last builder answers for all other calls.
LEMMA DependenciesAnswer ==
  ASSUME NEW in \in Inputs, NEW items, GoodItems(items, in)
  PROVE  Answers(Sequentially(DependencyRows(items, in)), items, OtherCalls(items), in)
<1> DEFINE classes == IncludedClasses(in.policy)
           n == Len(classes)
           built == DependencyRows(items, in)
           mine == [k \in 1..n |-> {i \in ClassItems(items, classes[k]) :
                                      i.category = classes[k].category}]
<1>1. classes \in Seq(Range(DependencyClasses))
  BY ClassesIncluded
<1>2. n \in Nat /\ DOMAIN classes = 1..n /\ \A k \in 1..n : classes[k] \in Range(DependencyClasses)
  BY <1>1
<1>3. \A k \in 1..n : built[k] = DependencyRow(items, classes[k], in.service, in.policy)
  BY <1>2 DEF DependencyRows
<1>4. built = [k \in 1..n |-> built[k]]
  BY <1>2 DEF DependencyRows
<1>5. \A k \in 1..n : mine[k] = {i \in ClassItems(items, classes[k]) : i.category = classes[k].category}
  OBVIOUS
<1>6. OtherCalls(items) \subseteq UNION {mine[k] : k \in 1..n}
  <2> SUFFICES ASSUME NEW i \in OtherCalls(items) PROVE \E k \in 1..n : i \in mine[k]
    OBVIOUS
  <2>1. /\ i \in items /\ i.target.kind = "dependency"
        /\ i.kind \in {"sql", "redis", "http_client", "rpc_client"}
        /\ i.kind \in ClientKinds => in.policy.clients
        /\ i.category = DependencyCategory[i.kind]
    BY DEF OtherCalls, GoodItems, GoodItem
  <2>2. PICK k \in DOMAIN classes : classes[k].kind = i.kind
                                      /\ classes[k].category = DependencyCategory[i.kind]
    BY <2>1, ClassesIncluded
  <2> QED BY <1>2, <1>5, <2>1, <2>2 DEF ClassItems
<1> HIDE DEF classes, built, mine, n
<1>7. \A k \in 1..n : Answers(built[k], items, mine[k], in)
  <2> SUFFICES ASSUME NEW k \in 1..n PROVE Answers(built[k], items, mine[k], in)
    OBVIOUS
  <2>1. classes[k].category # Overview
    BY <1>2, ClassesIncluded
  <2>2. Answers(DependencyRow(items, classes[k], in.service, in.policy), items,
                {i \in ClassItems(items, classes[k]) : i.category = classes[k].category}, in)
    BY <2>1, DependencyAnswers
  <2> QED BY <1>3, <1>5, <2>2
<1>8. Answers(Sequentially(built), items, UNION {mine[k] : k \in 1..n}, in)
  BY <1>2, <1>4, <1>7, SequentiallyAnswers
<1> QED BY <1>6, <1>8 DEF Answers, built
-----------------------------------------------------------------------------
(* The builders in the order the rows are taken *)

\* The items a builder is for.
Due(builder, items) ==
  CASE builder \in {"http", "rpc"} -> Handlers(items, builder)
    [] builder = "kafka" -> Calls(items, "kafka")
    [] builder = "dependencies" -> OtherCalls(items)

\* What each builder is for.
LEMMA DueParts ==
  ASSUME NEW items
  PROVE  /\ Due(Builders[1], items) = Handlers(items, "http")
         /\ Due(Builders[2], items) = Handlers(items, "rpc")
         /\ Due(Builders[3], items) = Calls(items, "kafka")
         /\ Due(Builders[4], items) = OtherCalls(items)
BY DEF Due, Builders

\* Every builder answers for the items it is for.
LEMMA BuilderAnswers ==
  ASSUME input \in Inputs, GoodItems(catalog.items, input), NEW k \in 1..4
  PROVE  Answers(RowsOf(Builders[k]), catalog.items, Due(Builders[k], catalog.items), input)
<1> DEFINE items == catalog.items
<1>1. /\ RowsOf(Builders[1]) = EndpointRow(items, "http", input.service, input.policy)
      /\ RowsOf(Builders[2]) = EndpointRow(items, "rpc", input.service, input.policy)
      /\ RowsOf(Builders[3]) = KafkaRow(items, input.service, input.policy)
      /\ RowsOf(Builders[4]) = Sequentially(DependencyRows(items, input))
  BY DEF RowsOf, Builders, DependencyRows
<1>2. "http" # Overview /\ "rpc" # Overview
  BY DEF Overview
<1> HIDE DEF items
<1>3. GoodItems(items, input)
  BY DEF items
<1>4. CASE k = 1
  BY <1>1, <1>2, <1>3, <1>4, EndpointAnswers, DueParts DEF items
<1>5. CASE k = 2
  BY <1>1, <1>2, <1>3, <1>5, EndpointAnswers, DueParts DEF items
<1>6. CASE k = 3
  BY <1>1, <1>3, <1>6, KafkaAnswers, DueParts DEF items
<1>7. CASE k = 4
  BY <1>1, <1>3, <1>7, DependenciesAnswer, DueParts DEF items
<1> QED BY <1>4, <1>5, <1>6, <1>7

\* Every item is on the overview only or some builder is for it.
LEMMA AllDue ==
  ASSUME NEW in, NEW items, GoodItems(items, in), NEW i \in items
  PROVE  i.category = Overview \/ \E k \in 1..4 : i \in Due(Builders[k], items)
<1>1. GoodItem(i, in)
  BY DEF GoodItems
<1>2. CASE i.target.kind = "endpoint"
  <2>1. i.kind \in EndpointKinds /\ i.category = EndpointCategory[i.kind]
    BY <1>1, <1>2 DEF GoodItem
  <2>2. i.category \in {"http", "rpc", Overview}
    BY <2>1 DEF EndpointCategory, EndpointKinds, Overview
  <2> QED BY <1>2, <2>2, DueParts DEF Handlers
<1>3. CASE i.target.kind # "endpoint"
  <2>1. /\ i.target.kind = "dependency" /\ i.kind \in DependencyKinds
        /\ i.category = DependencyCategory[i.kind]
    BY <1>1, <1>3 DEF GoodItem, Owners
  <2>2. CASE i.kind \in {"kafka_producer", "kafka_consumer"}
    BY <2>1, <2>2, CallKinds, DueParts DEF Calls
  <2>3. CASE i.kind \notin {"kafka_producer", "kafka_consumer"}
    BY <2>1, <2>3, CallKinds, DueParts DEF OtherCalls
  <2> QED BY <2>2, <2>3
<1> QED BY <1>2, <1>3

\* An overview nothing is reported missing of has all panels.
OverviewFull(panels, reported, items) ==
  Clean(reported) /\ items # {} =>
    \A p \in OverviewPurposes : \E x \in panels : x.key[1] = Overview /\ x.key[4] = p

\* The overview and the first n builders are done.
ServedUpTo(panels, reported, items, n, in) ==
  /\ OverviewFull(panels, reported, items)
  /\ \A i \in items : i.category = Overview => Serves(panels, reported, i, in)
  /\ \A k \in 1..n : \A i \in Due(Builders[k], items) : Serves(panels, reported, i, in)

\* The overview serves what is on no other row, and is full.
LEMMA OverviewServes ==
  ASSUME NEW in \in Inputs, NEW items, GoodItems(items, in),
         BuildOverview(items, in.service).error = "none"
  PROVE  LET built == BuildOverview(items, in.service)
         IN  ServedUpTo(PanelsOn(built.rows), built.diagnostics, items, 0, in)
<1> DEFINE built == BuildOverview(items, in.service)
<1>1. Answers(built, items, {i \in items : i.category = Overview}, in)
  BY OverviewAnswers
<1>2. OneRow(built, OverviewShown(items, in), OverviewReported(items, in))
  BY OverviewBuilt
<1>3. built.error = "none"
  OBVIOUS
<1> HIDE DEF built
<1>4. \A i \in items : i.category = Overview =>
        Serves(PanelsOn(built.rows), built.diagnostics, i, in)
  BY <1>1, <1>3 DEF Answers
<1>5. PanelsOn(built.rows) = OverviewShown(items, in) /\ built.diagnostics = OverviewReported(items, in)
  <2>1. PICK row : built.rows = <<row>> /\ row.panels = OverviewShown(items, in)
    BY <1>2, <1>3 DEF OneRow
  <2>2. Range(built.rows) = {row}
    BY <2>1, ListOfOne DEF Range
  <2> QED BY <1>2, <1>3, <2>1, <2>2 DEF OneRow, PanelsOn
<1>6. OverviewFull(PanelsOn(built.rows), built.diagnostics, items)
  <2> SUFFICES ASSUME Clean(built.diagnostics), items # {}, NEW p \in OverviewPurposes
               PROVE  \E x \in PanelsOn(built.rows) : x.key[1] = Overview /\ x.key[4] = p
    BY DEF OverviewFull
  <2>1. ~Missed(OverviewReported(items, in))
    BY <1>5 DEF Clean, Missed, StrictCodes
  <2> QED BY <1>5, <2>1, OverviewComplete
<1>7. ServedUpTo(PanelsOn(built.rows), built.diagnostics, items, 0, in)
  BY <1>4, <1>6 DEF ServedUpTo
<1> QED BY <1>7 DEF built

\* What is served stays served.
LEMMA ServedStays ==
  ASSUME NEW panels, NEW reported, NEW items, NEW n, NEW in,
         ServedUpTo(panels, reported, items, n, in),
         NEW more, panels \subseteq more, NEW longer, reported \subseteq longer
  PROVE  ServedUpTo(more, longer, items, n, in)
<1>1. Clean(longer) => Clean(reported)
  BY DEF Clean
<1>2. OverviewFull(more, longer, items)
  BY <1>1 DEF ServedUpTo, OverviewFull
<1>3. \A i : Serves(panels, reported, i, in) => Serves(more, longer, i, in)
  BY ServesMore
<1> QED BY <1>2, <1>3 DEF ServedUpTo

\* One more builder is done.
LEMMA ServedNext ==
  ASSUME NEW panels, NEW reported, NEW items, NEW n \in Nat, NEW in,
         ServedUpTo(panels, reported, items, n, in), NEW built, built.error = "none",
         Answers(built, items, Due(Builders[n + 1], items), in)
  PROVE  ServedUpTo(panels \cup PanelsOn(built.rows), reported \cup built.diagnostics, items,
                    n + 1, in)
<1> DEFINE more == panels \cup PanelsOn(built.rows)
           longer == reported \cup built.diagnostics
<1>1. ServedUpTo(more, longer, items, n, in)
  <2>1. panels \subseteq more /\ reported \subseteq longer
    OBVIOUS
  <2> HIDE DEF more, longer
  <2> QED BY <2>1, ServedStays
<1>2. ASSUME NEW i \in Due(Builders[n + 1], items) PROVE Serves(more, longer, i, in)
  <2>1. Serves(PanelsOn(built.rows), built.diagnostics, i, in)
    BY DEF Answers
  <2>2. PanelsOn(built.rows) \subseteq more /\ built.diagnostics \subseteq longer
    OBVIOUS
  <2> HIDE DEF more, longer
  <2> QED BY <2>1, <2>2, ServesMore
<1> HIDE DEF more, longer
<1>3. \A k \in 1..(n + 1) : k \in 1..n \/ k = n + 1
  OBVIOUS
<1>4. ServedUpTo(more, longer, items, n + 1, in)
  BY <1>1, <1>2, <1>3 DEF ServedUpTo
<1> QED BY <1>4 DEF more, longer

\* Rows with panels are taken over behind the others.
LEMMA TakenRows ==
  ASSUME NEW list, IsList(list), NEW built, IsList(built.rows)
  PROVE  LET more == list \o Shown(built)
         IN  /\ IsList(more) /\ Len(more) >= Len(list)
             /\ \A k \in 1..Len(list) : more[k] = list[k]
             /\ \A k \in 1..Len(more) : k \in 1..Len(list) \/ more[k].panels # {}
             /\ PanelsOn(more) = PanelsOn(list) \cup PanelsOn(built.rows)
<1> DEFINE places == {n \in DOMAIN built.rows : built.rows[n].panels # {}}
           shown == Shown(built)
           more == list \o shown
           s == built.rows
<1>1. shown = Kept(s, places)
  BY DEF Shown
<1>2. shown \in Seq(Range(s)) /\ Selects(shown, s, places)
  <2> HIDE DEF places
  <2> QED BY <1>1, KeptSelects DEF IsList
<1> HIDE DEF shown
<1>3. IsList(shown) /\ DOMAIN shown = 1..Len(shown) /\ Len(shown) \in Nat
  BY <1>2, ListOfSet
<1>4. IsList(list) /\ DOMAIN list = 1..Len(list) /\ Len(list) \in Nat
  BY ListOfSet DEF IsList
<1>5. Joined(more, list, shown)
  BY <1>3, <1>4, ConcatJoins
<1> HIDE DEF more
<1>6. IsList(more) /\ DOMAIN more = 1..Len(more) /\ Len(more) = Len(list) + Len(shown)
  BY <1>5, ListOfSet DEF Joined, IsList
<1>7. \A k \in 1..Len(list) : more[k] = list[k]
  BY <1>4, <1>5 DEF Joined
<1>8. \A k \in DOMAIN shown : \E n \in places : n \in DOMAIN s /\ shown[k] = s[n]
  <2> HIDE DEF places
  <2> QED BY <1>2 DEF Selects
<1>9. ASSUME NEW k \in 1..Len(more), k \notin 1..Len(list)
      PROVE  \E n \in places : n \in DOMAIN s /\ more[k] = s[n]
  <2>1. k - Len(list) \in DOMAIN shown /\ more[k] = shown[k - Len(list)]
    BY <1>4, <1>5, <1>6, <1>9 DEF Joined
  <2> HIDE DEF places
  <2> QED BY <1>8, <2>1
<1>10. \A k \in 1..Len(more) : k \in 1..Len(list) \/ more[k].panels # {}
  BY <1>9
<1>11. PanelsOn(more) \subseteq PanelsOn(list) \cup PanelsOn(s)
  <2> SUFFICES ASSUME NEW k \in 1..Len(more), NEW p \in more[k].panels
               PROVE  p \in PanelsOn(list) \cup PanelsOn(s)
    BY <1>6 DEF PanelsOn, Range
  <2>1. CASE k \in 1..Len(list)
    BY <1>4, <1>7, <2>1 DEF PanelsOn, Range
  <2>2. CASE k \notin 1..Len(list)
    BY <1>9, <2>2 DEF PanelsOn, Range
  <2> QED BY <2>1, <2>2
<1>12. PanelsOn(list) \subseteq PanelsOn(more)
  <2> SUFFICES ASSUME NEW k \in 1..Len(list), NEW p \in list[k].panels PROVE p \in PanelsOn(more)
    BY <1>4 DEF PanelsOn, Range
  <2>1. k \in DOMAIN more /\ more[k] = list[k]
    BY <1>4, <1>5 DEF Joined
  <2> QED BY <2>1 DEF PanelsOn, Range
<1>13. PanelsOn(s) \subseteq PanelsOn(more)
  <2> SUFFICES ASSUME NEW n \in DOMAIN s, NEW p \in s[n].panels PROVE p \in PanelsOn(more)
    BY DEF PanelsOn, Range
  <2>1. n \in places
    OBVIOUS
  <2> HIDE DEF places, s
  <2>2. PICK k \in DOMAIN shown : shown[k] = s[n]
    BY <1>2, <2>1 DEF Selects
  <2>3. Len(list) + k \in DOMAIN more /\ more[Len(list) + k] = s[n]
    BY <1>5, <2>2 DEF Joined
  <2> QED BY <2>3 DEF PanelsOn, Range
<1> QED BY <1>3, <1>4, <1>6, <1>7, <1>10, <1>11, <1>12, <1>13 DEF more, shown
-----------------------------------------------------------------------------
(* The geometry of the grid, for panels of any number and any size *)

\* A placement inside the 24 columns.
Block(b) ==
  /\ b \in [key : {b.key}, id : {b.id}, x : Nat, y : Nat, w : 1..GridColumns, h : 1..GridColumns]
  /\ b.x + b.w <= GridColumns

Bottom(b) == b.y + b.h

\* Some block of the row reaches as deep as any other.
HasBottom(row) == row # {} => \E b \in row : \A c \in row : Bottom(c) <= Bottom(b)

GoodRow(row) ==
  /\ \A b \in row : Block(b)
  /\ \A b, c \in row : b.key # c.key => Disjoint(b, c)
  /\ HasBottom(row)

\* What is placed lies above the line at the cursor or to the left of it, and
\* the line is as high as the highest block on it.
Behind(b) ==
  /\ Bottom(b) <= cursor.y \/ (b.y = cursor.y /\ b.x + b.w <= cursor.x)
  /\ Bottom(b) <= cursor.y + cursor.h

\* The first n rows are stacked: each leaves room for its band under the rows
\* before it, and all end above the first free line.
StackedBelow(n) ==
  \A j \in 1..n : \A c \in rendered[j] :
    /\ c.y >= 1 /\ Bottom(c) <= top
    /\ \A i \in 1..(j - 1) : \A b \in rendered[i] : Bottom(b) + 1 <= c.y

Stacking == {"stack", "strict", "validate", "built"}

GridInv ==
  /\ pc \in {"catalog", "overview", "category", "identify", "place"} \cup Stacking \cup {"failed"}
  /\ at \in Nat /\ at >= 1 /\ top \in Nat
  /\ cursor \in [x : Nat, y : Nat, h : Nat]
  /\ \E S : rendered \in Seq(S)
  /\ GoodRow(placed) /\ \A b \in placed : Behind(b)
  /\ \A i \in 1..Len(rendered) : GoodRow(rendered[i])
  /\ pc \in Stacking => at <= Len(rendered) + 1 /\ StackedBelow(at - 1)
-----------------------------------------------------------------------------
(* Facts about placements *)

\* Whatever its extent, a panel covers between one and 24 columns.
LEMMA Clamped == ASSUME NEW extent PROVE ClampGrid(extent) \in 1..GridColumns
  BY DEF ClampGrid, GridColumns

\* A block ends below the line it starts on.
LEMMA Depth ==
  ASSUME NEW b, Block(b) PROVE b.y \in Nat /\ Bottom(b) \in Nat /\ Bottom(b) >= b.y + 1
  BY DEF Block, Bottom, GridColumns

\* Moving a block down leaves the rest of it as it is.
LEMMA Moved ==
  ASSUME NEW b, Block(b), NEW n \in Nat
  PROVE  LET m == [b EXCEPT !.y = @ + n + 1]
         IN  Block(m) /\ m.key = b.key /\ m.x = b.x /\ m.w = b.w /\ m.h = b.h /\ m.y = b.y + n + 1
  BY DEF Block, GridColumns

\* A row that is moved down stays a good row.
LEMMA MovedRow ==
  ASSUME NEW row, GoodRow(row), NEW n \in Nat
  PROVE  GoodRow({[b EXCEPT !.y = @ + n + 1] : b \in row})
<1> DEFINE moved == {[b EXCEPT !.y = @ + n + 1] : b \in row}
<1>1. \A m \in moved : \E b \in row :
        Block(b) /\ Block(m) /\ m.key = b.key /\ m.x = b.x /\ m.w = b.w /\ m.h = b.h /\ m.y = b.y + n + 1
  <2> SUFFICES ASSUME NEW m \in moved
               PROVE  \E b \in row : /\ Block(b) /\ Block(m) /\ m.key = b.key /\ m.x = b.x
                                     /\ m.w = b.w /\ m.h = b.h /\ m.y = b.y + n + 1
    OBVIOUS
  <2>1. PICK b \in row : m = [b EXCEPT !.y = @ + n + 1]
    OBVIOUS
  <2>2. Block(b)
    BY DEF GoodRow
  <2> QED BY <2>1, <2>2, Moved
<1>2. ASSUME NEW b \in moved, NEW c \in moved, b.key # c.key PROVE Disjoint(b, c)
  <2>1. PICK b0 \in row : Block(b0) /\ b.key = b0.key /\ b.x = b0.x /\ b.w = b0.w /\ b.h = b0.h /\ b.y = b0.y + n + 1
    BY <1>1
  <2>2. PICK c0 \in row : Block(c0) /\ c.key = c0.key /\ c.x = c0.x /\ c.w = c0.w /\ c.h = c0.h /\ c.y = c0.y + n + 1
    BY <1>1
  <2>3. Disjoint(b0, c0)
    BY <1>2, <2>1, <2>2 DEF GoodRow
  <2> QED BY <2>1, <2>2, <2>3 DEF Disjoint, Block, GridColumns
<1>3. HasBottom(moved)
  <2> SUFFICES ASSUME moved # {} PROVE \E b \in moved : \A c \in moved : Bottom(c) <= Bottom(b)
    BY DEF HasBottom
  <2>1. PICK b0 \in row : \A c \in row : Bottom(c) <= Bottom(b0)
    BY DEF GoodRow, HasBottom
  <2>2. Block(b0)
    BY <2>1 DEF GoodRow
  <2> DEFINE b == [b0 EXCEPT !.y = @ + n + 1]
  <2>3. b \in moved /\ b.y = b0.y + n + 1 /\ b.h = b0.h
    BY <2>2, Moved
  <2>4. ASSUME NEW c \in moved PROVE Bottom(c) <= Bottom(b)
    <3>1. PICK c0 \in row : Block(c0) /\ c.h = c0.h /\ c.y = c0.y + n + 1
      BY <1>1
    <3>2. Bottom(c0) <= Bottom(b0)
      BY <2>1
    <3> HIDE DEF b
    <3> QED BY <3>1, <3>2, <2>2, <2>3 DEF Bottom, Block, GridColumns
  <2> QED BY <2>3, <2>4
<1> QED BY <1>1, <1>2, <1>3 DEF GoodRow

\* The first free line under a row that is not empty.
LEMMA BottomLine ==
  ASSUME NEW row, GoodRow(row), row # {}
  PROVE  /\ Max({b.y + b.h : b \in row}) \in Nat
         /\ \A b \in row : Bottom(b) <= Max({c.y + c.h : c \in row})
<1>1. PICK b \in row : \A c \in row : Bottom(c) <= Bottom(b)
  BY DEF GoodRow, HasBottom
<1> DEFINE S == {c.y + c.h : c \in row}
<1>2. S \subseteq Nat
  BY DEF GoodRow, Block, GridColumns
<1>3. \A y \in S : Bottom(b) >= y
  BY <1>1, <1>2 DEF Bottom, GoodRow, Block, GridColumns
<1>4. Bottom(b) \in S
  BY <1>1 DEF Bottom
<1>5. Max(S) \in S /\ \A y \in S : Max(S) >= y
  <2> HIDE DEF S
  <2> QED BY <1>3, <1>4 DEF Max
<1> QED BY <1>2, <1>5 DEF Bottom
-----------------------------------------------------------------------------
(* The invariant *)

\* The grid is empty.
LEMMA GridInitially == Init => GridInv
  BY DEF Init, GridInv, NoLine, GoodRow, HasBottom, Stacking

\* A step that leaves the grid alone, before or after stacking.
LEMMA SameGrid ==
  ASSUME GridInv, UNCHANGED <<at, cursor, placed, rendered, top>>,
         pc' \in {"catalog", "overview", "category", "identify", "place", "failed"}
           \/ (pc \in Stacking /\ pc' \in Stacking)
  PROVE  GridInv'
  BY DEF GridInv, GoodRow, HasBottom, Block, Behind, Bottom, StackedBelow, Stacking, Disjoint
-----------------------------------------------------------------------------
(* Placing one panel *)

\* The new block is clear of all that is placed, and everything is behind the
\* new cursor.
LEMMA PlacePanelKeepsGrid == ASSUME GridInv, PlacePanel PROVE GridInv'
<1> DEFINE w    == ClampGrid(PanelOf(NextPanel).width)
           h    == ClampGrid(PanelOf(NextPanel).height)
           line == LineFor(w)
           new  == [key |-> NextPanel, id |-> ids[NextPanel], x |-> line.x, y |-> line.y,
                    w |-> w, h |-> h]
<1>1. /\ placed' = placed \cup {new}
      /\ cursor' = [x |-> line.x + w, y |-> line.y, h |-> Higher(line.h, h)]
      /\ UNCHANGED <<pc, at, rendered, top>> /\ pc = "place"
  BY DEF PlacePanel
<1>2. w \in 1..GridColumns /\ h \in 1..GridColumns
  BY Clamped
<1> HIDE DEF w, h
<1>3. cursor \in [x : Nat, y : Nat, h : Nat]
  BY DEF GridInv
<1>4. line \in [x : Nat, y : Nat, h : Nat] /\ line.x + w <= GridColumns
  BY <1>2, <1>3 DEF LineFor, GridColumns
<1>5. ASSUME NEW b \in placed
      PROVE  /\ Block(b)
             /\ Bottom(b) <= line.y \/ (b.y = line.y /\ b.x + b.w <= line.x)
             /\ Bottom(b) <= line.y + line.h
  <2>1. Block(b) /\ Behind(b)
    BY DEF GridInv, GoodRow
  <2> QED BY <2>1, <1>2, <1>3 DEF Behind, Bottom, LineFor, Block, GridColumns
<1> HIDE DEF line
<1>6. /\ Block(new) /\ new.x = line.x /\ new.y = line.y /\ new.w = w /\ new.h = h
  BY <1>2, <1>4 DEF Block, GridColumns
<1> HIDE DEF new
<1>7. ASSUME NEW b \in placed PROVE Disjoint(b, new) /\ Disjoint(new, b)
  BY <1>5, <1>6 DEF Disjoint, Bottom
<1>8. ASSUME NEW b \in placed' PROVE Block(b) /\ Behind(b)'
  <2>1. /\ cursor'.x = line.x + w /\ cursor'.y = line.y
        /\ cursor'.h \in Nat /\ cursor'.h >= line.h /\ cursor'.h >= h
    BY <1>1, <1>2, <1>4 DEF Higher, GridColumns
  <2>2. CASE b = new
    BY <2>1, <2>2, <1>2, <1>4, <1>6 DEF Behind, Bottom, GridColumns
  <2>3. CASE b \in placed
    BY <2>1, <2>3, <1>2, <1>4, <1>5 DEF Behind, Bottom, Block, GridColumns
  <2> QED BY <1>1, <2>2, <2>3
<1>9. HasBottom(placed')
  <2> SUFFICES \E b \in placed' : \A c \in placed' : Bottom(c) <= Bottom(b)
    BY DEF HasBottom
  <2>1. Bottom(new) \in Nat /\ \A b \in placed : Bottom(b) \in Nat
    BY <1>5, <1>6 DEF Bottom, Block, GridColumns
  <2>2. CASE \A c \in placed : Bottom(c) <= Bottom(new)
    BY <1>1, <2>1, <2>2
  <2>3. CASE ~\A c \in placed : Bottom(c) <= Bottom(new)
    <3>1. PICK b \in placed : \A c \in placed : Bottom(c) <= Bottom(b)
      BY <2>3 DEF GridInv, GoodRow, HasBottom
    <3>2. Bottom(new) <= Bottom(b)
      BY <2>1, <2>3, <3>1
    <3> QED BY <1>1, <3>1, <3>2
  <2> QED BY <2>2, <2>3
<1>10. GoodRow(placed')
  <2>1. \A b, c \in placed : b.key # c.key => Disjoint(b, c)
    BY DEF GridInv, GoodRow
  <2> QED BY <1>1, <1>7, <1>8, <1>9, <2>1 DEF GoodRow
<1>11. cursor' \in [x : Nat, y : Nat, h : Nat]
  BY <1>1, <1>2, <1>4 DEF Higher, GridColumns
<1>12. GoodRow(placed)' /\ \A b \in placed' : Behind(b)'
  BY <1>8, <1>10 DEF GoodRow, HasBottom, Block, Bottom, Disjoint
<1>13. (\E S : rendered \in Seq(S))' /\ (\A i \in 1..Len(rendered) : GoodRow(rendered[i]))'
  BY <1>1 DEF GridInv, GoodRow, HasBottom, Block, Bottom, Disjoint
<1> QED BY <1>1, <1>11, <1>12, <1>13 DEF GridInv, Stacking

\* The row that is finished is a good one, and the next starts on an empty grid.
LEMMA FinishRowKeepsGrid == ASSUME GridInv, FinishRow PROVE GridInv'
<1>1. /\ rendered' = Append(rendered, placed)
      /\ at' = at + 1 /\ cursor' = NoLine /\ placed' = {} /\ pc' = "identify" /\ top' = top
  BY DEF FinishRow
<1>2. PICK S : rendered \in Seq(S)
  BY DEF GridInv
<1>3. rendered' \in Seq(S \cup {placed}) /\ Len(rendered') = Len(rendered) + 1
  BY <1>1, <1>2
<1>4. \A i \in 1..Len(rendered') :
        rendered'[i] = IF i = Len(rendered) + 1 THEN placed ELSE rendered[i]
  BY <1>1, <1>2
<1>5. \A i \in 1..Len(rendered') : GoodRow(rendered'[i])
  <2> SUFFICES ASSUME NEW i \in 1..Len(rendered') PROVE GoodRow(rendered'[i])
    OBVIOUS
  <2>1. CASE i = Len(rendered) + 1
    BY <1>4, <2>1 DEF GridInv
  <2>2. CASE i # Len(rendered) + 1
    <3>1. i \in 1..Len(rendered)
      BY <1>2, <1>3, <2>2
    <3> QED BY <1>4, <2>2, <3>1 DEF GridInv
  <2> QED BY <2>1, <2>2
<1>6. (\A i \in 1..Len(rendered) : GoodRow(rendered[i]))'
  BY <1>5 DEF GoodRow, HasBottom, Block, Bottom, Disjoint
<1>7. GoodRow(placed)' /\ \A b \in placed' : Behind(b)'
  BY <1>1 DEF GoodRow, HasBottom
<1> QED BY <1>1, <1>3, <1>6, <1>7 DEF GridInv, NoLine, Stacking
-----------------------------------------------------------------------------
(* Stacking the rows *)

\* Stacking begins with the first row.
LEMMA RowsIdentifiedKeepsGrid == ASSUME GridInv, RowsIdentified PROVE GridInv'
<1>1. UNCHANGED <<cursor, placed, rendered, top>>
  BY DEF RowsIdentified
<1>2. \/ pc' = "stack" /\ at' = 1
      \/ pc' = "category" /\ at' = at
  BY DEF RowsIdentified
<1>3. Len(rendered) \in Nat
  BY DEF GridInv
<1>4. (\A i \in 1..Len(rendered) : GoodRow(rendered[i]))' /\ GoodRow(placed)'
  BY <1>1 DEF GridInv, GoodRow, HasBottom, Block, Bottom, Disjoint
<1>5. (\A b \in placed : Behind(b))'
  BY <1>1 DEF GridInv, Behind, Bottom
<1>6. (pc \in Stacking => at <= Len(rendered) + 1 /\ StackedBelow(at - 1))'
  BY <1>1, <1>2, <1>3 DEF StackedBelow, Stacking
<1> QED BY <1>1, <1>2, <1>4, <1>5, <1>6 DEF GridInv, Stacking

\* The row that is moved lies, with its band, under all rows before it.
LEMMA StackRowKeepsGrid == ASSUME GridInv, StackRow PROVE GridInv'
<1> DEFINE moved == {[b EXCEPT !.y = @ + top + 1] : b \in rendered[at]}
<1>1. /\ rendered' = [rendered EXCEPT ![at] = moved]
      /\ top' = IF moved = {} THEN top ELSE Max({b.y + b.h : b \in moved})
      /\ at' = at + 1 /\ UNCHANGED <<pc, cursor, placed>> /\ pc = "stack" /\ at <= Len(rendered)
  BY DEF StackRow
<1>2. PICK S : rendered \in Seq(S)
  BY DEF GridInv
<1>3. at \in 1..Len(rendered) /\ Len(rendered) \in Nat /\ top \in Nat
  BY <1>1, <1>2 DEF GridInv
<1>4. rendered' \in Seq(S \cup {moved}) /\ Len(rendered') = Len(rendered)
  BY <1>1, <1>2, <1>3
<1>5. /\ rendered'[at] = moved
      /\ \A i \in 1..Len(rendered) : i # at => rendered'[i] = rendered[i]
  BY <1>1, <1>2, <1>3
<1>6. GoodRow(moved) /\ \A m \in moved : Block(m) /\ m.y >= top + 1
  <2>1. GoodRow(rendered[at])
    BY <1>3 DEF GridInv
  <2>2. GoodRow(moved)
    BY <1>3, <2>1, MovedRow
  <2>3. ASSUME NEW m \in moved PROVE m.y >= top + 1
    <3>1. PICK b \in rendered[at] : m = [b EXCEPT !.y = @ + top + 1]
      OBVIOUS
    <3>2. Block(b)
      BY <2>1 DEF GoodRow
    <3>3. m.y = b.y + top + 1
      BY <1>3, <3>1, <3>2, Moved
    <3> QED BY <1>3, <3>2, <3>3 DEF Block
  <2> QED BY <2>2, <2>3 DEF GoodRow
<1>7. top' \in Nat /\ top' >= top /\ \A m \in moved : Bottom(m) <= top'
  <2> HIDE DEF moved
  <2>1. CASE moved = {}
    BY <1>1, <1>3, <2>1
  <2>2. CASE moved # {}
    <3>1. top' \in Nat /\ \A m \in moved : Bottom(m) <= top'
      BY <1>1, <1>6, <2>2, BottomLine
    <3>2. PICK m \in moved : Block(m) /\ m.y >= top + 1
      BY <1>6, <2>2
    <3>3. m.y \in Nat /\ Bottom(m) \in Nat /\ Bottom(m) >= m.y + 1 /\ Bottom(m) <= top'
      BY <3>1, <3>2, Depth
    <3> QED BY <1>3, <3>1, <3>2, <3>3
  <2> QED BY <2>1, <2>2
<1> HIDE DEF moved
<1>8. (\A i \in 1..Len(rendered) : GoodRow(rendered[i]))'
  <2>1. \A i \in 1..Len(rendered) : GoodRow(rendered'[i])
    BY <1>5, <1>6 DEF GridInv
  <2> QED BY <1>4, <2>1 DEF GoodRow, HasBottom, Block, Bottom, Disjoint
<1>9. ASSUME NEW j \in 1..at, NEW c \in rendered'[j]
      PROVE  /\ c.y >= 1 /\ Bottom(c) <= top'
             /\ \A i \in 1..(j - 1) : \A b \in rendered'[i] : Bottom(b) + 1 <= c.y
  <2>1. StackedBelow(at - 1)
    BY <1>1 DEF GridInv, Stacking
  <2>2. \A i \in 1..(at - 1) : rendered'[i] = rendered[i] /\ GoodRow(rendered[i])
    BY <1>3, <1>5 DEF GridInv
  <2>3. \A i \in 1..(at - 1) : \A b \in rendered'[i] : Block(b) /\ b.y >= 1 /\ Bottom(b) <= top
    BY <2>1, <2>2 DEF StackedBelow, GoodRow
  <2>4. CASE j = at
    <3>1. Block(c) /\ c.y >= top + 1 /\ Bottom(c) <= top'
      BY <1>5, <1>6, <1>7, <2>4
    <3>2. ASSUME NEW i \in 1..(j - 1), NEW b \in rendered'[i] PROVE Bottom(b) + 1 <= c.y
      <4>1. Block(b) /\ Bottom(b) <= top
        BY <2>3, <2>4
      <4>2. Bottom(b) \in Nat /\ c.y \in Nat
        BY <3>1, <4>1, Depth
      <4> QED BY <4>1, <4>2, <3>1, <1>3
    <3>3. c.y >= 1
      BY <3>1, <1>3 DEF Block
    <3> QED BY <3>1, <3>2, <3>3
  <2>5. CASE j # at
    <3>1. j \in 1..(at - 1)
      BY <1>3, <2>5
    <3>2. Block(c) /\ c.y >= 1 /\ Bottom(c) <= top /\ c \in rendered[j]
      BY <2>2, <2>3, <3>1
    <3>3. \A i \in 1..(j - 1) : rendered'[i] = rendered[i]
      BY <1>3, <2>2, <3>1
    <3>4. \A i \in 1..(j - 1) : \A b \in rendered'[i] : Bottom(b) + 1 <= c.y
      BY <3>3, <2>1, <3>1, <3>2 DEF StackedBelow
    <3>5. Bottom(c) <= top'
      <4>1. Bottom(c) \in Nat
        BY <3>2, Depth
      <4> QED BY <4>1, <3>2, <1>3, <1>7
    <3> QED BY <3>2, <3>4, <3>5
  <2> QED BY <2>4, <2>5
<1>10. (at <= Len(rendered) + 1 /\ StackedBelow(at - 1))'
  <2>1. at' - 1 = at /\ at' <= Len(rendered') + 1
    BY <1>1, <1>3, <1>4
  <2>2. (\A j \in 1..(at - 1) : \A c \in rendered[j] :
           /\ c.y >= 1 /\ Bottom(c) <= top
           /\ \A i \in 1..(j - 1) : \A b \in rendered[i] : Bottom(b) + 1 <= c.y)'
    BY <1>9, <2>1 DEF Bottom
  <2> QED BY <2>1, <2>2 DEF StackedBelow
<1>11. GoodRow(placed)' /\ (\A b \in placed : Behind(b))'
  BY <1>1 DEF GridInv, GoodRow, HasBottom, Block, Behind, Bottom, Disjoint
<1> QED BY <1>1, <1>3, <1>4, <1>7, <1>8, <1>10, <1>11 DEF GridInv
-----------------------------------------------------------------------------
\* All steps together.
LEMMA GridStep == GridInv /\ [Next]_vars => GridInv'
<1> SUFFICES ASSUME GridInv, [Next]_vars PROVE GridInv'
  OBVIOUS
<1> USE DEF Layout, Fail, Stacking
<1>1. CASE CatalogItems BY <1>1, SameGrid DEF CatalogItems
<1>2. CASE OverviewRow BY <1>2, SameGrid DEF OverviewRow, Take
<1>3. CASE CategoryRows BY <1>3, SameGrid DEF CategoryRows, Take
<1>4. CASE TakeID BY <1>4, SameGrid DEF TakeID, GridInv
<1>5. CASE NumberTargets BY <1>5, SameGrid DEF NumberTargets
<1>6. CASE RowsIdentified BY <1>6, RowsIdentifiedKeepsGrid
<1>7. CASE PlacePanel BY <1>7, PlacePanelKeepsGrid
<1>8. CASE FinishRow BY <1>8, FinishRowKeepsGrid
<1>9. CASE StackRow BY <1>9, StackRowKeepsGrid
<1>10. CASE CheckLimits BY <1>10, SameGrid DEF CheckLimits
<1>11. CASE CheckStrict BY <1>11, SameGrid DEF CheckStrict
<1>12. CASE Validate BY <1>12, SameGrid DEF Validate
<1>13. CASE UNCHANGED vars
  BY <1>13 DEF GridInv, vars, GoodRow, HasBottom, Block, Behind, Bottom, StackedBelow, Disjoint
<1> QED BY <1>1, <1>2, <1>3, <1>4, <1>5, <1>6, <1>7, <1>8, <1>9, <1>10, <1>11, <1>12, <1>13 DEF Next

\* The invariant says that nothing overlaps.
LEMMA GridSuffices == GridInv => NothingOverlaps
<1> SUFFICES ASSUME GridInv PROVE NothingOverlaps
  OBVIOUS
<1>1. ASSUME NEW row \in Range(rendered) \cup {placed} PROVE GoodRow(row)
  <2>1. CASE row = placed
    BY <2>1 DEF GridInv
  <2>2. CASE row \in Range(rendered)
    <3>1. PICK i \in DOMAIN rendered : row = rendered[i]
      BY <2>2 DEF Range
    <3>2. i \in 1..Len(rendered)
      BY <3>1 DEF GridInv
    <3> QED BY <3>1, <3>2 DEF GridInv
  <2> QED BY <1>1, <2>1, <2>2
<1>2. \A row \in Range(rendered) \cup {placed} : \A b, c \in row :
        b.x >= 0 /\ b.x + b.w <= GridColumns /\ (b.key # c.key => Disjoint(b, c))
  BY <1>1 DEF GoodRow, Block
<1>3. \A j \in 1..Stacked : \A c \in rendered[j] :
        c.y >= 1 /\ \A i \in 1..(j - 1) : \A b \in rendered[i] : b.y + b.h + 1 <= c.y
  <2>1. CASE pc \in Stacking
    BY <2>1 DEF GridInv, Stacked, Stacking, StackedBelow, Bottom
  <2>2. CASE pc \notin Stacking
    BY <2>2 DEF Stacked, Stacking
  <2> QED BY <2>1, <2>2
<1> QED BY <1>2, <1>3 DEF NothingOverlaps
-----------------------------------------------------------------------------
(* The control of the renderer *)

Unfinished == {"catalog", "overview", "category", "identify", "place"}

PositionInv ==
  /\ input \in Inputs
  /\ pc \in Unfinished \cup Stacking \cup {"failed"}
  /\ (pc = "failed" <=> error # "none")
  /\ step \in 1..5 /\ attempt \in Nat
  /\ pc \in {"catalog", "overview"} => step = 1 /\ rows = <<>>
  /\ pc = "category" => step \in 1..4
  /\ pc \in Stacking => step = 5
  /\ IsList(rows) /\ \A i \in 1..Len(rows) : rows[i].panels # {}
  /\ IsList(rendered) /\ Len(rendered) <= Len(rows)
  /\ at \in 1..(Len(rows) + 1)
  /\ pc \in Unfinished => Len(rendered) = at - 1
  /\ pc \in Stacking => Len(rendered) = Len(rows)
  /\ pc = "place" => at <= Len(rows)

\* The row at hand has IDs for some of its keys, for all when panels are placed.
IDsInv ==
  /\ pc \notin {"identify", "place", "failed"} => ids = <<>>
  /\ at > Len(rows) => ids = <<>>
  /\ at <= Len(rows) => DOMAIN ids \subseteq Keys(rows[at])
  /\ pc = "place" => Keys(rows[at]) \subseteq DOMAIN ids
  /\ \A k \in DOMAIN ids : ids[k] \in Nat
  /\ \A b \in placed : b.key \in DOMAIN ids /\ b.id = ids[b.key]
  /\ \A j \in 1..Len(rendered) : \A b \in rendered[j] : b.id \in Nat

Numbered(row) == \A p \in row.panels : ~Crowded(p)

NumberedUpTo == IF pc \in Stacking THEN Len(rows) ELSE IF pc = "place" THEN at ELSE at - 1

\* What the rows have, and what was taken so far.
ContentInv ==
  /\ pc \notin {"catalog", "failed"} =>
       /\ catalog = CatalogIn(input) /\ CatalogIn(input).errors = {}
       /\ Unmapped(input.doc) \subseteq diagnostics
  /\ \A p \in PanelsOn(rows) : PanelSound(p, catalog.items, input)
  /\ pc \notin {"catalog", "overview", "failed"} =>
       ServedUpTo(PanelsOn(rows), diagnostics, catalog.items, step - 1, input)
  /\ \A i \in 1..Len(rows) : i <= NumberedUpTo => Numbered(rows[i])
  /\ pc \in {"strict", "validate", "built"} => PanelsOn(rows) # {}
  /\ (pc \in {"validate", "built"} /\ input.policy.strict) => Clean(diagnostics)

\* The invariant of the pipeline: with the geometry, and the reasons of failures.
PipelineInv == GridInv /\ PositionInv /\ IDsInv /\ ContentInv /\ FailuresAreExplained
-----------------------------------------------------------------------------
\* The renderer starts without rows.
LEMMA PositionInitially == Init => PositionInv
<1> SUFFICES ASSUME Init PROVE PositionInv
  OBVIOUS
<1>1. IsList(<<>>) /\ Len(<<>>) = 0
  BY EmptyList
<1> QED BY <1>1 DEF Init, PositionInv, Unfinished, Stacking

\* No rows, no panels.
LEMMA NoRows == PanelsOn(<<>>) = {}
BY DEF PanelsOn, Range

\* Nothing is taken, and nothing has failed.
LEMMA OthersInitially == Init => IDsInv /\ ContentInv /\ FailuresAreExplained
<1> SUFFICES ASSUME Init PROVE IDsInv /\ ContentInv /\ FailuresAreExplained
  OBVIOUS
<1>1. Len(<<>>) = 0 /\ DOMAIN <<>> = {}
  BY EmptyList
<1>2. IDsInv
  BY <1>1 DEF Init, IDsInv
<1>3. ContentInv
  BY <1>1, NoRows DEF Init, ContentInv, Stacking
<1>4. FailuresAreExplained
  BY DEF Init, FailuresAreExplained
<1> QED BY <1>2, <1>3, <1>4
-----------------------------------------------------------------------------
(* Steps that build rows *)

\* Taking rows over, or failing at a limit.
LEMMA TakeFacts ==
  ASSUME NEW built, NEW next, Take(built, next), NEW items, NEW mine, NEW in,
         Answers(built, items, mine, in), IsList(rows)
  PROVE  \/ /\ pc' = "failed" /\ error' = "PANEL_LIMIT_EXCEEDED" /\ UNCHANGED <<rows, diagnostics>>
         \/ /\ pc' = next /\ error' = error /\ built.error = "none"
            /\ diagnostics' = diagnostics \cup built.diagnostics
            /\ IsList(rows') /\ Len(rows') >= Len(rows)
            /\ \A i \in 1..Len(rows) : rows'[i] = rows[i]
            /\ \A i \in 1..Len(rows') : i \in 1..Len(rows) \/ rows'[i].panels # {}
            /\ PanelsOn(rows') = PanelsOn(rows) \cup PanelsOn(built.rows)
            /\ \A p \in PanelsOn(built.rows) : PanelSound(p, items, in)
<1>1. CASE built.error # "none"
  BY <1>1 DEF Take, Fail, Answers
<1>2. CASE built.error = "none"
  <2>1. rows' = rows \o Shown(built) /\ diagnostics' = diagnostics \cup built.diagnostics
        /\ pc' = next /\ error' = error
    BY <1>2 DEF Take
  <2>2. IsList(built.rows) /\ \A p \in PanelsOn(built.rows) : PanelSound(p, items, in)
    BY <1>2 DEF Answers
  <2> DEFINE more == rows \o Shown(built)
  <2>3. /\ IsList(more) /\ Len(more) >= Len(rows)
        /\ \A k \in 1..Len(rows) : more[k] = rows[k]
        /\ \A k \in 1..Len(more) : k \in 1..Len(rows) \/ more[k].panels # {}
        /\ PanelsOn(more) = PanelsOn(rows) \cup PanelsOn(built.rows)
    BY <2>2, TakenRows
  <2>4. rows' = more
    BY <2>1
  <2> HIDE DEF more
  <2> QED BY <1>2, <2>1, <2>2, <2>3, <2>4
<1> QED BY <1>1, <1>2

\* The catalog comes first, or its errors.
LEMMA CatalogItemsKeeps ==
  ASSUME PipelineInv, CatalogItems
  PROVE  PositionInv' /\ IDsInv' /\ ContentInv' /\ FailuresAreExplained'
<1> DEFINE built == CatalogIn(input)
<1>1. /\ pc = "catalog" /\ catalog' = built
      /\ UNCHANGED <<input, rows, step, at, ids, attempt, cursor, placed, rendered, top>>
      /\ \/ built.errors # {} /\ pc' = "failed" /\ error' = "CATALOG"
         \/ built.errors = {} /\ pc' = "overview" /\ error' = error /\ diagnostics' = built.diagnostics
  BY DEF CatalogItems, CatalogIn, Layout, Fail
<1> HIDE DEF built
<1>2. PositionInv'
  BY <1>1 DEF PipelineInv, PositionInv, Unfinished, Stacking
<1>3. IDsInv'
  BY <1>1 DEF PipelineInv, IDsInv
<1>4. rows = <<>> /\ input \in Inputs
  BY <1>1 DEF PipelineInv, PositionInv
<1>5. ContentInv'
  <2>1. Len(rows') = 0 /\ PanelsOn(rows') = {}
    BY <1>1, <1>4, NoRows, EmptyList
  <2>2. pc' # "failed" => diagnostics' = Unmapped(input.doc)
    BY <1>1, <1>4, CatalogFacts DEF built
  <2> QED BY <1>1, <2>1, <2>2 DEF ContentInv, built
<1>6. FailuresAreExplained'
  <2>1. built.errors # {} => CallEdges # {} \/ (input.policy.strict /\ Unmapped(input.doc) # {})
    BY <1>4, CatalogErrors DEF built, CallEdges
  <2> QED BY <1>1, <2>1 DEF FailuresAreExplained, PipelineInv, PositionInv, CallEdges
<1> QED BY <1>2, <1>3, <1>5, <1>6

\* A builder that answers leaves the invariant as it is.
LEMMA BuildKeeps ==
  ASSUME PipelineInv, pc \in {"overview", "category"},
         UNCHANGED <<input, catalog, at, ids, attempt, cursor, placed, rendered, top>>,
         NEW built, NEW next \in {"category", "identify"}, Take(built, next),
         NEW mine, Answers(built, catalog.items, mine, input),
         step' \in 1..5, next = "category" => step' \in 1..4,
         built.error = "none" =>
           ServedUpTo(PanelsOn(rows) \cup PanelsOn(built.rows), diagnostics \cup built.diagnostics,
                      catalog.items, step' - 1, input)
  PROVE  PositionInv' /\ IDsInv' /\ ContentInv' /\ FailuresAreExplained'
<1>1. IsList(rows) /\ Len(rows) \in Nat /\ at \in 1..(Len(rows) + 1) /\ error = "none"
      /\ ids = <<>> /\ Len(rendered) = at - 1 /\ Len(rendered) <= Len(rows)
  <2>1. IsList(rows) /\ at \in 1..(Len(rows) + 1) /\ error = "none" /\ Len(rendered) = at - 1
        /\ Len(rendered) <= Len(rows)
    BY DEF PipelineInv, PositionInv, Unfinished
  <2>2. ids = <<>>
    BY DEF PipelineInv, IDsInv
  <2> QED BY <2>1, <2>2 DEF IsList
<1>2. CASE pc' = "failed" /\ error' = "PANEL_LIMIT_EXCEEDED" /\ UNCHANGED <<rows, diagnostics>>
  <2>1. PositionInv'
    BY <1>2 DEF PipelineInv, PositionInv, Unfinished, Stacking
  <2>2. IDsInv'
    BY <1>2 DEF PipelineInv, IDsInv
  <2>3. ContentInv'
    BY <1>2, <1>1 DEF PipelineInv, ContentInv, Stacking, NumberedUpTo
  <2>4. FailuresAreExplained'
    BY <1>2 DEF FailuresAreExplained
  <2> QED BY <2>1, <2>2, <2>3, <2>4
<1>3. CASE /\ pc' = next /\ error' = error /\ built.error = "none"
           /\ diagnostics' = diagnostics \cup built.diagnostics
           /\ IsList(rows') /\ Len(rows') >= Len(rows)
           /\ \A i \in 1..Len(rows) : rows'[i] = rows[i]
           /\ \A i \in 1..Len(rows') : i \in 1..Len(rows) \/ rows'[i].panels # {}
           /\ PanelsOn(rows') = PanelsOn(rows) \cup PanelsOn(built.rows)
           /\ \A p \in PanelsOn(built.rows) : PanelSound(p, catalog.items, input)
  <2>0. Len(rows') \in Nat /\ Len(rendered) \in Nat /\ pc' \in {"category", "identify"}
    BY <1>3 DEF IsList, PipelineInv, PositionInv
  <2>1. PositionInv'
    <3>1. \A i \in 1..Len(rows') : rows'[i].panels # {}
      BY <1>3 DEF PipelineInv, PositionInv
    <3>2. at' \in 1..(Len(rows') + 1) /\ Len(rendered') = at' - 1 /\ Len(rendered') <= Len(rows')
      BY <1>1, <1>3, <2>0
    <3> QED BY <1>1, <1>3, <2>0, <3>1, <3>2 DEF PipelineInv, PositionInv, Unfinished, Stacking
  <2>2. IDsInv'
    BY <1>1, <2>0, EmptyList DEF PipelineInv, IDsInv
  <2>3. ContentInv'
    <3>1. /\ catalog = CatalogIn(input) /\ CatalogIn(input).errors = {}
          /\ Unmapped(input.doc) \subseteq diagnostics
      BY DEF PipelineInv, ContentInv
    <3>2. \A p \in PanelsOn(rows') : PanelSound(p, catalog.items, input)
      BY <1>3 DEF PipelineInv, ContentInv
    <3>3. \A i \in 1..Len(rows') : i <= at - 1 => Numbered(rows'[i])
      <4> SUFFICES ASSUME NEW i \in 1..Len(rows'), i <= at - 1 PROVE Numbered(rows'[i])
        OBVIOUS
      <4>1. i \in 1..Len(rows)
        BY <1>1, <2>0
      <4>2. Numbered(rows[i])
        BY <4>1 DEF PipelineInv, ContentInv, NumberedUpTo, Stacking
      <4> QED BY <1>3, <4>1, <4>2
    <3>4. NumberedUpTo' = at - 1
      BY <2>0 DEF NumberedUpTo, Stacking
    <3>5. ServedUpTo(PanelsOn(rows'), diagnostics', catalog.items, step' - 1, input)
      BY <1>3
    <3> QED BY <1>3, <2>0, <3>1, <3>2, <3>3, <3>4, <3>5 DEF ContentInv
  <2>4. FailuresAreExplained'
    BY <1>1, <1>3, <2>0 DEF FailuresAreExplained
  <2> QED BY <2>1, <2>2, <2>3, <2>4
<1> QED BY <1>1, <1>2, <1>3, TakeFacts
-----------------------------------------------------------------------------
\* The items of the catalog are good from then on.
LEMMA ItemsAreGood ==
  ASSUME PipelineInv, pc \notin {"catalog", "failed"}
  PROVE  input \in Inputs /\ GoodItems(catalog.items, input)
  BY CatalogIsGood DEF PipelineInv, PositionInv, ContentInv, GoodItems

\* The overview is taken.
LEMMA OverviewRowKeeps ==
  ASSUME PipelineInv, OverviewRow
  PROVE  PositionInv' /\ IDsInv' /\ ContentInv' /\ FailuresAreExplained'
<1> DEFINE built == BuildOverview(catalog.items, input.service)
           mine == {i \in catalog.items : i.category = Overview}
<1>1. /\ pc = "overview" /\ Take(built, "identify") /\ step' = step
      /\ UNCHANGED <<input, catalog, at, ids, attempt, cursor, placed, rendered, top>>
  BY DEF OverviewRow, Layout
<1>2. input \in Inputs /\ GoodItems(catalog.items, input)
  BY <1>1, ItemsAreGood
<1>3. Answers(built, catalog.items, mine, input)
  BY <1>2, OverviewAnswers
<1>4. built.error = "none" => ServedUpTo(PanelsOn(built.rows), built.diagnostics, catalog.items, 0, input)
  BY <1>2, OverviewServes
<1> HIDE DEF built, mine
<1>5. step = 1 /\ rows = <<>>
  BY <1>1 DEF PipelineInv, PositionInv
<1>6. built.error = "none" =>
        ServedUpTo(PanelsOn(rows) \cup PanelsOn(built.rows), diagnostics \cup built.diagnostics,
                   catalog.items, step' - 1, input)
  <2> SUFFICES ASSUME built.error = "none"
               PROVE  ServedUpTo(PanelsOn(rows) \cup PanelsOn(built.rows),
                                 diagnostics \cup built.diagnostics, catalog.items, 0, input)
    BY <1>1, <1>5
  <2>1. /\ PanelsOn(built.rows) \subseteq PanelsOn(rows) \cup PanelsOn(built.rows)
        /\ built.diagnostics \subseteq diagnostics \cup built.diagnostics
    OBVIOUS
  <2> QED BY <1>4, <2>1, ServedStays
<1>7. step' \in 1..5
  BY <1>1, <1>5
<1> QED BY <1>1, <1>3, <1>6, <1>7, BuildKeeps

\* The rows of the next builder are taken.
LEMMA CategoryRowsKeeps ==
  ASSUME PipelineInv, CategoryRows
  PROVE  PositionInv' /\ IDsInv' /\ ContentInv' /\ FailuresAreExplained'
<1> DEFINE built == RowsOf(Builders[step])
           mine == Due(Builders[step], catalog.items)
           next == IF step = Len(Builders) THEN "identify" ELSE "category"
<1>1. /\ pc = "category" /\ Take(built, next) /\ step' = step + 1
      /\ UNCHANGED <<input, catalog, at, ids, attempt, cursor, placed, rendered, top>>
  BY DEF CategoryRows, Layout
<1>2. input \in Inputs /\ GoodItems(catalog.items, input)
  BY <1>1, ItemsAreGood
<1>3. step \in 1..4
  BY <1>1 DEF PipelineInv, PositionInv
<1>4. Answers(built, catalog.items, mine, input)
  BY <1>2, <1>3, BuilderAnswers
<1>5. next \in {"category", "identify"} /\ (next = "category" => step \in 1..3)
  <2>1. Len(Builders) = 4
    BY DEF Builders
  <2> QED BY <1>3, <2>1
<1> HIDE DEF built, next
<1>6. ServedUpTo(PanelsOn(rows), diagnostics, catalog.items, step - 1, input)
  BY <1>1 DEF PipelineInv, ContentInv
<1>7. built.error = "none" =>
        ServedUpTo(PanelsOn(rows) \cup PanelsOn(built.rows), diagnostics \cup built.diagnostics,
                   catalog.items, step' - 1, input)
  <2>1. step - 1 \in Nat /\ step - 1 + 1 = step /\ step' - 1 = step
    BY <1>1, <1>3
  <2>2. Answers(built, catalog.items, Due(Builders[step - 1 + 1], catalog.items), input)
    BY <1>4, <2>1
  <2> QED BY <1>6, <2>1, <2>2, ServedNext
<1>8. step' \in 1..5 /\ (next = "category" => step' \in 1..4)
  BY <1>1, <1>3, <1>5
<1> HIDE DEF mine
<1> QED BY <1>1, <1>4, <1>5, <1>7, <1>8, BuildKeeps
-----------------------------------------------------------------------------
(* Steps of the renderer *)

\* The rows and what they have stay as they are.
LEMMA SameContent ==
  ASSUME PipelineInv, UNCHANGED <<input, catalog, rows, diagnostics, step>>,
         pc \in {"category", "identify", "place", "stack"},
         pc' \in {"category", "identify", "place", "stack"},
         NumberedUpTo' \in Int, \A i \in 1..Len(rows) : i <= NumberedUpTo' => Numbered(rows[i])
  PROVE  ContentInv'
  BY DEF PipelineInv, ContentInv

\* Steps that neither build nor fail need no reason.
LEMMA SameFailures ==
  ASSUME PipelineInv, pc' \notin {"built", "failed"}, error' = error, pc # "failed"
  PROVE  FailuresAreExplained'
  BY DEF PipelineInv, PositionInv, FailuresAreExplained

\* Rows and rendered rows are lists.
LEMMA ListLengths ==
  ASSUME PositionInv
  PROVE  Len(rows) \in Nat /\ Len(rendered) \in Nat /\ at \in Nat /\ DOMAIN rendered = 1..Len(rendered)
  BY ListOfSet DEF PositionInv, IsList

\* A panel ID is a number.
LEMMA IDsAreNumbers == \A n \in PanelIDs : n \in Nat
BY DEF PanelIDs

\* A key of the row gets an ID, or is rehashed.
LEMMA TakeIDKeeps ==
  ASSUME PipelineInv, TakeID
  PROVE  PositionInv' /\ IDsInv' /\ ContentInv' /\ FailuresAreExplained'
<1> DEFINE left == Keys(rows[at]) \ DOMAIN ids
           key == CHOOSE k \in left : TRUE
           id == Hash(input.seed, key, attempt)
<1>1. /\ pc = "identify" /\ at <= Len(rows) /\ left # {} /\ id \in PanelIDs
      /\ \/ attempt' = attempt + 1 /\ ids' = ids
         \/ ids' = With(ids, key, id) /\ attempt' = 0
      /\ UNCHANGED <<input, pc, catalog, rows, diagnostics, step, at, cursor, placed, rendered, top, error>>
  BY DEF TakeID
<1>2. key \in left
  BY <1>1
<1> HIDE DEF id, key
<1>3. PositionInv'
  BY <1>1 DEF PipelineInv, PositionInv, Unfinished, Stacking
<1>4. IDsInv'
  <2>1. CASE ids' = ids
    BY <1>1, <2>1 DEF PipelineInv, IDsInv
  <2>2. CASE ids' = With(ids, key, id)
    <3>1. /\ DOMAIN ids' = DOMAIN ids \cup {key} /\ ids'[key] = id
          /\ \A k \in DOMAIN ids : k # key => ids'[k] = ids[k]
      BY <2>2 DEF With
    <3>2. id \in Nat /\ key \in Keys(rows[at]) /\ key \notin DOMAIN ids
      BY <1>1, <1>2, IDsAreNumbers
    <3>3. \A k \in DOMAIN ids' : ids'[k] \in Nat
      BY <3>1, <3>2 DEF PipelineInv, IDsInv
    <3>4. \A b \in placed : b.key \in DOMAIN ids' /\ b.id = ids'[b.key]
      BY <3>1, <3>2 DEF PipelineInv, IDsInv
    <3>5. DOMAIN ids' \subseteq Keys(rows[at])
      BY <1>1, <3>1, <3>2 DEF PipelineInv, IDsInv
    <3>6. ~(at > Len(rows))
      BY <1>1, ListLengths DEF PipelineInv
    <3> QED BY <1>1, <3>3, <3>4, <3>5, <3>6 DEF PipelineInv, IDsInv
  <2> QED BY <1>1, <2>1, <2>2
<1>5. ContentInv'
  <2>1. NumberedUpTo' = NumberedUpTo
    BY <1>1 DEF NumberedUpTo
  <2>2. NumberedUpTo \in Int
    BY <1>1, ListLengths DEF PipelineInv, NumberedUpTo, Stacking
  <2>3. \A i \in 1..Len(rows) : i <= NumberedUpTo' => Numbered(rows[i])
    BY <2>1 DEF PipelineInv, ContentInv
  <2> QED BY <1>1, <2>1, <2>2, <2>3, SameContent
<1>6. FailuresAreExplained'
  BY <1>1, SameFailures
<1> QED BY <1>3, <1>4, <1>5, <1>6

\* The row has IDs for all keys and no crowded panel.
LEMMA NumberTargetsKeeps ==
  ASSUME PipelineInv, NumberTargets
  PROVE  PositionInv' /\ IDsInv' /\ ContentInv' /\ FailuresAreExplained'
<1>1. /\ pc = "identify" /\ at <= Len(rows) /\ Keys(rows[at]) \subseteq DOMAIN ids
      /\ UNCHANGED <<input, catalog, rows, diagnostics, step, at, ids, attempt, cursor, placed,
                     rendered, top>>
  BY DEF NumberTargets, Layout
<1>2. pc' \in {"place", "failed"} => IDsInv'
  BY <1>1 DEF PipelineInv, IDsInv
<1>3. CASE pc' = "failed" /\ error' = "PANEL_LIMIT_EXCEEDED"
  <2>1. PositionInv'
    BY <1>1, <1>3 DEF PipelineInv, PositionInv, Unfinished, Stacking
  <2>2. ContentInv'
    BY <1>1, <1>3 DEF PipelineInv, ContentInv, NumberedUpTo, Stacking
  <2>3. FailuresAreExplained'
    BY <1>3 DEF FailuresAreExplained
  <2> QED BY <1>2, <1>3, <2>1, <2>2, <2>3
<1>4. CASE pc' = "place" /\ error' = error
           /\ ~\E p \in rows[at].panels : Crowded(p)
  <2>1. PositionInv'
    BY <1>1, <1>4 DEF PipelineInv, PositionInv, Unfinished, Stacking
  <2>2. Numbered(rows[at])
    BY <1>4 DEF Numbered
  <2>3. ContentInv'
    <3>1. NumberedUpTo' = at /\ NumberedUpTo = at - 1 /\ at \in Nat /\ Len(rows) \in Nat
      BY <1>1, <1>4, ListLengths DEF PipelineInv, NumberedUpTo, Stacking
    <3>2. \A i \in 1..Len(rows) : i <= at - 1 => Numbered(rows[i])
      BY <3>1 DEF PipelineInv, ContentInv
    <3>3. \A i \in 1..Len(rows) : i <= at => Numbered(rows[i])
      BY <2>2, <3>1, <3>2
    <3> QED BY <1>1, <1>4, <3>1, <3>3, SameContent
  <2>4. FailuresAreExplained'
    BY <1>1, <1>4, SameFailures
  <2> QED BY <1>2, <1>4, <2>1, <2>3, <2>4
<1> QED BY <1>3, <1>4 DEF NumberTargets, Fail
-----------------------------------------------------------------------------
\* All rows taken so far are rendered.
LEMMA RowsIdentifiedKeeps ==
  ASSUME PipelineInv, RowsIdentified
  PROVE  PositionInv' /\ IDsInv' /\ ContentInv' /\ FailuresAreExplained'
<1>1. /\ pc = "identify" /\ at > Len(rows)
      /\ \/ step > 4 /\ pc' = "stack" /\ at' = 1
         \/ ~(step > 4) /\ pc' = "category" /\ at' = at
      /\ UNCHANGED <<input, catalog, rows, diagnostics, step, ids, attempt, cursor, placed,
                     rendered, top, error>>
  <2>1. Len(Builders) = 4
    BY DEF Builders
  <2> QED BY <2>1 DEF RowsIdentified
<1>2. /\ Len(rows) \in Nat /\ at = Len(rows) + 1 /\ Len(rendered) = Len(rows) /\ step \in 1..5
      /\ ids = <<>> /\ error = "none"
  <2>1. Len(rows) \in Nat /\ at \in Nat
    BY ListLengths DEF PipelineInv
  <2>2. at \in 1..(Len(rows) + 1) /\ Len(rendered) = at - 1 /\ step \in 1..5 /\ error = "none"
    BY <1>1 DEF PipelineInv, PositionInv, Unfinished
  <2>3. ids = <<>>
    BY <1>1 DEF PipelineInv, IDsInv
  <2> QED BY <1>1, <2>1, <2>2, <2>3
<1>3. PositionInv'
  BY <1>1, <1>2 DEF PipelineInv, PositionInv, Unfinished, Stacking
<1>4. IDsInv'
  BY <1>1, <1>2, EmptyList DEF PipelineInv, IDsInv
<1>5. ContentInv'
  <2>1. NumberedUpTo' = Len(rows) /\ NumberedUpTo = Len(rows)
    BY <1>1, <1>2 DEF NumberedUpTo, Stacking
  <2>2. \A i \in 1..Len(rows) : i <= NumberedUpTo' => Numbered(rows[i])
    BY <2>1 DEF PipelineInv, ContentInv
  <2> QED BY <1>1, <1>2, <2>1, <2>2, SameContent
<1>6. FailuresAreExplained'
  BY <1>1, SameFailures
<1> QED BY <1>3, <1>4, <1>5, <1>6

\* The next panel is one that is still to be placed.
LEMMA NextPending ==
  ASSUME PipelineInv, pc = "place", Pending # {}
  PROVE  NextPanel \in Pending /\ NextPanel \in DOMAIN ids
<1>1. Pending \subseteq DOMAIN ids
  BY DEF Pending, PipelineInv, IDsInv
<1> DEFINE T == {<<k, ids[k]>> : k \in Pending}
<1>2. T # {}
  OBVIOUS
<1>3. ASSUME NEW x \in T PROVE x[2] \in Nat
  <2>1. PICK k \in Pending : x = <<k, ids[k]>>
    OBVIOUS
  <2>2. ids[k] \in Nat
    BY <1>1 DEF PipelineInv, IDsInv
  <2> QED BY <2>1, <2>2
<1>4. PICK x \in T : \A y \in T : x[2] <= y[2]
  <2> HIDE DEF T
  <2> QED BY <1>2, <1>3, LeastExists
<1>5. PICK k \in Pending : x = <<k, ids[k]>>
  OBVIOUS
<1>6. ASSUME NEW l \in Pending PROVE ids[k] <= ids[l]
  <2>1. <<l, ids[l]>> \in T /\ <<l, ids[l]>>[2] = ids[l]
    OBVIOUS
  <2> QED BY <1>4, <1>5, <2>1
<1>7. NextPanel \in Pending
  BY <1>5, <1>6 DEF NextPanel
<1> QED BY <1>1, <1>7

\* A panel is placed under its ID.
LEMMA PlacePanelKeeps ==
  ASSUME PipelineInv, PlacePanel
  PROVE  PositionInv' /\ IDsInv' /\ ContentInv' /\ FailuresAreExplained'
<1> DEFINE w    == ClampGrid(PanelOf(NextPanel).width)
           h    == ClampGrid(PanelOf(NextPanel).height)
           line == LineFor(w)
           new  == [key |-> NextPanel, id |-> ids[NextPanel], x |-> line.x, y |-> line.y,
                    w |-> w, h |-> h]
<1>1. placed' = placed \cup {new} /\ new.key = NextPanel /\ new.id = ids[NextPanel]
  <2>1. placed' = placed \cup {new}
    BY DEF PlacePanel
  <2> HIDE DEF w, h, line
  <2> QED BY <2>1
<1> HIDE DEF new
<1>2. /\ pc = "place" /\ Pending # {}
      /\ UNCHANGED <<input, pc, catalog, rows, diagnostics, step, at, ids, attempt, rendered, top,
                     error>>
  BY DEF PlacePanel
<1>3. PositionInv'
  BY <1>2 DEF PipelineInv, PositionInv, Unfinished, Stacking
<1>4. IDsInv'
  <2>1. NextPanel \in DOMAIN ids
    BY <1>2, NextPending
  <2>2. \A b \in placed' : b.key \in DOMAIN ids /\ b.id = ids[b.key]
    BY <1>1, <2>1 DEF PipelineInv, IDsInv
  <2> QED BY <1>2, <2>2 DEF PipelineInv, IDsInv
<1>5. ContentInv'
  <2>1. NumberedUpTo' = NumberedUpTo /\ NumberedUpTo \in Int
    BY <1>2, ListLengths DEF NumberedUpTo, PipelineInv, Stacking
  <2>2. \A i \in 1..Len(rows) : i <= NumberedUpTo' => Numbered(rows[i])
    BY <2>1 DEF PipelineInv, ContentInv
  <2> QED BY <1>2, <2>1, <2>2, SameContent
<1>6. FailuresAreExplained'
  BY <1>2, SameFailures
<1> QED BY <1>3, <1>4, <1>5, <1>6

\* The next row starts without IDs.
LEMMA FinishRowKeeps ==
  ASSUME PipelineInv, FinishRow
  PROVE  PositionInv' /\ IDsInv' /\ ContentInv' /\ FailuresAreExplained'
<1>1. /\ pc = "place" /\ pc' = "identify" /\ rendered' = Append(rendered, placed)
      /\ at' = at + 1 /\ ids' = <<>> /\ attempt' = 0 /\ placed' = {}
      /\ UNCHANGED <<input, catalog, rows, diagnostics, step, top, error>>
  BY DEF FinishRow
<1>2. /\ Len(rows) \in Nat /\ Len(rendered) \in Nat /\ at \in Nat /\ IsList(rendered)
      /\ DOMAIN rendered = 1..Len(rendered)
      /\ at <= Len(rows) /\ at \in 1..(Len(rows) + 1) /\ Len(rendered) = at - 1 /\ error = "none"
  BY <1>1, ListLengths DEF PipelineInv, PositionInv, Unfinished
<1>3. /\ IsList(rendered') /\ Len(rendered') = Len(rendered) + 1
      /\ \A j \in 1..Len(rendered) : rendered'[j] = rendered[j]
      /\ rendered'[Len(rendered) + 1] = placed
  <2>1. Joined(rendered', rendered, <<placed>>)
    BY <1>1, <1>2, AppendJoins
  <2>2. Len(<<placed>>) = 1 /\ DOMAIN <<placed>> = {1} /\ <<placed>>[1] = placed
    BY ListOfOne
  <2> QED BY <1>2, <2>1, <2>2 DEF Joined
<1>4. PositionInv'
  BY <1>1, <1>2, <1>3 DEF PipelineInv, PositionInv, Unfinished, Stacking
<1>5. IDsInv'
  <2>1. \A b \in placed : b.id \in Nat
    BY DEF PipelineInv, IDsInv
  <2>2. \A j \in 1..Len(rendered') : \A b \in rendered'[j] : b.id \in Nat
    <3> SUFFICES ASSUME NEW j \in 1..Len(rendered') PROVE \A b \in rendered'[j] : b.id \in Nat
      OBVIOUS
    <3>1. CASE j = Len(rendered) + 1
      BY <1>3, <2>1, <3>1
    <3>2. CASE j # Len(rendered) + 1
      <4>1. j \in 1..Len(rendered)
        BY <1>2, <1>3, <3>2
      <4> QED BY <1>3, <4>1 DEF PipelineInv, IDsInv
    <3> QED BY <3>1, <3>2
  <2> QED BY <1>1, <2>2, EmptyList DEF IDsInv
<1>6. ContentInv'
  <2>1. NumberedUpTo' = at /\ NumberedUpTo = at
    BY <1>1, <1>2 DEF NumberedUpTo, Stacking
  <2>2. \A i \in 1..Len(rows) : i <= NumberedUpTo' => Numbered(rows[i])
    BY <2>1 DEF PipelineInv, ContentInv
  <2> QED BY <1>1, <1>2, <2>1, <2>2, SameContent
<1>7. FailuresAreExplained'
  BY <1>1, SameFailures
<1> QED BY <1>4, <1>5, <1>6, <1>7

\* Moving a row leaves its IDs as they are.
LEMMA StackRowKeeps ==
  ASSUME PipelineInv, StackRow
  PROVE  PositionInv' /\ IDsInv' /\ ContentInv' /\ FailuresAreExplained'
<1> DEFINE moved == {[b EXCEPT !.y = @ + top + 1] : b \in rendered[at]}
<1>1. /\ pc = "stack" /\ at <= Len(rendered) /\ rendered' = [rendered EXCEPT ![at] = moved]
      /\ at' = at + 1
      /\ UNCHANGED <<input, pc, catalog, rows, diagnostics, step, ids, attempt, cursor, placed, error>>
  BY DEF StackRow
<1>2. /\ Len(rows) \in Nat /\ Len(rendered) \in Nat /\ IsList(rendered)
      /\ DOMAIN rendered = 1..Len(rendered) /\ at \in 1..Len(rendered) /\ Len(rendered) = Len(rows)
      /\ error = "none"
  BY <1>1, ListLengths DEF PipelineInv, PositionInv, Unfinished, Stacking
<1>3. ASSUME NEW b \in moved PROVE b.id \in Nat
  <2>1. PICK c \in rendered[at] : b = [c EXCEPT !.y = @ + top + 1]
    OBVIOUS
  <2>2. Block(c)
    BY <1>2 DEF PipelineInv, GridInv, GoodRow
  <2>3. b.id = c.id
    BY <2>1, <2>2 DEF Block
  <2> QED BY <1>2, <2>3 DEF PipelineInv, IDsInv
<1> HIDE DEF moved
<1>4. /\ IsList(rendered') /\ Len(rendered') = Len(rendered)
      /\ \A j \in 1..Len(rendered) : rendered'[j] = IF j = at THEN moved ELSE rendered[j]
  <2>1. rendered' = [j \in 1..Len(rendered) |-> rendered'[j]]
    BY <1>1, <1>2
  <2> QED BY <1>1, <1>2, <2>1, ListFromFunction
<1>5. PositionInv'
  BY <1>1, <1>2, <1>4 DEF PipelineInv, PositionInv, Unfinished, Stacking
<1>6. IDsInv'
  <2>1. \A j \in 1..Len(rendered') : \A b \in rendered'[j] : b.id \in Nat
    BY <1>2, <1>3, <1>4 DEF PipelineInv, IDsInv
  <2>2. ids = <<>>
    BY <1>1 DEF PipelineInv, IDsInv
  <2> QED BY <1>1, <2>1, <2>2, EmptyList DEF PipelineInv, IDsInv
<1>7. ContentInv'
  <2>1. NumberedUpTo' = NumberedUpTo /\ NumberedUpTo \in Int
    BY <1>1, <1>2 DEF NumberedUpTo, PipelineInv, Stacking
  <2>2. \A i \in 1..Len(rows) : i <= NumberedUpTo' => Numbered(rows[i])
    BY <2>1 DEF PipelineInv, ContentInv
  <2> QED BY <1>1, <2>1, <2>2, SameContent
<1>8. FailuresAreExplained'
  BY <1>1, SameFailures
<1> QED BY <1>5, <1>6, <1>7, <1>8
-----------------------------------------------------------------------------
\* Once all rows are taken, every item is served.
LEMMA AllServed ==
  ASSUME PipelineInv, pc \in Stacking, NEW i \in catalog.items
  PROVE  Serves(PanelsOn(rows), diagnostics, i, input)
<1>1. input \in Inputs /\ GoodItems(catalog.items, input)
  BY ItemsAreGood DEF Stacking
<1>2. ServedUpTo(PanelsOn(rows), diagnostics, catalog.items, step - 1, input) /\ step = 5
  BY DEF PipelineInv, ContentInv, PositionInv, Stacking
<1>3. ServedUpTo(PanelsOn(rows), diagnostics, catalog.items, 4, input)
  <2>1. step - 1 = 4
    BY <1>2
  <2> QED BY <1>2, <2>1
<1>4. i.category = Overview \/ \E k \in 1..4 : i \in Due(Builders[k], catalog.items)
  BY <1>1, AllDue
<1> QED BY <1>3, <1>4 DEF ServedUpTo

\* A step of the last phases leaves the grid and the rows as they are.
LEMMA LastPhases ==
  ASSUME PipelineInv, pc \in Stacking, pc' \in Stacking \cup {"failed"},
         pc' = "failed" <=> error' # "none",
         UNCHANGED <<input, catalog, rows, diagnostics, step, at, ids, attempt, cursor, placed,
                     rendered, top>>,
         pc' \in {"strict", "validate", "built"} => PanelsOn(rows) # {},
         pc' \in {"validate", "built"} /\ input.policy.strict => Clean(diagnostics)
  PROVE  PositionInv' /\ IDsInv' /\ ContentInv'
<1>1. PositionInv'
  BY DEF PipelineInv, PositionInv, Unfinished, Stacking
<1>2. IDsInv'
  BY DEF PipelineInv, IDsInv, Stacking
<1>3. Len(rows) \in Nat /\ at \in 1..(Len(rows) + 1)
  BY ListLengths DEF PipelineInv, PositionInv
<1>4. NumberedUpTo = Len(rows) /\ NumberedUpTo' \in {at - 1, Len(rows)}
  BY DEF NumberedUpTo, Stacking
<1>5. \A i \in 1..Len(rows) : Numbered(rows[i])
  BY <1>3, <1>4 DEF PipelineInv, ContentInv
<1>6. ContentInv'
  BY <1>5 DEF PipelineInv, ContentInv, Stacking
<1> QED BY <1>1, <1>2, <1>6

\* A dashboard without panels is one without metrics.
LEMMA CheckLimitsKeeps ==
  ASSUME PipelineInv, CheckLimits
  PROVE  PositionInv' /\ IDsInv' /\ ContentInv' /\ FailuresAreExplained'
<1>1. /\ pc = "stack" /\ error = "none"
      /\ \/ pc' = "failed" /\ error' = "PANEL_LIMIT_EXCEEDED"
         \/ pc' = "failed" /\ error' = "EMPTY_CATEGORY" /\ AllPanels = {}
         \/ pc' = "strict" /\ error' = error /\ AllPanels # {}
      /\ UNCHANGED <<input, catalog, rows, diagnostics, step, at, ids, attempt, cursor, placed,
                     rendered, top>>
  BY DEF CheckLimits, Fail, Layout, PipelineInv, PositionInv
<1>2. AllPanels = PanelsOn(rows)
  BY DEF AllPanels, PanelsOn
<1>3. PositionInv' /\ IDsInv' /\ ContentInv'
  BY <1>1, <1>2, LastPhases DEF Stacking
<1>4. ASSUME AllPanels = {}, NEW i \in catalog.items PROVE i.metrics = {}
  BY <1>1, <1>2, <1>4, AllServed DEF Stacking, Serves, Shows, Metered
<1>5. FailuresAreExplained'
  BY <1>1, <1>4 DEF FailuresAreExplained
<1> QED BY <1>3, <1>5

\* Strict mode lets only a clean dashboard pass.
LEMMA CheckStrictKeeps ==
  ASSUME PipelineInv, CheckStrict
  PROVE  PositionInv' /\ IDsInv' /\ ContentInv' /\ FailuresAreExplained'
<1>1. /\ pc = "strict" /\ error = "none"
      /\ \/ pc' = "failed" /\ error' = "STRICT" /\ input.policy.strict
         \/ /\ pc' = "validate" /\ error' = error
            /\ ~(input.policy.strict /\ Strictly(diagnostics) # {})
      /\ UNCHANGED <<input, catalog, rows, diagnostics, step, at, ids, attempt, cursor, placed,
                     rendered, top>>
  BY DEF CheckStrict, Fail, Layout, PipelineInv, PositionInv
<1>2. PanelsOn(rows) # {}
  BY <1>1 DEF PipelineInv, ContentInv
<1>3. Strictly(diagnostics) = {} => Clean(diagnostics)
  BY DEF Strictly, Clean
<1>4. PositionInv' /\ IDsInv' /\ ContentInv'
  BY <1>1, <1>2, <1>3, LastPhases DEF Stacking
<1>5. FailuresAreExplained'
  BY <1>1 DEF FailuresAreExplained
<1> QED BY <1>4, <1>5

\* The last validation fails for identifiers only.
LEMMA WhyInvalid ==
  ASSUME PipelineInv, pc = "validate", ~ValidModel
  PROVE  \E b \in Placements : b.id = 0 \/ \E c \in Placements \ {b} : c.id = b.id
<1>1. ASSUME NEW b \in Placements PROVE Block(b) /\ b.id \in Nat
  <2>1. DOMAIN rendered = 1..Len(rendered)
    BY ListLengths DEF PipelineInv
  <2>2. PICK j \in 1..Len(rendered) : b \in rendered[j]
    BY <2>1 DEF Placements, Range
  <2>3. GoodRow(rendered[j])
    BY <2>2 DEF PipelineInv, GridInv
  <2> QED BY <2>2, <2>3 DEF PipelineInv, IDsInv, GoodRow
<1>2. ASSUME NEW p \in AllPanels
      PROVE  ~Crowded(p) /\ \A q, r \in p.targets : q.key = r.key => q = r
  <2>1. Len(rows) \in Nat /\ DOMAIN rows = 1..Len(rows) /\ NumberedUpTo = Len(rows)
    BY ListLengths, ListOfSet DEF PipelineInv, PositionInv, IsList, NumberedUpTo, Stacking
  <2>2. PICK i \in 1..Len(rows) : p \in rows[i].panels
    BY <2>1 DEF AllPanels, Range
  <2>3. Numbered(rows[i])
    BY <2>1 DEF PipelineInv, ContentInv
  <2>4. PanelSound(p, catalog.items, input)
    BY DEF AllPanels, PanelsOn, PipelineInv, ContentInv
  <2> QED BY <2>2, <2>3, <2>4 DEF Numbered, PanelSound, PanelOK, TargetsOK
<1>3. ~(/\ \A b \in Placements : b.id > 0
        /\ \A b, c \in Placements : b.id = c.id => b.key = c.key)
  <2>1. \A b \in Placements :
          b.w \in 1..GridColumns /\ b.h \in 1..GridColumns /\ b.x + b.w <= GridColumns
    BY <1>1 DEF Block
  <2> QED BY <1>2, <2>1 DEF ValidModel
<1>4. CASE ~\A b \in Placements : b.id > 0
  BY <1>1, <1>4
<1>5. CASE ~\A b, c \in Placements : b.id = c.id => b.key = c.key
  BY <1>5
<1> QED BY <1>3, <1>4, <1>5

\* A dashboard is built, or two of its IDs clash or one is zero.
LEMMA ValidateKeeps ==
  ASSUME PipelineInv, Validate
  PROVE  PositionInv' /\ IDsInv' /\ ContentInv' /\ FailuresAreExplained'
<1>1. /\ pc = "validate" /\ error = "none"
      /\ \/ pc' = "failed" /\ error' = "RENDER_ERROR" /\ ~ValidModel
         \/ pc' = "built" /\ error' = error /\ ValidModel
      /\ UNCHANGED <<input, catalog, rows, diagnostics, step, at, ids, attempt, cursor, placed,
                     rendered, top>>
  BY DEF Validate, Fail, Layout, PipelineInv, PositionInv
<1>2. PanelsOn(rows) # {} /\ (input.policy.strict => Clean(diagnostics))
  BY <1>1 DEF PipelineInv, ContentInv
<1>3. PositionInv' /\ IDsInv' /\ ContentInv'
  BY <1>1, <1>2, LastPhases DEF Stacking
<1>4. Placements' = Placements
  BY <1>1 DEF Placements
<1>5. FailuresAreExplained'
  BY <1>1, <1>4, WhyInvalid DEF FailuresAreExplained, ValidModel
<1> QED BY <1>3, <1>5
-----------------------------------------------------------------------------
\* Nothing happens.
LEMMA StutterKeeps ==
  ASSUME PipelineInv, UNCHANGED vars
  PROVE  PositionInv' /\ IDsInv' /\ ContentInv' /\ FailuresAreExplained'
<1> USE DEF vars
<1>1. PositionInv'
  BY DEF PipelineInv, PositionInv
<1>2. IDsInv'
  BY DEF PipelineInv, IDsInv
<1>3. ContentInv'
  BY DEF PipelineInv, ContentInv, NumberedUpTo
<1>4. FailuresAreExplained'
  BY DEF PipelineInv, FailuresAreExplained, Placements, CallEdges
<1> QED BY <1>1, <1>2, <1>3, <1>4

\* All steps together.
LEMMA PipelineStep == PipelineInv /\ [Next]_vars => PipelineInv'
<1> SUFFICES ASSUME PipelineInv, [Next]_vars PROVE PipelineInv'
  OBVIOUS
<1>1. GridInv'
  BY GridStep DEF PipelineInv
<1>2. PositionInv' /\ IDsInv' /\ ContentInv' /\ FailuresAreExplained'
  BY CatalogItemsKeeps, OverviewRowKeeps, CategoryRowsKeeps, TakeIDKeeps, NumberTargetsKeeps,
     RowsIdentifiedKeeps, PlacePanelKeeps, FinishRowKeeps, StackRowKeeps, CheckLimitsKeeps,
     CheckStrictKeeps, ValidateKeeps, StutterKeeps DEF Next
<1> QED BY <1>1, <1>2 DEF PipelineInv

\* The invariant holds throughout.
LEMMA PipelineAlways == Spec => []PipelineInv
<1>1. Init => PipelineInv
  BY GridInitially, PositionInitially, OthersInitially DEF PipelineInv
<1> QED BY <1>1, PipelineStep, PTL DEF Spec
-----------------------------------------------------------------------------
\* What the theorems say follows from the invariant.
LEMMA TypesFollow == PipelineInv => TypeOK
<1> SUFFICES ASSUME PipelineInv PROVE TypeOK
  OBVIOUS
<1>1. /\ Len(rows) \in Nat /\ DOMAIN rows = 1..Len(rows)
  BY ListOfSet DEF PipelineInv, PositionInv, IsList
<1>2. Len(Builders) = 4
  BY DEF Builders
<1>3. top \in Nat
  BY DEF PipelineInv, GridInv
<1>4. /\ input \in Inputs /\ pc \in Unfinished \cup Stacking \cup {"failed"}
      /\ (pc = "failed" <=> error # "none") /\ step \in 1..5 /\ attempt \in Nat
      /\ \A i \in 1..Len(rows) : rows[i].panels # {}
      /\ Len(rendered) <= Len(rows) /\ at \in 1..(Len(rows) + 1)
  BY DEF PipelineInv, PositionInv
<1>5. /\ at <= Len(rows) => DOMAIN ids \subseteq Keys(rows[at])
      /\ \A b \in placed : b.key \in DOMAIN ids /\ b.id = ids[b.key]
  BY DEF PipelineInv, IDsInv
<1> QED BY <1>1, <1>2, <1>3, <1>4, <1>5 DEF TypeOK, Unfinished, Stacking, Done

\* A dashboard that is built has panels, so metrics are planned.
LEMMA MetricsExist ==
  ASSUME PipelineInv, pc = "built"
  PROVE  /\ catalog.items # {} /\ \A i \in catalog.items : i.metrics # {}
<1>1. PICK p \in PanelsOn(rows) : TRUE
  BY DEF PipelineInv, ContentInv
<1>2. PanelSound(p, catalog.items, input)
  BY DEF PipelineInv, ContentInv
<1>3. "metrics" \in input.gen.signals
  BY <1>2 DEF PanelSound, PanelOK, TargetsOK
<1>4. GoodItems(catalog.items, input)
  BY ItemsAreGood
<1>5. \A i \in catalog.items : i.metrics # {}
  BY <1>3, <1>4 DEF GoodItems, GoodItem, GoodMetrics
<1> QED BY <1>2, <1>5 DEF PanelSound

\* A span that is dropped is reported.
LEMMA DropsAreReported ==
  ASSUME NEW i, Dropped(diagnostics, i)
  PROVE  \/ Reported("SENSITIVE_VALUE_DROPPED", i.target.id)
         \/ Reported("SENSITIVE_VALUE_DROPPED", NoId)
BY DEF Dropped, Reported

\* A link on a panel is a link of its category.
LEMMA LinkedIn ==
  ASSUME NEW i, NEW x, Linked(PanelsOn(rows), i, x)
  PROVE  \E l \in LinksIn(i.category) : l.span = x.name
BY DEF Linked, LinksIn, AllPanels, PanelsOn

\* Served items are shown.
LEMMA ShownFollows == PipelineInv => EverythingIsShown
<1> SUFFICES ASSUME PipelineInv, pc = "built" PROVE EverythingIsShown
  BY DEF EverythingIsShown
<1>1. /\ input \in Inputs /\ catalog = CatalogIn(input) /\ CatalogIn(input).errors = {}
      /\ Unmapped(input.doc) \subseteq diagnostics
  BY DEF PipelineInv, PositionInv, ContentInv
<1>2. ASSUME NEW e \in Range(input.doc.endpoint) \cup Range(input.doc.dependency)
      PROVE  \/ Reported("UNSUPPORTED_TARGET", e.id)
             \/ e.kind \in ClientKinds /\ ~input.policy.clients
             \/ \E i \in catalog.items : i.target.id = e.id
  <2>1. PICK kind \in Owners : e \in Range(input.doc[kind])
    BY DEF Owners
  <2>2. CASE e \in Listed(input, kind)
    <3>1. ItemOf(input, kind, e) \in catalog.items
      BY <1>1, <2>2, CatalogFacts
    <3>2. ItemOf(input, kind, e).target.id = e.id
      BY ItemParts
    <3> QED BY <3>1, <3>2
  <2>3. CASE e \notin Mapped(input, kind)
    <3> DEFINE d == Diagnostic("UNSUPPORTED_TARGET", e.id, <<"kind">>)
    <3>1. d \in Unmapped(input.doc)
      BY <2>1, <2>3 DEF Unmapped, Mapped, Owners
    <3>2. d.code = "UNSUPPORTED_TARGET" /\ d.target = e.id
      BY DEF Diagnostic
    <3> HIDE DEF d
    <3> QED BY <1>1, <3>1, <3>2 DEF Reported
  <2> QED BY <2>1, <2>2, <2>3 DEF Listed
<1>3. ASSUME NEW i \in catalog.items
      PROVE  /\ \E q \in TargetsIn(i.category) : q.plans \cap {m.id : m \in i.metrics} # {}
             /\ input.policy.links /\ i.category # Overview => \A x \in i.spans :
                  \/ \E l \in LinksIn(i.category) : l.span = x.name
                  \/ Reported("SENSITIVE_VALUE_DROPPED", i.target.id)
                  \/ Reported("SENSITIVE_VALUE_DROPPED", NoId)
  <2>1. Shows(PanelsOn(rows), diagnostics, i, input)
    BY AllServed, MetricsExist DEF Serves, Stacking
  <2>2. \E q \in TargetsIn(i.category) : q.plans \cap {m.id : m \in i.metrics} # {}
    BY <2>1 DEF Shows, Metered, TargetsIn, AllPanels, PanelsOn
  <2>3. input.policy.links /\ i.category # Overview =>
          \A x \in i.spans : Linked(PanelsOn(rows), i, x) \/ Dropped(diagnostics, i)
    BY <2>1 DEF Shows
  <2> QED BY <2>2, <2>3, LinkedIn, DropsAreReported
<1> QED BY <1>2, <1>3 DEF EverythingIsShown

\* Sound panels reach their series.
LEMMA SeriesFollow == PipelineInv => CompleteQueriesReachTheirSeries
<1> SUFFICES ASSUME PipelineInv, pc = "built", NEW p \in AllPanels, NEW q \in p.targets
             PROVE  Reached(q) \/ q.selector.metric \in IncompleteNames
  BY DEF CompleteQueriesReachTheirSeries
<1>1. PanelSound(p, catalog.items, input)
  BY DEF AllPanels, PanelsOn, PipelineInv, ContentInv
<1>2. TargetOK(q, input)
  BY <1>1 DEF PanelSound, PanelOK, TargetsOK
<1>3. IncompleteNames = IncompleteNamesIn(input)
  BY DEF IncompleteNames, IncompleteNamesIn, IncompleteIDs
<1>4. ReachedIn(q, input) => Reached(q)
  BY DEF ReachedIn, Reached, Matches
<1> QED BY <1>2, <1>3, <1>4 DEF TargetOK

\* Served items lack nothing if nothing is reported.
LEMMA StrictFollows == PipelineInv => StrictDashboardsAreComplete
<1> SUFFICES ASSUME PipelineInv, pc = "built", input.policy.strict
             PROVE  StrictDashboardsAreComplete
  BY DEF StrictDashboardsAreComplete
<1>1. Clean(diagnostics) /\ AllPanels = PanelsOn(rows)
  BY DEF PipelineInv, ContentInv, AllPanels, PanelsOn
<1>2. ASSUME NEW i \in catalog.items PROVE Serves(PanelsOn(rows), diagnostics, i, input)
  BY AllServed DEF Stacking
<1>3. {p.key[4] : p \in {x \in AllPanels : x.key[1] = Overview}} = OverviewPurposes
  <2>1. OverviewFull(PanelsOn(rows), diagnostics, catalog.items)
    BY DEF PipelineInv, ContentInv, ServedUpTo
  <2>2. \A purpose \in OverviewPurposes :
          \E x \in AllPanels : x.key[1] = Overview /\ x.key[4] = purpose
    BY <1>1, <2>1, MetricsExist DEF OverviewFull
  <2>3. \A x \in AllPanels : x.key[1] = Overview => x.key[4] \in OverviewPurposes
    BY <1>1 DEF PipelineInv, ContentInv, PanelSound
  <2> HIDE DEF AllPanels
  <2>4. \A purpose \in OverviewPurposes :
          purpose \in {p.key[4] : p \in {x \in AllPanels : x.key[1] = Overview}}
    BY <2>2
  <2> QED BY <2>3, <2>4
<1>4. \A i \in {x \in catalog.items : x.target.kind = "endpoint" /\ x.category # Overview} :
        \A purpose \in ClassPurposes \cup {"in_flight"} :
          \E p \in AllPanels : /\ p.key = <<i.category, "item", i.target.id, purpose>>
                               /\ input.policy.links => p.links # {}
  BY <1>1, <1>2 DEF Serves, Complete
<1>5. ASSUME NEW i \in catalog.items, i.target.kind = "dependency", input.policy.links,
             NEW x \in i.spans
      PROVE  \E l \in LinksIn(i.category) : l.span = x.name
  <2>1. i.category # Overview
    <3>1. i.kind \in DependencyKinds /\ i.category = DependencyCategory[i.kind]
      BY <1>5, ItemsAreGood DEF GoodItems, GoodItem
    <3> QED BY <3>1, CallKinds DEF Overview
  <2>2. Shows(PanelsOn(rows), diagnostics, i, input)
    BY <1>2, MetricsExist DEF Serves
  <2>3. ~Dropped(diagnostics, i)
    BY <1>1 DEF Clean, Dropped, StrictCodes
  <2> QED BY <1>5, <2>1, <2>2, <2>3, LinkedIn DEF Shows
<1> QED BY <1>3, <1>4, <1>5 DEF StrictDashboardsAreComplete
-----------------------------------------------------------------------------
(* The theorems *)

\* The state has its types, and the renderer its position in the rows and keys.
THEOREM DashboardTypeOK == Spec => []TypeOK
BY PipelineAlways, TypesFollow, PTL

\* No two panels of a dashboard overlap, none leaves the grid, and rows leave
\* room for their bands: for any number of panels and rows of any sizes.
THEOREM Geometry == Spec => []NothingOverlaps
BY PipelineAlways, GridSuffices, PTL DEF PipelineInv

\* A dashboard has positive IDs no two panels share, and is refused only for a
\* reason in the input: in particular no query of a builder fails the validator
\* (validateSelector and its callers), however items share their metrics.
THEOREM FailuresExplained == Spec => []FailuresAreExplained
<1>1. PipelineInv => FailuresAreExplained
  BY DEF PipelineInv
<1> QED BY PipelineAlways, <1>1, PTL

\* Every endpoint and dependency is on a panel of its category by one of its
\* metrics, and so is its span, or the reason is reported: no builder forgets one.
THEOREM ItemsShown == Spec => []EverythingIsShown
BY PipelineAlways, ShownFollows, PTL

\* A target filters by a service and an operation that one of its metrics
\* carries, unless its metric is one of an incomplete endpoint.
THEOREM SeriesReached == Spec => []CompleteQueriesReachTheirSeries
BY PipelineAlways, SeriesFollow, PTL

\* Strict mode lets no dashboard out that lacks a panel of the overview, a
\* panel of an endpoint or a link to a planned span.
THEOREM StrictComplete == Spec => []StrictDashboardsAreComplete
BY PipelineAlways, StrictFollows, PTL
=============================================================================
