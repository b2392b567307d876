-------------------------------- MODULE Plans --------------------------------
(***************************************************************************)
(* The sub-planners the planner is wired with and the complete plan they   *)
(* make of a well-formed document when nothing cuts them short.            *)
(***************************************************************************)
EXTENDS PlanItems, Sequences

SubPlanners == {"endpoint_metrics", "dependency_metrics", "root_spans", "child_spans",
                "internal_spans", "endpoint_logs", "dependency_logs"}
SignalOf == [s \in SubPlanners |->
               IF s \in {"endpoint_metrics", "dependency_metrics"} THEN "metrics"
               ELSE IF s \in {"endpoint_logs", "dependency_logs"} THEN "logging" ELSE "tracing"]
Disambiguated == {"dependency_metrics", "root_spans", "child_spans", "internal_spans"}

SourceOf == [s \in SubPlanners |->
               IF s \in {"endpoint_metrics", "root_spans", "endpoint_logs"} THEN "endpoint"
               ELSE IF s = "internal_spans" THEN "edge" ELSE "dependency"]

\* The list a sub-planner walks; internal spans are planned on request only.
Entities(s, in) ==
  IF s = "internal_spans" /\ ~in.policy.internalCalls THEN <<>>
  ELSE in.doc[SourceOf[s]]

\* What sub-planner s makes of one entity.
PlanOf(s, in, e) ==
  CASE s = "endpoint_metrics"   -> EndpointMetrics(in.doc, in.policy, e)
    [] s = "dependency_metrics" -> DependencyMetrics(in.doc, in.policy, e)
    [] s = "root_spans"         -> RootSpan(in.doc, e)
    [] s = "child_spans"        -> ChildSpan(e)
    [] s = "internal_spans"     -> InternalSpan(in.doc, e)
    [] s = "endpoint_logs"      -> EndpointLogs(in.policy, e)
    [] s = "dependency_logs"    -> DependencyLogs(in.policy, e)

------------------------------------------------------------------------------
Named(doc, kind, id) == \E e \in Range(doc[kind]) : e.id = id

WellFormed(doc) ==
  /\ \A k \in EntityKinds :
       /\ \A i, j \in DOMAIN doc[k] : doc[k][i].id = doc[k][j].id => i = j
       /\ ~Named(doc, k, NoId)
  /\ \A f \in Range(doc.function) :
       /\ \A id \in f.endpoints : Named(doc, "endpoint", id)
       /\ \A id \in f.dependencies : Named(doc, "dependency", id)
       /\ \A id \in f.functions : Named(doc, "function", id)
  /\ \A k \in {"endpoint", "dependency"} : \A e \in Range(doc[k]) : Named(doc, "function", e.fn)
  /\ \A c \in Range(doc.edge) :
       /\ Named(doc, "function", c.caller)
       /\ c.specified
       /\ c.resolved => Named(doc, "function", c.callee)

\* The sub-planner's contribution when nothing cuts it short.
Whole(s, in) ==
  LET items == UNION {PlanOf(s, in, e).items : e \in Range(Entities(s, in))}
  IN  IF s \in Disambiguated THEN Disambiguate(items) ELSE items

CompletePlan(in) ==
  [signal \in Signals |->
     IF signal \notin in.policy.signals \/ ~WellFormed(in.doc) THEN {}
     ELSE UNION {Whole(s, in) : s \in {t \in SubPlanners : SignalOf[t] = signal}}]
==============================================================================
