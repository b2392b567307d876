----------------------------- MODULE MCGenerate -----------------------------
(***************************************************************************)
(* Documents and policies for TLC.  IDs 1 and 2 are functions, 11 and 12   *)
(* endpoints, 21 and 22 dependencies, 31 and 32 call edges; the documents  *)
(* that share an ID between two kinds, repeat or omit one, or refer to     *)
(* nothing are built on purpose.                                           *)
(***************************************************************************)
EXTENDS GeneratePipeline, TLC

Func(id, name, norm) ==
  [id |-> id, name |-> name, norm |-> norm, endpoints |-> {}, dependencies |-> {},
   functions |-> {}]
Endpoint(id, kind, fn, op, route) ==
  [id |-> id, kind |-> kind, fn |-> fn, op |-> op, route |-> route]
Dependency(id, kind, fn, op, static) ==
  [id |-> id, kind |-> kind, fn |-> fn, op |-> op, static |-> static]
Edge(id, caller, callee, resolved) ==
  [id |-> id, caller |-> caller, callee |-> callee, specified |-> TRUE, resolved |-> resolved]

\* Two functions whose names differ, with equal normalized names or not.
FunctionLists ==
  {<<Func(1, "F", "f"), Func(2, "G", "g")>>, <<Func(1, "F", "f"), Func(2, "f", "f")>>}
BadFunctionLists ==
  {<<Func(1, "F", "f"), Func(1, "F", "f")>>,
   <<[Func(1, "F", "f") EXCEPT !.dependencies = {29}], Func(2, "G", "g")>>}

EndpointLists ==
  {<<>>,
   <<Endpoint(12, "http", 1, "get", "/a"), Endpoint(11, "http", 1, "get", "/b")>>,
   <<Endpoint(11, "http", 1, "get", Missing), Endpoint(12, "queue", 2, "x", "/b")>>,
   <<Endpoint(11, "cron", 1, "job", Missing), Endpoint(12, "grpc", 2, Missing, Missing)>>}
BadEndpointLists ==
  {<<Endpoint(2, "http", 1, "get", "/a")>>,
   <<Endpoint(NoId, "http", 1, "get", "/a"), Endpoint(11, "http", 9, "get", "/a")>>}

DependencyLists ==
  {<<>>,
   <<Dependency(22, "kafka_producer", 1, "send", TRUE),
     Dependency(21, "kafka_consumer", 2, "send", TRUE)>>,
   <<Dependency(21, "http_client", 1, Missing, FALSE), Dependency(22, "ftp", 1, "x", TRUE)>>}
BadDependencyLists ==
  {<<Dependency(11, "sql", 1, "exec", TRUE)>>,
   <<Dependency(21, "redis", 9, "get", TRUE)>>}

EdgeLists ==
  {<<>>,
   <<Edge(32, 1, 2, TRUE), Edge(31, 2, 2, TRUE)>>,
   <<Edge(31, 1, NoId, FALSE)>>}
BadEdgeLists == {<<Edge(1, 1, 2, TRUE)>>, <<Edge(21, 1, 2, TRUE)>>, <<Edge(31, 1, 9, TRUE)>>,
                 <<[Edge(31, 1, 9, FALSE) EXCEPT !.specified = FALSE]>>}

Good == CHOOSE x \in FunctionLists : x[2].norm = "g"
Two(kind) ==
  CASE kind = "endpoint" -> CHOOSE x \in EndpointLists : Len(x) = 2 /\ x[1].id = 12
    [] kind = "dependency" -> CHOOSE x \in DependencyLists : Len(x) = 2 /\ x[1].id = 22

Document(f, e, d, c) ==
  [schema |-> "v1", function |-> f, endpoint |-> e, dependency |-> d, edge |-> c]

MCDocuments ==
  {Document(f, e, d, c) : f \in FunctionLists, e \in EndpointLists, d \in DependencyLists,
                          c \in EdgeLists}
    \cup {Document(f, Two("endpoint"), Two("dependency"), <<>>) : f \in BadFunctionLists}
    \cup {Document(Good, e, Two("dependency"), <<>>) : e \in BadEndpointLists}
    \cup {Document(Good, e, d, <<>>) : e \in EndpointLists, d \in BadDependencyLists}
    \cup {Document(Good, e, Two("dependency"), c) : e \in EndpointLists, c \in BadEdgeLists}
    \cup {[Document(Good, <<>>, <<>>, <<>>) EXCEPT !.schema = "v0"]}

Lenient ==
  [signals |-> Signals, strict |-> FALSE, gauges |-> FALSE, summaries |-> FALSE,
   internalCalls |-> TRUE, startEvents |-> TRUE, completionEvents |-> TRUE,
   dependencyErrors |-> TRUE, redacts |-> FALSE, maxInstruments |-> 100, maxSeries |-> 1000]

\* The defaults with internal calls, every extra on, strict mode, one signal
\* only, and limits that one sub-planner or only the union of two exceeds.
MCPolicies ==
  {Lenient,
   [Lenient EXCEPT !.gauges = TRUE, !.summaries = TRUE, !.redacts = TRUE],
   [Lenient EXCEPT !.strict = TRUE, !.startEvents = FALSE],
   [Lenient EXCEPT !.signals = {"tracing"}],
   [Lenient EXCEPT !.signals = {"metrics"}, !.gauges = TRUE, !.maxInstruments = 5],
   [Lenient EXCEPT !.signals = {"metrics"}, !.maxSeries = 2 * (SeriesPer.count + SeriesPer.duration)],
   [Lenient EXCEPT !.signals = {"logging"}, !.completionEvents = FALSE,
                   !.dependencyErrors = FALSE, !.internalCalls = FALSE]}

MCWirings == {Signals, {"metrics"}}
=============================================================================
