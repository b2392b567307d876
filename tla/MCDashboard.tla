----------------------------- MODULE MCDashboard -----------------------------
(***************************************************************************)
(* Documents, policies and hashes for TLC.  IDs 1 to 3 are functions, from *)
(* 11 endpoints, from 21 dependencies, 31 a call edge.                     *)
(***************************************************************************)
EXTENDS DashboardPipeline

Func(id, name, norm) ==
  [id |-> id, name |-> name, norm |-> norm, endpoints |-> {}, dependencies |-> {},
   functions |-> {}]
Endpoint(id, kind, fn, op, route) ==
  [id |-> id, kind |-> kind, fn |-> fn, op |-> op, route |-> route]
Dependency(id, kind, fn, op) ==
  [id |-> id, kind |-> kind, fn |-> fn, op |-> op, static |-> TRUE]

MCUncontrolled == {"/b/{id}", "(*T).Serve", "a service"}

Functions3 == <<Func(1, "F", "f"), Func(2, "(*T).Serve", "t_serve"), Func(3, "G", "g")>>

Document(endpoints, dependencies, edges) ==
  [schema |-> "v1", function |-> Functions3, endpoint |-> endpoints,
   dependency |-> dependencies, edge |-> edges]

Http(id, fn, op, route) == Endpoint(id, "http", fn, op, route)

Documents ==
  {\* nothing; entities no table knows; a cron job alone
   Document(<<>>, <<>>, <<>>),
   Document(<<Endpoint(11, "queue", 1, "x", "/a")>>, <<Dependency(21, "ftp", 1, "x")>>, <<>>),
   Document(<<Endpoint(11, "cron", 1, "job", Missing)>>, <<>>, <<>>),
   \* endpoints of every kind, with and without what their names need
   Document(<<Http(11, 1, "get", "/a"), Endpoint(12, "grpc", 3, "s_m", Missing)>>, <<>>, <<>>),
   Document(<<Http(11, 1, "get", "/b/{id}"), Endpoint(12, "grpc", 2, Missing, Missing)>>, <<>>, <<>>),
   Document(<<Http(11, 1, "get", Missing), Http(12, 1, Missing, "/a")>>, <<>>, <<>>),
   Document(<<Http(11, 1, "get", Missing), Http(12, 1, "put", Missing), Http(13, 1, Missing, "/a")>>,
            <<>>, <<>>),
   \* one metric of a complete and of an incomplete endpoint
   Document(<<Endpoint(11, "grpc", 3, "g", Missing), Endpoint(12, "grpc", 3, Missing, Missing)>>,
            <<>>, <<>>),
   Document(<<Http(11, 1, "get", Missing), Http(12, 1, Missing, "/a"), Http(13, 3, "get", "/a")>>,
            <<>>, <<>>),
   \* two endpoints of one function and method share their metrics
   Document(<<Http(11, 1, "get", "/a"), Http(12, 1, "get", "/b/{id}")>>,
            <<Dependency(21, "sql", 1, "exec")>>, <<>>),
   \* dependencies of every kind
   Document(<<>>, <<Dependency(21, "kafka_producer", 1, "send"),
                    Dependency(22, "kafka_consumer", 1, "send")>>, <<>>),
   Document(<<>>, <<Dependency(21, "kafka_producer", 1, "send"),
                    Dependency(22, "kafka_producer", 3, "send"),
                    Dependency(23, "kafka_consumer", 1, Missing)>>, <<>>),
   Document(<<Http(11, 3, "get", "/a")>>,
            <<Dependency(21, "http_client", 1, "post"), Dependency(22, "rpc_client", 1, "m")>>, <<>>),
   Document(<<>>, <<Dependency(21, "redis", 1, "get"), Dependency(22, "http_client", 1, "get")>>,
            <<>>),
   Document(<<>>, <<Dependency(21, "redis", 3, Missing)>>, <<>>),
   \* more than a row or the overview holds
   Document(<<Http(11, 1, "get", "/a"), Http(12, 1, "put", "/a"), Http(13, 1, "post", "/a")>>,
            <<>>, <<>>),
   Document(<<Http(11, 1, "get", "/a"), Http(12, 3, "get", "/a")>>,
            <<Dependency(21, "sql", 1, "exec"), Dependency(22, "redis", 1, "get")>>, <<>>),
   \* a resolved call edge
   Document(<<Http(11, 1, "get", "/a")>>, <<>>,
            <<[id |-> 31, caller |-> 1, callee |-> 3, specified |-> TRUE,
              resolved |-> TRUE]>>)}

Plain ==
  [signals |-> Signals, strict |-> FALSE, gauges |-> FALSE, summaries |-> FALSE,
   internalCalls |-> TRUE, startEvents |-> TRUE, completionEvents |-> TRUE,
   dependencyErrors |-> TRUE, redacts |-> FALSE, maxInstruments |-> 100, maxSeries |-> 1000]

PlannerPolicies ==
  {[Plain EXCEPT !.internalCalls = FALSE],
   [Plain EXCEPT !.gauges = TRUE, !.summaries = TRUE]}

Wide == [strict |-> FALSE, clients |-> TRUE, links |-> TRUE, maxPanels |-> 200, maxQueries |-> 500]

\* The defaults, strict mode, no client calls or links, and tight limits.
DashboardPolicies ==
  {Wide, [Wide EXCEPT !.strict = TRUE], [Wide EXCEPT !.clients = FALSE, !.links = FALSE],
   [Wide EXCEPT !.maxPanels = 12], [Wide EXCEPT !.maxQueries = 13]}

\* Keys by number; the seeds make hashes distinct, collide within a row twice
\* over, collide between the overview and the HTTP row, or come out zero.
Position(x, list) == CHOOSE i \in DOMAIN list : list[i] = x

Number(key) ==
  key[3] + 100 * Position(key[4], <<"rate", "error_ratio", "p50", "p95", "p99", "in_flight",
                                    "top_failing", "operations">>)
    + 1000 * Position(key[1], <<Overview, "http", "rpc", "kafka", "database", "cache">>)
    + 10000 * Position(key[2], <<"overview", "item", "operations", "producer", "consumer",
                                 "sql", "redis", "client">>)

MCHash(seed, key, try) ==
  CASE seed = "row" /\ key[4] \in Quantiles3 -> 5 + try
    [] seed = "across" /\ key[4] = "rate" /\ key[2] \in {"overview", "item"} -> 7 + try
    [] seed = "zero" /\ key[4] = "p50" -> try
    [] OTHER -> 1000000 * try + Number(key)

Input(d, g, p, service, seed) ==
  [doc |-> d, gen |-> g, policy |-> p, service |-> service, seed |-> seed]

MCInputs ==
  {Input(d, g, p, "svc", "distinct") : d \in Documents, g \in PlannerPolicies,
                                       p \in DashboardPolicies}
    \cup {Input(d, Plain, p, "svc", "distinct") : d \in Documents, p \in {Wide}}
    \cup {Input(d, [Plain EXCEPT !.signals = {"tracing"}], Wide, "svc", "distinct") :
            d \in Documents}
    \cup {Input(d, [Plain EXCEPT !.internalCalls = FALSE], p, "a service", "distinct") :
            d \in Documents, p \in {Wide, [Wide EXCEPT !.strict = TRUE]}}
    \cup {Input(d, [Plain EXCEPT !.signals = {"metrics"}, !.gauges = TRUE],
                [Wide EXCEPT !.strict = TRUE], "svc", "distinct") : d \in Documents}
    \cup {Input(d, [Plain EXCEPT !.internalCalls = FALSE], Wide, "svc", s) :
            d \in Documents, s \in {"row", "across", "zero"}}
==============================================================================
