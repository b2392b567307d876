------------------------------- MODULE GoCalls -------------------------------
(***************************************************************************)
(* What compiler/goanalyzer makes of one call expression: the edge of the  *)
(* call graph, the endpoint a framework adapter sees in it and the         *)
(* dependency a rule sees in it; and the identities of                     *)
(* compiler/semantic/model.go.                                             *)
(*                                                                         *)
(* A call is a record:                                                     *)
(*   at        where it starts; the calls of a chain a.F().G() start at a  *)
(*   ref       what its callee denotes: kind, function number, package     *)
(*   role      the framework or client method the callee is, or "other"    *)
(*   enough    it has the arguments its role asks for                      *)
(*   name      method called, or service registered                        *)
(*   verb      HTTP method written next to it                              *)
(*   text      pattern, schedule, SQL text, key, topic or URL              *)
(*   target    number of the handler or callback function, 0 if unknown    *)
(*   methods   gRPC methods: name and number of the implementation         *)
(*   expr      request passed to Do, or connection of a gRPC client        *)
(*   before    number of assignments of the body written before the call   *)
(* Functions have numbers the way the type checker has objects.            *)
(***************************************************************************)
EXTENDS Lists

Empty == ""
Dynamic == "dynamic"        \* a string that is not a constant
NoFunction == <<>>
Anonymous == "<anonymous>"

Constant(text) == text # Dynamic
Read(text) == IF text = Dynamic THEN Empty ELSE text   \* the text and what staticString gives

\* Empty texts do not enter an identity.
Present(text) == OnlyIf(text # Empty, <<text>>)
------------------------------------------------------------------------------
(* Identities *)

\* Mutant: the methods of a package are told apart by their names.
FunctionIDOfAnyReceiver(recv, package, name) == <<Empty, package, name>>

\* Receiver, package name and name: not the path of the package.
FunctionID(recv, package, name) == <<recv, package, name>>

\* A literal is known by the function around it and its place.
LiteralID(parent, at) == <<parent, at>>

NameOfFunction(id, fallback) == IF Len(id) = 3 THEN id[3] ELSE fallback

\* An endpoint is known by what it registers, not by where.
EndpointID(e) ==
  <<e.kind, e.fn>> \o Present(e.name) \o Present(e.verb) \o Present(e.path)

\* A dependency d of function fn is known by where it is as well.
DependencyID(fn, d, at) ==
  <<fn, d.kind, d.name, d.op, d.resource>> \o Present(d.value) \o <<at>>

\* Mutant: two calls of one chain differ only by their callee.
CallEdgeIDByPlace(edge) == <<edge.caller, edge.resolved, edge.at>>

CallEdgeID(edge) ==
  <<edge.caller>> \o OnlyIf(edge.callee # NoFunction, <<edge.callee>>)
    \o <<edge.resolved, edge.at>>
------------------------------------------------------------------------------
(* The call graph *)

NotTracked == "not tracked"
Known(objects, number) ==
  IF number \in DOMAIN objects THEN objects[number] ELSE NoFunction

\* The callee: a function of the document, unresolved, or none of its business.
\* A function is looked up by its object, of which every variant of a package
\* has its own.
ResolveCall(call, objects, project) ==
  CASE call.ref.kind = "literal"  -> Known(objects, call.ref.number)
    [] call.ref.kind = "function" ->
         IF call.ref.number \in DOMAIN objects THEN objects[call.ref.number]
         ELSE IF call.ref.package \in project THEN NoFunction ELSE <<NotTracked>>
    [] call.ref.kind = "builtin"  -> <<NotTracked>>
    [] OTHER -> NoFunction          \* through an interface or a variable, or unknown here

\* The callee when it is a function or a method, of an interface or not.
HasTarget(call) == call.ref.kind \in {"function", "interface"}
------------------------------------------------------------------------------
(* Framework adapters *)

Adapters == {"net/http", "gorilla/mux", "grpc", "robfig/cron", "unknown-http-router"}

AdapterOf == [http_handle |-> "net/http", mux_handle |-> "gorilla/mux", grpc_register |-> "grpc",
              cron_add |-> "robfig/cron", router_handle |-> "unknown-http-router"]

Match(endpoints, codes) == [endpoints |-> endpoints, codes |-> codes]

NewEndpoint(kind, fn, name, verb, path) ==
  [kind |-> kind, fn |-> fn, name |-> name, verb |-> verb, path |-> path]

\* A pattern "GET /a" of net/http brings its method; mux has it in a call of
\* Methods around the registration.  A dynamic pattern has neither.
PatternVerb(call) == IF call.role = "http_handle" /\ ~Constant(call.text) THEN Empty ELSE call.verb

DynamicPattern(call) == OnlyIf(~Constant(call.text), <<"DYNAMIC_HTTP_PATTERN">>)

HTTPEndpoints(call, objects) ==
  LET fn == Known(objects, call.target)
  IN  IF ~call.enough THEN Match(<<>>, <<"INVALID_HTTP_REGISTRATION">>)
      ELSE IF fn = NoFunction
             THEN Match(<<>>, DynamicPattern(call) \o <<"UNRESOLVED_HTTP_HANDLER">>)
      ELSE Match(<<NewEndpoint("http", fn, NameOfFunction(fn, Read(call.text)),
                               PatternVerb(call), Read(call.text))>>,
                 DynamicPattern(call))

\* One endpoint for every method of the service the server implements.  A
\* server passed as an interface has methods[1].name Dynamic.
GRPCEndpoints(call, objects) ==
  LET opaque == \E i \in DOMAIN call.methods : ~Constant(call.methods[i].name)
      here   == {i \in DOMAIN call.methods : Known(objects, call.methods[i].number) # NoFunction}
      found  == Kept(call.methods, here)
      lost   == Kept(call.methods, DOMAIN call.methods \ here)
  IN  IF ~call.enough THEN Match(<<>>, <<"INVALID_GRPC_REGISTRATION">>)
      ELSE IF opaque \/ call.methods = <<>> THEN Match(<<>>, <<"UNRESOLVED_GRPC_SERVER">>)
      ELSE Match([i \in DOMAIN found |->
                    NewEndpoint("grpc", Known(objects, found[i].number),
                                found[i].name, call.name, found[i].name)],
                 [i \in DOMAIN lost |-> "UNRESOLVED_GRPC_METHOD"])

CronEndpoints(call, objects) ==
  LET fn == Known(objects, call.target)
  IN  IF ~call.enough THEN Match(<<>>, <<"INVALID_CRON_REGISTRATION">>)
      ELSE IF fn = NoFunction THEN Match(<<>>, <<"UNRESOLVED_CRON_CALLBACK">>)
      ELSE Match(<<NewEndpoint("cron", fn, NameOfFunction(fn, "cron"), Empty, Read(call.text))>>,
                 OnlyIf(~Constant(call.text), <<"DYNAMIC_CRON_SCHEDULE">>))

\* What the first adapter that matches returns.
MatchEndpoint(call, objects, adapters) ==
  IF ~HasTarget(call) \/ call.role \notin DOMAIN AdapterOf \/ AdapterOf[call.role] \notin adapters
    THEN Match(<<>>, <<>>)
  ELSE CASE call.role \in {"http_handle", "mux_handle"} -> HTTPEndpoints(call, objects)
         [] call.role = "grpc_register"                 -> GRPCEndpoints(call, objects)
         [] call.role = "cron_add"                      -> CronEndpoints(call, objects)
         [] call.role = "router_handle"                 -> Match(<<>>, <<"UNSUPPORTED_HTTP_ROUTER">>)
------------------------------------------------------------------------------
(* Requests and connections held in variables.  An expression says where   *)
(* its value is from: "request" (http.NewRequest), "dial" (grpc.Dial),     *)
(* "client" (NewXClient of a connection), "variable" or "other".           *)

NoValue == [verb |-> Dynamic, text |-> Dynamic, known |-> FALSE]

\* What an expression of the family holds, given what the variables hold.
ValueOf(family, bound, expr) ==
  CASE expr.from = family -> [verb |-> expr.verb, text |-> expr.text, known |-> TRUE]
    [] (expr.from = "variable" \/ (expr.from = "client" /\ family = "dial"))
         /\ expr.of \in DOMAIN bound -> bound[expr.of]
    [] OTHER -> NoValue

\* Mutant: only the first assignment to a variable counts.
AssignOnce(bound, var, value) ==
  IF value.known /\ var \notin DOMAIN bound
    THEN [v \in DOMAIN bound \cup {var} |-> IF v = var THEN value ELSE bound[v]]
    ELSE bound

\* Assignments in source order, whatever the control flow: one whose right side
\* cannot be read leaves the previous binding in place.
Assign(bound, var, value) ==
  IF value.known THEN [v \in DOMAIN bound \cup {var} |-> IF v = var THEN value ELSE bound[v]]
  ELSE bound

\* All assignments of the body, those written after the call as well.
Bind(family, binds) ==
  LET bound[n \in 0..Len(binds)] ==
        IF n = 0 THEN [v \in {} |-> NoValue]
        ELSE Assign(bound[n - 1], binds[n].var, ValueOf(family, bound[n - 1], binds[n].expr))
  IN  bound[Len(binds)]
------------------------------------------------------------------------------
(* Dependency rules *)

\* Resource and diagnostic of the rules that read one string.
Resource == [sql |-> "DB", sql_begin |-> "DB", redis |-> "key", kafka_send |-> "topic",
             kafka_partition |-> "topic", kafka_consume |-> "topic", kafka_group |-> "consumer_group",
             http_get |-> "url", http_do |-> "url", rpc |-> "client"]
KindOfRole == [sql |-> "sql", sql_begin |-> "sql", redis |-> "redis",
               kafka_send |-> "kafka_producer", kafka_partition |-> "kafka_consumer",
               kafka_consume |-> "kafka_consumer", kafka_group |-> "kafka_consumer",
               http_get |-> "http_client", http_do |-> "http_client", rpc |-> "rpc_client"]
Kafka == {"kafka_send", "kafka_partition", "kafka_consume", "kafka_group"}

NewDependency(call, op, value, target, static) ==
  [kind |-> KindOfRole[call.role], name |-> call.name, op |-> op,
   resource |-> Resource[call.role], value |-> value, target |-> target, static |-> static]

Found(dependency, codes) == [dependencies |-> <<dependency>>, codes |-> codes]
NothingFound == [dependencies |-> <<>>, codes |-> <<>>]

SQLDependency(call) ==
  IF call.role = "sql_begin" THEN Found(NewDependency(call, call.name, Empty, Empty, FALSE), <<>>)
  ELSE IF ~call.enough
    THEN Found(NewDependency(call, call.name, Empty, Empty, FALSE), <<"MISSING_SQL_QUERY">>)
  ELSE Found(NewDependency(call, call.name, Read(call.text), Empty, Constant(call.text)),
             OnlyIf(~Constant(call.text), <<"DYNAMIC_SQL">>))

\* A Redis key, a Kafka topic or consumer group.
NamedDependency(call, code) ==
  Found(NewDependency(call, call.name, Read(call.text), Empty, Constant(call.text)),
        OnlyIf(~Constant(call.text), <<code>>))

\* Get and Post have their URL at hand, Do the request of its variable.
HTTPDependency(call, requests) ==
  LET request == IF call.role = "http_do" THEN ValueOf("request", requests, call.expr)
                 ELSE [verb |-> call.name, text |-> IF call.enough THEN call.text ELSE Dynamic]
      op == IF Read(request.verb) = Empty THEN call.name ELSE request.verb
  IN  Found(NewDependency(call, op, Empty, Read(request.text),
                          Constant(request.verb) /\ Constant(request.text)),
            OnlyIf(call.role = "http_get" /\ ~call.enough, <<"INVALID_HTTP_CLIENT_CALL">>)
              \o OnlyIf(~Constant(request.text), <<"DYNAMIC_HTTP_URL">>)
              \o OnlyIf(~Constant(request.verb), <<"DYNAMIC_HTTP_METHOD">>))

RPCDependency(call, connections) ==
  LET connection == ValueOf("dial", connections, call.expr)
  IN  Found(NewDependency(call, call.name, Empty, Read(connection.text),
                          connection.known /\ Constant(connection.text)),
            OnlyIf(connection.known /\ ~Constant(connection.text), <<"DYNAMIC_GRPC_TARGET">>))

\* What the first rule that matches returns.  Generated clients are recognised
\* outside the project only.
MatchDependency(call, binds, project) ==
  IF ~HasTarget(call) THEN NothingFound
  ELSE CASE call.role \in {"sql", "sql_begin"} -> SQLDependency(call)
         [] call.role = "redis" -> NamedDependency(call, "DYNAMIC_REDIS_KEY")
         [] call.role = "kafka_send" \/ (call.role \in Kafka /\ call.enough) ->
              NamedDependency(call, "DYNAMIC_KAFKA_VALUE")
         [] call.role \in {"http_get", "http_do"} -> HTTPDependency(call, Bind("request", binds))
         [] call.role = "rpc" /\ call.ref.package \notin project ->
              RPCDependency(call, Bind("dial", binds))
         [] OTHER -> NothingFound
------------------------------------------------------------------------------
(* What the syntax trees and the type checker give *)

Reference ==
  [kind : {"function", "interface", "literal", "value", "builtin"}, number : Nat, package : STRING]

Expression ==
  [from : {"request", "dial", "client", "variable", "other"}, of : Nat, verb : STRING,
   text : STRING]

\* A call has a role by the function or method it is resolved to.
CallExpression ==
  {c \in [at : Nat, ref : Reference,
          role : DOMAIN AdapterOf \cup DOMAIN KindOfRole \cup {"other"}, enough : BOOLEAN,
          name : STRING, verb : STRING, text : STRING, target : Nat,
          methods : Seq([name : STRING, number : Nat]), expr : Expression, before : Nat] :
     c.role # "other" => HasTarget(c)}

Assignment == [var : Nat, expr : Expression]

Declaration ==
  {f \in [number : Nat \ {0}, name : STRING, recv : STRING, parent : Nat, at : Nat,
          calls : Seq(CallExpression), binds : Seq(Assignment)] :
     \A i \in DOMAIN f.calls : f.calls[i].before <= Len(f.binds)}
==============================================================================
