-------------------------------- MODULE MCScan --------------------------------
(***************************************************************************)
(* Sources, loader results and configurations for TLC.  Functions 1 to 3   *)
(* are handlers, 4 sets the service up and 5 helps it; "net", "lib" are    *)
(* packages outside the project.                                           *)
(***************************************************************************)
EXTENDS Scan

Ref(kind, number, package) == [kind |-> kind, number |-> number, package |-> package]
Project(number) == Ref("function", number, "app")
Foreign == Ref("function", 0, "lib")
Interface == Ref("interface", 0, "lib")

Other == [from |-> "other", of |-> 0, verb |-> Dynamic, text |-> Dynamic]
Variable(v) == [Other EXCEPT !.from = "variable", !.of = v]
Client(v) == [Other EXCEPT !.from = "client", !.of = v]
Request(verb, text) == [Other EXCEPT !.from = "request", !.verb = verb, !.text = text]
Dial(text) == [Other EXCEPT !.from = "dial", !.text = text]

Call(ref, role) ==
  [at |-> 10, ref |-> ref, role |-> role, enough |-> TRUE, name |-> "call", verb |-> Empty,
   text |-> Empty, target |-> 0, methods |-> <<>>, expr |-> Other, before |-> 0]

\* Calls that no adapter and no rule knows.
Plain ==
  {Call(Project(1), "other"), Call(Project(4), "other"), Call(Project(9), "other"),
   Call(Ref("literal", 6, "app"), "other"), Call(Interface, "other"),
   Call(Ref("value", 0, "app"), "other"), Call(Ref("builtin", 0, "app"), "other"),
   Call(Foreign, "other")}

Http(text, target) == [Call(Foreign, "http_handle") EXCEPT !.text = text, !.target = target]
Mux(verb, text) ==
  [Call(Foreign, "mux_handle") EXCEPT !.verb = verb, !.text = text, !.target = 1]
Grpc(methods) == [Call(Project(9), "grpc_register") EXCEPT !.name = "S", !.methods = methods]
Method(name, number) == [name |-> name, number |-> number]
Cron(text, target) == [Call(Foreign, "cron_add") EXCEPT !.text = text, !.target = target]

Registrations ==
  {Http("/a", 1), Http("/a", 2), Http("/a", 6), Http(Dynamic, 1), Http(Dynamic, 0), Http(Dynamic, 6),
   [Http("/a", 1) EXCEPT !.verb = "GET"], [Http("/a", 1) EXCEPT !.enough = FALSE],
   Mux("GET", "/a"), Mux("PUT", "/a"), Mux("GET", Dynamic), Mux(Empty, "GET"), Mux(Empty, Dynamic),
   Grpc(<<Method("M", 2), Method("N", 3)>>), Grpc(<<Method("M", 2), Method("N", 0)>>), Grpc(<<>>),
   Grpc(<<Method(Dynamic, 0)>>), [Grpc(<<>>) EXCEPT !.enough = FALSE],
   Cron("daily", 1), Cron(Dynamic, 1), Cron("daily", 0), [Cron("daily", 1) EXCEPT !.enough = FALSE],
   Call(Foreign, "router_handle")}

Client1(role, ref, text) == [Call(ref, role) EXCEPT !.text = text]

Clients ==
  {Client1("sql", Foreign, "q"), Client1("sql", Foreign, Dynamic),
   [Client1("sql", Foreign, Empty) EXCEPT !.enough = FALSE], Client1("sql_begin", Foreign, Empty),
   Client1("redis", Foreign, "k"), Client1("redis", Foreign, Dynamic),
   Client1("kafka_send", Interface, "t"), Client1("kafka_group", Foreign, Dynamic),
   [Client1("kafka_consume", Interface, "t") EXCEPT !.enough = FALSE],
   Client1("kafka_partition", Interface, "t"),
   Client1("http_get", Foreign, "u"), Client1("http_get", Foreign, Dynamic),
   [Client1("http_get", Foreign, "u") EXCEPT !.enough = FALSE]}

Do == [Call(Foreign, "http_do") EXCEPT !.name = "do", !.expr = Variable(1)]
Rpc == [Call(Interface, "rpc") EXCEPT !.expr = Variable(1)]
OwnRpc == [Rpc EXCEPT !.ref = Ref("interface", 0, "app")]
DoNow == [Do EXCEPT !.expr = Request("put", "u1")]

Func(number, name, calls, binds) ==
  [number |-> number, name |-> name, recv |-> "", parent |-> 0, at |-> number, calls |-> calls,
   binds |-> binds]
Literal(number, parent, calls) ==
  [Func(number, Anonymous, calls, <<>>) EXCEPT !.parent = parent]
Methodless(number, name) == Func(number, name, <<>>, <<>>)

File(path, class, functions) == [path |-> path, class |-> class, functions |-> functions]
Package(path, name, files) ==
  [path |-> path, name |-> name, errors |-> <<>>, files |-> files, compiled |-> Len(files),
   listed |-> Len(files)]

Handlers == <<Methodless(1, "F"), [Methodless(2, "M") EXCEPT !.recv = "T"],
              [Methodless(3, "N") EXCEPT !.recv = "T"]>>

Place(call, where) == [call EXCEPT !.at = where]

\* One package: the set-up function with its calls and a literal, and a helper.
App(calls, more, binds) ==
  <<Package("app", "app",
      <<File("a.go", "source", Handlers),
        File("b.go", "source", <<Func(4, "Setup", calls, binds), Literal(6, 4, <<>>),
                                 Func(5, "Help", more, <<>>)>>)>>)>>

Config(frameworks) ==
  [parses |-> TRUE, accepted |-> TRUE, empty |-> FALSE, frameworks |-> frameworks]

Input(packages) ==
  [packages |-> packages, loads |-> TRUE, tests |-> FALSE, exclude |-> {}, given |-> <<>>,
   root |-> <<>>]

Calls == Plain \cup Registrations \cup Clients \cup {DoNow, OwnRpc}

Together == {Input(App(<<Place(c, 10), Place(d, 20)>>, <<>>, <<>>)) : c, d \in Calls}
Apart == {Input(App(<<c>>, <<Place(d, 20)>>, <<>>)) :
            c \in Registrations, d \in Registrations \cup Plain}
Chains == {Input(App(<<c, d>>, <<>>, <<>>)) : c \in Plain \cup {Rpc, OwnRpc}, d \in Plain}
Nested == {Input(<<Package("app", "app", <<File("b.go", "source",
              <<Func(4, "Setup", <<Place(c, 10)>>, <<>>), Literal(6, 4, <<Place(d, 20)>>),
                Literal(7, 6, <<Place(d, 30)>>)>>)>>)>>) : c, d \in Plain}

RequestExprs == {Other, Variable(2), Request("get", "u1"), Request(Dynamic, "u2"),
                 Request("put", Dynamic)}
DialExprs == {Other, Variable(2), Client(2), Dial("t1"), Dial(Dynamic)}
Bindings(exprs) == [var : 1..2, expr : exprs]

\* Three assignments to two variables, and a call with the first one: after all
\* of them, or with some of them after it.
Assigned(call, exprs, last) ==
  {Input(App(<<[call EXCEPT !.before = n]>>, <<>>, <<x, y, z>>)) : n \in 1..3,
     x, y \in Bindings(exprs), z \in [var : {1}, expr : {last, Other}]}
Bound == Assigned(Do, RequestExprs, Variable(2)) \cup Assigned(Rpc, DialExprs, Client(2))

\* A request or a connection, then one that cannot be read, and the call.
Overwritten ==
  {Input(App(<<[c EXCEPT !.before = 2]>>, <<>>,
             <<[var |-> 1, expr |-> e], [var |-> 1, expr |-> Other]>>)) :
     c \in {Do, Rpc}, e \in {Request("get", "u1"), Request("get", Dynamic), Dial("t1")}}

Caller(number) == Func(4, "main", <<Call(Ref("function", number, "lib1"), "other"),
                                    Place(Http("/a", number), 20)>>, <<>>)
Lib(files) == Package("lib1", "lib1", files)
LibFile == File("l.go", "source", <<Methodless(1, "F")>>)
LibTests == File("l_test.go", "test", <<Func(7, "TestF", <<Call(Ref("function", 11, "lib1"), "other")>>, <<>>)>>)

\* The package with its tests, type-checked anew: its functions have other numbers.
LibVariant == Lib(<<File("l.go", "source", <<Methodless(11, "F")>>), LibTests>>)
Main(path, functions) == Package(path, "main", <<File(path, "source", functions)>>)

Loaders ==
  {Input(<<>>), [Input(<<>>) EXCEPT !.loads = FALSE],
   \* a call and a handler of another package; its tests, alone or with it
   Input(<<Main("cmd/a", <<Caller(1)>>), Lib(<<LibFile>>)>>),
   [Input(<<Main("cmd/a", <<Caller(1)>>), Lib(<<LibFile>>), LibVariant>>) EXCEPT !.tests = TRUE],
   Input(<<LibVariant, Lib(<<LibFile>>), Main("cmd/a", <<Caller(11)>>)>>),
   [Input(<<Main("cmd/a", <<Caller(1)>>), [Lib(<<LibFile>>) EXCEPT !.compiled = 6], LibVariant>>)
      EXCEPT !.tests = TRUE],
   \* excluded by path and by file; outside the root
   [Input(<<Main("cmd/a", <<Caller(1)>>), Lib(<<LibFile>>)>>) EXCEPT !.exclude = {"lib1"}],
   [Input(<<Main("cmd/a", <<Caller(1)>>), LibVariant>>) EXCEPT !.exclude = {"l_test.go"}],
   Input(<<Main("cmd/a", <<Caller(1)>>), Lib(<<[LibFile EXCEPT !.class = "vendor"]>>)>>),
   \* two programs, and two functions of one name in one package
   Input(<<Main("cmd/a", <<Caller(1)>>),
           Main("cmd/b", <<Func(8, "main", <<Place(Call(Project(9), "other"), 30)>>, <<>>),
                           Literal(9, 8, <<>>)>>)>>),
   Input(<<Main("cmd/a", <<Methodless(1, "init"), Methodless(2, "init")>>)>>),
   \* methods of one name
   Input(<<Main("cmd/a", <<[Caller(4) EXCEPT !.number = 1, !.recv = "T", !.name = "Run"],
                           [Caller(1) EXCEPT !.recv = "U", !.name = "Run"]>>)>>),
   \* errors, with and without files
   Input(<<[Lib(<<LibFile>>) EXCEPT !.errors = <<"GO_PARSE_ERROR">>],
           [Main("cmd/a", <<>>) EXCEPT !.errors = <<"PACKAGE_LOAD_ERROR">>, !.files = <<>>]>>)}

Configs ==
  {Config({}), Config({"net/http"}), Config({"grpc", "robfig/cron"}), Config({"robfig/cron/v3"}),
   Config({"gin"}), [Config({}) EXCEPT !.accepted = FALSE], [Config({}) EXCEPT !.empty = TRUE],
   [Config({}) EXCEPT !.accepted = FALSE, !.parses = FALSE]}

Given == {<<>>} \cup {<<c>> : c \in Configs}
Service == App(<<Http("/a", 1), Place(Cron("daily", 1), 20)>>, <<>>, <<>>)
Configured == {[Input(Service) EXCEPT !.given = g, !.root = r] : g, r \in Given}

MCInputs == UNION {Together, Apart, Chains, Nested, Bound, Loaders, Configured}
==============================================================================
