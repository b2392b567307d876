-------------------------------- MODULE Scan --------------------------------
(***************************************************************************)
(* One analysis, as si scan runs it and si generate and si dashboard begin *)
(* with it: the configuration (cmd/si-cli/main.go), the analysis of what   *)
(* the package loader returns (compiler/goanalyzer) and the conversion to  *)
(* the IR document (compiler/semantic/convert.go).                         *)
(*                                                                         *)
(* An input has the si.yaml of the source root and the one of --config,    *)
(* whether packages load, the loaded packages in the loader's order,       *)
(* --include-tests and --exclude.  A package has its path, name, errors,   *)
(* parsed files and the number of its compiled and of its listed files; a  *)
(* file its path, its class and its functions, each literal after the      *)
(* function it is in.                                                      *)
(***************************************************************************)
EXTENDS GoCalls, AnalyzedDocument, FiniteSets

CONSTANT Inputs

SourceFile == [path : STRING, class : {"source", "test", "vendor"}, functions : Seq(Declaration)]
LoadedPackage ==
  [path : STRING, name : STRING, errors : Seq(STRING), files : Seq(SourceFile), compiled : Nat,
   listed : Nat]
Configuration == [parses : BOOLEAN, accepted : BOOLEAN, empty : BOOLEAN, frameworks : SUBSET STRING]

SourceInput ==
  [packages : Seq(LoadedPackage), loads : BOOLEAN, tests : BOOLEAN, exclude : SUBSET STRING,
   given : Seq(Configuration), root : Seq(Configuration)]

\* Functions have numbers of their own, as the type checker makes an object of
\* each: those of two variants of a package are different.
OneNumberEach(packages) ==
  \A i, j \in DOMAIN packages :
    \A a \in DOMAIN packages[i].files, b \in DOMAIN packages[j].files :
      \A k \in DOMAIN packages[i].files[a].functions, l \in DOMAIN packages[j].files[b].functions :
        packages[i].files[a].functions[k].number = packages[j].files[b].functions[l].number
          => i = j /\ a = b /\ k = l

ASSUME InputsAssumption == \A in \in Inputs : in \in SourceInput /\ OneNumberEach(in.packages)

VARIABLES
  input,        \* of this call
  pc, at,       \* stage, and position in the list the stage walks
  adapters,     \* framework adapters in use
  loaded,       \* packages to analyse
  project,      \* paths of the packages with a file to analyse
  records,      \* functions collected, with their bodies
  objects,      \* ID of each function number
  lists,        \* what each function refers to: endpoints, dependencies, callers, callees
  endpoints, dependencies, edges,
  diagnostics

collected == <<lists, endpoints, dependencies, edges>>
vars == <<input, pc, at, adapters, loaded, project, records, objects, collected, diagnostics>>

Final == {"refused", "failed", "converted"}
Stages == {"config", "load", "packages", "functions", "calls", "endpoints", "dependencies",
           "convert"} \cup Final
After == [packages |-> "functions", functions |-> "calls", calls |-> "endpoints",
          endpoints |-> "dependencies", dependencies |-> "convert"]

Diagnostic(code, where) == [code |-> code, at |-> where]
Report(codes, where) == [i \in DOMAIN codes |-> Diagnostic(codes[i], where)]
------------------------------------------------------------------------------
(* Packages and files *)

\* How much of a package a variant of it has.
Score(p) == 4 * Len(p.files) + 2 * p.compiled + p.listed

\* Every variant of a package has the path of the package: the one that has most
\* stands for it, at the place of the first.
AddPackage(kept, p) ==
  IF \E i \in DOMAIN kept : kept[i].path = p.path
    THEN [i \in DOMAIN kept |->
            IF kept[i].path = p.path /\ Score(p) > Score(kept[i]) THEN p ELSE kept[i]]
    ELSE Append(kept, p)

Deduplicate(packages) ==
  LET kept[n \in 0..Len(packages)] ==
        IF n = 0 THEN <<>> ELSE AddPackage(kept[n - 1], packages[n])
  IN  kept[Len(packages)]

\* A pattern of --exclude that meets one file drops its package.
Excluded(p) ==
  p.path \in input.exclude \/ \E i \in DOMAIN p.files : p.files[i].path \in input.exclude

\* Files under the root that are no vendored code and, unless asked for, no tests.
Analyzed(file) == file.class = "source" \/ (file.class = "test" /\ input.tests)
AnalyzedFiles(p) == Kept(p.files, {i \in DOMAIN p.files : Analyzed(p.files[i])})

\* The functions in the order they are visited, with their package.
FunctionsOf(p) ==
  LET found == FlattenSeq([i \in DOMAIN AnalyzedFiles(p) |-> AnalyzedFiles(p)[i].functions])
  IN  [i \in DOMAIN found |-> [package |-> p.name, function |-> found[i]]]

VisitedFunctions(packages) == FlattenSeq([i \in DOMAIN packages |-> FunctionsOf(packages[i])])

\* The calls of the collected functions, with the function they are in.
CallsOf(record) == [i \in DOMAIN record.calls |-> [in |-> record, call |-> record.calls[i]]]
Sites == FlattenSeq([i \in DOMAIN records |-> CallsOf(records[i])])

Walked(stage) ==
  CASE stage = "packages"  -> loaded
    [] stage = "functions" -> VisitedFunctions(loaded)
    [] stage \in {"calls", "endpoints", "dependencies"} -> Sites
    [] OTHER -> <<>>
------------------------------------------------------------------------------
Init ==
  /\ input \in Inputs
  /\ pc = "config" /\ at = 1
  /\ adapters = {}
  /\ loaded = <<>> /\ project = {}
  /\ records = <<>> /\ objects = <<>> /\ lists = <<>>
  /\ endpoints = <<>> /\ dependencies = <<>> /\ edges = <<>> /\ diagnostics = <<>>

Goto(stage) == pc' = stage /\ at' = 1
------------------------------------------------------------------------------
(* Configuration *)

\* The file of --config, or else the one of the source root.
Chosen == IF input.given # <<>> THEN input.given ELSE input.root

\* What the command line takes for an adapter, the analyzer's own names and one more.
Supported == (Adapters \ {"unknown-http-router"}) \cup {"robfig/cron/v3"}

\* The text the command line hands over; an empty one makes the analyzer look
\* for the file of the root again.
Handed == IF Chosen # <<>> /\ ~Chosen[1].empty THEN Chosen ELSE input.root

ReadConfig ==
  /\ pc = "config"
  /\ IF Chosen # <<>> /\ (~Chosen[1].accepted \/ ~(Chosen[1].frameworks \subseteq Supported))
       THEN Goto("refused") /\ UNCHANGED <<adapters, diagnostics>>
       ELSE LET unread  == Handed # <<>> /\ ~Handed[1].parses
                named   == IF Handed = <<>> \/ unread THEN {} ELSE Handed[1].frameworks
                unknown == ~(named \subseteq Adapters)
            IN  /\ Goto("load")
                /\ adapters' = IF named = {} THEN Adapters ELSE IF unknown THEN {}
                               ELSE named \cup {"unknown-http-router"}
                /\ diagnostics' = Report(OnlyIf(unread \/ unknown, <<"INVALID_CONFIG">>), 0)
  /\ UNCHANGED <<input, loaded, project, records, objects, collected>>
------------------------------------------------------------------------------
(* Packages and functions *)

LoadPackages ==
  /\ pc = "load"
  /\ IF input.loads
       THEN /\ LET found == Deduplicate(input.packages)
               IN  loaded' = Kept(found, {i \in DOMAIN found : ~Excluded(found[i])})
            /\ Goto("packages")
       ELSE Goto("failed") /\ UNCHANGED loaded
  /\ UNCHANGED <<input, adapters, project, records, objects, collected, diagnostics>>

\* The errors of a package, and the package itself if it has a file to analyse.
CollectPackage ==
  /\ pc = "packages" /\ at <= Len(loaded)
  /\ LET p == loaded[at]
     IN  /\ diagnostics' = diagnostics \o Report(p.errors, 0)
         /\ project' = IF AnalyzedFiles(p) = <<>> THEN project ELSE project \cup {p.path}
  /\ at' = at + 1
  /\ UNCHANGED <<input, pc, adapters, loaded, records, objects, collected>>

Identity(package, f) ==
  IF f.parent = 0 THEN FunctionID(f.recv, package, f.name) ELSE LiteralID(objects[f.parent], f.at)

\* A function whose ID is taken is dropped, and with it the literals inside it.
CollectFunction ==
  /\ pc = "functions" /\ at <= Len(Walked(pc))
  /\ LET next == Walked(pc)[at]
         f    == next.function
         inside == f.parent = 0 \/ f.parent \in DOMAIN objects
         id   == Identity(next.package, f)
     IN  IF inside /\ \A i \in DOMAIN records : records[i].id # id
           THEN /\ records' = Append(records, [id |-> id, calls |-> f.calls, binds |-> f.binds])
                /\ objects' = [n \in DOMAIN objects \cup {f.number} |->
                                 IF n = f.number THEN id ELSE objects[n]]
                /\ lists' = [x \in DOMAIN lists \cup {id} |->
                               IF x = id THEN [endpoints |-> {}, dependencies |-> {},
                                               callers |-> {}, callees |-> {}]
                               ELSE lists[x]]
           ELSE UNCHANGED <<records, objects, lists>>
  /\ at' = at + 1
  /\ UNCHANGED <<input, pc, adapters, loaded, project, endpoints, dependencies, edges, diagnostics>>
------------------------------------------------------------------------------
(* Calls, endpoints and dependencies *)

\* Mutant: the callee does not learn who calls it.
AddFunctionRelationOneWay(caller, callee) ==
  [lists EXCEPT ![caller].callees = @ \cup {callee}]

AddFunctionRelation(caller, callee) ==
  [lists EXCEPT ![caller].callees = @ \cup {callee}, ![callee].callers = @ \cup {caller}]

CollectCall ==
  /\ pc = "calls" /\ at <= Len(Sites)
  /\ LET site   == Sites[at]
         callee == ResolveCall(site.call, objects, project)
         edge   == [caller |-> site.in.id, callee |-> callee, resolved |-> callee # NoFunction,
                    at |-> site.call.at]
     IN  IF callee = <<NotTracked>> THEN UNCHANGED <<lists, edges, diagnostics>>
         ELSE /\ edges' = Append(edges, edge)
              /\ IF edge.resolved
                   THEN lists' = AddFunctionRelation(edge.caller, callee) /\ UNCHANGED diagnostics
                   ELSE /\ diagnostics' = Append(diagnostics, Diagnostic("UNRESOLVED_CALL", edge.at))
                        /\ UNCHANGED lists
  /\ at' = at + 1
  /\ UNCHANGED <<input, pc, adapters, loaded, project, records, objects, endpoints, dependencies>>

\* Endpoints are appended as they come, an ID seen before or not.
CollectEndpoint ==
  /\ pc = "endpoints" /\ at <= Len(Sites)
  /\ LET site  == Sites[at]
         match == MatchEndpoint(site.call, objects, adapters)
         found == [i \in DOMAIN match.endpoints |->
                     [id |-> EndpointID(match.endpoints[i]), at |-> site.call.at,
                      registers |-> match.endpoints[i]]]
     IN  /\ endpoints' = endpoints \o found
         /\ lists' = [x \in DOMAIN lists |->
                        [lists[x] EXCEPT !.endpoints =
                           @ \cup {found[i].id : i \in {j \in DOMAIN found :
                                                          found[j].registers.fn = x}}]]
         /\ diagnostics' = diagnostics \o Report(match.codes, site.call.at)
  /\ at' = at + 1
  /\ UNCHANGED <<input, pc, adapters, loaded, project, records, objects, dependencies, edges>>

\* Dependencies whose ID was seen before are dropped.
CollectDependency ==
  /\ pc = "dependencies" /\ at <= Len(Sites)
  /\ LET site  == Sites[at]
         match == MatchDependency(site.call, site.in.binds, project)
         found == [i \in DOMAIN match.dependencies |->
                     [id |-> DependencyID(site.in.id, match.dependencies[i], site.call.at),
                      fn |-> site.in.id, at |-> site.call.at, uses |-> match.dependencies[i]]]
         fresh == Kept(found, {i \in DOMAIN found :
                                 \A j \in DOMAIN dependencies : dependencies[j].id # found[i].id})
     IN  /\ dependencies' = dependencies \o fresh
         /\ lists' = [lists EXCEPT ![site.in.id].dependencies =
                        @ \cup {fresh[i].id : i \in DOMAIN fresh}]
         /\ diagnostics' = diagnostics \o Report(match.codes, site.call.at)
  /\ at' = at + 1
  /\ UNCHANGED <<input, pc, adapters, loaded, project, records, objects, endpoints, edges>>

\* Mutant: the position in one list is carried over to the next.
FinishStageInPlace ==
  /\ pc \in DOMAIN After /\ at > Len(Walked(pc))
  /\ pc' = After[pc] /\ UNCHANGED at
  /\ UNCHANGED <<input, adapters, loaded, project, records, objects, collected, diagnostics>>

FinishStage ==
  /\ pc \in DOMAIN After /\ at > Len(Walked(pc))
  /\ Goto(After[pc])
  /\ UNCHANGED <<input, adapters, loaded, project, records, objects, collected, diagnostics>>
------------------------------------------------------------------------------
(* Conversion to the IR *)

\* The entities by kind, with the identity each is converted under.
IDsOf ==
  [function   |-> [i \in DOMAIN records |-> records[i].id],
   endpoint   |-> [i \in DOMAIN endpoints |-> endpoints[i].id],
   dependency |-> [i \in DOMAIN dependencies |-> dependencies[i].id],
   edge       |-> [i \in DOMAIN edges |-> CallEdgeID(edges[i])]]

\* Two entities of one kind under one ID fail the whole scan.  Unresolved edges
\* are reported a second time.
ToIR ==
  /\ pc = "convert"
  /\ IF \E kind \in EntityKinds : ~IsInjective(IDsOf[kind])
       THEN Goto("failed") /\ UNCHANGED diagnostics
       ELSE /\ Goto("converted")
            /\ LET open == Kept(edges, {i \in DOMAIN edges : ~edges[i].resolved})
               IN  diagnostics' = diagnostics \o
                     [i \in DOMAIN open |-> Diagnostic("UNRESOLVED_CALL", open[i].at)]
  /\ UNCHANGED <<input, adapters, loaded, project, records, objects, collected>>

\* The number of an ID among those of its kind, for the planner's view of the document.
Number(kind, id) == IF id = NoFunction THEN NoId ELSE CHOOSE i \in DOMAIN IDsOf[kind] : IDsOf[kind][i] = id
Numbers(kind, ids) == {Number(kind, id) : id \in ids}

\* A text the document has or has not.
Text(t) == IF t = Empty THEN Missing ELSE t

Document ==
  [schema |-> "v1",
   function |-> [i \in DOMAIN records |->
     LET id == records[i].id
     IN  [id |-> i, name |-> NameOfFunction(id, Anonymous), norm |-> NameOfFunction(id, Anonymous),
          endpoints |-> Numbers("endpoint", lists[id].endpoints),
          dependencies |-> Numbers("dependency", lists[id].dependencies),
          functions |-> Numbers("function", lists[id].callers \cup lists[id].callees)]],
   endpoint |-> [i \in DOMAIN endpoints |->
     LET e == endpoints[i].registers
     IN  [id |-> i, kind |-> e.kind, fn |-> Number("function", e.fn),
          op |-> Text(IF e.kind = "cron" THEN e.name ELSE e.verb), route |-> Text(e.path)]],
   dependency |-> [i \in DOMAIN dependencies |->
     LET d == dependencies[i]
     IN  [id |-> i, kind |-> d.uses.kind, fn |-> Number("function", d.fn), op |-> d.uses.op,
          static |-> d.uses.static]],
   edge |-> [i \in DOMAIN edges |->
     [id |-> i, caller |-> Number("function", edges[i].caller),
      callee |-> Number("function", edges[i].callee), specified |-> TRUE,
      resolved |-> edges[i].resolved]]]
------------------------------------------------------------------------------
Next ==
  \/ ReadConfig \/ LoadPackages \/ CollectPackage \/ CollectFunction \/ CollectCall
  \/ CollectEndpoint \/ CollectDependency \/ FinishStage \/ ToIR

Spec == Init /\ [][Next]_vars
------------------------------------------------------------------------------
(* Properties *)

\* Codes of the diagnostics of the command line, the call graph, the adapters and the rules.
Codes ==
  {"INVALID_CONFIG", "UNRESOLVED_CALL", "INVALID_HTTP_REGISTRATION", "UNRESOLVED_HTTP_HANDLER",
   "DYNAMIC_HTTP_PATTERN", "UNSUPPORTED_HTTP_ROUTER", "INVALID_GRPC_REGISTRATION",
   "UNRESOLVED_GRPC_SERVER", "UNRESOLVED_GRPC_METHOD", "INVALID_CRON_REGISTRATION",
   "UNRESOLVED_CRON_CALLBACK", "DYNAMIC_CRON_SCHEDULE", "MISSING_SQL_QUERY", "DYNAMIC_SQL",
   "DYNAMIC_REDIS_KEY", "DYNAMIC_KAFKA_VALUE", "INVALID_HTTP_CLIENT_CALL", "DYNAMIC_HTTP_URL",
   "DYNAMIC_HTTP_METHOD", "DYNAMIC_GRPC_TARGET"}

\* Those the loader gives the packages.
ErrorsOf(packages) == UNION {Range(p.errors) : p \in Range(packages)}

\* Types of the analysis, and its position: within the list the stage walks.
TypeOK ==
  /\ pc \in Stages /\ at \in 1..(Len(Walked(pc)) + 1)
  /\ adapters \subseteq Adapters
  /\ Range(loaded) \subseteq Range(input.packages)
  /\ project \subseteq {loaded[i].path : i \in DOMAIN loaded}
  /\ DOMAIN lists = Range(objects) /\ DOMAIN lists = {records[i].id : i \in DOMAIN records}
  /\ \A i \in DOMAIN endpoints : endpoints[i].registers.fn \in DOMAIN lists
  /\ \A i \in DOMAIN dependencies : dependencies[i].fn \in DOMAIN lists
  /\ \A i \in DOMAIN edges : edges[i].caller \in DOMAIN lists
  /\ \A i \in DOMAIN diagnostics :
       diagnostics[i].code \in Codes \cup ErrorsOf(input.packages) /\ diagnostics[i].at \in Nat

\* Two calls of one function that begin at one place, a chain, and go to the same
\* function or are both unresolved.
Chained ==
  \E i, j \in DOMAIN Sites :
    /\ i # j /\ Sites[i].in.id = Sites[j].in.id /\ Sites[i].call.at = Sites[j].call.at
    /\ LET callee == ResolveCall(Sites[i].call, objects, project)
       IN  callee # <<NotTracked>> /\ callee = ResolveCall(Sites[j].call, objects, project)

\* What a registration says of its endpoint, apart from where it is.
Said(e) == <<e.kind, e.fn, e.name, Present(e.verb) \o Present(e.path)>>

\* One function registered twice under the same method and route, or under
\* patterns, methods or schedules of which the constant part is the same.
RegisteredTwice ==
  \E i, j \in DOMAIN endpoints :
    i # j /\ Said(endpoints[i].registers) = Said(endpoints[j].registers)

\* Once the packages are loaded, a scan fails exactly when the code has such a
\* chain or such registrations: nothing else the analyzer cannot read stops it.
FailsOnlyOnTwins ==
  /\ pc = "failed" /\ input.loads => Chained \/ RegisteredTwice
  /\ pc = "converted" => ~Chained /\ ~RegisteredTwice

\* Two calls the converter cannot tell apart.
SameEdge(i, j) == i # j /\ CallEdgeID(edges[i]) = CallEdgeID(edges[j])

\* A call that cannot be resolved does not end the scan (phase-0-jira-stories.md):
\* where a scan fails, it would fail as well without its unresolved calls.
UnresolvedCallsDoNotInterrupt ==
  pc = "failed" /\ input.loads =>
    \/ \E kind \in EntityKinds \ {"edge"} : ~IsInjective(IDsOf[kind])
    \/ \E i, j \in DOMAIN edges : SameEdge(i, j) /\ edges[i].resolved /\ edges[j].resolved

Reported(where) == \E i \in DOMAIN diagnostics : diagnostics[i].at = where
ConfigReported == \E i \in DOMAIN diagnostics : diagnostics[i].code = "INVALID_CONFIG"

\* The adapters named in the configuration the command line checked.
Asked == IF Chosen = <<>> \/ Chosen[1].frameworks = {} THEN Adapters ELSE Chosen[1].frameworks

\* The same receiver, package name and name, or the same literal.
SameFunction(v, w) ==
  /\ v.function.parent = w.function.parent
  /\ IF v.function.parent = 0
       THEN <<v.function.recv, v.package, v.function.name>>
              = <<w.function.recv, w.package, w.function.name>>
       ELSE v.function.at = w.function.at

\* A function may only be missing because of one collected before it that is the
\* same, or because the function around it is missing.
MayBeMissing(visited, i) ==
  LET before == {j \in 1..(i - 1) : visited[j].function.number \in DOMAIN objects}
      f      == visited[i].function
  IN  \/ \E j \in before : SameFunction(visited[j], visited[i])
      \/ f.parent # 0 /\ \A j \in before : visited[j].function.number # f.parent

\* What a call in the body of function id must leave behind.
LeavesATrace(call, id) ==
  /\ (call.ref.kind = "function" /\ call.ref.package \in project)
       => \E i \in DOMAIN edges : edges[i].at = call.at /\ edges[i].caller = id
  /\ (call.role \in DOMAIN AdapterOf /\ AdapterOf[call.role] \in Asked /\ Handed = Chosen)
       => (\E i \in DOMAIN endpoints : endpoints[i].at = call.at) \/ Reported(call.at) \/ ConfigReported
  /\ (call.role \in DOMAIN KindOfRole /\ call.enough /\ call.ref.package \notin project)
       => \E i \in DOMAIN dependencies : dependencies[i].at = call.at /\ dependencies[i].fn = id

\* Every function of the analysed files is collected, unless one of its receiver,
\* package name and name was before it; and everything in the body it has in the
\* source that is a call of the project, a registration with a framework in use or
\* a client call leaves an edge, an endpoint or a dependency, or a diagnostic at
\* its place; unless --config names an empty file, when the analyzer takes the
\* adapters of another.
NothingIsLostSilently ==
  pc = "converted" =>
    \A i \in DOMAIN VisitedFunctions(loaded) :
      LET f == VisitedFunctions(loaded)[i].function
      IN  IF f.number \in DOMAIN objects
            THEN \A call \in Range(f.calls) : LeavesATrace(call, objects[f.number])
            ELSE MayBeMissing(VisitedFunctions(loaded), i)

\* The planner finds no dangling reference in any document, and a function lists
\* just the endpoints and dependencies that name it and the functions at the
\* other end of its resolved calls.
DocumentsArePlannable ==
  pc = "converted" =>
    LET doc == Document
    IN  /\ Dangling(doc, [k \in EntityKinds |-> {e.id : e \in Range(doc[k])}]) = {}
        /\ \A f \in Range(doc.function) :
             /\ f.endpoints = {e.id : e \in {x \in Range(doc.endpoint) : x.fn = f.id}}
             /\ f.dependencies = {d.id : d \in {x \in Range(doc.dependency) : x.fn = f.id}}
             /\ f.functions = {g.id : g \in {x \in Range(doc.function) :
                                  \E e \in Range(doc.edge) : /\ e.resolved
                                                             /\ {e.caller, e.callee} = {f.id, x.id}}}

\* What the variables hold after n assignments of the body: one whose right side
\* cannot be read puts something unknown in its variable.
Held(family, binds, n) ==
  LET held[k \in 0..n] ==
        IF k = 0 THEN [v \in {} |-> NoValue]
        ELSE [v \in DOMAIN held[k - 1] \cup {binds[k].var} |->
                IF v = binds[k].var THEN ValueOf(family, held[k - 1], binds[k].expr)
                ELSE held[k - 1][v]]
  IN  held[n]

Family == [http_do |-> "request", rpc |-> "dial"]

\* What the call is passed when it is reached: Get has its URL, Do a request and
\* a method of a gRPC client a connection.
Passed(call, binds) ==
  IF call.role = "http_get"
    THEN [verb |-> call.name, text |-> IF call.enough THEN call.text ELSE Dynamic, known |-> TRUE]
    ELSE ValueOf(Family[call.role], Held(Family[call.role], binds, call.before), call.expr)

\* Whether the variable the call is passed is assigned to after the call.
AssignedLater(call, binds) ==
  /\ call.expr.from \in {"variable", "client"}
  /\ \E n \in DOMAIN binds : n > call.before /\ binds[n].var = call.expr.of

\* The texts of the requests, or of the connections, made in the body.
Made(call, binds) ==
  IF call.role = "http_get" THEN {call.text}
  ELSE {e.text : e \in {x \in {call.expr} \cup {b.expr : b \in Range(binds)} :
                           x.from = Family[call.role]}}

\* The dependencies with a target, and the calls one may be of.
Targeted == {i \in DOMAIN dependencies : dependencies[i].uses.kind \in {"http_client", "rpc_client"}}
CallsBehind(d) ==
  {s \in Range(Sites) : /\ s.in.id = d.fn /\ s.call.at = d.at
                        /\ s.call.role \in DOMAIN KindOfRole /\ KindOfRole[s.call.role] = d.uses.kind}

\* A dependency says this of what is called.
Tells(d, value) ==
  /\ d.target = Read(value.text)
  /\ d.static = (Constant(value.text) /\ (d.kind = "http_client" => Constant(value.verb)))

\* Where the request or connection a call is passed can be read, and its variable
\* is not assigned to after the call, the document has its target, as static
\* just if it is constant; and in any case a target the body makes one for.
TargetsAreHeld ==
  pc = "converted" =>
    \A i \in Targeted :
      LET d == dependencies[i].uses
      IN  \E s \in CallsBehind(dependencies[i]) :
            LET value == Passed(s.call, s.in.binds)
            IN  /\ value.known /\ ~AssignedLater(s.call, s.in.binds) => Tells(d, value)
                /\ d.target # Empty => d.target \in Made(s.call, s.in.binds)

\* A target that cannot be determined is not made up (phase-0-jira-stories.md):
\* one that is called static is that of what the call is passed.
TargetsAreNotMadeUp ==
  pc = "converted" =>
    \A i \in Targeted :
      LET d == dependencies[i].uses
      IN  d.static => \E s \in CallsBehind(dependencies[i]) : Tells(d, Passed(s.call, s.in.binds))
==============================================================================
