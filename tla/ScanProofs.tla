------------------------------ MODULE ScanProofs ------------------------------
(***************************************************************************)
(* The scan keeps its invariants for every source, every loader result and *)
(* every configuration.                                                    *)
(*                                                                         *)
(* The lists the analysis appends to grow with the position in the list of *)
(* calls, so that the inductive invariant says of each what it holds once  *)
(* the first n calls are seen: an edge for each of them that is a call of  *)
(* the project, an endpoint or a diagnostic, a dependency.  At the end of  *)
(* a stage n is the number of calls.                                       *)
(***************************************************************************)
EXTENDS Scan, ListFacts

-----------------------------------------------------------------------------
(* Identities *)

\* What a resolved callee or a collected function is known by.
RealIDs(ids) == \A x \in ids : x # NoFunction /\ x # <<NotTracked>>

LEMMA NoFunctionIsTracked == NoFunction # <<NotTracked>>
BY DEF NoFunction

LEMMA FunctionIDsAreReal ==
  ASSUME NEW a, NEW b, NEW c
  PROVE  /\ FunctionID(a, b, c) # NoFunction /\ FunctionID(a, b, c) # <<NotTracked>>
         /\ LiteralID(a, b) # NoFunction /\ LiteralID(a, b) # <<NotTracked>>
BY DEF FunctionID, LiteralID, NoFunction

\* The parts of an edge can be read off its identity.
LEMMA CallEdgeIDOf ==
  ASSUME NEW edge
  PROVE  LET id == CallEdgeID(edge)
         IN  IF edge.callee = NoFunction
               THEN Len(id) = 3 /\ id[1] = edge.caller /\ id[3] = edge.at
               ELSE Len(id) = 4 /\ id[1] = edge.caller /\ id[2] = edge.callee /\ id[4] = edge.at
<1> DEFINE head == <<edge.caller>>
           middle == OnlyIf(edge.callee # NoFunction, <<edge.callee>>)
           last == <<edge.resolved, edge.at>>
           hm == head \o middle
           id == CallEdgeID(edge)
<1>1. id = hm \o last
  BY DEF CallEdgeID
<1>2. /\ IsList(head) /\ Len(head) = 1 /\ DOMAIN head = {1} /\ head[1] = edge.caller
      /\ IsList(last) /\ Len(last) = 2 /\ DOMAIN last = {1, 2} /\ last[2] = edge.at
  BY ListOfOne, ListOfTwo
<1>3. /\ IsList(middle)
      /\ edge.callee = NoFunction => Len(middle) = 0 /\ DOMAIN middle = {}
      /\ edge.callee # NoFunction => /\ Len(middle) = 1 /\ DOMAIN middle = {1}
                                     /\ middle[1] = edge.callee
  <2>1. CASE edge.callee = NoFunction
    <3>1. middle = <<>>
      BY <2>1 DEF OnlyIf
    <3> HIDE DEF middle
    <3> QED BY <2>1, <3>1, EmptyList
  <2>2. CASE edge.callee # NoFunction
    <3>1. middle = <<edge.callee>>
      BY <2>2 DEF OnlyIf
    <3> HIDE DEF middle
    <3> QED BY <2>2, <3>1, ListOfOne
  <2> QED BY <2>1, <2>2
<1> HIDE DEF head, middle, last, id
<1>4. Joined(hm, head, middle)
  BY <1>2, <1>3, ConcatJoins
<1> HIDE DEF hm
<1>5. Joined(id, hm, last)
  <2>1. IsList(hm)
    BY <1>4 DEF Joined
  <2> QED BY <1>1, <1>2, <2>1, ConcatJoins
<1>6. /\ Len(id) = 1 + Len(middle) + 2 /\ id[1] = edge.caller /\ id[1 + Len(middle) + 2] = edge.at
      /\ edge.callee # NoFunction => id[1 + 1] = edge.callee
  BY <1>2, <1>3, <1>4, <1>5 DEF Joined
<1>7. IF edge.callee = NoFunction
        THEN Len(id) = 3 /\ id[1] = edge.caller /\ id[3] = edge.at
        ELSE Len(id) = 4 /\ id[1] = edge.caller /\ id[2] = edge.callee /\ id[4] = edge.at
  <2>1. CASE edge.callee = NoFunction
    <3>1. Len(middle) = 0 /\ 1 + 0 + 2 = 3
      BY <1>3, <2>1
    <3> QED BY <1>6, <2>1, <3>1
  <2>2. CASE edge.callee # NoFunction
    <3>1. Len(middle) = 1 /\ 1 + 1 + 2 = 4 /\ 1 + 1 = 2
      BY <1>3, <2>2
    <3> QED BY <1>6, <2>2, <3>1
  <2> QED BY <2>1, <2>2
<1> QED BY <1>7 DEF id

LEMMA CallEdgeIDDecodes ==
  ASSUME NEW d, NEW e, d.resolved = (d.callee # NoFunction), e.resolved = (e.callee # NoFunction)
  PROVE  CallEdgeID(d) = CallEdgeID(e) <=>
           d.caller = e.caller /\ d.callee = e.callee /\ d.at = e.at
<1>1. CallEdgeID(d) = CallEdgeID(e) => d.caller = e.caller /\ d.callee = e.callee /\ d.at = e.at
  BY CallEdgeIDOf
<1>2. d.caller = e.caller /\ d.callee = e.callee /\ d.at = e.at => CallEdgeID(d) = CallEdgeID(e)
  BY DEF CallEdgeID
<1> QED BY <1>1, <1>2

\* So can the function and the place of a dependency.
LEMMA DependencyIDOf ==
  ASSUME NEW fn, NEW d, NEW where
  PROVE  LET id == DependencyID(fn, d, where)
         IN  Len(id) \in {6, 7} /\ id[1] = fn /\ id[Len(id)] = where
<1> DEFINE head == <<fn, d.kind, d.name, d.op, d.resource>>
           middle == Present(d.value)
           last == <<where>>
           hm == head \o middle
           id == DependencyID(fn, d, where)
<1>1. id = hm \o last
  BY DEF DependencyID
<1>2. /\ IsList(head) /\ Len(head) = 5 /\ 1 \in DOMAIN head /\ head[1] = fn
      /\ IsList(last) /\ Len(last) = 1 /\ 1 \in DOMAIN last /\ last[1] = where
  BY ListOfOne, ListOfFive
<1>3. IsList(middle) /\ Len(middle) \in {0, 1}
  BY EmptyList, ListOfOne DEF Present, OnlyIf
<1> HIDE DEF head, middle, last, id
<1>4. Joined(hm, head, middle)
  BY <1>2, <1>3, ConcatJoins
<1> HIDE DEF hm
<1>5. Joined(id, hm, last)
  <2>1. IsList(hm)
    BY <1>4 DEF Joined
  <2> QED BY <1>1, <1>2, <2>1, ConcatJoins
<1>6. Len(id) = 5 + Len(middle) + 1 /\ id[1] = fn /\ id[5 + Len(middle) + 1] = where
  BY <1>2, <1>4, <1>5 DEF Joined
<1>7. Len(id) \in {6, 7} /\ id[1] = fn /\ id[Len(id)] = where
  <2>1. Len(id) \in {6, 7}
    <3>1. Len(middle) = 0 => 5 + Len(middle) + 1 = 6
      OBVIOUS
    <3>2. Len(middle) = 1 => 5 + Len(middle) + 1 = 7
      OBVIOUS
    <3>3. Len(id) = 5 + Len(middle) + 1 /\ (Len(middle) = 0 \/ Len(middle) = 1)
      BY <1>3, <1>6
    <3> QED BY <3>1, <3>2, <3>3
  <2>2. Len(id) = 5 + Len(middle) + 1
    BY <1>6
  <2> QED BY <1>6, <2>1, <2>2
<1> QED BY <1>7 DEF id

LEMMA DependencyIDDecodes ==
  ASSUME NEW fn, NEW d, NEW where, NEW gn, NEW e, NEW there,
         DependencyID(fn, d, where) = DependencyID(gn, e, there)
  PROVE  fn = gn /\ where = there
BY DependencyIDOf

\* The name an adapter gives its endpoint depends on the function and the path.
WellNamed(e) ==
  \/ e.kind = "http" /\ e.name = NameOfFunction(e.fn, e.path)
  \/ e.kind = "grpc" /\ e.name = e.path
  \/ e.kind = "cron" /\ e.name = NameOfFunction(e.fn, "cron")

\* What comes after the name in the identity of an endpoint.
Rest(e) == Present(e.verb) \o Present(e.path)
Ones(text) == IF text = Empty THEN 0 ELSE 1

LEMMA PresentOnes ==
  ASSUME NEW t
  PROVE  /\ IsList(Present(t)) /\ Len(Present(t)) = Ones(t) /\ DOMAIN Present(t) = 1..Ones(t)
         /\ t # Empty => Present(t)[1] = t
<1>1. CASE t = Empty
  <2>1. Present(t) = <<>> /\ Ones(t) = 0
    BY <1>1 DEF Present, OnlyIf, Ones
  <2> QED BY <1>1, <2>1, EmptyList
<1>2. CASE t # Empty
  <2>1. Present(t) = <<t>> /\ Ones(t) = 1 /\ 1..1 = {1}
    BY <1>2 DEF Present, OnlyIf, Ones
  <2> QED BY <2>1, ListOfOne
<1> QED BY <1>1, <1>2

LEMMA EndpointIDOf ==
  ASSUME NEW e
  PROVE  /\ IsList(EndpointID(e)) /\ IsList(Rest(e))
         /\ Len(Rest(e)) = Ones(e.verb) + Ones(e.path)
         /\ Len(EndpointID(e)) = 2 + Ones(e.name) + Len(Rest(e))
         /\ EndpointID(e)[1] = e.kind /\ EndpointID(e)[2] = e.fn
         /\ e.name # Empty => EndpointID(e)[3] = e.name
         /\ \A i \in 1..Len(Rest(e)) : EndpointID(e)[2 + Ones(e.name) + i] = Rest(e)[i]
<1> DEFINE head == <<e.kind, e.fn>>
           name == Present(e.name)
           verb == Present(e.verb)
           path == Present(e.path)
           hn == head \o name
           hnv == hn \o verb
           id == EndpointID(e)
           rest == Rest(e)
<1>1. id = hnv \o path /\ rest = verb \o path
  BY DEF EndpointID, Rest
<1>2. IsList(head) /\ Len(head) = 2 /\ DOMAIN head = {1, 2} /\ head[1] = e.kind /\ head[2] = e.fn
  BY ListOfTwo
<1>3. /\ IsList(name) /\ Len(name) = Ones(e.name) /\ DOMAIN name = 1..Ones(e.name)
      /\ e.name # Empty => name[1] = e.name
      /\ IsList(verb) /\ Len(verb) = Ones(e.verb) /\ DOMAIN verb = 1..Ones(e.verb)
      /\ IsList(path) /\ Len(path) = Ones(e.path) /\ DOMAIN path = 1..Ones(e.path)
  BY PresentOnes
<1>4. Ones(e.name) \in {0, 1} /\ Ones(e.verb) \in {0, 1} /\ Ones(e.path) \in {0, 1}
      /\ (e.name # Empty => Ones(e.name) = 1)
  BY DEF Ones
<1> HIDE DEF head, name, verb, path, id, rest
<1>5. Joined(hn, head, name)
  BY <1>2, <1>3, ConcatJoins
<1> HIDE DEF hn
<1>6. Joined(hnv, hn, verb)
  BY <1>3, <1>5, ConcatJoins DEF Joined
<1> HIDE DEF hnv
<1>7. Joined(id, hnv, path) /\ Joined(rest, verb, path)
  <2>1. IsList(hnv)
    BY <1>6 DEF Joined
  <2> QED BY <1>1, <1>3, <2>1, ConcatJoins
<1>8. Len(rest) = Ones(e.verb) + Ones(e.path) /\ Len(id) = 2 + Ones(e.name) + Len(rest)
  BY <1>2, <1>3, <1>4, <1>5, <1>6, <1>7 DEF Joined
<1>9. /\ id[1] = e.kind /\ id[2] = e.fn
      /\ e.name # Empty => id[3] = e.name
  <2>1. 1 \in DOMAIN head /\ 2 \in DOMAIN head
    BY <1>2
  <2>2. hn[1] = e.kind /\ hn[2] = e.fn /\ 1 \in DOMAIN hn /\ 2 \in DOMAIN hn
    BY <1>2, <1>5, <2>1 DEF Joined
  <2>3. e.name # Empty => 3 \in DOMAIN hn /\ hn[3] = e.name
    <3>1. e.name # Empty => 1 \in DOMAIN name
      BY <1>3, <1>4
    <3>2. 2 + 1 = 3
      OBVIOUS
    <3> QED BY <1>2, <1>3, <1>5, <3>1, <3>2 DEF Joined
  <2> QED BY <1>6, <1>7, <2>2, <2>3 DEF Joined
<1>10. ASSUME NEW i \in 1..Len(rest)
       PROVE  id[2 + Ones(e.name) + i] = rest[i]
  <2>1. Len(hn) = 2 + Ones(e.name) /\ Len(hnv) = 2 + Ones(e.name) + Ones(e.verb)
    BY <1>2, <1>3, <1>5, <1>6 DEF Joined
  <2>2. DOMAIN rest = 1..Len(rest)
    BY <1>7 DEF Joined, IsList
  <2>3. CASE i \in DOMAIN verb
    <3>1. rest[i] = verb[i]
      BY <1>7, <2>3 DEF Joined
    <3>2. Len(hn) + i \in DOMAIN hnv /\ hnv[Len(hn) + i] = verb[i]
      BY <1>6, <2>3 DEF Joined
    <3>3. id[Len(hn) + i] = hnv[Len(hn) + i]
      BY <1>7, <3>2 DEF Joined
    <3> QED BY <2>1, <3>1, <3>2, <3>3
  <2>4. CASE i \notin DOMAIN verb
    <3>1. i - Len(verb) \in DOMAIN path /\ rest[i] = path[i - Len(verb)]
      BY <1>7, <2>2, <2>4 DEF Joined
    <3>2. id[Len(hnv) + (i - Len(verb))] = path[i - Len(verb)]
      BY <1>7, <3>1 DEF Joined
    <3>3. Len(hnv) + (i - Len(verb)) = 2 + Ones(e.name) + i
      BY <1>3, <1>4, <2>1
    <3> QED BY <3>1, <3>2, <3>3
  <2> QED BY <2>3, <2>4
<1>11. IsList(id) /\ IsList(rest)
  BY <1>7 DEF Joined
<1> QED BY <1>8, <1>9, <1>10, <1>11 DEF id, rest

\* Two registrations get one identity exactly when they say the same.
LEMMA EndpointIDDecodes ==
  ASSUME NEW d, NEW e, WellNamed(d), WellNamed(e)
  PROVE  EndpointID(d) = EndpointID(e) <=> Said(d) = Said(e)
<1>1. /\ Ones(d.name) \in {0, 1} /\ (Ones(d.name) = 0 <=> d.name = Empty)
      /\ Ones(e.name) \in {0, 1} /\ (Ones(e.name) = 0 <=> e.name = Empty)
      /\ Ones(d.verb) \in {0, 1} /\ Ones(e.verb) \in {0, 1}
      /\ Ones(d.path) \in {0, 1} /\ Ones(e.path) \in {0, 1}
  BY DEF Ones
<1>2. /\ IsList(EndpointID(d)) /\ IsList(Rest(d))
      /\ Len(Rest(d)) = Ones(d.verb) + Ones(d.path)
      /\ Len(EndpointID(d)) = 2 + Ones(d.name) + Len(Rest(d))
      /\ EndpointID(d)[1] = d.kind /\ EndpointID(d)[2] = d.fn
      /\ d.name # Empty => EndpointID(d)[3] = d.name
      /\ \A i \in 1..Len(Rest(d)) : EndpointID(d)[2 + Ones(d.name) + i] = Rest(d)[i]
  BY EndpointIDOf
<1>3. /\ IsList(EndpointID(e)) /\ IsList(Rest(e))
      /\ Len(Rest(e)) = Ones(e.verb) + Ones(e.path)
      /\ Len(EndpointID(e)) = 2 + Ones(e.name) + Len(Rest(e))
      /\ EndpointID(e)[1] = e.kind /\ EndpointID(e)[2] = e.fn
      /\ e.name # Empty => EndpointID(e)[3] = e.name
      /\ \A i \in 1..Len(Rest(e)) : EndpointID(e)[2 + Ones(e.name) + i] = Rest(e)[i]
  BY EndpointIDOf
<1>4. ASSUME EndpointID(d) = EndpointID(e)
      PROVE  Said(d) = Said(e)
  <2>1. d.kind = e.kind /\ d.fn = e.fn
    BY <1>2, <1>3, <1>4
  <2>2. Ones(d.name) + Ones(d.verb) + Ones(d.path) = Ones(e.name) + Ones(e.verb) + Ones(e.path)
    <3>1. Len(EndpointID(d)) = Len(EndpointID(e))
      BY <1>4
    <3> QED BY <1>1, <1>2, <1>3, <3>1
  <2>3. d.name = e.name \/ (d.name = d.path /\ e.name = e.path)
    BY <2>1 DEF WellNamed, NameOfFunction
  <2>4. Ones(d.name) = Ones(e.name)
    <3>1. CASE d.name = e.name
      BY <3>1
    <3>2. CASE d.name = d.path /\ e.name = e.path
      BY <1>1, <2>2, <3>2
    <3> QED BY <2>3, <3>1, <3>2
  <2>5. d.name = e.name
    BY <1>1, <1>2, <1>3, <1>4, <2>4
  <2>6. Rest(d) = Rest(e)
    <3>1. Len(Rest(d)) = Len(Rest(e)) /\ Len(Rest(d)) \in Nat
      BY <1>1, <1>2, <1>3, <2>2, <2>4
    <3>2. \A i \in 1..Len(Rest(d)) : Rest(d)[i] = Rest(e)[i]
      BY <1>2, <1>3, <1>4, <2>4, <3>1
    <3> QED BY <1>2, <1>3, <3>1, <3>2, ListsEqual
  <2> QED BY <2>1, <2>5, <2>6 DEF Said, Rest
<1>5. ASSUME Said(d) = Said(e)
      PROVE  EndpointID(d) = EndpointID(e)
  <2>1. d.kind = e.kind /\ d.fn = e.fn /\ d.name = e.name /\ Rest(d) = Rest(e)
    BY <1>5 DEF Said, Rest
  <2>2. Len(EndpointID(d)) = Len(EndpointID(e))
    BY <1>2, <1>3, <2>1
  <2>3. ASSUME NEW i \in 1..Len(EndpointID(d))
        PROVE  EndpointID(d)[i] = EndpointID(e)[i]
    <3>1. CASE i \in {1, 2} \/ (i = 3 /\ d.name # Empty)
      BY <1>2, <1>3, <2>1, <3>1
    <3>2. CASE ~(i \in {1, 2} \/ (i = 3 /\ d.name # Empty))
      <4> DEFINE j == i - 2 - Ones(d.name)
      <4>1. j \in 1..Len(Rest(d)) /\ 2 + Ones(d.name) + j = i
        BY <1>1, <1>2, <3>2
      <4> HIDE DEF j
      <4> QED BY <1>2, <1>3, <2>1, <4>1
    <3> QED BY <3>1, <3>2
  <2> QED BY <1>2, <1>3, <2>2, <2>3, ListsEqual
<1> QED BY <1>4, <1>5
-----------------------------------------------------------------------------
(* What the adapters and the rules make of one call *)

LEMMA KnownIsCollected ==
  ASSUME NEW objs, NEW number
  PROVE  Known(objs, number) # NoFunction => Known(objs, number) \in Range(objs)
BY DEF Known, Range

LEMMA ResolveCallFacts ==
  ASSUME NEW call, NEW objs, NEW proj, RealIDs(Range(objs))
  PROVE  /\ ResolveCall(call, objs, proj) \in Range(objs) \cup {NoFunction, <<NotTracked>>}
         /\ (call.ref.kind = "function" /\ call.ref.package \in proj)
              => ResolveCall(call, objs, proj) # <<NotTracked>>
<1>1. NoFunction # <<NotTracked>>
  BY NoFunctionIsTracked
<1>2. \A n \in DOMAIN objs : objs[n] \in Range(objs) /\ objs[n] # <<NotTracked>>
  BY DEF Range, RealIDs
<1>3. Known(objs, call.ref.number) \in Range(objs) \cup {NoFunction}
  BY KnownIsCollected
<1>4. CASE call.ref.kind = "literal"
  BY <1>3, <1>4 DEF ResolveCall
<1>5. CASE call.ref.kind = "function"
  BY <1>1, <1>2, <1>5 DEF ResolveCall
<1>6. CASE call.ref.kind \notin {"literal", "function"}
  BY <1>6 DEF ResolveCall
<1> QED BY <1>4, <1>5, <1>6

\* A match has endpoints of collected functions under well-chosen names.
ProperMatch(m, ids) ==
  /\ IsList(m.endpoints) /\ m.codes \in Seq(Codes)
  /\ \A i \in DOMAIN m.endpoints : m.endpoints[i].fn \in ids /\ WellNamed(m.endpoints[i])

Answers(m) == m.endpoints # <<>> \/ m.codes # <<>>

LEMMA NoEndpoint ==
  ASSUME NEW codes \in Seq(Codes), NEW ids
  PROVE  ProperMatch(Match(<<>>, codes), ids) /\ (codes # <<>> => Answers(Match(<<>>, codes)))
BY EmptyList DEF ProperMatch, Match, Answers

LEMMA OneEndpoint ==
  ASSUME NEW codes \in Seq(Codes), NEW ids, NEW e, e.fn \in ids, WellNamed(e)
  PROVE  ProperMatch(Match(<<e>>, codes), ids) /\ Answers(Match(<<e>>, codes))
<1>1. IsList(<<e>>) /\ DOMAIN <<e>> = {1} /\ <<e>>[1] = e /\ <<e>> # <<>>
  BY ListOfOne
<1> QED BY <1>1 DEF ProperMatch, Match, Answers

LEMMA OneCode ==
  ASSUME NEW c \in Codes
  PROVE  <<c>> \in Seq(Codes) /\ <<c>> # <<>>
BY OneIn

LEMMA CodeOrNone ==
  ASSUME NEW c \in Codes, NEW b
  PROVE  OnlyIf(b, <<c>>) \in Seq(Codes)
BY OneIn DEF OnlyIf

LEMMA NewEndpointIs ==
  ASSUME NEW kind, NEW fn, NEW name, NEW verb, NEW path
  PROVE  LET e == NewEndpoint(kind, fn, name, verb, path)
         IN  e.kind = kind /\ e.fn = fn /\ e.name = name /\ e.path = path
BY DEF NewEndpoint

LEMMA HTTPEndpointsProper ==
  ASSUME NEW call, NEW objs
  PROVE  /\ ProperMatch(HTTPEndpoints(call, objs), Range(objs))
         /\ Answers(HTTPEndpoints(call, objs))
<1> DEFINE fn == Known(objs, call.target)
           m == HTTPEndpoints(call, objs)
           e == NewEndpoint("http", fn, NameOfFunction(fn, Read(call.text)), PatternVerb(call),
                            Read(call.text))
<1>0. /\ DynamicPattern(call) \in Seq(Codes)
      /\ <<"INVALID_HTTP_REGISTRATION">> \in Seq(Codes)
      /\ <<"INVALID_HTTP_REGISTRATION">> # <<>>
      /\ <<"UNRESOLVED_HTTP_HANDLER">> \in Seq(Codes)
  <2>1. /\ "DYNAMIC_HTTP_PATTERN" \in Codes /\ "INVALID_HTTP_REGISTRATION" \in Codes
        /\ "UNRESOLVED_HTTP_HANDLER" \in Codes
    BY DEF Codes
  <2> QED BY <2>1, OneCode, CodeOrNone DEF DynamicPattern
<1>1. CASE ~call.enough
  <2>1. m = Match(<<>>, <<"INVALID_HTTP_REGISTRATION">>)
    BY <1>1 DEF HTTPEndpoints
  <2> QED BY <1>0, <2>1, NoEndpoint
<1>2. CASE call.enough /\ fn = NoFunction
  <2> DEFINE codes == DynamicPattern(call) \o <<"UNRESOLVED_HTTP_HANDLER">>
  <2>1. m = Match(<<>>, codes)
    BY <1>2 DEF HTTPEndpoints
  <2>2. codes \in Seq(Codes) /\ codes # <<>>
    <3> DEFINE d == DynamicPattern(call)
               c == <<"UNRESOLVED_HTTP_HANDLER">>
    <3>1. IsList(d) /\ IsList(c) /\ Len(c) = 1 /\ d \in Seq(Codes) /\ c \in Seq(Codes)
      BY <1>0, ListOfSet, ListOfOne
    <3> HIDE DEF d, c
    <3>2. d \o c \in Seq(Codes) /\ Len(d \o c) = Len(d) + 1 /\ Len(d) \in Nat
      <4>1. Joined(d \o c, d, c)
        BY <3>1, ConcatJoins
      <4>2. Len(d) \in Nat
        BY <3>1
      <4>3. d \o c \in Seq(Codes)
        BY <3>1
      <4> QED BY <3>1, <4>1, <4>2, <4>3 DEF Joined
    <3>3. d \o c # <<>>
      BY <3>2, EmptyList
    <3> QED BY <3>2, <3>3 DEF d, c
  <2> HIDE DEF codes
  <2> QED BY <2>1, <2>2, NoEndpoint
<1>3. CASE call.enough /\ fn # NoFunction
  <2>1. m = Match(<<e>>, DynamicPattern(call))
    BY <1>3 DEF HTTPEndpoints
  <2>2. e.fn \in Range(objs) /\ WellNamed(e)
    BY <1>3, KnownIsCollected, NewEndpointIs DEF WellNamed
  <2> HIDE DEF e, m, fn
  <2>3. ProperMatch(m, Range(objs)) /\ Answers(m)
    BY <1>0, <2>1, <2>2, OneEndpoint
  <2> QED BY <2>3 DEF m
<1> QED BY <1>1, <1>2, <1>3

LEMMA CronEndpointsProper ==
  ASSUME NEW call, NEW objs
  PROVE  /\ ProperMatch(CronEndpoints(call, objs), Range(objs))
         /\ Answers(CronEndpoints(call, objs))
<1> DEFINE fn == Known(objs, call.target)
           m == CronEndpoints(call, objs)
           e == NewEndpoint("cron", fn, NameOfFunction(fn, "cron"), Empty, Read(call.text))
           codes == OnlyIf(~Constant(call.text), <<"DYNAMIC_CRON_SCHEDULE">>)
<1>0. /\ codes \in Seq(Codes)
      /\ <<"INVALID_CRON_REGISTRATION">> \in Seq(Codes)
      /\ <<"INVALID_CRON_REGISTRATION">> # <<>>
      /\ <<"UNRESOLVED_CRON_CALLBACK">> \in Seq(Codes)
      /\ <<"UNRESOLVED_CRON_CALLBACK">> # <<>>
  <2>1. /\ "DYNAMIC_CRON_SCHEDULE" \in Codes /\ "INVALID_CRON_REGISTRATION" \in Codes
        /\ "UNRESOLVED_CRON_CALLBACK" \in Codes
    BY DEF Codes
  <2> QED BY <2>1, OneCode, CodeOrNone
<1>1. CASE ~call.enough
  <2>1. m = Match(<<>>, <<"INVALID_CRON_REGISTRATION">>)
    BY <1>1 DEF CronEndpoints
  <2> QED BY <1>0, <2>1, NoEndpoint
<1>2. CASE call.enough /\ fn = NoFunction
  <2>1. m = Match(<<>>, <<"UNRESOLVED_CRON_CALLBACK">>)
    BY <1>2 DEF CronEndpoints
  <2> QED BY <1>0, <2>1, NoEndpoint
<1>3. CASE call.enough /\ fn # NoFunction
  <2>1. m = Match(<<e>>, codes)
    BY <1>3 DEF CronEndpoints
  <2>2. e.fn \in Range(objs) /\ WellNamed(e)
    BY <1>3, KnownIsCollected, NewEndpointIs DEF WellNamed
  <2> HIDE DEF e, m, fn, codes
  <2>3. ProperMatch(m, Range(objs)) /\ Answers(m)
    BY <1>0, <2>1, <2>2, OneEndpoint
  <2> QED BY <2>3 DEF m
<1> QED BY <1>1, <1>2, <1>3

LEMMA GRPCEndpointsProper ==
  ASSUME NEW call, call.methods \in Seq([name : STRING, number : Nat]), NEW objs
  PROVE  /\ ProperMatch(GRPCEndpoints(call, objs), Range(objs))
         /\ Answers(GRPCEndpoints(call, objs))
<1> DEFINE S == [name : STRING, number : Nat]
           methods == call.methods
           here == {i \in DOMAIN methods : Known(objs, methods[i].number) # NoFunction}
           found == Kept(methods, here)
           lost == Kept(methods, DOMAIN methods \ here)
           opaque == \E i \in DOMAIN methods : ~Constant(methods[i].name)
           eps == [i \in DOMAIN found |-> NewEndpoint("grpc", Known(objs, found[i].number),
                                                      found[i].name, call.name, found[i].name)]
           codes == [i \in DOMAIN lost |-> "UNRESOLVED_GRPC_METHOD"]
           m == GRPCEndpoints(call, objs)
<1>0. /\ <<"INVALID_GRPC_REGISTRATION">> \in Seq(Codes)
      /\ <<"INVALID_GRPC_REGISTRATION">> # <<>>
      /\ <<"UNRESOLVED_GRPC_SERVER">> \in Seq(Codes)
      /\ <<"UNRESOLVED_GRPC_SERVER">> # <<>>
  <2>1. "INVALID_GRPC_REGISTRATION" \in Codes /\ "UNRESOLVED_GRPC_SERVER" \in Codes
    BY DEF Codes
  <2> QED BY <2>1, OneCode
<1>1. CASE ~call.enough
  <2>1. m = Match(<<>>, <<"INVALID_GRPC_REGISTRATION">>)
    BY <1>1 DEF GRPCEndpoints
  <2> QED BY <1>0, <2>1, NoEndpoint
<1>2. CASE call.enough /\ (opaque \/ methods = <<>>)
  <2>1. m = Match(<<>>, <<"UNRESOLVED_GRPC_SERVER">>)
    BY <1>2 DEF GRPCEndpoints
  <2> QED BY <1>0, <2>1, NoEndpoint
<1>3. CASE call.enough /\ ~(opaque \/ methods = <<>>)
  <2>1. m = Match(eps, codes)
    BY <1>3 DEF GRPCEndpoints
  <2>2. /\ found \in Seq(S) /\ Selects(found, methods, here)
        /\ lost \in Seq(S) /\ Selects(lost, methods, DOMAIN methods \ here)
    <3>1. methods \in Seq(S)
      OBVIOUS
    <3> HIDE DEF methods, S, here
    <3> QED BY <3>1, KeptSelects
  <2> HIDE DEF found, lost
  <2>3. /\ DOMAIN found = 1..Len(found) /\ Len(found) \in Nat
        /\ DOMAIN lost = 1..Len(lost) /\ Len(lost) \in Nat
    BY <2>2
  <2>4. IsList(eps) /\ DOMAIN eps = DOMAIN found
    <3>1. eps = [i \in 1..Len(found) |-> eps[i]] /\ DOMAIN eps = DOMAIN found
      BY <2>3
    <3> HIDE DEF eps
    <3> QED BY <2>3, <3>1, ListFromFunction
  <2>5. codes \in Seq(Codes) /\ DOMAIN codes = DOMAIN lost
    <3> DEFINE U == Codes
               c == "UNRESOLVED_GRPC_METHOD"
               all == [i \in DOMAIN lost |-> c]
    <3>1. c \in U
      BY DEF Codes
    <3> HIDE DEF U, c
    <3>2. all \in Seq(U) /\ DOMAIN all = DOMAIN lost
      BY <2>3, <3>1
    <3> QED BY <3>2 DEF U, c
  <2>6. ASSUME NEW i \in DOMAIN eps
        PROVE  eps[i].fn \in Range(objs) /\ WellNamed(eps[i])
    <3>1. PICK j \in DOMAIN methods : j \in here /\ found[i] = methods[j]
      BY <2>2, <2>4 DEF Selects
    <3>2. eps[i] = NewEndpoint("grpc", Known(objs, found[i].number), found[i].name, call.name,
                               found[i].name)
      BY <2>4
    <3>3. Known(objs, found[i].number) # NoFunction
      BY <3>1
    <3> HIDE DEF eps
    <3> QED BY <3>2, <3>3, KnownIsCollected, NewEndpointIs DEF WellNamed
  <2>7. eps # <<>> \/ codes # <<>>
    <3>1. 1 \in DOMAIN methods
      <4>1. Len(methods) # 0 /\ DOMAIN methods = 1..Len(methods) /\ Len(methods) \in Nat
        BY <1>3
      <4> QED BY <4>1
    <3>2. CASE 1 \in here
      <4>1. DOMAIN eps # {}
        BY <2>2, <2>4, <3>1, <3>2 DEF Selects
      <4> HIDE DEF eps
      <4> QED BY <4>1, EmptyList
    <3>3. CASE 1 \notin here
      <4>1. DOMAIN codes # {}
        BY <2>2, <2>5, <3>1, <3>3 DEF Selects
      <4> HIDE DEF codes
      <4> QED BY <4>1, EmptyList
    <3> QED BY <3>2, <3>3
  <2> HIDE DEF eps, codes, m
  <2>8. ProperMatch(m, Range(objs)) /\ Answers(m)
    BY <2>1, <2>4, <2>5, <2>6, <2>7 DEF ProperMatch, Answers, Match
  <2> QED BY <2>8 DEF m
<1> QED BY <1>1, <1>2, <1>3

\* A call of a framework in use is answered by an endpoint or a diagnostic.
LEMMA MatchEndpointFacts ==
  ASSUME NEW call \in CallExpression, NEW objs, NEW adapt
  PROVE  /\ ProperMatch(MatchEndpoint(call, objs, adapt), Range(objs))
         /\ (call.role \in DOMAIN AdapterOf /\ AdapterOf[call.role] \in adapt)
              => Answers(MatchEndpoint(call, objs, adapt))
<1> DEFINE m == MatchEndpoint(call, objs, adapt)
           In == call.role \in DOMAIN AdapterOf /\ AdapterOf[call.role] \in adapt
<1>0. /\ call.methods \in Seq([name : STRING, number : Nat])
      /\ (call.role # "other" => HasTarget(call))
      /\ DOMAIN AdapterOf = {"http_handle", "mux_handle", "grpc_register", "cron_add",
                            "router_handle"}
  BY DEF CallExpression, AdapterOf
<1>1. CASE ~(HasTarget(call) /\ In)
  <2>1. m = Match(<<>>, <<>>)
    BY <1>1 DEF MatchEndpoint
  <2>2. ~In
    BY <1>0, <1>1
  <2>3. <<>> \in Seq(Codes)
    OBVIOUS
  <2> QED BY <2>1, <2>2, <2>3, NoEndpoint
<1>2. CASE HasTarget(call) /\ In
  <2>1. CASE call.role \in {"http_handle", "mux_handle"}
    <3>1. m = HTTPEndpoints(call, objs)
      BY <1>2, <2>1 DEF MatchEndpoint
    <3> QED BY <3>1, HTTPEndpointsProper
  <2>2. CASE call.role = "grpc_register"
    <3>1. m = GRPCEndpoints(call, objs)
      BY <1>2, <2>2 DEF MatchEndpoint
    <3> QED BY <1>0, <3>1, GRPCEndpointsProper
  <2>3. CASE call.role = "cron_add"
    <3>1. m = CronEndpoints(call, objs)
      BY <1>2, <2>3 DEF MatchEndpoint
    <3> QED BY <3>1, CronEndpointsProper
  <2>4. CASE call.role = "router_handle"
    <3>1. m = Match(<<>>, <<"UNSUPPORTED_HTTP_ROUTER">>)
      BY <1>2, <2>4 DEF MatchEndpoint
    <3>2. "UNSUPPORTED_HTTP_ROUTER" \in Codes
      BY DEF Codes
    <3>3. <<"UNSUPPORTED_HTTP_ROUTER">> \in Seq(Codes) /\ <<"UNSUPPORTED_HTTP_ROUTER">> # <<>>
      BY <3>2, OneCode
    <3> QED BY <3>1, <3>3, NoEndpoint
  <2> QED BY <1>0, <1>2, <2>1, <2>2, <2>3, <2>4
<1> QED BY <1>1, <1>2
\* What the variables hold after each assignment.
Texts == STRING \cup {Dynamic}
Values == [verb : Texts, text : Texts, known : BOOLEAN]
Environments == UNION {[D -> Values] : D \in SUBSET Nat}

IsBinding(bound, family, binds) ==
  /\ bound[0] = [v \in {} |-> NoValue]
  /\ \A n \in 1..Len(binds) :
       /\ bound[n - 1] \in Environments
       /\ bound[n] = Assign(bound[n - 1], binds[n].var,
                            ValueOf(family, bound[n - 1], binds[n].expr))

Put(t, var, value) == [v \in DOMAIN t \cup {var} |-> IF v = var THEN value ELSE t[v]]

IsHolding(held, family, binds, K) ==
  /\ held[0] = [v \in {} |-> NoValue]
  /\ \A n \in 1..K :
       /\ held[n - 1] \in Environments
       /\ held[n] = Put(held[n - 1], binds[n].var, ValueOf(family, held[n - 1], binds[n].expr))

LEMMA ValueOfFacts ==
  ASSUME NEW family \in {"request", "dial"}, NEW t \in Environments, NEW x \in Expression
  PROVE  /\ ValueOf(family, t, x) \in Values
         /\ \/ ValueOf(family, t, x).text = x.text
            \/ x.of \in DOMAIN t /\ ValueOf(family, t, x) = t[x.of]
            \/ ValueOf(family, t, x) = NoValue
<1> DEFINE y == ValueOf(family, t, x)
           here == (x.from = "variable" \/ (x.from = "client" /\ family = "dial"))
                     /\ x.of \in DOMAIN t
<1>1. CASE x.from = family
  <2>1. y = [verb |-> x.verb, text |-> x.text, known |-> TRUE]
    BY <1>1 DEF ValueOf
  <2>2. x.verb \in Texts /\ x.text \in Texts
    BY DEF Expression, Texts
  <2>3. y.text = x.text
    BY <2>1
  <2>4. y \in Values
    BY <2>1, <2>2 DEF Values
  <2> QED BY <2>3, <2>4
<1>2. CASE x.from # family /\ here
  <2>1. y = t[x.of]
    BY <1>2 DEF ValueOf
  <2>2. t[x.of] \in Values
    BY <1>2 DEF Environments
  <2> QED BY <1>2, <2>1, <2>2
<1>3. CASE x.from # family /\ ~here
  <2>1. y = NoValue
    BY <1>3 DEF ValueOf
  <2>2. NoValue \in Values
    BY DEF NoValue, Values, Texts
  <2> QED BY <2>1, <2>2
<1> QED BY <1>1, <1>2, <1>3

LEMMA PutBinds ==
  ASSUME NEW t \in Environments, NEW var \in Nat, NEW value \in Values
  PROVE  Put(t, var, value) \in Environments
<1>1. PICK D \in SUBSET Nat : t \in [D -> Values]
  BY DEF Environments
<1>2. D \cup {var} \in SUBSET Nat /\ Put(t, var, value) \in [D \cup {var} -> Values]
  BY <1>1 DEF Put
<1> QED BY <1>2 DEF Environments

LEMMA AssignBinds ==
  ASSUME NEW t \in Environments, NEW var \in Nat, NEW value \in Values
  PROVE  Assign(t, var, value) \in Environments
<1>1. Put(t, var, value) \in Environments
  BY PutBinds
<1> QED BY <1>1 DEF Assign, Put

LEMMA BindIs ==
  ASSUME NEW family \in {"request", "dial"}, NEW binds \in Seq(Assignment)
  PROVE  \E bound : /\ IsBinding(bound, family, binds) /\ Bind(family, binds) = bound[Len(binds)]
                    /\ bound[Len(binds)] \in Environments
<1> DEFINE N == Len(binds)
           base == [v \in {} |-> NoValue]
           Next1(t, i) == Assign(t, binds[i].var, ValueOf(family, t, binds[i].expr))
           step == [p \in Environments \X (1..N) |-> Next1(p[1], p[2])]
           Solves(f) == f = [n \in 0..N |-> IF n = 0 THEN base ELSE Next1(f[n - 1], n)]
<1>1. N \in Nat /\ base \in Environments
  <2>1. base \in [{} -> Values]
    OBVIOUS
  <2> HIDE DEF base
  <2>2. base \in Environments
    BY <2>1 DEF Environments
  <2> QED BY <2>2
<1>2. \A t \in Environments, i \in 1..N : step[<<t, i>>] = Next1(t, i)
  OBVIOUS
<1>3. StepsWithin(step, N, Environments)
  <2>1. ASSUME NEW t \in Environments, NEW i \in 1..N
        PROVE  Next1(t, i) \in Environments
    <3>1. binds[i] \in Assignment
      OBVIOUS
    <3>2. binds[i].var \in Nat /\ binds[i].expr \in Expression
      BY <3>1 DEF Assignment
    <3>3. ValueOf(family, t, binds[i].expr) \in Values
      BY <3>2, ValueOfFacts
    <3> QED BY <3>2, <3>3, AssignBinds
  <2> HIDE DEF step, Next1
  <2> QED BY <1>2, <2>1 DEF StepsWithin
<1>4. PICK f : IsRecursion(f, N, Environments, base, step)
  <2> HIDE DEF N, base, step
  <2> QED BY <1>1, <1>3, RecursionExists
<1>5. Solves(f) /\ f \in [0..N -> Environments]
  <2>2. f \in [0..N -> Environments] /\ f[0] = base /\ \A i \in 1..N : f[i] = step[<<f[i - 1], i>>]
    BY <1>4 DEF IsRecursion
  <2> HIDE DEF step, Next1, base
  <2>3. \A i \in 1..N : i - 1 \in 0..N /\ f[i - 1] \in Environments /\ f[i] = Next1(f[i - 1], i)
    <3> SUFFICES ASSUME NEW i \in 1..N
                 PROVE  i - 1 \in 0..N /\ f[i - 1] \in Environments /\ f[i] = Next1(f[i - 1], i)
      OBVIOUS
    <3>1. i - 1 \in 0..N
      BY <1>1
    <3> QED BY <1>2, <2>2, <3>1
  <2>4. \A n \in 0..N : f[n] = IF n = 0 THEN base ELSE Next1(f[n - 1], n)
    BY <1>1, <2>2, <2>3
  <2>5. f = [n \in 0..N |-> f[n]]
    BY <2>2
  <2>6. Solves(f)
    BY <2>4, <2>5
  <2> QED BY <2>2, <2>6
<1> DEFINE bound == CHOOSE g : Solves(g)
<1>6. Solves(bound)
  <2> HIDE DEF Solves
  <2> QED BY <1>5
<1>7. Bind(family, binds) = bound[N]
  BY DEF Bind
<1> HIDE DEF bound
<1>8. /\ \A n \in 0..N : bound[n] = IF n = 0 THEN base ELSE Next1(bound[n - 1], n)
      /\ \A n \in 1..N : n \in 0..N /\ n # 0 /\ n - 1 \in 0..N
      /\ 0 \in 0..N /\ N \in 0..N
  <2> HIDE DEF Next1, base
  <2> QED BY <1>1, <1>6
<1>9. \A n \in 0..N : bound[n] \in Environments
  <2> DEFINE G == {n \in 0..N : bound[n] \in Environments}
  <2>1. 0 \in G
    <3> HIDE DEF Next1, base
    <3> QED BY <1>1, <1>8
  <2>2. \A n \in 0..(N - 1) : n \in G => n + 1 \in G
    <3> SUFFICES ASSUME NEW n \in 0..(N - 1), bound[n] \in Environments
                 PROVE  n + 1 \in G
      OBVIOUS
    <3>1. n + 1 \in 1..N /\ (n + 1) - 1 = n
      BY <1>1
    <3>2. step[<<bound[n], n + 1>>] \in Environments
      <4> HIDE DEF step
      <4> QED BY <1>3, <3>1 DEF StepsWithin
    <3> HIDE DEF step, Next1, base
    <3>3. step[<<bound[n], n + 1>>] = Next1(bound[n], n + 1)
      BY <1>2, <3>1
    <3>4. bound[n + 1] = Next1(bound[n], n + 1)
      BY <1>8, <3>1
    <3> QED BY <1>8, <3>1, <3>2, <3>3, <3>4
  <2> HIDE DEF G
  <2>3. 0..N \subseteq G
    <3> HIDE DEF N
    <3> QED BY <1>1, <2>1, <2>2, IntervalInduction
  <2> QED BY <2>3 DEF G
<1>10. IsBinding(bound, family, binds)
  <2>1. bound[0] = base
    <3> HIDE DEF Next1, base
    <3> QED BY <1>8
  <2>2. \A n \in 1..N : bound[n - 1] \in Environments /\ bound[n] = Next1(bound[n - 1], n)
    <3> HIDE DEF Next1, base
    <3> QED BY <1>8, <1>9
  <2> QED BY <2>1, <2>2 DEF IsBinding
<1> QED BY <1>7, <1>8, <1>9, <1>10

LEMMA HeldIs ==
  ASSUME NEW family \in {"request", "dial"}, NEW binds \in Seq(Assignment),
         NEW K \in 0..Len(binds)
  PROVE  \E held : IsHolding(held, family, binds, K) /\ Held(family, binds, K) = held[K]
                   /\ held[K] \in Environments
<1> DEFINE base == [v \in {} |-> NoValue]
           Next1(t, i) == Put(t, binds[i].var, ValueOf(family, t, binds[i].expr))
           step == [p \in Environments \X (1..K) |-> Next1(p[1], p[2])]
           Solves(f) == f = [n \in 0..K |-> IF n = 0 THEN base ELSE Next1(f[n - 1], n)]
<1>1. K \in Nat /\ base \in Environments /\ \A i \in 1..K : binds[i] \in Assignment
  <2>1. base \in [{} -> Values]
    OBVIOUS
  <2> HIDE DEF base
  <2>2. base \in Environments
    BY <2>1 DEF Environments
  <2> QED BY <2>2
<1>2. \A t \in Environments, i \in 1..K : step[<<t, i>>] = Next1(t, i)
  OBVIOUS
<1>3. StepsWithin(step, K, Environments)
  <2>1. ASSUME NEW t \in Environments, NEW i \in 1..K
        PROVE  Next1(t, i) \in Environments
    <3>1. binds[i] \in Assignment
      BY <1>1
    <3>2. binds[i].var \in Nat /\ binds[i].expr \in Expression
      BY <3>1 DEF Assignment
    <3>3. ValueOf(family, t, binds[i].expr) \in Values
      BY <3>2, ValueOfFacts
    <3> QED BY <3>2, <3>3, PutBinds
  <2> HIDE DEF step, Next1
  <2> QED BY <1>2, <2>1 DEF StepsWithin
<1>4. PICK f : IsRecursion(f, K, Environments, base, step)
  <2> HIDE DEF base, step
  <2> QED BY <1>1, <1>3, RecursionExists
<1>5. Solves(f) /\ f \in [0..K -> Environments]
  <2>1. f \in [0..K -> Environments] /\ f[0] = base /\ \A i \in 1..K : f[i] = step[<<f[i - 1], i>>]
    BY <1>4 DEF IsRecursion
  <2> HIDE DEF step, Next1, base
  <2>2. \A i \in 1..K : i - 1 \in 0..K /\ f[i - 1] \in Environments /\ f[i] = Next1(f[i - 1], i)
    <3> SUFFICES ASSUME NEW i \in 1..K
                 PROVE  i - 1 \in 0..K /\ f[i - 1] \in Environments /\ f[i] = Next1(f[i - 1], i)
      OBVIOUS
    <3>1. i - 1 \in 0..K
      BY <1>1
    <3> QED BY <1>2, <2>1, <3>1
  <2>3. \A n \in 0..K : f[n] = IF n = 0 THEN base ELSE Next1(f[n - 1], n)
    BY <1>1, <2>1, <2>2
  <2>4. f = [n \in 0..K |-> f[n]]
    BY <2>1
  <2> QED BY <2>1, <2>3, <2>4
<1> DEFINE held == CHOOSE g : Solves(g)
<1>6. Solves(held)
  <2> HIDE DEF Solves
  <2> QED BY <1>5
<1>7. Held(family, binds, K) = held[K]
  BY DEF Held, Put
<1> HIDE DEF held
<1>8. /\ \A n \in 0..K : held[n] = IF n = 0 THEN base ELSE Next1(held[n - 1], n)
      /\ \A n \in 1..K : n \in 0..K /\ n # 0 /\ n - 1 \in 0..K
      /\ 0 \in 0..K /\ K \in 0..K
  <2> HIDE DEF Next1, base
  <2> QED BY <1>1, <1>6
<1>9. \A n \in 0..K : held[n] \in Environments
  <2> DEFINE G == {n \in 0..K : held[n] \in Environments}
  <2>1. 0 \in G
    <3> HIDE DEF Next1, base
    <3> QED BY <1>1, <1>8
  <2>2. \A n \in 0..(K - 1) : n \in G => n + 1 \in G
    <3> SUFFICES ASSUME NEW n \in 0..(K - 1), held[n] \in Environments
                 PROVE  n + 1 \in G
      OBVIOUS
    <3>1. n + 1 \in 1..K /\ (n + 1) - 1 = n
      BY <1>1
    <3>2. step[<<held[n], n + 1>>] \in Environments
      <4> HIDE DEF step
      <4> QED BY <1>3, <3>1 DEF StepsWithin
    <3> HIDE DEF step, Next1, base
    <3>3. step[<<held[n], n + 1>>] = Next1(held[n], n + 1)
      BY <1>2, <3>1
    <3>4. held[n + 1] = Next1(held[n], n + 1)
      BY <1>8, <3>1
    <3> QED BY <1>8, <3>1, <3>2, <3>3, <3>4
  <2> HIDE DEF G
  <2>3. 0..K \subseteq G
    BY <1>1, <2>1, <2>2, IntervalInduction
  <2> QED BY <2>3 DEF G
<1>10. IsHolding(held, family, binds, K)
  <2>1. held[0] = base
    <3> HIDE DEF Next1, base
    <3> QED BY <1>8
  <2>2. \A n \in 1..K : held[n - 1] \in Environments /\ held[n] = Next1(held[n - 1], n)
    <3> HIDE DEF Next1, base
    <3> QED BY <1>8, <1>9
  <2> QED BY <2>1, <2>2 DEF IsHolding
<1> QED BY <1>7, <1>8, <1>9, <1>10

\* Where an expression can be read, it is read the same if the variables that
\* can be read hold the same.
Agree(t, u) == \A v \in DOMAIN t : t[v].known => v \in DOMAIN u /\ u[v] = t[v]

LEMMA AgreedValues ==
  ASSUME NEW family, NEW t, NEW u, NEW x, ValueOf(family, t, x).known,
         (x.from # family /\ x.of \in DOMAIN t /\ t[x.of].known) => x.of \in DOMAIN u /\ u[x.of] = t[x.of]
  PROVE  ValueOf(family, u, x) = ValueOf(family, t, x)
<1>1. CASE x.from = family
  BY <1>1 DEF ValueOf
<1>2. CASE x.from # family
  <2> DEFINE reads == (x.from = "variable" \/ (x.from = "client" /\ family = "dial"))
  <2>1. reads /\ x.of \in DOMAIN t
    BY <1>2 DEF ValueOf, NoValue
  <2>2. ValueOf(family, t, x) = t[x.of]
    BY <1>2, <2>1 DEF ValueOf
  <2>3. x.of \in DOMAIN u /\ u[x.of] = t[x.of]
    BY <1>2, <2>1, <2>2
  <2>4. ValueOf(family, u, x) = u[x.of]
    BY <1>2, <2>1, <2>3 DEF ValueOf
  <2> QED BY <2>2, <2>3, <2>4
<1> QED BY <1>1, <1>2

\* The analysis binds at least what a variable holds that can be read.
LEMMA HeldIsBound ==
  ASSUME NEW family \in {"request", "dial"}, NEW binds \in Seq(Assignment),
         NEW bound, IsBinding(bound, family, binds),
         NEW K \in 0..Len(binds), NEW held, IsHolding(held, family, binds, K)
  PROVE  Agree(held[K], bound[K])
<1> DEFINE G == {n \in 0..K : Agree(held[n], bound[n])}
<1>1. K \in Nat /\ 1..K \subseteq 1..Len(binds)
  OBVIOUS
<1>2. 0 \in G
  <2>1. DOMAIN held[0] = {}
    BY DEF IsHolding
  <2> QED BY <1>1, <2>1 DEF Agree
<1>3. ASSUME NEW n \in 0..(K - 1), n \in G
      PROVE  n + 1 \in G
  <2> DEFINE m == n + 1
             var == binds[m].var
             x == binds[m].expr
             y == ValueOf(family, held[n], x)
             z == ValueOf(family, bound[n], x)
  <2>1. m \in 1..K /\ m - 1 = n /\ m \in 0..K /\ m \in 1..Len(binds)
    BY <1>1
  <2>2. held[m] = Put(held[n], var, y) /\ bound[m] = Assign(bound[n], var, z)
    BY <2>1 DEF IsHolding, IsBinding
  <2>3. Agree(held[n], bound[n])
    BY <1>3
  <2>4. y.known => z = y
    <3> HIDE DEF x
    <3> QED BY <2>3, AgreedValues DEF Agree
  <2> HIDE DEF m, var, y, z
  <2>5. ASSUME NEW v \in DOMAIN held[m], held[m][v].known
        PROVE  v \in DOMAIN bound[m] /\ bound[m][v] = held[m][v]
    <3>1. CASE v = var
      <4>1. held[m][v] = y
        BY <2>2, <3>1 DEF Put
      <4>2. z = y /\ z.known
        BY <2>4, <2>5, <4>1
      <4> QED BY <2>2, <3>1, <4>1, <4>2 DEF Assign
    <3>2. CASE v # var
      <4>1. v \in DOMAIN held[n] /\ held[m][v] = held[n][v]
        BY <2>2, <3>2 DEF Put
      <4>2. v \in DOMAIN bound[n] /\ bound[n][v] = held[n][v]
        BY <2>3, <2>5, <4>1 DEF Agree
      <4> QED BY <2>2, <3>2, <4>1, <4>2 DEF Assign
    <3> QED BY <3>1, <3>2
  <2>6. Agree(held[m], bound[m])
    BY <2>5 DEF Agree
  <2> QED BY <2>1, <2>6 DEF m
<1> HIDE DEF G
<1>4. 0..K \subseteq G
  BY <1>1, <1>2, <1>3, IntervalInduction
<1> QED BY <1>1, <1>4 DEF G

\* A variable keeps its binding as long as it is not assigned to.
LEMMA BindingStays ==
  ASSUME NEW family, NEW binds \in Seq(Assignment),
         NEW bound, IsBinding(bound, family, binds),
         NEW K \in 0..Len(binds), NEW v \in DOMAIN bound[K],
         \A n \in 1..Len(binds) : n > K => binds[n].var # v
  PROVE  v \in DOMAIN bound[Len(binds)] /\ bound[Len(binds)][v] = bound[K][v]
<1> DEFINE M == Len(binds) - K
           Same(n) == v \in DOMAIN bound[n] /\ bound[n][v] = bound[K][v]
           G == {n \in 0..M : Same(K + n)}
<1>1. M \in Nat /\ K \in Nat /\ K + 0 = K /\ K + M = Len(binds) /\ M \in 0..M
  OBVIOUS
<1>2. 0 \in G
  BY <1>1
<1>3. \A n \in 0..(M - 1) : n \in G => n + 1 \in G
  <2> SUFFICES ASSUME NEW n \in 0..(M - 1), Same(K + n)
               PROVE  n + 1 \in 0..M /\ Same(K + (n + 1))
    OBVIOUS
  <2> DEFINE m == K + (n + 1)
  <2>1. m \in 1..Len(binds) /\ m - 1 = K + n /\ m > K /\ n + 1 \in 0..M
    BY <1>1
  <2>2. bound[m] = Assign(bound[K + n], binds[m].var, ValueOf(family, bound[K + n], binds[m].expr))
    BY <2>1 DEF IsBinding
  <2>3. binds[m].var # v
    BY <2>1
  <2> HIDE DEF m
  <2>4. Same(m)
    BY <2>2, <2>3 DEF Assign
  <2> QED BY <2>1, <2>4 DEF m
<1> HIDE DEF G
<1>4. 0..M \subseteq G
  <2> HIDE DEF M
  <2> QED BY <1>1, <1>2, <1>3, IntervalInduction
<1>5. M \in G
  BY <1>1, <1>4
<1> QED BY <1>1, <1>5 DEF G

\* What the analysis binds was made in the body.
MadeIn(family, binds, value) ==
  value.known /\ \E i \in DOMAIN binds : binds[i].expr.from = family /\ value.text = binds[i].expr.text

LEMMA BoundIsMade ==
  ASSUME NEW family \in {"request", "dial"}, NEW binds \in Seq(Assignment),
         NEW bound, IsBinding(bound, family, binds)
  PROVE  \A v \in DOMAIN bound[Len(binds)] : MadeIn(family, binds, bound[Len(binds)][v])
<1> DEFINE N == Len(binds)
           All(n) == \A v \in DOMAIN bound[n] : MadeIn(family, binds, bound[n][v])
           G == {n \in 0..N : All(n)}
<1>1. N \in Nat /\ DOMAIN binds = 1..N /\ N \in 0..N
  OBVIOUS
<1>2. 0 \in G
  <2>1. DOMAIN bound[0] = {}
    BY DEF IsBinding
  <2> QED BY <1>1, <2>1
<1>3. \A n \in 0..(N - 1) : n \in G => n + 1 \in G
  <2> SUFFICES ASSUME NEW n \in 0..(N - 1), All(n)
               PROVE  n + 1 \in 0..N /\ All(n + 1)
    OBVIOUS
  <2> DEFINE m == n + 1
             x == binds[m].expr
             y == ValueOf(family, bound[n], x)
  <2>1. m \in 1..N /\ m - 1 = n /\ m \in 0..N
    BY <1>1
  <2>2. bound[m] = Assign(bound[n], binds[m].var, y)
    BY <2>1 DEF IsBinding
  <2>3. y.known => MadeIn(family, binds, y)
    <3>1. CASE x.from = family
      <4>1. y.text = binds[m].expr.text /\ binds[m].expr.from = family
        BY <3>1 DEF ValueOf
      <4>2. m \in DOMAIN binds
        BY <1>1, <2>1
      <4> HIDE DEF m, y
      <4> QED BY <4>1, <4>2 DEF MadeIn
    <3>2. CASE x.from # family
      <4>1. y = NoValue \/ (x.of \in DOMAIN bound[n] /\ y = bound[n][x.of])
        BY <3>2 DEF ValueOf
      <4>2. ~NoValue.known
        BY DEF NoValue
      <4> HIDE DEF y, x
      <4> QED BY <4>1, <4>2
    <3> QED BY <3>1, <3>2
  <2> HIDE DEF m, y
  <2>4. ASSUME NEW v \in DOMAIN bound[m]
        PROVE  MadeIn(family, binds, bound[m][v])
    <3>1. \/ y.known /\ bound[m][v] = y
          \/ v \in DOMAIN bound[n] /\ bound[m][v] = bound[n][v]
      BY <2>2 DEF Assign
    <3> QED BY <2>3, <3>1
  <2> QED BY <2>1, <2>4 DEF m
<1> HIDE DEF G
<1>4. 0..N \subseteq G
  <2> HIDE DEF N
  <2> QED BY <1>1, <1>2, <1>3, IntervalInduction
<1> QED BY <1>1, <1>4 DEF G

\* What the analysis takes an expression for is what it holds when it can be read
\* and its variable is not assigned to later, and it is made in the body.
LEMMA ReadAsHeld ==
  ASSUME NEW family \in {"request", "dial"}, NEW binds \in Seq(Assignment),
         NEW K \in 0..Len(binds), NEW x \in Expression,
         NEW value, value = ValueOf(family, Held(family, binds, K), x),
         NEW taken, taken = ValueOf(family, Bind(family, binds), x)
  PROVE  /\ value.known
              /\ ~(x.from \in {"variable", "client"}
                     /\ \E n \in DOMAIN binds : n > K /\ binds[n].var = x.of)
            => taken = value
         /\ taken.text # Dynamic =>
              taken.text \in {e.text : e \in {z \in {x} \cup {b.expr : b \in Range(binds)} :
                                                z.from = family}}
<1>1. PICK bound : /\ IsBinding(bound, family, binds) /\ Bind(family, binds) = bound[Len(binds)]
                   /\ bound[Len(binds)] \in Environments
  BY BindIs
<1>2. PICK held : IsHolding(held, family, binds, K) /\ Held(family, binds, K) = held[K]
                  /\ held[K] \in Environments
  BY HeldIs
<1>3. ASSUME value.known, ~(x.from \in {"variable", "client"}
                              /\ \E n \in DOMAIN binds : n > K /\ binds[n].var = x.of)
      PROVE  taken = value
  <2>1. Agree(held[K], bound[K])
    BY <1>1, <1>2, HeldIsBound
  <2>2. CASE x.from = family
    BY <2>2 DEF ValueOf
  <2>3. CASE x.from # family
    <3>1. x.from \in {"variable", "client"} /\ x.of \in DOMAIN held[K] /\ value = held[K][x.of]
      BY <1>2, <1>3, <2>3 DEF ValueOf, NoValue
    <3>2. x.of \in DOMAIN bound[K] /\ bound[K][x.of] = held[K][x.of]
      BY <1>3, <2>1, <3>1 DEF Agree
    <3>3. \A n \in 1..Len(binds) : n > K => binds[n].var # x.of
      <4>1. DOMAIN binds = 1..Len(binds)
        OBVIOUS
      <4> QED BY <1>3, <3>1, <4>1
    <3> DEFINE v == x.of
    <3>4. v \in DOMAIN bound[K] /\ \A n \in 1..Len(binds) : n > K => binds[n].var # v
      BY <3>2, <3>3
    <3> HIDE DEF v
    <3>5. v \in DOMAIN bound[Len(binds)] /\ bound[Len(binds)][v] = bound[K][v]
      BY <1>1, <3>4, BindingStays
    <3>6. x.of \in DOMAIN bound[Len(binds)] /\ bound[Len(binds)][x.of] = held[K][x.of]
      BY <3>2, <3>5 DEF v
    <3>7. ValueOf(family, held[K], x).known
      BY <1>2, <1>3
    <3>8. ValueOf(family, bound[Len(binds)], x) = ValueOf(family, held[K], x)
      BY <3>6, <3>7, AgreedValues
    <3> QED BY <1>1, <1>2, <3>8
  <2> QED BY <2>2, <2>3
<1>4. ASSUME taken.text # Dynamic
      PROVE  taken.text \in {e.text : e \in {z \in {x} \cup {b.expr : b \in Range(binds)} :
                                               z.from = family}}
  <2>1. CASE x.from = family
    <3>1. taken.text = x.text
      BY <2>1 DEF ValueOf
    <3> QED BY <2>1, <3>1
  <2>2. CASE x.from # family
    <3>1. taken = NoValue \/ (x.of \in DOMAIN bound[Len(binds)] /\ taken = bound[Len(binds)][x.of])
      BY <1>1, <2>2 DEF ValueOf
    <3>2. x.of \in DOMAIN bound[Len(binds)] /\ taken = bound[Len(binds)][x.of]
      BY <1>4, <3>1 DEF NoValue
    <3>3. MadeIn(family, binds, taken)
      BY <1>1, <3>2, BoundIsMade
    <3>4. PICK i \in DOMAIN binds : binds[i].expr.from = family /\ taken.text = binds[i].expr.text
      BY <3>3 DEF MadeIn
    <3>5. binds[i] \in Range(binds)
      BY DEF Range
    <3> QED BY <3>4, <3>5
  <2> QED BY <2>1, <2>2
<1> QED BY <1>3, <1>4

\* What TargetsAreHeld says of a dependency with a target and the call it is of.
Written(d, call, binds) ==
  d.kind \in {"http_client", "rpc_client"} =>
    /\ call.role \in DOMAIN KindOfRole /\ KindOfRole[call.role] = d.kind
    /\ Passed(call, binds).known /\ ~AssignedLater(call, binds) => Tells(d, Passed(call, binds))
    /\ d.target # Empty => d.target \in Made(call, binds)

\* A rule finds one dependency or none.
OneFound(m, call, binds) ==
  /\ m.codes \in Seq(Codes)
  /\ \E d : m = [dependencies |-> <<d>>, codes |-> m.codes] /\ Written(d, call, binds)

LEMMA FoundIsOne ==
  ASSUME NEW call, NEW binds, NEW d, NEW codes \in Seq(Codes), Written(d, call, binds)
  PROVE  OneFound(Found(d, codes), call, binds)
<1>1. Found(d, codes) = [dependencies |-> <<d>>, codes |-> codes]
  BY DEF Found
<1>2. Found(d, codes).codes = codes
  BY <1>1
<1> QED BY <1>1, <1>2 DEF OneFound

LEMMA NewDependencyIs ==
  ASSUME NEW call, NEW op, NEW value, NEW target, NEW static
  PROVE  LET d == NewDependency(call, op, value, target, static)
         IN  d.kind = KindOfRole[call.role] /\ d.target = target /\ d.static = static
BY DEF NewDependency

LEMMA NoCode == <<>> \in Seq(Codes)
OBVIOUS

LEMMA SQLIsOne ==
  ASSUME NEW call, call.role \in {"sql", "sql_begin"}, NEW binds
  PROVE  OneFound(SQLDependency(call), call, binds)
<1>1. \A op, value, target, static : Written(NewDependency(call, op, value, target, static), call, binds)
  <2>1. KindOfRole[call.role] = "sql"
    BY DEF KindOfRole
  <2> QED BY <2>1, NewDependencyIs DEF Written
<1>2. <<"MISSING_SQL_QUERY">> \in Seq(Codes) /\ OnlyIf(~Constant(call.text), <<"DYNAMIC_SQL">>) \in Seq(Codes)
  <2>1. "MISSING_SQL_QUERY" \in Codes /\ "DYNAMIC_SQL" \in Codes
    BY DEF Codes
  <2> QED BY <2>1, OneCode, CodeOrNone
<1>3. \A op, value, target, static : \A codes \in Seq(Codes) :
        OneFound(Found(NewDependency(call, op, value, target, static), codes), call, binds)
  BY <1>1, FoundIsOne
<1> QED BY <1>2, <1>3, NoCode DEF SQLDependency

LEMMA NamedIsOne ==
  ASSUME NEW call, call.role \in {"redis"} \cup Kafka, NEW binds, NEW code \in Codes
  PROVE  OneFound(NamedDependency(call, code), call, binds)
<1>1. \A op, value, target, static : Written(NewDependency(call, op, value, target, static), call, binds)
  <2>1. KindOfRole[call.role] \notin {"http_client", "rpc_client"}
    BY DEF KindOfRole, Kafka
  <2> QED BY <2>1, NewDependencyIs DEF Written
<1>2. OnlyIf(~Constant(call.text), <<code>>) \in Seq(Codes)
  BY CodeOrNone
<1> QED BY <1>1, <1>2, FoundIsOne DEF NamedDependency

LEMMA HTTPIsOne ==
  ASSUME NEW call \in CallExpression, call.role \in {"http_get", "http_do"},
         NEW binds \in Seq(Assignment), call.before <= Len(binds)
  PROVE  OneFound(HTTPDependency(call, Bind("request", binds)), call, binds)
<1> DEFINE requests == Bind("request", binds)
           request == IF call.role = "http_do" THEN ValueOf("request", requests, call.expr)
                      ELSE [verb |-> call.name, text |-> IF call.enough THEN call.text ELSE Dynamic]
           op == IF Read(request.verb) = Empty THEN call.name ELSE request.verb
           static == Constant(request.verb) /\ Constant(request.text)
           d == NewDependency(call, op, Empty, Read(request.text), static)
           c1 == OnlyIf(call.role = "http_get" /\ ~call.enough, <<"INVALID_HTTP_CLIENT_CALL">>)
           c2 == OnlyIf(~Constant(request.text), <<"DYNAMIC_HTTP_URL">>)
           c3 == OnlyIf(~Constant(request.verb), <<"DYNAMIC_HTTP_METHOD">>)
<1>1. HTTPDependency(call, requests) = Found(d, c1 \o c2 \o c3)
  BY DEF HTTPDependency
<1>2. c1 \in Seq(Codes) /\ c2 \in Seq(Codes) /\ c3 \in Seq(Codes)
  <2>1. /\ "INVALID_HTTP_CLIENT_CALL" \in Codes /\ "DYNAMIC_HTTP_URL" \in Codes
        /\ "DYNAMIC_HTTP_METHOD" \in Codes
    BY DEF Codes
  <2> QED BY <2>1, CodeOrNone
<1>3. c1 \o c2 \o c3 \in Seq(Codes)
  <2> HIDE DEF c1, c2, c3
  <2> QED BY <1>2
<1>4. call.expr \in Expression /\ call.before \in 0..Len(binds)
  BY DEF CallExpression
<1>5. Written(d, call, binds)
  <2>0. d.kind = "http_client" /\ d.target = Read(request.text) /\ d.static = static
        /\ call.role \in DOMAIN KindOfRole /\ KindOfRole[call.role] = d.kind
    BY NewDependencyIs DEF KindOfRole
  <2>1. CASE call.role = "http_get"
    <3>1. /\ Passed(call, binds).verb = request.verb /\ Passed(call, binds).text = request.text
          /\ Made(call, binds) = {call.text}
      BY <2>1 DEF Passed, Made
    <3>2. request.text \in {call.text, Dynamic}
      BY <2>1
    <3> HIDE DEF d, request
    <3> QED BY <2>0, <3>1, <3>2 DEF Written, Tells, Read
  <2>2. CASE call.role = "http_do"
    <3> DEFINE value == Passed(call, binds)
    <3>1. /\ request = ValueOf("request", Bind("request", binds), call.expr)
          /\ value = ValueOf("request", Held("request", binds, call.before), call.expr)
          /\ Made(call, binds) = {e.text : e \in {z \in {call.expr} \cup {b.expr : b \in Range(binds)} :
                                                     z.from = "request"}}
      BY <2>2 DEF Passed, Made, Family
    <3> HIDE DEF d, request, value
    <3>2. /\ value.known /\ ~AssignedLater(call, binds) => request = value
          /\ request.text # Dynamic => request.text \in Made(call, binds)
      BY <1>4, <3>1, ReadAsHeld DEF AssignedLater
    <3> QED BY <2>0, <3>2 DEF Written, Tells, Read, value
  <2> QED BY <2>1, <2>2
<1> HIDE DEF d, c1, c2, c3, requests
<1>6. OneFound(HTTPDependency(call, requests), call, binds)
  BY <1>1, <1>3, <1>5, FoundIsOne
<1> QED BY <1>6 DEF requests

LEMMA RPCIsOne ==
  ASSUME NEW call \in CallExpression, call.role = "rpc", NEW binds \in Seq(Assignment),
         call.before <= Len(binds)
  PROVE  OneFound(RPCDependency(call, Bind("dial", binds)), call, binds)
<1> DEFINE connection == ValueOf("dial", Bind("dial", binds), call.expr)
           static == connection.known /\ Constant(connection.text)
           d == NewDependency(call, call.name, Empty, Read(connection.text), static)
           codes == OnlyIf(connection.known /\ ~Constant(connection.text), <<"DYNAMIC_GRPC_TARGET">>)
           m == RPCDependency(call, Bind("dial", binds))
<1>1. m = Found(d, codes)
  BY DEF RPCDependency
<1>2. codes \in Seq(Codes)
  <2>1. "DYNAMIC_GRPC_TARGET" \in Codes
    BY DEF Codes
  <2> QED BY <2>1, CodeOrNone
<1>3. call.expr \in Expression /\ call.before \in 0..Len(binds)
  BY DEF CallExpression
<1>4. Written(d, call, binds)
  <2> DEFINE value == Passed(call, binds)
  <2>1. d.kind = "rpc_client" /\ d.target = Read(connection.text) /\ d.static = static
        /\ call.role \in DOMAIN KindOfRole /\ KindOfRole[call.role] = d.kind
    BY NewDependencyIs DEF KindOfRole
  <2>2. /\ value = ValueOf("dial", Held("dial", binds, call.before), call.expr)
        /\ Made(call, binds) = {e.text : e \in {z \in {call.expr} \cup {b.expr : b \in Range(binds)} :
                                                   z.from = "dial"}}
    BY DEF Passed, Made, Family
  <2> HIDE DEF d, value
  <2>3. /\ value.known /\ ~AssignedLater(call, binds) => connection = value
        /\ connection.text # Dynamic => connection.text \in Made(call, binds)
    BY <1>3, <2>2, ReadAsHeld DEF AssignedLater
  <2> HIDE DEF connection
  <2> QED BY <2>1, <2>3 DEF Written, Tells, Read, value
<1> HIDE DEF d, codes, m
<1>5. OneFound(m, call, binds)
  BY <1>1, <1>2, <1>4, FoundIsOne
<1> QED BY <1>5 DEF m

\* A client call with its arguments is answered by a dependency.
LEMMA MatchDependencyFacts ==
  ASSUME NEW call \in CallExpression, NEW binds \in Seq(Assignment),
         call.before <= Len(binds), NEW proj
  PROVE  LET m == MatchDependency(call, binds, proj)
         IN  /\ m = NothingFound \/ OneFound(m, call, binds)
             /\ (call.role \in DOMAIN KindOfRole /\ call.enough /\ call.ref.package \notin proj)
                  => OneFound(m, call, binds)
<1> DEFINE m == MatchDependency(call, binds, proj)
           In == call.role \in DOMAIN KindOfRole /\ call.enough /\ call.ref.package \notin proj
<1>0. /\ (call.role # "other" => HasTarget(call))
      /\ DOMAIN KindOfRole = {"sql", "sql_begin", "redis", "kafka_send", "kafka_partition",
                              "kafka_consume", "kafka_group", "http_get", "http_do", "rpc"}
      /\ Kafka = {"kafka_send", "kafka_partition", "kafka_consume", "kafka_group"}
  BY DEF CallExpression, KindOfRole, Kafka
<1>1. CASE ~HasTarget(call)
  <2>1. m = NothingFound
    BY <1>1 DEF MatchDependency
  <2>2. ~In
    BY <1>0, <1>1
  <2> QED BY <2>1, <2>2
<1>2. CASE HasTarget(call)
  <2>1. CASE call.role \in {"sql", "sql_begin"}
    <3>1. m = SQLDependency(call)
      BY <1>0, <1>2, <2>1 DEF MatchDependency
    <3> QED BY <2>1, <3>1, SQLIsOne
  <2>2. CASE call.role = "redis"
    <3>1. m = NamedDependency(call, "DYNAMIC_REDIS_KEY") /\ "DYNAMIC_REDIS_KEY" \in Codes
      BY <1>0, <1>2, <2>2 DEF MatchDependency, Codes
    <3> QED BY <2>2, <3>1, NamedIsOne
  <2>3. CASE call.role = "kafka_send" \/ (call.role \in Kafka /\ call.enough)
    <3>1. m = NamedDependency(call, "DYNAMIC_KAFKA_VALUE") /\ "DYNAMIC_KAFKA_VALUE" \in Codes
      BY <1>0, <1>2, <2>3 DEF MatchDependency, Codes
    <3>2. call.role \in Kafka
      BY <1>0, <2>3
    <3> QED BY <3>1, <3>2, NamedIsOne
  <2>4. CASE call.role \in {"http_get", "http_do"}
    <3>1. m = HTTPDependency(call, Bind("request", binds))
      BY <1>0, <1>2, <2>4 DEF MatchDependency
    <3> QED BY <2>4, <3>1, HTTPIsOne
  <2>5. CASE call.role = "rpc" /\ call.ref.package \notin proj
    <3>1. m = RPCDependency(call, Bind("dial", binds))
      BY <1>0, <1>2, <2>5 DEF MatchDependency
    <3> QED BY <2>5, <3>1, RPCIsOne
  <2>6. CASE ~(\/ call.role \in {"sql", "sql_begin", "redis", "kafka_send", "http_get", "http_do"}
               \/ call.role \in Kafka /\ call.enough
               \/ call.role = "rpc" /\ call.ref.package \notin proj)
    <3>1. m = NothingFound
      BY <1>2, <2>6 DEF MatchDependency
    <3>2. ~In
      BY <1>0, <2>6
    <3> QED BY <3>1, <3>2
  <2> QED BY <1>0, <2>1, <2>2, <2>3, <2>4, <2>5, <2>6
<1> QED BY <1>1, <1>2
-----------------------------------------------------------------------------
(* Packages, functions and calls *)

\* One package of a path is analysed, and it is one that was loaded.
OneOfEach(kept, packages) ==
  /\ Range(kept) \subseteq Range(packages)
  /\ \A i, j \in DOMAIN kept : kept[i].path = kept[j].path => i = j

LEMMA AddPackageFacts ==
  ASSUME NEW S, NEW packages, NEW kept \in Seq(S), OneOfEach(kept, packages),
         NEW p \in S, p \in Range(packages)
  PROVE  AddPackage(kept, p) \in Seq(S) /\ OneOfEach(AddPackage(kept, p), packages)
<1> DEFINE taken == \E i \in DOMAIN kept : kept[i].path = p.path
           more == [i \in DOMAIN kept |->
                      IF kept[i].path = p.path /\ Score(p) > Score(kept[i]) THEN p ELSE kept[i]]
           long == Append(kept, p)
<1>0. /\ Len(kept) \in Nat /\ DOMAIN kept = 1..Len(kept) /\ \A i \in DOMAIN kept : kept[i] \in S
      /\ \A i \in DOMAIN kept : kept[i] \in Range(packages)
  BY DEF OneOfEach, Range
<1>1. CASE taken
  <2>1. AddPackage(kept, p) = more
    BY <1>1 DEF AddPackage
  <2>2. DOMAIN more = DOMAIN kept
    OBVIOUS
  <2>3. \A i \in DOMAIN more : more[i] \in S /\ more[i] \in Range(packages) /\ more[i].path = kept[i].path
    BY <1>0
  <2>4. more \in Seq(S)
    <3>1. more = [i \in 1..Len(kept) |-> more[i]]
      BY <1>0
    <3> HIDE DEF more
    <3> QED BY <1>0, <2>2, <2>3, <3>1
  <2>5. OneOfEach(more, packages)
    <3> HIDE DEF more
    <3> QED BY <2>2, <2>3 DEF OneOfEach, Range
  <2> HIDE DEF more
  <2> QED BY <2>1, <2>4, <2>5
<1>2. CASE ~taken
  <2>1. AddPackage(kept, p) = long
    BY <1>2 DEF AddPackage
  <2>2. long \in Seq(S)
    OBVIOUS
  <2>3. /\ DOMAIN long = 1..(Len(kept) + 1) /\ long[Len(kept) + 1] = p
        /\ \A i \in DOMAIN kept : long[i] = kept[i]
    BY <1>0
  <2>4. OneOfEach(long, packages)
    <3> HIDE DEF long
    <3>1. \A i \in DOMAIN long : i \in DOMAIN kept \/ i = Len(kept) + 1
      BY <1>0, <2>3
    <3>2. Len(kept) + 1 \notin DOMAIN kept
      BY <1>0
    <3>3. Range(long) \subseteq Range(packages)
      BY <1>0, <2>3, <3>1 DEF Range
    <3>4. \A i, j \in DOMAIN long : long[i].path = long[j].path => i = j
      BY <1>2, <2>3, <3>1, <3>2 DEF OneOfEach
    <3> QED BY <3>3, <3>4 DEF OneOfEach
  <2> HIDE DEF long
  <2> QED BY <2>1, <2>2, <2>4
<1> QED BY <1>1, <1>2

LEMMA DeduplicateFacts ==
  ASSUME NEW S, NEW packages \in Seq(S)
  PROVE  Deduplicate(packages) \in Seq(S) /\ OneOfEach(Deduplicate(packages), packages)
<1> DEFINE N == Len(packages)
           T == {k \in Seq(S) : OneOfEach(k, packages)}
           Add(t, i) == AddPackage(t, packages[i])
           step == [p \in T \X (1..N) |-> Add(p[1], p[2])]
           Solves(f) == f = [n \in 0..N |-> IF n = 0 THEN <<>> ELSE Add(f[n - 1], n)]
<1>1. N \in Nat /\ <<>> \in T /\ \A i \in 1..N : packages[i] \in S /\ packages[i] \in Range(packages)
  BY DEF OneOfEach, Range
<1>2. \A t \in T, i \in 1..N : step[<<t, i>>] = Add(t, i)
  OBVIOUS
<1>3. StepsWithin(step, N, T)
  <2>1. ASSUME NEW t \in T, NEW i \in 1..N
        PROVE  Add(t, i) \in T
    <3>1. t \in Seq(S) /\ OneOfEach(t, packages)
      OBVIOUS
    <3>2. Add(t, i) \in Seq(S) /\ OneOfEach(Add(t, i), packages)
      BY <1>1, <3>1, AddPackageFacts
    <3> QED BY <3>2
  <2> HIDE DEF step, Add, T
  <2> QED BY <1>2, <2>1 DEF StepsWithin
<1>4. PICK f : IsRecursion(f, N, T, <<>>, step)
  <2> HIDE DEF N, T, step
  <2> QED BY <1>1, <1>3, RecursionExists
<1>5. Solves(f)
  <2> HIDE DEF step, Add, T
  <2>2. f \in [0..N -> T] /\ f[0] = <<>> /\ \A i \in 1..N : f[i] = step[<<f[i - 1], i>>]
    BY <1>4 DEF IsRecursion
  <2>3. \A i \in 1..N : i - 1 \in 0..N /\ f[i - 1] \in T /\ f[i] = Add(f[i - 1], i)
    <3> SUFFICES ASSUME NEW i \in 1..N
                 PROVE  i - 1 \in 0..N /\ f[i - 1] \in T /\ f[i] = Add(f[i - 1], i)
      OBVIOUS
    <3>1. i - 1 \in 0..N
      BY <1>1
    <3> QED BY <1>2, <2>2, <3>1
  <2>4. \A n \in 0..N : f[n] = IF n = 0 THEN <<>> ELSE Add(f[n - 1], n)
    BY <1>1, <2>2, <2>3
  <2>5. f = [n \in 0..N |-> f[n]]
    BY <2>2
  <2> QED BY <2>4, <2>5
<1> DEFINE kept == CHOOSE g : Solves(g)
<1>6. Solves(kept)
  <2> HIDE DEF Solves
  <2> QED BY <1>5
<1>7. Deduplicate(packages) = kept[N]
  BY DEF Deduplicate
<1> HIDE DEF kept
<1>8. /\ \A n \in 0..N : kept[n] = IF n = 0 THEN <<>> ELSE Add(kept[n - 1], n)
      /\ 0 \in 0..N /\ N \in 0..N
  <2> HIDE DEF Add
  <2> QED BY <1>1, <1>6
<1>9. kept[N] \in T
  <2> DEFINE G == {n \in 0..N : kept[n] \in T}
  <2>1. 0 \in G
    <3> HIDE DEF Add, T
    <3> QED BY <1>1, <1>8
  <2>2. \A n \in 0..(N - 1) : n \in G => n + 1 \in G
    <3> SUFFICES ASSUME NEW n \in 0..(N - 1), kept[n] \in T
                 PROVE  n + 1 \in G
      OBVIOUS
    <3>1. n + 1 \in 1..N /\ n + 1 \in 0..N /\ n + 1 # 0 /\ (n + 1) - 1 = n
      BY <1>1
    <3>2. step[<<kept[n], n + 1>>] \in T
      <4> HIDE DEF step, T
      <4> QED BY <1>3, <3>1 DEF StepsWithin
    <3> HIDE DEF step, Add, T
    <3>3. step[<<kept[n], n + 1>>] = Add(kept[n], n + 1)
      BY <1>2, <3>1
    <3>4. kept[n + 1] = Add(kept[n], n + 1)
      BY <1>8, <3>1
    <3> QED BY <3>1, <3>2, <3>3, <3>4
  <2> HIDE DEF G
  <2>3. 0..N \subseteq G
    <3> HIDE DEF N
    <3> QED BY <1>1, <2>1, <2>2, IntervalInduction
  <2> QED BY <1>8, <2>3 DEF G
<1> QED BY <1>7, <1>9
\* A function the analysis visits, and where it is in its package.
Visit == [package : STRING, function : Declaration]
At(p, f, a, c) == /\ a \in DOMAIN p.files /\ c \in DOMAIN p.files[a].functions
                  /\ f = p.files[a].functions[c]

LEMMA FunctionsOfFacts ==
  ASSUME NEW p \in LoadedPackage
  PROVE  /\ FunctionsOf(p) \in Seq(Visit)
         /\ \A k \in DOMAIN FunctionsOf(p) : \E a, c : At(p, FunctionsOf(p)[k].function, a, c)
         /\ \A k, l \in DOMAIN FunctionsOf(p) :
              k # l => \E a, b, c, d : /\ At(p, FunctionsOf(p)[k].function, a, c)
                                       /\ At(p, FunctionsOf(p)[l].function, b, d)
                                       /\ ~(a = b /\ c = d)
<1> DEFINE places == {i \in DOMAIN p.files : Analyzed(p.files[i])}
           files == AnalyzedFiles(p)
           parts == [i \in DOMAIN files |-> files[i].functions]
           found == FlattenSeq(parts)
           visits == [i \in DOMAIN found |-> [package |-> p.name, function |-> found[i]]]
<1>1. p.files \in Seq(SourceFile) /\ p.name \in STRING
  BY DEF LoadedPackage
<1>2. files \in Seq(SourceFile) /\ Selects(files, p.files, places)
  <2> HIDE DEF places
  <2>1. files = Kept(p.files, places)
    BY DEF AnalyzedFiles, places
  <2> QED BY <1>1, <2>1, KeptSelects
<1> HIDE DEF files
<1>3. parts \in Seq(Seq(Declaration)) /\ DOMAIN parts = DOMAIN files
  <2> DEFINE D == Seq(Declaration)
             n == Len(files)
  <2>1. n \in Nat /\ DOMAIN files = 1..n /\ \A i \in 1..n : files[i] \in SourceFile
    BY <1>2
  <2>2. \A i \in 1..n : files[i].functions \in D
    BY <2>1 DEF SourceFile
  <2>3. DOMAIN parts = 1..n /\ \A i \in 1..n : parts[i] \in D
    BY <2>1, <2>2
  <2>4. parts = [i \in 1..n |-> parts[i]]
    BY <2>1
  <2> HIDE DEF parts, D, n
  <2>5. parts \in Seq(D)
    BY <2>1, <2>3, <2>4
  <2> QED BY <2>1, <2>3, <2>5 DEF D
<1>4. found \in Seq(Declaration) /\ \E place : IsPlacing(place, found, parts, Len(parts))
  <2> HIDE DEF parts
  <2> QED BY <1>3, FlattenFacts
<1>5. PICK place : IsPlacing(place, found, parts, Len(parts))
  BY <1>4
<1>6. DOMAIN found = 1..Len(found) /\ Len(found) \in Nat
  BY <1>4
<1>7. DOMAIN parts = 1..Len(parts)
  <2> HIDE DEF parts
  <2> QED BY <1>3
<1>8. FunctionsOf(p) = visits
  BY DEF FunctionsOf, files
<1> HIDE DEF found
<1>9. visits \in Seq(Visit) /\ DOMAIN visits = DOMAIN found
      /\ \A i \in DOMAIN visits : visits[i].function = found[i]
  <2>1. DOMAIN visits = 1..Len(found) /\ visits = [i \in 1..Len(found) |-> visits[i]]
    BY <1>6
  <2>2. \A i \in 1..Len(found) : visits[i] \in Visit
    <3>1. \A i \in 1..Len(found) : found[i] \in Declaration
      BY <1>4
    <3> QED BY <1>1, <1>6, <3>1 DEF Visit
  <2>3. \A i \in DOMAIN visits : visits[i].function = found[i]
    OBVIOUS
  <2> HIDE DEF visits
  <2>4. visits \in Seq(Visit)
    BY <1>6, <2>1, <2>2
  <2> QED BY <1>6, <2>1, <2>3, <2>4
<1>10. \A k \in DOMAIN found : /\ place[k][1] \in DOMAIN files
                               /\ place[k][2] \in DOMAIN files[place[k][1]].functions
                               /\ found[k] = files[place[k][1]].functions[place[k][2]]
  BY <1>3, <1>5, <1>6, <1>7 DEF IsPlacing
<1>11. \A k, l \in DOMAIN found :
         place[k][1] = place[l][1] /\ place[k][2] = place[l][2] => k = l
  BY <1>5, <1>6, PlacesDiffer
<1>12. ASSUME NEW k \in DOMAIN found
       PROVE  \E a, c : At(p, found[k], a, c)
  BY <1>2, <1>10 DEF Selects, At
<1>13. ASSUME NEW k \in DOMAIN found, NEW l \in DOMAIN found, k # l
       PROVE  \E a, b, c, d : At(p, found[k], a, c) /\ At(p, found[l], b, d) /\ ~(a = b /\ c = d)
  <2>1. CASE place[k][1] # place[l][1]
    <3>1. PICK a, b \in DOMAIN p.files :
            a # b /\ files[place[k][1]] = p.files[a] /\ files[place[l][1]] = p.files[b]
      BY <1>2, <1>10, <2>1 DEF Selects
    <3>2. At(p, found[k], a, place[k][2]) /\ At(p, found[l], b, place[l][2])
      BY <1>10, <3>1 DEF At
    <3> QED BY <3>1, <3>2
  <2>2. CASE place[k][1] = place[l][1]
    <3>1. place[k][2] # place[l][2]
      BY <1>11, <1>13, <2>2
    <3>2. PICK a \in DOMAIN p.files : files[place[k][1]] = p.files[a]
      BY <1>2, <1>10 DEF Selects
    <3>3. At(p, found[k], a, place[k][2]) /\ At(p, found[l], a, place[l][2])
      BY <1>10, <2>2, <3>2 DEF At
    <3> QED BY <3>1, <3>3
  <2> QED BY <2>1, <2>2
<1> HIDE DEF visits
<1> QED BY <1>8, <1>9, <1>12, <1>13

\* The functions visited have numbers of their own.
LEMMA VisitedFacts ==
  ASSUME NEW all, OneNumberEach(all), NEW packages \in Seq(LoadedPackage), OneOfEach(packages, all)
  PROVE  /\ VisitedFunctions(packages) \in Seq(Visit)
         /\ \A i, j \in DOMAIN VisitedFunctions(packages) :
              VisitedFunctions(packages)[i].function.number
                = VisitedFunctions(packages)[j].function.number => i = j
<1> DEFINE parts == [i \in DOMAIN packages |-> FunctionsOf(packages[i])]
           visited == FlattenSeq(parts)
<1>1. /\ Len(packages) \in Nat /\ DOMAIN packages = 1..Len(packages)
      /\ \A i \in DOMAIN packages : packages[i] \in LoadedPackage
  OBVIOUS
<1>2. parts \in Seq(Seq(Visit)) /\ DOMAIN parts = DOMAIN packages
  <2> DEFINE D == Seq(Visit)
  <2>1. \A i \in DOMAIN packages : FunctionsOf(packages[i]) \in D
    BY <1>1, FunctionsOfFacts
  <2>2. DOMAIN parts = 1..Len(packages) /\ \A i \in 1..Len(packages) : parts[i] \in D
    BY <1>1, <2>1
  <2>3. parts = [i \in 1..Len(packages) |-> parts[i]]
    BY <1>1
  <2> HIDE DEF parts, D
  <2>4. parts \in Seq(D)
    BY <1>1, <2>2, <2>3
  <2> QED BY <1>1, <2>2, <2>4 DEF D
<1>3. visited \in Seq(Visit) /\ \E place : IsPlacing(place, visited, parts, Len(parts))
  <2> HIDE DEF parts
  <2> QED BY <1>2, FlattenFacts
<1>4. PICK place : IsPlacing(place, visited, parts, Len(parts))
  BY <1>3
<1>5. DOMAIN visited = 1..Len(visited)
  <2> HIDE DEF visited
  <2> QED BY <1>3
<1>6. DOMAIN parts = 1..Len(parts)
  <2> HIDE DEF parts
  <2> QED BY <1>2
<1>7. VisitedFunctions(packages) = visited
  BY DEF VisitedFunctions
<1> HIDE DEF visited
<1>8. \A k \in DOMAIN visited :
        /\ place[k][1] \in DOMAIN packages
        /\ place[k][2] \in DOMAIN FunctionsOf(packages[place[k][1]])
        /\ visited[k] = FunctionsOf(packages[place[k][1]])[place[k][2]]
  BY <1>2, <1>4, <1>5, <1>6 DEF IsPlacing
<1>10. \A i \in DOMAIN packages : \E x \in DOMAIN all : packages[i] = all[x]
  BY DEF OneOfEach, Range
<1>9. ASSUME NEW k \in DOMAIN visited, NEW l \in DOMAIN visited, k # l,
             visited[k].function.number = visited[l].function.number
      PROVE  FALSE
  <2> DEFINE pk == packages[place[k][1]]
             pl == packages[place[l][1]]
  <2>1. PICK x \in DOMAIN all : pk = all[x]
    BY <1>8, <1>10
  <2>2. PICK y \in DOMAIN all : pl = all[y]
    BY <1>8, <1>10
  <2>3. PICK a, b, c, d : /\ At(pk, visited[k].function, a, c) /\ At(pl, visited[l].function, b, d)
                          /\ x # y \/ ~(a = b /\ c = d)
    <3>1. CASE place[k][1] = place[l][1]
      <4>1. place[k][2] # place[l][2]
        BY <1>4, <1>5, <1>9, <3>1, PlacesDiffer
      <4>2. pk = pl /\ pk \in LoadedPackage
        BY <1>1, <1>8, <3>1
      <4> DEFINE m == place[k][2]
                 n == place[l][2]
      <4>3. /\ m \in DOMAIN FunctionsOf(pk) /\ n \in DOMAIN FunctionsOf(pk) /\ m # n
            /\ visited[k] = FunctionsOf(pk)[m] /\ visited[l] = FunctionsOf(pk)[n]
        BY <1>8, <3>1, <4>1
      <4> HIDE DEF pk, pl, m, n
      <4>5. \A i, j \in DOMAIN FunctionsOf(pk) :
              i # j => \E a, b, c, d : /\ At(pk, FunctionsOf(pk)[i].function, a, c)
                                       /\ At(pk, FunctionsOf(pk)[j].function, b, d)
                                       /\ ~(a = b /\ c = d)
        BY <4>2, FunctionsOfFacts
      <4>4. \E a, b, c, d : /\ At(pk, FunctionsOf(pk)[m].function, a, c)
                            /\ At(pk, FunctionsOf(pk)[n].function, b, d)
                            /\ ~(a = b /\ c = d)
        BY <4>3, <4>5
      <4> QED BY <4>2, <4>3, <4>4
    <3>2. CASE place[k][1] # place[l][1]
      <4>1. x # y
        BY <1>8, <2>1, <2>2, <3>2 DEF OneOfEach
      <4>2. pk \in LoadedPackage /\ pl \in LoadedPackage
        BY <1>1, <1>8
      <4>3. \E a, c : At(pk, visited[k].function, a, c)
        <5>1. place[k][2] \in DOMAIN FunctionsOf(pk) /\ visited[k] = FunctionsOf(pk)[place[k][2]]
          BY <1>8
        <5> HIDE DEF pk
        <5> QED BY <4>2, <5>1, FunctionsOfFacts
      <4>4. \E b, d : At(pl, visited[l].function, b, d)
        <5>1. place[l][2] \in DOMAIN FunctionsOf(pl) /\ visited[l] = FunctionsOf(pl)[place[l][2]]
          BY <1>8
        <5> HIDE DEF pl
        <5> QED BY <4>2, <5>1, FunctionsOfFacts
      <4> QED BY <4>1, <4>3, <4>4
    <3> QED BY <3>1, <3>2
  <2> HIDE DEF pk, pl
  <2> QED BY <1>9, <2>1, <2>2, <2>3 DEF OneNumberEach, At
<1> QED BY <1>3, <1>7, <1>9

\* A record of a collected function, and a call in it.
Record(ids) ==
  {r \in [id : ids, calls : Seq(CallExpression), binds : Seq(Assignment)] :
     \A i \in DOMAIN r.calls : r.calls[i].before <= Len(r.binds)}
Site(ids) == {s \in [in : Record(ids), call : CallExpression] : s.call.before <= Len(s.in.binds)}

LEMMA SitesFacts ==
  ASSUME NEW ids, records \in Seq(Record(ids))
  PROVE  /\ Sites \in Seq(Site(ids))
         /\ \A r \in Range(records) : \A i \in DOMAIN r.calls :
              \E k \in DOMAIN Sites : Sites[k] = [in |-> r, call |-> r.calls[i]]
<1> DEFINE parts == [i \in DOMAIN records |-> CallsOf(records[i])]
<1>1. ASSUME NEW r \in Record(ids)
      PROVE  CallsOf(r) \in Seq(Site(ids))
  <2>1. r.calls \in Seq(CallExpression)
    BY DEF Record
  <2> DEFINE calls == [i \in DOMAIN r.calls |-> [in |-> r, call |-> r.calls[i]]]
             n == Len(r.calls)
  <2>2. /\ n \in Nat /\ DOMAIN r.calls = 1..n
        /\ \A i \in 1..n : r.calls[i] \in CallExpression /\ r.calls[i].before <= Len(r.binds)
    BY <2>1 DEF Record
  <2>3. DOMAIN calls = 1..n /\ calls = [i \in 1..n |-> calls[i]]
    BY <2>2
  <2>4. \A i \in 1..n : calls[i] \in Site(ids)
    BY <2>2 DEF Site
  <2>5. CallsOf(r) = calls
    BY DEF CallsOf
  <2> HIDE DEF calls, n
  <2>6. calls \in Seq(Site(ids))
    BY <2>2, <2>3, <2>4
  <2> QED BY <2>5, <2>6
<1>2. parts \in Seq(Seq(Site(ids))) /\ DOMAIN parts = DOMAIN records
  <2> DEFINE D == Seq(Site(ids))
             n == Len(records)
  <2>1. n \in Nat /\ DOMAIN records = 1..n /\ \A i \in 1..n : records[i] \in Record(ids)
    OBVIOUS
  <2>2. \A i \in 1..n : CallsOf(records[i]) \in D
    BY <1>1, <2>1
  <2>3. DOMAIN parts = 1..n /\ (\A i \in 1..n : parts[i] \in D) /\ parts = [i \in 1..n |-> parts[i]]
    BY <2>1, <2>2
  <2> HIDE DEF parts, D, n
  <2>4. parts \in Seq(D) /\ DOMAIN parts = DOMAIN records
    BY <2>1, <2>3
  <2> QED BY <2>4 DEF D
<1>3. FlattenSeq(parts) \in Seq(Site(ids)) /\ Covers(FlattenSeq(parts), parts, Len(parts))
  <2> HIDE DEF parts
  <2> QED BY <1>2, FlattenFacts
<1>4. Sites = FlattenSeq(parts)
  BY DEF Sites
<1>5. ASSUME NEW r \in Range(records), NEW i \in DOMAIN r.calls
      PROVE  \E k \in DOMAIN Sites : Sites[k] = [in |-> r, call |-> r.calls[i]]
  <2>1. PICK j \in DOMAIN records : records[j] = r
    BY DEF Range
  <2>2. parts[j] = [c \in DOMAIN r.calls |-> [in |-> r, call |-> r.calls[c]]]
    BY <2>1 DEF CallsOf
  <2>3. j \in DOMAIN parts
    BY <1>2
  <2> HIDE DEF parts
  <2>4. j \in 1..Len(parts) /\ DOMAIN Sites = 1..Len(Sites)
    BY <1>2, <1>3, <1>4, <2>3
  <2>5. i \in DOMAIN parts[j] /\ parts[j][i] = [in |-> r, call |-> r.calls[i]]
    BY <2>2
  <2> QED BY <1>3, <1>4, <2>4, <2>5 DEF Covers
<1> QED BY <1>3, <1>4, <1>5
-----------------------------------------------------------------------------
(* The inductive invariant *)

\* What is collected of the functions: a record and a number for each identity.
Collected(recs, objs, ids) ==
  /\ recs \in Seq(Record(ids)) /\ RealIDs(ids)
  /\ ids = {recs[i].id : i \in DOMAIN recs} /\ ids = Range(objs)
  /\ \A i, j \in DOMAIN recs : recs[i].id = recs[j].id => i = j
  /\ \A m, l \in DOMAIN objs : objs[m] = objs[l] => m = l

\* The identity of a visited function, if it is in none or in a collected one.
Inside(objs, f) == f.parent = 0 \/ f.parent \in DOMAIN objs
IdentityIn(objs, w) ==
  IF w.function.parent = 0 THEN FunctionID(w.function.recv, w.package, w.function.name)
  ELSE LiteralID(objs[w.function.parent], w.function.at)

\* A visited function has its identity and its body.
RecordFor(f, id) == [id |-> id, calls |-> f.calls, binds |-> f.binds]
Entered(recs, objs, w) ==
  /\ Inside(objs, w.function) /\ objs[w.function.number] = IdentityIn(objs, w)
  /\ \E k \in DOMAIN recs : recs[k] = RecordFor(w.function, objs[w.function.number])

\* A visited function is the same as one before it, or the one around it is missing.
MissingIn(objs, visited, i) ==
  LET before == {j \in 1..(i - 1) : visited[j].function.number \in DOMAIN objs}
      f      == visited[i].function
  IN  \/ \E j \in before : SameFunction(visited[j], visited[i])
      \/ f.parent # 0 /\ \A j \in before : visited[j].function.number # f.parent

\* What is collected of the first n functions visited.
Covered(recs, objs, visited, n) ==
  /\ \A m \in DOMAIN objs : \E i \in 1..n : visited[i].function.number = m
  /\ \A i \in 1..n : IF visited[i].function.number \in DOMAIN objs
                       THEN Entered(recs, objs, visited[i]) ELSE MissingIn(objs, visited, i)

\* Among the first n calls those that concern the project have one edge each.
Tracked(site, objs, proj) == ResolveCall(site.call, objs, proj) # <<NotTracked>>

EdgeOf(site, objs, proj) ==
  LET callee == ResolveCall(site.call, objs, proj)
  IN  [caller |-> site.in.id, callee |-> callee, resolved |-> callee # NoFunction,
       at |-> site.call.at]

OneEdgeEach(es, sites, n, objs, proj) ==
  /\ IsList(es)
  /\ \E place \in [DOMAIN es -> 1..n] :
       /\ \A i \in DOMAIN es : /\ Tracked(sites[place[i]], objs, proj)
                               /\ es[i] = EdgeOf(sites[place[i]], objs, proj)
       /\ \A i, j \in DOMAIN es : place[i] = place[j] => i = j
       /\ \A k \in 1..n : Tracked(sites[k], objs, proj) => \E i \in DOMAIN es : place[i] = k

\* Registrations among them that an adapter knows have an endpoint or a diagnostic.
Registered(eps, ids, diags, adapt, sites, n) ==
  /\ IsList(eps)
  /\ \A i \in DOMAIN eps : /\ eps[i].id = EndpointID(eps[i].registers)
                           /\ eps[i].registers.fn \in ids /\ WellNamed(eps[i].registers)
  /\ \A k \in 1..n :
       (sites[k].call.role \in DOMAIN AdapterOf /\ AdapterOf[sites[k].call.role] \in adapt)
         => \/ \E i \in DOMAIN eps : eps[i].at = sites[k].call.at
            \/ \E i \in DOMAIN diags : diags[i].at = sites[k].call.at

\* Client calls among them have a dependency, and each dependency its call.
UsedBy(d, site) ==
  /\ d.fn = site.in.id /\ d.at = site.call.at /\ d.id = DependencyID(d.fn, d.uses, d.at)
  /\ Written(d.uses, site.call, site.in.binds)

Used(ds, sites, n, proj) ==
  /\ IsList(ds)
  /\ \A i, j \in DOMAIN ds : ds[i].id = ds[j].id => i = j
  /\ \A i \in DOMAIN ds : \E k \in 1..n : UsedBy(ds[i], sites[k])
  /\ \A k \in 1..n :
       (/\ sites[k].call.role \in DOMAIN KindOfRole /\ sites[k].call.enough
        /\ sites[k].call.ref.package \notin proj)
         => \E i \in DOMAIN ds : ds[i].at = sites[k].call.at /\ ds[i].fn = sites[k].in.id

\* A function lists what names it.
EndpointIDs(eps, x) == {eps[i].id : i \in {j \in DOMAIN eps : eps[j].registers.fn = x}}
DependencyIDs(ds, x) == {ds[i].id : i \in {j \in DOMAIN ds : ds[j].fn = x}}
CallerIDs(es, x) == {es[i].caller : i \in {j \in DOMAIN es : es[j].resolved /\ es[j].callee = x}}
CalleeIDs(es, x) == {es[i].callee : i \in {j \in DOMAIN es : es[j].resolved /\ es[j].caller = x}}

Listed(ls, eps, ds, es) ==
  \A x \in DOMAIN ls :
    ls[x] = [endpoints |-> EndpointIDs(eps, x), dependencies |-> DependencyIDs(ds, x),
             callers |-> CallerIDs(es, x), callees |-> CalleeIDs(es, x)]

\* The stages in order, with the stage a failure was in.
Rank == [config |-> 0, refused |-> 0, load |-> 1, packages |-> 2, functions |-> 3, calls |-> 4,
         endpoints |-> 5, dependencies |-> 6, convert |-> 7, converted |-> 8, failed |-> 8]
Step == IF pc = "failed" /\ ~input.loads THEN 1 ELSE Rank[pc]

\* How much of its list a stage that has begun has walked.
Seen(rank, list) == IF Step = rank THEN at - 1 ELSE Len(list)

PositionInv ==
  /\ input \in Inputs /\ pc \in Stages /\ at \in 1..(Len(Walked(pc)) + 1)
  /\ ~input.loads => pc \in {"config", "load", "failed", "refused"}

ConfigInv ==
  /\ adapters \subseteq Adapters
  /\ pc \notin {"config", "refused"} /\ Handed = Chosen => ConfigReported \/ Asked \subseteq adapters

PackagesInv ==
  /\ Step < 2 => project = {}
  /\ loaded \in Seq(LoadedPackage) /\ OneOfEach(loaded, input.packages)
  /\ project \subseteq {loaded[i].path : i \in DOMAIN loaded}

FunctionsInv ==
  /\ Collected(records, objects, DOMAIN lists)
  /\ Step < 3 => objects = <<>>
  /\ Step >= 3 => Covered(records, objects, VisitedFunctions(loaded),
                          Seen(3, VisitedFunctions(loaded)))

EdgesInv ==
  /\ Step < 4 => edges = <<>>
  /\ Step >= 4 => OneEdgeEach(edges, Sites, Seen(4, Sites), objects, project)

EndpointsInv ==
  /\ Step < 5 => endpoints = <<>>
  /\ Step >= 5 => Registered(endpoints, DOMAIN lists, diagnostics, adapters, Sites, Seen(5, Sites))

DependenciesInv ==
  /\ Step < 6 => dependencies = <<>>
  /\ Step >= 6 => Used(dependencies, Sites, Seen(6, Sites), project)

DiagnosticsInv ==
  /\ IsList(diagnostics)
  /\ \A i \in DOMAIN diagnostics :
       diagnostics[i].code \in Codes \cup ErrorsOf(input.packages) /\ diagnostics[i].at \in Nat

OutcomeInv ==
  /\ pc = "converted" => \A kind \in EntityKinds : IsInjective(IDsOf[kind])
  /\ pc = "failed" /\ input.loads => \E kind \in EntityKinds : ~IsInjective(IDsOf[kind])

IInv ==
  /\ PositionInv /\ ConfigInv /\ PackagesInv /\ FunctionsInv /\ EdgesInv /\ EndpointsInv
  /\ DependenciesInv /\ Listed(lists, endpoints, dependencies, edges) /\ DiagnosticsInv /\ OutcomeInv
-----------------------------------------------------------------------------
(* One step of each stage *)

NumbersApart(visited) ==
  \A i, j \in DOMAIN visited : visited[i].function.number = visited[j].function.number => i = j

\* An ID for the visited function w that no other has.
NewID(id, objs, w, ids) == id \notin ids /\ Inside(objs, w.function) /\ id = IdentityIn(objs, w)

BoundTo(objs, number, id) ==
  [m \in DOMAIN objs \cup {number} |-> IF m = number THEN id ELSE objs[m]]

Unbound(objs, number) == number \notin DOMAIN objs
IsBoundTo(more, objs, number, id) ==
  /\ DOMAIN more = DOMAIN objs \cup {number} /\ Range(more) = Range(objs) \cup {id}
  /\ more[number] = id /\ \A m \in DOMAIN objs : more[m] = objs[m]

LEMMA BoundToFacts ==
  ASSUME NEW objs, NEW number, NEW id, Unbound(objs, number)
  PROVE  IsBoundTo(BoundTo(objs, number, id), objs, number, id)
<1> DEFINE more == BoundTo(objs, number, id)
<1>1. /\ DOMAIN more = DOMAIN objs \cup {number} /\ more[number] = id
      /\ \A m \in DOMAIN objs : more[m] = objs[m]
  BY DEF BoundTo, Unbound
<1> HIDE DEF more
<1>2. Range(more) = Range(objs) \cup {id}
  BY <1>1 DEF Range
<1> QED BY <1>1, <1>2 DEF more, IsBoundTo

\* The number of a function is not taken before it is visited.
LEMMA NumberIsNew ==
  ASSUME NEW recs, NEW objs, NEW visited \in Seq(Visit), NEW n \in Nat, n + 1 \in DOMAIN visited,
         NumbersApart(visited), Covered(recs, objs, visited, n)
  PROVE  /\ visited[n + 1].function.number \notin DOMAIN objs
         /\ \A i \in 1..n : visited[i].function.number # visited[n + 1].function.number
<1>1. \A i \in 1..n : i \in DOMAIN visited /\ i # n + 1
  OBVIOUS
<1>2. \A i \in 1..n : visited[i].function.number # visited[n + 1].function.number
  BY <1>1 DEF NumbersApart
<1> QED BY <1>2 DEF Covered

\* What is known of the functions before does not change with one more collected.
LEMMA EnteredStays ==
  ASSUME NEW recs, NEW long, \A k \in DOMAIN recs : k \in DOMAIN long /\ long[k] = recs[k],
         NEW objs, NEW more, NEW number, NEW id, number \notin DOMAIN objs,
         IsBoundTo(more, objs, number, id), NEW w, w.function.number \in DOMAIN objs,
         Entered(recs, objs, w)
  PROVE  Entered(long, more, w)
<1>1. Inside(more, w.function) /\ IdentityIn(more, w) = IdentityIn(objs, w)
  BY DEF Entered, Inside, IdentityIn, IsBoundTo
<1>2. more[w.function.number] = objs[w.function.number]
  BY DEF IsBoundTo
<1> QED BY <1>1, <1>2 DEF Entered

LEMMA MissingStays ==
  ASSUME NEW objs, NEW more, NEW number, NEW id, IsBoundTo(more, objs, number, id),
         NEW visited, NEW i \in Nat, \A j \in 1..i : visited[j].function.number # number,
         MissingIn(objs, visited, i)
  PROVE  MissingIn(more, visited, i)
<1>1. \A j \in 1..(i - 1) : visited[j].function.number \in DOMAIN more
                              <=> visited[j].function.number \in DOMAIN objs
  <2>1. \A j \in 1..(i - 1) : j \in 1..i
    OBVIOUS
  <2> QED BY <2>1 DEF IsBoundTo
<1> QED BY <1>1 DEF MissingIn

LEMMA FunctionCollected ==
  ASSUME NEW recs, NEW objs, NEW ids, Collected(recs, objs, ids),
         NEW visited \in Seq(Visit), NEW n \in Nat, n + 1 \in DOMAIN visited,
         NumbersApart(visited), Covered(recs, objs, visited, n),
         NEW w, w = visited[n + 1], NEW id, NewID(id, objs, w, ids)
  PROVE  /\ Collected(Append(recs, RecordFor(w.function, id)), BoundTo(objs, w.function.number, id),
                      ids \cup {id})
         /\ Covered(Append(recs, RecordFor(w.function, id)), BoundTo(objs, w.function.number, id),
                    visited, n + 1)
<1> DEFINE f == w.function
           r == RecordFor(f, id)
           number == f.number
           more == BoundTo(objs, number, id)
           long == Append(recs, r)
           all == ids \cup {id}
<1>1. f \in Declaration
  <2>1. w \in Visit
    OBVIOUS
  <2> QED BY <2>1 DEF Visit
<1>2. r \in Record(all) /\ r.id = id
  <2>1. /\ f.calls \in Seq(CallExpression) /\ f.binds \in Seq(Assignment)
        /\ \A i \in DOMAIN f.calls : f.calls[i].before <= Len(f.binds)
    BY <1>1 DEF Declaration
  <2> QED BY <2>1 DEF Record, RecordFor
<1>0. r = RecordFor(w.function, id)
  OBVIOUS
<1> HIDE DEF r
<1>3. /\ Len(recs) \in Nat /\ DOMAIN recs = 1..Len(recs)
      /\ \A i \in DOMAIN recs : recs[i] \in Record(all)
      /\ \A i \in DOMAIN recs : recs[i].id \in ids
  <2>1. recs \in Seq(Record(ids))
    BY DEF Collected
  <2>2. \A i \in DOMAIN recs : recs[i] \in Record(ids)
    BY <2>1
  <2> QED BY <2>1, <2>2 DEF Record
<1>4. recs \in Seq(Record(all))
  <2>1. recs \in Seq(Record(ids))
    BY DEF Collected
  <2> QED BY <1>3, <2>1, ListIn
<1>5. /\ long \in Seq(Record(all)) /\ DOMAIN long = 1..(Len(recs) + 1)
      /\ long[Len(recs) + 1] = r /\ \A i \in DOMAIN recs : long[i] = recs[i]
  BY <1>2, <1>3, <1>4
<1> HIDE DEF long
<1>6. \A i \in DOMAIN long : i \in DOMAIN recs \/ i = Len(recs) + 1
  BY <1>3, <1>5
<1>7. Len(recs) + 1 \in DOMAIN long /\ \A i \in DOMAIN recs : i \in DOMAIN long
  BY <1>3, <1>5
<1>8. all = {long[i].id : i \in DOMAIN long}
  <2>1. ids = {recs[i].id : i \in DOMAIN recs}
    BY DEF Collected
  <2> QED BY <1>2, <1>5, <1>6, <1>7, <2>1
<1>9. \A i, j \in DOMAIN long : long[i].id = long[j].id => i = j
  BY <1>2, <1>3, <1>5, <1>6 DEF Collected, NewID
<1>10. number \notin DOMAIN objs /\ \A i \in 1..n : visited[i].function.number # number
  BY NumberIsNew
<1>11. IsBoundTo(more, objs, number, id)
  <2>1. Unbound(objs, number)
    BY <1>10 DEF Unbound
  <2> HIDE DEF number
  <2> QED BY <2>1, BoundToFacts
<1>15. number = w.function.number
  OBVIOUS
<1> HIDE DEF more, number
<1>12. RealIDs(all)
  <2>1. id # NoFunction /\ id # <<NotTracked>>
    BY FunctionIDsAreReal DEF NewID, IdentityIn
  <2> QED BY <2>1 DEF Collected, RealIDs
<1>13. Collected(long, more, all)
  <2>1. all = Range(more)
    BY <1>11 DEF Collected, IsBoundTo
  <2>2. \A m, l \in DOMAIN more : more[m] = more[l] => m = l
    <3>1. \A m \in DOMAIN objs : objs[m] \in ids /\ more[m] = objs[m]
      BY <1>11 DEF Collected, Range, IsBoundTo
    <3> QED BY <1>11, <3>1 DEF Collected, NewID, IsBoundTo
  <2> HIDE DEF all
  <2> QED BY <1>5, <1>8, <1>9, <1>12, <2>1, <2>2 DEF Collected
<1>14. Covered(long, more, visited, n + 1)
  <2>1. /\ \A i \in 1..n : i \in 1..(n + 1) /\ i \in Nat
        /\ n + 1 \in 1..(n + 1) /\ \A i \in 1..(n + 1) : i \in 1..n \/ i = n + 1
        /\ \A i \in 1..n : \A j \in 1..i : j \in 1..n
    OBVIOUS
  <2>2. \A m \in DOMAIN more : \E i \in 1..(n + 1) : visited[i].function.number = m
    BY <1>11, <1>15, <2>1 DEF Covered, IsBoundTo
  <2>3. ASSUME NEW i \in 1..n
        PROVE  IF visited[i].function.number \in DOMAIN more
                 THEN Entered(long, more, visited[i]) ELSE MissingIn(more, visited, i)
    <3>1. visited[i].function.number \in DOMAIN more <=> visited[i].function.number \in DOMAIN objs
      BY <1>10, <1>11 DEF IsBoundTo
    <3>2. CASE visited[i].function.number \in DOMAIN objs
      <4> DEFINE v == visited[i]
      <4>1. v.function.number \in DOMAIN objs /\ Entered(recs, objs, v)
        BY <3>2 DEF Covered
      <4>2. \A k \in DOMAIN recs : k \in DOMAIN long /\ long[k] = recs[k]
        BY <1>5, <1>7
      <4> HIDE DEF v
      <4>3. Entered(long, more, v)
        BY <1>10, <1>11, <4>1, <4>2, EnteredStays
      <4> QED BY <3>1, <3>2, <4>3 DEF v
    <3>3. CASE visited[i].function.number \notin DOMAIN objs
      <4>1. MissingIn(objs, visited, i)
        BY <3>3 DEF Covered
      <4>2. i \in Nat /\ \A j \in 1..i : visited[j].function.number # number
        BY <1>10, <2>1
      <4>3. MissingIn(more, visited, i)
        BY <1>11, <4>1, <4>2, MissingStays
      <4> QED BY <3>1, <3>3, <4>3
    <3> QED BY <3>2, <3>3
  <2>4. number \in DOMAIN more /\ Entered(long, more, w)
    <3>1. Inside(more, w.function) /\ IdentityIn(more, w) = IdentityIn(objs, w)
      BY <1>11 DEF NewID, Inside, IdentityIn, IsBoundTo
    <3>2. more[w.function.number] = id /\ number \in DOMAIN more
      BY <1>11, <1>15 DEF IsBoundTo
    <3>3. Len(recs) + 1 \in DOMAIN long /\ long[Len(recs) + 1] = RecordFor(w.function, id)
      BY <1>0, <1>5, <1>7
    <3> QED BY <3>1, <3>2, <3>3 DEF Entered, NewID
  <2> QED BY <1>15, <2>1, <2>2, <2>3, <2>4 DEF Covered
<1> QED BY <1>13, <1>14 DEF long, r, more, number

LEMMA FunctionDropped ==
  ASSUME NEW recs, NEW objs, NEW ids, Collected(recs, objs, ids),
         NEW visited \in Seq(Visit), NEW n \in Nat, n + 1 \in DOMAIN visited,
         NumbersApart(visited), Covered(recs, objs, visited, n),
         NEW w, w = visited[n + 1], Inside(objs, w.function) => IdentityIn(objs, w) \in ids
  PROVE  Covered(recs, objs, visited, n + 1)
<1>1. /\ \A i \in 1..n : i \in 1..(n + 1)
      /\ \A i \in 1..(n + 1) : i \in 1..n \/ i = n + 1
      /\ (n + 1) - 1 = n
  OBVIOUS
<1>2. w.function.number \notin DOMAIN objs
  BY NumberIsNew
<1>3. MissingIn(objs, visited, n + 1)
  <2>1. CASE ~Inside(objs, w.function)
    BY <1>1, <2>1 DEF MissingIn, Inside
  <2>2. CASE Inside(objs, w.function)
    <3>1. PICK m \in DOMAIN objs : objs[m] = IdentityIn(objs, w)
      BY <2>2 DEF Collected, Range
    <3>2. PICK j \in 1..n : visited[j].function.number = m
      BY <3>1 DEF Covered
    <3> DEFINE v == visited[j]
    <3>3. Inside(objs, v.function) /\ IdentityIn(objs, v) = IdentityIn(objs, w)
      BY <3>1, <3>2 DEF Covered, Entered
    <3>4. SameFunction(v, w)
      <4> HIDE DEF v
      <4>1. \A a, b, c, d, e : FunctionID(a, b, c) # LiteralID(d, e)
        BY DEF FunctionID, LiteralID
      <4>2. CASE v.function.parent = 0 /\ w.function.parent = 0
        BY <3>3, <4>2 DEF IdentityIn, SameFunction, FunctionID
      <4>3. CASE v.function.parent # 0 /\ w.function.parent # 0
        <5>1. /\ objs[v.function.parent] = objs[w.function.parent]
              /\ v.function.at = w.function.at
          BY <3>3, <4>3 DEF IdentityIn, LiteralID
        <5>2. v.function.parent = w.function.parent
          BY <2>2, <3>3, <4>3, <5>1 DEF Inside, Collected
        <5> QED BY <4>3, <5>1, <5>2 DEF SameFunction
      <4> QED BY <3>3, <4>1, <4>2, <4>3 DEF IdentityIn
    <3> QED BY <1>1, <3>1, <3>2, <3>4 DEF MissingIn
  <2> QED BY <2>1, <2>2
<1> QED BY <1>1, <1>2, <1>3 DEF Covered

LEMMA EdgeAdded ==
  ASSUME NEW es, NEW sites, NEW n \in Nat, NEW objs, NEW proj,
         OneEdgeEach(es, sites, n, objs, proj), Tracked(sites[n + 1], objs, proj)
  PROVE  OneEdgeEach(Append(es, EdgeOf(sites[n + 1], objs, proj)), sites, n + 1, objs, proj)
<1> DEFINE e == EdgeOf(sites[n + 1], objs, proj)
           more == Append(es, e)
<1>1. IsList(es)
  BY DEF OneEdgeEach
<1> HIDE DEF e
<1>2. Joined(more, es, <<e>>) /\ DOMAIN <<e>> = {1} /\ <<e>>[1] = e /\ Len(<<e>>) = 1
  BY <1>1, AppendJoins, ListOfOne
<1>3. /\ Len(es) \in Nat /\ DOMAIN es = 1..Len(es) /\ DOMAIN more = 1..(Len(es) + 1)
      /\ IsList(more) /\ more[Len(es) + 1] = e /\ \A i \in DOMAIN es : more[i] = es[i]
  <2>1. Len(es) \in Nat /\ DOMAIN es = 1..Len(es)
    BY <1>1 DEF IsList
  <2>2. IsList(more) /\ Len(more) = Len(es) + 1
    BY <1>2 DEF Joined
  <2>3. DOMAIN more = 1..Len(more)
    BY <2>2 DEF IsList
  <2> HIDE DEF more
  <2> QED BY <1>2, <2>1, <2>2, <2>3 DEF Joined
<1> HIDE DEF more
<1>4. PICK place \in [DOMAIN es -> 1..n] :
        /\ \A i \in DOMAIN es : Tracked(sites[place[i]], objs, proj)
                               /\ es[i] = EdgeOf(sites[place[i]], objs, proj)
        /\ \A i, j \in DOMAIN es : place[i] = place[j] => i = j
        /\ \A k \in 1..n : Tracked(sites[k], objs, proj) => \E i \in DOMAIN es : place[i] = k
  BY DEF OneEdgeEach
<1> DEFINE longer == [i \in DOMAIN more |-> IF i \in DOMAIN es THEN place[i] ELSE n + 1]
<1>5. /\ Len(es) + 1 \in DOMAIN more /\ Len(es) + 1 \notin DOMAIN es
      /\ \A i \in DOMAIN more : i \in DOMAIN es \/ i = Len(es) + 1
      /\ \A i \in DOMAIN es : i \in DOMAIN more
  BY <1>3
<1>6. /\ n + 1 \in 1..(n + 1) /\ n + 1 \notin 1..n
      /\ \A k \in 1..n : k \in 1..(n + 1)
      /\ \A k \in 1..(n + 1) : k \in 1..n \/ k = n + 1
  OBVIOUS
<1>7. /\ longer[Len(es) + 1] = n + 1 /\ \A i \in DOMAIN es : longer[i] = place[i] /\ place[i] \in 1..n
      /\ longer \in [DOMAIN more -> 1..(n + 1)]
  BY <1>5, <1>6
<1> HIDE DEF longer
<1>8. \A i \in DOMAIN more : Tracked(sites[longer[i]], objs, proj)
                            /\ more[i] = EdgeOf(sites[longer[i]], objs, proj)
  BY <1>3, <1>4, <1>5, <1>7 DEF e
<1>9. \A i, j \in DOMAIN more : longer[i] = longer[j] => i = j
  BY <1>4, <1>5, <1>6, <1>7
<1>10. \A k \in 1..(n + 1) : Tracked(sites[k], objs, proj) => \E i \in DOMAIN more : longer[i] = k
  BY <1>4, <1>5, <1>6, <1>7
<1>11. OneEdgeEach(more, sites, n + 1, objs, proj)
  BY <1>3, <1>7, <1>8, <1>9, <1>10 DEF OneEdgeEach
<1> QED BY <1>11 DEF more, e

LEMMA NoEdgeAdded ==
  ASSUME NEW es, NEW sites, NEW n \in Nat, NEW objs, NEW proj,
         OneEdgeEach(es, sites, n, objs, proj), ~Tracked(sites[n + 1], objs, proj)
  PROVE  OneEdgeEach(es, sites, n + 1, objs, proj)
<1>1. PICK place \in [DOMAIN es -> 1..n] :
        /\ \A i \in DOMAIN es : Tracked(sites[place[i]], objs, proj)
                               /\ es[i] = EdgeOf(sites[place[i]], objs, proj)
        /\ \A i, j \in DOMAIN es : place[i] = place[j] => i = j
        /\ \A k \in 1..n : Tracked(sites[k], objs, proj) => \E i \in DOMAIN es : place[i] = k
  BY DEF OneEdgeEach
<1>2. /\ \A k \in 1..n : k \in 1..(n + 1)
      /\ \A k \in 1..(n + 1) : k \in 1..n \/ k = n + 1
  OBVIOUS
<1>3. place \in [DOMAIN es -> 1..(n + 1)]
  BY <1>2
<1>4. \A k \in 1..(n + 1) : Tracked(sites[k], objs, proj) => \E i \in DOMAIN es : place[i] = k
  BY <1>1, <1>2
<1> QED BY <1>1, <1>3, <1>4 DEF OneEdgeEach

LEMMA EndpointsAdded ==
  ASSUME NEW eps, NEW ids, NEW diags, NEW adapt, NEW sites, NEW n \in Nat,
         Registered(eps, ids, diags, adapt, sites, n), IsList(diags),
         NEW call, call = sites[n + 1].call, NEW m, ProperMatch(m, ids),
         (call.role \in DOMAIN AdapterOf /\ AdapterOf[call.role] \in adapt) => Answers(m),
         NEW found, found = [i \in DOMAIN m.endpoints |->
                               [id |-> EndpointID(m.endpoints[i]), at |-> call.at,
                                registers |-> m.endpoints[i]]]
  PROVE  /\ Registered(eps \o found, ids, diags \o Report(m.codes, call.at), adapt, sites, n + 1)
         /\ IsList(found)
<1> DEFINE more == eps \o found
           said == Report(m.codes, call.at)
           all == diags \o said
<1>1. /\ IsList(m.endpoints) /\ m.codes \in Seq(Codes)
      /\ \A i \in DOMAIN m.endpoints : m.endpoints[i].fn \in ids /\ WellNamed(m.endpoints[i])
  BY DEF ProperMatch
<1>2. /\ Len(m.endpoints) \in Nat /\ DOMAIN m.endpoints = 1..Len(m.endpoints)
      /\ Len(m.codes) \in Nat /\ DOMAIN m.codes = 1..Len(m.codes)
  BY <1>1 DEF IsList
<1>3. /\ IsList(found) /\ DOMAIN found = DOMAIN m.endpoints
      /\ \A i \in DOMAIN found : /\ found[i].id = EndpointID(found[i].registers)
                                 /\ found[i].at = call.at
                                 /\ found[i].registers.fn \in ids /\ WellNamed(found[i].registers)
  <2>1. found = [i \in 1..Len(m.endpoints) |-> found[i]] /\ DOMAIN found = DOMAIN m.endpoints
    BY <1>2
  <2>2. IsList(found)
    BY <1>2, <2>1, ListFromFunction
  <2> QED BY <1>1, <2>1, <2>2
<1>4. /\ IsList(said) /\ DOMAIN said = DOMAIN m.codes
      /\ \A i \in DOMAIN said : said[i].at = call.at
  <2>1. DOMAIN said = DOMAIN m.codes /\ said = [i \in 1..Len(m.codes) |-> said[i]]
    BY <1>2 DEF Report
  <2>2. \A i \in DOMAIN said : said[i].at = call.at
    BY DEF Report, Diagnostic
  <2> HIDE DEF said
  <2> QED BY <1>2, <2>1, <2>2, ListFromFunction
<1> HIDE DEF said
<1>5. Joined(more, eps, found) /\ Joined(all, diags, said)
  BY <1>3, <1>4, ConcatJoins DEF Registered
<1> HIDE DEF more, all
<1>6. IsList(more)
  BY <1>5 DEF Joined
<1>7. ASSUME NEW i \in DOMAIN more
      PROVE  /\ more[i].id = EndpointID(more[i].registers)
             /\ more[i].registers.fn \in ids /\ WellNamed(more[i].registers)
  <2>1. CASE i \in DOMAIN eps
    BY <1>5, <2>1 DEF Joined, Registered
  <2>2. CASE i \notin DOMAIN eps
    <3>1. i - Len(eps) \in DOMAIN found /\ more[i] = found[i - Len(eps)]
      BY <1>5, <2>2 DEF Joined
    <3> QED BY <1>3, <3>1
  <2> QED BY <2>1, <2>2
<1>8. /\ \A i \in DOMAIN eps : i \in DOMAIN more /\ more[i] = eps[i]
      /\ \A i \in DOMAIN diags : i \in DOMAIN all /\ all[i] = diags[i]
  BY <1>5 DEF Joined
<1>9. Answers(m) => \/ \E i \in DOMAIN more : more[i].at = call.at
                    \/ \E i \in DOMAIN all : all[i].at = call.at
  <2>1. CASE m.endpoints # <<>>
    <3>1. 1 \in DOMAIN found
      <4>1. Len(m.endpoints) # 0
        BY <1>1, <2>1 DEF IsList
      <4> QED BY <1>2, <1>3, <4>1
    <3>2. Len(eps) + 1 \in DOMAIN more /\ more[Len(eps) + 1] = found[1]
      BY <1>5, <3>1 DEF Joined
    <3> QED BY <1>3, <3>1, <3>2
  <2>2. CASE m.codes # <<>>
    <3>1. 1 \in DOMAIN said
      <4>1. Len(m.codes) # 0
        BY <1>1, <2>2
      <4> QED BY <1>2, <1>4, <4>1
    <3>2. Len(diags) + 1 \in DOMAIN all /\ all[Len(diags) + 1] = said[1]
      BY <1>5, <3>1 DEF Joined
    <3> QED BY <1>4, <3>1, <3>2
  <2> QED BY <2>1, <2>2 DEF Answers
<1>10. ASSUME NEW k \in 1..(n + 1),
              sites[k].call.role \in DOMAIN AdapterOf, AdapterOf[sites[k].call.role] \in adapt
       PROVE  \/ \E i \in DOMAIN more : more[i].at = sites[k].call.at
              \/ \E i \in DOMAIN all : all[i].at = sites[k].call.at
  <2>1. CASE k \in 1..n
    BY <1>8, <1>10, <2>1 DEF Registered
  <2>2. CASE k = n + 1
    BY <1>9, <1>10, <2>2
  <2> QED BY <2>1, <2>2
<1>11. Registered(more, ids, all, adapt, sites, n + 1)
  BY <1>6, <1>7, <1>10 DEF Registered
<1> QED BY <1>3, <1>11 DEF more, all, said

LEMMA DependencyAdded ==
  ASSUME NEW ds, NEW sites, NEW n \in Nat, NEW proj, Used(ds, sites, n, proj),
         NEW d, UsedBy(d, sites[n + 1]), \A j \in DOMAIN ds : ds[j].id # d.id
  PROVE  Used(Append(ds, d), sites, n + 1, proj)
<1> DEFINE more == Append(ds, d)
<1>1. IsList(ds)
  BY DEF Used
<1>2. Joined(more, ds, <<d>>) /\ DOMAIN <<d>> = {1} /\ <<d>>[1] = d /\ Len(<<d>>) = 1
  BY <1>1, AppendJoins, ListOfOne
<1> HIDE DEF more
<1>3. /\ IsList(more) /\ \A i \in DOMAIN ds : i \in DOMAIN more /\ more[i] = ds[i]
      /\ Len(ds) + 1 \in DOMAIN more /\ more[Len(ds) + 1] = d
      /\ \A i \in DOMAIN more : i \in DOMAIN ds \/ i = Len(ds) + 1
  <2>1. Len(ds) \in Nat
    BY <1>1 DEF IsList
  <2>2. DOMAIN more = 1..Len(more)
    BY <1>2 DEF Joined, IsList
  <2>3. \A i \in DOMAIN more : i \notin DOMAIN ds => i = Len(ds) + 1
    <3>1. \A i \in DOMAIN more : i \notin DOMAIN ds => i - Len(ds) = 1
      BY <1>2 DEF Joined
    <3> QED BY <2>1, <2>2, <3>1
  <2> QED BY <1>2, <2>3 DEF Joined
<1>4. \A i, j \in DOMAIN more : more[i].id = more[j].id => i = j
  BY <1>3 DEF Used
<1>5. /\ n + 1 \in 1..(n + 1) /\ \A k \in 1..n : k \in 1..(n + 1)
      /\ \A k \in 1..(n + 1) : k \in 1..n \/ k = n + 1
  OBVIOUS
<1>6. \A i \in DOMAIN more : \E k \in 1..(n + 1) : UsedBy(more[i], sites[k])
  BY <1>3, <1>5 DEF Used
<1>7. \A k \in 1..(n + 1) :
        (/\ sites[k].call.role \in DOMAIN KindOfRole /\ sites[k].call.enough
         /\ sites[k].call.ref.package \notin proj)
          => \E i \in DOMAIN more : more[i].at = sites[k].call.at /\ more[i].fn = sites[k].in.id
  <2>1. more[Len(ds) + 1].at = sites[n + 1].call.at /\ more[Len(ds) + 1].fn = sites[n + 1].in.id
    BY <1>3 DEF UsedBy
  <2> QED BY <1>3, <1>5, <2>1 DEF Used
<1>8. Used(more, sites, n + 1, proj)
  BY <1>3, <1>4, <1>6, <1>7 DEF Used
<1> QED BY <1>8 DEF more

\* A call without a dependency, or with one that is there already.
LEMMA NoDependencyAdded ==
  ASSUME NEW ds, NEW sites, NEW n \in Nat, NEW proj, Used(ds, sites, n, proj),
         (/\ sites[n + 1].call.role \in DOMAIN KindOfRole /\ sites[n + 1].call.enough
          /\ sites[n + 1].call.ref.package \notin proj)
           => \E i \in DOMAIN ds :
                ds[i].at = sites[n + 1].call.at /\ ds[i].fn = sites[n + 1].in.id
  PROVE  Used(ds, sites, n + 1, proj)
<1>1. /\ \A k \in 1..n : k \in 1..(n + 1)
      /\ \A k \in 1..(n + 1) : k \in 1..n \/ k = n + 1
  OBVIOUS
<1> QED BY <1>1 DEF Used

\* The lists of the functions follow what is appended.
LEMMA ListedEndpoints ==
  ASSUME NEW ls, NEW eps, IsList(eps), NEW found, IsList(found), NEW ds, NEW es, Listed(ls, eps, ds, es)
  PROVE  Listed([x \in DOMAIN ls |->
                   [ls[x] EXCEPT !.endpoints =
                      @ \cup {found[i].id : i \in {j \in DOMAIN found : found[j].registers.fn = x}}]],
                eps \o found, ds, es)
<1> DEFINE more == eps \o found
           new == [x \in DOMAIN ls |->
                     [ls[x] EXCEPT !.endpoints =
                        @ \cup {found[i].id : i \in {j \in DOMAIN found : found[j].registers.fn = x}}]]
<1>1. Joined(more, eps, found)
  BY ConcatJoins
<1> HIDE DEF more
<1>2. ASSUME NEW x
      PROVE  EndpointIDs(more, x) = EndpointIDs(eps, x) \cup EndpointIDs(found, x)
  BY <1>1 DEF Joined, EndpointIDs
<1>3. ASSUME NEW x \in DOMAIN ls
      PROVE  new[x] = [endpoints |-> EndpointIDs(more, x), dependencies |-> DependencyIDs(ds, x),
                       callers |-> CallerIDs(es, x), callees |-> CalleeIDs(es, x)]
  <2> DEFINE A == EndpointIDs(eps, x)
             F == EndpointIDs(found, x)
             B == DependencyIDs(ds, x)
             C == CallerIDs(es, x)
             D == CalleeIDs(es, x)
             A1 == EndpointIDs(more, x)
  <2>1. ls[x] = [endpoints |-> A, dependencies |-> B, callers |-> C, callees |-> D]
    BY DEF Listed
  <2>2. new[x] = [ls[x] EXCEPT !.endpoints = @ \cup F]
    BY DEF EndpointIDs
  <2> HIDE DEF new
  <2>3. A1 = A \cup F
    BY <1>2
  <2> HIDE DEF A, B, C, D, F, A1
  <2>4. new[x] = [endpoints |-> A1, dependencies |-> B, callers |-> C, callees |-> D]
    BY <2>1, <2>2, <2>3
  <2> QED BY <2>4 DEF A1, B, C, D
<1>4. DOMAIN new = DOMAIN ls
  OBVIOUS
<1> HIDE DEF new
<1>5. Listed(new, more, ds, es)
  BY <1>3, <1>4 DEF Listed
<1> QED BY <1>5 DEF new, more

LEMMA ListedDependencies ==
  ASSUME NEW ls, NEW eps, NEW ds, IsList(ds), NEW es, Listed(ls, eps, ds, es),
         NEW fresh, IsList(fresh), NEW fn \in DOMAIN ls, \A i \in DOMAIN fresh : fresh[i].fn = fn
  PROVE  Listed([ls EXCEPT ![fn].dependencies = @ \cup {fresh[i].id : i \in DOMAIN fresh}],
                eps, ds \o fresh, es)
<1> DEFINE more == ds \o fresh
           ids == {fresh[i].id : i \in DOMAIN fresh}
           new == [ls EXCEPT ![fn].dependencies = @ \cup ids]
<1>1. Joined(more, ds, fresh)
  BY ConcatJoins
<1> HIDE DEF more
<1>2. ASSUME NEW x
      PROVE  DependencyIDs(more, x) = DependencyIDs(ds, x) \cup (IF fn = x THEN ids ELSE {})
  <2>1. DependencyIDs(more, x) = DependencyIDs(ds, x) \cup DependencyIDs(fresh, x)
    BY <1>1 DEF Joined, DependencyIDs
  <2>2. DependencyIDs(fresh, x) = IF fn = x THEN ids ELSE {}
    BY DEF DependencyIDs
  <2> QED BY <2>1, <2>2
<1> HIDE DEF ids
<1>3. ASSUME NEW x \in DOMAIN ls
      PROVE  new[x] = [endpoints |-> EndpointIDs(eps, x), dependencies |-> DependencyIDs(more, x),
                       callers |-> CallerIDs(es, x), callees |-> CalleeIDs(es, x)]
  <2> DEFINE A == EndpointIDs(eps, x)
             B == DependencyIDs(ds, x)
             C == CallerIDs(es, x)
             D == CalleeIDs(es, x)
             B1 == DependencyIDs(more, x)
  <2>1. ls[x] = [endpoints |-> A, dependencies |-> B, callers |-> C, callees |-> D]
    BY DEF Listed
  <2>2. new[x] = IF x = fn THEN [ls[x] EXCEPT !.dependencies = @ \cup ids] ELSE ls[x]
    OBVIOUS
  <2> HIDE DEF new
  <2>3. B1 = IF x = fn THEN B \cup ids ELSE B
    BY <1>2
  <2> HIDE DEF A, B, C, D, B1
  <2>4. new[x] = [endpoints |-> A, dependencies |-> B1, callers |-> C, callees |-> D]
    <3>1. CASE x = fn
      <4>1. B1 = B \cup ids /\ new[x] = [ls[x] EXCEPT !.dependencies = @ \cup ids]
        BY <2>2, <2>3, <3>1
      <4> QED BY <2>1, <4>1
    <3>2. CASE x # fn
      <4>1. B1 = B /\ new[x] = ls[x]
        BY <2>2, <2>3, <3>2
      <4> QED BY <2>1, <4>1
    <3> QED BY <3>1, <3>2
  <2> QED BY <2>4 DEF A, B1, C, D
<1>4. DOMAIN new = DOMAIN ls
  OBVIOUS
<1> HIDE DEF new
<1>5. Listed(new, eps, more, es)
  BY <1>3, <1>4 DEF Listed
<1> QED BY <1>5 DEF new, more, ids

LEMMA ListedEdge ==
  ASSUME NEW ls, NEW eps, NEW ds, NEW es, IsList(es), Listed(ls, eps, ds, es),
         NEW e, e.caller \in DOMAIN ls, e.resolved \in BOOLEAN, e.resolved => e.callee \in DOMAIN ls
  PROVE  Listed(IF e.resolved
                  THEN [ls EXCEPT ![e.caller].callees = @ \cup {e.callee},
                                  ![e.callee].callers = @ \cup {e.caller}]
                  ELSE ls, eps, ds, Append(es, e))
<1> DEFINE more == Append(es, e)
           new == [ls EXCEPT ![e.caller].callees = @ \cup {e.callee},
                             ![e.callee].callers = @ \cup {e.caller}]
           res == IF e.resolved THEN new ELSE ls
<1>1. Joined(more, es, <<e>>) /\ DOMAIN <<e>> = {1} /\ <<e>>[1] = e
  BY AppendJoins, ListOfOne
<1> HIDE DEF more
<1>2. ASSUME NEW x
      PROVE  /\ CallerIDs(more, x)
                  = CallerIDs(es, x) \cup (IF e.resolved /\ e.callee = x THEN {e.caller} ELSE {})
             /\ CalleeIDs(more, x)
                  = CalleeIDs(es, x) \cup (IF e.resolved /\ e.caller = x THEN {e.callee} ELSE {})
  <2>1. CallerIDs(more, x) = CallerIDs(es, x) \cup (IF e.resolved /\ e.callee = x THEN {e.caller} ELSE {})
    BY <1>1 DEF Joined, CallerIDs
  <2>2. CalleeIDs(more, x) = CalleeIDs(es, x) \cup (IF e.resolved /\ e.caller = x THEN {e.callee} ELSE {})
    BY <1>1 DEF Joined, CalleeIDs
  <2> QED BY <2>1, <2>2
<1>3. ASSUME NEW x \in DOMAIN ls
      PROVE  res[x] = [endpoints |-> EndpointIDs(eps, x), dependencies |-> DependencyIDs(ds, x),
                       callers |-> CallerIDs(more, x), callees |-> CalleeIDs(more, x)]
  <2> DEFINE A == EndpointIDs(eps, x)
             B == DependencyIDs(ds, x)
             C == CallerIDs(es, x)
             D == CalleeIDs(es, x)
             C1 == CallerIDs(more, x)
             D1 == CalleeIDs(more, x)
  <2>1. ls[x] = [endpoints |-> A, dependencies |-> B, callers |-> C, callees |-> D]
    BY DEF Listed
  <2>2. /\ C1 = C \cup (IF e.resolved /\ e.callee = x THEN {e.caller} ELSE {})
        /\ D1 = D \cup (IF e.resolved /\ e.caller = x THEN {e.callee} ELSE {})
    BY <1>2
  <2> HIDE DEF A, B, C, D, C1, D1
  <2> DEFINE want == [endpoints |-> A, dependencies |-> B, callers |-> C1, callees |-> D1]
  <2>3. ASSUME ~e.resolved
        PROVE  res[x] = want
    <3>1. C1 = C /\ D1 = D /\ res = ls
      BY <2>2, <2>3
    <3> QED BY <2>1, <3>1
  <2>4. ASSUME e.resolved
        PROVE  res[x] = want
    <3>1. C1 = (IF e.callee = x THEN C \cup {e.caller} ELSE C)
      BY <2>2, <2>4
    <3>2. D1 = (IF e.caller = x THEN D \cup {e.callee} ELSE D)
      BY <2>2, <2>4
    <3> DEFINE one == [ls EXCEPT ![e.caller].callees = @ \cup {e.callee}]
    <3>3. DOMAIN one = DOMAIN ls /\ new = [one EXCEPT ![e.callee].callers = @ \cup {e.caller}]
      OBVIOUS
    <3>4. one[x] = [endpoints |-> A, dependencies |-> B, callers |-> C, callees |-> D1]
      <4>1. one[x] = IF x = e.caller THEN [ls[x] EXCEPT !.callees = @ \cup {e.callee}] ELSE ls[x]
        OBVIOUS
      <4> HIDE DEF one
      <4> QED BY <2>1, <3>2, <4>1
    <3> HIDE DEF one
    <3>5. new[x] = IF x = e.callee THEN [one[x] EXCEPT !.callers = @ \cup {e.caller}] ELSE one[x]
      BY <2>4, <3>3
    <3> HIDE DEF new
    <3>6. new[x] = [endpoints |-> A, dependencies |-> B, callers |-> C1, callees |-> D1]
      BY <3>1, <3>4, <3>5
    <3> QED BY <2>4, <3>6
  <2>5. res[x] = want
    BY <2>3, <2>4
  <2> QED BY <2>5 DEF A, B, C1, D1
<1>4. DOMAIN res = DOMAIN ls
  OBVIOUS
<1> HIDE DEF res
<1>5. Listed(res, eps, ds, more)
  BY <1>3, <1>4 DEF Listed
<1> QED BY <1>5 DEF res, new, more

\* A new function has nothing to list yet.
LEMMA ListedFunction ==
  ASSUME NEW ls, Listed(ls, <<>>, <<>>, <<>>), NEW id
  PROVE  Listed([x \in DOMAIN ls \cup {id} |->
                   IF x = id THEN [endpoints |-> {}, dependencies |-> {}, callers |-> {}, callees |-> {}]
                   ELSE ls[x]], <<>>, <<>>, <<>>)
<1>1. \A x : /\ EndpointIDs(<<>>, x) = {} /\ DependencyIDs(<<>>, x) = {}
             /\ CallerIDs(<<>>, x) = {} /\ CalleeIDs(<<>>, x) = {}
  BY DEF EndpointIDs, DependencyIDs, CallerIDs, CalleeIDs
<1> QED BY <1>1 DEF Listed

\* Of one dependency or none, the fresh ones are one or none.
LEMMA KeptOfOne ==
  ASSUME NEW d, NEW places
  PROVE  Kept(<<d>>, places) = IF 1 \in places THEN <<d>> ELSE <<>>
<1> DEFINE one == <<d>>
           kept == Kept(one, places)
<1>1. one \in Seq({d}) /\ IsList(one) /\ Len(one) = 1 /\ DOMAIN one = {1} /\ one[1] = d
  BY OneIn, ListOfOne
<1> HIDE DEF one
<1>2. kept \in Seq({d}) /\ Selects(kept, one, places)
  BY <1>1, KeptSelects
<1> HIDE DEF kept
<1>3. IsList(kept) /\ Len(kept) \in Nat /\ DOMAIN kept = 1..Len(kept)
  BY <1>2, ListOfSet
<1>4. CASE 1 \notin places
  <2>1. DOMAIN kept = {}
    BY <1>1, <1>2, <1>4 DEF Selects
  <2>2. Len(kept) = 0
    BY <1>3, <2>1
  <2>3. kept = <<>>
    BY <1>3, <2>2, EmptyList, ListsEqual
  <2> QED BY <1>4, <2>3 DEF kept, one
<1>5. CASE 1 \in places
  <2>1. \E k \in DOMAIN kept : kept[k] = d
    BY <1>1, <1>2, <1>5 DEF Selects
  <2>2. \A k, l \in DOMAIN kept : k = l
    BY <1>1, <1>2 DEF Selects
  <2>3. Len(kept) = 1
    <3>1. Len(kept) # 0
      BY <1>3, <2>1
    <3>2. ASSUME Len(kept) > 1
          PROVE  FALSE
      <4>1. 1 \in DOMAIN kept /\ 2 \in DOMAIN kept
        BY <1>3, <3>2
      <4> QED BY <2>2, <4>1
    <3> QED BY <1>3, <3>1, <3>2
  <2>4. kept[1] = d
    BY <1>3, <2>1, <2>3
  <2>5. \A i \in 1..Len(kept) : kept[i] = one[i]
    BY <1>1, <2>3, <2>4
  <2>6. kept = one
    BY <1>1, <1>3, <2>3, <2>5, ListsEqual
  <2> QED BY <1>5, <2>6 DEF kept, one
<1> QED BY <1>4, <1>5

LEMMA ConcatOne ==
  ASSUME NEW s, IsList(s), NEW d
  PROVE  s \o <<d>> = Append(s, d) /\ s \o <<>> = s
<1>1. s \o <<>> = s
  BY DEF IsList
<1> DEFINE one == <<d>>
           long == s \o one
           more == Append(s, d)
<1>2. IsList(one) /\ Len(one) = 1 /\ DOMAIN one = {1} /\ one[1] = d /\ Len(s) \in Nat
  BY ListOfOne DEF IsList
<1>3. Joined(more, s, one)
  BY AppendJoins
<1> HIDE DEF one, more
<1>4. Joined(long, s, one)
  BY <1>2, ConcatJoins
<1> HIDE DEF long
<1>5. IsList(long) /\ IsList(more) /\ Len(long) = Len(more)
  BY <1>3, <1>4 DEF Joined
<1>6. ASSUME NEW i \in 1..Len(long)
      PROVE  long[i] = more[i]
  <2>1. i \in DOMAIN long /\ i \in DOMAIN more
    BY <1>5 DEF IsList
  <2>2. CASE i \in DOMAIN s
    BY <1>3, <1>4, <2>2 DEF Joined
  <2>3. CASE i \notin DOMAIN s
    BY <1>3, <1>4, <2>1, <2>3 DEF Joined
  <2> QED BY <2>2, <2>3
<1>7. long = more
  BY <1>5, <1>6, ListsEqual
<1> QED BY <1>1, <1>7 DEF long, more, one
-----------------------------------------------------------------------------
(* What the invariant says of the lists the stages walk *)

LEMMA WhatIsWalked ==
  ASSUME IInv
  PROVE  /\ input \in SourceInput /\ input.packages \in Seq(LoadedPackage)
         /\ loaded \in Seq(LoadedPackage)
         /\ VisitedFunctions(loaded) \in Seq(Visit)
         /\ NumbersApart(VisitedFunctions(loaded))
         /\ Sites \in Seq(Site(DOMAIN lists))
<1>1. input \in SourceInput /\ OneNumberEach(input.packages)
  BY InputsAssumption DEF IInv, PositionInv
<1>2. input.packages \in Seq(LoadedPackage)
  BY <1>1 DEF SourceInput
<1>3. loaded \in Seq(LoadedPackage) /\ OneOfEach(loaded, input.packages)
  BY DEF IInv, PackagesInv
<1>4. records \in Seq(Record(DOMAIN lists))
  BY DEF IInv, FunctionsInv, Collected
<1>5. Sites \in Seq(Site(DOMAIN lists))
  BY <1>4, SitesFacts
<1> QED BY <1>1, <1>2, <1>3, <1>5, VisitedFacts DEF NumbersApart

LEMMA LengthsWalked ==
  ASSUME IInv
  PROVE  /\ Len(loaded) \in Nat /\ DOMAIN loaded = 1..Len(loaded)
         /\ Len(VisitedFunctions(loaded)) \in Nat
         /\ DOMAIN VisitedFunctions(loaded) = 1..Len(VisitedFunctions(loaded))
         /\ Len(Sites) \in Nat /\ DOMAIN Sites = 1..Len(Sites)
         /\ \A i \in DOMAIN Sites : Sites[i] \in Site(DOMAIN lists)
<1> DEFINE v == VisitedFunctions(loaded)
           S == Site(DOMAIN lists)
<1>1. loaded \in Seq(LoadedPackage) /\ v \in Seq(Visit) /\ Sites \in Seq(S)
  BY WhatIsWalked
<1> HIDE DEF v, S
<1>2. /\ Len(loaded) \in Nat /\ DOMAIN loaded = 1..Len(loaded)
      /\ Len(v) \in Nat /\ DOMAIN v = 1..Len(v)
      /\ Len(Sites) \in Nat /\ DOMAIN Sites = 1..Len(Sites)
      /\ \A i \in DOMAIN Sites : Sites[i] \in S
  BY <1>1, ListOfSet
<1> QED BY <1>2 DEF v, S

LEMMA VisitedStay ==
  ASSUME UNCHANGED <<input, loaded>>
  PROVE  VisitedFunctions(loaded)' = VisitedFunctions(loaded)
BY DEF VisitedFunctions, FunctionsOf, AnalyzedFiles, Analyzed

LEMMA SitesStay ==
  ASSUME UNCHANGED records
  PROVE  Sites' = Sites
BY DEF Sites

LEMMA WalkedStay ==
  ASSUME UNCHANGED <<input, loaded, records>>, NEW stage
  PROVE  Walked(stage)' = Walked(stage)
BY VisitedStay, SitesStay DEF Walked

LEMMA StepsOf ==
  ASSUME IInv
  PROVE  /\ Step \in 0..8
         /\ pc = "config" => Step = 0
         /\ pc = "load" => Step = 1
         /\ pc = "packages" => Step = 2 /\ Walked(pc) = loaded
         /\ pc = "functions" => Step = 3 /\ Walked(pc) = VisitedFunctions(loaded)
         /\ pc = "calls" => Step = 4 /\ Walked(pc) = Sites
         /\ pc = "endpoints" => Step = 5 /\ Walked(pc) = Sites
         /\ pc = "dependencies" => Step = 6 /\ Walked(pc) = Sites
         /\ pc = "convert" => Step = 7
BY DEF IInv, PositionInv, Stages, Final, Step, Rank, Walked

LEMMA StagesFollow ==
  ASSUME IInv, pc \in DOMAIN After
  PROVE  /\ pc \in {"packages", "functions", "calls", "endpoints", "dependencies"}
         /\ input.loads /\ After[pc] \in Stages /\ After[pc] \notin Final \cup {"config", "load"}
         /\ Rank[After[pc]] = Rank[pc] + 1 /\ Rank[pc] \in 2..6 /\ Step = Rank[pc]
BY DEF IInv, PositionInv, Stages, Final, Step, Rank, After

\* A list that grows keeps what it had.
Grown(more, s) == \A i \in DOMAIN s : i \in DOMAIN more /\ more[i] = s[i]

LEMMA ReportGrows ==
  ASSUME IInv, NEW codes \in Seq(Codes \cup ErrorsOf(input.packages)), NEW where \in Nat,
         UNCHANGED input, diagnostics' = diagnostics \o Report(codes, where)
  PROVE  DiagnosticsInv' /\ Grown(diagnostics', diagnostics)
<1> DEFINE said == Report(codes, where)
           T == Codes \cup ErrorsOf(input.packages)
<1>1. Len(codes) \in Nat /\ DOMAIN codes = 1..Len(codes) /\ \A i \in DOMAIN codes : codes[i] \in T
  OBVIOUS
<1>2. /\ DOMAIN said = 1..Len(codes) /\ said = [i \in 1..Len(codes) |-> said[i]]
      /\ \A i \in DOMAIN said : said[i].code \in T /\ said[i].at \in Nat
  BY <1>1 DEF Report, Diagnostic
<1> HIDE DEF said, T
<1>3. IsList(said) /\ IsList(diagnostics)
  BY <1>1, <1>2, ListFromFunction DEF IInv, DiagnosticsInv
<1>4. Joined(diagnostics', diagnostics, said)
  BY <1>3, ConcatJoins DEF said
<1>5. \A i \in DOMAIN diagnostics : diagnostics[i].code \in T /\ diagnostics[i].at \in Nat
  BY DEF IInv, DiagnosticsInv, T
<1>6. \A i \in DOMAIN diagnostics' : diagnostics'[i].code \in T /\ diagnostics'[i].at \in Nat
  BY <1>2, <1>4, <1>5 DEF Joined
<1>7. IsList(diagnostics')
  BY <1>4 DEF Joined
<1>8. T' = T
  BY DEF T
<1>9. DiagnosticsInv'
  BY <1>6, <1>7, <1>8 DEF DiagnosticsInv, T
<1> QED BY <1>4, <1>9 DEF Joined, Grown

LEMMA NothingReported ==
  ASSUME IInv, UNCHANGED <<input, diagnostics>>
  PROVE  DiagnosticsInv' /\ Grown(diagnostics', diagnostics)
BY DEF IInv, DiagnosticsInv, Grown
-----------------------------------------------------------------------------
(* What a step leaves alone *)

LEMMA ConfigStays ==
  ASSUME ConfigInv, pc \notin {"config", "refused"}, UNCHANGED <<input, adapters>>,
         Grown(diagnostics', diagnostics)
  PROVE  ConfigInv'
<1>1. Chosen' = Chosen /\ Handed' = Handed /\ Asked' = Asked
  BY DEF Chosen, Handed, Asked
<1>2. ConfigReported => ConfigReported'
  BY DEF ConfigReported, Grown
<1> QED BY <1>1, <1>2 DEF ConfigInv

LEMMA PackagesStay ==
  ASSUME PackagesInv, Step' \in 2..8, UNCHANGED <<input, loaded, project>>
  PROVE  PackagesInv'
BY DEF PackagesInv

LEMMA FunctionsStay ==
  ASSUME IInv, Step \in 4..8, Step' \in 4..8, UNCHANGED <<input, loaded, records, objects>>,
         DOMAIN lists' = DOMAIN lists
  PROVE  FunctionsInv'
<1> DEFINE v == VisitedFunctions(loaded)
<1>1. v' = v
  BY VisitedStay
<1>2. Seen(3, v) = Len(v) /\ Seen(3, v)' = Len(v')
  BY DEF Seen
<1>3. Collected(records, objects, DOMAIN lists) /\ Covered(records, objects, v, Seen(3, v))
  BY DEF IInv, FunctionsInv
<1> HIDE DEF v
<1>4. Collected(records', objects', DOMAIN lists') /\ Covered(records', objects', v', Seen(3, v)')
  BY <1>1, <1>2, <1>3
<1> QED BY <1>4 DEF FunctionsInv, v

LEMMA EdgesStay ==
  ASSUME IInv, Step \in 5..8, Step' \in 5..8, UNCHANGED <<records, objects, project, edges>>
  PROVE  EdgesInv'
<1>1. Sites' = Sites
  BY SitesStay
<1>2. Seen(4, Sites) = Len(Sites) /\ Seen(4, Sites)' = Len(Sites')
  BY DEF Seen
<1>3. OneEdgeEach(edges, Sites, Len(Sites), objects, project)
  BY <1>2 DEF IInv, EdgesInv
<1>4. OneEdgeEach(edges', Sites', Seen(4, Sites)', objects', project')
  BY <1>1, <1>2, <1>3
<1> QED BY <1>4 DEF EdgesInv

LEMMA EndpointsStay ==
  ASSUME IInv, Step \in 6..8, Step' \in 6..8, UNCHANGED <<records, adapters, endpoints>>,
         DOMAIN lists' = DOMAIN lists, Grown(diagnostics', diagnostics)
  PROVE  EndpointsInv'
<1>1. Sites' = Sites
  BY SitesStay
<1>2. Seen(5, Sites) = Len(Sites) /\ Seen(5, Sites)' = Len(Sites')
  BY DEF Seen
<1>3. Registered(endpoints, DOMAIN lists, diagnostics, adapters, Sites, Len(Sites))
  BY <1>2 DEF IInv, EndpointsInv
<1>4. Registered(endpoints, DOMAIN lists, diagnostics', adapters, Sites, Len(Sites))
  BY <1>3 DEF Registered, Grown
<1>5. Registered(endpoints', DOMAIN lists', diagnostics', adapters', Sites', Seen(5, Sites)')
  BY <1>1, <1>2, <1>4
<1> QED BY <1>5 DEF EndpointsInv

LEMMA DependenciesStay ==
  ASSUME IInv, Step \in 7..8, Step' \in 7..8, UNCHANGED <<records, project, dependencies>>
  PROVE  DependenciesInv'
<1>1. Sites' = Sites
  BY SitesStay
<1>2. Seen(6, Sites) = Len(Sites) /\ Seen(6, Sites)' = Len(Sites')
  BY DEF Seen
<1>3. Used(dependencies, Sites, Len(Sites), project)
  BY <1>2 DEF IInv, DependenciesInv
<1>4. Used(dependencies', Sites', Seen(6, Sites)', project')
  BY <1>1, <1>2, <1>3
<1> QED BY <1>4 DEF DependenciesInv

\* The lists of the stages that have not begun are empty.
LEMMA NotBegun ==
  ASSUME IInv
  PROVE  /\ Step < 3 => objects = <<>>
         /\ Step < 4 => edges = <<>>
         /\ Step < 5 => endpoints = <<>>
         /\ Step < 6 => dependencies = <<>>
BY DEF IInv, FunctionsInv, EdgesInv, EndpointsInv, DependenciesInv

LEMMA EdgesWait ==
  ASSUME IInv, Step < 4, Step' < 4, Step' \in Nat, UNCHANGED edges
  PROVE  EdgesInv'
BY NotBegun DEF EdgesInv

LEMMA EndpointsWait ==
  ASSUME IInv, Step < 5, Step' < 5, Step' \in Nat, UNCHANGED endpoints
  PROVE  EndpointsInv'
BY NotBegun DEF EndpointsInv

LEMMA DependenciesWait ==
  ASSUME IInv, Step < 6, Step' < 6, Step' \in Nat, UNCHANGED dependencies
  PROVE  DependenciesInv'
BY NotBegun DEF DependenciesInv

LEMMA FunctionsWait ==
  ASSUME IInv, Step < 3, Step' < 3, Step' \in Nat, UNCHANGED <<records, objects, lists>>
  PROVE  FunctionsInv'
BY NotBegun DEF IInv, FunctionsInv

LEMMA NoOutcomeYet ==
  ASSUME pc' \notin {"converted", "failed"}
  PROVE  OutcomeInv'
BY DEF OutcomeInv
-----------------------------------------------------------------------------
(* Every step keeps the invariant *)

LEMMA NoneYet ==
  /\ Collected(<<>>, <<>>, {})
  /\ \A recs, visited : Covered(recs, <<>>, visited, 0)
  /\ \A sites, objs, proj : OneEdgeEach(<<>>, sites, 0, objs, proj)
  /\ \A ids, diags, adapt, sites : Registered(<<>>, ids, diags, adapt, sites, 0)
  /\ \A sites, proj : Used(<<>>, sites, 0, proj)
<1>1. IsList(<<>>) /\ DOMAIN <<>> = {} /\ 1..0 = {}
  BY EmptyList
<1>2. Collected(<<>>, <<>>, {})
  <2>1. <<>> \in Seq(Record({}))
    OBVIOUS
  <2>2. {} = Range(<<>>)
    BY <1>1 DEF Range
  <2> QED BY <1>1, <2>1, <2>2 DEF Collected, RealIDs
<1>3. \A recs, visited : Covered(recs, <<>>, visited, 0)
  BY <1>1 DEF Covered
<1>4. ASSUME NEW sites, NEW objs, NEW proj
      PROVE  OneEdgeEach(<<>>, sites, 0, objs, proj)
  <2> DEFINE place == [i \in {} |-> 0]
  <2>1. place \in [{} -> 1..0]
    OBVIOUS
  <2> HIDE DEF place
  <2> QED BY <1>1, <2>1 DEF OneEdgeEach
<1>5. \A ids, diags, adapt, sites : Registered(<<>>, ids, diags, adapt, sites, 0)
  BY <1>1 DEF Registered
<1>6. \A sites, proj : Used(<<>>, sites, 0, proj)
  BY <1>1 DEF Used
<1> QED BY <1>2, <1>3, <1>4, <1>5, <1>6

LEMMA InitIInv ==
  ASSUME Init
  PROVE  IInv
<1>1. /\ input \in Inputs /\ pc = "config" /\ at = 1 /\ adapters = {}
      /\ loaded = <<>> /\ project = {} /\ records = <<>> /\ objects = <<>> /\ lists = <<>>
      /\ endpoints = <<>> /\ dependencies = <<>> /\ edges = <<>> /\ diagnostics = <<>>
  BY DEF Init
<1>2. Step = 0 /\ Walked(pc) = <<>> /\ DOMAIN <<>> = {} /\ Len(<<>>) = 0
  BY <1>1 DEF Step, Rank, Walked
<1>3. PositionInv
  BY <1>1, <1>2 DEF PositionInv, Stages
<1>4. ConfigInv
  BY <1>1 DEF ConfigInv
<1>5. PackagesInv
  <2>1. <<>> \in Seq(LoadedPackage)
    OBVIOUS
  <2> QED BY <1>1, <1>2, <2>1 DEF PackagesInv, OneOfEach, Range
<1>6. FunctionsInv
  BY <1>1, <1>2, NoneYet DEF FunctionsInv
<1>7. EdgesInv /\ EndpointsInv /\ DependenciesInv
  BY <1>1, <1>2 DEF EdgesInv, EndpointsInv, DependenciesInv
<1>8. Listed(lists, endpoints, dependencies, edges)
  BY <1>1, <1>2 DEF Listed
<1>9. DiagnosticsInv
  BY <1>1, <1>2, EmptyList DEF DiagnosticsInv
<1>10. OutcomeInv
  BY <1>1 DEF OutcomeInv
<1> QED BY <1>3, <1>4, <1>5, <1>6, <1>7, <1>8, <1>9, <1>10 DEF IInv

LEMMA ReadConfigKeeps ==
  ASSUME IInv, ReadConfig
  PROVE  IInv'
<1> DEFINE refused == Chosen # <<>> /\ (~Chosen[1].accepted \/ ~(Chosen[1].frameworks \subseteq Supported))
           unread  == Handed # <<>> /\ ~Handed[1].parses
           named   == IF Handed = <<>> \/ unread THEN {} ELSE Handed[1].frameworks
           unknown == ~(named \subseteq Adapters)
           codes   == OnlyIf(unread \/ unknown, <<"INVALID_CONFIG">>)
<1>1. /\ pc = "config" /\ at' = 1
      /\ UNCHANGED <<input, loaded, project, records, objects, lists, endpoints, dependencies, edges>>
      /\ \/ refused /\ pc' = "refused" /\ UNCHANGED <<adapters, diagnostics>>
         \/ /\ ~refused /\ pc' = "load"
            /\ adapters' = IF named = {} THEN Adapters ELSE IF unknown THEN {}
                           ELSE named \cup {"unknown-http-router"}
            /\ diagnostics' = Report(codes, 0)
  BY DEF ReadConfig, Goto, collected
<1> HIDE DEF refused
<1>2. Step = 0 /\ Step' \in {0, 1} /\ pc' \in {"refused", "load"}
  <2>1. pc' = "refused" => Step' = 0
    BY DEF Step, Rank
  <2>2. pc' = "load" => Step' = 1
    BY DEF Step, Rank
  <2> QED BY <1>1, <2>1, <2>2, StepsOf
<1>3. PositionInv'
  <2>1. Walked(pc)' = <<>> /\ Len(<<>>) = 0
    BY <1>2 DEF Walked
  <2>2. input \in Inputs
    BY DEF IInv, PositionInv
  <2>3. pc' \in Stages
    BY <1>2 DEF Stages, Final
  <2> QED BY <1>1, <1>2, <2>1, <2>2, <2>3 DEF PositionInv
<1>4. ConfigInv'
  <2>1. adapters' \subseteq Adapters
    BY <1>1 DEF IInv, ConfigInv, Adapters
  <2>2. ASSUME pc' = "load", Handed = Chosen
        PROVE  ConfigReported' \/ Asked \subseteq adapters'
    <3>1. /\ adapters' = IF named = {} THEN Adapters ELSE IF unknown THEN {}
                         ELSE named \cup {"unknown-http-router"}
          /\ diagnostics' = Report(codes, 0)
      BY <1>1, <2>2
    <3>2. CASE unread \/ unknown
      <4>1. codes = <<"INVALID_CONFIG">> /\ DOMAIN codes = {1} /\ codes[1] = "INVALID_CONFIG"
        BY <3>2, ListOfOne DEF OnlyIf
      <4> HIDE DEF codes
      <4>2. 1 \in DOMAIN diagnostics' /\ diagnostics'[1].code = "INVALID_CONFIG"
        BY <3>1, <4>1 DEF Report, Diagnostic
      <4> QED BY <4>2 DEF ConfigReported
    <3>3. CASE ~unread /\ ~unknown
      <4>1. named = IF Chosen = <<>> THEN {} ELSE Chosen[1].frameworks
        BY <2>2, <3>3
      <4>2. Asked = IF named = {} THEN Adapters ELSE named
        BY <4>1 DEF Asked
      <4> QED BY <3>1, <3>3, <4>2
    <3> QED BY <3>2, <3>3
  <2>3. Chosen' = Chosen /\ Handed' = Handed /\ Asked' = Asked
    BY <1>1 DEF Chosen, Handed, Asked
  <2> HIDE DEF unread, named, unknown, codes
  <2> QED BY <1>2, <2>1, <2>2, <2>3 DEF ConfigInv
<1>5. DiagnosticsInv'
  <2>1. CASE UNCHANGED diagnostics
    BY <1>1, <2>1, NothingReported
  <2>2. CASE diagnostics' = Report(codes, 0)
    <3> DEFINE T == Codes \cup ErrorsOf(input.packages)
    <3>1. codes \in Seq(Codes)
      <4>1. "INVALID_CONFIG" \in Codes
        BY DEF Codes
      <4> QED BY <4>1, CodeOrNone
    <3> HIDE DEF codes, T
    <3>2. Len(codes) \in Nat /\ DOMAIN codes = 1..Len(codes) /\ \A i \in DOMAIN codes : codes[i] \in Codes
      BY <3>1, ListOfSet
    <3>3. /\ DOMAIN diagnostics' = 1..Len(codes)
          /\ diagnostics' = [i \in 1..Len(codes) |-> diagnostics'[i]]
          /\ \A i \in DOMAIN diagnostics' : diagnostics'[i].code \in Codes /\ diagnostics'[i].at \in Nat
      BY <2>2, <3>2 DEF Report, Diagnostic
    <3>4. IsList(diagnostics')
      BY <3>2, <3>3, ListFromFunction
    <3> QED BY <3>3, <3>4 DEF DiagnosticsInv
  <2> QED BY <1>1, <2>1, <2>2
<1>6. PackagesInv'
  BY <1>1, <1>2 DEF IInv, PackagesInv
<1>7. FunctionsInv' /\ EdgesInv' /\ EndpointsInv' /\ DependenciesInv'
  BY <1>1, <1>2, FunctionsWait, EdgesWait, EndpointsWait, DependenciesWait
<1>8. Listed(lists, endpoints, dependencies, edges)'
  BY <1>1 DEF IInv
<1>9. OutcomeInv'
  BY <1>2, NoOutcomeYet
<1> QED BY <1>3, <1>4, <1>5, <1>6, <1>7, <1>8, <1>9 DEF IInv

LEMMA LoadPackagesKeeps ==
  ASSUME IInv, LoadPackages
  PROVE  IInv'
<1> DEFINE found == Deduplicate(input.packages)
           here == {i \in DOMAIN found : ~Excluded(found[i])}
<1>1. /\ pc = "load" /\ at' = 1
      /\ UNCHANGED <<input, adapters, project, records, objects, lists, endpoints, dependencies,
                     edges, diagnostics>>
      /\ \/ input.loads /\ pc' = "packages" /\ loaded' = Kept(found, here)
         \/ ~input.loads /\ pc' = "failed" /\ UNCHANGED loaded
  BY DEF LoadPackages, Goto, collected
<1>2. Step = 1 /\ Step' \in {1, 2} /\ (pc' = "packages" => Step' = 2)
  <2>1. pc' = "packages" => Step' = 2
    BY DEF Step, Rank
  <2>2. ~input'.loads /\ pc' = "failed" => Step' = 1
    BY DEF Step, Rank
  <2> QED BY <1>1, <2>1, <2>2, StepsOf
<1>3. loaded' \in Seq(LoadedPackage) /\ OneOfEach(loaded', input.packages)
  <2>1. CASE UNCHANGED loaded
    BY <2>1 DEF IInv, PackagesInv
  <2>2. CASE loaded' = Kept(found, here)
    <3>1. found \in Seq(LoadedPackage) /\ OneOfEach(found, input.packages)
      BY WhatIsWalked, DeduplicateFacts
    <3> HIDE DEF found, here
    <3>2. loaded' \in Seq(LoadedPackage) /\ Selects(loaded', found, here)
      BY <2>2, <3>1, KeptSelects
    <3>3. OneOfEach(loaded', input.packages)
      <4>1. \A k \in DOMAIN loaded' : \E i \in DOMAIN found : loaded'[k] = found[i]
        BY <3>2 DEF Selects
      <4>2. \A i \in DOMAIN found : found[i] \in Range(input.packages)
        BY <3>1 DEF OneOfEach, Range
      <4>3. Range(loaded') \subseteq Range(input.packages)
        BY <4>1, <4>2 DEF Range
      <4>4. \A k, l \in DOMAIN loaded' : k # l => loaded'[k].path # loaded'[l].path
        <5>1. \A i, j \in DOMAIN found : found[i].path = found[j].path => i = j
          BY <3>1 DEF OneOfEach
        <5>2. ASSUME NEW k \in DOMAIN loaded', NEW l \in DOMAIN loaded', k # l
              PROVE  loaded'[k].path # loaded'[l].path
          <6>1. PICK i, j \in DOMAIN found : i # j /\ loaded'[k] = found[i] /\ loaded'[l] = found[j]
            BY <3>2, <5>2 DEF Selects
          <6> QED BY <5>1, <6>1
        <5> QED BY <5>2
      <4> QED BY <4>3, <4>4 DEF OneOfEach
    <3> QED BY <3>2, <3>3
  <2> QED BY <1>1, <2>1, <2>2
<1>4. PackagesInv'
  <2>1. project = {}
    BY <1>2 DEF IInv, PackagesInv
  <2> QED BY <1>1, <1>2, <1>3, <2>1 DEF PackagesInv
<1>5. PositionInv'
  <2>1. Len(Walked(pc)') \in Nat
    <3>1. CASE pc' = "packages"
      <4>1. Walked(pc)' = loaded'
        BY <3>1 DEF Walked
      <4> QED BY <1>3, <4>1
    <3>2. CASE pc' = "failed"
      <4>1. Walked(pc)' = <<>>
        BY <3>2 DEF Walked
      <4> QED BY <4>1, EmptyList
    <3> QED BY <1>1, <3>1, <3>2
  <2>2. input \in Inputs
    BY DEF IInv, PositionInv
  <2>3. pc' \in Stages
    BY <1>1 DEF Stages, Final
  <2> QED BY <1>1, <2>1, <2>2, <2>3 DEF PositionInv
<1>6. ConfigInv' /\ DiagnosticsInv'
  BY <1>1, NothingReported, ConfigStays DEF IInv
<1>7. FunctionsInv' /\ EdgesInv' /\ EndpointsInv' /\ DependenciesInv'
  BY <1>1, <1>2, FunctionsWait, EdgesWait, EndpointsWait, DependenciesWait
<1>8. Listed(lists, endpoints, dependencies, edges)'
  BY <1>1 DEF IInv
<1>9. OutcomeInv'
  BY <1>1 DEF OutcomeInv
<1> QED BY <1>4, <1>5, <1>6, <1>7, <1>8, <1>9 DEF IInv

LEMMA CollectPackageKeeps ==
  ASSUME IInv, CollectPackage
  PROVE  IInv'
<1> DEFINE p == loaded[at]
<1>1. /\ pc = "packages" /\ at <= Len(loaded) /\ at' = at + 1
      /\ diagnostics' = diagnostics \o Report(p.errors, 0)
      /\ project' = IF AnalyzedFiles(p) = <<>> THEN project ELSE project \cup {p.path}
      /\ UNCHANGED <<input, pc, adapters, loaded, records, objects, lists, endpoints, dependencies,
                     edges>>
  BY DEF CollectPackage, collected
<1>2. Step = 2 /\ Step' = 2
  <2>1. Step' = Step
    BY <1>1 DEF Step
  <2> QED BY <1>1, <2>1, StepsOf
<1>3. at \in Nat /\ at >= 1 /\ at \in DOMAIN loaded
  <2>1. at \in 1..(Len(Walked(pc)) + 1) /\ Walked(pc) = loaded
    BY <1>1, StepsOf DEF IInv, PositionInv
  <2> QED BY <1>1, <2>1, LengthsWalked
<1>4. p \in LoadedPackage /\ p \in Range(input.packages)
  <2>1. loaded \in Seq(LoadedPackage) /\ OneOfEach(loaded, input.packages)
    BY DEF IInv, PackagesInv
  <2> QED BY <1>3, <2>1 DEF OneOfEach, Range
<1>5. DiagnosticsInv' /\ Grown(diagnostics', diagnostics)
  <2> DEFINE T == Codes \cup ErrorsOf(input.packages)
             codes == p.errors
  <2>1. codes \in Seq(STRING)
    BY <1>4 DEF LoadedPackage
  <2>2. \A i \in DOMAIN codes : codes[i] \in T
    BY <1>4 DEF ErrorsOf, Range
  <2> HIDE DEF T, codes
  <2>3. codes \in Seq(T)
    BY <2>1, <2>2, ListIn
  <2> QED BY <1>1, <2>3, ReportGrows DEF T, codes
<1>6. PackagesInv'
  <2>1. p.path \in {loaded[i].path : i \in DOMAIN loaded}
    BY <1>3
  <2> HIDE DEF p
  <2> QED BY <1>1, <1>2, <2>1 DEF IInv, PackagesInv
<1>7. PositionInv'
  <2>1. Walked(pc)' = Walked(pc) /\ Walked(pc) = loaded
    BY <1>1, StepsOf, WalkedStay
  <2> QED BY <1>1, <1>3, <2>1, LengthsWalked DEF IInv, PositionInv
<1>8. ConfigInv'
  BY <1>1, <1>5, ConfigStays DEF IInv
<1>9. FunctionsInv' /\ EdgesInv' /\ EndpointsInv' /\ DependenciesInv'
  BY <1>1, <1>2, FunctionsWait, EdgesWait, EndpointsWait, DependenciesWait
<1>10. Listed(lists, endpoints, dependencies, edges)'
  BY <1>1 DEF IInv
<1>11. OutcomeInv'
  BY <1>1, NoOutcomeYet
<1> QED BY <1>5, <1>6, <1>7, <1>8, <1>9, <1>10, <1>11 DEF IInv

LEMMA CollectFunctionKeeps ==
  ASSUME IInv, CollectFunction
  PROVE  IInv'
<1> DEFINE v == VisitedFunctions(loaded)
           next == v[at]
           f == next.function
           inside == f.parent = 0 \/ f.parent \in DOMAIN objects
           id == Identity(next.package, f)
           fresh == inside /\ \A i \in DOMAIN records : records[i].id # id
           ids == DOMAIN lists
           n == at - 1
           none == [endpoints |-> {}, dependencies |-> {}, callers |-> {}, callees |-> {}]
<1>1. pc = "functions" /\ Step = 3 /\ Walked(pc) = v
  BY StepsOf DEF CollectFunction
<1>2. /\ at <= Len(v) /\ at' = at + 1
      /\ UNCHANGED <<input, pc, adapters, loaded, project, endpoints, dependencies, edges, diagnostics>>
      /\ \/ /\ fresh
            /\ records' = Append(records, [id |-> id, calls |-> f.calls, binds |-> f.binds])
            /\ objects' = [m \in DOMAIN objects \cup {f.number} |->
                             IF m = f.number THEN id ELSE objects[m]]
            /\ lists' = [x \in ids \cup {id} |-> IF x = id THEN none ELSE lists[x]]
         \/ ~fresh /\ UNCHANGED <<records, objects, lists>>
  BY <1>1 DEF CollectFunction
<1>3. /\ Len(v) \in Nat /\ DOMAIN v = 1..Len(v) /\ v \in Seq(Visit)
      /\ NumbersApart(v)
  BY WhatIsWalked, LengthsWalked
<1>4. at \in Nat /\ n \in Nat /\ n + 1 = at /\ at \in DOMAIN v
  <2>1. at \in 1..(Len(v) + 1)
    BY <1>1 DEF IInv, PositionInv
  <2> QED BY <1>2, <1>3, <2>1
<1>5. Collected(records, objects, ids) /\ Covered(records, objects, v, n)
  <2>1. Seen(3, v) = n
    BY <1>1 DEF Seen
  <2> QED BY <1>1, <2>1 DEF IInv, FunctionsInv
<1>6. Step' = 3 /\ v' = v
  <2>1. Step' = Step
    BY <1>2 DEF Step
  <2> QED BY <1>1, <1>2, <2>1, VisitedStay
<1>7. Seen(3, v)' = n + 1
  BY <1>2, <1>4, <1>6 DEF Seen
<1>8. inside <=> Inside(objects, next.function)
  BY DEF Inside
<1>9. id = IdentityIn(objects, next)
  BY DEF Identity, IdentityIn
<1>10. ids = {records[i].id : i \in DOMAIN records}
  BY <1>5 DEF Collected
<1>11. Collected(records', objects', DOMAIN lists') /\ Covered(records', objects', v, n + 1)
  <2>1. next = v[n + 1] /\ n + 1 \in DOMAIN v
    BY <1>4
  <2> HIDE DEF v, id, ids, inside, next
  <2>2. CASE fresh
    <3>1. /\ records' = Append(records, RecordFor(next.function, id))
          /\ objects' = BoundTo(objects, next.function.number, id)
          /\ DOMAIN lists' = ids \cup {id}
      BY <1>2, <2>2 DEF RecordFor, BoundTo
    <3>2. NewID(id, objects, next, ids)
      BY <1>8, <1>9, <1>10, <2>2 DEF NewID
    <3> HIDE DEF n
    <3>3. /\ Collected(Append(records, RecordFor(next.function, id)),
                       BoundTo(objects, next.function.number, id), ids \cup {id})
          /\ Covered(Append(records, RecordFor(next.function, id)),
                     BoundTo(objects, next.function.number, id), v, n + 1)
      BY <1>3, <1>4, <1>5, <2>1, <3>2, FunctionCollected
    <3> QED BY <3>1, <3>3
  <2>3. CASE ~fresh
    <3>1. UNCHANGED <<records, objects, lists>>
      BY <1>2, <2>3
    <3>2. Inside(objects, next.function) => IdentityIn(objects, next) \in ids
      BY <1>8, <1>9, <1>10, <2>3
    <3> HIDE DEF n
    <3>3. Covered(records, objects, v, n + 1)
      BY <1>3, <1>4, <1>5, <2>1, <3>2, FunctionDropped
    <3>4. DOMAIN lists' = ids
      BY <3>1 DEF ids
    <3> QED BY <1>5, <3>1, <3>3, <3>4
  <2> QED BY <2>2, <2>3
<1> HIDE DEF v, id
<1>12. FunctionsInv'
  <2>1. Covered(records', objects', v', Seen(3, v)')
    BY <1>6, <1>7, <1>11
  <2> QED BY <1>6, <1>11, <2>1 DEF FunctionsInv, v
<1>13. Listed(lists, endpoints, dependencies, edges)'
  <2>1. endpoints = <<>> /\ dependencies = <<>> /\ edges = <<>>
    BY <1>1, NotBegun
  <2>2. Listed(lists, <<>>, <<>>, <<>>)
    BY <2>1 DEF IInv
  <2>3. CASE fresh
    <3>1. lists' = [x \in DOMAIN lists \cup {id} |->
                      IF x = id THEN [endpoints |-> {}, dependencies |-> {}, callers |-> {}, callees |-> {}]
                      ELSE lists[x]]
      BY <1>2, <2>3
    <3>2. Listed(lists', <<>>, <<>>, <<>>)
      BY <2>2, <3>1, ListedFunction
    <3> QED BY <1>2, <2>1, <3>2
  <2>4. CASE ~fresh
    BY <1>2, <2>1, <2>2, <2>4
  <2> QED BY <2>3, <2>4
<1>14. PositionInv'
  <2>1. Walked(pc)' = v
    BY <1>1, <1>2, <1>6 DEF Walked, v
  <2> QED BY <1>2, <1>3, <1>4, <2>1 DEF IInv, PositionInv
<1>15. ConfigInv' /\ DiagnosticsInv'
  BY <1>1, <1>2, NothingReported, ConfigStays DEF IInv
<1>16. PackagesInv'
  BY <1>2, <1>6, PackagesStay DEF IInv
<1>17. EdgesInv' /\ EndpointsInv' /\ DependenciesInv'
  BY <1>1, <1>2, <1>6, EdgesWait, EndpointsWait, DependenciesWait
<1>18. OutcomeInv'
  BY <1>1, <1>2, NoOutcomeYet
<1> QED BY <1>12, <1>13, <1>14, <1>15, <1>16, <1>17, <1>18 DEF IInv

LEMMA FinishStageKeeps ==
  ASSUME IInv, FinishStage
  PROVE  IInv'
<1> DEFINE v == VisitedFunctions(loaded)
<1>1. /\ pc \in DOMAIN After /\ at > Len(Walked(pc)) /\ pc' = After[pc] /\ at' = 1
      /\ UNCHANGED <<input, adapters, loaded, project, records, objects, lists, endpoints,
                     dependencies, edges, diagnostics>>
  BY DEF FinishStage, Goto, collected
<1>2. /\ pc \in {"packages", "functions", "calls", "endpoints", "dependencies"}
      /\ input.loads /\ pc' \in Stages /\ pc' \notin Final \cup {"config", "load"}
      /\ Step \in 2..6 /\ Step' = Step + 1
  <2>1. Step' = Rank[pc'] /\ Step = Rank[pc]
    BY <1>1, StagesFollow DEF Step, Final
  <2> QED BY <1>1, <2>1, StagesFollow
<1>3. v' = v /\ Sites' = Sites
  BY <1>1, VisitedStay, SitesStay
<1>4. Len(v) \in Nat /\ Len(Sites) \in Nat /\ Len(loaded) \in Nat
  BY LengthsWalked
<1>5. /\ Step = 2 => pc = "packages"
      /\ Step = 3 => at - 1 = Len(v)
      /\ Step \in 4..6 => at - 1 = Len(Sites)
  <2>1. \/ pc = "packages" /\ Step = 2
        \/ pc = "functions" /\ Step = 3 /\ Walked(pc) = v
        \/ pc \in {"calls", "endpoints", "dependencies"} /\ Step \in 4..6 /\ Walked(pc) = Sites
    BY <1>2, StepsOf
  <2>2. at \in 1..(Len(Walked(pc)) + 1)
    BY DEF IInv, PositionInv
  <2> QED BY <1>1, <1>4, <2>1, <2>2
<1> HIDE DEF v
<1>6. PositionInv'
  <2>1. Len(Walked(pc)') \in Nat
    <3>1. Walked(pc)' = loaded' \/ Walked(pc)' = v' \/ Walked(pc)' = Sites' \/ Walked(pc)' = <<>>
      BY DEF Walked, v
    <3> QED BY <1>1, <1>3, <1>4, <3>1, EmptyList
  <2>2. input' \in Inputs
    BY <1>1 DEF IInv, PositionInv
  <2> QED BY <1>1, <1>2, <2>1, <2>2 DEF PositionInv
<1>7. ConfigInv' /\ DiagnosticsInv'
  BY <1>1, <1>2, NothingReported, ConfigStays DEF IInv
<1>8. PackagesInv'
  BY <1>1, <1>2, PackagesStay DEF IInv
<1>9. FunctionsInv'
  <2>1. Collected(records, objects, DOMAIN lists)
    BY DEF IInv, FunctionsInv
  <2>2. Covered(records, objects, v, Seen(3, v)')
    <3>1. CASE Step = 2
      <4>1. Seen(3, v)' = 0 /\ objects = <<>>
        BY <1>1, <1>2, <3>1, NotBegun DEF Seen
      <4> QED BY <4>1, NoneYet
    <3>2. CASE Step = 3
      <4>1. Seen(3, v)' = Len(v') /\ Seen(3, v) = Len(v)
        BY <1>2, <1>5, <3>2 DEF Seen
      <4> QED BY <1>3, <3>2, <4>1 DEF IInv, FunctionsInv, v
    <3>3. CASE Step \in 4..6
      <4>1. Seen(3, v)' = Len(v') /\ Seen(3, v) = Len(v)
        BY <1>2, <3>3 DEF Seen
      <4> QED BY <1>3, <3>3, <4>1 DEF IInv, FunctionsInv, v
    <3> QED BY <1>2, <3>1, <3>2, <3>3
  <2>3. Collected(records', objects', DOMAIN lists') /\ Covered(records', objects', v', Seen(3, v)')
    BY <1>1, <1>3, <2>1, <2>2
  <2> QED BY <1>2, <2>3 DEF FunctionsInv, v
<1>10. EdgesInv'
  <2>1. CASE Step = 2
    BY <1>1, <1>2, <2>1, EdgesWait
  <2>2. CASE Step = 3
    <3>1. Seen(4, Sites)' = 0 /\ edges' = <<>> /\ Step' = 4
      BY <1>1, <1>2, <2>2, NotBegun DEF Seen
    <3>2. OneEdgeEach(edges', Sites', Seen(4, Sites)', objects', project')
      BY <3>1, NoneYet
    <3> QED BY <3>1, <3>2 DEF EdgesInv
  <2>3. CASE Step = 4
    <3>1. Seen(4, Sites)' = Len(Sites') /\ Seen(4, Sites) = Len(Sites) /\ Step' = 5
      BY <1>2, <1>5, <2>3 DEF Seen
    <3>2. OneEdgeEach(edges, Sites, Len(Sites), objects, project)
      BY <2>3, <3>1 DEF IInv, EdgesInv
    <3>3. OneEdgeEach(edges', Sites', Seen(4, Sites)', objects', project')
      BY <1>1, <1>3, <3>1, <3>2
    <3> QED BY <3>1, <3>3 DEF EdgesInv
  <2>4. CASE Step \in 5..6
    BY <1>1, <1>2, <2>4, EdgesStay
  <2> QED BY <1>2, <2>1, <2>2, <2>3, <2>4
<1>11. EndpointsInv'
  <2>1. CASE Step \in 2..3
    BY <1>1, <1>2, <2>1, EndpointsWait
  <2>2. CASE Step = 4
    <3>1. Seen(5, Sites)' = 0 /\ endpoints' = <<>> /\ Step' = 5
      BY <1>1, <1>2, <2>2, NotBegun DEF Seen
    <3>2. Registered(endpoints', DOMAIN lists', diagnostics', adapters', Sites', Seen(5, Sites)')
      BY <3>1, NoneYet
    <3> QED BY <3>1, <3>2 DEF EndpointsInv
  <2>3. CASE Step = 5
    <3>1. Seen(5, Sites)' = Len(Sites') /\ Seen(5, Sites) = Len(Sites) /\ Step' = 6
      BY <1>2, <1>5, <2>3 DEF Seen
    <3>2. Registered(endpoints, DOMAIN lists, diagnostics, adapters, Sites, Len(Sites))
      BY <2>3, <3>1 DEF IInv, EndpointsInv
    <3>3. Registered(endpoints', DOMAIN lists', diagnostics', adapters', Sites', Seen(5, Sites)')
      BY <1>1, <1>3, <3>1, <3>2
    <3> QED BY <3>1, <3>3 DEF EndpointsInv
  <2>4. CASE Step = 6
    BY <1>1, <1>2, <1>7, <2>4, NothingReported, EndpointsStay
  <2> QED BY <1>2, <2>1, <2>2, <2>3, <2>4
<1>12. DependenciesInv'
  <2>1. CASE Step \in 2..4
    BY <1>1, <1>2, <2>1, DependenciesWait
  <2>2. CASE Step = 5
    <3>1. Seen(6, Sites)' = 0 /\ dependencies' = <<>> /\ Step' = 6
      BY <1>1, <1>2, <2>2, NotBegun DEF Seen
    <3>2. Used(dependencies', Sites', Seen(6, Sites)', project')
      BY <3>1, NoneYet
    <3> QED BY <3>1, <3>2 DEF DependenciesInv
  <2>3. CASE Step = 6
    <3>1. Seen(6, Sites)' = Len(Sites') /\ Seen(6, Sites) = Len(Sites) /\ Step' = 7
      BY <1>2, <1>5, <2>3 DEF Seen
    <3>2. Used(dependencies, Sites, Len(Sites), project)
      BY <2>3, <3>1 DEF IInv, DependenciesInv
    <3>3. Used(dependencies', Sites', Seen(6, Sites)', project')
      BY <1>1, <1>3, <3>1, <3>2
    <3> QED BY <3>1, <3>3 DEF DependenciesInv
  <2> QED BY <1>2, <2>1, <2>2, <2>3
<1>13. Listed(lists, endpoints, dependencies, edges)'
  BY <1>1 DEF IInv
<1>14. OutcomeInv'
  BY <1>2, NoOutcomeYet DEF Final
<1> QED BY <1>6, <1>7, <1>8, <1>9, <1>10, <1>11, <1>12, <1>13, <1>14 DEF IInv

\* A walk over the calls: where it is, and what stays as it is.
LEMMA AtSite ==
  ASSUME IInv, pc \in {"calls", "endpoints", "dependencies"}, at <= Len(Sites)
  PROVE  /\ at \in Nat /\ at - 1 \in Nat /\ (at - 1) + 1 = at /\ at \in DOMAIN Sites
         /\ Sites[at] \in Site(DOMAIN lists)
         /\ Sites[at].in.id \in DOMAIN lists /\ Sites[at].call \in CallExpression
         /\ Sites[at].call.at \in Nat /\ Sites[at].in.binds \in Seq(Assignment)
         /\ Sites[at].call.before <= Len(Sites[at].in.binds)
<1>1. Walked(pc) = Sites /\ at \in 1..(Len(Walked(pc)) + 1)
  BY StepsOf DEF IInv, PositionInv
<1>2. at \in Nat /\ at - 1 \in Nat /\ (at - 1) + 1 = at /\ at \in DOMAIN Sites
  BY <1>1, LengthsWalked
<1>3. Sites[at] \in Site(DOMAIN lists)
  BY <1>2, LengthsWalked
<1>4. /\ Sites[at].in \in Record(DOMAIN lists) /\ Sites[at].call \in CallExpression
      /\ Sites[at].call.before <= Len(Sites[at].in.binds)
  BY <1>3 DEF Site
<1>5. Sites[at].in.id \in DOMAIN lists /\ Sites[at].in.binds \in Seq(Assignment)
  BY <1>4 DEF Record
<1>6. Sites[at].call.at \in Nat
  BY <1>4 DEF CallExpression
<1> QED BY <1>2, <1>3, <1>4, <1>5, <1>6

LEMMA NextSite ==
  ASSUME IInv, pc \in {"calls", "endpoints", "dependencies"}, at <= Len(Sites), at' = at + 1,
         UNCHANGED <<input, pc, loaded, records>>
  PROVE  /\ PositionInv' /\ Step' = Step /\ Sites' = Sites
         /\ \A rank : Step = rank => Seen(rank, Sites) = at - 1 /\ Seen(rank, Sites)' = at
<1>1. Walked(pc) = Sites /\ Walked(pc)' = Walked(pc) /\ Sites' = Sites
  BY StepsOf, WalkedStay, SitesStay
<1>2. Step' = Step
  BY DEF Step
<1>3. at \in Nat /\ at >= 1
  BY AtSite, <1>1 DEF IInv, PositionInv
<1>4. PositionInv'
  BY <1>1, <1>3, LengthsWalked DEF IInv, PositionInv
<1>5. \A rank : Step = rank => Seen(rank, Sites) = at - 1 /\ Seen(rank, Sites)' = at
  BY <1>2, <1>3 DEF Seen
<1> QED BY <1>1, <1>2, <1>4, <1>5

LEMMA CollectCallKeeps ==
  ASSUME IInv, CollectCall
  PROVE  IInv'
<1> DEFINE n == at - 1
           site == Sites[at]
           callee == ResolveCall(site.call, objects, project)
           edge == EdgeOf(site, objects, project)
<1>1. /\ pc = "calls" /\ at <= Len(Sites) /\ at' = at + 1
      /\ UNCHANGED <<input, pc, adapters, loaded, project, records, objects, endpoints, dependencies>>
      /\ \/ ~Tracked(site, objects, project) /\ UNCHANGED <<lists, edges, diagnostics>>
         \/ /\ Tracked(site, objects, project) /\ edges' = Append(edges, edge)
            /\ \/ /\ edge.resolved /\ lists' = AddFunctionRelation(edge.caller, edge.callee)
                  /\ UNCHANGED diagnostics
               \/ /\ ~edge.resolved /\ UNCHANGED lists
                  /\ diagnostics' = Append(diagnostics, Diagnostic("UNRESOLVED_CALL", edge.at))
  BY DEF CollectCall, Tracked, EdgeOf
<1>2. Step = 4 /\ Step' = 4 /\ PositionInv' /\ Sites' = Sites
      /\ Seen(4, Sites) = n /\ Seen(4, Sites)' = n + 1
  BY <1>1, StepsOf, NextSite, AtSite
<1>3. /\ n \in Nat /\ n + 1 = at /\ site.in.id \in DOMAIN lists /\ site.call.at \in Nat
  BY <1>1, AtSite
<1>4. Range(objects) = DOMAIN lists /\ RealIDs(Range(objects))
  BY DEF IInv, FunctionsInv, Collected
<1>5. /\ edge.caller = site.in.id /\ edge.at = site.call.at /\ edge.callee = callee
      /\ edge.resolved = (callee # NoFunction)
  BY DEF EdgeOf
<1>6. Tracked(site, objects, project) => callee \in DOMAIN lists \cup {NoFunction}
  BY <1>4, ResolveCallFacts DEF Tracked
<1> HIDE DEF site, callee, edge
<1>7. OneEdgeEach(edges, Sites, n, objects, project)
  BY <1>2 DEF IInv, EdgesInv
<1>8. EdgesInv'
  <2>1. CASE ~Tracked(site, objects, project)
    <3>1. ~Tracked(Sites[n + 1], objects, project)
      BY <1>3, <2>1 DEF site
    <3> HIDE DEF n
    <3>2. OneEdgeEach(edges, Sites, n + 1, objects, project)
      BY <1>3, <1>7, <3>1, NoEdgeAdded
    <3>3. OneEdgeEach(edges', Sites', Seen(4, Sites)', objects', project')
      BY <1>1, <1>2, <2>1, <3>2
    <3> QED BY <1>2, <3>3 DEF EdgesInv
  <2>2. CASE Tracked(site, objects, project)
    <3>1. Tracked(Sites[n + 1], objects, project) /\ edge = EdgeOf(Sites[n + 1], objects, project)
      BY <1>3, <2>2 DEF site, edge
    <3> HIDE DEF n
    <3>2. OneEdgeEach(Append(edges, EdgeOf(Sites[n + 1], objects, project)), Sites, n + 1, objects, project)
      BY <1>3, <1>7, <3>1, EdgeAdded
    <3>3. OneEdgeEach(edges', Sites', Seen(4, Sites)', objects', project')
      BY <1>1, <1>2, <2>2, <3>1, <3>2
    <3> QED BY <1>2, <3>3 DEF EdgesInv
  <2> QED BY <2>1, <2>2
<1>9. Listed(lists, endpoints, dependencies, edges)' /\ DOMAIN lists' = DOMAIN lists
  <2>0. Listed(lists, endpoints, dependencies, edges) /\ IsList(edges)
    BY <1>7 DEF IInv, OneEdgeEach
  <2>1. CASE ~Tracked(site, objects, project)
    BY <1>1, <2>0, <2>1
  <2>2. CASE Tracked(site, objects, project)
    <3>1. edge.caller \in DOMAIN lists /\ edge.resolved \in BOOLEAN
          /\ (edge.resolved => edge.callee \in DOMAIN lists)
      BY <1>3, <1>5, <1>6, <2>2
    <3> DEFINE new == IF edge.resolved
                        THEN [lists EXCEPT ![edge.caller].callees = @ \cup {edge.callee},
                                           ![edge.callee].callers = @ \cup {edge.caller}]
                        ELSE lists
    <3>2. lists' = new /\ DOMAIN new = DOMAIN lists
      BY <1>1, <2>2 DEF AddFunctionRelation
    <3>3. Listed(new, endpoints, dependencies, Append(edges, edge))
      BY <2>0, <3>1, ListedEdge
    <3> HIDE DEF new
    <3> QED BY <1>1, <2>2, <3>2, <3>3
  <2> QED BY <2>1, <2>2
<1>10. DiagnosticsInv' /\ Grown(diagnostics', diagnostics)
  <2>1. CASE UNCHANGED diagnostics
    BY <1>1, <2>1, NothingReported
  <2>2. CASE diagnostics' = Append(diagnostics, Diagnostic("UNRESOLVED_CALL", edge.at))
    <3> DEFINE d == Diagnostic("UNRESOLVED_CALL", edge.at)
               T == Codes \cup ErrorsOf(input.packages)
    <3>1. d.code \in T /\ d.at \in Nat
      <4>1. d.code = "UNRESOLVED_CALL" /\ d.at = edge.at
        BY DEF Diagnostic
      <4>2. "UNRESOLVED_CALL" \in Codes
        BY DEF Codes
      <4> QED BY <1>3, <1>5, <4>1, <4>2
    <3> HIDE DEF d
    <3>2. IsList(diagnostics) /\ \A i \in DOMAIN diagnostics : diagnostics[i].code \in T /\ diagnostics[i].at \in Nat
      BY DEF IInv, DiagnosticsInv
    <3> HIDE DEF T
    <3>3. Joined(diagnostics', diagnostics, <<d>>) /\ DOMAIN <<d>> = {1} /\ <<d>>[1] = d
      BY <2>2, <3>2, AppendJoins, ListOfOne DEF d
    <3>4. \A i \in DOMAIN diagnostics' : diagnostics'[i].code \in T /\ diagnostics'[i].at \in Nat
      BY <3>1, <3>2, <3>3 DEF Joined
    <3>5. IsList(diagnostics') /\ Grown(diagnostics', diagnostics)
      BY <3>3 DEF Joined, Grown
    <3>6. T' = T
      BY <1>1 DEF T
    <3> QED BY <3>4, <3>5, <3>6 DEF DiagnosticsInv, T
  <2> QED BY <1>1, <2>1, <2>2
<1>11. ConfigInv'
  BY <1>1, <1>10, ConfigStays DEF IInv
<1>12. PackagesInv'
  BY <1>1, <1>2, PackagesStay DEF IInv
<1>13. FunctionsInv'
  BY <1>1, <1>2, <1>9, FunctionsStay
<1>14. EndpointsInv' /\ DependenciesInv'
  BY <1>1, <1>2, EndpointsWait, DependenciesWait
<1>15. OutcomeInv'
  BY <1>1, NoOutcomeYet
<1> QED BY <1>2, <1>8, <1>9, <1>10, <1>11, <1>12, <1>13, <1>14, <1>15 DEF IInv

LEMMA CollectEndpointKeeps ==
  ASSUME IInv, CollectEndpoint
  PROVE  IInv'
<1> DEFINE n == at - 1
           call == Sites[at].call
           m == MatchEndpoint(call, objects, adapters)
           ids == DOMAIN lists
           found == [i \in DOMAIN m.endpoints |->
                       [id |-> EndpointID(m.endpoints[i]), at |-> call.at,
                        registers |-> m.endpoints[i]]]
           new == [x \in DOMAIN lists |->
                     [lists[x] EXCEPT !.endpoints =
                        @ \cup {found[i].id : i \in {j \in DOMAIN found : found[j].registers.fn = x}}]]
<1>1. /\ pc = "endpoints" /\ at <= Len(Sites) /\ at' = at + 1
      /\ UNCHANGED <<input, pc, adapters, loaded, project, records, objects, dependencies, edges>>
      /\ endpoints' = endpoints \o found /\ lists' = new
      /\ diagnostics' = diagnostics \o Report(m.codes, call.at)
  BY DEF CollectEndpoint
<1>2. Step = 5 /\ Step' = 5 /\ PositionInv' /\ Sites' = Sites
      /\ Seen(5, Sites) = n /\ Seen(5, Sites)' = n + 1
  BY <1>1, StepsOf, NextSite, AtSite
<1>3. /\ n \in Nat /\ n + 1 = at /\ call \in CallExpression /\ call.at \in Nat
  BY <1>1, AtSite
<1>4. Range(objects) = ids /\ IsList(diagnostics)
  BY DEF IInv, FunctionsInv, Collected, DiagnosticsInv
<1>5. Registered(endpoints, ids, diagnostics, adapters, Sites, n)
  BY <1>2 DEF IInv, EndpointsInv
<1>6. call = Sites[n + 1].call
  BY <1>3
<1> HIDE DEF call
<1>7. /\ ProperMatch(m, ids)
      /\ (call.role \in DOMAIN AdapterOf /\ AdapterOf[call.role] \in adapters) => Answers(m)
  BY <1>3, <1>4, MatchEndpointFacts
<1> HIDE DEF m
<1>8. found = [i \in DOMAIN m.endpoints |->
                 [id |-> EndpointID(m.endpoints[i]), at |-> call.at, registers |-> m.endpoints[i]]]
  OBVIOUS
<1> HIDE DEF found, ids, n
<1>9. /\ Registered(endpoints \o found, ids, diagnostics \o Report(m.codes, call.at), adapters, Sites, n + 1)
      /\ IsList(found)
  BY <1>3, <1>4, <1>5, <1>6, <1>7, <1>8, EndpointsAdded
<1>10. DOMAIN lists' = ids
  BY <1>1 DEF ids
<1>11. EndpointsInv'
  <2>1. Registered(endpoints', DOMAIN lists', diagnostics', adapters', Sites', Seen(5, Sites)')
    BY <1>1, <1>2, <1>9, <1>10
  <2> QED BY <1>2, <2>1 DEF EndpointsInv
<1>12. Listed(lists, endpoints, dependencies, edges)'
  <2>1. IsList(endpoints) /\ Listed(lists, endpoints, dependencies, edges)
    BY <1>5 DEF IInv, Registered
  <2>2. Listed(new, endpoints \o found, dependencies, edges)
    BY <1>9, <2>1, ListedEndpoints
  <2> QED BY <1>1, <2>2
<1>13. DiagnosticsInv' /\ Grown(diagnostics', diagnostics)
  <2> DEFINE codes == m.codes
             T == Codes \cup ErrorsOf(input.packages)
             where == call.at
  <2>1. codes \in Seq(Codes)
    BY <1>7 DEF ProperMatch
  <2> HIDE DEF codes
  <2>2. \A i \in DOMAIN codes : codes[i] \in T
    BY <2>1, ListOfSet
  <2> HIDE DEF T
  <2>3. codes \in Seq(T)
    BY <2>1, <2>2, ListIn
  <2>4. where \in Nat /\ UNCHANGED input /\ diagnostics' = diagnostics \o Report(codes, where)
    BY <1>1, <1>3 DEF codes
  <2> HIDE DEF where
  <2> QED BY <2>3, <2>4, ReportGrows DEF T
<1>14. ConfigInv'
  BY <1>1, <1>13, ConfigStays DEF IInv
<1>15. PackagesInv'
  BY <1>1, <1>2, PackagesStay DEF IInv
<1>16. FunctionsInv'
  BY <1>1, <1>2, <1>10, FunctionsStay DEF ids
<1>17. EdgesInv' /\ DependenciesInv'
  BY <1>1, <1>2, EdgesStay, DependenciesWait
<1>18. OutcomeInv'
  BY <1>1, NoOutcomeYet
<1> QED BY <1>2, <1>11, <1>12, <1>13, <1>14, <1>15, <1>16, <1>17, <1>18 DEF IInv

\* What a rule finds in a call becomes no dependency or one.
DependencyOf(fn, d, where) == [id |-> DependencyID(fn, d, where), fn |-> fn, at |-> where, uses |-> d]

LEMMA KeptOfNone ==
  ASSUME NEW places
  PROVE  Kept(<<>>, places) = <<>>
<1> DEFINE kept == Kept(<<>>, places)
<1>1. <<>> \in Seq({})
  OBVIOUS
<1>2. kept \in Seq({})
  BY <1>1, KeptSelects
<1> HIDE DEF kept
<1>3. IsList(kept) /\ Len(kept) \in Nat /\ DOMAIN kept = 1..Len(kept) /\ DOMAIN kept = {}
  BY <1>2, ListOfSet
<1>4. Len(kept) = 0
  BY <1>3
<1>5. kept = <<>>
  BY <1>3, <1>4, EmptyList, ListsEqual
<1> QED BY <1>5 DEF kept

LEMMA NothingToAdd ==
  ASSUME NEW fn, NEW where
  PROVE  [i \in DOMAIN NothingFound.dependencies |->
            DependencyOf(fn, NothingFound.dependencies[i], where)] = <<>>
<1> DEFINE found == [i \in DOMAIN NothingFound.dependencies |->
                       DependencyOf(fn, NothingFound.dependencies[i], where)]
<1>1. DOMAIN found = {}
  BY EmptyList DEF NothingFound
<1>2. found = [i \in 1..0 |-> found[i]]
  BY <1>1
<1> HIDE DEF found
<1>3. IsList(found) /\ Len(found) = 0
  BY <1>2, ListFromFunction
<1>4. found = <<>>
  BY <1>3, EmptyList, ListsEqual
<1> QED BY <1>4 DEF found

LEMMA OneToAdd ==
  ASSUME NEW m, NEW d, m = [dependencies |-> <<d>>, codes |-> m.codes], NEW fn, NEW where
  PROVE  [i \in DOMAIN m.dependencies |-> DependencyOf(fn, m.dependencies[i], where)]
           = <<DependencyOf(fn, d, where)>>
<1> DEFINE found == [i \in DOMAIN m.dependencies |-> DependencyOf(fn, m.dependencies[i], where)]
           e == DependencyOf(fn, d, where)
<1>1. m.dependencies = <<d>> /\ DOMAIN <<d>> = {1} /\ <<d>>[1] = d
  BY ListOfOne
<1>2. DOMAIN found = {1} /\ found[1] = e
  BY <1>1
<1>3. found = [i \in 1..1 |-> found[i]]
  BY <1>2
<1> HIDE DEF found, e
<1>4. IsList(found) /\ Len(found) = 1
  BY <1>3, ListFromFunction
<1>5. IsList(<<e>>) /\ Len(<<e>>) = 1 /\ <<e>>[1] = e
  BY ListOfOne
<1>6. found = <<e>>
  BY <1>2, <1>4, <1>5, ListsEqual
<1> QED BY <1>6 DEF found, e

LEMMA CollectDependencyKeeps ==
  ASSUME IInv, CollectDependency
  PROVE  IInv'
<1> DEFINE n == at - 1
           site == Sites[at]
           call == site.call
           binds == site.in.binds
           fn == site.in.id
           where == call.at
           m == MatchDependency(call, binds, project)
           found == [i \in DOMAIN m.dependencies |-> DependencyOf(fn, m.dependencies[i], where)]
           new == {i \in DOMAIN found : \A j \in DOMAIN dependencies : dependencies[j].id # found[i].id}
           fresh == Kept(found, new)
           In == /\ call.role \in DOMAIN KindOfRole /\ call.enough
                 /\ call.ref.package \notin project
<1>1. /\ pc = "dependencies" /\ at <= Len(Sites) /\ at' = at + 1
      /\ UNCHANGED <<input, pc, adapters, loaded, project, records, objects, endpoints, edges>>
      /\ dependencies' = dependencies \o fresh
      /\ lists' = [lists EXCEPT ![fn].dependencies = @ \cup {fresh[i].id : i \in DOMAIN fresh}]
      /\ diagnostics' = diagnostics \o Report(m.codes, where)
  BY DEF CollectDependency, DependencyOf
<1>2. Step = 6 /\ Step' = 6 /\ PositionInv' /\ Sites' = Sites
      /\ Seen(6, Sites) = n /\ Seen(6, Sites)' = n + 1
  BY <1>1, StepsOf, NextSite, AtSite
<1>3. /\ n \in Nat /\ n + 1 = at /\ call \in CallExpression /\ where \in Nat
      /\ fn \in DOMAIN lists /\ binds \in Seq(Assignment) /\ call.before <= Len(binds)
  BY <1>1, AtSite
<1>4. Used(dependencies, Sites, n, project) /\ IsList(dependencies)
  BY <1>2 DEF IInv, DependenciesInv, Used
<1>5. site = Sites[n + 1] /\ site.call = call /\ site.in.id = fn /\ site.in.binds = binds
      /\ call.at = where
  BY <1>3
<1> HIDE DEF site, call, binds, fn, where
<1>6. (m = NothingFound \/ OneFound(m, call, binds)) /\ (In => OneFound(m, call, binds))
  BY <1>3, MatchDependencyFacts
<1> HIDE DEF m
<1>7. m.codes \in Seq(Codes)
  <2>1. NothingFound.codes \in Seq(Codes)
    BY DEF NothingFound
  <2> QED BY <1>6, <2>1 DEF OneFound
<1>8. /\ Used(dependencies \o fresh, Sites, n + 1, project)
      /\ IsList(fresh) /\ \A i \in DOMAIN fresh : fresh[i].fn = fn
  <2>1. CASE ~OneFound(m, call, binds)
    <3>1. m = NothingFound /\ ~In
      BY <1>6, <2>1
    <3>2. found = <<>>
      BY <3>1, NothingToAdd
    <3> HIDE DEF found, new
    <3>3. fresh = <<>>
      BY <3>2, KeptOfNone
    <3> HIDE DEF fresh
    <3>4. dependencies \o fresh = dependencies
      BY <1>4, <3>3, ConcatOne
    <3>5. (/\ Sites[n + 1].call.role \in DOMAIN KindOfRole /\ Sites[n + 1].call.enough
           /\ Sites[n + 1].call.ref.package \notin project)
            => \E i \in DOMAIN dependencies :
                 dependencies[i].at = Sites[n + 1].call.at /\ dependencies[i].fn = Sites[n + 1].in.id
      BY <1>5, <3>1
    <3> HIDE DEF n
    <3>6. Used(dependencies, Sites, n + 1, project)
      BY <1>3, <1>4, <3>5, NoDependencyAdded
    <3> QED BY <3>3, <3>4, <3>6, EmptyList
  <2>2. CASE OneFound(m, call, binds)
    <3>1. PICK u : m = [dependencies |-> <<u>>, codes |-> m.codes] /\ Written(u, call, binds)
      BY <2>2 DEF OneFound
    <3> DEFINE d == DependencyOf(fn, u, where)
    <3>2. found = <<d>>
      BY <3>1, OneToAdd
    <3>3. /\ d.id = DependencyID(fn, u, where) /\ d.fn = fn /\ d.at = where /\ d.uses = u
      BY DEF DependencyOf
    <3> HIDE DEF d
    <3>4. UsedBy(d, Sites[n + 1])
      BY <1>5, <3>1, <3>3 DEF UsedBy
    <3>5. 1 \in new <=> \A j \in DOMAIN dependencies : dependencies[j].id # d.id
      BY <3>2, ListOfOne
    <3> HIDE DEF found, new
    <3>6. fresh = IF 1 \in new THEN <<d>> ELSE <<>>
      BY <3>2, KeptOfOne
    <3> HIDE DEF fresh
    <3>7. CASE 1 \in new
      <4>1. fresh = <<d>> /\ dependencies \o fresh = Append(dependencies, d)
        BY <1>4, <3>6, <3>7, ConcatOne
      <4>2. \A j \in DOMAIN dependencies : dependencies[j].id # d.id
        BY <3>5, <3>7
      <4> HIDE DEF n
      <4>3. Used(Append(dependencies, d), Sites, n + 1, project)
        BY <1>3, <1>4, <3>4, <4>2, DependencyAdded
      <4>4. IsList(fresh) /\ \A i \in DOMAIN fresh : fresh[i].fn = fn
        BY <3>3, <4>1, ListOfOne
      <4> QED BY <4>1, <4>3, <4>4
    <3>8. CASE 1 \notin new
      <4>1. fresh = <<>> /\ dependencies \o fresh = dependencies
        BY <1>4, <3>6, <3>8, ConcatOne
      <4>2. PICK j \in DOMAIN dependencies : dependencies[j].id = d.id
        BY <3>5, <3>8
      <4>3. dependencies[j].id = DependencyID(dependencies[j].fn, dependencies[j].uses, dependencies[j].at)
        BY <1>4 DEF Used, UsedBy
      <4>4. dependencies[j].fn = fn /\ dependencies[j].at = where
        <5> DEFINE gn == dependencies[j].fn
                   e == dependencies[j].uses
                   there == dependencies[j].at
        <5>1. DependencyID(fn, u, where) = DependencyID(gn, e, there)
          BY <3>3, <4>2, <4>3
        <5> HIDE DEF gn, e, there
        <5>2. fn = gn /\ where = there
          BY <5>1, DependencyIDDecodes
        <5> QED BY <5>2 DEF gn, there
      <4>5. (/\ Sites[n + 1].call.role \in DOMAIN KindOfRole /\ Sites[n + 1].call.enough
             /\ Sites[n + 1].call.ref.package \notin project)
              => \E i \in DOMAIN dependencies :
                   dependencies[i].at = Sites[n + 1].call.at /\ dependencies[i].fn = Sites[n + 1].in.id
        BY <1>5, <4>4
      <4> HIDE DEF n
      <4>6. Used(dependencies, Sites, n + 1, project)
        BY <1>3, <1>4, <4>5, NoDependencyAdded
      <4> QED BY <4>1, <4>6, EmptyList
    <3> QED BY <3>7, <3>8
  <2> QED BY <2>1, <2>2
<1> HIDE DEF fresh
<1>9. DependenciesInv'
  <2>1. Used(dependencies', Sites', Seen(6, Sites)', project')
    BY <1>1, <1>2, <1>8
  <2> QED BY <1>2, <2>1 DEF DependenciesInv
<1>10. Listed(lists, endpoints, dependencies, edges)' /\ DOMAIN lists' = DOMAIN lists
  <2> DEFINE longer == [lists EXCEPT ![fn].dependencies = @ \cup {fresh[i].id : i \in DOMAIN fresh}]
  <2>1. Listed(lists, endpoints, dependencies, edges)
    BY DEF IInv
  <2>2. Listed(longer, endpoints, dependencies \o fresh, edges)
    BY <1>3, <1>4, <1>8, <2>1, ListedDependencies
  <2>3. DOMAIN longer = DOMAIN lists /\ lists' = longer
    BY <1>1
  <2> HIDE DEF longer
  <2> QED BY <1>1, <2>2, <2>3
<1>11. DiagnosticsInv' /\ Grown(diagnostics', diagnostics)
  <2> DEFINE codes == m.codes
             T == Codes \cup ErrorsOf(input.packages)
  <2>1. codes \in Seq(Codes)
    BY <1>7
  <2> HIDE DEF codes
  <2>2. \A i \in DOMAIN codes : codes[i] \in T
    BY <2>1, ListOfSet
  <2> HIDE DEF T
  <2>3. codes \in Seq(T)
    BY <2>1, <2>2, ListIn
  <2>4. where \in Nat /\ UNCHANGED input /\ diagnostics' = diagnostics \o Report(codes, where)
    BY <1>1, <1>3 DEF codes
  <2> QED BY <2>3, <2>4, ReportGrows DEF T
<1>12. ConfigInv'
  BY <1>1, <1>11, ConfigStays DEF IInv
<1>13. PackagesInv'
  BY <1>1, <1>2, PackagesStay DEF IInv
<1>14. FunctionsInv'
  BY <1>1, <1>2, <1>10, FunctionsStay
<1>15. EdgesInv' /\ EndpointsInv'
  BY <1>1, <1>2, <1>10, <1>11, EdgesStay, EndpointsStay
<1>16. OutcomeInv'
  BY <1>1, NoOutcomeYet
<1> QED BY <1>2, <1>9, <1>10, <1>11, <1>12, <1>13, <1>14, <1>15, <1>16 DEF IInv

\* Where the edges are.
LEMMA EdgesAreAtCalls ==
  ASSUME IInv, Step >= 5
  PROVE  /\ OneEdgeEach(edges, Sites, Len(Sites), objects, project)
         /\ IsList(edges) /\ \A i \in DOMAIN edges : edges[i].at \in Nat
<1>1. Seen(4, Sites) = Len(Sites) /\ Step >= 4
  BY StepsOf DEF Seen
<1>2. OneEdgeEach(edges, Sites, Len(Sites), objects, project)
  BY <1>1 DEF IInv, EdgesInv
<1>3. IsList(edges)
  BY <1>2 DEF OneEdgeEach
<1>4. ASSUME NEW i \in DOMAIN edges
      PROVE  edges[i].at \in Nat
  <2>1. PICK k \in 1..Len(Sites) : edges[i] = EdgeOf(Sites[k], objects, project)
    BY <1>2 DEF OneEdgeEach
  <2>2. Sites[k] \in Site(DOMAIN lists)
    BY LengthsWalked
  <2>3. Sites[k].call \in CallExpression
    BY <2>2 DEF Site
  <2>4. Sites[k].call.at \in Nat
    BY <2>3 DEF CallExpression
  <2>5. edges[i].at = Sites[k].call.at
    BY <2>1 DEF EdgeOf
  <2> QED BY <2>4, <2>5
<1> QED BY <1>2, <1>3, <1>4

LEMMA ToIRKeeps ==
  ASSUME IInv, ToIR
  PROVE  IInv'
<1> DEFINE twins == \E kind \in EntityKinds : ~IsInjective(IDsOf[kind])
           places == {i \in DOMAIN edges : ~edges[i].resolved}
           open == Kept(edges, places)
           said == [i \in DOMAIN open |-> Diagnostic("UNRESOLVED_CALL", open[i].at)]
<1>1. /\ pc = "convert" /\ at' = 1
      /\ UNCHANGED <<input, adapters, loaded, project, records, objects, lists, endpoints,
                     dependencies, edges>>
      /\ \/ twins /\ pc' = "failed" /\ UNCHANGED diagnostics
         \/ ~twins /\ pc' = "converted" /\ diagnostics' = diagnostics \o said
  BY DEF ToIR, Goto, collected
<1>2. Step = 7 /\ Step' = 8 /\ input.loads /\ pc' \in {"failed", "converted"}
  <2>1. input.loads
    BY <1>1 DEF IInv, PositionInv
  <2>2. Step' = 8
    BY <1>1, <2>1 DEF Step, Rank
  <2> QED BY <1>1, <2>1, <2>2, StepsOf
<1>3. PositionInv'
  <2>1. Walked(pc)' = <<>>
    BY <1>2 DEF Walked
  <2>2. input' \in Inputs
    BY <1>1 DEF IInv, PositionInv
  <2>3. pc' \in Stages
    BY <1>2 DEF Stages, Final
  <2> QED BY <1>1, <1>2, <2>1, <2>2, <2>3, EmptyList DEF PositionInv
<1>4. IsList(edges) /\ \A i \in DOMAIN edges : edges[i].at \in Nat
  BY <1>2, EdgesAreAtCalls
<1>5. DiagnosticsInv' /\ Grown(diagnostics', diagnostics)
  <2>1. CASE UNCHANGED diagnostics
    BY <1>1, <2>1, NothingReported
  <2>2. CASE diagnostics' = diagnostics \o said
    <3> DEFINE T == Codes \cup ErrorsOf(input.packages)
               E == Range(edges)
    <3>1. edges \in Seq(E)
      BY <1>4 DEF IsList
    <3> HIDE DEF E, places
    <3>2. open \in Seq(E) /\ Selects(open, edges, places)
      BY <3>1, KeptSelects
    <3> HIDE DEF open
    <3>3. \A i \in DOMAIN open : open[i].at \in Nat
      BY <1>4, <3>2 DEF Selects
    <3>4. Len(open) \in Nat /\ DOMAIN open = 1..Len(open)
      BY <3>2, ListOfSet
    <3>5. "UNRESOLVED_CALL" \in T
      BY DEF Codes
    <3>6. /\ DOMAIN said = 1..Len(open) /\ said = [i \in 1..Len(open) |-> said[i]]
          /\ \A i \in DOMAIN said : said[i].code \in T /\ said[i].at \in Nat
      BY <3>3, <3>4, <3>5 DEF Diagnostic
    <3>7. \A i \in DOMAIN diagnostics : diagnostics[i].code \in T /\ diagnostics[i].at \in Nat
      BY DEF IInv, DiagnosticsInv
    <3> HIDE DEF said, T
    <3>8. IsList(said) /\ IsList(diagnostics)
      BY <3>4, <3>6, ListFromFunction DEF IInv, DiagnosticsInv
    <3>9. Joined(diagnostics', diagnostics, said)
      BY <2>2, <3>8, ConcatJoins
    <3>10. \A i \in DOMAIN diagnostics' : diagnostics'[i].code \in T /\ diagnostics'[i].at \in Nat
      BY <3>6, <3>7, <3>9 DEF Joined
    <3>11. IsList(diagnostics') /\ Grown(diagnostics', diagnostics)
      BY <3>9 DEF Joined, Grown
    <3>12. T' = T
      BY <1>1 DEF T
    <3> QED BY <3>10, <3>11, <3>12 DEF DiagnosticsInv, T
  <2> QED BY <1>1, <2>1, <2>2
<1>6. ConfigInv'
  BY <1>1, <1>5, ConfigStays DEF IInv
<1>7. PackagesInv'
  BY <1>1, <1>2, PackagesStay DEF IInv
<1>8. FunctionsInv'
  BY <1>1, <1>2, FunctionsStay
<1>9. EdgesInv' /\ EndpointsInv' /\ DependenciesInv'
  BY <1>1, <1>2, <1>5, EdgesStay, EndpointsStay, DependenciesStay
<1>10. Listed(lists, endpoints, dependencies, edges)'
  BY <1>1 DEF IInv
<1>11. OutcomeInv'
  <2>1. IDsOf' = IDsOf
    BY <1>1 DEF IDsOf
  <2>2. \A kind : IsInjective(IDsOf[kind])' = IsInjective(IDsOf[kind])
    BY <2>1 DEF IsInjective
  <2> QED BY <1>1, <2>1, <2>2 DEF OutcomeInv
<1> QED BY <1>3, <1>5, <1>6, <1>7, <1>8, <1>9, <1>10, <1>11 DEF IInv

LEMMA StutterKeeps ==
  ASSUME IInv, UNCHANGED vars
  PROVE  IInv'
<1>1. UNCHANGED <<input, pc, at, adapters, loaded, project, records, objects, lists, endpoints,
                  dependencies, edges, diagnostics>>
  BY DEF vars, collected
<1>2. /\ VisitedFunctions(loaded)' = VisitedFunctions(loaded) /\ Sites' = Sites
      /\ Walked(pc)' = Walked(pc) /\ IDsOf' = IDsOf /\ Step' = Step
      /\ Chosen' = Chosen /\ Handed' = Handed /\ Asked' = Asked /\ ConfigReported' = ConfigReported
  <2>1. VisitedFunctions(loaded)' = VisitedFunctions(loaded) /\ Sites' = Sites /\ Walked(pc)' = Walked(pc)
    BY <1>1, VisitedStay, SitesStay, WalkedStay DEF Walked
  <2>2. IDsOf' = IDsOf
    BY <1>1 DEF IDsOf
  <2>3. Step' = Step
    BY <1>1 DEF Step
  <2>4. Chosen' = Chosen /\ Handed' = Handed /\ Asked' = Asked /\ ConfigReported' = ConfigReported
    BY <1>1 DEF Chosen, Handed, Asked, ConfigReported
  <2> QED BY <2>1, <2>2, <2>3, <2>4
<1>3. \A rank, list : Seen(rank, list)' = Seen(rank, list)
  BY <1>1, <1>2 DEF Seen
<1>4. PositionInv'
  BY <1>1, <1>2 DEF IInv, PositionInv
<1>5. ConfigInv' /\ PackagesInv'
  BY <1>1, <1>2 DEF IInv, ConfigInv, PackagesInv
<1>6. FunctionsInv'
  BY <1>1, <1>2, <1>3 DEF IInv, FunctionsInv
<1>7. EdgesInv' /\ EndpointsInv' /\ DependenciesInv'
  BY <1>1, <1>2, <1>3 DEF IInv, EdgesInv, EndpointsInv, DependenciesInv
<1>8. Listed(lists, endpoints, dependencies, edges)' /\ DiagnosticsInv'
  BY <1>1 DEF IInv, DiagnosticsInv
<1>9. OutcomeInv'
  BY <1>1, <1>2 DEF IInv, OutcomeInv
<1> QED BY <1>4, <1>5, <1>6, <1>7, <1>8, <1>9 DEF IInv

LEMMA NextKeeps ==
  ASSUME IInv, [Next]_vars
  PROVE  IInv'
BY StutterKeeps, ReadConfigKeeps, LoadPackagesKeeps, CollectPackageKeeps, CollectFunctionKeeps,
   CollectCallKeeps, CollectEndpointKeeps, CollectDependencyKeeps, FinishStageKeeps, ToIRKeeps
   DEF Next

\* The inductive invariant holds throughout a scan.
THEOREM SpecIInv == Spec => []IInv
BY InitIInv, NextKeeps, PTL DEF Spec
-----------------------------------------------------------------------------
(* What the invariant says of a scan *)

LEMMA PlacesSeen ==
  ASSUME IInv
  PROVE  /\ Step >= 4 => Seen(4, Sites) \in 0..Len(Sites)
         /\ Step >= 6 => Seen(6, Sites) \in 0..Len(Sites)
<1>1. Len(Sites) \in Nat /\ at \in 1..(Len(Walked(pc)) + 1)
  BY LengthsWalked DEF IInv, PositionInv
<1>2. Step \in {4, 6} => Walked(pc) = Sites
  <2>1. Step = 4 => pc = "calls"
    BY DEF IInv, PositionInv, Stages, Final, Step, Rank
  <2>2. Step = 6 => pc = "dependencies"
    BY DEF IInv, PositionInv, Stages, Final, Step, Rank
  <2> QED BY <2>1, <2>2, StepsOf
<1>3. Step = 4 => Seen(4, Sites) \in 0..Len(Sites)
  BY <1>1, <1>2 DEF Seen
<1>4. Step = 6 => Seen(6, Sites) \in 0..Len(Sites)
  BY <1>1, <1>2 DEF Seen
<1>5. Step # 4 => Seen(4, Sites) = Len(Sites)
  BY DEF Seen
<1>6. Step # 6 => Seen(6, Sites) = Len(Sites)
  BY DEF Seen
<1> QED BY <1>1, <1>3, <1>4, <1>5, <1>6

LEMMA CallersAreCollected ==
  ASSUME IInv, NEW i \in DOMAIN edges
  PROVE  /\ edges[i].caller \in DOMAIN lists
         /\ edges[i].resolved = (edges[i].callee # NoFunction)
         /\ edges[i].resolved => edges[i].callee \in DOMAIN lists
<1>1. Step >= 4 /\ Step \in Nat
  BY NotBegun, EmptyList, StepsOf
<1>2. PICK k \in 1..Seen(4, Sites) : /\ Tracked(Sites[k], objects, project)
                                     /\ edges[i] = EdgeOf(Sites[k], objects, project)
  BY <1>1 DEF IInv, EdgesInv, OneEdgeEach
<1>3. k \in DOMAIN Sites
  BY <1>1, <1>2, PlacesSeen, LengthsWalked
<1>4. Sites[k] \in Site(DOMAIN lists)
  BY <1>3, LengthsWalked
<1>5. Sites[k].in.id \in DOMAIN lists
  <2>1. Sites[k].in \in Record(DOMAIN lists)
    BY <1>4 DEF Site
  <2> QED BY <2>1 DEF Record
<1>6. Range(objects) = DOMAIN lists /\ RealIDs(Range(objects))
  BY DEF IInv, FunctionsInv, Collected
<1> DEFINE call == Sites[k].call
           callee == ResolveCall(call, objects, project)
<1>7. /\ edges[i].caller = Sites[k].in.id /\ edges[i].callee = callee
      /\ edges[i].resolved = (callee # NoFunction) /\ callee # <<NotTracked>>
  BY <1>2 DEF EdgeOf, Tracked
<1> HIDE DEF call
<1>8. callee \in Range(objects) \cup {NoFunction, <<NotTracked>>}
  BY <1>6, ResolveCallFacts
<1> HIDE DEF callee
<1> QED BY <1>5, <1>6, <1>7, <1>8

LEMMA UsersAreCollected ==
  ASSUME IInv, NEW i \in DOMAIN dependencies
  PROVE  dependencies[i].fn \in DOMAIN lists
<1>1. Step >= 6 /\ Step \in Nat
  BY NotBegun, EmptyList, StepsOf
<1>2. PICK k \in 1..Seen(6, Sites) : UsedBy(dependencies[i], Sites[k])
  BY <1>1 DEF IInv, DependenciesInv, Used
<1>3. k \in DOMAIN Sites
  BY <1>1, <1>2, PlacesSeen, LengthsWalked
<1>4. Sites[k] \in Site(DOMAIN lists)
  BY <1>3, LengthsWalked
<1>5. Sites[k].in \in Record(DOMAIN lists)
  BY <1>4 DEF Site
<1>6. Sites[k].in.id \in DOMAIN lists
  BY <1>5 DEF Record
<1> QED BY <1>2, <1>6 DEF UsedBy

\* The types of the analysis: its position, and that entities name functions
\* it collected (functions.go, endpoints.go, dependencies.go).
THEOREM ScanTypeOK == Spec => []TypeOK
<1>1. ASSUME IInv
      PROVE  TypeOK
  <2>1. pc \in Stages /\ at \in 1..(Len(Walked(pc)) + 1) /\ adapters \subseteq Adapters
    BY <1>1 DEF IInv, PositionInv, ConfigInv
  <2>2. /\ Range(loaded) \subseteq Range(input.packages)
        /\ project \subseteq {loaded[i].path : i \in DOMAIN loaded}
    BY <1>1 DEF IInv, PackagesInv, OneOfEach
  <2>3. DOMAIN lists = Range(objects) /\ DOMAIN lists = {records[i].id : i \in DOMAIN records}
    BY <1>1 DEF IInv, FunctionsInv, Collected
  <2>4. \A i \in DOMAIN endpoints : endpoints[i].registers.fn \in DOMAIN lists
    <3>1. CASE Step < 5
      BY <1>1, <3>1, NotBegun, EmptyList
    <3>2. CASE Step >= 5
      BY <1>1, <3>2 DEF IInv, EndpointsInv, Registered
    <3> QED BY <1>1, <3>1, <3>2, StepsOf
  <2>5. \A i \in DOMAIN dependencies : dependencies[i].fn \in DOMAIN lists
    BY <1>1, UsersAreCollected
  <2>6. \A i \in DOMAIN edges : edges[i].caller \in DOMAIN lists
    BY <1>1, CallersAreCollected
  <2>7. \A i \in DOMAIN diagnostics :
          diagnostics[i].code \in Codes \cup ErrorsOf(input.packages) /\ diagnostics[i].at \in Nat
    BY <1>1 DEF IInv, DiagnosticsInv
  <2> QED BY <2>1, <2>2, <2>3, <2>4, <2>5, <2>6, <2>7 DEF TypeOK
<1> QED BY <1>1, SpecIInv, PTL

\* At the end everything has been walked.
LEMMA AllWalked ==
  ASSUME IInv, pc = "converted" \/ (pc = "failed" /\ input.loads)
  PROVE  /\ Covered(records, objects, VisitedFunctions(loaded), Len(VisitedFunctions(loaded)))
         /\ OneEdgeEach(edges, Sites, Len(Sites), objects, project)
         /\ Registered(endpoints, DOMAIN lists, diagnostics, adapters, Sites, Len(Sites))
         /\ Used(dependencies, Sites, Len(Sites), project)
<1>1. Step = 8
  BY DEF Step, Rank
<1>2. \A rank, list : rank \in {3, 4, 5, 6} => Seen(rank, list) = Len(list)
  BY <1>1 DEF Seen
<1> QED BY <1>1, <1>2 DEF IInv, FunctionsInv, EdgesInv, EndpointsInv, DependenciesInv

\* Two entities under one ID: what they are of.
LEMMA IDsAre ==
  /\ IDsOf["function"] = [i \in DOMAIN records |-> records[i].id]
  /\ IDsOf["endpoint"] = [i \in DOMAIN endpoints |-> endpoints[i].id]
  /\ IDsOf["dependency"] = [i \in DOMAIN dependencies |-> dependencies[i].id]
  /\ IDsOf["edge"] = [i \in DOMAIN edges |-> CallEdgeID(edges[i])]
BY DEF IDsOf

\* A scan that loads its packages fails exactly on twins: two calls that begin at
\* one place of a function and go to one callee, or one registration said twice
\* (model.go takes their identities from that, convert.go rejects two alike).
THEOREM ScanFailsOnlyOnTwins == Spec => []FailsOnlyOnTwins
<1>1. ASSUME IInv, pc = "failed", input.loads
      PROVE  Chained \/ RegisteredTwice
  <2>1. /\ OneEdgeEach(edges, Sites, Len(Sites), objects, project)
        /\ Registered(endpoints, DOMAIN lists, diagnostics, adapters, Sites, Len(Sites))
        /\ Used(dependencies, Sites, Len(Sites), project)
    BY <1>1, AllWalked
  <2>2. PICK kind \in EntityKinds : ~IsInjective(IDsOf[kind])
    BY <1>1 DEF IInv, OutcomeInv
  <2>3. IsInjective(IDsOf["function"])
    <3>1. \A i, j \in DOMAIN records : records[i].id = records[j].id => i = j
      BY <1>1 DEF IInv, FunctionsInv, Collected
    <3> QED BY <3>1, IDsAre DEF IsInjective
  <2>4. IsInjective(IDsOf["dependency"])
    BY <2>1, IDsAre DEF Used, IsInjective
  <2>5. CASE kind = "endpoint"
    <3>1. PICK i, j \in DOMAIN endpoints : i # j /\ endpoints[i].id = endpoints[j].id
      BY <2>2, <2>5, IDsAre DEF IsInjective
    <3> DEFINE d == endpoints[i].registers
               e == endpoints[j].registers
    <3>2. WellNamed(d) /\ WellNamed(e) /\ EndpointID(d) = EndpointID(e)
      BY <2>1, <3>1 DEF Registered
    <3> HIDE DEF d, e
    <3>3. Said(d) = Said(e)
      BY <3>2, EndpointIDDecodes
    <3> QED BY <3>1, <3>3 DEF RegisteredTwice, d, e
  <2>6. CASE kind = "edge"
    <3>1. PICK i, j \in DOMAIN edges : i # j /\ CallEdgeID(edges[i]) = CallEdgeID(edges[j])
      BY <2>2, <2>6, IDsAre DEF IsInjective
    <3> DEFINE d == edges[i]
               e == edges[j]
    <3>2. PICK place \in [DOMAIN edges -> 1..Len(Sites)] :
            /\ \A m \in DOMAIN edges : /\ Tracked(Sites[place[m]], objects, project)
                                       /\ edges[m] = EdgeOf(Sites[place[m]], objects, project)
            /\ \A m, n \in DOMAIN edges : place[m] = place[n] => m = n
      BY <2>1 DEF OneEdgeEach
    <3>3. d.resolved = (d.callee # NoFunction) /\ e.resolved = (e.callee # NoFunction)
      BY <1>1, CallersAreCollected
    <3>4. CallEdgeID(d) = CallEdgeID(e)
      BY <3>1
    <3> HIDE DEF d, e
    <3>5. d.caller = e.caller /\ d.callee = e.callee /\ d.at = e.at
      BY <3>3, <3>4, CallEdgeIDDecodes
    <3> DEFINE a == place[i]
               b == place[j]
    <3>6. /\ a \in 1..Len(Sites) /\ b \in 1..Len(Sites) /\ a # b
          /\ d = EdgeOf(Sites[a], objects, project) /\ e = EdgeOf(Sites[b], objects, project)
          /\ Tracked(Sites[a], objects, project)
      BY <3>1, <3>2 DEF d, e
    <3> HIDE DEF a, b
    <3>7. /\ Sites[a].in.id = Sites[b].in.id /\ Sites[a].call.at = Sites[b].call.at
          /\ ResolveCall(Sites[a].call, objects, project) = ResolveCall(Sites[b].call, objects, project)
      BY <3>5, <3>6 DEF EdgeOf
    <3>8. a \in DOMAIN Sites /\ b \in DOMAIN Sites
      BY <1>1, <3>6, LengthsWalked
    <3> QED BY <3>6, <3>7, <3>8 DEF Chained, Tracked
  <2> QED BY <2>2, <2>3, <2>4, <2>5, <2>6 DEF EntityKinds
<1>2. ASSUME IInv, pc = "converted"
      PROVE  ~Chained /\ ~RegisteredTwice
  <2>1. /\ OneEdgeEach(edges, Sites, Len(Sites), objects, project)
        /\ Registered(endpoints, DOMAIN lists, diagnostics, adapters, Sites, Len(Sites))
    BY <1>2, AllWalked
  <2>2. IsInjective(IDsOf["endpoint"]) /\ IsInjective(IDsOf["edge"])
    BY <1>2 DEF IInv, OutcomeInv, EntityKinds
  <2>3. ASSUME RegisteredTwice
        PROVE  FALSE
    <3>1. PICK i, j \in DOMAIN endpoints :
            i # j /\ Said(endpoints[i].registers) = Said(endpoints[j].registers)
      BY <2>3 DEF RegisteredTwice
    <3> DEFINE d == endpoints[i].registers
               e == endpoints[j].registers
    <3>2. /\ WellNamed(d) /\ WellNamed(e) /\ Said(d) = Said(e)
          /\ endpoints[i].id = EndpointID(d) /\ endpoints[j].id = EndpointID(e)
      BY <2>1, <3>1 DEF Registered
    <3> HIDE DEF d, e
    <3>3. EndpointID(d) = EndpointID(e)
      BY <3>2, EndpointIDDecodes
    <3> QED BY <2>2, <3>1, <3>2, <3>3, IDsAre DEF IsInjective
  <2>4. ASSUME Chained
        PROVE  FALSE
    <3>1. PICK i, j \in DOMAIN Sites :
            /\ i # j /\ Sites[i].in.id = Sites[j].in.id /\ Sites[i].call.at = Sites[j].call.at
            /\ Tracked(Sites[i], objects, project)
            /\ ResolveCall(Sites[i].call, objects, project) = ResolveCall(Sites[j].call, objects, project)
      BY <2>4 DEF Chained, Tracked
    <3>2. PICK place \in [DOMAIN edges -> 1..Len(Sites)] :
            /\ \A m \in DOMAIN edges : edges[m] = EdgeOf(Sites[place[m]], objects, project)
            /\ \A k \in 1..Len(Sites) :
                 Tracked(Sites[k], objects, project) => \E m \in DOMAIN edges : place[m] = k
      BY <2>1 DEF OneEdgeEach
    <3>3. i \in 1..Len(Sites) /\ j \in 1..Len(Sites) /\ Tracked(Sites[j], objects, project)
      BY <1>2, <3>1, LengthsWalked DEF Tracked
    <3>4. PICK a \in DOMAIN edges : place[a] = i
      BY <3>1, <3>2, <3>3
    <3>5. PICK b \in DOMAIN edges : place[b] = j
      BY <3>2, <3>3
    <3>6. edges[a] = edges[b]
      <4>1. edges[a] = EdgeOf(Sites[i], objects, project) /\ edges[b] = EdgeOf(Sites[j], objects, project)
        BY <3>2, <3>4, <3>5
      <4> QED BY <3>1, <4>1 DEF EdgeOf
    <3>7. a = b
      BY <2>2, <3>6, IDsAre DEF IsInjective
    <3> QED BY <3>1, <3>4, <3>5, <3>7
  <2> QED BY <2>3, <2>4
<1>3. ASSUME IInv
      PROVE  FailsOnlyOnTwins
  BY <1>1, <1>2, <1>3 DEF FailsOnlyOnTwins
<1> QED BY <1>3, SpecIInv, PTL

\* Whatever there is to analyse is in the document of a scan or in a diagnostic
\* at its place (analyze.go, functions.go, endpoints.go, dependencies.go).
THEOREM ScanLosesNothingSilently == Spec => []NothingIsLostSilently
<1>1. ASSUME IInv, pc = "converted"
      PROVE  NothingIsLostSilently
  <2> DEFINE v == VisitedFunctions(loaded)
  <2>1. /\ Covered(records, objects, v, Len(v))
        /\ OneEdgeEach(edges, Sites, Len(Sites), objects, project)
        /\ Registered(endpoints, DOMAIN lists, diagnostics, adapters, Sites, Len(Sites))
        /\ Used(dependencies, Sites, Len(Sites), project)
    BY <1>1, AllWalked
  <2>2. DOMAIN v = 1..Len(v) /\ DOMAIN Sites = 1..Len(Sites)
    BY <1>1, LengthsWalked
  <2> HIDE DEF v
  <2>4. ASSUME NEW k \in 1..Len(Sites),
               Sites[k].call.ref.kind = "function", Sites[k].call.ref.package \in project
        PROVE  \E i \in DOMAIN edges : edges[i].at = Sites[k].call.at /\ edges[i].caller = Sites[k].in.id
    <3>1. RealIDs(Range(objects))
      BY <1>1 DEF IInv, FunctionsInv, Collected
    <3>2. Tracked(Sites[k], objects, project)
      <4> DEFINE call == Sites[k].call
      <4>1. call.ref.kind = "function" /\ call.ref.package \in project
        BY <2>4
      <4> HIDE DEF call
      <4>2. ResolveCall(call, objects, project) # <<NotTracked>>
        BY <3>1, <4>1, ResolveCallFacts
      <4> QED BY <4>2 DEF Tracked, call
    <3>3. PICK i \in DOMAIN edges : edges[i] = EdgeOf(Sites[k], objects, project)
      BY <2>1, <3>2 DEF OneEdgeEach
    <3> QED BY <3>3 DEF EdgeOf
  <2>5. ASSUME NEW k \in 1..Len(Sites), Sites[k].call.role \in DOMAIN AdapterOf,
               AdapterOf[Sites[k].call.role] \in Asked, Handed = Chosen
        PROVE  \/ \E i \in DOMAIN endpoints : endpoints[i].at = Sites[k].call.at
               \/ Reported(Sites[k].call.at) \/ ConfigReported
    <3>1. ConfigReported \/ Asked \subseteq adapters
      BY <1>1, <2>5 DEF IInv, ConfigInv
    <3> QED BY <2>1, <2>5, <3>1 DEF Registered, Reported
  <2>6. ASSUME NEW k \in 1..Len(Sites), Sites[k].call.role \in DOMAIN KindOfRole,
               Sites[k].call.enough, Sites[k].call.ref.package \notin project
        PROVE  \E i \in DOMAIN dependencies :
                 dependencies[i].at = Sites[k].call.at /\ dependencies[i].fn = Sites[k].in.id
    BY <2>1, <2>6 DEF Used
  <2>7. ASSUME NEW i \in DOMAIN v, v[i].function.number \in DOMAIN objects,
               NEW call \in Range(v[i].function.calls)
        PROVE  LeavesATrace(call, objects[v[i].function.number])
    <3> DEFINE f == v[i].function
               id == objects[f.number]
    <3>1. PICK r \in DOMAIN records : records[r] = RecordFor(f, id)
      BY <2>1, <2>2, <2>7 DEF Covered, Entered
    <3>2. PICK c \in DOMAIN f.calls : f.calls[c] = call
      BY <2>7 DEF Range
    <3> HIDE DEF id
    <3>3. /\ records[r] \in Range(records) /\ records[r].calls = f.calls /\ records[r].id = id
          /\ records \in Seq(Record(DOMAIN lists))
      BY <1>1, <3>1 DEF RecordFor, Range, IInv, FunctionsInv, Collected
    <3>4. PICK k \in DOMAIN Sites : Sites[k] = [in |-> records[r], call |-> call]
      BY <3>2, <3>3, SitesFacts
    <3>5. k \in 1..Len(Sites) /\ Sites[k].call = call /\ Sites[k].in.id = id
      BY <2>2, <3>3, <3>4
    <3> QED BY <2>4, <2>5, <2>6, <3>5 DEF LeavesATrace, id
  <2>8. ASSUME NEW i \in DOMAIN v, v[i].function.number \notin DOMAIN objects
        PROVE  MayBeMissing(v, i)
    BY <2>1, <2>2, <2>8 DEF Covered, MissingIn, MayBeMissing
  <2> QED BY <2>7, <2>8 DEF NothingIsLostSilently, v
<1>2. ASSUME IInv
      PROVE  NothingIsLostSilently
  BY <1>1, <1>2 DEF NothingIsLostSilently
<1> QED BY <1>2, SpecIInv, PTL

\* The target the document gives an HTTP or RPC call is that of the request or
\* connection it is passed when it can be read and its variable is not assigned
\* to later, and in any case one made in the body (dependencies.go).
THEOREM ScanTargetsAreHeld == Spec => []TargetsAreHeld
<1>1. ASSUME IInv, pc = "converted"
      PROVE  TargetsAreHeld
  <2>1. Used(dependencies, Sites, Len(Sites), project) /\ DOMAIN Sites = 1..Len(Sites)
    BY <1>1, AllWalked, LengthsWalked
  <2>2. ASSUME NEW i \in Targeted
        PROVE  LET d == dependencies[i].uses
               IN  \E s \in CallsBehind(dependencies[i]) :
                     LET value == Passed(s.call, s.in.binds)
                     IN  /\ value.known /\ ~AssignedLater(s.call, s.in.binds) => Tells(d, value)
                         /\ d.target # Empty => d.target \in Made(s.call, s.in.binds)
    <3>1. i \in DOMAIN dependencies /\ dependencies[i].uses.kind \in {"http_client", "rpc_client"}
      BY <2>2 DEF Targeted
    <3>2. PICK k \in 1..Len(Sites) : UsedBy(dependencies[i], Sites[k])
      BY <2>1, <3>1 DEF Used
    <3>3. Written(dependencies[i].uses, Sites[k].call, Sites[k].in.binds)
      BY <3>2 DEF UsedBy
    <3>4. Sites[k] \in CallsBehind(dependencies[i])
      <4>1. Sites[k] \in Range(Sites)
        BY <2>1, <3>2 DEF Range
      <4> QED BY <3>1, <3>2, <3>3, <4>1 DEF CallsBehind, UsedBy, Written
    <3> QED BY <3>1, <3>3, <3>4 DEF Written
  <2> QED BY <2>2 DEF TargetsAreHeld
<1>2. ASSUME IInv
      PROVE  TargetsAreHeld
  BY <1>1, <1>2 DEF TargetsAreHeld
<1> QED BY <1>2, SpecIInv, PTL

\* The entities of the document.
FunctionEntity(i) ==
  LET id == records[i].id
  IN  [id |-> i, name |-> NameOfFunction(id, Anonymous), norm |-> NameOfFunction(id, Anonymous),
       endpoints |-> Numbers("endpoint", lists[id].endpoints),
       dependencies |-> Numbers("dependency", lists[id].dependencies),
       functions |-> Numbers("function", lists[id].callers \cup lists[id].callees)]
EndpointEntity(i) ==
  LET e == endpoints[i].registers
  IN  [id |-> i, kind |-> e.kind, fn |-> Number("function", e.fn),
       op |-> Text(IF e.kind = "cron" THEN e.name ELSE e.verb), route |-> Text(e.path)]
DependencyEntity(i) ==
  LET d == dependencies[i]
  IN  [id |-> i, kind |-> d.uses.kind, fn |-> Number("function", d.fn), op |-> d.uses.op,
       static |-> d.uses.static]
EdgeEntity(i) ==
  [id |-> i, caller |-> Number("function", edges[i].caller),
   callee |-> Number("function", edges[i].callee), specified |-> TRUE,
   resolved |-> edges[i].resolved]

LEMMA DocumentIs ==
  /\ Document.function = [i \in DOMAIN records |-> FunctionEntity(i)]
  /\ Document.endpoint = [i \in DOMAIN endpoints |-> EndpointEntity(i)]
  /\ Document.dependency = [i \in DOMAIN dependencies |-> DependencyEntity(i)]
  /\ Document.edge = [i \in DOMAIN edges |-> EdgeEntity(i)]
<1> DEFINE F == [i \in DOMAIN records |-> FunctionEntity(i)]
           E == [i \in DOMAIN endpoints |-> EndpointEntity(i)]
           D == [i \in DOMAIN dependencies |-> DependencyEntity(i)]
           G == [i \in DOMAIN edges |-> EdgeEntity(i)]
<1>1. Document = [schema |-> "v1", function |-> F, endpoint |-> E, dependency |-> D, edge |-> G]
  BY DEF Document, FunctionEntity, EndpointEntity, DependencyEntity, EdgeEntity
<1> HIDE DEF F, E, D, G
<1>2. Document.function = F /\ Document.endpoint = E /\ Document.dependency = D /\ Document.edge = G
  BY <1>1
<1> QED BY <1>2 DEF F, E, D, G

LEMMA RangesOfDocument ==
  /\ \A e : e \in Range(Document.function) <=> \E i \in DOMAIN records : e = FunctionEntity(i)
  /\ \A e : e \in Range(Document.endpoint) <=> \E i \in DOMAIN endpoints : e = EndpointEntity(i)
  /\ \A e : e \in Range(Document.dependency) <=> \E i \in DOMAIN dependencies : e = DependencyEntity(i)
  /\ \A e : e \in Range(Document.edge) <=> \E i \in DOMAIN edges : e = EdgeEntity(i)
<1>1. \A e : e \in Range(Document.function) <=> \E i \in DOMAIN records : e = FunctionEntity(i)
  BY DocumentIs DEF Range
<1>2. \A e : e \in Range(Document.endpoint) <=> \E i \in DOMAIN endpoints : e = EndpointEntity(i)
  BY DocumentIs DEF Range
<1>3. \A e : e \in Range(Document.dependency) <=> \E i \in DOMAIN dependencies : e = DependencyEntity(i)
  BY DocumentIs DEF Range
<1>4. \A e : e \in Range(Document.edge) <=> \E i \in DOMAIN edges : e = EdgeEntity(i)
  BY DocumentIs DEF Range
<1> QED BY <1>1, <1>2, <1>3, <1>4

\* Where IDs are unique the number of an ID is the place of its entity.
LEMMA NumberOfPlace ==
  ASSUME NEW kind, IsInjective(IDsOf[kind]), NEW i \in DOMAIN IDsOf[kind],
         IDsOf[kind][i] # NoFunction
  PROVE  Number(kind, IDsOf[kind][i]) = i
<1> DEFINE ids == IDsOf[kind]
           j == CHOOSE m \in DOMAIN ids : ids[m] = ids[i]
<1>1. j \in DOMAIN ids /\ ids[j] = ids[i]
  OBVIOUS
<1>2. Number(kind, ids[i]) = j
  BY DEF Number
<1>3. \A m, n \in DOMAIN ids : ids[m] = ids[n] => m = n
  BY DEF IsInjective
<1> HIDE DEF j
<1>4. j = i
  BY <1>1, <1>3
<1> QED BY <1>2, <1>4

LEMMA NumbersOfEntities ==
  ASSUME IInv, pc = "converted"
  PROVE  /\ \A i \in DOMAIN records : Number("function", records[i].id) = i
         /\ \A id \in DOMAIN lists : /\ Number("function", id) \in DOMAIN records
                                     /\ records[Number("function", id)].id = id
         /\ \A i \in DOMAIN endpoints : Number("endpoint", endpoints[i].id) = i
         /\ \A i \in DOMAIN dependencies : Number("dependency", dependencies[i].id) = i
<1>1. /\ Collected(records, objects, DOMAIN lists)
      /\ Registered(endpoints, DOMAIN lists, diagnostics, adapters, Sites, Len(Sites))
      /\ Used(dependencies, Sites, Len(Sites), project)
  BY AllWalked DEF IInv, FunctionsInv
<1>2. /\ IsInjective(IDsOf["function"]) /\ IsInjective(IDsOf["endpoint"])
      /\ IsInjective(IDsOf["dependency"])
  BY DEF IInv, OutcomeInv, EntityKinds
<1>3. ASSUME NEW i \in DOMAIN records
      PROVE  Number("function", records[i].id) = i
  <2>1. records[i].id # NoFunction
    BY <1>1 DEF Collected, RealIDs
  <2>2. i \in DOMAIN IDsOf["function"] /\ IDsOf["function"][i] = records[i].id
    BY IDsAre
  <2> QED BY <1>2, <2>1, <2>2, NumberOfPlace
<1>4. ASSUME NEW i \in DOMAIN endpoints
      PROVE  Number("endpoint", endpoints[i].id) = i
  <2>1. endpoints[i].id # NoFunction
    <3> DEFINE e == endpoints[i].registers
    <3>1. endpoints[i].id = EndpointID(e)
      BY <1>1 DEF Registered
    <3> HIDE DEF e
    <3>2. Len(EndpointID(e)) >= 2
      <4>1. Ones(e.name) \in Nat /\ Ones(e.verb) \in Nat /\ Ones(e.path) \in Nat
        BY DEF Ones
      <4>2. Len(EndpointID(e)) = 2 + Ones(e.name) + (Ones(e.verb) + Ones(e.path))
        BY EndpointIDOf
      <4> QED BY <4>1, <4>2
    <3> QED BY <3>1, <3>2, EmptyList DEF NoFunction
  <2>2. i \in DOMAIN IDsOf["endpoint"] /\ IDsOf["endpoint"][i] = endpoints[i].id
    BY IDsAre
  <2> QED BY <1>2, <2>1, <2>2, NumberOfPlace
<1>5. ASSUME NEW i \in DOMAIN dependencies
      PROVE  Number("dependency", dependencies[i].id) = i
  <2>1. dependencies[i].id # NoFunction
    <3> DEFINE fn == dependencies[i].fn
               d == dependencies[i].uses
               where == dependencies[i].at
    <3>1. dependencies[i].id = DependencyID(fn, d, where)
      BY <1>1 DEF Used, UsedBy
    <3> HIDE DEF fn, d, where
    <3>2. Len(DependencyID(fn, d, where)) \in {6, 7}
      BY DependencyIDOf
    <3> QED BY <3>1, <3>2, EmptyList DEF NoFunction
  <2>2. i \in DOMAIN IDsOf["dependency"] /\ IDsOf["dependency"][i] = dependencies[i].id
    BY IDsAre
  <2> QED BY <1>2, <2>1, <2>2, NumberOfPlace
<1>6. ASSUME NEW id \in DOMAIN lists
      PROVE  Number("function", id) \in DOMAIN records /\ records[Number("function", id)].id = id
  <2>1. PICK i \in DOMAIN records : records[i].id = id
    BY <1>1 DEF Collected
  <2> QED BY <1>3, <2>1
<1> QED BY <1>3, <1>4, <1>5, <1>6

\* What a function of the document refers to, by the places of the entities.
LEMMA FunctionRefersTo ==
  ASSUME IInv, pc = "converted", NEW i \in DOMAIN records
  PROVE  LET f == FunctionEntity(i)
             id == records[i].id
         IN  /\ f.id = i
             /\ f.endpoints = {j \in DOMAIN endpoints : endpoints[j].registers.fn = id}
             /\ f.dependencies = {j \in DOMAIN dependencies : dependencies[j].fn = id}
             /\ f.functions = Numbers("function", CallerIDs(edges, id) \cup CalleeIDs(edges, id))
<1> DEFINE f == FunctionEntity(i)
           id == records[i].id
           A == EndpointIDs(endpoints, id)
           B == DependencyIDs(dependencies, id)
           C == CallerIDs(edges, id)
           D == CalleeIDs(edges, id)
<1>1. id \in DOMAIN lists
  BY DEF IInv, FunctionsInv, Collected
<1>2. lists[id] = [endpoints |-> A, dependencies |-> B, callers |-> C, callees |-> D]
  BY <1>1 DEF IInv, Listed
<1>3. /\ f.id = i /\ f.endpoints = Numbers("endpoint", lists[id].endpoints)
      /\ f.dependencies = Numbers("dependency", lists[id].dependencies)
      /\ f.functions = Numbers("function", lists[id].callers \cup lists[id].callees)
  BY DEF FunctionEntity
<1> HIDE DEF A, B, C, D, f
<1>4. /\ f.endpoints = Numbers("endpoint", A) /\ f.dependencies = Numbers("dependency", B)
      /\ f.functions = Numbers("function", C \cup D)
  BY <1>2, <1>3
<1>5. Numbers("endpoint", A) = {j \in DOMAIN endpoints : endpoints[j].registers.fn = id}
  BY NumbersOfEntities DEF Numbers, A, EndpointIDs
<1>6. Numbers("dependency", B) = {j \in DOMAIN dependencies : dependencies[j].fn = id}
  BY NumbersOfEntities DEF Numbers, B, DependencyIDs
<1> QED BY <1>3, <1>4, <1>5, <1>6 DEF f, C, D

\* Two sets of two.
LEMMA SamePair ==
  ASSUME NEW a, NEW b, NEW c, NEW d
  PROVE  {a, b} = {c, d} <=> (a = c /\ b = d) \/ (a = d /\ b = c)
OBVIOUS

LEMMA EntitiesRefer ==
  ASSUME IInv, pc = "converted"
  PROVE  /\ \A j \in DOMAIN endpoints : /\ EndpointEntity(j).id = j
                                        /\ EndpointEntity(j).fn \in DOMAIN records
                                        /\ records[EndpointEntity(j).fn].id = endpoints[j].registers.fn
         /\ \A j \in DOMAIN dependencies : /\ DependencyEntity(j).id = j
                                           /\ DependencyEntity(j).fn \in DOMAIN records
                                           /\ records[DependencyEntity(j).fn].id = dependencies[j].fn
         /\ \A j \in DOMAIN edges :
              LET e == EdgeEntity(j)
              IN  /\ e.id = j /\ e.resolved = edges[j].resolved
                  /\ e.caller \in DOMAIN records /\ records[e.caller].id = edges[j].caller
                  /\ e.resolved => /\ e.callee \in DOMAIN records
                                   /\ records[e.callee].id = edges[j].callee
                  /\ ~e.resolved => e.callee = NoId
<1>1. \A id \in DOMAIN lists : /\ Number("function", id) \in DOMAIN records
                               /\ records[Number("function", id)].id = id
  BY NumbersOfEntities
<1>2. ASSUME NEW j \in DOMAIN endpoints
      PROVE  /\ EndpointEntity(j).id = j /\ EndpointEntity(j).fn \in DOMAIN records
             /\ records[EndpointEntity(j).fn].id = endpoints[j].registers.fn
  <2>1. endpoints[j].registers.fn \in DOMAIN lists
    BY AllWalked DEF Registered
  <2>2. EndpointEntity(j).id = j /\ EndpointEntity(j).fn = Number("function", endpoints[j].registers.fn)
    BY DEF EndpointEntity
  <2> QED BY <1>1, <2>1, <2>2
<1>3. ASSUME NEW j \in DOMAIN dependencies
      PROVE  /\ DependencyEntity(j).id = j /\ DependencyEntity(j).fn \in DOMAIN records
             /\ records[DependencyEntity(j).fn].id = dependencies[j].fn
  <2>1. dependencies[j].fn \in DOMAIN lists
    BY UsersAreCollected
  <2>2. DependencyEntity(j).id = j /\ DependencyEntity(j).fn = Number("function", dependencies[j].fn)
    BY DEF DependencyEntity
  <2> QED BY <1>1, <2>1, <2>2
<1>4. ASSUME NEW j \in DOMAIN edges
      PROVE  LET e == EdgeEntity(j)
             IN  /\ e.id = j /\ e.resolved = edges[j].resolved
                 /\ e.caller \in DOMAIN records /\ records[e.caller].id = edges[j].caller
                 /\ e.resolved => /\ e.callee \in DOMAIN records
                                  /\ records[e.callee].id = edges[j].callee
                 /\ ~e.resolved => e.callee = NoId
  <2> DEFINE e == EdgeEntity(j)
  <2>1. /\ e.id = j /\ e.resolved = edges[j].resolved
        /\ e.caller = Number("function", edges[j].caller)
        /\ e.callee = Number("function", edges[j].callee)
    BY DEF EdgeEntity
  <2> HIDE DEF e
  <2>2. /\ edges[j].caller \in DOMAIN lists /\ edges[j].resolved = (edges[j].callee # NoFunction)
        /\ edges[j].resolved => edges[j].callee \in DOMAIN lists
    BY CallersAreCollected
  <2>3. Number("function", NoFunction) = NoId
    BY DEF Number
  <2>4. /\ e.id = j /\ e.resolved = edges[j].resolved
        /\ e.caller \in DOMAIN records /\ records[e.caller].id = edges[j].caller
        /\ e.resolved => e.callee \in DOMAIN records /\ records[e.callee].id = edges[j].callee
        /\ ~e.resolved => e.callee = NoId
    BY <1>1, <2>1, <2>2, <2>3
  <2> QED BY <2>4 DEF e
<1> QED BY <1>2, <1>3, <1>4

\* The IDs of the document by kind.
IDsIn(doc) == [k \in EntityKinds |-> {e.id : e \in Range(doc[k])}]

LEMMA IDsInDocument ==
  ASSUME IInv, pc = "converted"
  PROVE  /\ IDsIn(Document)["function"] = DOMAIN records
         /\ IDsIn(Document)["endpoint"] = DOMAIN endpoints
         /\ IDsIn(Document)["dependency"] = DOMAIN dependencies
<1>1. /\ IDsIn(Document)["function"] = {e.id : e \in Range(Document.function)}
      /\ IDsIn(Document)["endpoint"] = {e.id : e \in Range(Document.endpoint)}
      /\ IDsIn(Document)["dependency"] = {e.id : e \in Range(Document.dependency)}
  BY DEF IDsIn, EntityKinds
<1>2. {e.id : e \in Range(Document.function)} = DOMAIN records
  <2>1. \A i \in DOMAIN records : FunctionEntity(i).id = i
    BY FunctionRefersTo
  <2> QED BY <2>1, RangesOfDocument
<1>3. {e.id : e \in Range(Document.endpoint)} = DOMAIN endpoints
  BY EntitiesRefer, RangesOfDocument
<1>4. {e.id : e \in Range(Document.dependency)} = DOMAIN dependencies
  BY EntitiesRefer, RangesOfDocument
<1> QED BY <1>1, <1>2, <1>3, <1>4

LEMMA NothingDangles ==
  ASSUME IInv, pc = "converted"
  PROVE  Dangling(Document, IDsIn(Document)) = {}
<1> DEFINE doc == Document
           known == IDsIn(Document)
<1>1. /\ known["function"] = DOMAIN records /\ known["endpoint"] = DOMAIN endpoints
      /\ known["dependency"] = DOMAIN dependencies
  BY IDsInDocument
<1> HIDE DEF known
<1>2. ASSUME NEW x \in Range(doc["function"])
      PROVE  Unresolved("function", x, known) = {}
  <2>1. PICK i \in DOMAIN records : x = FunctionEntity(i)
    BY <1>2, RangesOfDocument
  <2>2. /\ x.endpoints \subseteq DOMAIN endpoints /\ x.dependencies \subseteq DOMAIN dependencies
        /\ x.functions = Numbers("function", CallerIDs(edges, records[i].id) \cup CalleeIDs(edges, records[i].id))
    BY <2>1, FunctionRefersTo
  <2>3. \A id \in CallerIDs(edges, records[i].id) \cup CalleeIDs(edges, records[i].id) : id \in DOMAIN lists
    BY CallersAreCollected DEF CallerIDs, CalleeIDs
  <2>4. x.functions \subseteq DOMAIN records
    BY <2>2, <2>3, NumbersOfEntities DEF Numbers
  <2> QED BY <1>1, <2>2, <2>4 DEF Unresolved
<1>3. ASSUME NEW x \in Range(doc["endpoint"])
      PROVE  Unresolved("endpoint", x, known) = {}
  <2>1. PICK i \in DOMAIN endpoints : x = EndpointEntity(i)
    BY <1>3, RangesOfDocument
  <2>2. x.fn \in DOMAIN records
    BY <2>1, EntitiesRefer
  <2> QED BY <1>1, <2>2 DEF Unresolved
<1>4. ASSUME NEW x \in Range(doc["dependency"])
      PROVE  Unresolved("dependency", x, known) = {}
  <2>1. PICK i \in DOMAIN dependencies : x = DependencyEntity(i)
    BY <1>4, RangesOfDocument
  <2>2. x.fn \in DOMAIN records
    BY <2>1, EntitiesRefer
  <2> QED BY <1>1, <2>2 DEF Unresolved
<1>5. ASSUME NEW x \in Range(doc["edge"])
      PROVE  Unresolved("edge", x, known) = {}
  <2>1. PICK i \in DOMAIN edges : x = EdgeEntity(i)
    BY <1>5, RangesOfDocument
  <2>2. /\ x.caller \in DOMAIN records /\ (x.resolved => x.callee \in DOMAIN records)
        /\ (~x.resolved => x.callee = NoId)
    BY <2>1, EntitiesRefer
  <2>3. Callees(x) \subseteq DOMAIN records
    BY <2>2 DEF Callees
  <2> QED BY <1>1, <2>2, <2>3 DEF Unresolved
<1>6. \A k \in EntityKinds : \A x \in Range(doc[k]) : Unresolved(k, x, known) = {}
  BY <1>2, <1>3, <1>4, <1>5 DEF EntityKinds
<1> HIDE DEF doc
<1>7. Dangling(doc, known) = {}
  BY <1>6 DEF Dangling
<1> QED BY <1>7 DEF doc, known

\* The other end of its resolved calls.
LEMMA FunctionsAtTheOtherEnd ==
  ASSUME IInv, pc = "converted", NEW i \in DOMAIN records
  PROVE  Numbers("function", CallerIDs(edges, records[i].id) \cup CalleeIDs(edges, records[i].id))
           = {j \in DOMAIN records :
                \E m \in DOMAIN edges : /\ edges[m].resolved
                                        /\ {EdgeEntity(m).caller, EdgeEntity(m).callee} = {i, j}}
<1> DEFINE id == records[i].id
           ends == {j \in DOMAIN records :
                      \E m \in DOMAIN edges : /\ edges[m].resolved
                                              /\ {EdgeEntity(m).caller, EdgeEntity(m).callee} = {i, j}}
           numbers == Numbers("function", CallerIDs(edges, id) \cup CalleeIDs(edges, id))
<1>1. \A j, k \in DOMAIN records : records[j].id = records[k].id => j = k
  BY DEF IInv, FunctionsInv, Collected
<1>2. \A m \in DOMAIN edges :
        edges[m].resolved =>
          /\ EdgeEntity(m).caller \in DOMAIN records /\ EdgeEntity(m).callee \in DOMAIN records
          /\ records[EdgeEntity(m).caller].id = edges[m].caller
          /\ records[EdgeEntity(m).callee].id = edges[m].callee
          /\ EdgeEntity(m).caller = Number("function", edges[m].caller)
          /\ EdgeEntity(m).callee = Number("function", edges[m].callee)
  <2>1. \A m : /\ EdgeEntity(m).caller = Number("function", edges[m].caller)
               /\ EdgeEntity(m).callee = Number("function", edges[m].callee)
    BY DEF EdgeEntity
  <2> QED BY <2>1, EntitiesRefer
<1>3. ASSUME NEW j \in numbers
      PROVE  j \in ends
  <2>1. PICK m \in DOMAIN edges :
          /\ edges[m].resolved
          /\ \/ edges[m].callee = id /\ j = Number("function", edges[m].caller)
             \/ edges[m].caller = id /\ j = Number("function", edges[m].callee)
    BY <1>3 DEF Numbers, CallerIDs, CalleeIDs
  <2>2. j \in DOMAIN records /\ {EdgeEntity(m).caller, EdgeEntity(m).callee} = {i, j}
    <3>1. CASE edges[m].callee = id /\ j = Number("function", edges[m].caller)
      BY <1>1, <1>2, <2>1, <3>1
    <3>2. CASE edges[m].caller = id /\ j = Number("function", edges[m].callee)
      BY <1>1, <1>2, <2>1, <3>2
    <3> QED BY <2>1, <3>1, <3>2
  <2> QED BY <2>1, <2>2
<1>4. ASSUME NEW j \in ends
      PROVE  j \in numbers
  <2>1. PICK m \in DOMAIN edges :
          edges[m].resolved /\ {EdgeEntity(m).caller, EdgeEntity(m).callee} = {i, j}
    BY <1>4
  <2>2. \/ EdgeEntity(m).caller = i /\ EdgeEntity(m).callee = j
        \/ EdgeEntity(m).caller = j /\ EdgeEntity(m).callee = i
    BY <2>1, SamePair
  <2>3. CASE EdgeEntity(m).caller = i /\ EdgeEntity(m).callee = j
    <3>1. edges[m].caller = id /\ j = Number("function", edges[m].callee)
      BY <1>2, <2>1, <2>3
    <3>2. edges[m].callee \in CalleeIDs(edges, id)
      BY <2>1, <3>1 DEF CalleeIDs
    <3> QED BY <3>1, <3>2 DEF Numbers
  <2>4. CASE EdgeEntity(m).caller = j /\ EdgeEntity(m).callee = i
    <3>1. edges[m].callee = id /\ j = Number("function", edges[m].caller)
      BY <1>2, <2>1, <2>4
    <3>2. edges[m].caller \in CallerIDs(edges, id)
      BY <2>1, <3>1 DEF CallerIDs
    <3> QED BY <3>1, <3>2 DEF Numbers
  <2> QED BY <2>2, <2>3, <2>4
<1>5. numbers = ends
  BY <1>3, <1>4
<1> QED BY <1>5

\* Every document of a scan is one the planner indexes without a violation: no
\* reference dangles, and what a function lists is what names it (convert.go).
THEOREM ScanDocumentsArePlannable == Spec => []DocumentsArePlannable
<1>1. ASSUME IInv, pc = "converted"
      PROVE  DocumentsArePlannable
  <2>1. Dangling(Document, [k \in EntityKinds |-> {e.id : e \in Range(Document[k])}]) = {}
    BY <1>1, NothingDangles DEF IDsIn
  <2>2. ASSUME NEW f \in Range(Document.function)
        PROVE  /\ f.endpoints = {e.id : e \in {x \in Range(Document.endpoint) : x.fn = f.id}}
               /\ f.dependencies = {d.id : d \in {x \in Range(Document.dependency) : x.fn = f.id}}
               /\ f.functions = {g.id : g \in {x \in Range(Document.function) :
                                    \E e \in Range(Document.edge) :
                                      e.resolved /\ {e.caller, e.callee} = {f.id, x.id}}}
    <3>1. PICK i \in DOMAIN records : f = FunctionEntity(i)
      BY <2>2, RangesOfDocument
    <3> DEFINE id == records[i].id
    <3>2. /\ f.id = i
          /\ f.endpoints = {j \in DOMAIN endpoints : endpoints[j].registers.fn = id}
          /\ f.dependencies = {j \in DOMAIN dependencies : dependencies[j].fn = id}
          /\ f.functions = Numbers("function", CallerIDs(edges, id) \cup CalleeIDs(edges, id))
      BY <1>1, <3>1, FunctionRefersTo
    <3>3. \A j, k \in DOMAIN records : records[j].id = records[k].id => j = k
      BY <1>1 DEF IInv, FunctionsInv, Collected
    <3>4. {e.id : e \in {x \in Range(Document.endpoint) : x.fn = i}}
            = {j \in DOMAIN endpoints : endpoints[j].registers.fn = id}
      <4>1. \A j \in DOMAIN endpoints : EndpointEntity(j).fn = i <=> endpoints[j].registers.fn = id
        BY <1>1, <3>3, EntitiesRefer
      <4>2. \A j \in DOMAIN endpoints : EndpointEntity(j).id = j
        BY <1>1, EntitiesRefer
      <4> HIDE DEF id
      <4> QED BY <4>1, <4>2, RangesOfDocument
    <3>5. {d.id : d \in {x \in Range(Document.dependency) : x.fn = i}}
            = {j \in DOMAIN dependencies : dependencies[j].fn = id}
      <4>1. \A j \in DOMAIN dependencies : DependencyEntity(j).fn = i <=> dependencies[j].fn = id
        BY <1>1, <3>3, EntitiesRefer
      <4>2. \A j \in DOMAIN dependencies : DependencyEntity(j).id = j
        BY <1>1, EntitiesRefer
      <4> HIDE DEF id
      <4> QED BY <4>1, <4>2, RangesOfDocument
    <3>6. {g.id : g \in {x \in Range(Document.function) :
                           \E e \in Range(Document.edge) : e.resolved /\ {e.caller, e.callee} = {i, x.id}}}
            = {j \in DOMAIN records :
                 \E m \in DOMAIN edges : /\ edges[m].resolved
                                         /\ {EdgeEntity(m).caller, EdgeEntity(m).callee} = {i, j}}
      <4>1. \A j \in DOMAIN records : FunctionEntity(j).id = j
        BY <1>1, FunctionRefersTo
      <4>2. \A m \in DOMAIN edges : EdgeEntity(m).resolved = edges[m].resolved
        BY <1>1, EntitiesRefer
      <4> DEFINE OtherEnd(j) == \E e \in Range(Document.edge) : e.resolved /\ {e.caller, e.callee} = {i, j}
      <4>3. \A j : OtherEnd(j) <=> \E m \in DOMAIN edges :
                     edges[m].resolved /\ {EdgeEntity(m).caller, EdgeEntity(m).callee} = {i, j}
        BY <4>2, RangesOfDocument
      <4> HIDE DEF OtherEnd
      <4>4. {g.id : g \in {x \in Range(Document.function) : OtherEnd(x.id)}}
              = {j \in DOMAIN records : OtherEnd(j)}
        BY <4>1, RangesOfDocument
      <4>5. {j \in DOMAIN records : OtherEnd(j)}
              = {j \in DOMAIN records :
                   \E m \in DOMAIN edges : /\ edges[m].resolved
                                           /\ {EdgeEntity(m).caller, EdgeEntity(m).callee} = {i, j}}
        BY <4>3
      <4> QED BY <4>4, <4>5 DEF OtherEnd
    <3>7. Numbers("function", CallerIDs(edges, id) \cup CalleeIDs(edges, id))
            = {j \in DOMAIN records :
                 \E m \in DOMAIN edges : /\ edges[m].resolved
                                         /\ {EdgeEntity(m).caller, EdgeEntity(m).callee} = {i, j}}
      BY <1>1, FunctionsAtTheOtherEnd
    <3> QED BY <3>2, <3>4, <3>5, <3>6, <3>7
  <2> HIDE DEF IDsIn
  <2>3. DocumentsArePlannable
    BY <2>1, <2>2 DEF DocumentsArePlannable
  <2> QED BY <2>3
<1>2. ASSUME IInv
      PROVE  DocumentsArePlannable
  BY <1>1, <1>2 DEF DocumentsArePlannable
<1> QED BY <1>2, SpecIInv, PTL
=============================================================================
