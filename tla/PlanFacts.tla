------------------------------ MODULE PlanFacts ------------------------------
(***************************************************************************)
(* Facts about the items a sub-planner makes of its entities, which the    *)
(* proofs about the planner and about the dashboard rest on.               *)
(***************************************************************************)
EXTENDS Plans, TLAPS

LEMMA SubPlannerFacts ==
  /\ \A s \in SubPlanners : SignalOf[s] \in Signals /\ SourceOf[s] \in EntityKinds
  /\ \A s, t \in SubPlanners : SignalOf[s] = SignalOf[t] /\ SourceOf[s] = SourceOf[t] => s = t
  /\ Disambiguated \subseteq SubPlanners
BY DEF SubPlanners, SignalOf, SourceOf, Signals, EntityKinds, Disambiguated

\* Every item of an entity is about it; those of one name are one.
ItemsOf(s, e, items) ==
  /\ \A x \in items :
       /\ x = [signal |-> SignalOf[s], target |-> Target(SourceOf[s], e.id),
               purpose |-> x.purpose, base |-> x.base, suffix |-> NoId]
  /\ s \in Disambiguated => \A x, y \in items : x.base = y.base => x = y

LEMMA PlanOfItems ==
  ASSUME NEW s \in SubPlanners, NEW in, NEW e
  PROVE  ItemsOf(s, e, PlanOf(s, in, e).items)
<1> USE DEF ItemsOf, Unsupported, Skip, Planned, Item, Nothing
<1>1. CASE s = "endpoint_metrics"
  BY <1>1 DEF PlanOf, EndpointMetrics, SignalOf, SourceOf, Disambiguated, SubPlanners
<1>2. CASE s = "dependency_metrics"
  <2>1. SignalOf[s] = "metrics" /\ SourceOf[s] = "dependency"
    BY <1>2 DEF SignalOf, SourceOf, SubPlanners
  <2>2. PlanOf(s, in, e) = DependencyMetrics(in.doc, in.policy, e)
    BY <1>2 DEF PlanOf
  <2> QED
    BY <2>1, <2>2 DEF DependencyMetrics
<1>3. CASE s = "root_spans"
  BY <1>3 DEF PlanOf, RootSpan, SignalOf, SourceOf, SubPlanners
<1>4. CASE s = "child_spans"
  BY <1>4 DEF PlanOf, ChildSpan, SignalOf, SourceOf, SubPlanners
<1>5. CASE s = "internal_spans"
  BY <1>5 DEF PlanOf, InternalSpan, SignalOf, SourceOf, SubPlanners
<1>6. CASE s = "endpoint_logs"
  BY <1>6 DEF PlanOf, EndpointLogs, Redacting, Events, SignalOf, SourceOf, Disambiguated, SubPlanners
<1>7. CASE s = "dependency_logs"
  BY <1>7 DEF PlanOf, DependencyLogs, Redacting, Events, SignalOf, SourceOf, Disambiguated, SubPlanners
<1> QED
  BY <1>1, <1>2, <1>3, <1>4, <1>5, <1>6, <1>7 DEF SubPlanners
------------------------------------------------------------------------------
(* Disambiguated names *)

Renamed(y, n) ==
  [signal |-> y.signal, target |-> y.target, purpose |-> y.purpose, base |-> y.base, suffix |-> n]

LEMMA RenamedItem ==
  ASSUME NEW signal, NEW target, NEW purpose, NEW base, NEW suffix, NEW n
  PROVE  LET y == [signal |-> signal, target |-> target, purpose |-> purpose,
                   base |-> base, suffix |-> suffix]
         IN  [y EXCEPT !.suffix = n] = Renamed(y, n)
BY DEF Renamed

\* An item of the whole contribution is an entity's, up to its suffix.
LEMMA WholeItems ==
  ASSUME NEW s \in SubPlanners, NEW in, NEW x \in Whole(s, in)
  PROVE  \E e, y :
           /\ e \in Range(Entities(s, in)) /\ y \in PlanOf(s, in, e).items
           /\ x = Renamed(y, x.suffix)
           /\ s \notin Disambiguated => x.suffix = NoId
           /\ s \in Disambiguated =>
                x.suffix = IF Yields(UNION {PlanOf(s, in, d).items : d \in Range(Entities(s, in))}, y)
                             THEN e.id ELSE NoId
<1> DEFINE items == UNION {PlanOf(s, in, d).items : d \in Range(Entities(s, in))}
<1>1. ASSUME NEW e \in Range(Entities(s, in)), NEW y \in PlanOf(s, in, e).items
      PROVE  /\ y = [signal |-> SignalOf[s], target |-> Target(SourceOf[s], e.id),
                     purpose |-> y.purpose, base |-> y.base, suffix |-> NoId]
             /\ y.target.id = e.id
  BY PlanOfItems DEF ItemsOf, Target
<1>2. CASE s \notin Disambiguated
  <2>1. PICK e \in Range(Entities(s, in)) : x \in PlanOf(s, in, e).items
    BY <1>2 DEF Whole
  <2>2. x.suffix = NoId /\ x = Renamed(x, x.suffix)
    BY <1>1, <2>1 DEF Renamed
  <2> QED
    BY <1>2, <2>1, <2>2
<1>3. CASE s \in Disambiguated
  <2>1. PICK y \in items : x = [y EXCEPT !.suffix = IF Yields(items, y) THEN y.target.id ELSE NoId]
    BY <1>3 DEF Whole, Disambiguate
  <2>2. PICK e \in Range(Entities(s, in)) : y \in PlanOf(s, in, e).items
    BY <2>1
  <2> DEFINE n == IF Yields(items, y) THEN y.target.id ELSE NoId
  <2>3. y.target.id = e.id /\ x = [y EXCEPT !.suffix = n]
    BY <1>1, <2>1, <2>2
  <2>4. [y EXCEPT !.suffix = n] = Renamed(y, n)
    <3> HIDE DEF n
    <3> DEFINE r == [signal |-> SignalOf[s], target |-> Target(SourceOf[s], e.id),
                     purpose |-> y.purpose, base |-> y.base, suffix |-> NoId]
    <3>1. y = r
      BY <1>1, <2>2
    <3>2. [r EXCEPT !.suffix = n] = Renamed(r, n)
      BY RenamedItem
    <3> HIDE DEF r
    <3> QED
      BY <3>1, <3>2, Zenon
  <2>5. x = Renamed(y, n) /\ x.suffix = n
    BY <2>3, <2>4 DEF Renamed
  <2>6. n = IF Yields(items, y) THEN e.id ELSE NoId
    BY <2>3
  <2> HIDE DEF n
  <2> QED
    BY <1>3, <2>2, <2>5, <2>6
<1> QED
  BY <1>2, <1>3
==============================================================================
