--------------------------- MODULE AnalyzedDocument ---------------------------
(***************************************************************************)
(* The document the Go analyzer hands to the planner, and the references   *)
(* between its entities: a function lists its endpoints, dependencies,     *)
(* callers and callees; endpoints and dependencies name their function,    *)
(* call edges their caller and, when resolved, their callee.               *)
(*                                                                         *)
(* IDs are numbers, 0 standing for the empty ID; their order stands for    *)
(* the lexicographic order of the real ones.  Missing stands for any       *)
(* absent or unusable text.                                                *)
(***************************************************************************)
EXTENDS Naturals, Functions

Missing == "missing"
NoId == 0

EntityKinds == {"function", "endpoint", "dependency", "edge"}

FunctionOf(doc, id) == CHOOSE f \in Range(doc.function) : f.id = id

\* What the decoder of a document guarantees: typed fields and nothing else.  The
\* resolution of a call edge is resolved, unresolved or not specified.
EntityFields ==
  [function   |-> [id : Nat, name : STRING, norm : STRING, endpoints : SUBSET Nat,
                   dependencies : SUBSET Nat, functions : SUBSET Nat],
   endpoint   |-> [id : Nat, kind : STRING, fn : Nat, op : STRING, route : STRING],
   dependency |-> [id : Nat, kind : STRING, fn : Nat, op : STRING, static : BOOLEAN],
   edge       |-> [id : Nat, caller : Nat, callee : Nat, specified : BOOLEAN,
                   resolved : BOOLEAN]]

Violation(code, id) == [code |-> code, id |-> id]

\* The callee an edge must have, or the one an unresolved edge guesses.
Callees(edge) ==
  IF ~edge.specified THEN {} ELSE {edge.callee} \ (IF edge.resolved THEN {} ELSE {NoId})

\* The references of one entity that the index cannot resolve.
Unresolved(kind, e, known) ==
  CASE kind = "function"   -> (e.endpoints \ known["endpoint"])
                                \cup (e.dependencies \ known["dependency"])
                                \cup (e.functions \ known["function"])
    [] kind = "edge"       -> ({e.caller} \cup Callees(e)) \ known["function"]
    [] OTHER               -> {e.fn} \ known["function"]

\* A violation for every entity with an ID that has such a reference.
Dangling(doc, known) ==
  UNION {{Violation("GEN_DANGLING_REFERENCE", e.id) :
            e \in {x \in Range(doc[k]) : x.id # NoId /\ Unresolved(k, x, known) # {}}} :
          k \in EntityKinds}

\* A violation for every call edge without a resolution.
Unspecified(doc) ==
  {Violation("GEN_INVALID_IR", e.id) : e \in {x \in Range(doc.edge) : x.id # NoId /\ ~x.specified}}
==============================================================================
