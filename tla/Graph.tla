------------------------------- MODULE Graph --------------------------------
(***************************************************************************)
(* What the SQL of csp/graph.c does to one graph: its nodes (documents of  *)
(* the collection <graph>_graph), its edges, and what get_adjacent and     *)
(* traverse find in them.  A request is one transaction.                   *)
(***************************************************************************)
EXTENDS Integers, Sequences, FiniteSets

CONSTANTS Nodes,      \* uuids (a deleted one is free again, to bound them)
          Names,      \* names of nodes
          Labels,     \* labels that clients give
          NoName, Absent, Null, NotGiven,
          MaxPairs,   \* bound: ends in one request
          MaxEdges    \* bound: edges in the graph

Unlabelled == ""      \* what create_edge writes for a missing label
AnyLabel   == "%"     \* what delete_edge looks for when none is given

ASSUME ConstantsAssumption ==
  /\ Unlabelled \notin Labels /\ NoName \notin Names /\ Absent \notin Names
  /\ Null \notin Nodes

\* Names are strings of a length that memory bounds; there is at least one.
ASSUME FiniteAssumption == IsFiniteSet(Nodes) /\ IsFiniteSet(Names) /\ Names # {}

VARIABLES exists,   \* the graph was created
          name,     \* per node, its name, NoName, or Absent
          edges,    \* a row without an end is kept once
          posted    \* history: a client has posted SQL of its own

vars == <<exists, name, edges, posted>>

Edge == [a : Nodes \cup {Null}, b : Nodes \cup {Null}, label : Labels \cup {Unlabelled}]

Present == {n \in Nodes : name[n] # Absent}

Init ==
  /\ exists = FALSE /\ posted = FALSE /\ edges = {}
  /\ name = [n \in Nodes |-> Absent]

\* A second one of the name is refused, with all its tables and indexes.
create_graph ==
  /\ ~exists /\ exists' = TRUE
  /\ UNCHANGED <<name, edges, posted>>

delete_graph ==
  /\ exists /\ exists' = FALSE
  /\ name' = [n \in Nodes |-> Absent] /\ edges' = {}
  /\ UNCHANGED posted

-----------------------------------------------------------------------------
(* Nodes, by the document endpoints.                                       *)

create_document(n) ==
  /\ exists /\ name[n] = Absent
  /\ \E m \in Names \cup {NoName} : name' = [name EXCEPT ![n] = m]
  /\ UNCHANGED <<exists, edges, posted>>

set_document(n) ==
  /\ n \in Present
  /\ \E m \in Names : name' = [name EXCEPT ![n] = m]
  /\ UNCHANGED <<exists, edges, posted>>

\* Mutant: without ON DELETE CASCADE.
delete_document_alone(n) ==
  /\ n \in Present
  /\ name' = [name EXCEPT ![n] = Absent]
  /\ UNCHANGED <<exists, edges, posted>>

delete_document(n) ==
  /\ n \in Present
  /\ name' = [name EXCEPT ![n] = Absent]
  /\ edges' = {e \in edges : e.a # n /\ e.b # n}
  /\ UNCHANGED <<exists, posted>>

-----------------------------------------------------------------------------
(* Edges.  Both ends must be arrays: no uuid by itself is accepted, and a  *)
(* null is dereferenced.                                                   *)

Ends == UNION {[1..k -> Nodes] : k \in 1..MaxPairs}

\* The end that goes with from[i]: the arrays need not be equally long.
Mate(to, i, otherwise) == IF i <= Len(to) THEN to[i] ELSE otherwise

\* REFERENCES, UNIQUE, which takes no two nulls for equal, and CHECK.
Insertable(old, e) ==
  /\ {e.a, e.b} \subseteq Present \cup {Null}
  /\ e.a # e.b \/ e.a = Null
  /\ Null \in {e.a, e.b} \/ \A f \in old : f.a # e.a \/ f.b # e.b

\* Mutant: an extra `to` starts nowhere.
InsertedAll(from, to, label) ==
  [i \in 1..(IF Len(to) > Len(from) THEN Len(to) ELSE Len(from)) |->
     [a |-> Mate(from, i, Null), b |-> Mate(to, i, Null), label |-> label]]

Inserted(from, to, label) ==
  [i \in 1..Len(from) |-> [a |-> from[i], b |-> Mate(to, i, Null), label |-> label]]

\* One INSERT per pair; one that is refused takes all with it.
create_edge ==
  \E from, to \in Ends, label \in Labels \cup {Unlabelled} :
    LET new == Inserted(from, to, label)
        Before(i) == edges \cup {new[j] : j \in 1..(i - 1)}
        all == edges \cup {new[i] : i \in DOMAIN new}
    IN  /\ exists
        /\ \A i \in DOMAIN new : Insertable(Before(i), new[i])
        /\ Cardinality(all) <= MaxEdges
        /\ edges' = all
        /\ UNCHANGED <<exists, name, posted>>

Deleted(e, from, to, label) ==
  \E i \in 1..Len(from) :
    /\ e.a = from[i]
    /\ Mate(to, i, NotGiven) \in {e.b, NotGiven}
    /\ e.label = label

\* A label given is never empty; '=' takes '%' as it stands.
delete_edge ==
  /\ exists
  /\ \E from, to \in Ends, label \in Labels \cup {AnyLabel} :
       edges' = {e \in edges : ~Deleted(e, from, to, label)}
  /\ UNCHANGED <<exists, name, posted>>

\* POST _query: a client's own SQL puts an edge in, as the table permits it, or
\* takes some out; an UPDATE does both.
post_query ==
  /\ exists
  /\ \/ \E e \in Edge :
          /\ Insertable(edges, e) /\ Cardinality(edges) < MaxEdges
          /\ edges' = edges \cup {e}
     \/ edges' \in SUBSET edges
  /\ posted' = TRUE
  /\ UNCHANGED <<exists, name>>

-----------------------------------------------------------------------------
(* Queries.  Null is the null uuid, NotGiven a label that is not given.    *)

Labelled(label) == {e \in edges : label \in {e.label, NotGiven}}

get_adjacent(from, label) == {e.b : e \in {f \in Labelled(label) : f.a = from}} \ {Null}

\* name = ANY(path), in three values.
InPath(m, path) ==
  IF m # NoName /\ \E i \in 1..Len(path) : path[i] = m THEN "true"
  ELSE IF m = NoName \/ \E i \in 1..Len(path) : path[i] = NoName THEN "null"
  ELSE "false"

Start(n) == [id |-> n, depth |-> 1, path |-> <<name[n]>>, nodes |-> <<n>>, cycle |-> "false"]

\* Mutant: cycle is compared by the node before only.
ExtendedLast(r, n) ==
  [id |-> n, depth |-> r.depth + 1, path |-> Append(r.path, name[n]),
   nodes |-> Append(r.nodes, n), cycle |-> InPath(name[n], <<name[r.id]>>)]

Extended(r, n) ==
  [id |-> n, depth |-> r.depth + 1, path |-> Append(r.path, name[n]),
   nodes |-> Append(r.nodes, n), cycle |-> InPath(name[n], r.path)]

\* Mutant: the label is for the first edge.
NextRowsAnyLabel(rows, label) ==
  UNION {{Extended(r, n) : n \in get_adjacent(r.id, NotGiven)} :
         r \in {q \in rows : q.cycle = "false"}}

NextRows(rows, label) ==
  UNION {{Extended(r, n) : n \in get_adjacent(r.id, label)} :
         r \in {q \in rows : q.cycle = "false"}}

\* The rows of each depth, as WITH RECURSIVE computes them.
MaxDepth == Cardinality(Names) + 2
Search(from, label) ==
  LET rows[d \in 1..MaxDepth] ==
        IF d = 1 THEN {Start(n) : n \in get_adjacent(from, label)}
        ELSE NextRows(rows[d - 1], label)
  IN  rows

traverse(from, label) ==
  LET rows == Search(from, label) IN UNION {rows[d] : d \in 1..MaxDepth}
-----------------------------------------------------------------------------
Next ==
  \/ create_graph \/ delete_graph \/ create_edge \/ delete_edge \/ post_query
  \/ \E n \in Nodes : create_document(n) \/ set_document(n) \/ delete_document(n)

Spec == Init /\ [][Next]_vars
-----------------------------------------------------------------------------
(* An edge's ends are nodes of the graph, none is its own end, and there   *)
(* is one edge from a node to another.                                     *)
TypeOK ==
  /\ exists \in BOOLEAN /\ posted \in BOOLEAN
  /\ name \in [Nodes -> Names \cup {NoName, Absent}]
  /\ edges \subseteq Edge
  /\ ~exists => Present = {} /\ edges = {}
  /\ \A e \in edges : Insertable(edges \ {e}, e)

Froms  == Present \cup {Null}
Filter == Labels \cup {NotGiven}

\* A walk as a reader would define it: along edges, with no name met twice,
\* and none missing, before its last node.
Walk(w, f, l) ==
  /\ w[1] \in get_adjacent(f, l)
  /\ \A i \in 1..(Len(w) - 1) : w[i + 1] \in get_adjacent(w[i], l)
  /\ \A i, j \in 1..(Len(w) - 1) : i # j => name[w[i]] # name[w[j]] /\ name[w[i]] # NoName

(* traverse lists the walks from the start, each once: a node behind two   *)
(* of one name, or behind one without a name that is not the first, is     *)
(* not found, every other one is (graph.c:240-276).                        *)
TraverseListsWalks ==
  \A f \in Froms, l \in Filter :
    {r.nodes : r \in traverse(f, l)} =
      {w \in UNION {[1..k -> Present] : k \in 1..(MaxDepth - 1)} : Walk(w, f, l)}

\* Nodes at most d edges from f.
Near(f, l) ==
  LET near[d \in 1..Cardinality(Nodes)] ==
        IF d = 1 THEN get_adjacent(f, l)
        ELSE near[d - 1] \cup UNION {get_adjacent(n, l) : n \in near[d - 1]}
  IN  near

DistinctNames ==
  /\ \A n \in Present : name[n] # NoName
  /\ \A n, m \in Present : n # m => name[n] # name[m]

(* With a name of its own for every node, traverse finds all nodes that    *)
(* can be reached, each first at its distance (`ORDER BY depth`,           *)
(* graph.c:278-282).                                                       *)
NearestFirst ==
  DistinctNames =>
    \A f \in Froms, l \in Filter, d \in 1..Cardinality(Nodes) :
      {r.id : r \in {q \in traverse(f, l) : q.depth <= d}} = Near(f, l)[d]

(* Both queries accept no start but null (no uuid passes isUUID), and the  *)
(* edge endpoint makes no edge that starts there: until a client writes    *)
(* one in SQL they find nothing (graph.c:105-115, 172-182, 468-491).        *)
NothingFromNull ==
  ~posted => \A l \in Filter : get_adjacent(Null, l) = {} /\ traverse(Null, l) = {}
=============================================================================
