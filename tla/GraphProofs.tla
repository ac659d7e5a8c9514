---------------------------- MODULE GraphProofs -----------------------------
(* Proofs about Graph, for any nodes, names, labels and bounds.            *)
EXTENDS Graph, FiniteSetTheorems, TLAPS

-----------------------------------------------------------------------------
(* The edges as the table keeps them: rows of their type, each of which    *)
(* could be put in beside the others.                                      *)
Kept(set) == set \subseteq Edge /\ \A e \in set : Insertable(set \ {e}, e)

Typed ==
  /\ exists \in BOOLEAN /\ posted \in BOOLEAN
  /\ name \in [Nodes -> Names \cup {NoName, Absent}]
  /\ ~exists => Present = {} /\ edges = {}

LEMMA TypeParts == TypeOK <=> Typed /\ Kept(edges)
  BY DEF TypeOK, Typed, Kept

\* Less is kept when more was.
LEMMA FewerAreKept ==
  ASSUME NEW few, Kept(edges), few \subseteq edges
  PROVE  Kept(few)
  BY DEF Kept, Insertable

\* One row more is kept when the table takes it.
LEMMA OneMoreIsKept ==
  ASSUME NEW e \in Edge, Kept(edges), Insertable(edges, e)
  PROVE  Kept(edges \cup {e})
  BY DEF Kept, Insertable

\* Rows taken one after another are kept.
LEMMA RowsAreKept ==
  ASSUME Kept(edges), NEW n \in Nat, NEW new \in [1..n -> Edge],
         \A i \in 1..n : Insertable(edges \cup {new[j] : j \in 1..(i - 1)}, new[i])
  PROVE  Kept(edges \cup {new[i] : i \in 1..n})
<1> DEFINE all == edges \cup {new[i] : i \in 1..n}
           Clash(e, f) == Null \notin {e.a, e.b} /\ e.a = f.a /\ e.b = f.b
<1>1. all \subseteq Edge
  BY DEF Kept
<1>2. \A e \in edges, f \in edges : e # f => ~Clash(e, f)
  BY DEF Kept, Insertable
<1>3. \A i \in 1..n, f \in edges : ~Clash(new[i], f) /\ ~Clash(f, new[i])
  BY DEF Insertable
<1>4. \A i, j \in 1..n : i < j => ~Clash(new[j], new[i]) /\ ~Clash(new[i], new[j])
  <2> SUFFICES ASSUME NEW i \in 1..n, NEW j \in 1..n, i < j
               PROVE  ~Clash(new[j], new[i]) /\ ~Clash(new[i], new[j])
    OBVIOUS
  <2>1. i \in 1..(j - 1)
    OBVIOUS
  <2>2. new[i] \in edges \cup {new[k] : k \in 1..(j - 1)}
    BY <2>1
  <2> QED
    BY <2>2 DEF Insertable
<1>5. \A i, j \in 1..n : new[i] # new[j] => ~Clash(new[i], new[j])
  <2> SUFFICES ASSUME NEW i \in 1..n, NEW j \in 1..n, new[i] # new[j]
               PROVE  ~Clash(new[i], new[j])
    OBVIOUS
  <2>1. i < j \/ j < i
    OBVIOUS
  <2> HIDE DEF Clash
  <2> QED
    BY <2>1, <1>4
<1>6. \A e, f \in all : e # f => ~Clash(e, f)
  <2> HIDE DEF Clash
  <2> QED
    BY <1>2, <1>3, <1>5
<1>7. \A e \in all : {e.a, e.b} \subseteq Present \cup {Null} /\ (e.a # e.b \/ e.a = Null)
  BY DEF Kept, Insertable
<1> HIDE DEF all
<1>8. ASSUME NEW e \in all PROVE Insertable(all \ {e}, e)
  BY <1>6, <1>7 DEF Insertable
<1>9. Kept(all)
  BY <1>1, <1>8 DEF Kept
<1> QED
  BY <1>9 DEF all

-----------------------------------------------------------------------------
(* The steps.                                                              *)

LEMMA NodesKeepTypes ==
  ASSUME TypeOK, NEW n \in Nodes,
         create_document(n) \/ set_document(n) \/ delete_document(n)
  PROVE  TypeOK'
<1>1. Typed /\ Kept(edges)
  BY TypeParts
<1>2. CASE create_document(n) \/ set_document(n)
  <2>1. Present \subseteq Present' /\ edges' = edges
    BY <1>1, <1>2, ConstantsAssumption DEF create_document, set_document, Present, Typed
  <2>2. Typed'
    BY <1>1, <1>2 DEF create_document, set_document, Present, Typed
  <2>3. Kept(edges)'
    BY <1>1, <2>1 DEF Kept, Insertable, Edge
  <2> QED
    BY <2>2, <2>3 DEF TypeOK, Typed, Kept
<1>3. CASE delete_document(n)
  <2>1. Typed'
    BY <1>1, <1>3 DEF delete_document, Present, Typed
  <2>2. Kept(edges')
    BY <1>1, <1>3, FewerAreKept DEF delete_document
  <2>3. Present' = Present \ {n}
    BY <1>1, <1>3 DEF delete_document, Present, Typed
  <2>4. \A e \in edges' : e.a # n /\ e.b # n
    BY <1>3 DEF delete_document
  <2>5. Kept(edges)'
    BY <2>2, <2>3, <2>4 DEF Kept, Insertable, Edge
  <2> QED
    BY <2>1, <2>5 DEF TypeOK, Typed, Kept
<1> QED
  BY <1>2, <1>3

LEMMA CreatingKeepsTypes == TypeOK /\ create_edge => TypeOK'
<1> SUFFICES ASSUME TypeOK, create_edge PROVE TypeOK'
  OBVIOUS
<1>1. Typed /\ Kept(edges)
  BY TypeParts
<1>2. PICK from \in Ends, to \in Ends, label \in Labels \cup {Unlabelled} :
        /\ \A i \in DOMAIN Inserted(from, to, label) :
             Insertable(edges \cup {Inserted(from, to, label)[j] : j \in 1..(i - 1)},
                        Inserted(from, to, label)[i])
        /\ edges' = edges \cup {Inserted(from, to, label)[i] :
                                  i \in DOMAIN Inserted(from, to, label)}
  BY DEF create_edge
<1>3. PICK n \in Nat : from \in [1..n -> Nodes] /\ Len(from) = n
  <2>1. PICK n \in 1..MaxPairs : from \in [1..n -> Nodes]
    BY DEF Ends
  <2>2. n \in Nat /\ Len(from) = n
    BY <2>1
  <2> QED
    BY <2>1, <2>2
<1>4. \A i \in 1..n : Mate(to, i, Null) \in Nodes \cup {Null}
  <2>1. PICK m \in 1..MaxPairs : to \in [1..m -> Nodes]
    BY DEF Ends
  <2>2. Len(to) = m /\ m \in Nat
    BY <2>1
  <2> QED
    BY <2>1, <2>2 DEF Mate
<1> DEFINE new == Inserted(from, to, label)
<1>5. new \in [1..n -> Edge]
  BY <1>3, <1>4 DEF Inserted, Edge
<1>6. DOMAIN new = 1..n
  BY <1>5
<1>7. Kept(edges')
  <2>1. \A i \in 1..n : Insertable(edges \cup {new[j] : j \in 1..(i - 1)}, new[i])
    BY <1>2, <1>6
  <2>2. edges' = edges \cup {new[i] : i \in 1..n}
    BY <1>2, <1>6
  <2> HIDE DEF new
  <2>3. Kept(edges \cup {new[i] : i \in 1..n})
    BY <1>1, <1>3, <1>5, <2>1, RowsAreKept
  <2> QED
    BY <2>2, <2>3
<1>8. exists /\ exists' = exists /\ name' = name /\ posted' = posted
  BY DEF create_edge
<1> QED
  BY <1>1, <1>7, <1>8 DEF TypeOK, Typed, Kept, Insertable, Present

LEMMA StepKeepsTypes == TypeOK /\ [Next]_vars => TypeOK'
<1> SUFFICES ASSUME TypeOK, [Next]_vars PROVE TypeOK'
  OBVIOUS
<1>1. Typed /\ Kept(edges)
  BY TypeParts
<1>2. CASE create_graph
  BY <1>2 DEF create_graph, TypeOK, Present, Insertable
<1>3. CASE delete_graph
  <2>1. Typed' /\ edges' = {}
    BY <1>1, <1>3, ConstantsAssumption DEF delete_graph, Typed, Present
  <2> QED
    BY <2>1 DEF TypeOK, Typed
<1>4. ASSUME NEW n \in Nodes, create_document(n) \/ set_document(n) \/ delete_document(n)
      PROVE  TypeOK'
  BY <1>4, NodesKeepTypes
<1>5. CASE create_edge
  BY <1>5, CreatingKeepsTypes
<1>6. CASE delete_edge
  <2>1. edges' \subseteq edges
    BY <1>6 DEF delete_edge
  <2>2. Kept(edges')
    BY <1>1, <2>1, FewerAreKept
  <2> QED
    BY <1>1, <1>6, <2>2 DEF delete_edge, TypeOK, Typed, Kept, Insertable, Present
<1>7. CASE post_query
  <2>1. ASSUME NEW e \in Edge, Insertable(edges, e), edges' = edges \cup {e}
        PROVE  Kept(edges')
    <3>1. Kept(edges \cup {e})
      BY <1>1, <2>1, OneMoreIsKept
    <3> QED
      BY <2>1, <3>1
  <2>2. ASSUME edges' \subseteq edges PROVE Kept(edges')
    BY <1>1, <2>2, FewerAreKept
  <2>3. Kept(edges')
    BY <1>7, <2>1, <2>2 DEF post_query
  <2> QED
    BY <1>1, <1>7, <2>3 DEF post_query, TypeOK, Typed, Kept, Insertable, Present
<1>8. CASE UNCHANGED vars
  BY <1>8 DEF vars, TypeOK, Insertable, Present
<1> QED
  BY <1>2, <1>3, <1>4, <1>5, <1>6, <1>7, <1>8 DEF Next

(* The graph's tables keep their types and constraints: every edge joins   *)
(* nodes that are there, or a null, never a node with itself, and no two   *)
(* edges join the same two (graph.c:367-396).                              *)
THEOREM TypeCorrect == Spec => []TypeOK
<1>1. Init => TypeOK
  BY DEF Init, TypeOK, Present
<1> QED
  BY <1>1, StepKeepsTypes, PTL DEF Spec

-----------------------------------------------------------------------------
(* Induction, as the absence of a least counterexample.                    *)

Below == {p \in Nat \X Nat : p[1] < p[2]}

LEMMA LeastOf ==
  ASSUME NEW T \in SUBSET Nat, T # {}
  PROVE  \E x \in T : \A y \in T : x <= y
<1>1. IsWellFoundedOn(Below, Nat)
  BY NatLessThanWellFounded DEF Below, OpToRel
<1>2. PICK x \in T : \A y \in T : ~(<<y, x>> \in Below)
  BY <1>1, WFMin
<1>3. ASSUME NEW y \in T PROVE x <= y
  <2>1. x \in Nat /\ y \in Nat /\ <<y, x>> \in Nat \X Nat
    OBVIOUS
  <2>2. ~(y < x)
    BY <1>2, <2>1 DEF Below
  <2> QED
    BY <2>1, <2>2
<1> QED
  BY <1>3

\* Two functions on 1..n that begin alike and go on alike are the same.
LEMMA SameFrom ==
  ASSUME NEW n \in Nat, NEW p, NEW q, p[1] = q[1],
         \A d \in 2..n : p[d - 1] = q[d - 1] => p[d] = q[d]
  PROVE  \A d \in 1..n : p[d] = q[d]
<1> DEFINE T == {d \in 1..n : p[d] # q[d]}
<1> SUFFICES ASSUME T # {} PROVE FALSE
  OBVIOUS
<1>1. T \in SUBSET Nat
  OBVIOUS
<1>2. PICK x \in T : \A y \in T : x <= y
  BY <1>1, LeastOf
<1>3. x \in 2..n
  OBVIOUS
<1>4. x - 1 \in 1..n /\ x - 1 \notin T
  BY <1>2, <1>3
<1>5. p[x - 1] = q[x - 1]
  BY <1>4
<1> QED
  BY <1>3, <1>5

-----------------------------------------------------------------------------
(* traverse.  The rows of depth d stand for the walks of d nodes.          *)

Walks(d, f, l) == {w \in [1..d -> Present] : Walk(w, f, l)}

\* No name twice, and none missing, on the first d nodes.
Fresh(w, d) ==
  \A i, j \in 1..d : i # j => name[w[i]] # name[w[j]] /\ name[w[i]] # NoName

NamesOf(w, d) == [i \in 1..d |-> name[w[i]]]

RowOf(w, d) ==
  [id |-> w[d], depth |-> d, path |-> NamesOf(w, d), nodes |-> w,
   cycle |-> IF d = 1 THEN "false" ELSE InPath(name[w[d]], NamesOf(w, d - 1))]

RowsOf(d, f, l) == {RowOf(w, d) : w \in Walks(d, f, l)}

LEMMA AdjacentTypes ==
  ASSUME TypeOK, NEW n, NEW l
  PROVE  get_adjacent(n, l) \subseteq Present
  BY DEF TypeOK, Insertable, get_adjacent, Labelled

LEMMA PathTypes ==
  ASSUME NEW w, NEW d \in Nat
  PROVE  Len(NamesOf(w, d)) = d /\ \A i \in 1..d : NamesOf(w, d)[i] = name[w[i]]
  BY DEF NamesOf

LEMMA InPathIs ==
  ASSUME NEW w, NEW d \in Nat, NEW m
  PROVE  InPath(m, NamesOf(w, d)) = "false" <=>
           m # NoName /\ \A i \in 1..d : name[w[i]] # m /\ name[w[i]] # NoName
<1>1. Len(NamesOf(w, d)) = d /\ \A i \in 1..d : NamesOf(w, d)[i] = name[w[i]]
  BY PathTypes
<1>2. "true" # "false" /\ "null" # "false"
  OBVIOUS
<1> QED
  BY <1>1, <1>2 DEF InPath

LEMMA WalkIs ==
  ASSUME NEW d \in Nat \ {0}, NEW w \in [1..d -> Present], NEW f, NEW l
  PROVE  Walk(w, f, l) <=> /\ w[1] \in get_adjacent(f, l)
                           /\ \A i \in 1..(d - 1) : w[i + 1] \in get_adjacent(w[i], l)
                           /\ Fresh(w, d - 1)
<1>1. Len(w) = d
  OBVIOUS
<1> QED
  BY <1>1 DEF Walk, Fresh

\* A row goes on exactly when no name was met before on its walk.
LEMMA CycleIs ==
  ASSUME NEW d \in Nat \ {0}, NEW w, Fresh(w, d - 1)
  PROVE  RowOf(w, d).cycle = "false" <=> Fresh(w, d)
<1>1. CASE d = 1
  BY <1>1 DEF RowOf, Fresh
<1>2. CASE d > 1
  <2>1. RowOf(w, d).cycle = InPath(name[w[d]], NamesOf(w, d - 1))
    BY <1>2 DEF RowOf
  <2>2. RowOf(w, d).cycle = "false" <=>
          /\ name[w[d]] # NoName
          /\ \A i \in 1..(d - 1) : name[w[i]] # name[w[d]] /\ name[w[i]] # NoName
    <3>1. d - 1 \in Nat
      OBVIOUS
    <3> QED
      BY <2>1, <3>1, InPathIs
  <2>3. ASSUME Fresh(w, d)
        PROVE  /\ name[w[d]] # NoName
               /\ \A i \in 1..(d - 1) : name[w[i]] # name[w[d]] /\ name[w[i]] # NoName
    <3>1. 1 \in 1..d /\ d \in 1..d /\ d # 1
      BY <1>2
    <3>2. \A i \in 1..(d - 1) : i \in 1..d /\ i # d
      OBVIOUS
    <3> QED
      BY <2>3, <3>1, <3>2 DEF Fresh
  <2>4. ASSUME name[w[d]] # NoName,
               \A i \in 1..(d - 1) : name[w[i]] # name[w[d]] /\ name[w[i]] # NoName
        PROVE  Fresh(w, d)
    <3>1. \A i \in 1..d : i \in 1..(d - 1) \/ i = d
      OBVIOUS
    <3> QED
      BY <2>4, <3>1 DEF Fresh
  <2> QED
    BY <2>2, <2>3, <2>4
<1> QED
  BY <1>1, <1>2

LEMMA RowStarts ==
  ASSUME NEW w \in [1..1 -> Present]
  PROVE  RowOf(w, 1) = Start(w[1])
<1>1. w = <<w[1]>>
  OBVIOUS
<1>2. NamesOf(w, 1) = <<name[w[1]]>>
  BY DEF NamesOf
<1> QED
  BY <1>1, <1>2 DEF RowOf, Start

LEMMA AppendIs ==
  ASSUME NEW S, NEW d \in Nat, NEW w \in [1..d -> S], NEW n \in S
  PROVE  Append(w, n) = [i \in 1..(d + 1) |-> IF i = d + 1 THEN n ELSE w[i]]
<1> DEFINE v == Append(w, n)
<1>1. w \in Seq(S) /\ Len(w) = d
  OBVIOUS
<1>2. v \in Seq(S) /\ Len(v) = d + 1
  BY <1>1
<1>3. v[d + 1] = n /\ \A i \in 1..d : v[i] = w[i]
  BY <1>1
<1> HIDE DEF v
<1>4. v = [i \in 1..(d + 1) |-> v[i]]
  BY <1>2
<1>5. \A i \in 1..(d + 1) : v[i] = IF i = d + 1 THEN n ELSE w[i]
  BY <1>3
<1>6. [i \in 1..(d + 1) |-> v[i]] = [i \in 1..(d + 1) |-> IF i = d + 1 THEN n ELSE w[i]]
  BY <1>5
<1> QED
  BY <1>4, <1>6 DEF v

\* One node more.
More(w, d, n) == [i \in 1..(d + 1) |-> IF i = d + 1 THEN n ELSE w[i]]

LEMMA MoreTypes ==
  ASSUME NEW d \in Nat \ {0}, NEW w \in [1..d -> Present], NEW n \in Present
  PROVE  /\ More(w, d, n) \in [1..(d + 1) -> Present] /\ Append(w, n) = More(w, d, n)
         /\ More(w, d, n)[d + 1] = n /\ \A i \in 1..d : More(w, d, n)[i] = w[i]
<1>1. More(w, d, n) \in [1..(d + 1) -> Present]
  BY DEF More
<1>2. More(w, d, n)[d + 1] = n /\ \A i \in 1..d : More(w, d, n)[i] = w[i]
  BY DEF More
<1>3. Append(w, n) = [i \in 1..(d + 1) |-> IF i = d + 1 THEN n ELSE w[i]]
  BY AppendIs
<1>4. Append(w, n) = More(w, d, n)
  BY <1>3 DEF More
<1> QED
  BY <1>1, <1>2, <1>4

LEMMA RowExtends ==
  ASSUME NEW d \in Nat \ {0}, NEW w \in [1..d -> Present], NEW n \in Present
  PROVE  Extended(RowOf(w, d), n) = RowOf(More(w, d, n), d + 1)
<1> DEFINE v == More(w, d, n)
<1>1. Append(w, n) = v /\ v[d + 1] = n /\ \A i \in 1..d : v[i] = w[i]
  BY MoreTypes, ZenonT(60)
<1> HIDE DEF v
<1>2. NamesOf(v, d) = NamesOf(w, d)
  BY <1>1 DEF NamesOf
<1>3. Append(NamesOf(w, d), name[n]) = NamesOf(v, d + 1)
  <2> DEFINE p == NamesOf(w, d)
             N == {name[u] : u \in Present}
  <2>1. p \in [1..d -> N] /\ name[n] \in N
    BY DEF NamesOf
  <2>3. \A i \in 1..d : p[i] = name[v[i]]
    BY <1>1 DEF NamesOf
  <2> HIDE DEF p, N
  <2>4. Append(p, name[n]) = [i \in 1..(d + 1) |-> IF i = d + 1 THEN name[n] ELSE p[i]]
    BY <2>1, AppendIs
  <2>5. [i \in 1..(d + 1) |-> IF i = d + 1 THEN name[n] ELSE p[i]] =
          [i \in 1..(d + 1) |-> name[v[i]]]
    BY <1>1, <2>3
  <2> QED
    BY <2>4, <2>5 DEF NamesOf, p
<1>4. d + 1 # 1 /\ (d + 1) - 1 = d
  OBVIOUS
<1>5. RowOf(v, d + 1) = [id |-> n, depth |-> d + 1, path |-> NamesOf(v, d + 1), nodes |-> v,
                         cycle |-> InPath(name[n], NamesOf(v, d))]
  BY <1>1, <1>4 DEF RowOf
<1> QED
  BY <1>1, <1>2, <1>3, <1>5 DEF Extended, RowOf, v

\* A walk goes on along an edge, from a node whose name it had not met.
LEMMA WalkGrows ==
  ASSUME NEW d \in Nat \ {0}, NEW w \in [1..d -> Present], NEW n \in Present, NEW f, NEW l
  PROVE  Walk(More(w, d, n), f, l) <=>
           Walk(w, f, l) /\ Fresh(w, d) /\ n \in get_adjacent(w[d], l)
<1> DEFINE v == More(w, d, n)
<1>1. /\ v \in [1..(d + 1) -> Present] /\ v[d + 1] = n /\ \A i \in 1..d : v[i] = w[i]
  BY MoreTypes
<1> HIDE DEF v
<1>2. Walk(v, f, l) <=> /\ v[1] \in get_adjacent(f, l)
                        /\ \A i \in 1..d : v[i + 1] \in get_adjacent(v[i], l)
                        /\ Fresh(v, d)
  <2>1. d + 1 \in Nat \ {0} /\ (d + 1) - 1 = d
    OBVIOUS
  <2> QED
    BY <1>1, <2>1, WalkIs
<1>3. Walk(w, f, l) <=> /\ w[1] \in get_adjacent(f, l)
                        /\ \A i \in 1..(d - 1) : w[i + 1] \in get_adjacent(w[i], l)
                        /\ Fresh(w, d - 1)
  BY WalkIs
<1>4. v[1] = w[1]
  BY <1>1
<1>5. (\A i \in 1..d : v[i + 1] \in get_adjacent(v[i], l)) <=>
        /\ \A i \in 1..(d - 1) : w[i + 1] \in get_adjacent(w[i], l)
        /\ n \in get_adjacent(w[d], l)
  <2>1. \A i \in 1..(d - 1) : i \in 1..d /\ i + 1 \in 1..d /\ v[i + 1] = w[i + 1] /\ v[i] = w[i]
    BY <1>1
  <2>2. d \in 1..d /\ v[d + 1] = n /\ v[d] = w[d]
    BY <1>1
  <2>3. \A i \in 1..d : i \in 1..(d - 1) \/ i = d
    OBVIOUS
  <2> QED
    BY <2>1, <2>2, <2>3
<1>6. Fresh(v, d) <=> Fresh(w, d)
  BY <1>1 DEF Fresh
<1>7. Fresh(w, d) => Fresh(w, d - 1)
  BY DEF Fresh
<1> QED
  BY <1>2, <1>3, <1>4, <1>5, <1>6, <1>7 DEF v

LEMMA RowsGrow ==
  ASSUME TypeOK, NEW d \in Nat \ {0}, NEW f, NEW l
  PROVE  NextRows(RowsOf(d, f, l), l) = RowsOf(d + 1, f, l)
<1>1. ASSUME NEW x \in NextRows(RowsOf(d, f, l), l) PROVE x \in RowsOf(d + 1, f, l)
  <2>1. PICK r \in RowsOf(d, f, l) : r.cycle = "false" /\ \E n \in get_adjacent(r.id, l) : x = Extended(r, n)
    BY DEF NextRows
  <2>2. PICK n \in get_adjacent(r.id, l) : x = Extended(r, n)
    BY <2>1
  <2>3. PICK w \in Walks(d, f, l) : r = RowOf(w, d)
    BY DEF RowsOf
  <2>4. w \in [1..d -> Present] /\ Walk(w, f, l)
    BY DEF Walks
  <2>5. r.id = w[d] /\ n \in Present
    BY <2>3, AdjacentTypes DEF RowOf
  <2>6. Fresh(w, d)
    <3>1. Fresh(w, d - 1)
      BY <2>4, WalkIs
    <3> QED
      BY <2>1, <2>3, <3>1, CycleIs
  <2>7. Walk(More(w, d, n), f, l)
    BY <2>4, <2>5, <2>6, WalkGrows
  <2>8. More(w, d, n) \in [1..(d + 1) -> Present]
    BY <2>4, <2>5, MoreTypes
  <2>9. x = RowOf(More(w, d, n), d + 1)
    BY <2>2, <2>3, <2>4, <2>5, RowExtends
  <2> QED
    BY <2>7, <2>8, <2>9 DEF RowsOf, Walks
<1>2. ASSUME NEW x \in RowsOf(d + 1, f, l) PROVE x \in NextRows(RowsOf(d, f, l), l)
  <2>1. PICK v \in Walks(d + 1, f, l) : x = RowOf(v, d + 1)
    BY DEF RowsOf
  <2>2. v \in [1..(d + 1) -> Present] /\ Walk(v, f, l)
    BY DEF Walks
  <2> DEFINE w == [i \in 1..d |-> v[i]]
             n == v[d + 1]
  <2>3. w \in [1..d -> Present] /\ n \in Present
    BY <2>2
  <2>4. v = More(w, d, n)
    BY <2>2 DEF More
  <2> HIDE DEF w, n
  <2>5. Walk(w, f, l) /\ Fresh(w, d) /\ n \in get_adjacent(w[d], l)
    BY <2>2, <2>3, <2>4, WalkGrows
  <2>6. x = Extended(RowOf(w, d), n)
    BY <2>1, <2>3, <2>4, RowExtends
  <2>7. RowOf(w, d).cycle = "false" /\ RowOf(w, d).id = w[d]
    <3>1. Fresh(w, d - 1)
      BY <2>5 DEF Fresh
    <3> QED
      BY <2>5, <3>1, CycleIs DEF RowOf
  <2>8. RowOf(w, d) \in RowsOf(d, f, l)
    BY <2>3, <2>5 DEF RowsOf, Walks
  <2> QED
    BY <2>5, <2>6, <2>7, <2>8 DEF NextRows
<1> QED
  BY <1>1, <1>2

LEMMA RowsBegin ==
  ASSUME TypeOK, NEW f, NEW l
  PROVE  RowsOf(1, f, l) = {Start(n) : n \in get_adjacent(f, l)}
<1>1. ASSUME NEW x \in RowsOf(1, f, l) PROVE x \in {Start(n) : n \in get_adjacent(f, l)}
  <2>1. PICK w \in [1..1 -> Present] : Walk(w, f, l) /\ x = RowOf(w, 1)
    BY DEF RowsOf, Walks
  <2>2. w[1] \in get_adjacent(f, l)
    BY <2>1 DEF Walk
  <2> QED
    BY <2>1, <2>2, RowStarts
<1>2. ASSUME NEW n \in get_adjacent(f, l) PROVE Start(n) \in RowsOf(1, f, l)
  <2> DEFINE w == [i \in 1..1 |-> n]
  <2>1. w \in [1..1 -> Present] /\ w[1] = n
    BY AdjacentTypes
  <2> HIDE DEF w
  <2>2. Walk(w, f, l)
    <3>1. Fresh(w, 1 - 1) /\ \A i \in 1..(1 - 1) : w[i + 1] \in get_adjacent(w[i], l)
      BY DEF Fresh
    <3>2. 1 \in Nat \ {0} /\ w[1] \in get_adjacent(f, l)
      BY <2>1
    <3> QED
      BY <2>1, <3>1, <3>2, WalkIs, Zenon
  <2> QED
    BY <2>1, <2>2, RowStarts DEF RowsOf, Walks
<1> QED
  BY <1>1, <1>2

LEMMA SizesOf ==
  /\ Cardinality(Names) \in Nat \ {0} /\ MaxDepth = Cardinality(Names) + 2 /\ MaxDepth \in Nat
  /\ Cardinality(Nodes) \in Nat
<1>1. Cardinality(Names) \in Nat /\ Cardinality(Nodes) \in Nat
  BY FiniteAssumption, FS_CardinalityType
<1>2. Cardinality(Names) # 0
  BY FiniteAssumption, FS_EmptySet
<1> QED
  BY <1>1, <1>2 DEF MaxDepth

\* As many fresh nodes as there are names, at most.
LEMMA FreshIsShort ==
  ASSUME TypeOK, NEW d \in Nat, d > 1, NEW w, \A i \in 1..d : w[i] \in Present, Fresh(w, d)
  PROVE  d <= Cardinality(Names)
<1> DEFINE p == [i \in 1..d |-> name[w[i]]]
<1>1. ASSUME NEW i \in 1..d PROVE name[w[i]] \in Names
  <2>1. PICK j \in 1..d : j # i
    <3>1. 1 \in 1..d /\ d \in 1..d /\ (i # 1 \/ i # d)
      OBVIOUS
    <3> QED
      BY <3>1
  <2>2. name[w[i]] # NoName
    BY <2>1 DEF Fresh
  <2>3. name[w[i]] # Absent /\ name[w[i]] \in Names \cup {NoName, Absent}
    BY DEF TypeOK, Present
  <2> QED
    BY <2>2, <2>3
<1>2. p \in [1..d -> Names]
  BY <1>1
<1>3. IsFiniteSet(1..d) /\ Cardinality(1..d) = d
  <2>1. 1 \in Int /\ d \in Int /\ ~(1 > d) /\ (d - 1) + 1 = d
    OBVIOUS
  <2> QED
    BY <2>1, FS_Interval
<1>4. ASSUME d > Cardinality(Names) PROVE FALSE
  <2>1. Cardinality(Names) < Cardinality(1..d)
    BY <1>3, <1>4, SizesOf
  <2> HIDE DEF p
  <2>2. \E x, y \in 1..d : x # y /\ p[x] = p[y]
    BY <1>2, <1>3, <2>1, FiniteAssumption, FS_PigeonHole, Zenon
  <2> QED
    BY <2>2 DEF Fresh, p
<1> QED
  BY <1>4, SizesOf

LEMMA NoneLeft ==
  ASSUME TypeOK, NEW f, NEW l
  PROVE  Walks(MaxDepth, f, l) = {}
<1> SUFFICES ASSUME NEW w \in Walks(MaxDepth, f, l) PROVE FALSE
  OBVIOUS
<1>1. PICK d \in Nat : d = MaxDepth /\ d >= 3
  BY SizesOf
<1>2. w \in [1..d -> Present] /\ Walk(w, f, l)
  BY <1>1 DEF Walks
<1>3. Fresh(w, d - 1)
  <2>1. d \in Nat \ {0}
    BY <1>1
  <2> QED
    BY <1>2, <2>1, WalkIs
<1>4. d - 1 <= Cardinality(Names)
  <2>1. d - 1 \in Nat /\ d - 1 > 1 /\ \A i \in 1..(d - 1) : w[i] \in Present
    BY <1>1, <1>2
  <2> QED
    BY <1>3, <2>1, FreshIsShort
<1> QED
  BY <1>1, <1>4, SizesOf

LEMMA SearchIs ==
  ASSUME TypeOK, NEW f, NEW l
  PROVE  \A d \in 1..MaxDepth : Search(f, l)[d] = RowsOf(d, f, l)
<1> DEFINE First == {Start(n) : n \in get_adjacent(f, l)}
           g == [d \in 1..MaxDepth |-> RowsOf(d, f, l)]
           h == Search(f, l)
<1>1. PICK N \in Nat : N = MaxDepth /\ N >= 3
  BY SizesOf
<1>2. g = [d \in 1..MaxDepth |-> IF d = 1 THEN First ELSE NextRows(g[d - 1], l)]
  <2>1. ASSUME NEW d \in 1..MaxDepth
        PROVE  RowsOf(d, f, l) = IF d = 1 THEN First ELSE NextRows(g[d - 1], l)
    <3>1. CASE d = 1
      BY <3>1, RowsBegin
    <3>2. CASE d # 1
      <4>1. d - 1 \in Nat \ {0} /\ d - 1 \in 1..MaxDepth /\ (d - 1) + 1 = d
        BY <1>1, <3>2
      <4>2. g[d - 1] = RowsOf(d - 1, f, l)
        BY <4>1
      <4>3. NextRows(RowsOf(d - 1, f, l), l) = RowsOf((d - 1) + 1, f, l)
        BY <4>1, RowsGrow
      <4> QED
        BY <3>2, <4>1, <4>2, <4>3
    <3> QED
      BY <3>1, <3>2
  <2> QED
    BY <2>1
<1>3. h = CHOOSE rows : rows = [d \in 1..MaxDepth |-> IF d = 1 THEN First ELSE NextRows(rows[d - 1], l)]
  BY DEF Search
<1> HIDE DEF g, h, First
<1>4. h = [d \in 1..MaxDepth |-> IF d = 1 THEN First ELSE NextRows(h[d - 1], l)]
  BY <1>2, <1>3
<1>5. \A d \in 1..MaxDepth : h[d] = IF d = 1 THEN First ELSE NextRows(h[d - 1], l)
  BY <1>4, Zenon
<1>6. \A d \in 1..MaxDepth : g[d] = IF d = 1 THEN First ELSE NextRows(g[d - 1], l)
  BY <1>2, Zenon
<1>7. h[1] = g[1]
  <2>1. 1 \in 1..MaxDepth
    BY <1>1
  <2> QED
    BY <1>5, <1>6, <2>1
<1>8. ASSUME NEW d \in 2..MaxDepth, h[d - 1] = g[d - 1] PROVE h[d] = g[d]
  <2>1. d \in 1..MaxDepth /\ d # 1
    BY <1>1
  <2> QED
    BY <1>5, <1>6, <1>8, <2>1
<1>9. \A d \in 1..MaxDepth : h[d] = g[d]
  BY <1>1, <1>7, <1>8, SameFrom
<1> QED
  BY <1>9 DEF g, h

\* The rows that traverse lists: those of the walks.
LEMMA TraverseIs ==
  ASSUME TypeOK, NEW f, NEW l
  PROVE  traverse(f, l) = UNION {RowsOf(d, f, l) : d \in 1..(MaxDepth - 1)}
<1>1. PICK N \in Nat : N = MaxDepth /\ N >= 3
  BY SizesOf
<1>2. traverse(f, l) = UNION {Search(f, l)[d] : d \in 1..MaxDepth}
  BY DEF traverse
<1>3. RowsOf(MaxDepth, f, l) = {}
  BY NoneLeft DEF RowsOf
<1>4. \A d \in 1..MaxDepth : d \in 1..(MaxDepth - 1) \/ d = MaxDepth
  BY <1>1
<1>5. \A d \in 1..(MaxDepth - 1) : d \in 1..MaxDepth
  BY <1>1
<1> QED
  BY <1>2, <1>3, <1>4, <1>5, SearchIs

LEMMA TypesListWalks == TypeOK => TraverseListsWalks
<1> SUFFICES ASSUME TypeOK, NEW f \in Froms, NEW l \in Filter
             PROVE  {r.nodes : r \in traverse(f, l)} =
                      {w \in UNION {[1..k -> Present] : k \in 1..(MaxDepth - 1)} : Walk(w, f, l)}
  BY DEF TraverseListsWalks
<1>1. ASSUME NEW d, NEW w PROVE RowOf(w, d).nodes = w
  BY DEF RowOf
<1>2. ASSUME NEW r \in traverse(f, l)
      PROVE  r.nodes \in {w \in UNION {[1..k -> Present] : k \in 1..(MaxDepth - 1)} : Walk(w, f, l)}
  <2>1. PICK d \in 1..(MaxDepth - 1) : r \in RowsOf(d, f, l)
    BY TraverseIs
  <2>2. PICK w \in [1..d -> Present] : Walk(w, f, l) /\ r = RowOf(w, d)
    BY <2>1 DEF RowsOf, Walks
  <2> QED
    BY <1>1, <2>2
<1>3. ASSUME NEW w \in UNION {[1..k -> Present] : k \in 1..(MaxDepth - 1)}, Walk(w, f, l)
      PROVE  w \in {r.nodes : r \in traverse(f, l)}
  <2>1. PICK d \in 1..(MaxDepth - 1) : w \in [1..d -> Present]
    OBVIOUS
  <2>2. RowOf(w, d) \in RowsOf(d, f, l)
    BY <1>3, <2>1 DEF RowsOf, Walks
  <2>3. RowOf(w, d) \in traverse(f, l)
    BY <2>2, TraverseIs
  <2> QED
    BY <1>1, <2>3
<1> QED
  BY <1>2, <1>3

(* For every graph a client can make, traverse gives one row for each walk *)
(* that meets no name twice before its last node, and no other, and it     *)
(* ends (graph.c:240-276).                                                 *)
THEOREM WalksAreListed == Spec => []TraverseListsWalks
  BY TypeCorrect, TypesListWalks, PTL

-----------------------------------------------------------------------------
(* No edge begins nowhere until a client writes one in SQL.                *)
FromNodes == ~posted => \A e \in edges : e.a # Null

LEMMA StepKeepsFromNodes == TypeOK /\ FromNodes /\ [Next]_vars => FromNodes'
<1> SUFFICES ASSUME FromNodes, [Next]_vars, ~posted', NEW e \in edges'
             PROVE  e.a # Null
  BY DEF FromNodes
<1>1. CASE create_edge
  <2>1. PICK from \in Ends, to \in Ends, label \in Labels \cup {Unlabelled} :
          edges' = edges \cup {Inserted(from, to, label)[i] :
                                 i \in DOMAIN Inserted(from, to, label)}
    BY <1>1 DEF create_edge
  <2>2. PICK n \in 1..MaxPairs : from \in [1..n -> Nodes]
    BY DEF Ends
  <2>3. Len(from) = n
    BY <2>2
  <2>4. ASSUME NEW i \in DOMAIN Inserted(from, to, label)
        PROVE  Inserted(from, to, label)[i].a # Null
    <3>1. i \in 1..n /\ Inserted(from, to, label)[i].a = from[i]
      BY <2>3 DEF Inserted
    <3> QED
      BY <2>2, <3>1, ConstantsAssumption
  <2>5. ~posted
    BY <1>1 DEF create_edge
  <2> QED
    BY <2>1, <2>4, <2>5 DEF FromNodes
<1>2. CASE post_query
  BY <1>2 DEF post_query
<1>3. CASE \/ create_graph \/ delete_graph \/ delete_edge \/ UNCHANGED vars
           \/ \E n \in Nodes : create_document(n) \/ set_document(n) \/ delete_document(n)
  <2>1. e \in edges /\ posted' = posted
    BY <1>3 DEF create_graph, delete_graph, delete_edge, vars, create_document, set_document,
                delete_document
  <2> QED
    BY <2>1 DEF FromNodes
<1> QED
  BY <1>1, <1>2, <1>3 DEF Next

LEMMA NothingIsFound == TypeOK /\ FromNodes => NothingFromNull
<1> SUFFICES ASSUME TypeOK, FromNodes, ~posted, NEW l
             PROVE  get_adjacent(Null, l) = {} /\ traverse(Null, l) = {}
  BY DEF NothingFromNull
<1>1. get_adjacent(Null, l) = {}
  BY DEF FromNodes, get_adjacent, Labelled
<1>2. \A d \in 1..(MaxDepth - 1) : RowsOf(d, Null, l) = {}
  BY <1>1 DEF RowsOf, Walks, Walk
<1> QED
  BY <1>1, <1>2, TraverseIs

(* Both queries find nothing from the only start they accept, as long as   *)
(* no client writes an edge in SQL (graph.c:105-115, 172-182, 468-491).    *)
THEOREM NullFindsNothing == Spec => []NothingFromNull
<1>1. Init => FromNodes
  BY DEF Init, FromNodes
<1> QED
  BY <1>1, TypeCorrect, StepKeepsFromNodes, NothingIsFound, PTL DEF Spec

-----------------------------------------------------------------------------
(* With a name for every node: the nodes at the ends of the walks are those *)
(* of ever wider circles.                                                   *)

Reached(d, f, l) ==
  {n \in Present : \E e \in 1..(MaxDepth - 1) : e <= d /\ \E w \in Walks(e, f, l) : w[e] = n}

LEMMA FoundIsReached ==
  ASSUME TypeOK, NEW f, NEW l, NEW d \in Nat
  PROVE  {r.id : r \in {q \in traverse(f, l) : q.depth <= d}} = Reached(d, f, l)
<1>1. ASSUME NEW e, NEW w PROVE RowOf(w, e).id = w[e] /\ RowOf(w, e).depth = e
  BY DEF RowOf
<1>2. ASSUME NEW r \in traverse(f, l), r.depth <= d PROVE r.id \in Reached(d, f, l)
  <2>1. PICK e \in 1..(MaxDepth - 1) : r \in RowsOf(e, f, l)
    BY TraverseIs
  <2>2. PICK w \in Walks(e, f, l) : r = RowOf(w, e)
    BY <2>1 DEF RowsOf
  <2>3. w[e] \in Present
    BY SizesOf DEF Walks
  <2> QED
    BY <1>1, <1>2, <2>2, <2>3 DEF Reached
<1>3. ASSUME NEW n \in Reached(d, f, l)
      PROVE  n \in {r.id : r \in {q \in traverse(f, l) : q.depth <= d}}
  <2>1. PICK e \in 1..(MaxDepth - 1) : e <= d /\ \E w \in Walks(e, f, l) : w[e] = n
    BY DEF Reached
  <2>2. PICK w \in Walks(e, f, l) : w[e] = n
    BY <2>1
  <2>3. RowOf(w, e) \in traverse(f, l)
    BY TraverseIs DEF RowsOf
  <2> QED
    BY <1>1, <2>1, <2>2, <2>3
<1> QED
  BY <1>2, <1>3

LEMMA ReachedFirst ==
  ASSUME TypeOK, NEW f, NEW l
  PROVE  Reached(1, f, l) = get_adjacent(f, l)
<1>1. ASSUME NEW n \in Reached(1, f, l) PROVE n \in get_adjacent(f, l)
  <2>1. PICK e \in 1..(MaxDepth - 1) : e <= 1 /\ \E w \in Walks(e, f, l) : w[e] = n
    BY DEF Reached
  <2>2. e = 1
    BY <2>1
  <2> QED
    BY <2>1, <2>2 DEF Walks, Walk
<1>2. ASSUME NEW n \in get_adjacent(f, l) PROVE n \in Reached(1, f, l)
  <2>1. Start(n) \in RowsOf(1, f, l)
    BY RowsBegin
  <2>2. PICK w \in Walks(1, f, l) : Start(n) = RowOf(w, 1)
    BY <2>1 DEF RowsOf
  <2>3. w[1] = n
    BY <2>2 DEF Start, RowOf
  <2>4. 1 \in 1..(MaxDepth - 1) /\ 1 <= 1
    BY SizesOf
  <2>5. n \in Present
    BY AdjacentTypes
  <2> QED
    BY <2>2, <2>3, <2>4, <2>5 DEF Reached
<1> QED
  BY <1>1, <1>2

\* The first i nodes of a walk.
Prefix(w, i) == [k \in 1..i |-> w[k]]

LEMMA PrefixIsWalk ==
  ASSUME NEW e \in Nat \ {0}, NEW f, NEW l, NEW w \in Walks(e, f, l), NEW i \in 1..e
  PROVE  Prefix(w, i) \in Walks(i, f, l) /\ \A k \in 1..i : Prefix(w, i)[k] = w[k]
<1> DEFINE v == Prefix(w, i)
<1>1. w \in [1..e -> Present] /\ Walk(w, f, l)
  BY DEF Walks
<1>2. v \in [1..i -> Present] /\ \A k \in 1..i : v[k] = w[k]
  BY <1>1 DEF Prefix
<1> HIDE DEF v
<1>3. /\ w[1] \in get_adjacent(f, l)
      /\ \A k \in 1..(e - 1) : w[k + 1] \in get_adjacent(w[k], l)
      /\ Fresh(w, e - 1)
  BY <1>1, WalkIs
<1>4. Walk(v, f, l)
  <2>1. v[1] = w[1]
    BY <1>2
  <2>2. \A k \in 1..(i - 1) : k \in 1..(e - 1) /\ v[k + 1] = w[k + 1] /\ v[k] = w[k]
    BY <1>2
  <2>3. Fresh(v, i - 1)
    BY <1>3, <2>2 DEF Fresh
  <2>4. i \in Nat \ {0}
    OBVIOUS
  <2> QED
    BY <1>2, <1>3, <2>1, <2>2, <2>3, <2>4, WalkIs
<1> QED
  BY <1>2, <1>4 DEF Walks, v

\* A node that a walk ends at is the end of one that may go on.
LEMMA FreshEnd ==
  ASSUME DistinctNames, NEW e \in Nat \ {0}, NEW f, NEW l, NEW w \in Walks(e, f, l)
  PROVE  \E i \in 1..e : \E v \in Walks(i, f, l) : v[i] = w[e] /\ Fresh(v, i)
<1>1. w \in [1..e -> Present] /\ Walk(w, f, l)
  BY DEF Walks
<1>2. Fresh(w, e - 1)
  BY <1>1, WalkIs
<1>3. CASE Fresh(w, e)
  <2>1. e \in 1..e
    OBVIOUS
  <2> QED
    BY <1>3, <2>1
<1>4. CASE ~Fresh(w, e)
  <2>1. \A k \in 1..e : name[w[k]] # NoName
    BY <1>1 DEF DistinctNames
  <2>2. PICK j \in 1..e, k \in 1..e : j # k /\ name[w[j]] = name[w[k]]
    BY <1>4, <2>1 DEF Fresh
  <2>3. w[j] = w[k]
    BY <1>1, <2>2 DEF DistinctNames
  <2>4. j = e \/ k = e
    <3> SUFFICES ASSUME j # e, k # e PROVE FALSE
      OBVIOUS
    <3>1. j \in 1..(e - 1) /\ k \in 1..(e - 1)
      OBVIOUS
    <3> QED
      BY <1>2, <2>2, <3>1 DEF Fresh
  <2>5. PICK i \in 1..(e - 1) : w[i] = w[e]
    <3>1. CASE j = e
      <4>1. k \in 1..(e - 1)
        BY <2>2, <3>1
      <4> QED
        BY <2>3, <3>1, <4>1
    <3>2. CASE k = e
      <4>1. j \in 1..(e - 1)
        BY <2>2, <3>2
      <4> QED
        BY <2>3, <3>2, <4>1
    <3> QED
      BY <2>4, <3>1, <3>2
  <2>6. i \in 1..e /\ i \in 1..i
    OBVIOUS
  <2>7. Prefix(w, i) \in Walks(i, f, l) /\ \A k1 \in 1..i : Prefix(w, i)[k1] = w[k1]
    BY <2>6, PrefixIsWalk
  <2>8. Fresh(Prefix(w, i), i)
    <3>1. \A k1 \in 1..i : k1 \in 1..(e - 1)
      OBVIOUS
    <3> QED
      BY <1>2, <2>7, <3>1 DEF Fresh
  <2> QED
    BY <2>5, <2>6, <2>7, <2>8
<1> QED
  BY <1>3, <1>4

LEMMA ReachedGrows ==
  ASSUME TypeOK, DistinctNames, NEW f, NEW l, NEW d \in Nat \ {0}
  PROVE  Reached(d + 1, f, l) =
           Reached(d, f, l) \cup UNION {get_adjacent(n, l) : n \in Reached(d, f, l)}
<1>1. PICK N \in Nat : N = Cardinality(Names) /\ N >= 1 /\ MaxDepth - 1 = N + 1
  BY SizesOf
<1>2. ASSUME NEW n \in Reached(d + 1, f, l), n \notin Reached(d, f, l)
      PROVE  \E m \in Reached(d, f, l) : n \in get_adjacent(m, l)
  <2>1. PICK e \in 1..(MaxDepth - 1) : e <= d + 1 /\ \E w \in Walks(e, f, l) : w[e] = n
    BY DEF Reached
  <2>2. PICK w \in Walks(e, f, l) : w[e] = n
    BY <2>1
  <2>3. n \in Present
    BY DEF Reached
  <2>4. ~(e <= d)
    BY <1>2, <2>1, <2>3 DEF Reached
  <2>5. e = d + 1 /\ e \in Nat \ {0} /\ d \in 1..e /\ d \in 1..(MaxDepth - 1) /\ d <= d
    BY <1>1, <2>1, <2>4
  <2>6. w \in [1..e -> Present] /\ Walk(w, f, l)
    BY DEF Walks
  <2>7. \A i \in 1..(e - 1) : w[i + 1] \in get_adjacent(w[i], l)
    BY <2>5, <2>6, WalkIs
  <2>8. n \in get_adjacent(w[d], l)
    <3>1. d \in 1..(e - 1)
      BY <2>5
    <3> QED
      BY <2>2, <2>5, <2>7, <3>1
  <2>9. w[d] \in Reached(d, f, l)
    <3>1. Prefix(w, d) \in Walks(d, f, l) /\ Prefix(w, d)[d] = w[d]
      <4>1. d \in 1..d
        OBVIOUS
      <4> QED
        BY <2>5, <4>1, PrefixIsWalk
    <3>2. w[d] \in Present
      BY <2>5, <2>6
    <3> QED
      BY <2>5, <3>1, <3>2 DEF Reached
  <2> QED
    BY <2>8, <2>9
<1>3. ASSUME NEW n \in Reached(d, f, l) PROVE n \in Reached(d + 1, f, l)
  <2>1. PICK e \in 1..(MaxDepth - 1) : e <= d /\ \E w \in Walks(e, f, l) : w[e] = n
    BY DEF Reached
  <2>2. e <= d + 1
    BY <1>1, <2>1
  <2> QED
    BY <2>1, <2>2 DEF Reached
<1>4. ASSUME NEW m \in Reached(d, f, l), NEW n \in get_adjacent(m, l)
      PROVE  n \in Reached(d + 1, f, l)
  <2>1. PICK e \in 1..(MaxDepth - 1) : e <= d /\ \E w \in Walks(e, f, l) : w[e] = m
    BY DEF Reached
  <2>2. PICK w \in Walks(e, f, l) : w[e] = m
    BY <2>1
  <2>3. e \in Nat \ {0}
    BY <1>1
  <2>4. PICK i \in 1..e : \E v \in Walks(i, f, l) : v[i] = w[e] /\ Fresh(v, i)
    BY <2>3, FreshEnd
  <2>5. PICK v \in Walks(i, f, l) : v[i] = m /\ Fresh(v, i)
    BY <2>2, <2>4
  <2>6. i \in Nat \ {0} /\ i <= d /\ v \in [1..i -> Present] /\ Walk(v, f, l)
    BY <2>1, <2>3 DEF Walks
  <2>7. i <= N
    <3>1. CASE i = 1
      BY <1>1, <3>1
    <3>2. CASE i > 1
      <4>1. i \in Nat /\ \A k \in 1..i : v[k] \in Present
        BY <2>6
      <4> QED
        BY <1>1, <2>5, <3>2, <4>1, FreshIsShort
    <3> QED
      BY <2>6, <3>1, <3>2
  <2>8. n \in Present
    BY AdjacentTypes
  <2>9. More(v, i, n) \in Walks(i + 1, f, l) /\ More(v, i, n)[i + 1] = n
    BY <2>5, <2>6, <2>8, WalkGrows, MoreTypes DEF Walks
  <2>10. i + 1 \in 1..(MaxDepth - 1) /\ i + 1 <= d + 1
    BY <1>1, <2>6, <2>7
  <2> QED
    BY <2>8, <2>9, <2>10 DEF Reached
<1> QED
  BY <1>2, <1>3, <1>4

LEMMA NearIs ==
  ASSUME TypeOK, DistinctNames, NEW f, NEW l
  PROVE  \A d \in 1..Cardinality(Nodes) : Near(f, l)[d] = Reached(d, f, l)
<1>1. PICK C \in Nat : C = Cardinality(Nodes)
  BY SizesOf
<1> DEFINE Wider(set) == set \cup UNION {get_adjacent(n, l) : n \in set}
           g == [d \in 1..C |-> Reached(d, f, l)]
           h == Near(f, l)
<1>2. g = [d \in 1..C |-> IF d = 1 THEN get_adjacent(f, l) ELSE Wider(g[d - 1])]
  <2>1. ASSUME NEW d \in 1..C
        PROVE  Reached(d, f, l) = IF d = 1 THEN get_adjacent(f, l) ELSE Wider(g[d - 1])
    <3>1. CASE d = 1
      BY <3>1, ReachedFirst
    <3>2. CASE d # 1
      <4>1. d - 1 \in Nat \ {0} /\ d - 1 \in 1..C /\ (d - 1) + 1 = d
        BY <3>2
      <4>2. g[d - 1] = Reached(d - 1, f, l)
        BY <4>1
      <4>3. Reached((d - 1) + 1, f, l) = Wider(Reached(d - 1, f, l))
        BY <4>1, ReachedGrows
      <4> QED
        BY <3>2, <4>1, <4>2, <4>3
    <3> QED
      BY <3>1, <3>2
  <2> QED
    BY <2>1
<1>3. h = CHOOSE near :
            near = [d \in 1..C |-> IF d = 1 THEN get_adjacent(f, l) ELSE Wider(near[d - 1])]
  BY <1>1 DEF Near
<1> HIDE DEF g, h, Wider
<1>4. h = [d \in 1..C |-> IF d = 1 THEN get_adjacent(f, l) ELSE Wider(h[d - 1])]
  BY <1>2, <1>3
<1>5. \A d \in 1..C : h[d] = IF d = 1 THEN get_adjacent(f, l) ELSE Wider(h[d - 1])
  BY <1>4, Zenon
<1>6. \A d \in 1..C : g[d] = IF d = 1 THEN get_adjacent(f, l) ELSE Wider(g[d - 1])
  BY <1>2, Zenon
<1>7. 1 \in 1..C => h[1] = g[1]
  BY <1>5, <1>6
<1>8. ASSUME NEW d \in 2..C, h[d - 1] = g[d - 1] PROVE h[d] = g[d]
  <2>1. d \in 1..C /\ d # 1
    OBVIOUS
  <2> QED
    BY <1>5, <1>6, <1>8, <2>1
<1>9. ASSUME NEW d \in 1..C PROVE h[d] = g[d]
  <2>1. 1 \in 1..C
    OBVIOUS
  <2> QED
    BY <1>7, <1>8, <2>1, SameFrom
<1> QED
  BY <1>1, <1>9 DEF g, h

(* With a name of its own for every node, traverse finds exactly the nodes *)
(* that can be reached, each first at its distance (graph.c:278-282).      *)
THEOREM NearestAreFirst == Spec => []NearestFirst
<1>1. TypeOK => NearestFirst
  <2> SUFFICES ASSUME TypeOK, DistinctNames, NEW f \in Froms, NEW l \in Filter,
                      NEW d \in 1..Cardinality(Nodes)
               PROVE  {r.id : r \in {q \in traverse(f, l) : q.depth <= d}} = Near(f, l)[d]
    BY DEF NearestFirst
  <2>1. d \in Nat
    BY SizesOf
  <2> QED
    BY <2>1, FoundIsReached, NearIs
<1> QED
  BY <1>1, TypeCorrect, PTL
=============================================================================
