-------------------------- MODULE DocumentsProofs ---------------------------
(***************************************************************************)
(* Proofs about Documents, for any sessions, collections, documents and    *)
(* patches.                                                                *)
(***************************************************************************)
EXTENDS Documents, TLAPS

(* The inductive invariant.  What DDL works on is a collection's table; an  *)
(* index is one of the table's own or was named by create_index; and a      *)
(* statement's snapshot of its row, once taken, is of a row that is there   *)
(* or was deleted, and is the row itself until another statement writes it. *)
DdlOnTables ==
  \A s \in Sessions :
    Running(s) /\ stmt[s].op \in {"build", "drop"} => stmt[s].table \in Tables

Named ==
  \A x \in indexes :
    \/ x.name \in {<<"document", x.table>>, <<"name", x.table>>}
    \/ \E b \in Bytes : x.name = <<"index", x.table, b>>

Snapshot ==
  \A s \in Sessions :
    Running(s) /\ stmt[s].base # Missing =>
      /\ Exists(stmt[s].id) \/ stmt[s].id \in dead
      /\ stmt[s].alone /\ Hit(stmt[s]) => stmt[s].base = rows[stmt[s].id].document

Inv == /\ TypeOK /\ DdlOnTables /\ Named /\ Snapshot
       /\ CollectionIsWhole /\ DeadStayDead

-----------------------------------------------------------------------------
(* Statements.                                                             *)

(* A statement that ends leaves the others as they are, but for those on    *)
(* the rows it wrote, which are no longer alone.                            *)
LEMMA EndedFacts ==
  ASSUME stmt \in [Sessions -> Statement \cup {NoStatement}],
         NEW s \in Sessions, NEW wrote, Ended(s, wrote)
  PROVE  /\ stmt' \in [Sessions -> Statement \cup {NoStatement}]
         /\ stmt'[s] = NoStatement
         /\ \A r \in Sessions : stmt'[r] # NoStatement =>
              /\ stmt[r] # NoStatement
              /\ stmt'[r].op = stmt[r].op /\ stmt'[r].table = stmt[r].table
              /\ stmt'[r].id = stmt[r].id /\ stmt'[r].base = stmt[r].base
              /\ stmt'[r].alone => stmt[r].alone /\ stmt[r].id \notin wrote
         /\ \A r \in Sessions \ {s} : stmt[r] # NoStatement => stmt'[r] # NoStatement
  <1>1. ASSUME NEW r \in Sessions, r # s, stmt[r] # NoStatement
        PROVE  /\ stmt'[r] \in Statement
               /\ stmt'[r].op = stmt[r].op /\ stmt'[r].table = stmt[r].table
               /\ stmt'[r].id = stmt[r].id /\ stmt'[r].base = stmt[r].base
               /\ stmt'[r].alone => stmt[r].alone /\ stmt[r].id \notin wrote
    <2>1. stmt[r] \in Statement
      BY <1>1
    <2>2. stmt'[r] = IF stmt[r].id \in wrote THEN [stmt[r] EXCEPT !.alone = FALSE] ELSE stmt[r]
      BY <1>1 DEF Ended, Running
    <2>3. CASE stmt[r].id \in wrote
      <3>1. stmt'[r] = [stmt[r] EXCEPT !.alone = FALSE]
        BY <2>2, <2>3
      <3>2. /\ stmt'[r].op = stmt[r].op /\ stmt'[r].table = stmt[r].table
            /\ stmt'[r].id = stmt[r].id /\ stmt'[r].base = stmt[r].base
            /\ stmt'[r].alone = FALSE /\ stmt'[r] \in Statement
        BY <2>1, <3>1 DEF Statement
      <3>3. QED
        BY <3>2
    <2>4. CASE stmt[r].id \notin wrote
      BY <2>1, <2>2, <2>4
    <2>5. QED
      BY <2>3, <2>4
  <1>2. stmt'[s] = NoStatement
    BY DEF Ended
  <1>3. \A r \in Sessions \ {s} : stmt[r] = NoStatement => stmt'[r] = NoStatement
    BY DEF Ended, Running
  <1>4. stmt' = [r \in Sessions |-> stmt'[r]]
    BY DEF Ended
  <1>5. QED
    BY <1>1, <1>2, <1>3, <1>4, NothingAssumption

(* So the invariant about statements is kept, if rows do not vanish without *)
(* being counted as dead, those that are not written stay, and no dead      *)
(* document comes back.                                                     *)
LEMMA EndedKeeps ==
  ASSUME Inv, NEW s \in Sessions, NEW wrote, Ended(s, wrote),
         dead \subseteq dead',
         \A i \in Ids : rows[i] # NoRow => rows'[i] # NoRow \/ i \in dead',
         \A i \in Ids : \/ rows'[i] = rows[i] \/ i \in wrote
                        \/ rows[i] = NoRow /\ i \notin dead
  PROVE  /\ stmt' \in [Sessions -> Statement \cup {NoStatement}]
         /\ DdlOnTables' /\ Snapshot'
  <1>1. stmt \in [Sessions -> Statement \cup {NoStatement}]
    BY DEF Inv, TypeOK
  <1> DEFINE Kept(r) ==
        /\ stmt[r] # NoStatement
        /\ stmt'[r].op = stmt[r].op /\ stmt'[r].table = stmt[r].table
        /\ stmt'[r].id = stmt[r].id /\ stmt'[r].base = stmt[r].base
        /\ stmt'[r].alone => stmt[r].alone /\ stmt[r].id \notin wrote
  <1>2. /\ stmt' \in [Sessions -> Statement \cup {NoStatement}]
        /\ \A r \in Sessions : stmt'[r] # NoStatement => Kept(r)
    BY <1>1, EndedFacts
  <1>3. DdlOnTables'
    BY <1>2 DEF DdlOnTables, Running, Inv
  <1>4. ASSUME NEW r \in Sessions, stmt'[r] # NoStatement, stmt'[r].base # Missing
        PROVE  /\ rows'[stmt'[r].id] # NoRow \/ stmt'[r].id \in dead'
               /\ stmt'[r].alone /\ rows'[stmt'[r].id] # NoRow
                    /\ rows'[stmt'[r].id].table = stmt'[r].table
                    => stmt'[r].base = rows'[stmt'[r].id].document
    <2>1. Kept(r) /\ stmt[r].id \in Ids
      BY <1>1, <1>2, <1>4 DEF Statement
    <2>2. /\ rows[stmt[r].id] # NoRow \/ stmt[r].id \in dead
          /\ stmt[r].alone /\ rows[stmt[r].id] # NoRow
               /\ rows[stmt[r].id].table = stmt[r].table
               => stmt[r].base = rows[stmt[r].id].document
      BY <1>4, <2>1 DEF Inv, Snapshot, Running, Exists, Hit
    <2>3. QED
      BY <2>1, <2>2
  <1>5. Snapshot'
    BY <1>4 DEF Snapshot, Running, Exists, Hit
  <1>6. QED
    BY <1>2, <1>3, <1>5

\* A statement that has no effect.
LEMMA NoEffectInv == ASSUME Inv, NEW s \in Sessions, NoEffect(s) PROVE Inv'
  <1>1. Ended(s, {}) /\ UNCHANGED <<tables, indexes, rows, dead>>
    BY DEF NoEffect
  <1>2. /\ stmt' \in [Sessions -> Statement \cup {NoStatement}]
        /\ DdlOnTables' /\ Snapshot'
    BY <1>1, EndedKeeps
  <1>3. QED
    BY <1>1, <1>2 DEF Inv, TypeOK, Named, CollectionIsWhole, DeadStayDead, Exists

\* A statement that begins, with its snapshot.
LEMMA BeginInv ==
  ASSUME Inv, NEW s \in Sessions, NEW i \in Ids,
         NEW op \in {"create", "set", "update", "delete", "build", "drop"},
         NEW t \in Given \cup Tables, op \in {"build", "drop"} => t \in Tables,
         Begin(s, OnRow(op, t, i))
  PROVE  Inv'
  <1> DEFINE x == OnRow(op, t, i)
  <1>1. /\ stmt' = [stmt EXCEPT ![s] = x]
        /\ UNCHANGED <<tables, indexes, rows, dead>>
        /\ stmt \in [Sessions -> Statement \cup {NoStatement}]
        /\ rows \in [Ids -> Row \cup {NoRow}]
    BY DEF Begin, Inv, TypeOK
  <1>2. /\ x \in Statement /\ x.op = op /\ x.table = t
        /\ x.base # Missing => Exists(i) /\ x.base = rows[i].document /\ x.id = i
    BY <1>1 DEF OnRow, Statement, Row, Exists
  <1> HIDE DEF x
  <1>3. stmt' \in [Sessions -> Statement \cup {NoStatement}]
    BY <1>1, <1>2
  <1>4. DdlOnTables'
    BY <1>1, <1>2 DEF Inv, DdlOnTables, Running
  <1>5. Snapshot'
    BY <1>1, <1>2 DEF Inv, Snapshot, Running, Exists, Hit
  <1>6. QED
    BY <1>1, <1>3, <1>4, <1>5 DEF Inv, TypeOK, Named, CollectionIsWhole, DeadStayDead, Exists

\* What requests begin.
LEMMA RequestBegins ==
  ASSUME Inv, NEW s \in Sessions,
         \/ create_collection(s) \/ delete_collection(s) \/ create_document(s)
         \/ set_document(s) \/ update_document(s) \/ delete_document(s)
  PROVE  Inv'
  <1>1. (CHOOSE i \in Ids : TRUE) \in Ids
    BY NothingAssumption
  <1>2. \A w \in Words : CollectionTable(w) \in Tables
    BY DEF Tables
  <1>3. \A g \in Given : DocumentTable(g) \in Given
    BY DEF DocumentTable
  <1>4. CASE create_collection(s) \/ delete_collection(s)
    BY <1>1, <1>2, <1>4, BeginInv DEF create_collection, delete_collection, OnTable
  <1>5. CASE create_document(s)
    BY <1>1, <1>3, <1>5, BeginInv DEF create_document, OnTable
  <1>6. CASE set_document(s) \/ update_document(s) \/ delete_document(s)
    BY <1>3, <1>6, BeginInv DEF set_document, update_document, delete_document
  <1>7. QED
    BY <1>4, <1>5, <1>6

-----------------------------------------------------------------------------
(* Collections and indexes.                                                *)

\* A new collection comes with its own indexes; before, it had none.
LEMMA EndBuildInv == ASSUME Inv, NEW s \in Sessions, EndBuild(s) PROVE Inv'
  <1> DEFINE t == stmt[s].table
  <1>1. t \in Tables
    BY DEF EndBuild, Inv, DdlOnTables
  <1>2. CASE NoEffect(s)
    BY <1>2, NoEffectInv
  <1>3. CASE /\ t \notin tables /\ tables' = tables \cup {t}
             /\ indexes' = indexes \cup OwnIndexes(t)
             /\ Ended(s, {}) /\ UNCHANGED <<rows, dead>>
    <2> HIDE DEF t
    <2>1. /\ stmt' \in [Sessions -> Statement \cup {NoStatement}]
          /\ DdlOnTables' /\ Snapshot'
      BY <1>3, EndedKeeps
    <2>2. \A x \in OwnIndexes(t) :
            x.table = t /\ x.name \in {<<"document", t>>, <<"name", t>>} /\ x.name[1] # "index"
      BY DEF OwnIndexes
    <2>3. Named'
      BY <1>3, <2>2 DEF Inv, Named
    <2>4. CollectionIsWhole'
      <3>1. \A x \in indexes : x.table \in tables /\ x.table # t
        BY <1>3 DEF Inv, CollectionIsWhole
      <3>2. {x \in indexes' : x.table = t /\ x.name[1] # "index"} = OwnIndexes(t)
        BY <1>3, <2>2, <3>1
      <3>3. ASSUME NEW u \in tables
            PROVE  {x \in indexes' : x.table = u /\ x.name[1] # "index"} = OwnIndexes(u)
        <4>1. {x \in indexes : x.table = u /\ x.name[1] # "index"} = OwnIndexes(u)
          BY DEF Inv, CollectionIsWhole
        <4>2. u # t
          BY <1>3
        <4>3. QED
          BY <1>3, <2>2, <4>1, <4>2
      <3>4. \A x \in indexes' : x.table \in tables'
        BY <1>3, <2>2, <3>1
      <3>5. \A i \in Ids : Exists(i)' => rows'[i].table \in tables'
        BY <1>3 DEF Inv, CollectionIsWhole, Exists
      <3>6. \A u \in tables' :
              {x \in indexes' : x.table = u /\ x.name[1] # "index"} = OwnIndexes(u)
        BY <1>3, <3>2, <3>3
      <3>7. QED
        BY <3>4, <3>5, <3>6 DEF CollectionIsWhole, OwnIndexes
    <2>5. TypeOK'
      BY <1>1, <1>3, <2>1, <2>2 DEF Inv, TypeOK
    <2>6. DeadStayDead'
      BY <1>3 DEF Inv, DeadStayDead, Exists
    <2>7. QED
      BY <2>1, <2>3, <2>4, <2>5, <2>6 DEF Inv
  <1>4. QED
    BY <1>2, <1>3 DEF EndBuild

\* A dropped collection takes its indexes and documents with it.
LEMMA EndDropInv == ASSUME Inv, NEW s \in Sessions, EndDrop(s) PROVE Inv'
  <1> DEFINE t == stmt[s].table
  <1>1. /\ tables' = tables \ {t}
        /\ indexes' = {x \in indexes : x.table # t}
        /\ rows' = [i \in Ids |-> IF i \in Of(t) THEN NoRow ELSE rows[i]]
        /\ dead' = dead \cup Of(t)
        /\ Ended(s, Of(t))
    BY DEF EndDrop
  <1> HIDE DEF t
  <1>2. /\ rows \in [Ids -> Row \cup {NoRow}]
        /\ \A i \in Ids : i \in Of(t) <=> Exists(i) /\ rows[i].table = t
        /\ Of(t) \subseteq Ids
    BY DEF Inv, TypeOK, Of
  <1>3. /\ stmt' \in [Sessions -> Statement \cup {NoStatement}]
        /\ DdlOnTables' /\ Snapshot'
    BY <1>1, <1>2, EndedKeeps
  <1>4. TypeOK'
    BY <1>1, <1>2, <1>3 DEF Inv, TypeOK
  <1>5. Named'
    BY <1>1 DEF Inv, Named
  <1>6. CollectionIsWhole'
    <2>1. ASSUME NEW u \in tables'
          PROVE  {x \in indexes' : x.table = u /\ x.name[1] # "index"} = OwnIndexes(u)
      <3>1. u \in tables /\ u # t
        BY <1>1
      <3>2. {x \in indexes : x.table = u /\ x.name[1] # "index"} = OwnIndexes(u)
        BY <3>1 DEF Inv, CollectionIsWhole
      <3>3. QED
        BY <1>1, <3>1, <3>2
    <2>2. \A x \in indexes' : x.table \in tables'
      BY <1>1 DEF Inv, CollectionIsWhole
    <2>3. \A i \in Ids : Exists(i)' => rows'[i].table \in tables'
      BY <1>1, <1>2 DEF Inv, CollectionIsWhole, Exists
    <2>4. QED
      BY <2>1, <2>2, <2>3 DEF CollectionIsWhole, OwnIndexes
  <1>7. DeadStayDead'
    BY <1>1, <1>2 DEF Inv, TypeOK, DeadStayDead, Exists
  <1>8. QED
    BY <1>3, <1>4, <1>5, <1>6, <1>7 DEF Inv

\* Statements on indexes leave the collections' own alone.
LEMMA IndexInv ==
  ASSUME Inv, NEW s \in Sessions, create_index(s) \/ delete_index(s)
  PROVE  Inv'
  <1>1. UNCHANGED <<tables, rows, stmt, dead>>
    BY DEF create_index, delete_index
  <1>2. /\ \A x \in indexes' :
             \/ x \in indexes
             \/ /\ x.table \in tables
                /\ \E b \in Bytes : x.name = <<"index", x.table, b>>
        /\ \A x \in indexes : x.name[1] # "index" => x \in indexes'
    <2>1. CASE create_index(s)
      BY <2>1 DEF create_index, IndexName
    <2>2. CASE delete_index(s)
      BY <2>2 DEF delete_index
    <2>3. QED
      BY <2>1, <2>2
  <1>3. Named'
    BY <1>2 DEF Inv, Named
  <1>4. CollectionIsWhole'
    <2>1. ASSUME NEW u \in tables
          PROVE  {x \in indexes' : x.table = u /\ x.name[1] # "index"} = OwnIndexes(u)
      <3>1. {x \in indexes : x.table = u /\ x.name[1] # "index"} = OwnIndexes(u)
        BY DEF Inv, CollectionIsWhole
      <3>2. \A x \in indexes' : x.name[1] # "index" => x \in indexes
        BY <1>2
      <3>3. QED
        BY <1>2, <3>1, <3>2
    <2>2. \A x \in indexes' : x.table \in tables
      BY <1>2 DEF Inv, CollectionIsWhole
    <2>3. QED
      BY <1>1, <2>1, <2>2 DEF Inv, CollectionIsWhole, OwnIndexes, Exists
  <1>5. TypeOK'
    BY <1>1, <1>2 DEF Inv, TypeOK
  <1>6. DdlOnTables' /\ Snapshot' /\ DeadStayDead'
    BY <1>1 DEF Inv, DdlOnTables, Snapshot, DeadStayDead, Exists, Running, Hit
  <1>7. QED
    BY <1>3, <1>4, <1>5, <1>6 DEF Inv

-----------------------------------------------------------------------------
(* Documents.                                                              *)

(* A statement that writes one row that is there, or deletes it, keeps the  *)
(* invariant.                                                               *)
LEMMA WriteInv ==
  ASSUME Inv, NEW s \in Sessions, NEW i \in Ids, Exists(i),
         rows' \in [Ids -> Row \cup {NoRow}],
         \A k \in Ids \ {i} : rows'[k] = rows[k],
         \/ rows'[i] # NoRow /\ rows'[i].table = rows[i].table /\ dead' = dead
         \/ rows'[i] = NoRow /\ dead' = dead \cup {i},
         Ended(s, {i}), UNCHANGED <<tables, indexes>>
  PROVE  Inv'
  <1>1. /\ stmt' \in [Sessions -> Statement \cup {NoStatement}]
        /\ DdlOnTables' /\ Snapshot'
    BY EndedKeeps
  <1>2. TypeOK'
    BY <1>1 DEF Inv, TypeOK
  <1>3. Named'
    BY DEF Inv, Named
  <1>4. CollectionIsWhole'
    <2>1. \A k \in Ids : Exists(k)' => rows'[k].table \in tables'
      BY DEF Inv, CollectionIsWhole, Exists
    <2>2. QED
      BY <2>1 DEF Inv, CollectionIsWhole, OwnIndexes
  <1>5. DeadStayDead'
    BY DEF Inv, TypeOK, DeadStayDead, Exists
  <1>6. QED
    BY <1>1, <1>2, <1>3, <1>4, <1>5 DEF Inv

\* New documents are in a table that is there, under uuids of their own.
LEMMA EndCreateInv == ASSUME Inv, NEW s \in Sessions, EndCreate(s) PROVE Inv'
  <1> DEFINE t == stmt[s].table
  <1>1. CASE NoEffect(s)
    BY <1>1, NoEffectInv
  <1>2. ASSUME t \in tables, NEW new \in SUBSET Fresh, NEW n \in Rename, NEW d \in Contents,
               rows' = [i \in Ids |-> IF i \in new
                          THEN [table |-> t, name |-> n, document |-> d] ELSE rows[i]],
               Ended(s, {}), UNCHANGED <<tables, indexes, dead>>
        PROVE  Inv'
    <2> HIDE DEF t
    <2> DEFINE row == [table |-> t, name |-> n, document |-> d]
    <2>1. row \in Row /\ row.table = t /\ row # NoRow
      BY <1>2, ConstantsAssumption, NothingAssumption DEF Inv, TypeOK, Row, Rename
    <2>2. /\ rows \in [Ids -> Row \cup {NoRow}]
          /\ \A i \in new : i \in Ids /\ rows[i] = NoRow /\ i \notin dead
          /\ \A i \in Ids : rows'[i] = IF i \in new THEN row ELSE rows[i]
      BY <1>2 DEF Inv, TypeOK, Fresh, Exists
    <2>3. rows' \in [Ids -> Row \cup {NoRow}]
      BY <1>2, <2>1, <2>2
    <2> HIDE DEF row
    <2>4. /\ stmt' \in [Sessions -> Statement \cup {NoStatement}]
          /\ DdlOnTables' /\ Snapshot'
      <3>1. \A i \in Ids : rows'[i] = rows[i] \/ (rows[i] = NoRow /\ i \notin dead)
        BY <2>2
      <3>2. \A i \in Ids : rows[i] # NoRow => rows'[i] # NoRow
        BY <2>2
      <3>3. QED
        BY <1>2, <3>1, <3>2, EndedKeeps
    <2>5. TypeOK'
      BY <1>2, <2>3, <2>4 DEF Inv, TypeOK
    <2>6. Named'
      BY <1>2 DEF Inv, Named
    <2>7. CollectionIsWhole'
      <3>1. \A i \in Ids : Exists(i)' => rows'[i].table \in tables'
        BY <1>2, <2>1, <2>2 DEF Inv, CollectionIsWhole, Exists
      <3>2. QED
        BY <1>2, <3>1 DEF Inv, CollectionIsWhole, OwnIndexes
    <2>8. DeadStayDead'
      BY <1>2, <2>2 DEF Inv, TypeOK, DeadStayDead, Exists
    <2>9. QED
      BY <2>4, <2>5, <2>6, <2>7, <2>8 DEF Inv
  <1>3. QED
    BY <1>1, <1>2 DEF EndCreate

\* The row that a statement reaches.
LEMMA ReachedFacts ==
  ASSUME Inv, NEW s \in Sessions, Running(s), Reaches(stmt[s])
  PROVE  /\ stmt[s].id \in Ids /\ stmt[s].base \in Document
         /\ Exists(stmt[s].id) /\ rows[stmt[s].id] \in Row
  BY DEF Inv, TypeOK, Running, Reaches, Hit, Exists, Statement

\* A name or a document is set in a row that is there.
LEMMA EndSetInv == ASSUME Inv, NEW s \in Sessions, EndSet(s) PROVE Inv'
  <1> DEFINE i == stmt[s].id
  <1>1. CASE NoEffect(s)
    BY <1>1, NoEffectInv
  <1>2. CASE /\ Reaches(stmt[s])
             /\ \/ \E n \in Names : rows' = [rows EXCEPT ![i].name = n]
                \/ \E d \in Contents : rows' = [rows EXCEPT ![i].document = d]
             /\ Ended(s, {i}) /\ UNCHANGED <<tables, indexes, dead>>
    <2>1. i \in Ids /\ Exists(i) /\ rows[i] \in Row
      BY <1>2, ReachedFacts DEF EndSet
    <2> HIDE DEF i
    <2>2. PICK row \in Row : rows' = [rows EXCEPT ![i] = row] /\ row.table = rows[i].table
      <3>1. ASSUME NEW n \in Names PROVE [rows[i] EXCEPT !.name = n] \in Row
        BY <2>1 DEF Row
      <3>2. ASSUME NEW d \in Contents PROVE [rows[i] EXCEPT !.document = d] \in Row
        BY <2>1, ConstantsAssumption DEF Row
      <3>3. \A n, d : /\ [rows[i] EXCEPT !.name = n].table = rows[i].table
                      /\ [rows[i] EXCEPT !.document = d].table = rows[i].table
        BY <2>1 DEF Row
      <3>4. QED
        BY <1>2, <3>1, <3>2, <3>3
    <2>3. rows \in [Ids -> Row \cup {NoRow}]
      BY DEF Inv, TypeOK
    <2>4. QED
      BY <1>2, <2>1, <2>2, <2>3, NothingAssumption, WriteInv
  <1>3. QED
    BY <1>1, <1>2 DEF EndSet

\* Merging documents makes documents.
LEMMA MergedFacts ==
  ASSUME NEW row \in Row, NEW base \in Document, NEW n \in Rename,
         NEW p \in Patches \cup {Missing}
  PROVE  /\ Merged(row, base, n, p) \in Row
         /\ Merged(row, base, n, p).table = row.table
         /\ Merged(row, base, n, p).document =
              IF p = Missing THEN row.document ELSE Strip(Merge(base, p))
  <1>1. p # Missing => Strip(Merge(base, p)) \in Document
    <2>1. p # Missing => p \in Document
      BY ConstantsAssumption
    <2>2. p # Missing => Merge(base, p) \in Document
      BY <2>1 DEF Merge, Document
    <2>3. QED
      BY <2>2 DEF Strip, Document
  <1>2. Renamed(row, n) \in Row /\ Renamed(row, n).table = row.table
        /\ Renamed(row, n).document = row.document
    BY DEF Renamed, Row, Rename
  <1> DEFINE d == IF p = Missing THEN row.document ELSE Strip(Merge(base, p))
  <1>3. d \in Document
    BY <1>1 DEF Row
  <1>4. Merged(row, base, n, p) = [Renamed(row, n) EXCEPT !.document = d]
    BY <1>2 DEF Merged
  <1> HIDE DEF d
  <1>5. Merged(row, base, n, p) \in Row /\ Merged(row, base, n, p).table = row.table
        /\ Merged(row, base, n, p).document = d
    BY <1>2, <1>3, <1>4 DEF Row
  <1>6. QED
    BY <1>5 DEF d

\* A row that is there is updated.
LEMMA EndUpdateInv == ASSUME Inv, NEW s \in Sessions, EndUpdate(s) PROVE Inv'
  <1> DEFINE i == stmt[s].id
  <1>1. CASE NoEffect(s)
    BY <1>1, NoEffectInv
  <1>2. ASSUME Reaches(stmt[s]), NEW n \in Rename, NEW p \in Patches \cup {Missing},
               rows' = [rows EXCEPT ![i] = Merged(@, stmt[s].base, n, p)],
               Ended(s, {i}), UNCHANGED <<tables, indexes, dead>>
        PROVE  Inv'
    <2>1. i \in Ids /\ Exists(i) /\ rows[i] \in Row /\ stmt[s].base \in Document
      BY <1>2, ReachedFacts DEF EndUpdate
    <2>2. rows \in [Ids -> Row \cup {NoRow}]
      BY DEF Inv, TypeOK
    <2>3. /\ rows' = [rows EXCEPT ![i] = Merged(rows[i], stmt[s].base, n, p)]
          /\ Merged(rows[i], stmt[s].base, n, p) \in Row
          /\ Merged(rows[i], stmt[s].base, n, p).table = rows[i].table
      BY <1>2, <2>1, <2>2, MergedFacts
    <2> HIDE DEF i
    <2>4. QED
      BY <1>2, <2>1, <2>2, <2>3, NothingAssumption, WriteInv
  <1>3. QED
    BY <1>1, <1>2 DEF EndUpdate

\* A row that is there is deleted.
LEMMA EndDeleteInv == ASSUME Inv, NEW s \in Sessions, EndDelete(s) PROVE Inv'
  <1> DEFINE i == stmt[s].id
  <1>1. CASE NoEffect(s)
    BY <1>1, NoEffectInv
  <1>2. CASE /\ Reaches(stmt[s]) /\ rows' = [rows EXCEPT ![i] = NoRow]
             /\ dead' = dead \cup {i} /\ Ended(s, {i}) /\ UNCHANGED <<tables, indexes>>
    <2>1. i \in Ids /\ Exists(i) /\ rows \in [Ids -> Row \cup {NoRow}]
      BY <1>2, ReachedFacts DEF EndDelete, Inv, TypeOK
    <2> HIDE DEF i
    <2>2. QED
      BY <1>2, <2>1, WriteInv
  <1>3. QED
    BY <1>1, <1>2 DEF EndDelete

-----------------------------------------------------------------------------
(* The first state satisfies the invariant.                                *)
LEMMA InitInv == Init => Inv
  <1> SUFFICES ASSUME Init PROVE Inv
    OBVIOUS
  <1> USE DEF Init, Running, Exists
  <1>1. TypeOK
    BY DEF TypeOK
  <1>2. DdlOnTables /\ Named /\ Snapshot /\ CollectionIsWhole /\ DeadStayDead
    BY DEF DdlOnTables, Named, Snapshot, CollectionIsWhole, DeadStayDead
  <1>3. QED
    BY <1>1, <1>2 DEF Inv

(* Every step keeps it.                                                     *)
LEMMA StepInv == Inv /\ [Next]_vars => Inv'
  <1> SUFFICES ASSUME Inv, [Next]_vars PROVE Inv'
    OBVIOUS
  <1>1. ASSUME NEW s \in Sessions, Request(s) PROVE Inv'
    BY <1>1, RequestBegins, IndexInv DEF Request
  <1>2. ASSUME NEW s \in Sessions, End(s) PROVE Inv'
    BY <1>2, EndBuildInv, EndDropInv, EndCreateInv, EndSetInv, EndUpdateInv,
       EndDeleteInv DEF End
  <1>3. CASE UNCHANGED vars
    BY <1>3 DEF vars, Inv, TypeOK, DdlOnTables, Named, Snapshot, CollectionIsWhole,
                DeadStayDead, Exists, Running, Hit, OwnIndexes
  <1>4. QED
    BY <1>1, <1>2, <1>3 DEF Next

(* The invariant holds throughout.                                         *)
THEOREM Invariance == Spec => []Inv
  BY InitInv, StepInv, PTL DEF Spec

(* Tables, rows and statements keep their types.                           *)
THEOREM TypeCorrect == Spec => []TypeOK
  <1>1. Inv => TypeOK
    BY DEF Inv
  <1>2. QED
    BY <1>1, Invariance, PTL

(* A collection is there with both of its own indexes or not at all, and    *)
(* nothing of it outlives it, for any sessions that create and drop it at   *)
(* once (collection.c:124-144, 70-71).                                      *)
THEOREM CollectionsAreWhole == Spec => []CollectionIsWhole
  <1>1. Inv => CollectionIsWhole
    BY DEF Inv
  <1>2. QED
    BY <1>1, Invariance, PTL

(* No deleted document comes back (document.c:590-593, collection.c:70-71). *)
THEOREM TheDeadStayDead == Spec => []DeadStayDead
  <1>1. Inv => DeadStayDead
    BY DEF Inv
  <1>2. QED
    BY <1>1, Invariance, PTL

(* An update that ends alone merges into the document as it is.             *)
LEMMA UpdateAlone ==
  ASSUME Inv, NEW s \in Sessions, EndUpdate(s), stmt[s].alone,
         Exists(stmt[s].id), rows'[stmt[s].id] # rows[stmt[s].id]
  PROVE  \E p \in Patches \cup {Missing} :
           rows'[stmt[s].id].document =
             IF p = Missing THEN rows[stmt[s].id].document
             ELSE Strip(Merge(rows[stmt[s].id].document, p))
  <1> DEFINE i == stmt[s].id
  <1>1. ~NoEffect(s)
    BY DEF NoEffect
  <1>2. Running(s) /\ Reaches(stmt[s])
    BY <1>1 DEF EndUpdate
  <1>3. PICK n \in Rename, p \in Patches \cup {Missing} :
          rows' = [rows EXCEPT ![i] = Merged(@, stmt[s].base, n, p)]
    BY <1>1 DEF EndUpdate
  <1>4. /\ i \in Ids /\ rows[i] \in Row /\ stmt[s].base \in Document
        /\ rows \in [Ids -> Row \cup {NoRow}]
    BY <1>2, ReachedFacts DEF Inv, TypeOK
  <1>5. stmt[s].base = rows[i].document
    BY <1>2 DEF Inv, Snapshot, Reaches
  <1>6. rows'[i] = Merged(rows[i], stmt[s].base, n, p)
    BY <1>3, <1>4
  <1>7. rows'[i].document = IF p = Missing THEN rows[i].document
                            ELSE Strip(Merge(stmt[s].base, p))
    BY <1>4, <1>6, MergedFacts
  <1>8. QED
    BY <1>5, <1>7

(* Only its own session ends a statement.                                   *)
LEMMA OwnEnd ==
  ASSUME Inv, NEW s \in Sessions, Running(s), stmt'[s] = NoStatement, Next
  PROVE  End(s)
  <1>1. stmt \in [Sessions -> Statement \cup {NoStatement}]
    BY DEF Inv, TypeOK
  <1>2. ASSUME NEW r \in Sessions, Request(r) PROVE FALSE
    <2>1. CASE create_index(r) \/ delete_index(r)
      BY <2>1 DEF create_index, delete_index, Running
    <2>2. ASSUME NEW y, Begin(r, y) PROVE FALSE
      BY <1>1, <2>2 DEF Begin, Running
    <2>3. QED
      BY <1>2, <2>1, <2>2 DEF Request, create_collection, delete_collection,
         create_document, set_document, update_document, delete_document
  <1>3. ASSUME NEW r \in Sessions \ {s}, End(r) PROVE FALSE
    <2>1. PICK wrote : Ended(r, wrote)
      BY <1>3 DEF End, EndBuild, EndDrop, EndCreate, EndSet, EndUpdate, EndDelete, NoEffect
    <2>2. stmt'[s] # NoStatement
      BY <1>1, <2>1, EndedFacts DEF Running
    <2>3. QED
      BY <2>2
  <1>4. QED
    BY <1>2, <1>3 DEF Next

(* An update that no other statement on its row overlaps is atomic, for any *)
(* documents and patches (document.c:517-550).                              *)
THEOREM UpdatesLoseOnlyToOverlap == Spec => LostOnlyToOverlap
  <1> DEFINE Atomic ==
        \A s \in Sessions :
          LET x == stmt[s] IN
            Running(s) /\ stmt'[s] = NoStatement /\ x.op = "update" /\ x.alone
              /\ Exists(x.id) /\ rows'[x.id] # rows[x.id] =>
                \E p \in Patches \cup {Missing} :
                  rows'[x.id].document = IF p = Missing THEN rows[x.id].document
                                         ELSE Strip(Merge(rows[x.id].document, p))
  <1>1. Inv /\ [Next]_vars => [Atomic]_vars
    <2> SUFFICES ASSUME Inv, Next, NEW s \in Sessions, Running(s), stmt'[s] = NoStatement,
                        stmt[s].op = "update", stmt[s].alone, Exists(stmt[s].id),
                        rows'[stmt[s].id] # rows[stmt[s].id]
                 PROVE  \E p \in Patches \cup {Missing} :
                          rows'[stmt[s].id].document =
                            IF p = Missing THEN rows[stmt[s].id].document
                            ELSE Strip(Merge(rows[stmt[s].id].document, p))
      OBVIOUS
    <2>1. EndUpdate(s)
      BY OwnEnd DEF End, EndBuild, EndDrop, EndCreate, EndSet, EndDelete
    <2>2. QED
      BY <2>1, UpdateAlone
  <1>2. QED
    BY <1>1, Invariance, PTL DEF Spec, LostOnlyToOverlap
=============================================================================
