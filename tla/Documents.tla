----------------------------- MODULE Documents ------------------------------
(***************************************************************************)
(* What the SQL of csp/collection.c, csp/index.c and csp/document.c does:  *)
(* collections (tables), their indexes and the documents in them, for      *)
(* sessions that send their statements at the same time, each on its own   *)
(* connection.                                                             *)
(*                                                                         *)
(* The database runs a statement under READ COMMITTED: Begin is when it    *)
(* has its locks on the table and its snapshot, End when it commits.  A    *)
(* statement that finds its row changed waits for the other, looks at the  *)
(* row again, but evaluates a sub-select in the snapshot it began with.    *)
(* Reads change nothing and are left out, and so is xmin.                  *)
(***************************************************************************)
EXTENDS Integers, Sequences, FiniteSets

CONSTANTS Sessions,   \* clients' sessions, with one connection each
          Words,      \* names of collections
          Ids,        \* uuids that gen_random_uuid() draws
          Given,      \* what clients write for :collection of documents
          Fields,     \* members of documents and fields of indexes
          Bytes,      \* what the bytes of a pointer read as
          Contents,   \* documents that clients create and set
          Patches,    \* documents that clients send to be merged
          Names,      \* names of documents
          Missing,    \* a member that is not there, a name that is NULL
          Null,       \* a member that is the JSON null
          NoRow, NoStatement

Document == [Fields -> {Missing, Null} \cup {"value", "other"}]

ASSUME ConstantsAssumption ==
  /\ Contents \subseteq Document /\ Patches \subseteq Document
  /\ Missing \notin Names /\ Missing # Null

(* A table is named by the words of its name: %s_document_collection for   *)
(* the collection endpoints, %s_collection for the others.                 *)
CollectionTable(word) == <<word, "document">>
DocumentTable(word)   == word
Tables == {CollectionTable(w) : w \in Words}

Row == [table : Tables, name : Names \cup {Missing}, document : Document]

(* `base` is the document in the snapshot; `alone` remembers that no other *)
(* statement has written the row since.  The names and documents that a    *)
(* statement writes are chosen at its end, as nothing depends on them      *)
(* before.                                                                 *)
Statement ==
  [op : {"create", "set", "update", "delete", "build", "drop"}, table : Given \cup Tables,
   id : Ids, base : Document \cup {Missing}, alone : BOOLEAN]

ASSUME NothingAssumption ==
  NoRow \notin Row /\ NoStatement \notin Statement /\ Ids # {}

VARIABLES
  tables,     \* the tables that exist
  indexes,    \* their indexes: [table, name]
  rows,       \* per uuid, its row or NoRow
  stmt,       \* per session, the statement it runs
  dead        \* history: uuids of documents that were deleted

vars == <<tables, indexes, rows, stmt, dead>>

Init ==
  /\ tables = {} /\ indexes = {} /\ dead = {}
  /\ rows = [i \in Ids |-> NoRow]
  /\ stmt = [s \in Sessions |-> NoStatement]

Exists(i)    == rows[i] # NoRow
Running(s)   == stmt[s] # NoStatement
Exclusive(x) == x.op \in {"build", "drop"}

\* Statements of others that hold a lock on the table.
Holders(s, t) == {r \in Sessions \ {s} : Running(r) /\ stmt[r].table = t}

Begin(s, x) ==
  /\ ~Running(s)
  /\ \A r \in Holders(s, x.table) : ~Exclusive(stmt[r])
  /\ stmt' = [stmt EXCEPT ![s] = x]
  /\ UNCHANGED <<tables, indexes, rows, dead>>

\* A row of this id in this table.
Hit(x) == Exists(x.id) /\ rows[x.id].table = x.table

OnRow(op, t, i) ==
  [op |-> op, table |-> t, id |-> i, alone |-> TRUE,
   base |-> IF Exists(i) /\ rows[i].table = t THEN rows[i].document ELSE Missing]

\* A statement on the whole table.
OnTable(op, t) == OnRow(op, t, CHOOSE i \in Ids : TRUE)

\* Session s ends its statement; others on the row it wrote are not alone.
Ended(s, wrote) ==
  stmt' = [r \in Sessions |->
             IF r = s THEN NoStatement
             ELSE IF Running(r) /\ stmt[r].id \in wrote
                  THEN [stmt[r] EXCEPT !.alone = FALSE] ELSE stmt[r]]

\* The statement is refused, or finds nothing to do.
NoEffect(s) == Ended(s, {}) /\ UNCHANGED <<tables, indexes, rows, dead>>

-----------------------------------------------------------------------------
(* Collections and indexes.                                                *)

create_collection(s) == \E w \in Words : Begin(s, OnTable("build", CollectionTable(w)))
delete_collection(s) == \E w \in Words : Begin(s, OnTable("drop", CollectionTable(w)))

\* Two indexes of the table's own, made in the same request as the table.
OwnIndexes(t) == {[table |-> t, name |-> <<"document", t>>], [table |-> t, name |-> <<"name", t>>]}

Waited(s) == Holders(s, stmt[s].table) = {}

\* CREATE TABLE IF NOT EXISTS, then CREATE INDEX, which is refused when the
\* table was there, and the whole request with it.
EndBuild(s) ==
  /\ Running(s) /\ stmt[s].op = "build" /\ Waited(s)
  /\ LET t == stmt[s].table IN
       \/ t \in tables /\ NoEffect(s)
       \/ /\ t \notin tables
          /\ tables' = tables \cup {t}
          /\ indexes' = indexes \cup OwnIndexes(t)
          /\ Ended(s, {}) /\ UNCHANGED <<rows, dead>>

Of(t) == {i \in Ids : Exists(i) /\ rows[i].table = t}

\* Mutant: the indexes stay.
EndDropKeepsIndexes(s) ==
  /\ Running(s) /\ stmt[s].op = "drop" /\ Waited(s)
  /\ LET t == stmt[s].table IN
       /\ tables' = tables \ {t} /\ UNCHANGED indexes
       /\ rows' = [i \in Ids |-> IF i \in Of(t) THEN NoRow ELSE rows[i]]
       /\ dead' = dead \cup Of(t)
       /\ Ended(s, Of(t))

\* DROP TABLE IF EXISTS
EndDrop(s) ==
  /\ Running(s) /\ stmt[s].op = "drop" /\ Waited(s)
  /\ LET t == stmt[s].table IN
       /\ tables' = tables \ {t}
       /\ indexes' = {x \in indexes : x.table # t}
       /\ rows' = [i \in Ids |-> IF i \in Of(t) THEN NoRow ELSE rows[i]]
       /\ dead' = dead \cup Of(t)
       /\ Ended(s, Of(t))

\* The name ends with the bytes of a pointer, not with the field.
IndexName(t, f) == {<<"index", t, b>> : b \in Bytes}

\* CREATE INDEX CONCURRENTLY
create_index(s) ==
  /\ ~Running(s)
  /\ \E g \in Given, f \in Fields : \E n \in IndexName(DocumentTable(g), f) :
       /\ DocumentTable(g) \in tables
       /\ \A x \in indexes : x.name # n
       /\ \A r \in Holders(s, DocumentTable(g)) : ~Exclusive(stmt[r])
       /\ indexes' = indexes \cup {[table |-> DocumentTable(g), name |-> n]}
  /\ UNCHANGED <<tables, rows, stmt, dead>>

\* DROP INDEX IF EXISTS, by the name the field gives.
delete_index(s) ==
  /\ ~Running(s)
  /\ \E g \in Given, f \in Fields :
       indexes' = {x \in indexes : x.name # <<"index", DocumentTable(g), f>>}
  /\ UNCHANGED <<tables, rows, stmt, dead>>

-----------------------------------------------------------------------------
(* Documents.                                                              *)

\* jsonb_strip_nulls(a || b)
Merge(a, b) == [f \in Fields |-> IF b[f] = Missing THEN a[f] ELSE b[f]]
Strip(a)    == [f \in Fields |-> IF a[f] = Null THEN Missing ELSE a[f]]

create_document(s) == \E g \in Given : Begin(s, OnTable("create", DocumentTable(g)))

Fresh  == {i \in Ids : ~Exists(i) /\ i \notin dead}
Rename == Names \cup {Missing}   \* the name that is given, if one is

\* INSERT of one document or, with "documents", of several at once (bounds:
\* two, and no more than there are fresh uuids).
EndCreate(s) ==
  /\ Running(s) /\ stmt[s].op = "create"
  /\ LET t == stmt[s].table IN
       \/ (t \notin tables \/ Fresh = {}) /\ NoEffect(s)
       \/ /\ t \in tables
          /\ \E new \in SUBSET Fresh, n \in Rename, d \in Contents :
               /\ Cardinality(new) \in {1, 2}
               /\ rows' = [i \in Ids |->
                    IF i \in new THEN [table |-> t, name |-> n, document |-> d]
                    ELSE rows[i]]
          /\ Ended(s, {}) /\ UNCHANGED <<tables, indexes, dead>>

set_document(s) ==
  \E g \in Given, i \in Ids : Begin(s, OnRow("set", DocumentTable(g), i))

update_document(s) ==
  \E g \in Given, i \in Ids : Begin(s, OnRow("update", DocumentTable(g), i))

delete_document(s) ==
  \E g \in Given, i \in Ids : Begin(s, OnRow("delete", DocumentTable(g), i))

Renamed(row, n) == [row EXCEPT !.name = IF n = Missing THEN @ ELSE n]

\* The row was there when the statement began and still is.
Reaches(x) == x.base # Missing /\ Hit(x)

\* A name or a document; for both, the SQL has too few values.
EndSet(s) ==
  /\ Running(s) /\ stmt[s].op = "set"
  /\ LET x == stmt[s] IN
       \/ NoEffect(s)
       \/ /\ Reaches(x)
          /\ \/ \E n \in Names : rows' = [rows EXCEPT ![x.id].name = n]
             \/ \E d \in Contents : rows' = [rows EXCEPT ![x.id].document = d]
          /\ Ended(s, {x.id}) /\ UNCHANGED <<tables, indexes, dead>>

\* Mutant: what is given, or not, is written over the document.
MergedOver(row, base, n, p) == [Renamed(row, n) EXCEPT !.document = p]

Merged(row, base, n, p) ==
  [Renamed(row, n) EXCEPT !.document =
     IF p = Missing THEN @ ELSE Strip(Merge(base, p))]

\* Mutant: a row that is gone is written again.
EndUpdateRevives(s) ==
  /\ Running(s) /\ stmt[s].op = "update"
  /\ LET x == stmt[s] IN
       \/ NoEffect(s)
       \/ /\ x.base # Missing
          /\ \E p \in Patches : rows' = [rows EXCEPT ![x.id] =
               [table |-> x.table, name |-> Missing, document |-> Strip(Merge(x.base, p))]]
          /\ Ended(s, {x.id}) /\ UNCHANGED <<tables, indexes, dead>>

\* A name, a document, or both.
EndUpdate(s) ==
  /\ Running(s) /\ stmt[s].op = "update"
  /\ LET x == stmt[s] IN
       \/ ~Reaches(x) /\ NoEffect(s)
       \/ /\ Reaches(x)
          /\ \E n \in Rename, p \in Patches \cup {Missing} :
               /\ n # Missing \/ p # Missing
               /\ rows' = [rows EXCEPT ![x.id] = Merged(@, x.base, n, p)]
          /\ Ended(s, {x.id}) /\ UNCHANGED <<tables, indexes, dead>>

EndDelete(s) ==
  /\ Running(s) /\ stmt[s].op = "delete"
  /\ LET x == stmt[s] IN
       IF ~Reaches(x) THEN NoEffect(s)
       ELSE /\ rows' = [rows EXCEPT ![x.id] = NoRow]
            /\ dead' = dead \cup {x.id}
            /\ Ended(s, {x.id}) /\ UNCHANGED <<tables, indexes>>

End(s) ==
  EndBuild(s) \/ EndDrop(s) \/ EndCreate(s) \/ EndSet(s) \/ EndUpdate(s) \/ EndDelete(s)

Request(s) ==
  \/ create_collection(s) \/ delete_collection(s) \/ create_index(s) \/ delete_index(s)
  \/ create_document(s) \/ set_document(s) \/ update_document(s) \/ delete_document(s)

Next == \E s \in Sessions : Request(s) \/ End(s)

Spec == Init /\ [][Next]_vars
-----------------------------------------------------------------------------
TypeOK ==
  /\ tables \subseteq Tables
  /\ \A x \in indexes : x.table \in Tables
  /\ rows \in [Ids -> Row \cup {NoRow}]
  /\ stmt \in [Sessions -> Statement \cup {NoStatement}]
  /\ dead \subseteq Ids

(* A collection is there with both of its own indexes or not at all, and   *)
(* neither rows nor indexes outlive it, whatever order two sessions create *)
(* and drop it in: `CREATE TABLE IF NOT EXISTS` is followed by a CREATE    *)
(* INDEX that is not, and the three are one request (collection.c:124-144, *)
(* 70-71).                                                                 *)
CollectionIsWhole ==
  /\ \A t \in tables : {x \in indexes : x.table = t /\ x.name[1] # "index"} = OwnIndexes(t)
  /\ \A x \in indexes : x.table \in tables
  /\ \A i \in Ids : Exists(i) => rows[i].table \in tables

(* An update that is alone on its row is atomic: it changes the members it *)
(* names in the document as it is, and drops the nulls (document.c:517-550).*)
(* Only when another statement writes the row between the sub-select's     *)
(* snapshot and the update can a member go back to an older value.         *)
LostOnlyToOverlap ==
  [][\A s \in Sessions :
       LET x == stmt[s] IN
         Running(s) /\ stmt'[s] = NoStatement /\ x.op = "update" /\ x.alone
           /\ Exists(x.id) /\ rows'[x.id] # rows[x.id] =>
             \E p \in Patches \cup {Missing} :
               rows'[x.id].document = IF p = Missing THEN rows[x.id].document
                                      ELSE Strip(Merge(rows[x.id].document, p))]_vars

(* A document that was deleted, or went with its collection, does not come *)
(* back, whatever was being written to it at the time (document.c:590-593, *)
(* collection.c:70-71).                                                    *)
DeadStayDead == \A i \in dead : ~Exists(i)

=============================================================================
