--------------------------- MODULE CatalogProofs ---------------------------
(***************************************************************************)
(* The ids of the catalog, for any number of names, clients, ids and       *)
(* restarts.  The inductive invariant says the same of the ids in          *)
(* catalog.json, since a restart makes them the ids in memory.             *)
(***************************************************************************)
EXTENDS Catalog, TLAPS

\* The types of the ids, in memory and in the file.
IdTypes ==
  /\ \A t \in DOMAIN tables :
       /\ tables[t] = [id |-> tables[t].id, indexes |-> tables[t].indexes]
       /\ tables[t].id \in Nat \ {0}
  /\ \A i \in DOMAIN indexes : indexes[i] \in Nat \ {0}
  /\ nextTableId \in Nat \ {0} /\ nextIndexId \in Nat \ {0}
  /\ drawn \in [Clients -> Nat]
  /\ file \notin {Absent, Torn} =>
       /\ \A t \in DOMAIN file.tables : file.tables[t] \in Nat \ {0}
       /\ \A i \in DOMAIN file.indexes : file.indexes[i] \in Nat \ {0}
       /\ file.nextTableId \in Nat \ {0} /\ file.nextIndexId \in Nat \ {0}

\* The inductive invariant.
IdInv == IdTypes /\ IdMapsInverse /\ IdsFresh

-----------------------------------------------------------------------------
(* What each change of a map does to its inverse. *)

\* A new key with a new value.
LEMMA PutInverse ==
  ASSUME NEW f, NEW g, InverseOf(g, f), NEW k, k \notin DOMAIN f,
         NEW v, \A x \in DOMAIN f : f[x] # v
  PROVE  InverseOf(Put(g, v, k), Put(f, k, v))
  <1>1. DOMAIN Put(g, v, k) = {Put(f, k, v)[x] : x \in DOMAIN Put(f, k, v)}
    BY Zenon DEF InverseOf, Put
  <1>2. ASSUME NEW x \in DOMAIN Put(f, k, v)
        PROVE  Put(g, v, k)[Put(f, k, v)[x]] = x
    BY DEF InverseOf, Put
  <1> QED BY <1>1, <1>2 DEF InverseOf

\* A key is erased from one map and its value from the other.
LEMMA EraseInverse ==
  ASSUME NEW f, NEW g, InverseOf(g, f), NEW k \in DOMAIN f
  PROVE  InverseOf(Erase(g, {f[k]}), Erase(f, {k}))
  BY DEF InverseOf, Erase

\* A key is replaced and its value kept.
LEMMA RenameInverse ==
  ASSUME NEW f, NEW g, InverseOf(g, f), NEW k \in DOMAIN f, NEW n, n \notin DOMAIN f
  PROVE  InverseOf(Put(g, f[k], n), Put(Erase(f, {k}), n, f[k]))
  BY ZenonT(30) DEF InverseOf, Put, Erase

\* buildIdMaps, when no value occurs twice.
LEMMA InvertedInverse ==
  ASSUME NEW f, \A x \in DOMAIN f : \A y \in DOMAIN f \ {x} : f[y] # f[x]
  PROVE  InverseOf(Inverted(f), f)
  BY DEF InverseOf, Inverted

-----------------------------------------------------------------------------
\* The constructor establishes the invariant.
LEMMA InitIds == Init => IdInv
  BY DEF Init, IdInv, IdTypes, IdMapsInverse, InverseOf, TableIds, IdsFresh, Nothing

\* What the id invariant reads; no other variable matters to it.
idState == <<tables, tableIdMap, indexes, indexIdMap, nextTableId, nextIndexId,
             drawn, file>>

\* A step that leaves the ids alone keeps it.
LEMMA SameIds == IdInv /\ UNCHANGED idState => IdInv'
  BY DEF IdInv, IdTypes, IdMapsInverse, TableIds, IdsFresh, idState

\* getNextTableId hands out an id that nothing has.
LEMMA DrawIds ==
  ASSUME IdInv, NEW c \in Clients, getNextTableId(c)
  PROVE  IdInv'
  <1>1. IdTypes'
    BY DEF IdInv, IdTypes, getNextTableId, tableVars, indexVars
  <1>2. IdMapsInverse'
    BY DEF IdInv, IdMapsInverse, TableIds, getNextTableId, tableVars, indexVars
  <1>3. IdsFresh'
    BY DEF IdInv, IdTypes, IdsFresh, getNextTableId, tableVars, indexVars
  <1> QED BY <1>1, <1>2, <1>3 DEF IdInv

\* createTable registers the drawn or the next id under a new name.
LEMMA CreateTableIds ==
  ASSUME IdInv, NEW c \in Clients, NEW name \in TableNames, createTable(c, name)
  PROVE  IdInv'
  <1> DEFINE new == NewTableId(drawn[c])
  <1>1. /\ new.id \in Nat \ {0} /\ new.next \in Nat \ {0} /\ new.id < new.next
        /\ nextTableId <= new.next
        /\ \A t \in DOMAIN tables : tables[t].id # new.id
        /\ \A d \in Clients \ {c} : drawn[d] # new.id
    BY DEF IdInv, IdTypes, IdsFresh, NewTableId
  <1>2. /\ tables' = Put(tables, name, [id |-> new.id, indexes |-> Nothing])
        /\ tableIdMap' = Put(tableIdMap, new.id, name)
        /\ nextTableId' = new.next
        /\ drawn' = [drawn EXCEPT ![c] = 0]
        /\ name \notin DOMAIN tables
        /\ UNCHANGED <<indexes, indexIdMap, nextIndexId, file>>
    BY DEF createTable, indexVars
  <1> HIDE DEF new
  <1>3. IdTypes'
    BY <1>1, <1>2 DEF IdInv, IdTypes, Put
  <1>4. IdMapsInverse'
    <2>1. TableIds' = Put(TableIds, name, new.id)
      BY <1>2 DEF TableIds, Put
    <2>2. InverseOf(tableIdMap', TableIds')
      BY <1>1, <1>2, <2>1, PutInverse DEF IdInv, IdMapsInverse, TableIds
    <2> QED BY <1>2, <2>2 DEF IdInv, IdMapsInverse
  <1>5. IdsFresh'
    BY <1>1, <1>2 DEF IdInv, IdTypes, IdsFresh, Put
  <1> QED BY <1>3, <1>4, <1>5 DEF IdInv

\* dropTable erases a name and its id together.
LEMMA DropTableIds ==
  ASSUME IdInv, NEW name \in TableNames, dropTable(name)
  PROVE  IdInv'
  <1>1. /\ tables' = Erase(tables, {name})
        /\ tableIdMap' = Erase(tableIdMap, {tables[name].id})
        /\ name \in DOMAIN tables
        /\ UNCHANGED <<nextTableId, nextIndexId, drawn, file>>
    BY DEF dropTable, idVars, processVars
  <1>2. Range(Lookup(tableIndexes, name)) = {}
    BY DEF dropTable, Range
  <1>3. indexes' = Erase(indexes, {}) /\ indexIdMap' = Erase(indexIdMap, {})
    BY <1>2, Zenon DEF dropTable
  <1>4. IdTypes'
    BY <1>1, <1>3 DEF IdInv, IdTypes, Erase
  <1>5. IdMapsInverse'
    <2>1. TableIds' = Erase(TableIds, {name})
      BY <1>1 DEF TableIds, Erase
    <2>2. InverseOf(tableIdMap', TableIds')
      BY <1>1, <2>1, EraseInverse DEF IdInv, IdMapsInverse, TableIds
    <2>3. InverseOf(indexIdMap', indexes')
      BY <1>3 DEF IdInv, IdMapsInverse, InverseOf, Erase
    <2> QED BY <2>2, <2>3 DEF IdMapsInverse
  <1>6. IdsFresh'
    BY <1>1, <1>3 DEF IdInv, IdsFresh, Erase
  <1> QED BY <1>4, <1>5, <1>6 DEF IdInv

\* renameTable moves an id from one name to another.
LEMMA RenameTableIds ==
  ASSUME IdInv, NEW old \in TableNames, NEW new \in TableNames, renameTable(old, new)
  PROVE  IdInv'
  <1>1. /\ tables' = Put(Erase(tables, {old}), new, tables[old])
        /\ tableIdMap' = Put(tableIdMap, tables[old].id, new)
        /\ old \in DOMAIN tables /\ new \notin DOMAIN tables
        /\ UNCHANGED <<indexes, indexIdMap, nextTableId, nextIndexId, drawn, file>>
    BY DEF renameTable, RenamedIdMap, indexVars, idVars, processVars
  <1>2. IdTypes'
    BY <1>1 DEF IdInv, IdTypes, Put, Erase
  <1>3. IdMapsInverse'
    <2>1. TableIds' = Put(Erase(TableIds, {old}), new, TableIds[old])
      BY <1>1 DEF TableIds, Put, Erase
    <2>2. old \in DOMAIN TableIds /\ new \notin DOMAIN TableIds
          /\ TableIds[old] = tables[old].id
      BY <1>1 DEF TableIds
    <2>3. InverseOf(tableIdMap', TableIds')
      BY <1>1, <2>1, <2>2, RenameInverse DEF IdInv, IdMapsInverse
    <2> QED BY <1>1, <2>3 DEF IdInv, IdMapsInverse
  <1>4. IdsFresh'
    BY <1>1 DEF IdInv, IdsFresh, Put, Erase
  <1> QED BY <1>2, <1>3, <1>4 DEF IdInv

\* createIndex uses up the next index id.
LEMMA CreateIndexIds ==
  ASSUME IdInv, NEW name \in IndexNames, NEW table \in TableNames,
         NEW columns, createIndex(name, table, columns)
  PROVE  IdInv'
  <1>1. /\ indexes' = Put(indexes, name, nextIndexId)
        /\ indexIdMap' = Put(indexIdMap, nextIndexId, name)
        /\ name \notin DOMAIN indexes
        /\ nextIndexId' = nextIndexId + 1
        /\ UNCHANGED <<tableIdMap, nextTableId, drawn, file>>
    BY DEF createIndex, processVars
  <1>2. /\ DOMAIN tables' = DOMAIN tables
        /\ \A t \in DOMAIN tables :
             /\ tables'[t] = [id |-> tables'[t].id, indexes |-> tables'[t].indexes]
             /\ tables'[t].id = tables[t].id
    BY DEF createIndex, IdInv, IdTypes
  <1>3. IdTypes'
    BY <1>1, <1>2 DEF IdInv, IdTypes, Put
  <1>4. IdMapsInverse'
    <2>1. TableIds' = TableIds
      BY <1>2 DEF TableIds
    <2>2. \A i \in DOMAIN indexes : indexes[i] # nextIndexId
      BY DEF IdInv, IdTypes, IdsFresh
    <2>3. InverseOf(indexIdMap', indexes')
      BY <1>1, <2>2, PutInverse DEF IdInv, IdMapsInverse
    <2> QED BY <1>1, <2>1, <2>3 DEF IdInv, IdMapsInverse
  <1>5. IdsFresh'
    BY <1>1, <1>2 DEF IdInv, IdTypes, IdsFresh, Put
  <1> QED BY <1>3, <1>4, <1>5 DEF IdInv

\* dropIndex erases an index from both maps and touches no table id.
LEMMA DropIndexIds ==
  ASSUME IdInv, NEW name \in IndexNames, dropIndex(name)
  PROVE  IdInv'
  <1>1. /\ indexes' = Erase(indexes, {name})
        /\ indexIdMap' = Erase(indexIdMap, {indexes[name]})
        /\ tables' = WithoutReferences(indexes[name])
        /\ name \in DOMAIN indexes
        /\ UNCHANGED <<tableIdMap, nextTableId, nextIndexId, drawn, file>>
    BY DEF dropIndex, idVars, processVars
  <1>2. /\ DOMAIN tables' = DOMAIN tables
        /\ \A t \in DOMAIN tables :
             /\ tables'[t] = [id |-> tables'[t].id, indexes |-> tables'[t].indexes]
             /\ tables'[t].id = tables[t].id
    <2>1. ASSUME NEW t \in DOMAIN tables
          PROVE  \E kept : tables'[t] = [id |-> tables[t].id, indexes |-> kept]
      <3>1. PICK kept : tables'[t] = [tables[t] EXCEPT !.indexes = kept]
        BY <1>1, Zenon DEF WithoutReferences
      <3>2. tables[t] = [id |-> tables[t].id, indexes |-> tables[t].indexes]
        BY DEF IdInv, IdTypes
      <3> QED BY <3>1, <3>2, Zenon
    <2>2. DOMAIN tables' = DOMAIN tables
      BY <1>1 DEF WithoutReferences
    <2> QED BY <2>1, <2>2
  <1>3. IdTypes'
    BY <1>1, <1>2 DEF IdInv, IdTypes, Erase
  <1>4. IdMapsInverse'
    <2>1. TableIds' = TableIds
      BY <1>2 DEF TableIds
    <2>2. InverseOf(indexIdMap', indexes')
      BY <1>1, EraseInverse DEF IdInv, IdMapsInverse
    <2> QED BY <1>1, <2>1, <2>2 DEF IdInv, IdMapsInverse
  <1>5. IdsFresh'
    BY <1>1, <1>2 DEF IdInv, IdsFresh, Erase
  <1> QED BY <1>3, <1>4, <1>5 DEF IdInv

\* save writes ids that are different and below the next ids.
LEMMA SaveIds ==
  ASSUME IdInv, saveOpen \/ saveWrite
  PROVE  IdInv'
  <1>1. UNCHANGED <<tables, tableIdMap, indexes, indexIdMap, nextTableId,
                    nextIndexId, drawn>>
    BY DEF saveOpen, saveWrite, memory, tableVars, indexVars, idVars
  <1>2. IdMapsInverse'
    BY <1>1 DEF IdInv, IdMapsInverse, TableIds
  <1>3. CASE saveOpen
    BY <1>1, <1>2, <1>3 DEF IdInv, IdTypes, IdsFresh, saveOpen
  <1>4. CASE saveWrite
    <2>1. /\ file'.tables = TableIds /\ file'.indexes = indexes
          /\ file'.nextTableId = nextTableId /\ file'.nextIndexId = nextIndexId
      BY <1>4 DEF saveWrite, serialize
    <2>2. /\ \A t \in DOMAIN TableIds : \A u \in DOMAIN TableIds \ {t} :
               TableIds[u] # TableIds[t]
          /\ \A i \in DOMAIN indexes : \A j \in DOMAIN indexes \ {i} :
               indexes[j] # indexes[i]
      BY DEF IdInv, IdMapsInverse, InverseOf
    <2>3. DOMAIN TableIds = DOMAIN tables
          /\ \A t \in DOMAIN tables : TableIds[t] = tables[t].id
      BY DEF TableIds
    <2>4. IdTypes'
      BY <1>1, <2>1, <2>3 DEF IdInv, IdTypes
    <2>5. IdsFresh'
      BY <1>1, <2>1, <2>2, <2>3 DEF IdInv, IdsFresh
    <2> QED BY <1>2, <2>4, <2>5 DEF IdInv
  <1> QED BY <1>3, <1>4

\* load rebuilds the id maps from the file.
LEMMA RestartIds ==
  ASSUME IdInv, Restart
  PROVE  IdInv'
  <1>1. drawn' = [c \in Clients |-> 0] /\ file' = file
    BY DEF Restart
  <1>2. CASE file \in {Absent, Torn}
    <2>1. Fresh
      BY <1>2 DEF Restart
    <2> QED BY <1>1, <1>2, <2>1
        DEF Fresh, IdInv, IdTypes, IdMapsInverse, InverseOf, TableIds, IdsFresh, Nothing
  <1>3. CASE file \notin {Absent, Torn}
    <2>1. deserialize(file)
      BY <1>3 DEF Restart
    <2>2. /\ TableIds' = [t \in DOMAIN file.tables |-> file.tables[t]]
          /\ indexes' = file.indexes
      BY <2>1 DEF deserialize, TableIds
    <2>3. IdTypes'
      BY <1>1, <1>3, <2>1 DEF deserialize, IdInv, IdTypes
    <2>4. InverseOf(Inverted(file.tables), file.tables)
          /\ InverseOf(Inverted(file.indexes), file.indexes)
      BY <1>3, InvertedInverse DEF IdInv, IdsFresh
    <2>5. IdMapsInverse'
      BY <2>1, <2>2, <2>4 DEF deserialize, IdMapsInverse, InverseOf
    <2>6. IdsFresh'
      <3>1. /\ DOMAIN tables' = DOMAIN file.tables
            /\ \A t \in DOMAIN tables' : tables'[t].id = file.tables[t]
            /\ nextTableId' = file.nextTableId /\ nextIndexId' = file.nextIndexId
        BY <2>1 DEF deserialize
      <3>2. \A t \in DOMAIN tables' : tables'[t].id < nextTableId'
        BY <1>3, <3>1 DEF IdInv, IdsFresh
      <3>3. \A i \in DOMAIN indexes' : indexes'[i] < nextIndexId'
        BY <1>3, <2>2, <3>1 DEF IdInv, IdsFresh
      <3>4. \A c \in Clients : drawn'[c] = 0 /\ 0 < nextTableId'
        BY <1>1, <1>3, <3>1 DEF IdInv, IdTypes
      <3> QED BY <1>1, <1>3, <3>2, <3>3, <3>4 DEF IdInv, IdsFresh
    <2> QED BY <2>3, <2>5, <2>6 DEF IdInv
  <1> QED BY <1>2, <1>3

-----------------------------------------------------------------------------
\* The invariant is inductive.
LEMMA NextIds == IdInv /\ [Next]_vars => IdInv'
  <1> SUFFICES ASSUME IdInv, [Next]_vars
               PROVE  IdInv'
    OBVIOUS
  <1> USE DEF tableVars, indexVars, constraintVars, otherVars, idVars, processVars, memory
  <1>1. CASE \E c \in Clients : getNextTableId(c)
    BY <1>1, DrawIds
  <1>2. CASE \E c \in Clients, t \in TableNames : createTable(c, t)
    BY <1>2, CreateTableIds
  <1>3. ASSUME NEW t \in TableNames, dropTable(t) \/ dropTableRelocks(t)
        PROVE  IdInv'
    <2>1. CASE dropTable(t)
      BY <2>1, DropTableIds
    <2>2. CASE dropTableRelocks(t)
      BY <2>2, SameIds DEF dropTableRelocks, Relock, idState
    <2> QED BY <1>3, <2>1, <2>2
  <1>4. CASE \E old, new \in TableNames : renameTable(old, new)
    BY <1>4, RenameTableIds
  <1>5. CASE \E i \in IndexNames, t \in TableNames, cs \in SUBSET ColumnNames \ {{}} :
               createIndex(i, t, cs)
    BY <1>5, CreateIndexIds
  <1>6. CASE \E i \in IndexNames : dropIndex(i)
    BY <1>6, DropIndexIds
  <1>7. CASE \E id \in 1..MaxIndexId : dropIndexById(id)
    BY <1>7, SameIds DEF dropIndexById, Relock, idState
  <1>8. CASE \E t \in TableNames, k \in ConstraintNames, info \in Infos :
               addConstraint(t, k, info)
    BY <1>8, SameIds DEF addConstraint, idState
  <1>9. CASE \E t \in TableNames, k \in ConstraintNames : dropConstraint(t, k)
    BY <1>9, SameIds DEF dropConstraint, idState
  <1>10. CASE \E s \in SequenceNames, info \in SequenceInfos : createSequence(s, info)
    BY <1>10, SameIds DEF createSequence, idState
  <1>11. CASE \E s \in SequenceNames : dropSequence(s) \/ nextValue(s)
    BY <1>11, SameIds DEF dropSequence, nextValue, idState
  <1>12. CASE \E v \in ViewNames, q \in SUBSET TableNames : createView(v, q)
    BY <1>12, SameIds DEF createView, idState
  <1>13. CASE \E v \in ViewNames : dropView(v)
    BY <1>13, SameIds DEF dropView, idState
  <1>14. CASE saveOpen \/ saveWrite
    BY <1>14, SaveIds
  <1>15. CASE Restart
    BY <1>15, RestartIds
  <1>16. CASE UNCHANGED vars
    BY <1>16, SameIds DEF vars, idState
  <1> QED BY <1>1, <1>2, <1>3, <1>4, <1>5, <1>6, <1>7, <1>8, <1>9, <1>10, <1>11,
             <1>12, <1>13, <1>14, <1>15, <1>16 DEF Next

\* The id maps of the catalog are inverses of its tables and indexes, for any
\* number of them and after any number of crashes and restarts.
THEOREM IdMapsCorrect == Spec => []IdMapsInverse
  <1>1. IdInv => IdMapsInverse
    BY DEF IdInv
  <1> QED BY InitIds, NextIds, <1>1, PTL DEF Spec

\* No table or index id is given out twice, however many clients draw table
\* ids at the same time and wherever the process is cut off.
THEOREM IdsCorrect == Spec => []IdsFresh
  <1>1. IdInv => IdsFresh
    BY DEF IdInv
  <1> QED BY InitIds, NextIds, <1>1, PTL DEF Spec
=============================================================================
