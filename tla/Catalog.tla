------------------------------ MODULE Catalog ------------------------------
(***************************************************************************)
(* metadata/catalog.{h,cpp}: the tables, indexes, constraints, sequences   *)
(* and views by name, the id maps kept beside them, and catalog.json.      *)
(*                                                                         *)
(* Every operation holds rw_mutex_ and is one step; one that returns       *)
(* NOT_FOUND, ALREADY_EXISTS or ERROR changes nothing and is no step.      *)
(* Columns, queries and check expressions are reduced to the names the     *)
(* catalog looks for in them.  getNextTableId is atomic and takes no lock: *)
(* a statement draws its table id some time before it calls createTable.   *)
(*                                                                         *)
(* dropTable and dropIndex(id) take rw_mutex_ a second time in the same    *)
(* thread.  That is undefined behaviour: glibc reports EDEADLK, which      *)
(* libstdc++ throws, other builds wait for themselves for ever.            *)
(***************************************************************************)
EXTENDS Integers, Sequences, FiniteSets, Functions

CONSTANTS TableNames, IndexNames, ColumnNames, ConstraintNames, ViewNames,
          SequenceNames,
          SequenceInfos,   \* the SequenceInfo values createSequence is given
          Clients,         \* threads that run CREATE TABLE
          RelockOutcomes,  \* what relocking rw_mutex_ does: "throw", "block"
          MaxInt,          \* the largest int64_t
          MaxTableId, MaxIndexId, \* bounds: ids given out
          MaxListed,       \* bound: entries of a constraint list
          Absent, Torn     \* catalog.json is missing; is cut short

ASSUME CatalogAssumption ==
  /\ RelockOutcomes \subseteq {"throw", "block"}
  /\ MaxInt \in Nat
  /\ Absent # Torn

VARIABLES
  tables,            \* tables_: name -> [id, indexes : column -> index id]
  tableIdMap,        \* table_id_map_
  indexes,           \* indexes_: name -> id
  indexIdMap,        \* index_id_map_
  tableIndexes,      \* table_indexes_: table name -> ids
  constraints,       \* constraints_: name -> [table, ref]
  tableConstraints,  \* table_constraints_: table name -> constraint names
  sequences,         \* sequences_
  views,             \* views_: name -> the table names in its query
  nextTableId,       \* next_table_id_
  nextIndexId,       \* next_index_id_
  drawn,             \* the id each client holds for its CREATE TABLE, or 0
  directories,       \* the tables that have a directory under DATA_DIR
  file,              \* catalog.json: Absent, Torn or what serialize wrote
  saving,            \* save() has opened catalog.json and not written it
  stuck              \* a thread waits for the rw_mutex_ it holds

tableVars == <<tables, tableIdMap>>
indexVars == <<indexes, indexIdMap, tableIndexes>>
constraintVars == <<constraints, tableConstraints>>
otherVars == <<sequences, views>>
idVars == <<nextTableId, nextIndexId>>
processVars == <<drawn, saving, stuck>>
memory == <<tableVars, indexVars, constraintVars, otherVars, idVars>>
vars == <<memory, processVars, directories, file>>

Nothing == [x \in {} |-> 0]
Put(f, k, v) == [x \in DOMAIN f \cup {k} |-> IF x = k THEN v ELSE f[x]]
Erase(f, S) == [x \in DOMAIN f \ S |-> f[x]]
InverseOf(g, f) ==
  /\ DOMAIN g = {f[x] : x \in DOMAIN f}
  /\ \A x \in DOMAIN f : g[f[x]] = x
Lookup(f, k) == IF k \in DOMAIN f THEN f[k] ELSE <<>>

TableIds == [t \in DOMAIN tables |-> tables[t].id]

\* The Catalog is constructed and nothing was ever saved.
Init ==
  /\ tables = Nothing /\ tableIdMap = Nothing
  /\ indexes = Nothing /\ indexIdMap = Nothing /\ tableIndexes = Nothing
  /\ constraints = Nothing /\ tableConstraints = Nothing
  /\ sequences = Nothing /\ views = Nothing
  /\ nextTableId = 1 /\ nextIndexId = 1
  /\ drawn = [c \in Clients |-> 0]
  /\ directories = {} /\ file = Absent
  /\ saving = FALSE /\ stuck = FALSE

\* rw_mutex_ can be taken, and the process is not on its way out.
Free == ~stuck /\ ~saving

\* rw_mutex_ is taken by the thread that holds it.
Relock ==
  /\ \E outcome \in RelockOutcomes : stuck' = (outcome = "block")
  /\ UNCHANGED <<memory, drawn, saving, directories, file>>

-----------------------------------------------------------------------------
(* Tables *)

getNextTableId(c) ==
  /\ ~saving /\ drawn[c] = 0 /\ nextTableId <= MaxTableId
  /\ drawn' = [drawn EXCEPT ![c] = nextTableId]
  /\ nextTableId' = nextTableId + 1
  /\ UNCHANGED <<tableVars, indexVars, constraintVars, otherVars, nextIndexId,
                 saving, stuck, directories, file>>

\* Mutant: a schema without an id gets the next id and does not use it up.
NewTableIdKept(id) ==
  IF id = 0
  THEN [id |-> nextTableId, next |-> nextTableId]
  ELSE [id |-> id, next |-> nextTableId]

\* The id of a schema that arrives with `id`, and next_table_id_ after it.
NewTableId(id) ==
  IF id = 0
  THEN [id |-> nextTableId, next |-> nextTableId + 1]
  ELSE [id |-> id, next |-> nextTableId]

\* With the id that client c drew, or with none.  create_directories may
\* throw; the table stays.
createTable(c, name) ==
  /\ Free /\ name \notin DOMAIN tables
  /\ drawn[c] # 0 \/ nextTableId <= MaxTableId
  /\ LET new == NewTableId(drawn[c])
     IN  /\ tables' = Put(tables, name, [id |-> new.id, indexes |-> Nothing])
         /\ tableIdMap' = Put(tableIdMap, new.id, name)
         /\ nextTableId' = new.next
  /\ drawn' = [drawn EXCEPT ![c] = 0]
  /\ directories' \in {directories, directories \cup {name}}
  /\ UNCHANGED <<indexVars, constraintVars, otherVars, nextIndexId, saving,
                 stuck, file>>

\* canDrop: no view and no constraint mentions the table.
NothingDependsOn(name) ==
  /\ \A v \in DOMAIN views : name \notin views[v]
  /\ \A k \in DOMAIN constraints :
       constraints[k].table # name /\ constraints[k].ref # name

\* getDependencies asks getIndexName, which locks, for each listed index.
dropTableRelocks(name) ==
  /\ Free /\ name \in DOMAIN tables
  /\ Lookup(tableIndexes, name) # <<>>
  /\ Relock

dropTable(name) ==
  /\ Free /\ name \in DOMAIN tables
  /\ Lookup(tableIndexes, name) = <<>> /\ NothingDependsOn(name)
  /\ LET ids == Range(Lookup(tableIndexes, name))
     IN  /\ indexes' = Erase(indexes, {indexIdMap[i] : i \in ids})
         /\ indexIdMap' = Erase(indexIdMap, ids)
         /\ tableIndexes' = Erase(tableIndexes, {name})
  /\ constraints' = Erase(constraints, Range(Lookup(tableConstraints, name)))
  /\ tableConstraints' = Erase(tableConstraints, {name})
  /\ tables' = Erase(tables, {name})
  /\ tableIdMap' = Erase(tableIdMap, {tables[name].id})
  /\ directories' \in {directories, directories \ {name}}
  /\ UNCHANGED <<otherVars, idVars, processVars, file>>

\* Mutant: the id keeps its old name.
RenamedIdMapOld(old, new) == tableIdMap

RenamedIdMap(old, new) == Put(tableIdMap, tables[old].id, new)

\* std::filesystem::rename throws when there is no old directory.  What is
\* listed under the old name stays there.
renameTable(old, new) ==
  /\ Free /\ old \in DOMAIN tables /\ new \notin DOMAIN tables
  /\ tables' = Put(Erase(tables, {old}), new, tables[old])
  /\ tableIdMap' = RenamedIdMap(old, new)
  /\ directories' \in {directories} \cup
       (IF old \in directories THEN {(directories \ {old}) \cup {new}} ELSE {})
  /\ UNCHANGED <<indexVars, constraintVars, otherVars, idVars, processVars, file>>

-----------------------------------------------------------------------------
(* Indexes *)

createIndex(name, table, columns) ==
  /\ Free /\ name \notin DOMAIN indexes /\ table \in DOMAIN tables
  /\ nextIndexId <= MaxIndexId
  /\ nextIndexId' = nextIndexId + 1
  /\ indexes' = Put(indexes, name, nextIndexId)
  /\ indexIdMap' = Put(indexIdMap, nextIndexId, name)
  /\ tableIndexes' =
       Put(tableIndexes, table, Append(Lookup(tableIndexes, table), nextIndexId))
  /\ tables' = [tables EXCEPT ![table].indexes =
       [c \in DOMAIN @ \cup columns |-> IF c \in columns THEN nextIndexId ELSE @[c]]]
  /\ UNCHANGED <<tableIdMap, constraintVars, otherVars, nextTableId, processVars,
                 directories, file>>

\* The schemas without the columns that index `id` serves.
WithoutReferences(id) ==
  [t \in DOMAIN tables |->
     LET served == {c \in DOMAIN tables[t].indexes : tables[t].indexes[c] = id}
     IN  [tables[t] EXCEPT !.indexes = Erase(@, served)]]

\* Mutant: the lists keep the dropped index.
WithoutListedNone(id) == tableIndexes

\* The index lists without `id`, which is in one of them at most.
WithoutListed(id) ==
  [t \in DOMAIN tableIndexes |-> SelectSeq(tableIndexes[t], LAMBDA i : i # id)]

dropIndex(name) ==
  /\ Free /\ name \in DOMAIN indexes
  /\ LET id == indexes[name]
     IN  /\ tables' = WithoutReferences(id)
         /\ tableIndexes' = WithoutListed(id)
         /\ indexIdMap' = Erase(indexIdMap, {id})
  /\ indexes' = Erase(indexes, {name})
  /\ UNCHANGED <<tableIdMap, constraintVars, otherVars, idVars, processVars,
                 directories, file>>

\* dropIndex(IndexId) calls dropIndex(name) under its own lock.
dropIndexById(id) ==
  /\ Free /\ id \in DOMAIN indexIdMap
  /\ Relock

-----------------------------------------------------------------------------
(* Constraints, sequences and views *)

\* std::find and erase: the first `name` of the list goes.
WithoutFirst(list, name) ==
  LET At == {i \in DOMAIN list : list[i] = name}
      first == CHOOSE i \in At : \A j \in At : i <= j
  IN  IF At = {} THEN list
      ELSE SubSeq(list, 1, first - 1) \o SubSeq(list, first + 1, Len(list))

addConstraint(table, name, info) ==
  /\ Free /\ name \notin DOMAIN constraints
  /\ Len(Lookup(tableConstraints, table)) < MaxListed
  /\ constraints' = Put(constraints, name, info)
  /\ tableConstraints' =
       Put(tableConstraints, table, Append(Lookup(tableConstraints, table), name))
  /\ UNCHANGED <<tableVars, indexVars, otherVars, idVars, processVars,
                 directories, file>>

dropConstraint(table, name) ==
  /\ Free /\ name \in DOMAIN constraints
  /\ constraints' = Erase(constraints, {name})
  /\ tableConstraints' = [t \in DOMAIN tableConstraints |->
       IF t = table THEN WithoutFirst(tableConstraints[t], name)
       ELSE tableConstraints[t]]
  /\ UNCHANGED <<tableVars, indexVars, otherVars, idVars, processVars,
                 directories, file>>

createSequence(name, info) ==
  /\ Free /\ name \notin DOMAIN sequences
  /\ sequences' = Put(sequences, name, info)
  /\ UNCHANGED <<tableVars, indexVars, constraintVars, views, idVars,
                 processVars, directories, file>>

dropSequence(name) ==
  /\ Free /\ name \in DOMAIN sequences
  /\ sequences' = Erase(sequences, {name})
  /\ UNCHANGED <<tableVars, indexVars, constraintVars, views, idVars,
                 processVars, directories, file>>

\* int64_t addition of a positive or negative step, as the builds wrap it.
PlusInt(a, b) ==
  IF a + b > MaxInt THEN a + b - 2 * (MaxInt + 1)
  ELSE IF a + b < -(MaxInt + 1) THEN a + b + 2 * (MaxInt + 1)
  ELSE a + b

\* Mutant: a sequence past its limit starts over at 0.
AdvancedToZero(seq) ==
  LET next == PlusInt(seq.current, seq.increment)
  IN  IF next > seq.max THEN 0 ELSE next

\* current_value after nextValue has taken it.
Advanced(seq) ==
  LET next == PlusInt(seq.current, seq.increment)
  IN  IF next <= seq.max THEN next
      ELSE IF seq.cycle THEN seq.min ELSE seq.max

nextValue(name) ==
  /\ Free /\ name \in DOMAIN sequences
  /\ sequences' = [sequences EXCEPT ![name].current = Advanced(sequences[name])]
  /\ UNCHANGED <<tableVars, indexVars, constraintVars, views, idVars,
                 processVars, directories, file>>

createView(name, query) ==
  /\ Free /\ name \notin DOMAIN views
  /\ views' = Put(views, name, query)
  /\ UNCHANGED <<tableVars, indexVars, constraintVars, sequences, idVars,
                 processVars, directories, file>>

dropView(name) ==
  /\ Free /\ name \in DOMAIN views
  /\ views' = Erase(views, {name})
  /\ UNCHANGED <<tableVars, indexVars, constraintVars, sequences, idVars,
                 processVars, directories, file>>

-----------------------------------------------------------------------------
(* catalog.json *)

\* Neither the schemas' index columns nor the index lists are written.
serialize ==
  [nextTableId |-> nextTableId, nextIndexId |-> nextIndexId,
   tables |-> TableIds,
   indexes |-> indexes, constraints |-> constraints,
   sequences |-> sequences, views |-> views]

\* save() of shutdown() and of the destructor: opening truncates the file.
saveOpen ==
  /\ ~saving
  /\ saving' = TRUE /\ file' = Torn
  /\ UNCHANGED <<memory, drawn, stuck, directories>>

saveWrite ==
  /\ saving
  /\ saving' = FALSE /\ file' = serialize
  /\ UNCHANGED <<memory, drawn, stuck, directories>>

\* The keys of f by their value.
Inverted(f) ==
  [v \in {f[x] : x \in DOMAIN f} |-> CHOOSE x \in DOMAIN f : f[x] = v]

\* Mutant: the constraints are read, the lists are not.
ConstraintListsNone(cs) == Nothing

\* table_constraints_ as deserialize rebuilds it: by the constraints' tables.
ConstraintLists(cs) ==
  [t \in {cs[k].table : k \in DOMAIN cs} |->
     LET names == {k \in DOMAIN cs : cs[k].table = t}
     IN  CHOOSE list \in [1..Cardinality(names) -> names] : Range(list) = names]

\* deserialize and buildIdMaps, into a new Catalog.
deserialize(f) ==
  /\ nextTableId' = f.nextTableId /\ nextIndexId' = f.nextIndexId
  /\ tables' = [t \in DOMAIN f.tables |-> [id |-> f.tables[t], indexes |-> Nothing]]
  /\ indexes' = f.indexes
  /\ constraints' = f.constraints
  /\ tableConstraints' = ConstraintLists(f.constraints)
  /\ sequences' = f.sequences
  /\ views' = f.views
  /\ tableIdMap' = Inverted(f.tables)
  /\ indexIdMap' = Inverted(f.indexes)
  /\ tableIndexes' = Nothing

\* The constructor, where load() returns NOT_FOUND or ERROR.
Fresh ==
  /\ tables' = Nothing /\ tableIdMap' = Nothing
  /\ indexes' = Nothing /\ indexIdMap' = Nothing /\ tableIndexes' = Nothing
  /\ constraints' = Nothing /\ tableConstraints' = Nothing
  /\ sequences' = Nothing /\ views' = Nothing
  /\ nextTableId' = 1 /\ nextIndexId' = 1

\* The process ends, wherever it is, and another one constructs a Catalog
\* and calls init().
Restart ==
  /\ IF file \in {Absent, Torn} THEN Fresh ELSE deserialize(file)
  /\ drawn' = [c \in Clients |-> 0]
  /\ saving' = FALSE /\ stuck' = FALSE
  /\ UNCHANGED <<directories, file>>

Infos == [table : TableNames, ref : TableNames \cup {""}]

Next ==
  \/ \E c \in Clients : getNextTableId(c)
  \/ \E c \in Clients, t \in TableNames : createTable(c, t)
  \/ \E t \in TableNames : dropTable(t) \/ dropTableRelocks(t)
  \/ \E old, new \in TableNames : renameTable(old, new)
  \/ \E i \in IndexNames, t \in TableNames, cs \in SUBSET ColumnNames \ {{}} :
       createIndex(i, t, cs)
  \/ \E i \in IndexNames : dropIndex(i)
  \/ \E id \in 1..MaxIndexId : dropIndexById(id)
  \/ \E t \in TableNames, k \in ConstraintNames, info \in Infos :
       addConstraint(t, k, info)
  \/ \E t \in TableNames, k \in ConstraintNames : dropConstraint(t, k)
  \/ \E s \in SequenceNames, info \in SequenceInfos : createSequence(s, info)
  \/ \E s \in SequenceNames : dropSequence(s) \/ nextValue(s)
  \/ \E v \in ViewNames, q \in SUBSET TableNames : createView(v, q)
  \/ \E v \in ViewNames : dropView(v)
  \/ saveOpen \/ saveWrite
  \/ Restart

Spec == Init /\ [][Next]_vars

-----------------------------------------------------------------------------
(* What holds *)

\* The maps have the types catalog.h gives them, and ids start at 1.
TypeOK ==
  /\ \A t \in DOMAIN tables :
       /\ t \in TableNames
       /\ tables[t] = [id |-> tables[t].id, indexes |-> tables[t].indexes]
       /\ tables[t].id \in Nat \ {0}
       /\ DOMAIN tables[t].indexes \subseteq ColumnNames
  /\ \A i \in DOMAIN indexes : i \in IndexNames /\ indexes[i] \in Nat \ {0}
  /\ \A t \in DOMAIN tableIndexes : t \in TableNames /\ tableIndexes[t] \in Seq(Nat)
  /\ \A k \in DOMAIN constraints : k \in ConstraintNames /\ constraints[k] \in Infos
  /\ \A t \in DOMAIN tableConstraints :
       t \in TableNames /\ tableConstraints[t] \in Seq(ConstraintNames)
  /\ DOMAIN sequences \subseteq SequenceNames
  /\ \A v \in DOMAIN views : v \in ViewNames /\ views[v] \subseteq TableNames
  /\ nextTableId \in Nat \ {0} /\ nextIndexId \in Nat \ {0}
  /\ drawn \in [Clients -> Nat]
  /\ directories \subseteq TableNames
  /\ saving \in BOOLEAN /\ stuck \in BOOLEAN

\* table_id_map_ and index_id_map_ are the inverses of tables_ and indexes_,
\* after any order of creations, drops, renames, failed directory calls and
\* restarts: getTableById and getIndexName never name something else.
IdMapsInverse == InverseOf(tableIdMap, TableIds) /\ InverseOf(indexIdMap, indexes)

\* The ids in use, and the ids statements have drawn and not used yet, are
\* all different and below the next id, in memory and in the file: neither a
\* concurrent CREATE TABLE nor a restart gives an id out twice.
IdsFresh ==
  /\ \A t \in DOMAIN tables : tables[t].id < nextTableId
  /\ \A i \in DOMAIN indexes : indexes[i] < nextIndexId
  /\ \A c \in Clients :
       /\ drawn[c] < nextTableId
       /\ drawn[c] # 0 =>
            /\ \A t \in DOMAIN tables : tables[t].id # drawn[c]
            /\ \A d \in Clients \ {c} : drawn[d] # drawn[c]
  /\ file \notin {Absent, Torn} =>
       /\ \A t \in DOMAIN file.tables :
            /\ file.tables[t] < file.nextTableId
            /\ \A u \in DOMAIN file.tables \ {t} : file.tables[u] # file.tables[t]
       /\ \A i \in DOMAIN file.indexes :
            /\ file.indexes[i] < file.nextIndexId
            /\ \A j \in DOMAIN file.indexes \ {i} : file.indexes[j] # file.indexes[i]

\* An index is listed for at most one table, once, and only while it exists:
\* that dropIndex stops at the first list is enough, and listIndexes never
\* shows an empty name.  A column that a schema says is served by an index is
\* served by one that exists, across renames and restarts.
ListedOnce ==
  /\ TypeOK
  /\ \A t \in DOMAIN tables : \A c \in DOMAIN tables[t].indexes :
       tables[t].indexes[c] \in DOMAIN indexIdMap
  /\ \A t \in DOMAIN tableIndexes : Range(tableIndexes[t]) \subseteq DOMAIN indexIdMap
  /\ \A t, u \in DOMAIN tableIndexes :
       \A i \in DOMAIN tableIndexes[t], j \in DOMAIN tableIndexes[u] :
         tableIndexes[t][i] = tableIndexes[u][j] => t = u /\ i = j

\* Every constraint can be found from some table's list, which is the only
\* way getConstraints has to it.
ConstraintsListed ==
  \A k \in DOMAIN constraints :
    \E t \in DOMAIN tableConstraints : k \in Range(tableConstraints[t])

\* A sequence that counts up from within its limits, with room for one more
\* step below the largest int64_t, stays within its limits.
SequencesInLimits ==
  \A s \in DOMAIN sequences :
    LET seq == sequences[s]
    IN  /\ seq.increment > 0
        /\ seq.start \in seq.min..seq.max
        /\ seq.max + seq.increment <= MaxInt
        => seq.current \in seq.min..seq.max

-----------------------------------------------------------------------------
(* What does not hold *)

\* catalog.cpp: "Remover índices associados": with the table go its indexes.
\* No table, no index, in a process that created both.
IndexesHaveTables ==
  tables = Nothing => indexes = Nothing

\* catalog.cpp: "Verificar limites": no sequence ever leaves its limits.
SequencesChecked ==
  \A s \in DOMAIN sequences :
    sequences[s].current \in sequences[s].min..sequences[s].max

\* A table that the saved catalog lists still has its directory.
SavedTablesHaveDirectories ==
  file \notin {Absent, Torn} => DOMAIN file.tables \subseteq directories
=============================================================================
