----------------------------- MODULE MCCatalog -----------------------------
EXTENDS Catalog, TLC

VARIABLE scope  \* the part of the catalog a behaviour is about

SequenceOf(min, max, increment, cycle) ==
  [start |-> min, current |-> min, increment |-> increment, min |-> min,
   max |-> max, cycle |-> cycle]

\* Steps that meet the limit and that jump over it, with and without cycle;
\* one that counts up to the largest int64_t, one that counts down.
SomeSequences ==
  {SequenceOf(1, 2, 1, FALSE), SequenceOf(1, 2, 2, TRUE),
   SequenceOf(1, 5, 2, TRUE), SequenceOf(1, 3, -1, FALSE)}

\* Tables with their ids and indexes, with what depends on them, and with
\* their directories; sequences: the parts that no operation relates.
Scopes == {"indexes", "dependencies", "directories", "sequences"}

MCInit == Init /\ scope \in Scopes

Within ==
  /\ scope # "indexes" => indexVars' = indexVars /\ drawn' = drawn
  /\ scope # "dependencies" => <<constraintVars, views>>' = <<constraintVars, views>>
  /\ scope = "dependencies" => nextTableId' <= 3
  /\ scope # "directories" => directories' = directories
  /\ scope = "sequences" => tableVars' = tableVars
  /\ scope # "sequences" => sequences' = sequences

Renamings == Permutations(TableNames) \cup Permutations(IndexNames) \cup Permutations(Clients)

MCSpec == MCInit /\ [][Next /\ Within /\ UNCHANGED scope]_<<vars, scope>>
=============================================================================
