------------------------------- MODULE BTree -------------------------------
(***************************************************************************)
(* index/btree.{h,cpp} and btree_node.{h,cpp}: one index of the database.  *)
(*                                                                         *)
(* getNode hands out a private copy of a node and releaseNode writes it    *)
(* back when it is dirty.  A function that holds a copy while another      *)
(* reads the same page reads the old node, and so does the other.  Each    *)
(* operation below says which copy it writes and when.  The pages stay in  *)
(* the buffer pool, so getNode fails only on INVALID_PAGE_ID and on a page *)
(* 0 that is not there.  Statistics and printing are left out.             *)
(*                                                                         *)
(* The constructor takes page 0 for the root.  When the file has a page 0  *)
(* it is a hole (pages are numbered from 1), whose zeros read as an empty  *)
(* leaf that is its own next leaf.  Such a file is made by other means     *)
(* (FileManager::createFile, which nothing calls, or a copied directory),  *)
(* and the hole is never written back, since its header names table 0.     *)
(* Without a page 0 a leaf is created and its type set to ROOT, which is   *)
(* not LEAF.  No other leaf is ever made, so the branches of split and     *)
(* merge for leaves are left out, and so are those for a child that        *)
(* underflows or can lend a key (ChildrenHalfFull).                        *)
(***************************************************************************)
EXTENDS Integers, Sequences, FiniteSets, SequencesExt, TLC

CONSTANTS Order,    \* ORDER (128), the number of children_
          Keys,     \* keys inserted, looked for and removed
          Values,   \* their record ids
          Uniques,  \* the values of config_.unique
          MaxPages, \* bound on the page ids of the index
          Invalid,  \* INVALID_PAGE_ID
          None      \* no value

MaxKeys == Order - 1
MinKeys == Order \div 2 - 1
Wrap16(n) == n % 65536

ASSUME BTreeAssumption == Order \in Nat /\ Order >= 4 /\ Order % 2 = 0 /\ Keys \subseteq Nat

VARIABLES
  unique,   \* config_.unique
  pages,    \* the nodes by page id
  root,     \* root_page_id_
  entries,  \* a map that took the inserts and removes that answered OK
  split,    \* a full root has been split
  answer    \* the last call and its status

vars == <<unique, pages, root, entries, split, answer>>

-----------------------------------------------------------------------------
(* BTreeNode.  keys_ and values_ are the sequences of the key_count entries *)
(* in use (values_ of a leaf only); children_ is the array.                 *)

NewNode(type) ==
  [type |-> type, keys |-> <<>>, values |-> <<>>,
   children |-> [i \in 0..Order - 1 |-> Invalid], childCount |-> 0,
   parent |-> Invalid, next |-> Invalid, prev |-> Invalid]

\* A page of zeros, as deserialize reads it (a leaf's children_ are not read).
ZeroNode == [NewNode("LEAF") EXCEPT !.parent = 0, !.next = 0, !.prev = 0]

isLeaf(n) == n.type = "LEAF"
KeyCount(n) == Len(n.keys)
isFull(n) == KeyCount(n) >= MaxKeys
getKey(n, i) == n.keys[i + 1]

\* Binary search: the key's index, or that of the last smaller key, or -1.
findKeyIndex(n, key) ==
  LET search[left \in 0..MaxKeys + 1, right \in -1..MaxKeys] ==
        IF left > right THEN right
        ELSE LET mid == (left + right) \div 2
             IN  IF getKey(n, mid) = key THEN mid
                 ELSE IF getKey(n, mid) < key THEN search[mid + 1, right]
                 ELSE search[left, mid - 1]
  IN  search[0, KeyCount(n) - 1]

\* The key is at index pos.
HasKeyAt(n, pos, key) == pos >= 0 /\ pos < KeyCount(n) /\ getKey(n, pos) = key

findChildIndex(n, key) ==
  LET pos == findKeyIndex(n, key)
  IN  IF pos < 0 THEN 0 ELSE IF getKey(n, pos) <= key THEN pos + 1 ELSE pos

getChild(n, i) == IF isLeaf(n) \/ i >= n.childCount THEN Invalid ELSE n.children[i]

setChild(n, i, page) ==
  IF isLeaf(n) \/ i >= Order THEN n
  ELSE [n EXCEPT !.children[i] = page,
                 !.childCount = IF i >= @ THEN i + 1 ELSE @]

\* shiftRight and the new entry, in a node that is not full.
insertAt(n, i, key, value, page) ==
  IF isLeaf(n)
  THEN [n EXCEPT !.keys = InsertAt(@, i + 1, key), !.values = InsertAt(@, i + 1, value)]
  ELSE [n EXCEPT !.keys = InsertAt(@, i + 1, key),
                 !.children = [j \in DOMAIN @ |->
                    IF j = i THEN page ELSE IF j > i /\ j <= n.childCount THEN @[j - 1] ELSE @[j]],
                 !.childCount = @ + 1]

\* Mutant: a duplicate key keeps its value.
OverwrittenNot(n, pos, value) == n

Overwritten(n, pos, value) == [n EXCEPT !.values[pos + 1] = value]

\* insert into a leaf that is not full; a key that is there is overwritten.
insertLeaf(n, key, value) ==
  LET pos == findKeyIndex(n, key)
  IN  IF HasKeyAt(n, pos, key) THEN Overwritten(n, pos, value)
      ELSE insertAt(n, IF pos < 0 THEN 0 ELSE pos + 1, key, value, Invalid)

\* remove and shiftLeft.
removeAt(n, i) ==
  IF isLeaf(n)
  THEN [n EXCEPT !.keys = RemoveAt(@, i + 1), !.values = RemoveAt(@, i + 1)]
  ELSE [n EXCEPT !.keys = RemoveAt(@, i + 1),
                 !.children = [j \in DOMAIN @ |->
                    IF j >= i /\ j < n.childCount - 1 THEN @[j + 1] ELSE @[j]],
                 !.childCount = @ - 1]

\* split of a node that is not a leaf: what stays and what goes.  The key in
\* the middle is in neither.  The counts of children are 16 bits wide.
splitNode(n) ==
  LET mid == KeyCount(n) \div 2
  IN  [left |-> [n EXCEPT !.keys = SubSeq(@, 1, mid), !.childCount = mid + 1],
       right |-> [NewNode(n.type) EXCEPT
                    !.keys = SubSeq(n.keys, mid + 2, KeyCount(n)),
                    !.children = [i \in DOMAIN @ |->
                       IF i + mid + 1 <= n.childCount THEN n.children[i + mid + 1] ELSE @[i]],
                    !.childCount = Wrap16(n.childCount - mid - 1)]]

getSplitKey(n) == getKey(n, KeyCount(n) \div 2)

\* setKey at the end, setChild at the end, then merge, of nodes that are not
\* leaves: the key between them and all of the right node.
mergeNode(n, key, r) ==
  LET m == [setChild(n, n.childCount, getChild(r, 0)) EXCEPT !.keys = Append(@, key)]
  IN  [m EXCEPT !.keys = @ \o r.keys,
                !.children = [j \in DOMAIN @ |->
                   IF j \in m.childCount..m.childCount + r.childCount
                   THEN r.children[j - m.childCount] ELSE @[j]],
                !.childCount = @ + r.childCount]

\* merge copies one child more than there are, past the end of children_.
mergeOverruns(n, r) == n.childCount + 1 + r.childCount >= Order

-----------------------------------------------------------------------------
(* BTree.  A result is the state after a call, its status, and whether the  *)
(* call wrote outside children_.                                            *)

State == [pages |-> pages, root |-> root, entries |-> entries,
          status |-> "OK", overran |-> FALSE]
Answer(st, status) == [st EXCEPT !.status = status]

Entered(st, key, value) == [st EXCEPT !.entries[key] = value]

getNode(st, page) == st.pages[page]
HasNode(st, page) == page \in DOMAIN st.pages
releaseNode(st, page, n) == [st EXCEPT !.pages = [p \in DOMAIN @ \cup {page} |->
                                                    IF p = page THEN n ELSE @[p]]]

\* The id createNode draws.
NewPage(st) == CHOOSE p \in 1..MaxPages : p \notin DOMAIN st.pages
                                          /\ \A q \in 1..p - 1 : q \in DOMAIN st.pages
createNode(st, type) == releaseNode(st, NewPage(st), NewNode(type))

\* splitChild on the caller's copy of the parent; the copy is in the result.
splitChild(st, parent, parentPage, i) ==
  LET page == getChild(parent, i)
      child == getNode(st, page)
      new == NewPage(st)
      halves == splitNode(child)
      right == [halves.right EXCEPT
                  !.children = [j \in DOMAIN @ |-> IF j < halves.right.childCount THEN @[j] ELSE Invalid],
                  !.childCount = KeyCount(halves.right) + 1, !.parent = parentPage]
  IN  [st |-> releaseNode(releaseNode(createNode(st, child.type), page,
                                      [halves.left EXCEPT !.parent = parentPage]),
                          new, right),
       parent |-> insertAt(parent, i, getSplitKey(child), None, new)]

\* Mutant: a unique index takes a key that it has.
RejectsNever(leaf, key) == FALSE

\* A unique index has the key already.
Rejects(leaf, key) == unique /\ HasKeyAt(leaf, findKeyIndex(leaf, key), key)

\* insertInternal, where a full child is split on the way down.
RECURSIVE insertInternal(_, _, _, _)
insertInternal(st, key, value, page) ==
  LET node == getNode(st, page)
      i == findChildIndex(node, key)
      child == getChild(node, i)
      cut == splitChild(st, node, page, i)
      down == getChild(cut.parent, IF key > getKey(cut.parent, i) THEN i + 1 ELSE i)
      below == insertInternal(cut.st, key, value, down)
  IN  IF ~HasNode(st, page) THEN Answer(st, "ERROR")
      ELSE IF isLeaf(node)
      THEN IF Rejects(node, key) THEN Answer(st, "ALREADY_EXISTS")
           ELSE Answer(Entered(releaseNode(st, page, insertLeaf(node, key, value)), key, value), "OK")
      ELSE IF ~HasNode(st, child) \/ ~isFull(getNode(st, child))
      THEN insertInternal(st, key, value, child)
      ELSE Answer(releaseNode(below, page, cut.parent), below.status)

\* insert into a tree whose root is full.  The old root is stored as INTERNAL
\* and split under the copy of the new root; insertInternal runs on the new
\* root as createNode stored it, empty, and only then is the copy stored.
insertFull(st, key, value) ==
  LET new == NewPage(st)
      made == createNode(st, "INTERNAL")
      top == setChild([getNode(made, new) EXCEPT !.type = "ROOT"], 0, st.root)
      old == [getNode(st, st.root) EXCEPT !.parent = new, !.type = "INTERNAL"]
      cut == splitChild(releaseNode(made, st.root, old), top, new, 0)
      below == insertInternal([cut.st EXCEPT !.root = new], key, value, new)
  IN  releaseNode(below, new, cut.parent)

\* Mutant: the root splits as soon as it has MIN_KEYS keys.
RootFullEarly(n) == KeyCount(n) >= MinKeys

RootFull(n) == isFull(n)

\* insert.
insertKey(st, key, value) ==
  IF RootFull(getNode(st, st.root)) THEN insertFull(st, key, value)
  ELSE insertInternal(st, key, value, st.root)

\* mergeNodes, on the caller's copy of the parent.
mergeNodes(st, parent, i) ==
  LET l == getChild(parent, i)
      left == getNode(st, l)
      right == getNode(st, getChild(parent, i + 1))
  IN  [st |-> [releaseNode(st, l, mergeNode(left, getKey(parent, i), right)) EXCEPT
                 !.overran = @ \/ mergeOverruns(left, right)],
       parent |-> removeAt(parent, i)]

\* removeInternal.  In a node that is not a leaf the key goes with the merge of
\* its two children, and the key is then looked for in the child that is left.
RECURSIVE removeInternal(_, _, _)
removeInternal(st, key, page) ==
  LET node == getNode(st, page)
      pos == findKeyIndex(node, key)
      here == HasKeyAt(node, pos, key)
      child == getChild(node, findChildIndex(node, key))
      merged == mergeNodes(st, node, pos)
      below == removeInternal(merged.st, key, getChild(merged.parent, pos))
  IN  IF ~HasNode(st, page) THEN Answer(st, "ERROR")
      ELSE IF isLeaf(node)
      THEN IF here THEN Answer(releaseNode(st, page, removeAt(node, pos)), "OK")
                   ELSE Answer(st, "NOT_FOUND")
      ELSE IF here
      THEN IF ~HasNode(st, getChild(node, pos)) \/ ~HasNode(st, getChild(node, pos + 1))
           THEN Answer(st, "ERROR")
           ELSE Answer(releaseNode(below, page, merged.parent), "OK")
      ELSE removeInternal(st, key, child)

\* remove: a root left without keys that is not a leaf gives way to its child.
removeKey(st, key) ==
  LET done == removeInternal(st, key, st.root)
      top == getNode(done, done.root)
      child == getChild(top, 0)
      promoted == [getNode(done, child) EXCEPT !.type = "ROOT", !.parent = Invalid]
      gone == IF done.status = "OK" THEN Entered(done, key, None) ELSE done
  IN  IF done.status = "OK" /\ KeyCount(top) = 0 /\ ~isLeaf(top)
      THEN [releaseNode(gone, child, promoted) EXCEPT !.root = child]
      ELSE gone

\* bulkInsert: std::sort by key, entries with the same key in any order; the
\* loop stops at the first status that is neither OK nor ALREADY_EXISTS.
SortedLists(list) ==
  {[i \in DOMAIN list |-> list[p[i]]] :
     p \in {q \in [DOMAIN list -> DOMAIN list] :
              /\ \A i, j \in DOMAIN list : q[i] = q[j] => i = j
              /\ \A i, j \in DOMAIN list : i < j => list[q[i]].key <= list[q[j]].key}}

RECURSIVE insertAll(_, _)
insertAll(st, list) ==
  IF list = <<>> THEN st
  ELSE LET one == insertKey(st, Head(list).key, Head(list).value)
       IN  IF one.status \in {"OK", "ALREADY_EXISTS"} THEN insertAll(one, Tail(list))
           ELSE one

RECURSIVE removeAll(_, _)
removeAll(st, list) ==
  IF list = <<>> THEN st ELSE removeAll(removeKey(st, Head(list)), Tail(list))

-----------------------------------------------------------------------------
(* Reading. *)

RECURSIVE LeafBelow(_, _, _)
LeafBelow(st, key, page) ==
  IF ~HasNode(st, page) THEN Invalid
  ELSE IF isLeaf(getNode(st, page)) THEN page
  ELSE LET node == getNode(st, page)
       IN  LeafBelow(st, key, getChild(node, findChildIndex(node, key)))

findLeaf(st, key) == LeafBelow(st, key, st.root)

findKey(st, key) ==
  LET leaf == getNode(st, findLeaf(st, key))
      pos == findKeyIndex(leaf, key)
  IN  IF findLeaf(st, key) # Invalid /\ HasKeyAt(leaf, pos, key) THEN leaf.values[pos + 1]
      ELSE None

find(key) == findKey(State, key)

\* The leaf and the slot after a slot of a leaf (Iterator::advance).
advance(at) ==
  LET node == pages[at.page]
  IN  IF at.slot + 1 < KeyCount(node) THEN [at EXCEPT !.slot = @ + 1]
      ELSE [page |-> node.next, slot |-> 0]

\* Mutant: the first key equal to start is skipped.
firstSlotAfter(node, start) == Cardinality({i \in 1..KeyCount(node) : node.keys[i] <= start})

\* The slot findFirst stops at: the first key that is not smaller.
firstSlot(node, start) ==
  LET pos == findKeyIndex(node, start)
      from == IF pos < 0 THEN 0 ELSE pos
      step[i \in 0..MaxKeys] ==
        IF i < KeyCount(node) /\ getKey(node, i) < start THEN step[i + 1] ELSE i
  IN  step[from]

findFirst(start) ==
  LET page == findLeaf(State, start)
      at == [page |-> page, slot |-> firstSlot(pages[page], start)]
  IN  IF page = Invalid THEN at
      ELSE IF at.slot >= KeyCount(pages[page]) THEN advance(at) ELSE at

\* rangeQuery: the values, or what happens instead.  A position seen twice is
\* seen for ever.
RECURSIVE RangeFrom(_, _, _, _)
RangeFrom(at, last, seen, got) ==
  IF at.page = Invalid THEN [end |-> "returns", values |-> got]
  ELSE IF at \in seen THEN [end |-> "hangs", values |-> <<>>]
  ELSE IF at.slot >= KeyCount(pages[at.page]) THEN [end |-> "throws", values |-> <<>>]
  ELSE IF getKey(pages[at.page], at.slot) > last THEN [end |-> "returns", values |-> got]
  ELSE RangeFrom(advance(at), last, seen \cup {at}, Append(got, pages[at.page].values[at.slot + 1]))

rangeQuery(start, last) ==
  IF findLeaf(State, start) = Invalid THEN [end |-> "returns", values |-> <<>>]
  ELSE RangeFrom(findFirst(start), last, {}, <<>>)

\* findMany, whose occurrences go on in the next leaf when the last key of the
\* leaf is one; the leaf is its own next.
findMany(key) ==
  LET page == findLeaf(State, key)
      node == pages[page]
      pos == findKeyIndex(node, key)
  IN  IF page = Invalid \/ ~HasKeyAt(node, pos, key) THEN [end |-> "returns", values |-> <<>>]
      ELSE IF pos + 1 = KeyCount(node) /\ node.next # Invalid /\ getKey(pages[node.next], 0) = key
      THEN [end |-> "hangs", values |-> <<>>]
      ELSE [end |-> "returns", values |-> <<node.values[pos + 1]>>]

\* traverse: the entries of the leaves from left to right.
RECURSIVE EntriesBelow(_)
EntriesBelow(page) ==
  IF page \notin DOMAIN pages THEN <<>>
  ELSE LET node == pages[page]
       IN  IF isLeaf(node)
           THEN [i \in 1..KeyCount(node) |-> [key |-> node.keys[i], value |-> node.values[i]]]
           ELSE FlattenSeq([i \in 1..KeyCount(node) + 1 |-> EntriesBelow(getChild(node, i - 1))])

traverse == EntriesBelow(root)

-----------------------------------------------------------------------------
NoEntries == [k \in Keys |-> None]
Idle == [op |-> "open", status |-> "OK"]
Running == answer.status # "CRASH"

\* The constructor's outcomes: page 0 is there, or the file has a hole in its
\* place once a later page was written, or a root is made.
Opened(st) ==
  IF HasNode(st, 0) THEN {[st EXCEPT !.root = 0]}
  ELSE {[releaseNode(st, 0, ZeroNode) EXCEPT !.root = 0],
        [releaseNode(st, NewPage(st), NewNode("ROOT")) EXCEPT !.root = NewPage(st)]}

Init == /\ unique \in Uniques /\ entries = NoEntries /\ split = FALSE /\ answer = Idle
        /\ \E st \in Opened([pages |-> <<>>, root |-> Invalid]) :
             pages = st.pages /\ root = st.root

\* A call returns, or the process dies when it has written outside children_.
Finish(op, st) ==
  /\ UNCHANGED unique
  /\ \/ /\ pages' = st.pages /\ root' = st.root /\ entries' = st.entries
        /\ split' = (split \/ st.root # root)
        /\ answer' = [op |-> op, status |-> st.status]
     \/ /\ st.overran
        /\ answer' = [op |-> op, status |-> "CRASH"]
        /\ UNCHANGED <<pages, root, entries, split>>

\* Page ids are left for a call (it creates at most two nodes).
Room == MaxPages - Cardinality(DOMAIN pages \ {0}) >= 2

insert(key, value) == Running /\ Room /\ Finish("insert", insertKey(State, key, value))

remove(key) == Running /\ Finish("remove", removeKey(State, key))

bulkInsert(list) ==
  /\ Running /\ Room
  /\ \E sorted \in SortedLists(list) : Finish("bulkInsert", insertAll(State, sorted))

bulkDelete(list) == Running /\ Finish("bulkDelete", removeAll(State, list))

\* rebuild, and vacuum, which only traverses once more.
rebuild == Running /\ Room /\ Finish("rebuild", insertAll(State, traverse))

\* IndexManager::getIndex on an index its cache has dropped: a new BTree on the
\* same pages, with the default configuration.
Reopen ==
  /\ Running /\ Room
  /\ \E st \in Opened(State) : pages' = st.pages /\ root' = st.root
  /\ unique' = FALSE /\ answer' = Idle
  /\ UNCHANGED <<entries, split>>

Entry == [key : Keys, value : Values]

Next == \/ \E key \in Keys, value \in Values : insert(key, value)
        \/ \E key \in Keys : remove(key)
        \/ \E a, b \in Entry : bulkInsert(<<a, b>>)
        \/ \E a, b \in Keys : bulkDelete(<<a, b>>)
        \/ rebuild
        \/ Reopen

Spec == Init /\ [][Next]_vars
-----------------------------------------------------------------------------
Held == {k \in Keys : entries[k] # None}
PageIds == 0..MaxPages

\* Nodes are well formed, children point at page ids, and the counts of
\* children stay within 16 bits.
TypeOK ==
  /\ unique \in BOOLEAN /\ split \in BOOLEAN
  /\ DOMAIN pages \subseteq PageIds /\ root \in DOMAIN pages
  /\ entries \in [Keys -> Values \cup {None}]
  /\ \A p \in DOMAIN pages :
       LET n == pages[p]
       IN  /\ n.type \in {"LEAF", "INTERNAL", "ROOT"} /\ KeyCount(n) <= MaxKeys
           /\ isLeaf(n) => Len(n.values) = KeyCount(n)
           /\ \A i \in 0..Order - 1 : n.children[i] \in DOMAIN pages \cup {Invalid}
           /\ n.childCount \in 0..65535

\* What find answers.  Until the root splits it finds exactly what a map would
\* hold after the calls that answered OK, through rebuilds and reopenings;
\* afterwards it finds that value or nothing, never another one.
LookupExact ==
  /\ TypeOK
  /\ \A k \in Keys : find(k) = entries[k] \/ (split /\ find(k) = None)

InRange(start, last) == SetToSortSeq({k \in Held : start <= k /\ k <= last}, <)
ValuesOf(ks) == [i \in DOMAIN ks |-> entries[ks[i]]]

\* What rangeQuery and findMany answer until the root splits: a call that
\* returns gives exactly the entries asked for, in the order of the keys; a
\* range returns when a larger key ends it, and findMany unless its key is the
\* only one.  (The leaf is its own next leaf, so other calls go round.)
ScansExact ==
  ~split =>
    /\ \A start, last \in Keys : start <= last =>
         LET r == rangeQuery(start, last)
         IN  /\ r.end = "returns" => r.values = ValuesOf(InRange(start, last))
             /\ (\E k \in Held : k > last) => r.end = "returns"
    /\ \A k \in Keys :
         LET r == findMany(k)
         IN  /\ r.end = "returns" => r.values = ValuesOf(InRange(k, k))
             /\ Held # {k} => r.end = "returns"

\* Nodes below the root never reach a size at which insertInternal would split
\* them, or removeInternal borrow a key from them or call handleUnderflow: each
\* child of the root has exactly MIN_KEYS keys.
ChildrenHalfFull ==
  \A i \in 0..Order - 1 : LET c == getChild(pages[root], i)
                          IN  c # Invalid => KeyCount(pages[c]) = MinKeys

\* A unique index never changes the value of a key it has: insert, bulkInsert
\* and rebuild leave it, only a removal takes it away.
UniqueKeeps ==
  [][unique => \A k \in Held : entries'[k] = entries[k]
                               \/ (entries'[k] = None /\ answer'.op \in {"remove", "bulkDelete"})]_vars

\* The root splits only when MAX_KEYS entries fill it, and from then on no call
\* is accepted except, once, the removal of the key that was in the middle; its
\* children stay half full.
FrozenAfterSplit ==
  /\ split => Cardinality(Held) \in {MaxKeys - 1, MaxKeys}
  /\ ChildrenHalfFull

\* What tests/test_btree.cpp expects of 1000 keys: after the insertions every
\* key is found.  The 128th insertion makes the first 127 unreachable.
InsertedFound == \A k \in Keys : entries[k] # None => find(k) = entries[k]

\* A range query returns.  It does not when no key is above the range: the leaf
\* of zeros names itself as the next leaf.
RangeReturns ==
  \A start, last \in Keys : start <= last => rangeQuery(start, last).end = "returns"

\* vacuum and rebuild keep the entries.  On a full root they insert a first time
\* into a root that then splits.
RebuildKeeps == [][answer'.op = "rebuild" => \A k \in Keys : find(k)' = find(k)]_vars
=============================================================================
