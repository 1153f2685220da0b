----------------------------- MODULE HeapProofs -----------------------------
(***************************************************************************)
(* No page takes a record, and the lists of pages stay apart, whatever the *)
(* sizes of a page, its header and a slot, and whoever uses the tables.    *)
(*                                                                         *)
(* ListsApart rests on NothingStored: since the last page never has room,  *)
(* an insertion always appends a page, and each list grows at its end.     *)
(***************************************************************************)
EXTENDS Heap, TLAPS

Link == Nat \cup {NoPage}

PageRecord ==
  [off : Nat, end : Nat, slots : {<<>>}, next : Link, prev : Link]

HandleRecord == [at : {"closed", "spinning", "open"}, first : Link, last : Link]

HeapTypes ==
  /\ pages \in Seq(PageRecord) /\ zeroLoaded \in BOOLEAN
  /\ handle \in [User -> HandleRecord]

\* The inductive invariant.
HeapInv == HeapTypes /\ NothingStored /\ ListsApart

\* A page without room: less than a slot is left.
Full(page) ==
  /\ page \in PageRecord
  /\ page.end - page.off \in 0..(SlotSize - 1)

\* The slot array leaves less than a slot of the page (Page::Page).
LEMMA Remainder ==
  ASSUME NEW a \in Nat, NEW s \in Nat \ {0}
  PROVE  /\ (a \div s) * s \in Nat
         /\ a - (a \div s) * s \in 0..(s - 1)
<1>1. a - (a \div s) * s >= 0 /\ a - (a \div s) * s < s /\ a \div s \in Int
  OBVIOUS
<1>2. a \div s \in Nat
  OBVIOUS
<1>3. (a \div s) * s \in Nat
  BY <1>2
<1> QED
  BY <1>1, <1>3

LEMMA NewPageFull == \A prev \in Link : Full(NewPage(prev))
<1> SUFFICES ASSUME NEW prev \in Link PROVE Full(NewPage(prev))
  OBVIOUS
<1> DEFINE room == PageSize - HeaderSize
<1>1. room \in Nat /\ HeaderSize \in Nat /\ SlotSize \in Nat \ {0} /\ PageSize \in Nat
  BY PageAssumption
<1>2. SlotRoom \in Nat /\ room - SlotRoom \in 0..(SlotSize - 1)
  <2> HIDE DEF room
  <2>1. SlotRoom = (room \div SlotSize) * SlotSize
    BY DEF SlotRoom, room
  <2> QED
    BY Zenon, <1>1, <2>1, Remainder
<1>3. HeaderSize + SlotRoom \in Nat /\ PageSize - (HeaderSize + SlotRoom) = room - SlotRoom
  <2> HIDE DEF SlotRoom
  <2> QED
    BY <1>1, <1>2
<1>4. NewPage(prev) \in PageRecord
  BY <1>1, <1>3 DEF NewPage, PageRecord, Link
<1> QED
  BY <1>2, <1>3, <1>4 DEF Full, NewPage

\* hasSpaceFor asks for a slot more than what is left.
LEMMA NoRoom ==
  \A page, size : Full(page) /\ size \in Nat => ~hasSpaceFor(page, size)
<1> SUFFICES ASSUME NEW page, NEW size \in Nat, Full(page)
             PROVE  ~hasSpaceFor(page, size)
  OBVIOUS
<1>1. page.end - page.off \in 0..(SlotSize - 1) /\ page.end \in Nat /\ page.off \in Nat
  BY DEF Full, PageRecord
<1> QED
  BY <1>1, PageAssumption DEF hasSpaceFor

LEMMA PagesFull == HeapTypes /\ NothingStored => \A i \in DOMAIN pages : Full(pages[i])
BY DEF HeapTypes, NothingStored, Full

\* What Table::insertRecord does, then: appendNewPage, and nothing is stored.
LEMMA InsertAppends ==
  ASSUME HeapInv, NEW u \in User, NEW size \in Nat, Opened(u)
  PROVE  /\ ~Stored(u, size)
         /\ insertRow(u, size) =>
              /\ pages' = Append(Linked(handle[u].last, Len(pages) + 1),
                                 NewPage(handle[u].last))
              /\ handle' = [handle EXCEPT ![u].last = Len(pages) + 1]
              /\ UNCHANGED zeroLoaded
<1>1. handle[u].last \in DOMAIN pages /\ handle[u].last \in Link
  BY DEF HeapInv, HeapTypes, HandleRecord, ListsApart
<1>2. ~hasSpaceFor(pages[handle[u].last], size)
  BY <1>1, PagesFull, NoRoom DEF HeapInv
<1>3. ~hasSpaceFor(NewPage(handle[u].last), size)
  BY <1>1, NewPageFull, NoRoom
<1>4. insertRecord(NewPage(handle[u].last), size) = NewPage(handle[u].last)
  BY <1>3 DEF insertRecord
<1> QED
  BY <1>2, <1>3, <1>4 DEF Stored, insertRow, appendAndInsert

\* A page linked to nothing is added: the first page of a table, or a root.
LEMMA AddPage ==
  ASSUME HeapInv, pages' = Append(pages, NewPage(NoPage))
  PROVE  /\ pages' \in Seq(PageRecord)
         /\ NothingStored'
         /\ Len(pages') = Len(pages) + 1 /\ Len(pages) \in Nat
         /\ DOMAIN pages = 1..Len(pages) /\ DOMAIN pages' = 1..(Len(pages) + 1)
         /\ \A i \in DOMAIN pages : pages'[i] = pages[i]
         /\ pages'[Len(pages) + 1] = NewPage(NoPage)
<1>1. NewPage(NoPage) \in PageRecord /\ Full(NewPage(NoPage))
  BY Zenon, NewPageFull DEF Link, Full
<1>2. pages \in Seq(PageRecord)
  BY DEF HeapInv, HeapTypes
<1>3. /\ pages' \in Seq(PageRecord)
      /\ Len(pages') = Len(pages) + 1 /\ Len(pages) \in Nat
      /\ DOMAIN pages = 1..Len(pages) /\ DOMAIN pages' = 1..(Len(pages) + 1)
      /\ \A i \in DOMAIN pages : pages'[i] = pages[i]
      /\ pages'[Len(pages) + 1] = NewPage(NoPage)
  BY <1>1, <1>2
<1>4. \A i \in DOMAIN pages' : Full(pages'[i])
  BY <1>1, <1>3, PagesFull DEF HeapInv
<1>5. NothingStored'
  BY Zenon, <1>3, <1>4 DEF NothingStored, Full, PageRecord
<1> QED
  BY <1>3, <1>5

LEMMA HeapInitially == HeapInit => HeapInv
<1> SUFFICES ASSUME HeapInit PROVE HeapInv
  OBVIOUS
<1>1. HeapTypes
  <2>1. pages \in Seq(PageRecord)
    BY DEF HeapInit
  <2>2. zeroLoaded \in BOOLEAN
    BY Zenon DEF HeapInit
  <2>3. handle \in [User -> HandleRecord]
    BY DEF HeapInit, HandleRecord, Closed, Link
  <2> QED
    BY <2>1, <2>2, <2>3 DEF HeapTypes
<1>2. NothingStored /\ ListsApart
  BY DEF HeapInit, NothingStored, ListsApart, Opened, Closed
<1> QED
  BY <1>1, <1>2 DEF HeapInv

\* A Table object that goes, or whose constructor does not return.
LEMMA LeaveTable ==
  ASSUME HeapInv, NEW u \in User, UNCHANGED pages, zeroLoaded' \in BOOLEAN,
         \/ handle' = [handle EXCEPT ![u] = Closed]
         \/ handle' = [handle EXCEPT ![u] = Spinning]
  PROVE  HeapInv'
<1>1. Closed \in HandleRecord /\ Spinning \in HandleRecord
  BY DEF Closed, Spinning, HandleRecord, Link
<1>2. HeapTypes'
  BY <1>1 DEF HeapInv, HeapTypes
<1>3. handle'[u].at # "open" /\ \A v \in User \ {u} : handle'[v] = handle[v]
  BY DEF HeapInv, HeapTypes, Closed, Spinning
<1>4. ListsApart'
  BY <1>3 DEF HeapInv, ListsApart, Opened
<1> QED
  BY <1>2, <1>4 DEF HeapInv, NothingStored

\* The root that a new index creates.
LEMMA AddRoot ==
  ASSUME HeapInv, pages' = Append(pages, NewPage(NoPage)), UNCHANGED <<zeroLoaded, handle>>
  PROVE  HeapInv'
<1>1. HeapTypes' /\ NothingStored'
  BY AddPage DEF HeapInv, HeapTypes
<1>2. pages'[Len(pages) + 1].next = NoPage /\ pages'[Len(pages) + 1].prev = NoPage
  BY AddPage DEF NewPage
<1>3. ListsApart'
  BY <1>2, AddPage DEF HeapInv, ListsApart, Opened
<1> QED
  BY <1>1, <1>3 DEF HeapInv

\* The first page of a table.
LEMMA AddTable ==
  ASSUME HeapInv, NEW u \in User, pages' = Append(pages, NewPage(NoPage)),
         UNCHANGED zeroLoaded,
         handle' = [handle EXCEPT ![u] = Handle(Len(pages) + 1)]
  PROVE  HeapInv'
<1> DEFINE new == Len(pages) + 1
<1>1. new \in Nat /\ new \notin DOMAIN pages /\ new \in DOMAIN pages'
  BY AddPage
<1>2. Handle(new) \in HandleRecord
  BY <1>1 DEF Handle, HandleRecord, Link
<1>3. HeapTypes' /\ NothingStored'
  BY <1>2, AddPage DEF HeapInv, HeapTypes
<1>4. pages'[new].next = NoPage /\ pages'[new].prev = NoPage
  BY AddPage DEF NewPage
<1>5. /\ handle'[u].first = new /\ handle'[u].last = new
      /\ \A v \in User \ {u} : handle'[v] = handle[v]
  BY DEF HeapInv, HeapTypes, Handle
<1> HIDE DEF new
<1>6. /\ \A i \in DOMAIN pages' : pages'[i].next # NoPage =>
            /\ pages'[i].next \in i + 1 .. Len(pages')
            /\ pages'[pages'[i].next].prev = i
      /\ \A i \in DOMAIN pages' : pages'[i].prev # NoPage =>
            pages'[i].prev \in DOMAIN pages' /\ pages'[pages'[i].prev].next = i
  BY <1>4, AddPage DEF HeapInv, ListsApart, new
<1>7. \A v \in User : Opened(v)' =>
            /\ handle'[v].first \in DOMAIN pages' /\ handle'[v].last \in DOMAIN pages'
            /\ pages'[handle'[v].first].prev = NoPage
            /\ pages'[handle'[v].last].next = NoPage
  BY <1>1, <1>4, <1>5, AddPage DEF HeapInv, ListsApart, Opened
<1>8. \A v, w \in User : Opened(v)' /\ Opened(w)' /\ v # w =>
            handle'[v].first # handle'[w].first /\ handle'[v].last # handle'[w].last
  BY <1>1, <1>5 DEF HeapInv, ListsApart, Opened
<1>9. ListsApart'
  BY <1>6, <1>7, <1>8 DEF ListsApart, Opened
<1> QED
  BY <1>3, <1>9 DEF HeapInv

\* A page is added after the last one of the user's table.
LEMMA AddLast ==
  ASSUME HeapInv, NEW u \in User, Opened(u), UNCHANGED zeroLoaded,
         pages' = Append(Linked(handle[u].last, Len(pages) + 1), NewPage(handle[u].last)),
         handle' = [handle EXCEPT ![u].last = Len(pages) + 1]
  PROVE  HeapInv'
<1> DEFINE new == Len(pages) + 1
           last == handle[u].last
           linked == Linked(last, new)
<1>1. /\ pages \in Seq(PageRecord) /\ Len(pages) \in Nat /\ DOMAIN pages = 1..Len(pages)
      /\ last \in DOMAIN pages /\ last \in Link /\ new \in Link
  BY DEF HeapInv, HeapTypes, HandleRecord, ListsApart, Link
<1>2. NewPage(last) \in PageRecord /\ Full(NewPage(last))
  BY <1>1, NewPageFull DEF Full
<1>3. /\ linked \in Seq(PageRecord) /\ Len(linked) = Len(pages)
      /\ \A i \in DOMAIN pages : i # last => linked[i] = pages[i]
      /\ linked[last] = [pages[last] EXCEPT !.next = new]
  <2> DEFINE page == [pages[last] EXCEPT !.next = new]
  <2>1. page \in PageRecord
    <3> HIDE DEF new, last
    <3>1. pages[last] \in PageRecord
      BY <1>1
    <3> QED
      BY Zenon, <1>1, <3>1 DEF PageRecord
  <2>2. linked = [pages EXCEPT ![last] = page]
    BY DEF Linked
  <2> HIDE DEF page, linked, last, new
  <2>3. linked \in Seq(PageRecord) /\ Len(linked) = Len(pages)
    BY <1>1, <2>1, <2>2
  <2>4. \A i \in DOMAIN pages : linked[i] = IF i = last THEN page ELSE pages[i]
    BY <1>1, <2>2
  <2> QED
    BY Zenon, <1>1, <2>3, <2>4 DEF page
<1>4. /\ pages' \in Seq(PageRecord) /\ Len(pages') = new /\ DOMAIN pages' = 1..new
      /\ \A i \in DOMAIN pages : pages'[i] = linked[i]
      /\ pages'[new] = NewPage(last)
  BY <1>1, <1>2, <1>3
<1>5. /\ \A i \in DOMAIN pages : i # last => pages'[i] = pages[i]
      /\ pages'[last].next = new /\ pages'[last].prev = pages[last].prev
      /\ pages'[new].next = NoPage /\ pages'[new].prev = last
      /\ Full(pages'[last])
  <2>1. Full(pages[last])
    BY <1>1, PagesFull DEF HeapInv
  <2>2. pages'[new].next = NoPage /\ pages'[new].prev = last
    BY <1>4 DEF NewPage
  <2> HIDE DEF new, last, linked
  <2>3. pages'[last] = [pages[last] EXCEPT !.next = new] /\ pages'[last] \in PageRecord
    BY <1>1, <1>3, <1>4 DEF new
  <2>4. /\ pages'[last].next = new /\ pages'[last].prev = pages[last].prev
        /\ pages'[last].end = pages[last].end /\ pages'[last].off = pages[last].off
    BY Zenon, <2>1, <2>3 DEF Full, PageRecord
  <2>5. Full(pages'[last])
    BY Zenon, <2>1, <2>3, <2>4 DEF Full
  <2>6. \A i \in DOMAIN pages : i # last => pages'[i] = pages[i]
    BY Zenon, <1>3, <1>4
  <2> QED
    BY Zenon, <2>2, <2>4, <2>5, <2>6
<1>6. /\ handle'[u].last = new /\ handle'[u].first = handle[u].first
      /\ \A v \in User \ {u} : handle'[v] = handle[v]
      /\ handle'[u].at = handle[u].at
      /\ handle' \in [User -> HandleRecord]
  BY Zenon, <1>1 DEF HeapInv, HeapTypes, HandleRecord
<1>7. HeapTypes'
  BY <1>4, <1>6 DEF HeapInv, HeapTypes
<1>8. NothingStored'
  <2>1. \A i \in DOMAIN pages' : Full(pages'[i])
    BY <1>1, <1>2, <1>4, <1>5, PagesFull DEF HeapInv
  <2> QED
    BY <1>4, <2>1 DEF NothingStored, Full, PageRecord
<1> HIDE DEF new, last, linked
<1>9. ListsApart'
  <2>1. pages[last].next = NoPage /\ NoPage \notin Nat /\ new \in Nat /\ new \notin DOMAIN pages
    BY SMTT(30), <1>1, PageAssumption DEF HeapInv, ListsApart, last, new
  <2>2. \A i \in DOMAIN pages' : pages'[i].next # NoPage =>
            /\ pages'[i].next \in i + 1 .. Len(pages')
            /\ pages'[pages'[i].next].prev = i
    <3> SUFFICES ASSUME NEW i \in DOMAIN pages', pages'[i].next # NoPage
                 PROVE  /\ pages'[i].next \in i + 1 .. Len(pages')
                        /\ pages'[pages'[i].next].prev = i
      BY Zenon
    <3>1. CASE i = last
      BY <1>1, <1>4, <1>5, <3>1, <2>1 DEF new
    <3>2. CASE i # last
      <4>1. i \in DOMAIN pages /\ pages'[i] = pages[i]
        BY <1>1, <1>4, <1>5, <3>2, <2>1 DEF new
      <4>2. pages[i].next \in i + 1 .. Len(pages) /\ pages[pages[i].next].prev = i
        BY <4>1 DEF HeapInv, ListsApart
      <4>3. pages[i].next \in DOMAIN pages
        BY SMTT(30), <1>1, <4>1, <4>2
      <4>4. pages'[pages[i].next].prev = pages[pages[i].next].prev
        BY Zenon, <1>5, <4>3
      <4> QED
        BY <1>1, <1>4, <4>1, <4>2, <4>4 DEF new
    <3> QED
      BY Zenon, <3>1, <3>2
  <2>3. \A i \in DOMAIN pages' : pages'[i].prev # NoPage =>
            pages'[i].prev \in DOMAIN pages' /\ pages'[pages'[i].prev].next = i
    <3> SUFFICES ASSUME NEW i \in DOMAIN pages', pages'[i].prev # NoPage
                 PROVE  pages'[i].prev \in DOMAIN pages' /\ pages'[pages'[i].prev].next = i
      BY Zenon
    <3>1. CASE i = new
      BY SMTT(30), <1>1, <1>4, <1>5, <3>1 DEF new
    <3>2. CASE i # new
      <4>1. i \in DOMAIN pages /\ pages'[i].prev = pages[i].prev
        BY <1>1, <1>4, <1>5, <3>2 DEF new
      <4>2. pages[i].prev \in DOMAIN pages /\ pages[pages[i].prev].next = i
        BY <4>1 DEF HeapInv, ListsApart
      <4>3. pages[i].prev # last
        BY <1>1, <4>1, <4>2, <2>1
      <4> QED
        BY <1>1, <1>4, <1>5, <4>1, <4>2, <4>3 DEF new
    <3> QED
      BY Zenon, <3>1, <3>2
  <2>4. \A v \in User : Opened(v)' =>
            /\ handle'[v].first \in DOMAIN pages' /\ handle'[v].last \in DOMAIN pages'
            /\ pages'[handle'[v].first].prev = NoPage
            /\ pages'[handle'[v].last].next = NoPage
    <3> SUFFICES ASSUME NEW v \in User, Opened(v)'
                 PROVE  /\ handle'[v].first \in DOMAIN pages' /\ handle'[v].last \in DOMAIN pages'
                        /\ pages'[handle'[v].first].prev = NoPage
                        /\ pages'[handle'[v].last].next = NoPage
      OBVIOUS
    <3>1. Opened(v) /\ handle'[v].first = handle[v].first
      BY <1>6 DEF Opened
    <3>2. /\ handle[v].first \in DOMAIN pages /\ handle[v].last \in DOMAIN pages
          /\ pages[handle[v].first].prev = NoPage /\ pages[handle[v].last].next = NoPage
      BY <3>1 DEF HeapInv, ListsApart
    <3>3. handle'[v].first \in DOMAIN pages' /\ pages'[handle'[v].first].prev = NoPage
      <4>1. handle[v].first \in DOMAIN pages'
        BY <1>1, <1>4, <3>2 DEF new
      <4>2. pages'[handle[v].first].prev = pages[handle[v].first].prev
        BY Zenon, <1>5, <3>2
      <4> QED
        BY <3>1, <3>2, <4>1, <4>2
    <3>4. CASE v = u
      BY <1>1, <1>4, <1>5, <1>6, <3>3, <3>4 DEF new
    <3>5. CASE v # u
      <4>1. handle[v].last # last /\ handle'[v].last = handle[v].last
        BY <1>6, <3>1, <3>5 DEF HeapInv, ListsApart, last
      <4> QED
        BY <1>1, <1>4, <1>5, <3>2, <3>3, <4>1 DEF new
    <3> QED
      BY <3>4, <3>5
  <2>5. \A v, w \in User : Opened(v)' /\ Opened(w)' /\ v # w =>
            handle'[v].first # handle'[w].first /\ handle'[v].last # handle'[w].last
    BY <1>6, <2>1 DEF HeapInv, ListsApart, Opened
  <2> QED
    BY Zenon, <2>2, <2>3, <2>4, <2>5 DEF ListsApart, Opened
<1> QED
  BY <1>7, <1>8, <1>9 DEF HeapInv

LEMMA HeapStep == HeapInv /\ [HeapNext]_heapVars => HeapInv'
<1> SUFFICES ASSUME HeapInv, [HeapNext]_heapVars PROVE HeapInv'
  OBVIOUS
<1>1. ASSUME NEW u \in User, NEW found \in BOOLEAN, openTable(u, found) PROVE HeapInv'
  <2>1. CASE found
    <3>1. zeroLoaded' \in BOOLEAN
      BY Zenon, <1>1, <2>1 DEF openTable
    <3> QED
      BY <1>1, <2>1, <3>1, LeaveTable DEF openTable
  <2>2. CASE ~found
    BY <1>1, <2>2, AddTable DEF openTable
  <2> QED
    BY <2>1, <2>2
<1>2. ASSUME NEW u \in User, NEW size \in Nat, insertRow(u, size) PROVE HeapInv'
  <2>1. Opened(u)
    BY <1>2 DEF insertRow
  <2> QED
    BY <1>2, <2>1, InsertAppends, AddLast
<1>3. ASSUME NEW u \in User, forget(u) PROVE HeapInv'
  <2>1. zeroLoaded' \in BOOLEAN
    BY <1>3 DEF forget, HeapInv, HeapTypes
  <2> QED
    BY Zenon, <1>3, <2>1, LeaveTable DEF forget
<1>4. ASSUME NEW found \in BOOLEAN, openIndex(found) PROVE HeapInv'
  <2>1. CASE found
    <3>1. zeroLoaded' \in BOOLEAN
      BY Zenon, <1>4, <2>1 DEF openIndex
    <3>2. UNCHANGED <<pages, handle>>
      BY <1>4, <2>1 DEF openIndex
    <3> QED
      BY <3>1, <3>2 DEF HeapInv, HeapTypes, NothingStored, ListsApart, Opened
  <2>2. CASE ~found
    BY <1>4, <2>2, AddRoot DEF openIndex
  <2> QED
    BY <2>1, <2>2
<1>5. CASE UNCHANGED heapVars
  BY <1>5 DEF heapVars, HeapInv, HeapTypes, NothingStored, ListsApart, Opened
<1> QED
  BY <1>1, <1>2, <1>3, <1>4, <1>5 DEF HeapNext

\* No page ever takes a record, for all sizes of pages, headers and slots
\* (Page::Page, hasSpaceFor), and the lists of pages stay apart, for any number
\* of users (Table::Table, appendNewPage).
THEOREM HeapCorrect == HeapSpec => [](NothingStored /\ ListsApart)
<1>1. HeapInv => NothingStored /\ ListsApart
  BY DEF HeapInv
<1> QED
  BY HeapInitially, HeapStep, <1>1, PTL DEF HeapSpec

=============================================================================
