-------------------------------- MODULE Heap --------------------------------
(***************************************************************************)
(* storage/page.{h,cpp} and storage/table.{h,cpp}: slotted pages, and the  *)
(* list of pages that a Table object keeps.                                *)
(*                                                                         *)
(* A user (a thread that runs a statement) makes a Table object and uses   *)
(* it alone.  The pages are those of the buffer pool, all resident: page i *)
(* is element i of the sequence, as createNewPage numbers them from 1.     *)
(* Page 0 is never created.  It can be read only from a data file that     *)
(* something else made and that has a hole there; the pool keeps its       *)
(* frames by page id alone, so once it is resident every table gets it.    *)
(* The table id of a page's header decides only which file it is written   *)
(* to, and is left out.  A record is its length.  Records can be read,     *)
(* updated and deleted only where some were stored (see NothingStored):    *)
(* those operations, and compactify, which has no caller, are left out.    *)
(***************************************************************************)
EXTENDS Integers, Sequences

CONSTANTS User,
          PageSize, HeaderSize, SlotSize, \* PAGE_SIZE, HEADER_SIZE, SLOT_SIZE
          Word,       \* 2^16
          NoPage,     \* INVALID_PAGE_ID
          ZeroFiles   \* the tables whose data file has a page 0

ASSUME PageAssumption ==
  /\ SlotSize \in Nat \ {0}
  /\ HeaderSize \in Nat /\ PageSize \in Nat /\ HeaderSize <= PageSize
  /\ NoPage \notin Nat

VARIABLES pages,       \* the pages of the pool
          zeroLoaded,  \* page 0 is one of them
          handle       \* the Table object of each user

heapVars == <<pages, zeroLoaded, handle>>

-----------------------------------------------------------------------------
(* Pages *)

\* Mutant: the slot array leaves room for a record.
SlotRoomHalf == ((PageSize - HeaderSize) \div (2 * SlotSize)) * SlotSize

\* MAX_SLOTS * SLOT_SIZE, the bytes of the slot array.
SlotRoom == ((PageSize - HeaderSize) \div SlotSize) * SlotSize

NewPage(prev) ==
  [off |-> HeaderSize + SlotRoom, end |-> PageSize, slots |-> <<>>,
   next |-> NoPage, prev |-> prev]

\* The difference is an int; a negative one becomes a huge size_t.
hasSpaceFor(page, size) ==
  LET free == page.end - page.off
  IN  free < 0 \/ free >= size + SlotSize

insertRecord(page, size) ==
  LET offset == (page.end - size) % Word
  IN  IF hasSpaceFor(page, size)
      THEN [page EXCEPT !.slots = Append(@, [offset |-> offset, length |-> size]),
                        !.end = offset, !.off = (@ + SlotSize) % Word]
      ELSE page

-----------------------------------------------------------------------------
(* Table objects *)

\* No object; one whose constructor does not return; one in use.
Closed == [at |-> "closed", first |-> NoPage, last |-> NoPage]
Spinning == [Closed EXCEPT !.at = "spinning"]
Handle(page) == [at |-> "open", first |-> page, last |-> page]
Opened(u) == handle[u].at = "open"

HeapInit ==
  /\ pages = <<>> /\ zeroLoaded = FALSE
  /\ handle = [u \in User |-> Closed]

\* fetchPage(table, 0) has a page to return.
ZeroFound(table) == zeroLoaded \/ table \in ZeroFiles

\* The constructor, given whether page 0 was found.  It names itself as the next
\* page, so the search for the last page does not end; without it a first page
\* is created.
openTable(u, found) ==
  /\ handle[u] = Closed
  /\ IF found
     THEN /\ zeroLoaded' = TRUE /\ UNCHANGED pages
          /\ handle' = [handle EXCEPT ![u] = Spinning]
     ELSE /\ pages' = Append(pages, NewPage(NoPage))
          /\ handle' = [handle EXCEPT ![u] = Handle(Len(pages) + 1)]
          /\ UNCHANGED zeroLoaded

\* Mutant: the old last page is not linked to the new one.
LinkedNot(last, new) == pages

\* last_page_->setNextPage.
Linked(last, new) == [pages EXCEPT ![last].next = new]

\* appendNewPage, and the insertion into the new page.
appendAndInsert(u, size) ==
  LET h == handle[u]
      new == Len(pages) + 1
  IN  /\ pages' = Append(Linked(h.last, new),
                         insertRecord(NewPage(h.last), size))
      /\ handle' = [handle EXCEPT ![u].last = new]

\* Table::insertRecord of a valid record: into the last page, else a new one.
insertRow(u, size) ==
  LET h == handle[u]
  IN  /\ Opened(u)
      /\ IF hasSpaceFor(pages[h.last], size)
         THEN /\ pages' = [pages EXCEPT ![h.last] = insertRecord(@, size)]
              /\ UNCHANGED handle
         ELSE appendAndInsert(u, size)
      /\ UNCHANGED zeroLoaded

\* It answers OK.
Stored(u, size) ==
  LET h == handle[u]
  IN  \/ hasSpaceFor(pages[h.last], size)
      \/ hasSpaceFor(NewPage(h.last), size)

\* The page where TableIterator(this, page, 0) comes to rest.
advanceToNextValid[page \in DOMAIN pages \cup {NoPage}] ==
  IF page = NoPage THEN NoPage
  ELSE IF pages[page].slots # <<>> THEN page
  ELSE advanceToNextValid[pages[page].next]

\* begin() == end().
ScanEnds(u) == advanceToNextValid[handle[u].first] = NoPage

\* Nobody deletes a Table object; a statement that is over forgets it.
forget(u) ==
  /\ handle' = [handle EXCEPT ![u] = Closed]
  /\ UNCHANGED <<pages, zeroLoaded>>

\* The BTree that CREATE INDEX makes: its ids name data files as those of the
\* tables do, and its root is page 0 or a new page.
openIndex(found) ==
  IF found
  THEN zeroLoaded' = TRUE /\ UNCHANGED <<pages, handle>>
  ELSE /\ pages' = Append(pages, NewPage(NoPage))
       /\ UNCHANGED <<zeroLoaded, handle>>

HeapNext ==
  \/ \E u \in User, found \in BOOLEAN : openTable(u, found)
  \/ \E u \in User, size \in Nat : insertRow(u, size)
  \/ \E u \in User : forget(u)
  \/ \E found \in BOOLEAN : openIndex(found)

HeapSpec == HeapInit /\ [][HeapNext]_heapVars

-----------------------------------------------------------------------------
(* Properties *)

\* No page ever takes a record, whatever the sizes of the page, of its header
\* and of a slot: Page::Page gives the slot array all the room that is there,
\* and hasSpaceFor asks for a slot more than what is left.
NothingStored ==
  \A i \in DOMAIN pages :
    /\ pages[i].slots = <<>>
    /\ pages[i].end - pages[i].off \in 0..(SlotSize - 1)

\* The pages of a Table object are its own, although all of them come from one
\* counter and are linked without a lock: next and prev are inverse, a list
\* starts at the first page, ends at the last one and runs upwards, and no two
\* objects share an end.
ListsApart ==
  /\ \A i \in DOMAIN pages : pages[i].next # NoPage =>
       /\ pages[i].next \in i + 1 .. Len(pages)
       /\ pages[pages[i].next].prev = i
  /\ \A i \in DOMAIN pages : pages[i].prev # NoPage =>
       pages[i].prev \in DOMAIN pages /\ pages[pages[i].prev].next = i
  /\ \A u \in User : Opened(u) =>
       /\ handle[u].first \in DOMAIN pages /\ handle[u].last \in DOMAIN pages
       /\ pages[handle[u].first].prev = NoPage
       /\ pages[handle[u].last].next = NoPage
  /\ \A u, v \in User : Opened(u) /\ Opened(v) /\ u # v =>
       handle[u].first # handle[v].first /\ handle[u].last # handle[v].last
=============================================================================
