----------------------------- MODULE BufferPool -----------------------------
(***************************************************************************)
(* storage/buffer_pool.{h,cpp} over FileManager.                           *)
(*                                                                         *)
(* Every operation holds mutex_ and is one step, except discardAll, which  *)
(* takes it twice.  The pages returned are raw pointers that users read    *)
(* and write afterwards without any lock, so a user's pointer dangles once *)
(* the frame it points into is destroyed.  frames_ is keyed by the page id *)
(* alone, the one in the page's header.  A page's content is a version     *)
(* number.  Latches are set and cleared under mutex_ and never seen set;   *)
(* strategy_ is LRU and has no setter.  A loop that can evict nothing      *)
(* spins for ever with mutex_ locked: stuck.                               *)
(***************************************************************************)
EXTENDS FileManager, SequencesExt

CONSTANTS Table,       \* the files table_<id>.dat (tables and indexes)
          User,        \* threads that use the pool
          None,
          ZeroTable,   \* the table id of a hole, whose file does not exist
          PoolSizes,   \* sizes the pool is given
          Modes,       \* fetch modes after which users modify the page
          UnpinModes,  \* fetch modes after which users call unpinPage
          InitialDisk, \* the data directories the process may start with
          MaxPage,     \* bound: page ids
          MaxVersion,  \* bound: versions of a page
          MaxRestarts, \* bound: restarts of the process
          MaxLru       \* bound: nodes of lru_list_ before a page is added

ASSUME BufferAssumption ==
  /\ PoolSizes \subseteq Nat /\ PoolSizes # {}
  /\ Modes \cup UnpinModes \subseteq {"READ", "WRITE", "PIN", "CREATE"}
  /\ {MaxPage, MaxVersion, MaxRestarts, MaxLru} \subseteq Nat

PageIds == 0..MaxPage
Header == [table : Table \cup {ZeroTable}, id : PageIds]
Pages == [table : Table \cup {ZeroTable}, id : PageIds, val : 0..MaxVersion]

VARIABLES
  frames,     \* frames_: page id -> [page, pins, dirty]
  lru,        \* lru_list_, front first
  nextPage,   \* next_page_id
  poolSize,   \* pool_size_
  fs,         \* the files, see FileManager
  ptr,        \* each user's Page*: [id, table, asked, mode], None or "dangling"
  clearing,   \* the users between the two critical sections of discardAll
  stuck,      \* a thread loops for ever with mutex_ locked
  handed,     \* the version of each page last given to writePage or read
  restarts

vars == <<frames, lru, nextPage, poolSize, fs, ptr, clearing, stuck, handed,
          restarts>>

Init ==
  /\ frames = <<>> /\ lru = <<>>
  /\ nextPage = 1
  /\ poolSize \in PoolSizes
  /\ \E d \in InitialDisk : fs = [disk |-> d, open |-> <<>>]
  /\ ptr = [u \in User |-> None]
  /\ clearing = {}
  /\ stuck = FALSE
  /\ handed = [h \in Header |-> 0]
  /\ restarts = 0

-----------------------------------------------------------------------------
(* The pool's private functions work on a record b of its state.           *)

Here == [frames |-> frames, lru |-> lru, fs |-> fs, handed |-> handed]
Key(page) == [table |-> page.table, id |-> page.id]
Pinned(b, p) == b.frames[p].pins > 0

\* Mutant: pins are not looked at.
selectVictimAny(b) ==
  {p \in DOMAIN b.frames : \E i \in DOMAIN b.lru :
     /\ b.lru[i] = p
     /\ \A j \in i+1..Len(b.lru) : b.lru[j] \notin DOMAIN b.frames}

\* selectVictim: from the back, the first resident page that is not pinned.
selectVictim(b) ==
  {p \in DOMAIN b.frames : \E i \in DOMAIN b.lru :
     /\ b.lru[i] = p /\ ~Pinned(b, p)
     /\ \A j \in i+1..Len(b.lru) :
          b.lru[j] \in DOMAIN b.frames => Pinned(b, b.lru[j])}

\* writeToDisk: the file is the one the page's own header names; the result of
\* writePage is ignored.
writeToDisk(b, page) ==
  {[b EXCEPT !.fs = o.fs, !.handed[Key(page)] = page.val] :
     o \in IF page.table = ZeroTable THEN {[ok |-> FALSE, fs |-> b.fs]}
           ELSE writePage(b.fs, page.table, page.id, page)}

\* The node lru_iterators_ points to is the page's first one in lru_list_.
Unlink(s, p) == RemoveFirst(s, p)

\* Frame p leaves the pool.
Drop(b, p) == [b EXCEPT !.frames = [q \in DOMAIN b.frames \ {p} |-> b.frames[q]],
                        !.lru = Unlink(@, p)]

\* evictPage, when there is a victim.
evictPage(b) ==
  UNION {{Drop(c, p) : c \in IF b.frames[p].dirty
                             THEN writeToDisk(b, b.frames[p].page) ELSE {b}} :
           p \in selectVictim(b)}

\* The pools that k calls of evictPage can leave, {} when one finds no victim.
Evicted(b, k) ==
  LET after[i \in 0..k] == IF i = 0 THEN {b}
                           ELSE UNION {evictPage(c) : c \in after[i - 1]}
  IN  after[k]

\* Mutant: > for >= in the loop's condition.
MakeRoomLate(b, n) ==
  LET size == Cardinality(DOMAIN b.frames)
  IN  IF size <= n THEN {b} ELSE Evicted(b, size - n)

\* The loop while (frames_.size() >= n) evictPage().
MakeRoom(b, n) ==
  LET size == Cardinality(DOMAIN b.frames)
  IN  IF size < n THEN {b} ELSE Evicted(b, size - n + 1)

\* Frame fr is stored under its page's id, in place of any frame there.
Insert(b, fr) ==
  [b EXCEPT !.frames = [q \in DOMAIN @ \cup {fr.page.id} |->
                          IF q = fr.page.id THEN fr ELSE b.frames[q]],
            !.lru = <<fr.page.id>> \o @]

\* The pool becomes b; pointers into a frame that was dropped, or into frame p
\* that was replaced, dangle.  User u holds new afterwards.
Becomes(b, p, u, new) ==
  /\ frames' = b.frames /\ lru' = b.lru /\ fs' = b.fs /\ handed' = b.handed
  /\ ptr' = [v \in User |->
               IF v = u THEN new
               ELSE IF ptr[v] # None /\ (ptr[v].id = p \/ ptr[v].id \notin DOMAIN b.frames)
               THEN [ptr[v] EXCEPT !.live = FALSE] ELSE ptr[v]]

\* The loop finds nothing to evict.
Spin == stuck' = TRUE /\ UNCHANGED <<frames, lru, fs, ptr, handed>>

\* What fetchPage(t, p, mode) gives to the user.
Pointer(page, t, p, mode) ==
  [id |-> page.id, table |-> page.table, asked |-> [table |-> t, id |-> p],
   mode |-> mode, live |-> TRUE, changed |-> FALSE]

Ready(u) == ~stuck /\ u \notin clearing

-----------------------------------------------------------------------------
(* The operations.                                                         *)

\* fetchPage finds p among the frames, whatever table it belongs to.
FetchHit(u, t, p, mode) ==
  /\ p \in DOMAIN frames
  /\ frames[p].pins < Cardinality(User)
  /\ Becomes([Here EXCEPT !.frames[p].dirty = @ \/ mode = "WRITE",
                          !.frames[p].pins = IF mode = "PIN" THEN @ + 1 ELSE @,
                          !.lru = <<p>> \o Unlink(@, p)],
             None, u, Pointer(frames[p].page, t, p, mode))
  /\ UNCHANGED stuck

\* fetchPage reads the page from disk.
FetchMiss(u, t, p, mode) ==
  /\ p \notin DOMAIN frames
  /\ Len(lru) <= MaxLru
  /\ LET room == MakeRoom(Here, poolSize)
     IN  \/ room = {} /\ Spin
         \/ \E b \in room : \E r \in readPage(b.fs, t, p) :
              /\ IF r.ok
                 THEN Becomes(Insert([b EXCEPT !.fs = r.fs,
                                               !.handed[Key(r.page)] = r.page.val],
                                     [page |-> r.page, dirty |-> mode = "WRITE",
                                      pins |-> IF mode = "PIN" THEN 1 ELSE 0]),
                              r.page.id, u, Pointer(r.page, t, p, mode))
                 ELSE Becomes([b EXCEPT !.fs = r.fs], None, u, None)
              /\ UNCHANGED stuck

Fetch(u, t, p, mode) ==
  /\ Ready(u)
  /\ ptr[u] = None
  /\ FetchHit(u, t, p, mode) \/ FetchMiss(u, t, p, mode)
  /\ UNCHANGED <<nextPage, poolSize, clearing, restarts>>

\* createNewPage: the id comes from a counter that starts at 1 in every process.
Create(u, t) ==
  /\ Ready(u)
  /\ ptr[u] = None
  /\ nextPage <= MaxPage /\ Len(lru) <= MaxLru
  /\ nextPage' = nextPage + 1
  /\ LET page == [table |-> t, id |-> nextPage, val |-> 0]
         room == MakeRoom(Here, poolSize)
     IN  \/ room = {} /\ Spin
         \/ \E b \in room :
              /\ Becomes(Insert(b, [page |-> page, dirty |-> TRUE, pins |-> 0]),
                         nextPage, u, Pointer(page, t, nextPage, "CREATE"))
              /\ UNCHANGED stuck
  /\ UNCHANGED <<poolSize, clearing, restarts>>

\* A user writes the page through its pointer, without any lock.
Modify(u) ==
  /\ ptr[u] # None /\ ptr[u].live /\ ptr[u].mode \in Modes
  /\ frames[ptr[u].id].page.val < MaxVersion
  /\ frames' = [frames EXCEPT ![ptr[u].id].page.val = @ + 1]
  /\ ptr' = [ptr EXCEPT ![u].changed = TRUE]
  /\ UNCHANGED <<lru, nextPage, poolSize, fs, clearing, stuck, handed,
                 restarts>>

\* Mutant: unpinPage ignores its dirty flag.
UnpinClean(u, dirty) ==
  /\ Ready(u)
  /\ ptr[u] # None /\ ptr[u].mode \in UnpinModes
  /\ ptr[u].changed => dirty
  /\ frames' = [p \in DOMAIN frames |->
                  IF p = ptr[u].id
                  THEN [frames[p] EXCEPT !.pins = IF @ > 0 THEN @ - 1 ELSE 0]
                  ELSE frames[p]]
  /\ ptr' = [ptr EXCEPT ![u] = None]
  /\ UNCHANGED <<lru, nextPage, poolSize, fs, clearing, stuck, handed,
                 restarts>>

\* unpinPage, by which a user gives its page back; who changed it says so.
Unpin(u, dirty) ==
  /\ Ready(u)
  /\ ptr[u] # None /\ ptr[u].mode \in UnpinModes
  /\ ptr[u].changed => dirty
  /\ frames' = [p \in DOMAIN frames |->
                  IF p = ptr[u].id
                  THEN [frames[p] EXCEPT !.pins = IF @ > 0 THEN @ - 1 ELSE 0,
                                         !.dirty = @ \/ dirty]
                  ELSE frames[p]]
  /\ ptr' = [ptr EXCEPT ![u] = None]
  /\ UNCHANGED <<lru, nextPage, poolSize, fs, clearing, stuck, handed,
                 restarts>>

\* A user that did not pin forgets the pointer.
Forget(u) ==
  /\ ptr[u] # None /\ ptr[u].mode # "PIN"
  /\ ptr' = [ptr EXCEPT ![u] = None]
  /\ UNCHANGED <<frames, lru, nextPage, poolSize, fs, clearing, stuck, handed,
                 restarts>>

\* The pools that flushing the dirty pages of S can leave, in any order.
Flushed(b, S) ==
  LET after[T \in SUBSET S] ==
        IF T = {} THEN {b}
        ELSE UNION {UNION {
               IF ~c.frames[p].dirty THEN {c}
               ELSE {[d EXCEPT !.frames[p].dirty = FALSE] :
                       d \in writeToDisk(c, c.frames[p].page)} :
               c \in after[T \ {p}]} : p \in T}
  IN  after[S]

\* flushPage.
FlushPage(u, p) ==
  /\ Ready(u)
  /\ p \in DOMAIN frames /\ frames[p].dirty
  /\ \E b \in Flushed(Here, {p}) : Becomes(b, None, None, None)
  /\ UNCHANGED <<nextPage, poolSize, clearing, stuck, restarts>>

\* flushAll and sync; discardAll begins with it.
FlushAll(u, discard) ==
  /\ Ready(u)
  /\ frames # <<>>
  /\ \E b \in Flushed(Here, DOMAIN frames) : Becomes(b, None, None, None)
  /\ clearing' = IF discard THEN clearing \cup {u} ELSE clearing
  /\ UNCHANGED <<nextPage, poolSize, stuck, restarts>>

\* The second critical section of discardAll.
Clear(u) ==
  /\ ~stuck /\ u \in clearing
  /\ Becomes([Here EXCEPT !.frames = <<>>, !.lru = <<>>], None, None, None)
  /\ clearing' = clearing \ {u}
  /\ UNCHANGED <<nextPage, poolSize, stuck, restarts>>

\* discardPage.
DiscardPage(u, p) ==
  /\ Ready(u)
  /\ p \in DOMAIN frames
  /\ \E b \in Flushed(Here, {p}) : Becomes(Drop(b, p), None, None, None)
  /\ UNCHANGED <<nextPage, poolSize, clearing, stuck, restarts>>

\* setPoolSize.
SetPoolSize(u, n) ==
  /\ Ready(u)
  /\ n # poolSize
  /\ LET room == MakeRoom(Here, n + 1)
     IN  \/ room = {} /\ Spin /\ UNCHANGED poolSize
         \/ \E b \in room :
              Becomes(b, None, None, None) /\ poolSize' = n /\ UNCHANGED stuck
  /\ UNCHANGED <<nextPage, clearing, restarts>>

\* The process ends, with the destructor's flushAll or without it, and a new
\* one starts: the pool is empty, the files closed, next_page_id is 1 again.
Restart(flush) ==
  /\ restarts < MaxRestarts
  /\ flush => ~stuck /\ clearing = {}
  /\ restarts' = restarts + 1
  /\ \E b \in IF flush THEN Flushed(Here, DOMAIN frames) ELSE {Here} :
       fs' = [b.fs EXCEPT !.open = <<>>] /\ handed' = b.handed
  /\ frames' = <<>> /\ lru' = <<>> /\ nextPage' = 1 /\ poolSize' \in PoolSizes
  /\ ptr' = [u \in User |-> None] /\ clearing' = {} /\ stuck' = FALSE

Call(u) ==
  \/ \E t \in Table, p \in PageIds, m \in {"READ", "WRITE", "PIN"} : Fetch(u, t, p, m)
  \/ \E t \in Table : Create(u, t)
  \/ Modify(u)
  \/ \E d \in BOOLEAN : Unpin(u, d)
  \/ Forget(u)
  \/ \E p \in PageIds : FlushPage(u, p) \/ DiscardPage(u, p)
  \/ \E d \in BOOLEAN : FlushAll(u, d)
  \/ Clear(u)
  \/ \E n \in PoolSizes : SetPoolSize(u, n)

Next == (\E u \in User : Call(u)) \/ (\E f \in BOOLEAN : Restart(f))

Spec == Init /\ [][Next]_vars

-----------------------------------------------------------------------------
(* Properties.                                                             *)

Frames == [page : Pages, pins : 0..Cardinality(User), dirty : BOOLEAN]

\* The type invariant; a frame's key is the id in its page.
TypeOK ==
  /\ DOMAIN frames \subseteq PageIds
  /\ \A p \in DOMAIN frames : frames[p] \in Frames /\ frames[p].page.id = p
  /\ lru \in Seq(PageIds)
  /\ nextPage \in 1..MaxPage + 1
  /\ poolSize \in PoolSizes
  /\ \A u \in User : ptr[u] # None /\ ptr[u].live => ptr[u].id \in DOMAIN frames
  /\ clearing \subseteq User
  /\ stuck \in BOOLEAN
  /\ restarts \in 0..MaxRestarts

\* The pool keeps to its size, through every mix of fetches, resizes and
\* replaced frames, and every resident page is in lru_list_, where eviction
\* looks for it.
PoolBounded ==
  /\ TypeOK
  /\ Cardinality(DOMAIN frames) <= poolSize
  /\ DOMAIN frames \subseteq Range(lru)

\* Replaced frames, holes, restarts and reused ids never put a page in another
\* page's place on disk: what a file holds at p is a hole or page p of its table.
DiskPlaced ==
  \A t \in Table : fs.disk[t] # Absent =>
    \A i \in DOMAIN fs.disk[t] :
      LET page == fs.disk[t][i]
      IN  page = ZeroPage \/ Key(page) = [table |-> t, id |-> i - 1]

\* A user discards pages, or the process ends.
Discarding ==
  \/ \E u \in User : Clear(u) \/ \E p \in PageIds : DiscardPage(u, p)
  \/ \E f \in BOOLEAN : Restart(f)

\* "Fixa na memória" (buffer_pool.h).  Where users unpin what they pinned, a
\* pinned page stays where its user's pointer leads, whatever the others fetch,
\* create or resize.
PinnedStay ==
  [][\A u \in User : ptr[u] # None /\ ptr[u].mode = "PIN" /\ ptr[u].live =>
       \/ ptr'[u] = None
       \/ ptr'[u].live
       \/ Discarding]_vars

\* A page leaves the pool only after what its users wrote and reported with
\* unpinPage was given to writePage.
WrittenBack ==
  [][\A p \in DOMAIN frames :
       frames[p].page.val # handed'[Key(frames[p].page)] =>
         \/ p \in DOMAIN frames' /\ Key(frames'[p].page) = Key(frames[p].page)
         \/ Discarding]_vars

\* "Page found in cache" (buffer_pool.cpp): fetchPage gives the page asked for.
FetchedIsAsked ==
  \A u \in User : ptr[u] # None /\ ptr[u].live =>
    ptr[u].asked = [table |-> ptr[u].table, id |-> ptr[u].id]

\* "Gerar novo PageId" (buffer_pool.cpp): a new page's id is not the id of a
\* page that is on disk already.
NewPageIdIsNew ==
  [][\A u \in User, t \in Table : Create(u, t) =>
       fs.disk[t] = Absent \/ nextPage >= Len(fs.disk[t])]_vars

\* "Escrita (marca dirty)" (buffer_pool.h): a page changed after a fetch with
\* WRITE is dirty, so that the change will be written.
WriteMarksDirty ==
  \A u \in User : ptr[u] # None /\ ptr[u].live /\ ptr[u].mode = "WRITE" /\ ptr[u].changed =>
    frames[ptr[u].id].dirty

\* "Wait para páginas pinadas" (buffer_pool.h): a fetch that finds every frame
\* pinned waits, and does not keep the others from unpinning.
WaitsForUnpin == ~stuck

\* "Full atomicity, consistency, isolation, and durability" (README.md): what
\* flushPage has written and marked clean is on disk.
FlushedIsOnDisk ==
  [][\A u \in User, p \in PageIds : FlushPage(u, p) =>
       LET page == frames[p].page IN
       page.table \in Table =>
         /\ fs'.disk[page.table] # Absent
         /\ p < Len(fs'.disk[page.table])
         /\ fs'.disk[page.table][p + 1] = page]_vars
=============================================================================
