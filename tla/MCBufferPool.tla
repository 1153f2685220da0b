---------------------------- MODULE MCBufferPool ----------------------------
EXTENDS BufferPool, TLC

VARIABLE scope  \* which part of the instance a behaviour explores

\* A hole reads as page 0 of table 0.
Zero == [table |-> ZeroTable, id |-> 0, val |-> 0]

\* No file exists, as when the data directory is new; every file exists and is
\* empty; or holds its first page.
NoFiles == [t \in Table |-> Absent]
Holding(n) ==
  [t \in Table |-> [i \in 1..n |-> [table |-> t, id |-> i - 1, val |-> 0]]]
SomeFiles == {NoFiles, Holding(0), Holding(1)}

Pin == {"PIN"}
AllModes == {"READ", "WRITE", "PIN", "CREATE"}
Symmetry == Permutations(User)

\* "pins": two users of one table, without files, who unpin what they pinned,
\* in pools of every size.  "disk": one user of two tables, with files,
\* unpinPage after every kind of fetch, and a restart after which one page is
\* created.
MCInit ==
  /\ Init
  /\ scope \in {"pins", "disk"}
  /\ scope = "pins" => fs.disk = NoFiles
  /\ scope = "disk" => poolSize = 2

OneTable == CHOOSE t \in Table : TRUE
Active == IF scope = "disk" THEN {CHOOSE u \in User : TRUE} ELSE User

Within ==
  /\ scope = "pins" =>
       /\ restarts' = 0
       /\ \A p \in DOMAIN frames' : frames'[p].page.table = OneTable
       /\ \A u \in User : ptr'[u] # None => ptr'[u].asked.table = OneTable
       /\ \A u \in User : ptr[u] # None /\ ptr[u].mode # "PIN" /\ ptr'[u] = None =>
            UNCHANGED frames
  /\ scope = "disk" =>
       /\ poolSize' = 2 /\ Len(lru') <= 3
       /\ nextPage' <= IF restarts' = 1 THEN 2 ELSE 3
       /\ \A p \in DOMAIN frames' : frames'[p].page.val = 0

MCNext ==
  /\ (\E u \in Active : Call(u)) \/ (\E f \in BOOLEAN : Restart(f))
  /\ Within
  /\ UNCHANGED scope

MCSpec == MCInit /\ [][MCNext]_<<vars, scope>>
=============================================================================
