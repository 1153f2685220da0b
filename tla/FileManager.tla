---------------------------- MODULE FileManager ----------------------------
(***************************************************************************)
(* storage/file_manager.{h,cpp}: page reads and writes through the cache   *)
(* of open files.                                                          *)
(*                                                                         *)
(* The state is a record fs: disk gives each file its sequence of pages,   *)
(* or Absent; open gives each open file its handle.  A handle keeps the    *)
(* mode it was first opened with, and the failbit of its stream, which     *)
(* nothing clears.  An operation is the set of its outcomes (the file that *)
(* evictFile drops is the first of an unordered_map, any one).  Pages of   *)
(* 4096 bytes go from the stream to the operating system at once; page i   *)
(* of a file is element i + 1 of its sequence.                             *)
(***************************************************************************)
EXTENDS Integers, Sequences, FiniteSets

CONSTANTS Absent,   \* no such file
          ZeroPage, \* what reading a hole gives
          MaxOpen   \* max_open_files_ (100)

ASSUME OpenAssumption == MaxOpen \in Nat \ {0}

\* evictFile, when the cache is full: any open file is closed.
evictFile(fs) ==
  IF Cardinality(DOMAIN fs.open) < MaxOpen THEN {fs}
  ELSE {[fs EXCEPT !.open = [f \in DOMAIN fs.open \ {v} |-> fs.open[f]]] :
          v \in DOMAIN fs.open}

\* openFile: an open file is reused whatever the mode asked for; READ and
\* READ_WRITE do not create a file.
openFile(fs, f, mode) ==
  IF f \in DOMAIN fs.open THEN {[ok |-> TRUE, fs |-> fs]}
  ELSE {IF e.disk[f] = Absent THEN [ok |-> FALSE, fs |-> e]
        ELSE [ok |-> TRUE,
              fs |-> [e EXCEPT !.open = [g \in DOMAIN e.open \cup {f} |->
                        IF g = f THEN [mode |-> mode, fail |-> FALSE]
                                 ELSE e.open[g]]]] : e \in evictFile(fs)}

\* The stream's failbit is set.
Fail(fs, f) == [fs EXCEPT !.open[f].fail = TRUE]

\* FileHandle::read: reading past the end sets the failbit.
readHandle(fs, f, p) ==
  IF ~fs.open[f].fail /\ p < Len(fs.disk[f])
  THEN [ok |-> TRUE, page |-> fs.disk[f][p + 1], fs |-> fs]
  ELSE [ok |-> FALSE, page |-> ZeroPage, fs |-> Fail(fs, f)]

\* readPage.
readPage(fs, f, p) ==
  {IF o.ok THEN readHandle(o.fs, f, p)
           ELSE [ok |-> FALSE, page |-> ZeroPage, fs |-> o.fs] :
     o \in openFile(fs, f, "READ")}

\* Mutant: the offset skips the file's first page.
StoredShifted(s, p, c) ==
  [i \in 1..(IF p + 1 < Len(s) THEN Len(s) ELSE p + 2) |->
     IF i = p + 2 THEN c ELSE IF i <= Len(s) THEN s[i] ELSE ZeroPage]

\* Page p of a file becomes c; a gap before it is a hole.
Stored(s, p, c) ==
  [i \in 1..(IF p < Len(s) THEN Len(s) ELSE p + 1) |->
     IF i = p + 1 THEN c ELSE IF i <= Len(s) THEN s[i] ELSE ZeroPage]

\* FileHandle::write: a stream opened for reading fails.
writeHandle(fs, f, p, c) ==
  IF ~fs.open[f].fail /\ fs.open[f].mode # "READ"
  THEN [ok |-> TRUE, fs |-> [fs EXCEPT !.disk[f] = Stored(@, p, c)]]
  ELSE [ok |-> FALSE, fs |-> Fail(fs, f)]

\* writePage.
writePage(fs, f, p, c) ==
  {IF o.ok THEN writeHandle(o.fs, f, p, c) ELSE o :
     o \in openFile(fs, f, "READ_WRITE")}
=============================================================================
