------------------------------ MODULE Archive ------------------------------
(***************************************************************************)
(* The boot archive: gen/memar/memar.c writes the files of a directory     *)
(* tree into it when the system is built, and core/initrd.c looks a path   *)
(* up in it when the system boots.                                         *)
(*                                                                         *)
(* The archive is a sequence of cells: a character of a name, a word of a  *)
(* file, and the magic and each size of a header as one cell.  A directory *)
(* is a set of entries, which readdir gives in any order.                  *)
(***************************************************************************)
EXTENDS Integers, Sequences, SequencesExt, FiniteSets

CONSTANTS
  Trees,          \* the directory trees there may be: sets of entries
  Olds,           \* what the output file may hold before
  Paths,          \* the paths the kernel looks up
  InputDir,       \* the option -i, a name
  FILE_NAME_MAX,  \* characters of a name in the header
  FILE_ALIGN,     \* contents are padded to a multiple of it
  MAGIC           \* the cell that stands for "LORD"

Dot == 46
Slash == 47
Outside == -1     \* what lies after the archive, or after a path

ASSUME ArchiveAssumption ==
  /\ FILE_NAME_MAX \in Nat \ {0, 1} /\ FILE_ALIGN \in Nat \ {0}
  /\ Slash \notin {InputDir[i] : i \in DOMAIN InputDir}
  /\ MAGIC \in Nat

VARIABLES
  tree, old,  \* the input, and the output file as it was
  file,       \* the output file
  out,        \* the offset of its descriptor
  pc,
  stack,      \* the calls of concat_foreach: their path and the entries left
  faults,     \* which of "open" (or fdopendir), "mmap" have failed
  path,       \* what the kernel looks up
  p,          \* where its walk is, from 0
  result      \* what initrd_lookup returned, an offset; 0 is NULL

vars == <<tree, old, file, out, pc, stack, faults, path, p, result>>
writer == <<tree, old, file, out, stack, faults>>
reader == <<path, p, result>>
-----------------------------------------------------------------------------
\* The header of the writer, and that of the reader: it has fname_size before
\* the name.
HeaderCells == 3
NameCells == HeaderCells + 1

\* What file_hdr_init puts into the name: the path after its first slash.
Stripped(name) == LET slash == SelectInSeq(name, LAMBDA c : c = Slash)
                  IN  SubSeq(name, slash + 1, Len(name))

Truncated(name) == IF Len(name) >= FILE_NAME_MAX - 1 THEN SubSeq(name, 1, FILE_NAME_MAX - 1) ELSE name

\* The header of a file of size cells.
file_hdr_init(name, size) ==
  LET kept == Truncated(Stripped(name))
  IN  <<MAGIC, HeaderCells + Len(kept), size>> \o kept

\* Mutant: contents that need no padding get a whole unit of it.
FullPadding(size) == FILE_ALIGN - (size % FILE_ALIGN)

Padding(size) == (FILE_ALIGN - (size % FILE_ALIGN)) % FILE_ALIGN

Zeros(n) == [i \in 1 .. n |-> 0]

\* Mutant: the file does not grow.
InPlace(cells) == [i \in DOMAIN file |-> IF i - out \in DOMAIN cells THEN cells[i - out] ELSE file[i]]

\* write(): cells replace those at the offset, and the file grows if it must.
Overwritten(cells) == SubSeq(file, 1, out) \o cells \o SubSeq(file, out + Len(cells) + 1, Len(file))
Write(cells) == /\ file' = Overwritten(cells)
                /\ out' = out + Len(cells)

Top == Last(stack)
PathOf(entry) == Top.path \o <<Slash>> \o entry.name
Take(entry) == [stack EXCEPT ![Len(stack)].left = @ \ {entry}]
-----------------------------------------------------------------------------
Init == /\ tree \in Trees /\ old \in Olds
        /\ file = old /\ out = 0
        /\ pc = "start"
        /\ stack = <<>>
        /\ faults = {}
        /\ path \in Paths /\ p = 0 /\ result = 0

\* dir_concat.
DirConcat == /\ pc = "start"
             /\ pc' = "scan"
             /\ stack' = <<[path |-> InputDir, left |-> tree]>>
             /\ UNCHANGED <<tree, old, file, out, faults, reader>>

\* The input or the output cannot be opened, or the input is no directory that
\* concat_foreach can read: nothing is written.
OpenFails == /\ pc = "start"
             /\ pc' = "read"
             /\ faults' = {"open"}
             /\ UNCHANGED <<tree, old, file, out, stack, reader>>

\* The next entry of the directory on top, where it is of one of the types.
Read(entry, types) == /\ pc = "scan" /\ stack # <<>>
                      /\ entry \in Top.left
                      /\ entry.name[1] # Dot
                      /\ entry.type \in types
                      /\ UNCHANGED <<tree, old, pc, reader>>

\* A hidden name, or neither a file nor a directory.
Skip(entry) == /\ pc = "scan" /\ stack # <<>>
               /\ entry \in Top.left
               /\ entry.name[1] = Dot \/ entry.type \notin {"DT_DIR", "DT_REG"}
               /\ stack' = Take(entry)
               /\ UNCHANGED <<tree, old, file, out, pc, faults, reader>>

Descend(entry) == /\ Read(entry, {"DT_DIR"})
                  /\ stack' = Append(Take(entry), [path |-> PathOf(entry), left |-> entry.in])
                  /\ UNCHANGED <<file, out, faults>>

\* A directory that cannot be opened ends the scan of the one it is in.
DescendFails(entry) == /\ Read(entry, {"DT_DIR"})
                       /\ stack' = Front(stack)
                       /\ faults' = faults \cup {"open"}
                       /\ UNCHANGED <<file, out>>

\* One that is opened but that fdopendir refuses is passed over.
DescendUnread(entry) == /\ Read(entry, {"DT_DIR"})
                        /\ stack' = Take(entry)
                        /\ faults' = faults \cup {"open"}
                        /\ UNCHANGED <<file, out>>

\* write_file.  The size in the header is that of the contents, not padded.
WriteFile(entry) == LET size == Len(entry.data)
                    IN  /\ Read(entry, {"DT_REG"})
                        /\ Write(file_hdr_init(PathOf(entry), size) \o entry.data \o Zeros(Padding(size)))
                        /\ stack' = Take(entry)
                        /\ UNCHANGED faults

WriteFileFails(entry) == /\ Read(entry, {"DT_REG"})
                         /\ stack' = Take(entry)
                         /\ faults' = faults \cup {"open"}
                         /\ UNCHANGED <<file, out>>

\* mmap returns MAP_FAILED, which is not NULL: the write of the contents fails
\* and nothing looks at that.
WriteUnmapped(entry) == LET size == Len(entry.data)
                        IN  /\ Read(entry, {"DT_REG"})
                            /\ size > 0
                            /\ Write(file_hdr_init(PathOf(entry), size) \o Zeros(Padding(size)))
                            /\ stack' = Take(entry)
                            /\ faults' = faults \cup {"mmap"}

\* concat_foreach returns.
EndOfDirectory == /\ pc = "scan" /\ stack # <<>>
                  /\ Top.left = {}
                  /\ stack' = Front(stack)
                  /\ UNCHANGED <<tree, old, file, out, pc, faults, reader>>

Written == /\ pc = "scan" /\ stack = <<>>
           /\ pc' = "read"
           /\ UNCHANGED <<writer, reader>>
-----------------------------------------------------------------------------
\* The cell n after the walk's position, and character k of the path.
CellAt(n) == IF p + n < Len(file) THEN file[p + n + 1] ELSE Outside
PathCell(k) == LET kept == IF path[1] = Slash THEN Tail(path) ELSE path
               IN  IF k <= Len(kept) THEN kept[k] ELSE IF k = Len(kept) + 1 THEN 0 ELSE Outside

MagicMatches == CellAt(0) = MAGIC

\* The first fname_size cells of the name are those of the path.
NameMatches == \A k \in 1 .. CellAt(HeaderCells) : CellAt(NameCells + k - 1) = PathCell(k)

Return(value) == pc' = "returned" /\ result' = value /\ UNCHANGED <<writer, path, p>>

\* Mutant: the walk stays where it is.
Nowhere == p

NextHeader == p + CellAt(2) + CellAt(1)

\* initrd_lookup: the end of the archive, or something that is no header.
LookupEndsWalk == /\ pc = "read"
                  /\ p >= Len(file) \/ ~MagicMatches
                  /\ Return(0)

LookupHeader == /\ pc = "read"
                /\ p < Len(file) /\ MagicMatches
                /\ pc' = "compare"
                /\ UNCHANGED <<writer, reader>>

LookupFound == /\ pc = "compare" /\ NameMatches
               /\ Return(p + CellAt(1))

LookupNext == /\ pc = "compare" /\ ~NameMatches
              /\ p' = NextHeader
              /\ pc' = "read"
              /\ UNCHANGED <<writer, path, result>>

Lookup == LookupEndsWalk \/ LookupHeader \/ LookupFound \/ LookupNext

Scan(entry) == \/ Skip(entry)
               \/ Descend(entry) \/ DescendFails(entry) \/ DescendUnread(entry)
               \/ WriteFile(entry) \/ WriteFileFails(entry) \/ WriteUnmapped(entry)

Done == pc = "returned" /\ UNCHANGED vars

Next == \/ DirConcat \/ OpenFails
        \/ \E entry \in (IF stack = <<>> THEN {} ELSE Top.left) : Scan(entry)
        \/ EndOfDirectory \/ Written
        \/ Lookup
        \/ Done

Spec == Init /\ [][Next]_vars

\* One processor runs the lookup with nothing else to do.
FairSpec == Spec /\ WF_vars(Lookup)
-----------------------------------------------------------------------------
\* The records in the cells before `out`, found by the sizes and the padding
\* of the format: where each begins, its name and its contents.
RECURSIVE RecordsFrom(_)
RecordsFrom(at) ==
  IF at >= out THEN <<>>
  ELSE IF file[at + 1] # MAGIC THEN <<[at |-> at, name |-> <<>>, data |-> <<Outside>>]>>
  ELSE LET header == file[at + 2]
           size == file[at + 3]
       IN  <<[at |-> at,
              name |-> SubSeq(file, at + HeaderCells + 1, at + header),
              data |-> SubSeq(file, at + header + 1, at + header + size)]>>
           \o RecordsFrom(at + header + CHOOSE n \in size .. size + FILE_ALIGN - 1 : n % FILE_ALIGN = 0)

\* The files of a directory and below it, none of them hidden, and their paths
\* from the root of the tree.
RECURSIVE FilesUnder(_, _)
FilesUnder(prefix, entries) ==
  LET seen == {e \in entries : e.name[1] # Dot}
  IN  {<<prefix \o e.name, e.data>> : e \in {e \in seen : e.type = "DT_REG"}}
      \cup UNION {FilesUnder(prefix \o e.name \o <<Slash>>, e.in) : e \in {e \in seen : e.type = "DT_DIR"}}

AsRecorded(files) == {<<SubSeq(f[1], 1, IF Len(f[1]) < FILE_NAME_MAX THEN Len(f[1]) ELSE FILE_NAME_MAX - 1), f[2]>> : f \in files}

\* Nothing of an older, longer archive follows the new one.
NoTail == Len(file) = out

\* Every variable is of its type.
TypeOK ==
  /\ file \in Seq(Nat) /\ out \in 0 .. Len(file)
  /\ pc \in {"start", "scan", "read", "compare", "returned"}
  /\ \A i \in DOMAIN stack : stack[i].path \in Seq(Nat \ {0})
  /\ faults \subseteq {"open", "mmap"}
  /\ p \in Nat /\ result \in Nat

\* What memar has written parses by the documented format into files of the
\* tree, each once and under the name it has there (up to the longest name);
\* and where nothing failed, into all of them, whatever the order of readdir.
\* Cells of an older file only remain after the last record.
ArchiveHoldsTree ==
  pc # "start" /\ "mmap" \notin faults =>
    LET records == RecordsFrom(0)
        held == {<<r.name, r.data>> : r \in ToSet(records)}
        files == FilesUnder(<<>>, tree)
    IN  /\ held \subseteq AsRecorded(files)
        /\ Len(records) <= Cardinality(files)
        /\ pc # "scan" /\ faults = {} => Len(records) = Cardinality(files) /\ held = AsRecorded(files)
        /\ SubSeq(file, out + 1, Len(file)) = SubSeq(old, out + 1, Len(old))

\* The walk of initrd_lookup takes for headers only what memar wrote as
\* headers, never the contents of a file, even of one that holds an archive;
\* and what it returns is where the contents of a file begin.
HeadersAreRecords ==
  NoTail /\ "mmap" \notin faults =>
    LET records == ToSet(RecordsFrom(0))
    IN  /\ pc = "compare" => \E r \in records : p = r.at
        /\ result # 0 => \E r \in records : result = r.at + HeaderCells + Len(r.name)

\* The archive memar leaves (main, write_directory) is one that the walk of
\* initrd_lookup can be trusted with: it holds the tree, and the walk meets
\* nothing but its records.
ArchiveSound == ArchiveHoldsTree /\ HeadersAreRecords

\* A lookup in what memar wrote ends, whatever is looked up.
LookupReturns == pc = "read" ~> pc = "returned"

\* "Lookup a path within the initrd and return the base of the data"
\* (inc/core/initrd.h:38): a file of the tree is found, and at its contents.
\* The program does not keep this.
EveryFileFound ==
  pc = "returned" /\ NoTail /\ faults = {} =>
    \A r \in ToSet(RecordsFrom(0)) :
      r.name = (IF path[1] = Slash THEN Tail(path) ELSE path)
        => result = r.at + HeaderCells + Len(r.name)
=============================================================================
