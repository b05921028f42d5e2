---------------------------- MODULE ArchiveViews ----------------------------
(***************************************************************************)
(* scripts/verify_distributions.py: the archives a release may publish.     *)
(* Three procedures of it, each run over every small input: the wheel's     *)
(* directory, headers and RECORD; the inventory of canonical paths that     *)
(* both kinds of archive are held to; the expansion of the source archive   *)
(* in bounded pieces and the padding after its last member.                 *)
(*                                                                         *)
(* A wheel is a sequence of cells, a header of [name, size] or plain bytes; *)
(* any cell may also be somebody's payload.  A gzip stream is a sequence of *)
(* cells that expand into some blocks each, an end, and what follows it.    *)
(***************************************************************************)
EXTENDS Integers, Sequences, FiniteSets, SequencesExt

CONSTANTS
    Files,             \* the files a wheel may hold
    Record,            \* dist-info/RECORD, one of them
    MaxCells,          \* a wheel's length (bound)
    Parts, Folded,     \* the components of a path, and the one each folds into
    MaxMembers,        \* members of an inventory (bound)
    ReadSize,          \* _STREAM_CHUNK_BYTES as cells read and blocks put out
    Ceiling,           \* _MAX_EXPANDED_TAR_BYTES, in blocks
    RecordBlocks,      \* tarfile.RECORDSIZE in blocks
    MaxAfter           \* cells after the end of the gzip member (bound)

VARIABLES
    archive,           \* what is verified: a wheel, an inventory, a source archive
    verdict,           \* "unread" | "reading" | "accepted" | "refused"
    position,          \* cells of the gzip file read so far
    pending,           \* of those, not yet consumed
    held,              \* blocks of a consumed cell the decompressor still holds
    expanded           \* blocks written to the spooled tar

archiveVars == <<archive, verdict, position, pending, held, expanded>>

-----------------------------------------------------------------------------
(* Wheels.                                                                 *)

Plain == [name |-> "", size |-> 0]
Headers == [name : Files, size : 0..1]
Cells == Headers \cup {Plain}

\* A central record names a local header.
Centrals == [name : Files, size : 0..1, offset : 1..MaxCells]
Wheels == [cells : SeqOf(Cells, MaxCells) \ {<<>>}, central : SeqOf(Centrals, 2) \ {<<>>}, rows : {<<>>}]

\* What RECORD may say: rows of a file and its content, none for RECORD itself.
Rows == SeqOf([name : Files \ {Record}, content : {<<>>, <<Plain>>}] \cup [name : {Record}, content : {<<>>}], 2)

\* Where the next local member starts.
After(c) == c.offset + 1 + c.size

\* Mutant: members may leave a gap between them.
LayoutLeavingGaps(w) ==
    LET starts == {w.central[i].offset : i \in DOMAIN w.central}
    IN  /\ Cardinality(starts) = Len(w.central)
        /\ \A i \in DOMAIN w.central : LET c == w.central[i] IN
              /\ c.offset <= Len(w.cells) /\ After(c) <= Len(w.cells) + 1
              /\ w.cells[c.offset] = [name |-> c.name, size |-> c.size]

\* _verify_zip_local_layout: sorted by offset, the members follow each other from the
\* first cell to the directory, and every header is its record's.
LayoutHolds(w) ==
    LET ordered == SetToSortSeq({w.central[i] : i \in DOMAIN w.central}, LAMBDA c, d : c.offset < d.offset)
        starts == {w.central[i].offset : i \in DOMAIN w.central}
    IN  /\ Cardinality(starts) = Len(w.central)
        /\ \A i \in DOMAIN ordered :
              /\ ordered[i].offset = (IF i = 1 THEN 1 ELSE After(ordered[i - 1]))
              /\ ordered[i].offset <= Len(w.cells)
              /\ w.cells[ordered[i].offset] = [name |-> ordered[i].name, size |-> ordered[i].size]
              /\ After(ordered[i]) <= Len(w.cells) + 1
        /\ After(Last(ordered)) = Len(w.cells) + 1

\* _read_zip_member, by the directory's entry.
Content(w, c) == SubSeq(w.cells, c.offset + 1, c.offset + c.size)

\* _verify_wheel_record: one row for each file and one file for each row, with its
\* content; RECORD's own row has none.
RecordCovers(w) ==
    LET actual == {w.central[i] : i \in DOMAIN w.central}
    IN  /\ Record \in {c.name : c \in actual}
        /\ w.rows # <<>>
        /\ \A i, j \in DOMAIN w.rows : i # j => w.rows[i].name # w.rows[j].name
        /\ \A i \in DOMAIN w.rows : \E c \in actual :
              /\ c.name = w.rows[i].name
              /\ w.rows[i].content = (IF c.name = Record THEN <<>> ELSE Content(w, c))
        /\ {w.rows[i].name : i \in DOMAIN w.rows} = {c.name : c \in actual}

\* The names in the directory, each once (_canonical_inventory on plain names).
NamesDiffer(w) == \A i, j \in DOMAIN w.central : i # j => w.central[i].name # w.central[j].name

\* verify_wheel, up to the members: the headers under the directory, then the names.
VerifyLayout ==
    /\ archive.kind = "wheel" /\ verdict = "unread"
    /\ verdict' = IF LayoutHolds(archive.wheel) /\ NamesDiffer(archive.wheel) THEN "reading" ELSE "refused"
    /\ UNCHANGED <<archive, position, pending, held, expanded>>

\* RECORD is read last; until then nothing depends on what it says.
VerifyRecord ==
    /\ archive.kind = "wheel" /\ verdict = "reading"
    /\ \E rows \in Rows :
          /\ archive' = [archive EXCEPT !.wheel.rows = rows]
          /\ verdict' = IF RecordCovers(archive'.wheel) THEN "accepted" ELSE "refused"
    /\ UNCHANGED <<position, pending, held, expanded>>

-----------------------------------------------------------------------------
(* Inventories of members, each a path and whether it is a directory.      *)

Paths == SeqOf(Parts, 2) \ {<<>>}
Members == [path : Paths, dir : BOOLEAN]

\* _portable_path_key.
Key(path) == [i \in DOMAIN path |-> Folded[path[i]]]
ParentsOf(path) == {SubSeq(path, 1, i) : i \in 1..(Len(path) - 1)}
ParentKeys(path) == {Key(p) : p \in ParentsOf(path)}

\* Mutant: a file is not held against the directories earlier members need.
RegisterFilesFirst(seen, m) ==
    LET key == Key(m.path)
        files == {k.key : k \in {k \in seen.kinds : ~k.dir}}
    IN  [ok |-> seen.ok /\ key \notin {k.key : k \in seen.kinds} /\ files \cap ParentKeys(m.path) = {},
         kinds |-> seen.kinds \cup {[key |-> key, dir |-> m.dir]},
         required |-> seen.required \cup ParentKeys(m.path)]

\* _register_canonical_member, on what the members before have left.
Register(seen, m) ==
    LET key == Key(m.path)
        files == {k.key : k \in {k \in seen.kinds : ~k.dir}}
    IN  [ok |-> /\ seen.ok /\ key \notin {k.key : k \in seen.kinds}
                /\ (m.dir \/ key \notin seen.required)
                /\ files \cap ParentKeys(m.path) = {},
         kinds |-> seen.kinds \cup {[key |-> key, dir |-> m.dir]},
         required |-> seen.required \cup ParentKeys(m.path)]

NothingSeen == [ok |-> TRUE, kinds |-> {}, required |-> {}]

\* _reject_unnecessary_directories.
DirectoriesAreNeeded(members) ==
    {Key(m.path) : m \in {m \in ToSet(members) : m.dir}}
        \subseteq UNION {ParentKeys(m.path) : m \in {m \in ToSet(members) : ~m.dir}}

\* _canonical_inventory: at least one file.
Canonical(members) ==
    /\ \E i \in DOMAIN members : ~members[i].dir
    /\ FoldLeft(Register, NothingSeen, members).ok
    /\ DirectoriesAreNeeded(members)

VerifyInventory ==
    /\ archive.kind = "inventory" /\ verdict = "unread"
    /\ verdict' = IF Canonical(archive.members) THEN "accepted" ELSE "refused"
    /\ UNCHANGED <<archive, position, pending, held, expanded>>

-----------------------------------------------------------------------------
(* Source archives: the blocks each gzip cell expands into, whether the     *)
(* member ends, the cells after it, the end of the tar's last member and    *)
(* whether anything but zeros follows that.                                 *)

Sources == [data : SeqOf(0..RecordBlocks, 2), ended : BOOLEAN, after : 0..MaxAfter,
            logicalEnd : 0..(2 * RecordBlocks), hidden : BOOLEAN]

\* The file's length, and the place of the member's end.
EndCell(s) == Len(s.data) + 1
Length(s) == Len(s.data) + (IF s.ended THEN 1 + s.after ELSE 0)

\* compressed.read: the next piece of the file, or its end before the member's.
Read ==
    /\ archive.kind = "source" /\ verdict \in {"unread", "reading"} /\ pending = 0
    /\ LET s == archive.source
       IN  IF position = Length(s)
           THEN verdict' = "refused" /\ UNCHANGED <<position, pending>>
           ELSE LET n == IF Length(s) - position < ReadSize THEN Length(s) - position ELSE ReadSize
                IN verdict' = "reading" /\ position' = position + n /\ pending' = n
    /\ UNCHANGED <<archive, held, expanded>>

\* The blocks the cells from i up to j expand into.
Blocks(s, i, j) == FoldLeft(LAMBDA a, b : a + b, 0, SubSeq(s.data, i, j))

\* What one decompress call may do with n data cells from `first` on: put out what it
\* held and what they expand into while there is room, and hold what no longer fits.
Expands(s, first, n, out, keep) ==
    /\ held + Blocks(s, first, first + n - 1) = out + keep
    /\ keep > 0 => out = ReadSize
    /\ keep > 0 /\ n > 0 => held + Blocks(s, first, first + n - 2) < ReadSize

\* Mutant: the fill is held against a whole record, the two end blocks included.
PaddingUnderARecord(s, size) ==
    /\ size - s.logicalEnd >= 2 /\ ~s.hidden
    /\ size - s.logicalEnd < RecordBlocks /\ size % RecordBlocks = 0

\* _verify_tar_end_padding.
PaddingHolds(s, size) ==
    /\ size - s.logicalEnd >= 2
    /\ ~s.hidden
    /\ size - s.logicalEnd - 2 < RecordBlocks
    /\ size % RecordBlocks = 0

\* Mutant: what follows the member is looked for in the piece only.
NothingInThePiece(s) == position \in 1..Length(s)

\* compressed.read(1) after the member's end: the file has nothing more.
NothingFollows(s) == position = Length(s)

\* decompressor.decompress and persist: as much as fits is put out, and at the
\* member's end the rest of the file must be empty.
Decompress ==
    /\ archive.kind = "source" /\ verdict = "reading" /\ pending > 0
    /\ LET s == archive.source
           first == position - pending + 1
           data == IF EndCell(s) - first < pending THEN EndCell(s) - first ELSE pending
       IN \E n \in 0..data, out \in 0..ReadSize, keep \in 0..RecordBlocks, ends \in BOOLEAN :
             LET left == pending - n - (IF ends THEN 1 ELSE 0)
                 accepts == left = 0 /\ NothingFollows(s) /\ PaddingHolds(s, expanded')
             IN  /\ Expands(s, first, n, out, keep)
                 /\ ends => n = data /\ n < pending /\ keep = 0
                 /\ out < ReadSize => n = data /\ (ends \/ n = pending)
                 /\ expanded' = expanded + out /\ held' = keep /\ pending' = left
                 /\ verdict' = IF expanded' > Ceiling \/ (ends /\ ~accepts) THEN "refused"
                               ELSE IF ends THEN "accepted" ELSE verdict
    /\ UNCHANGED <<archive, position>>

-----------------------------------------------------------------------------
Archives ==
    [kind : {"wheel"}, wheel : Wheels]
    \cup [kind : {"inventory"}, members : SeqOf(Members, MaxMembers)]
    \cup [kind : {"source"}, source : Sources]

Start(a) ==
    /\ archive = a /\ verdict = "unread"
    /\ position = 0 /\ pending = 0 /\ held = 0 /\ expanded = 0

Init == \E a \in Archives : Start(a)

Next == VerifyLayout \/ VerifyRecord \/ VerifyInventory \/ Read \/ Decompress

Spec == Init /\ [][Next]_archiveVars

-----------------------------------------------------------------------------
\* What a reader finds that walks the headers from the first cell on.
Walk(w) ==
    LET from[p \in 1..(Len(w.cells) + 2)] ==
            IF p > Len(w.cells) THEN <<>>
            ELSE LET h == w.cells[p]
                 IN IF h = Plain \/ p + h.size > Len(w.cells)
                    THEN <<[name |-> "", content |-> <<>>]>>
                    ELSE <<[name |-> h.name, content |-> SubSeq(w.cells, p + 1, p + h.size)]>>
                             \o from[p + 1 + h.size]
    IN  from[1]

\* An accepted wheel is the same files for every reader: the directory, a walk over the
\* headers and RECORD name each file once and with the same content
\* (_verify_zip_local_layout and _verify_wheel_record).
WheelReadsOneWay ==
    archive.kind = "wheel" /\ verdict = "accepted" =>
        LET w == archive.wheel
            listed == {[name |-> w.central[i].name, content |-> Content(w, w.central[i])] : i \in DOMAIN w.central}
        IN  /\ ToSet(Walk(w)) = listed /\ Len(Walk(w)) = Cardinality(listed)
            /\ Cardinality({f.name : f \in listed}) = Cardinality(listed)
            /\ {f \in listed : f.name # Record} = {r \in ToSet(w.rows) : r.name # Record}
            /\ \E f \in listed : f.name = Record

\* An inventory is accepted exactly when every file of it has a place of its own on a
\* file system that folds case, in whatever order the members are extracted, and no
\* directory is there for nothing (_register_canonical_member).
InventoryExtracts ==
    archive.kind = "inventory" /\ verdict # "unread" =>
        LET ms == archive.members
            distinct == \A i, j \in DOMAIN ms : i # j => Key(ms[i].path) # Key(ms[j].path)
            apart == \A i, j \in DOMAIN ms : ~ms[i].dir => Key(ms[i].path) \notin ParentKeys(ms[j].path)
            needed == \A i \in DOMAIN ms : ms[i].dir =>
                          \E j \in DOMAIN ms : ~ms[j].dir /\ Key(ms[i].path) \in ParentKeys(ms[j].path)
        IN  verdict = "accepted" <=> distinct /\ apart /\ needed /\ \E i \in DOMAIN ms : ~ms[i].dir

\* The length tarfile gives an archive whose last member ends there.
Padded(logicalEnd) ==
    CHOOSE size \in 0..(4 * RecordBlocks) :
        /\ size % RecordBlocks = 0 /\ size >= logicalEnd + 2
        /\ size - RecordBlocks < logicalEnd + 2

\* A source archive is accepted exactly when it is one whole gzip member with nothing
\* after it, of a length under the ceiling that is what tarfile writes, wherever its
\* pieces happen to end (_expand_sdist, _verify_tar_end_padding).
SourceIsOneMember ==
    archive.kind = "source" /\ verdict \in {"accepted", "refused"} =>
        LET s == archive.source
            total == Blocks(s, 1, Len(s.data))
        IN  /\ verdict = "accepted" <=>
                  /\ s.ended /\ s.after = 0 /\ ~s.hidden /\ total <= Ceiling
                  /\ total = Padded(s.logicalEnd)
            /\ verdict = "accepted" => expanded = total

ArchivesReadOneWay == WheelReadsOneWay /\ InventoryExtracts /\ SourceIsOneMember
=============================================================================
