------------------------------ MODULE Streams -------------------------------
(***************************************************************************)
(* A script that works on files through stream handles (vfs.c).  A handle   *)
(* (io_private) reads ahead: feof() and the functions that read lines ask   *)
(* the device for more than they give, and keep the rest in a buffer.  The  *)
(* position of the device is therefore ahead of what the script has got, by *)
(* the length of the buffer.  The device is a Unix file.                    *)
(*                                                                          *)
(* A handle stays valid until fclose(): a call with a closed handle is      *)
(* refused and changes nothing.  The block of a closed handle may serve the *)
(* next fopen(), and a variable that still names it then reads that file.   *)
(*                                                                          *)
(* Bounds: files have at most MaxFile characters; 4096 and 8192, what       *)
(* feof() and the line reader ask of the device, are FeofChunk and          *)
(* LineChunk.  A script does not seek past the end of a file.  The device   *)
(* does not fail, and memory does not run out.                              *)
(***************************************************************************)
EXTENDS PathLib

CONSTANTS
    Paths,       \* names of files
    Openings,    \* what the script opens: a block for the handle, a path, a mode
    Writes,      \* texts that are written
    Rows,        \* fields that are written as a line of a table
    MaxFile,     \* (bound)
    FeofChunk, LineChunk

ASSUME StreamsAssumption ==
    /\ FeofChunk \in Nat \ {0} /\ LineChunk \in Nat \ {0} /\ MaxFile \in Nat \ {0}
    /\ Writes \subseteq Seq(STRING) /\ Rows \subseteq Seq(Seq(STRING))

VARIABLES
    files,       \* what each file that exists holds
    streams      \* the handles that are open, by their blocks

streamVars == <<files, streams>>

StreamInit == files = <<>> /\ streams = <<>>      \* both have an empty domain

With(f, x, v) == [y \in DOMAIN f \cup {x} |-> IF y = x THEN v ELSE f[y]]
Upto(s, n) == SubSeq(s, 1, Min({n, Len(s)}))
Content(st) == files[st.path]

\* StrModeToFlags, and what UnixFile_Open makes of them.
Modes ==
    [r |-> {"read"}, rplus |-> {"read", "write"},
     w |-> {"write", "create", "trunc"}, wplus |-> {"read", "write", "create", "trunc"},
     a |-> {"write", "create", "append"}, aplus |-> {"read", "write", "create", "append"},
     x |-> {"write", "excl"}, xplus |-> {"read", "write", "excl"},
     c |-> {"write", "create"}, cplus |-> {"read", "write", "create"}]

ASSUME OpeningsAssumption == \A o \in Openings : o[2] \in Paths /\ o[3] \in DOMAIN Modes

\* A handle as it is right after fopen() or a successful seek: `from` is where the
\* device was then, `got` what the script has been given since.  Once the device
\* has been moved by writing, or the file was changed under it, from is Torn.
InitIOPrivate(path, flags, pos) ==
    [path |-> path, flags |-> flags, pos |-> pos, buf |-> <<>>, from |-> pos, got |-> <<>>]
Torn == -1
TornOff(st) == [st EXCEPT !.from = Torn, !.got = <<>>]
Given(st, t) == [st EXCEPT !.got = IF st.from = Torn THEN @ ELSE @ \o t]

-----------------------------------------------------------------------------
(* Reading.                                                                 *)

\* UnixFile_Read
DevRead(st, n) ==
    IF "read" \in st.flags /\ st.pos < Len(Content(st))
    THEN Upto(Drop(Content(st), st.pos), n) ELSE <<>>

\* What a call gives, and the handle it leaves.
Result(t, st) == [text |-> t, st |-> st]

StreamRead(st, n) ==
    LET kept == Upto(st.buf, n)
        more == DevRead(st, n - Len(kept))
    IN  Result(kept \o more,
               Given([st EXCEPT !.buf = Drop(@, Len(kept)), !.pos = @ + Len(more)], kept \o more))

\* GetLine: the line at the beginning, with its end, or the whole text.
GetLine(t) ==
    LET ends == {i \in DOMAIN t : t[i] = "\n"} IN IF ends = {} THEN t ELSE SubSeq(t, 1, Min(ends))
HasLine(t) == "\n" \in Range(t)

\* Reads from the device are added to the buffer until it has a line, or max
\* characters if max is positive, or there are no more.
StreamReadLine(st, max) ==
    LET chunk == IF max > 0 /\ max < LineChunk THEN max ELSE LineChunk
        read(k) == DevRead(st, k * chunk)
        buffer(k) == st.buf \o read(k)
        enough(k) ==
            \/ HasLine(buffer(k))
            \/ k > 0 /\ (max > 0 /\ Len(buffer(k)) >= max)
            \/ k > 0 /\ read(k) = read(k - 1)
        reads == Min({k \in 0 .. MaxFile + 1 : enough(k)})
        line == GetLine(buffer(reads))
    IN  Result(line,
               Given([st EXCEPT !.buf = Drop(buffer(reads), Len(line)),
                                !.pos = @ + Len(read(reads))], line))

\* feof() asks the device only when the buffer is used up.
EofOfDevice(st) ==      \* mutant: the buffer is not looked at
    LET more == DevRead(st, FeofChunk)
    IN  [eof |-> more = <<>>, st |-> [st EXCEPT !.buf = @ \o more, !.pos = @ + Len(more)]]
feof(st) ==
    LET more == IF st.buf = <<>> THEN DevRead(st, FeofChunk) ELSE <<>>
    IN  [eof |-> st.buf = <<>> /\ more = <<>>,
         st |-> [st EXCEPT !.buf = @ \o more, !.pos = @ + Len(more)]]

\* FALSE for nothing.
fgetc(st) == StreamRead(st, 1)
fread(st, n) == StreamRead(st, IF n < 1 THEN FeofChunk ELSE n)
fgets(st, max) == StreamReadLine(st, max)
fgetcsv(st, max, c) ==
    LET r == StreamReadLine(st, max) IN IF r.text = <<>> THEN NoArray ELSE str_getcsv(r.text, c)
ftell(st) == st.pos

\* fpassthru() prints what is left.  More than LineChunk characters are left out:
\* from the second read on it prints as many characters as it has read so far.
fpassthru(st) == StreamRead(st, LineChunk)
Prints(st) == Len(st.buf) + Len(Content(st)) - st.pos <= LineChunk

-----------------------------------------------------------------------------
(* Functions that open a file by its path, and close it.                    *)

\* The lines of a file, read until there are no more.
LinesOf(st) ==
    LET read[k \in 1 .. MaxFile + 1] ==
            StreamReadLine(IF k = 1 THEN st ELSE read[k - 1].st, -1)
        last == Min({k \in DOMAIN read : read[k].text = <<>>})
    IN  [k \in 1 .. last - 1 |-> read[k].text]

\* file(): flags 0x02 takes the ends off the lines, 0x04 leaves out the lines
\* that are blank.
file(path, flags) ==
    LET bare(t) == IF "ignore_new_lines" \in flags THEN RightTrimmed(t, {"\n"}) ELSE t
        wanted(t) == "skip_empty_lines" \in flags => \E i \in DOMAIN bare(t) : bare(t)[i] \notin Spaces
        lines == SelectSeq(LinesOf(InitIOPrivate(path, {"read"}, 0)), wanted)
    IN  [i \in DOMAIN lines |-> bare(lines[i])]

\* PH7_StreamReadWholeFile, readfile, and the loop of copy: what the device gives,
\* block by block, until it gives nothing.
ReadWhole(path) ==
    LET block(k) == DevRead(InitIOPrivate(path, {"read"}, (k - 1) * LineChunk), LineChunk)
    IN  FlattenSeq([k \in 1 .. Cardinality({k \in 1 .. MaxFile : block(k) # <<>>}) |-> block(k)])

\* Chunks of max characters, or of LineChunk, until max or more have come.
file_get_contents(path, offset, max) ==
    LET chunk == IF max > 0 /\ max < LineChunk THEN max ELSE LineChunk
        rest == Drop(files[path], Max({offset, 0}))
        whole == Min({k \in 1 .. MaxFile + 1 :
                         (max > 0 /\ k * chunk >= max) \/ k * chunk >= Len(rest)}) * chunk
    IN  IF rest = <<>> THEN No ELSE Upto(rest, whole)

-----------------------------------------------------------------------------
(* Writing.                                                                 *)

Sized(t, n) == [i \in 1 .. n |-> IF i <= Len(t) THEN t[i] ELSE "NUL"]
WrittenOver(t, at, piece) ==
    LET d == Sized(t, Max({Len(t), at + Len(piece)}))
    IN  [i \in DOMAIN d |-> IF i \in at + 1 .. at + Len(piece) THEN piece[i - at] ELSE d[i]]

\* The file changes under the handles on it, except behind where they are.
Changed(sts, path, text) ==
    [s \in DOMAIN sts |->
        IF sts[s].path = path /\ Upto(text, sts[s].pos) # Upto(files[path], sts[s].pos)
        THEN TornOff(sts[s]) ELSE sts[s]]
Put(path, text) == With(files, path, text)

\* UnixFile_Write: the buffer stays as it is.
Write(s, piece) ==
    LET st == streams[s]
        at == IF "append" \in st.flags THEN Len(Content(st)) ELSE st.pos
        text == WrittenOver(Content(st), at, piece)
    IN  /\ "write" \in st.flags /\ piece # <<>> /\ Len(text) <= MaxFile
        /\ files' = Put(st.path, text)
        /\ streams' = [Changed(streams, st.path, text) EXCEPT
                           ![s] = [TornOff(st) EXCEPT !.pos = at + Len(piece)]]

\* csv_write_callback: empty fields are not written, and a field with the
\* delimiter or the enclosure in it is enclosed - twice, if it begins with the
\* enclosure.
CsvLine(fields, c) ==
    LET marks(t) ==
            IF c.delim \notin Range(t) /\ c.encl \notin Range(t) THEN <<>>
            ELSE IF c.delim \notin Range(t) /\ t[1] = c.encl THEN <<c.encl, c.encl>>
            ELSE <<c.encl>>
        first(i) == \A j \in 1 .. i - 1 : fields[j] = <<>>
        written(i) ==
            IF fields[i] = <<>> THEN <<>>
            ELSE (IF first(i) THEN <<>> ELSE <<c.delim>>)
                     \o marks(fields[i]) \o fields[i] \o marks(fields[i])
    IN  FlattenSeq([i \in DOMAIN fields |-> written(i)]) \o NewLine

-----------------------------------------------------------------------------
(* The calls of the script.                                                 *)

Fopen(s, path, mode) ==
    LET flags == Modes[mode]
        text == IF path \in DOMAIN files /\ "trunc" \notin flags THEN files[path] ELSE <<>>
    IN  /\ s \notin DOMAIN streams
        /\ IF path \in DOMAIN files THEN "excl" \notin flags
           ELSE flags \cap {"create", "excl"} # {}
        /\ files' = Put(path, text)
        /\ streams' = With(Changed(streams, path, text), s, InitIOPrivate(path, flags, 0))

\* The standard streams are never closed.
Fclose(s) ==
    /\ streams' = [t \in DOMAIN streams \ {s} |-> streams[t]]
    /\ UNCHANGED files

Takes1(s, r) == streams' = [streams EXCEPT ![s] = r.st] /\ UNCHANGED files
Read(s) ==
    \/ Takes1(s, fgetc(streams[s]))
    \/ \E n \in 0 .. 2 : Takes1(s, fread(streams[s], n))
    \/ \E max \in {-1, 1, 2} : Takes1(s, fgets(streams[s], max))
    \/ Takes1(s, feof(streams[s]))
    \/ Prints(streams[s]) /\ Takes1(s, fpassthru(streams[s]))

BufferKept(st, pos) ==      \* mutant: what was read ahead stays
    [st EXCEPT !.pos = pos, !.from = pos, !.got = <<>>]
\* ResetIOPrivate once the device has moved.
ResetIOPrivate(st, pos) == InitIOPrivate(st.path, st.flags, pos)

\* fseek(), and rewind().  The current position is the device's.
Fseek(s, offset, whence) ==
    LET st == streams[s]
        pos == offset + (CASE whence = "SEEK_CUR" -> st.pos
                           [] whence = "SEEK_END" -> Len(Content(st))
                           [] OTHER -> 0)
    IN  /\ pos \in 0 .. Len(Content(st))
        /\ streams' = [streams EXCEPT ![s] = ResetIOPrivate(st, pos)]
        /\ UNCHANGED files

Ftruncate(s, n) ==
    LET st == streams[s]
        text == Sized(Content(st), n)
    IN  /\ "write" \in st.flags
        /\ files' = Put(st.path, text)
        /\ streams' = [Changed(streams, st.path, text) EXCEPT ![s] = ResetIOPrivate(st, st.pos)]

\* fwrite(), fprintf() and fputcsv()
Fwrite(s) == \E piece \in Writes : Write(s, piece)
Fputcsv(s) == \E row \in Rows : Write(s, CsvLine(row, [delim |-> ",", encl |-> "\""]))

FilePut(path, text) ==
    /\ Len(text) <= MaxFile
    /\ files' = Put(path, text)
    /\ streams' = Changed(streams, path, text)

file_put_contents(path, piece, append) ==
    FilePut(path, IF append /\ path \in DOMAIN files THEN files[path] \o piece ELSE piece)

\* The destination is cut to nothing before the source is read.
copy(from, to) ==
    /\ from \in DOMAIN files
    /\ FilePut(to, IF from = to THEN <<>> ELSE ReadWhole(from))

StreamNext ==
    \/ \E o \in Openings : Fopen(o[1], o[2], o[3])
    \/ \E s \in DOMAIN streams :
          \/ Fclose(s) \/ Read(s) \/ Fwrite(s) \/ Fputcsv(s)
          \/ \E offset \in {-1, 0, 1}, whence \in {"SEEK_SET", "SEEK_CUR", "SEEK_END"} :
                 Fseek(s, offset, whence)
          \/ \E n \in 0 .. 1 : Ftruncate(s, n)
    \/ \E path \in Paths, piece \in Writes, append \in BOOLEAN :
          file_put_contents(path, piece, append)
    \/ \E from, to \in Paths : copy(from, to)

StreamSpec == StreamInit /\ [][StreamNext]_streamVars

-----------------------------------------------------------------------------
(* Properties.                                                              *)

\* However the ways to read are mixed, however they read ahead, and whatever
\* other handles do to the file behind the place, what a handle has given since
\* it was last opened or moved, and what it keeps for later, is the part of the
\* file its device went over: nothing twice, nothing left out.
ReadsInOrder ==
    \A s \in DOMAIN streams :
        LET st == streams[s]
        IN  st.from # Torn =>
                /\ st.from + Len(st.got) + Len(st.buf) = st.pos
                /\ st.got \o st.buf = SubSeq(Content(st), st.from + 1, st.pos)

Unread(st) ==
    st.buf \o (IF st.pos < Len(Content(st)) THEN Drop(Content(st), st.pos) ELSE <<>>)

\* Wherever a handle is, each way to read begins at the first character that is
\* still unread; lines are whole, and the end is reported when nothing is left
\* and not before.  The functions that read a file at once give all of it, or what
\* was asked of it.
SeesTheRest ==
    /\ \A s \in DOMAIN streams :
          LET st == streams[s]
              rest == Unread(st)
          IN  "read" \in st.flags =>
                  /\ feof(st).eof <=> rest = <<>>
                  /\ fgetc(st).text = Upto(rest, 1)
                  /\ fgets(st, -1).text = GetLine(rest)
                  /\ \A n \in 1 .. MaxFile :
                        /\ fread(feof(st).st, n).text = Upto(rest, n)
                        /\ LET line == fgets(st, n).text
                           IN  IsPrefix(line, GetLine(rest)) /\ (Len(line) >= n \/ line = GetLine(rest))
                  /\ st.from # Torn /\ st.buf = <<>> => ftell(st) = st.from + Len(st.got)
    /\ \A path \in DOMAIN files :
          /\ ReadWhole(path) = files[path]
          /\ \A n \in 1 .. MaxFile, offset \in 0 .. MaxFile :
                LET rest == Drop(files[path], offset)
                    text == file_get_contents(path, offset, n)
                IN  IF rest = <<>> THEN text = No ELSE IsPrefix(Upto(rest, n), text)

\* The lines of a file make up the file, and bare ones are not empty and have no
\* end.  A row of a table is read as it was written.  Left out are rows with empty
\* fields, with the enclosure inside a field, and with a last field in enclosures.
LinesAgree ==
    \A path \in DOMAIN files :
        /\ FlattenSeq(file(path, {})) = files[path]
        /\ \A line \in Range(file(path, {"ignore_new_lines", "skip_empty_lines"})) :
              line # <<>> /\ ~HasLine(line)
        /\ \A row \in Rows :
              LET c == [delim |-> ",", encl |-> "\"", escape |-> Slash]
                  st == InitIOPrivate(path, {"read"}, 0)
                  plain == /\ row # <<>> /\ \A t \in Range(row) : t # <<>> /\ c.encl \notin Range(t)
                           /\ c.delim \notin Range(row[Len(row)])
              IN  plain /\ files[path] = CsvLine(row, c) => fgetcsv(st, -1, c) = row

=============================================================================
