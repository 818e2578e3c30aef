------------------------------- MODULE CatPng -------------------------------
(***************************************************************************)
(* src/proj1/catpng.c, which stacks PNG files of three chunks (IHDR, IDAT, *)
(* IEND) into all.png, and src/proj1/pnginfo.c, which reads a PNG file and *)
(* checks its CRCs.  The programs are run one after the other in the same  *)
(* directory, and all.png stays there between the runs.                    *)
(*                                                                         *)
(* A file is a sequence of bytes.  A byte is known by the field it is part *)
(* of, by its place in the field and by what the field holds; deflated     *)
(* data are known by the run that made them.  A CRC is known by the bytes  *)
(* it was computed from: different bytes are taken to have different CRCs. *)
(* An input picture is what IHDR says of it and what becomes of its data,  *)
(* as in Zutil.                                                            *)
(* A definition named Bug... is a mistaken variant of the one after it.    *)
(***************************************************************************)
EXTENDS Zutil, Sequences

CONSTANTS Pictures,   \* the pictures that catpng can be given
          MaxArgs,    \* bound: pictures on a command line
          MaxRuns,    \* bound: runs of catpng
          Deflated    \* bound: how many bytes deflate may make

ASSUME BoundAssumption ==
    MaxArgs \in Nat \ {0} /\ MaxRuns \in Nat /\ Deflated \subseteq Nat \ {0}

Size(p) == p.height * (4 * p.width + 1)     \* bytes of the inflated picture

(* What IHDR says need not be true of the data: nobody checks it.          *)
ASSUME PictureAssumption ==
    \A p \in Pictures :
        /\ p.width \in Nat \ {0} /\ p.height \in Nat \ {0}
        /\ p.flaw \in {"sound", "broken", "short"} /\ p.at \in Nat

VARIABLES
    pc,             \* the step that catpng or pnginfo is about to take, or "astray"
    files, i,       \* the command line of catpng, the file of the loop
    height, uncompressed_length, prev_data_size,
    buffer,         \* final_buffer_uncompressed
    all, pos,       \* the bytes of all.png, the position in it
    IDAT_length,
    made,           \* of every image its command line, first byte, deflated size
    answer          \* what pnginfo said of all.png

vars == <<pc, files, i, height, uncompressed_length, prev_data_size, buffer,
          all, pos, IDAT_length, made, answer>>

image == <<height, uncompressed_length, prev_data_size, buffer>>

Unknown == [of |-> {}, at |-> 0]     \* a byte that malloc left there

Init ==
    /\ pc = "idle" /\ files = << >> /\ i = 1
    /\ height = 0 /\ uncompressed_length = 0 /\ prev_data_size = 0
    /\ buffer = << >> /\ all = << >> /\ pos = 0 /\ IDAT_length = 0
    /\ made = << >> /\ answer = [says |-> "nothing", of |-> << >>]

-----------------------------------------------------------------------------
(* Bytes and the stdio calls on all.png, which is open in mode a+: a write *)
(* goes to the end and leaves the position there.                          *)

Field(name, n, value) == [j \in 1 .. n |-> <<name, j, value>>]

fread(n, from) == SubSeq(all, from + 1, from + n)
fwrite(bytes) == all' = all \o bytes /\ pos' = Len(all) + Len(bytes)

crc(bytes) == Field("crc", 4, bytes)

(* The number in a length field; a position that is not at the start of    *)
(* such a field reads a number nobody wrote.                               *)
Length(from) ==
    IF fread(4, from) # << >> /\ fread(4, from) = Field("length", 4, fread(1, from)[1][3])
    THEN fread(1, from)[1][3] ELSE -1

-----------------------------------------------------------------------------
(* catpng *)

catpng(args) ==
    /\ pc = "idle" /\ Len(made) < MaxRuns
    /\ pc' = "measure" /\ files' = args /\ i' = 1
    /\ uncompressed_length' = 0 /\ height' = 0 /\ prev_data_size' = 0
    /\ buffer' = << >>
    /\ UNCHANGED <<all, pos, IDAT_length, made, answer>>

\* planted bug: the sizes are not added up
BugMeasure ==
    /\ pc = "measure"
    /\ uncompressed_length' = Size(files[i])
    /\ IF i < Len(files)
       THEN i' = i + 1 /\ UNCHANGED <<pc, buffer>>
       ELSE /\ pc' = "inflate" /\ i' = 1
            /\ buffer' = [j \in 1 .. uncompressed_length' |-> Unknown]
    /\ UNCHANGED <<files, height, prev_data_size, all, pos, IDAT_length, made, answer>>

(* First loop: the sizes, and after the last file the buffer.              *)
Measure ==
    /\ pc = "measure"
    /\ uncompressed_length' = uncompressed_length + Size(files[i])
    /\ IF i < Len(files)
       THEN i' = i + 1 /\ UNCHANGED <<pc, buffer>>
       ELSE /\ pc' = "inflate" /\ i' = 1
            /\ buffer' = [j \in 1 .. uncompressed_length' |-> Unknown]
    /\ UNCHANGED <<files, height, prev_data_size, all, pos, IDAT_length, made, answer>>

(* The data of a picture as mem_inf leaves them: *dest_len is the size     *)
(* that the header promises until mem_inf sets it.                         *)
Result(p) == mem_inf(p, Size(p))
Inflated(p) == [j \in 1 .. Result(p).dest_len |->
                   IF j <= Result(p).copied THEN [of |-> {p}, at |-> j] ELSE Unknown]

(* uncompressed_data has room for what IHDR promises (line 65), and        *)
(* mem_inf, which is not told so, copies what comes out (zutil.c:132).     *)
Fits(p) == Result(p).copied <= Size(p)

\* planted bug: mem_inf's errors leave the length at 0
BugInflate ==
    /\ pc = "inflate" /\ Fits(files[i])
    /\ LET data == IF files[i].flaw = "broken" THEN << >> ELSE Inflated(files[i])
       IN  /\ buffer' = [j \in DOMAIN buffer |->
                            IF j - prev_data_size \in DOMAIN data
                            THEN data[j - prev_data_size] ELSE buffer[j]]
           /\ prev_data_size' = prev_data_size + Len(data)
    /\ height' = height + files[i].height
    /\ IF i < Len(files) THEN i' = i + 1 /\ UNCHANGED pc
                         ELSE pc' = "IHDR" /\ UNCHANGED i
    /\ UNCHANGED <<files, uncompressed_length, all, pos, IDAT_length, made, answer>>

(* Second loop: the file's data go behind those of the files before it.    *)
Inflate ==
    /\ pc = "inflate" /\ Fits(files[i])
    /\ LET data == Inflated(files[i])
       IN  /\ buffer' = [j \in DOMAIN buffer |->
                            IF j - prev_data_size \in DOMAIN data
                            THEN data[j - prev_data_size] ELSE buffer[j]]
           /\ prev_data_size' = prev_data_size + Len(data)
    /\ height' = height + files[i].height
    /\ IF i < Len(files) THEN i' = i + 1 /\ UNCHANGED pc
                         ELSE pc' = "IHDR" /\ UNCHANGED i
    /\ UNCHANGED <<files, uncompressed_length, all, pos, IDAT_length, made, answer>>

(* Data longer than promised overrun the heap; what the program does then  *)
(* is not said, and nothing is claimed of it.                              *)
Overrun ==
    /\ pc = "inflate" /\ ~Fits(files[i]) /\ pc' = "astray"
    /\ UNCHANGED <<files, i, image, all, pos, IDAT_length, made, answer>>

IHDR == Field("length", 4, 13) \o Field("type", 4, "IHDR")
            \o Field("width", 4, files[1].width) \o Field("height", 4, height)
            \o Field("rest", 5, 0)

\* planted bug: the height is that of the first file
BugWriteIHDR ==
    /\ pc = "IHDR" /\ pc' = "IHDR crc"
    /\ fwrite(Field("signature", 8, 0) \o Field("length", 4, 13) \o Field("type", 4, "IHDR")
            \o Field("width", 4, files[1].width) \o Field("height", 4, files[1].height)
            \o Field("rest", 5, 0))
    /\ made' = Append(made, [files |-> files, start |-> Len(all), deflated |-> 0])
    /\ UNCHANGED <<files, i, image, IDAT_length, answer>>

WriteIHDR ==
    /\ pc = "IHDR" /\ pc' = "IHDR crc"
    /\ fwrite(Field("signature", 8, 0) \o IHDR)
    /\ made' = Append(made, [files |-> files, start |-> Len(all), deflated |-> 0])
    /\ UNCHANGED <<files, i, image, IDAT_length, answer>>

(* The header is read back from where it is in a new file.                 *)
WriteIHDRCrc ==
    /\ pc = "IHDR crc" /\ pc' = "IDAT"
    /\ fwrite(crc(fread(17, 12)))
    /\ UNCHANGED <<files, i, image, IDAT_length, made, answer>>

(* deflate makes n bytes.                                                  *)
WriteIDAT(n) ==
    /\ pc = "IDAT" /\ pc' = "IDAT crc"
    /\ IDAT_length' = mem_def(n)
    /\ fwrite(Field("length", 4, mem_def(n)) \o Field("type", 4, "IDAT")
                  \o SubSeq(Field("deflated", n, Len(made)), 1, mem_def(n)))
    /\ made' = [made EXCEPT ![Len(made)].deflated = n]
    /\ UNCHANGED <<files, i, image, answer>>

\* planted bug: the IDAT chunk is read back from where it is in a new file
BugWriteIDATCrc ==
    /\ pc = "IDAT crc" /\ pc' = "IEND"
    /\ fwrite(crc(fread(IDAT_length + 4, 37)))
    /\ UNCHANGED <<files, i, image, IDAT_length, made, answer>>

(* Type and data are read back from before the position.                   *)
WriteIDATCrc ==
    /\ pc = "IDAT crc" /\ pc' = "IEND"
    /\ fwrite(crc(fread(IDAT_length + 4, pos - (4 + IDAT_length))))
    /\ UNCHANGED <<files, i, image, IDAT_length, made, answer>>

(* IEND is copied, CRC and all, from the end of the first file.            *)
WriteIEND ==
    /\ pc = "IEND" /\ pc' = "idle"
    /\ fwrite(Field("length", 4, 0) \o Field("type", 4, "IEND")
                  \o crc(Field("type", 4, "IEND")))
    /\ UNCHANGED <<files, i, image, IDAT_length, made, answer>>

-----------------------------------------------------------------------------
(* pnginfo all.png *)

(* Opens all.png, checks the signature, prints width and height.           *)
pnginfo ==
    /\ pc = "idle" /\ all # << >>
    /\ IF fread(8, 0) = Field("signature", 8, 0)
       THEN /\ pc' = "info IHDR" /\ pos' = 8
            /\ answer' = [says |-> "dimensions",
                          of |-> <<fread(1, 16)[1][3], fread(1, 20)[1][3]>>]
       ELSE /\ answer' = [says |-> "Not a PNG file", of |-> << >>]
            /\ UNCHANGED <<pc, pos>>
    /\ UNCHANGED <<files, i, image, all, IDAT_length, made>>

CrcMatches(from) ==
    fread(4, from + 8 + Length(from)) = crc(fread(4 + Length(from), from + 4))

(* crc_check(fp, type), with the step that follows each of its results.    *)
crc_check(at, type, ok, nodata) ==
    /\ pc = at
    /\ IF Length(pos) = 0 /\ type # "IEND"
       THEN /\ pc' = nodata /\ UNCHANGED answer
            /\ pos' = IF nodata = "info IEND" THEN Len(all) - 12 ELSE pos + 4
       ELSE IF CrcMatches(pos)
       THEN pc' = ok /\ pos' = pos + 12 + Length(pos) /\ UNCHANGED answer
       ELSE /\ answer' = [answer EXCEPT !.says = "CRC error"]
            /\ pc' = "idle" /\ UNCHANGED pos
    /\ UNCHANGED <<files, i, image, all, IDAT_length, made>>

InfoIHDR == crc_check("info IHDR", "IHDR", "info IDAT", "info IDAT")
InfoIDAT == crc_check("info IDAT", "IDAT", "info IDAT", "info IEND")
InfoIEND == crc_check("info IEND", "IEND", "idle", "idle")

Next ==
    \/ \E n \in 1 .. MaxArgs : \E args \in [1 .. n -> Pictures] : catpng(args)
    \/ Measure \/ Inflate \/ Overrun
    \/ WriteIHDR \/ WriteIHDRCrc \/ WriteIDATCrc \/ WriteIEND
    \/ \E n \in Deflated : WriteIDAT(n)
    \/ pnginfo \/ InfoIHDR \/ InfoIDAT \/ InfoIEND

Spec == Init /\ [][Next]_vars

-----------------------------------------------------------------------------
(* Properties *)

Sum(f) == LET sum[k \in 0 .. Len(f)] == IF k = 0 THEN 0 ELSE sum[k - 1] + f[k]
          IN sum[Len(f)]
Before(k) == Sum([j \in 1 .. k - 1 |-> Size(files[j])])
Heights(args) == Sum([j \in DOMAIN args |-> args[j].height])

(* Every variable stays within the values the code can give it.            *)
TypeOK ==
    /\ pc \in {"idle", "measure", "inflate", "IHDR", "IHDR crc", "IDAT", "IDAT crc",
               "IEND", "info IHDR", "info IDAT", "info IEND", "astray"}
    /\ i \in 1 .. MaxArgs /\ Len(files) <= MaxArgs /\ Len(made) <= MaxRuns
    /\ height \in Nat /\ IDAT_length \in Deflated \cup {0}
    /\ prev_data_size \in 0 .. uncompressed_length
    /\ Len(buffer) \in {0, uncompressed_length} /\ pos \in 0 .. Len(all)
    /\ answer.says \in {"nothing", "dimensions", "Not a PNG file", "CRC error"}

(* Its data end before what IHDR promises, and mem_inf says so.            *)
CutsShort(p) == p.flaw # "broken" /\ p.at < Size(p)

(* The second loop trusts mem_inf's length for where the next file goes.   *)
(* Up to the first file whose data are short every file is put where the   *)
(* sizes in the headers say, though inflate may have failed on files       *)
(* before it, and what came out of it before an error in whole chunks is   *)
(* there.                                                                  *)
StripsInPlace ==
    pc = "IHDR" =>
        \A k \in DOMAIN files :
            (\A j \in 1 .. k - 1 : ~CutsShort(files[j])) =>
                \A b \in 1 .. Result(files[k]).copied :
                    buffer[Before(k) + b] = [of |-> {files[k]}, at |-> b]

Sound(from) == Length(from) >= 0 /\ CrcMatches(from)

(* Whatever all.png held before, the IDAT chunk of every image appended to *)
(* it has all that deflate made, and carries its own length and CRC: the   *)
(* code finds it back from the position and not from the start of the      *)
(* file.                                                                   *)
IDATSound ==
    \A m \in DOMAIN made :
        pc = "idle" =>
            /\ Sound(made[m].start + 33)
            /\ fread(4 + made[m].deflated, made[m].start + 37) =
                  Field("type", 4, "IDAT") \o Field("deflated", made[m].deflated, m)

(* pnginfo finds no error in all.png, however often catpng was run, and    *)
(* prints the size of the picture that the first run put together.         *)
PnginfoAccepts ==
    answer.says # "nothing" =>
        /\ answer.says = "dimensions"
        /\ answer.of = <<made[1].files[1].width, Heights(made[1].files)>>

(* Each image in all.png carries the CRC of its own IHDR (catpng.c:122,    *)
(* "Compute crc of IHDR").                                                 *)
IHDRSound == \A m \in DOMAIN made : pc = "idle" => Sound(made[m].start + 8)
=============================================================================
