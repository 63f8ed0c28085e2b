------------------------------ MODULE TarReader ------------------------------
(***************************************************************************)
(* The reader of one tar archive (dataset/tar/tar_reader/).  An archive is *)
(* a sequence of blocks: headers, and the data that follows them.          *)
(***************************************************************************)
EXTENDS Integers, Sequences

\* What parse_octal and parse_str return of a field that is not a number, or
\* not UTF-8.
CONSTANTS NotOctal, NotUtf8

\* The data of a file with no bytes: no decoder takes it.
NoImage == [id |-> 0, h |-> 0, w |-> 0, damage |-> "header"]

\* The typeflags: '0' and 0 are both files, 'L' is a GNU long name.
FileTypes == {"0", "nul"}

EntryTypes == FileTypes \union {"L", "other"}

\* A header: the name and prefix fields, the typeflag and the size of the
\* data, in blocks, which old archives fill up with spaces on the left.
FieldsBlock(name, prefix, type, size, spaced) ==
  [is |-> "header", name |-> name, prefix |-> prefix, type |-> type, size |-> size, spaced |-> spaced, img |-> NoImage]

HeaderBlock(name, type, size) == FieldsBlock(name, "", type, size, FALSE)

\* Data: the long name that an 'L' entry holds, or an image, in its first block.
DataBlock(text, img) ==
  [is |-> "data", name |-> text, prefix |-> "", type |-> "other", size |-> NotOctal, spaced |-> FALSE, img |-> img]

\* A block of zeros.
EndBlock == HeaderBlock("", "nul", 0)

IsEnd(block) == block.is = "header" /\ block.name = "" /\ block.type = "nul"

IsRegularFile(block) == block.type \in FileTypes

\* parse_octal ends at the first space, and takes an empty number for 0.
FileSize(block) == IF block.spaced THEN 0 ELSE block.size

\* A name as the processor is given it: the directory and the rest.
NoName == << "", "" >>

\* file_name_into: a prefix that is not UTF-8 is left out.
FileName(block) ==
  IF block.name = NotUtf8 THEN NotUtf8 ELSE << IF block.prefix = NotUtf8 THEN "" ELSE block.prefix, block.name >>

AtStart == [offset |-> 0, eof |-> FALSE]

Outcome(res, name, img, offset, eof) ==
  [res |-> res, name |-> name, img |-> img, reader |-> [offset |-> offset, eof |-> eof]]

Err(res, offset, eof) == Outcome(res, NoName, NoImage, offset, eof)

(***************************************************************************)
(* next_record.  An entry that is not a file is skipped; the name that an  *)
(* 'L' entry leaves behind is kept until a file is found.                  *)
(***************************************************************************)
LongName(block, text, before) ==
  IF block.type # "L" \/ text = NotUtf8 THEN before ELSE << "", text >>

DataOf(archive, o) == IF FileSize(archive[o + 1]) = 0 THEN NoImage ELSE archive[o + 2].img

LongNames(archive) == { << "", b.name >> : b \in { archive[k] : k \in DOMAIN archive } } \union {NoName}

\* What there is to find at a header, where `later` is what there is to find at
\* those after it.
FoundAt(archive, o, longName, later) ==
  LET block == archive[o + 1]
      next  == o + 1 + FileSize(block)
  IN  IF o + 1 > Len(archive) THEN Err("Overflow", o, FALSE)
      ELSE IF IsEnd(block) THEN Err("Eof", o, TRUE)
      ELSE IF FileSize(block) = NotOctal THEN Err("HeaderError", o, FALSE)
      ELSE IF next > Len(archive) THEN Err("Overflow", o + 1, FALSE)
      ELSE IF ~IsRegularFile(block)
        THEN later[next][LongName(block, IF FileSize(block) = 0 THEN "" ELSE archive[o + 2].name, longName)]
      ELSE IF longName # NoName THEN Outcome("record", longName, DataOf(archive, o), next, FALSE)
      ELSE IF FileName(block) = NotUtf8 THEN Err("HeaderError", next, FALSE)
      ELSE Outcome("record", FileName(block), DataOf(archive, o), next, FALSE)

NextRecord(archive, reader) ==
  LET from[o \in 0 .. Len(archive)] == [longName \in LongNames(archive) |-> FoundAt(archive, o, longName, from)]
  IN  IF reader.eof THEN Err("Eof", reader.offset, TRUE) ELSE from[reader.offset][NoName]
=============================================================================
