--------------------------- MODULE CfdpFilestore ----------------------------
(***************************************************************************)
(* The file store of the CFDP entities (NativeFilestore of                 *)
(* satrs/src/cfdp/filestore.rs) as a function from paths to what is there: *)
(* nothing, a directory, or a file, which is the sequence of its words.    *)
(* An operation that the operating system refuses is a choice of the       *)
(* modules that use this one.                                              *)
(***************************************************************************)
EXTENDS Integers, Sequences, Functions

CONSTANTS
    Paths,          \* the paths of the store
    NoFile, Dir,    \* what a path without a file, and a directory, map to
    WordModulus     \* the words are this many: 2^32 in the code

ASSUME FilestoreAssumption ==
    /\ WordModulus \in Nat \ {0}
    /\ NoFile # Dir
    /\ NoFile \notin Seq(Nat) /\ Dir \notin Seq(Nat)

Word == 0..(WordModulus - 1)

Hole == 0

Content == Seq(Word)

Filestore == [Paths -> Content \cup {NoFile, Dir}]

Exists(fs, path) == path \in Paths /\ fs[path] # NoFile

IsFile(fs, path) == Exists(fs, path) /\ fs[path] # Dir

IsDir(fs, path) == ~ IsFile(fs, path)

\* Only a path of the store can be created: the empty path cannot.
CanCreate(fs, path) == path \in Paths /\ ~ Exists(fs, path)

CreateFile(fs, path) == [fs EXCEPT ![path] = << >>]

CanTruncate(fs, path) == IsFile(fs, path)

TruncateFile(fs, path) == [fs EXCEPT ![path] = << >>]

CanRemove(fs, path) == IsFile(fs, path)

RemoveFile(fs, path) == [fs EXCEPT ![path] = NoFile]

\* A write past the end of the file leaves a hole, which reads as zeros.
WriteAt(content, offset, buf) ==
    LET end == offset + Len(buf)
    IN  [i \in 1..(IF end > Len(content) THEN end ELSE Len(content)) |->
            IF i > offset /\ i <= end THEN buf[i - offset]
            ELSE IF i <= Len(content) THEN content[i] ELSE Hole]

CanWrite(fs, path) == IsFile(fs, path)

WriteData(fs, path, offset, buf) ==
    [fs EXCEPT ![path] = WriteAt(@, offset, buf)]
-----------------------------------------------------------------------------
ChecksumTypes == {"Null", "Modular", "Crc32", "Other"}

\* The wrapping sum of the words of a file.
ModularChecksum(content) == SumFunction(content) % WordModulus

\* No two files of the model have the same CRC-32, and the checksums of two
\* types are never equal.
Checksum(type, content) ==
    [type |-> type,
     value |-> CASE type = "Modular" -> <<ModularChecksum(content)>>
                 [] type = "Crc32" -> content
                 [] OTHER -> << >>]

Implemented(type) == type # "Other"

CanVerify(fs, path) == IsFile(fs, path)

\* checksum_verify of the file store.  The null checksum matches any file.
ChecksumMatches(fs, path, type, checksum) ==
    type = "Null" \/ Checksum(type, fs[path]) = checksum
=============================================================================
