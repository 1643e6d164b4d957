------------------------------- MODULE Files -------------------------------
(***************************************************************************)
(* Files (llc/gpk_file.cpp): saved, appended to, deleted, split into parts *)
(* and joined again.  The disk may fill up while a file is written and the *)
(* program may stop between two parts.                                     *)
(*                                                                         *)
(* Files are loaded whole (maxSize and offset have their default values in *)
(* every call); fileSplitLarge, for 3 GB and more, never gets past its     *)
(* first test; the parts of a file are numbered from 0.                    *)
(*                                                                         *)
(* And files with a checksum, that may be deflated and encrypted           *)
(* (llc/gpk_deflate.cpp: crcGenerate, fileFromMemorySecure and             *)
(* fileToMemorySecure), with a cache of the caller's or one of their own;  *)
(* the disk may fill up, or the program stop, while one is written.  Their *)
(* bytes are sequences of units of eight, the size of a checksum: data,    *)
(* zeros, a checksum, or the stream that deflate (external) or aesEncode   *)
(* (module Aes) makes of other bytes.  Noise adds up to the same only for  *)
(* the same bytes.                                                         *)
(***************************************************************************)
EXTENDS Integers, Sequences, SequencesExt

CONSTANTS
    FileContents,  \* what is saved
    FilePartSizes, \* sizePartMax
    FileParts,     \* bound: the parts a file may have
    FileMax        \* bound: the length of the file

\* No content has one of the marks below in it.
ASSUME FileAssumption ==
    /\ FileParts \in Nat /\ FileMax \in Nat
    /\ FilePartSizes \subseteq Nat \ {0}
    /\ \A content \in FileContents :
           /\ content \in Seq(UNION {ToSet(other) : other \in FileContents}) /\ Len(content) <= FileMax
           /\ ToSet(content) \cap {"no file", "error"} = {}

FileAbsent == <<"no file">>
FileError == <<"error">>
FileNumbers == 0..(FileParts - 1)

VARIABLES
    fileMain,     \* the file
    fileNumbered, \* its parts on disk
    fileJob,      \* the split or join that runs
    fileSplitOf,  \* the last split, if it ended well and nothing touched the parts since
    fileJoined    \* the last call was a join that ended well

filesVars == <<fileMain, fileNumbered, fileJob, fileSplitOf, fileJoined>>

FileIdle == [op |-> "idle"]
FileNoSplit == [of |-> <<>>, size |-> 1, count |-> 0, older |-> <<>>]

FilesInit ==
    /\ fileMain = FileAbsent
    /\ fileNumbered = [k \in FileNumbers |-> FileAbsent]
    /\ fileJob = FileIdle
    /\ fileSplitOf = FileNoSplit /\ fileJoined = FALSE

\* fileToMemory: an empty file is an error, like one that does not exist.
FileToMemory(content) == IF content \in {FileAbsent, <<>>} THEN FileError ELSE content

\* fileFromMemory: "wb" empties the file first, "ab+" does not; fwrite writes what the disk has room for.
FileFromMemory(bytes, append) ==
    /\ fileJob = FileIdle
    /\ LET kept == IF append /\ fileMain # FileAbsent THEN fileMain ELSE <<>>
       IN  /\ Len(kept) + Len(bytes) <= FileMax
           /\ \E n \in 0..Len(bytes) : fileMain' = kept \o SubSeq(bytes, 1, n)
    /\ fileJoined' = FALSE
    /\ UNCHANGED <<fileNumbered, fileJob, fileSplitOf>>

FileDelete ==
    /\ fileJob = FileIdle
    /\ \/ fileMain # FileAbsent /\ fileMain' = FileAbsent /\ UNCHANGED <<fileNumbered, fileSplitOf>>
       \/ \E k \in FileNumbers :
             /\ fileNumbered[k] # FileAbsent
             /\ fileNumbered' = [fileNumbered EXCEPT ![k] = FileAbsent]
             /\ fileSplitOf' = FileNoSplit /\ UNCHANGED fileMain
    /\ fileJoined' = FALSE
    /\ UNCHANGED fileJob

\* What the parts from the k-th on hold, up to one that is missing or empty.
FilePartsFrom(k) ==
    LET held == {i \in FileNumbers : i >= k /\ \A j \in k..i : FileToMemory(fileNumbered[j]) # FileError}
    IN  FlattenSeq([i \in 1..Cardinality(held) |-> fileNumbered[k + i - 1]])

FileCount(memory, size) == (Len(memory) \div size) + (IF Len(memory) % size > 0 THEN 1 ELSE 0)
FilePartStart(size, k) == size * k
BugFilePartEnd(memory, size, k) ==
    IF k + 1 = FileCount(memory, size) THEN (size * k) + (Len(memory) % size) ELSE size * (k + 1)
FilePartEnd(memory, size, k) == IF k + 1 = FileCount(memory, size) THEN Len(memory) ELSE size * (k + 1)

\* fileSplit: the file is read at once, then written part by part. Older parts beyond stay.
FileSplit(size) ==
    /\ fileJob = FileIdle
    /\ FileToMemory(fileMain) # FileError
    /\ FileCount(fileMain, size) <= FileParts
    /\ fileJob' = [op |-> "split", memory |-> fileMain, size |-> size, part |-> 0]
    /\ fileSplitOf' = FileNoSplit /\ fileJoined' = FALSE
    /\ UNCHANGED <<fileMain, fileNumbered>>
FileSplitPart ==
    /\ fileJob.op = "split"
    /\ LET memory == fileJob.memory
           size == fileJob.size
           k == fileJob.part
           count == FileCount(memory, size)
           part == SubSeq(memory, FilePartStart(size, k) + 1, FilePartEnd(memory, size, k))
       IN  \/ /\ fileNumbered' = [fileNumbered EXCEPT ![k] = part]
              /\ \/ /\ k + 1 < count
                    /\ fileJob' = [fileJob EXCEPT !.part = k + 1] /\ UNCHANGED fileSplitOf
                 \/ /\ k + 1 = count
                    /\ fileJob' = FileIdle
                    /\ fileSplitOf' = [of |-> memory, size |-> size, count |-> count, older |-> FilePartsFrom(count)]
           \/ \E n \in 0..(Len(part) - 1) : \* the disk is full
                 /\ fileNumbered' = [fileNumbered EXCEPT ![k] = SubSeq(part, 1, n)]
                 /\ fileJob' = FileIdle /\ UNCHANGED fileSplitOf
    /\ UNCHANGED <<fileMain, fileJoined>>

\* fileJoin: the file is emptied, then gets the parts from .01 on, until one cannot be loaded.
FileJoin ==
    /\ fileJob = FileIdle
    /\ fileMain' = <<>>
    /\ fileJob' = [op |-> "join", part |-> 1]
    /\ fileJoined' = FALSE
    /\ UNCHANGED <<fileNumbered, fileSplitOf>>
BugFileJoinPart ==
    /\ fileJob.op = "join"
    /\ LET k == fileJob.part
           loaded == IF k \in FileNumbers THEN fileNumbered[k] ELSE FileAbsent
       IN  IF loaded = FileAbsent
           THEN fileJob' = FileIdle /\ fileJoined' = TRUE /\ UNCHANGED fileMain
           ELSE fileMain' = fileMain \o loaded /\ fileJob' = [fileJob EXCEPT !.part = k + 2] /\ UNCHANGED fileJoined
    /\ UNCHANGED <<fileNumbered, fileSplitOf>>
FileJoinPart ==
    /\ fileJob.op = "join"
    /\ LET k == fileJob.part
           loaded == IF k \in FileNumbers THEN FileToMemory(fileNumbered[k]) ELSE FileError
       IN  \/ /\ loaded = FileError
              /\ fileJob' = FileIdle /\ fileJoined' = TRUE /\ UNCHANGED fileMain
           \/ /\ loaded # FileError
              /\ \/ fileMain' = fileMain \o loaded /\ fileJob' = [fileJob EXCEPT !.part = k + 1]
                 \/ \E n \in 0..(Len(loaded) - 1) : \* the disk is full
                       fileMain' = fileMain \o SubSeq(loaded, 1, n) /\ fileJob' = FileIdle
              /\ UNCHANGED fileJoined
    /\ UNCHANGED <<fileNumbered, fileSplitOf>>

\* The program stops between two parts.
FileStops ==
    /\ fileJob # FileIdle /\ fileJob' = FileIdle
    /\ UNCHANGED <<fileMain, fileNumbered, fileSplitOf, fileJoined>>

FilesNext ==
    \/ \E bytes \in FileContents, append \in BOOLEAN : FileFromMemory(bytes, append)
    \/ \E size \in FilePartSizes : FileSplit(size)
    \/ FileDelete \/ FileSplitPart \/ FileJoin \/ FileJoinPart \/ FileStops

FilesSpec == FilesInit /\ [][FilesNext]_filesVars

----------------------------------------------------------------------------

FilesTypeOK ==
    /\ fileMain = FileAbsent \/ Len(fileMain) <= FileParts * FileMax
    /\ DOMAIN fileNumbered = FileNumbers
    /\ fileJob.op \in {"idle", "split", "join"}
    /\ fileSplitOf.count <= FileParts
    /\ fileJoined \in BOOLEAN

\* A split that ended well leaves the whole of the file in its parts, whatever became of the file;
\* one that did not is not taken for one that did.
FilesSplitIsWhole ==
    fileSplitOf # FileNoSplit =>
       LET parts == [k \in 1..fileSplitOf.count |-> fileNumbered[k - 1]]
       IN  /\ FlattenSeq(parts) = fileSplitOf.of
           /\ \A k \in DOMAIN parts : parts[k] # <<>> /\ Len(parts[k]) <= fileSplitOf.size

\* What is joined after a split is the file from its second part on, followed by the parts that an
\* earlier and longer split left behind.
FilesJoinTheRest ==
    fileJoined /\ fileSplitOf # FileNoSplit =>
       LET first == IF fileSplitOf.size < Len(fileSplitOf.of) THEN fileSplitOf.size ELSE Len(fileSplitOf.of)
       IN  fileMain = SubSeq(fileSplitOf.of, first + 1, Len(fileSplitOf.of)) \o fileSplitOf.older

----------------------------------------------------------------------------
\* Files with a checksum.

CONSTANTS
    SecureContents, \* what is saved
    SecureSaves     \* bound: the times the file is saved

SecureZero == <<"zero">>
SecureError == <<<<"error">>>>
SecureNoCache == [deflated |-> <<>>, encrypted |-> <<>>]

\* The noise of bytes adds up in whatever order.
SecureSum(bytes) == <<"crc", ToBag(bytes)>>

\* No content has eight bytes in it that happen to be the sum of all those before them: what ends
\* there could not be told from a whole file.
ASSUME SecureAssumption ==
    /\ SecureSaves \in Nat /\ <<>> \in SecureContents /\ SecureError \notin SecureContents
    /\ \A c \in SecureContents :
           /\ c \in Seq(UNION {ToSet(d) : d \in SecureContents})
           /\ \A n \in 2..Len(c) : c[n] # SecureSum(SubSeq(c, 1, n - 1))

VARIABLES
    secureFile,  \* the bytes on disk
    secureCache, \* SLoadCache of the caller
    secureSaved, \* what was last to be saved: [data, deflate, key, clean, whole]
    secureCount  \* how often

secureVars == <<secureFile, secureCache, secureSaved, secureCount>>

SecureInit ==
    /\ secureFile = <<>> /\ secureCache = SecureNoCache /\ secureCount = 0
    /\ secureSaved = [data |-> <<>>, deflate |-> FALSE, key |-> FALSE, clean |-> TRUE, whole |-> FALSE]

----------------------------------------------------------------------------

\* crcGenerate of no bytes is zero.
Crc(bytes) == IF bytes = <<>> THEN SecureZero ELSE SecureSum(bytes)
BugCrcVerifyAndRemove(bytes) == IF bytes = <<>> THEN SecureError ELSE Front(bytes)
CrcVerifyAndRemove(bytes) ==
    IF bytes = <<>> \/ Last(bytes) # Crc(Front(bytes)) THEN SecureError ELSE Front(bytes)

\* arrayDeflate appends to its output; arrayInflate reads the first stream and fails where there is none.
ArrayDeflate(bytes, output) == Append(output, <<"deflated", bytes>>)
ArrayInflate(bytes) == IF bytes = <<>> THEN SecureError ELSE IF Head(bytes)[1] # "deflated" THEN SecureError ELSE Head(bytes)[2]

\* aesEncode replaces its output and refuses to encrypt nothing.
SecureEncode(bytes) == IF bytes = <<>> THEN SecureError ELSE <<<<"aes", bytes>>>>
SecureDecode(bytes) == IF bytes = <<>> THEN SecureError ELSE Head(bytes)[2]

\* fileFromMemorySecure: the cache it leaves; its Encrypted is what is written, unless it is an error.
BugSecured(cache, data, deflate, key) ==
    LET compressed == IF deflate THEN ArrayDeflate(data, cache.deflated) ELSE data
        encrypted == IF key THEN SecureEncode(compressed) ELSE compressed
    IN  [deflated |-> IF deflate THEN compressed ELSE cache.deflated,
         encrypted |-> IF encrypted = SecureError THEN encrypted ELSE Append(encrypted, Crc(data))]
Secured(cache, data, deflate, key) ==
    LET deflated == IF deflate /\ key THEN ArrayDeflate(data, cache.deflated) ELSE cache.deflated
        encrypted == IF deflate /\ key THEN SecureEncode(deflated)
                     ELSE IF key THEN SecureEncode(data)
                     ELSE IF deflate THEN ArrayDeflate(data, cache.encrypted)
                     ELSE data
    IN  [deflated |-> deflated,
         encrypted |-> IF encrypted = SecureError THEN encrypted ELSE Append(encrypted, Crc(encrypted))]

\* fileToMemorySecure: what it loads and the cache it leaves.
Loaded(cache, deflate, key) ==
    LET verified == IF secureFile = <<>> THEN SecureError ELSE CrcVerifyAndRemove(secureFile)
        decoded == IF verified = SecureError THEN verified ELSE IF key THEN SecureDecode(verified) ELSE verified
        used == deflate \/ key
    IN  [data |-> IF deflate /\ decoded # SecureError THEN ArrayInflate(decoded) ELSE decoded,
         cache |-> [deflated |-> IF deflate /\ key /\ decoded # SecureError THEN decoded ELSE cache.deflated,
                    encrypted |-> IF ~used \/ secureFile = <<>> THEN cache.encrypted
                                  ELSE IF verified = SecureError THEN secureFile ELSE verified]]

----------------------------------------------------------------------------

\* With the cache of the caller, or one of its own. An error comes before the file is touched;
\* from then on the old content is gone, and the new one is written as far as it goes.
FileFromMemorySecure(data, deflate, key, shared) ==
    LET cache == IF shared THEN secureCache ELSE SecureNoCache
        secured == Secured(cache, data, deflate, key)
        failed == secured.encrypted = SecureError
    IN  /\ secureCount < SecureSaves /\ secureCount' = secureCount + 1
        /\ secureCache' = IF ~shared THEN secureCache
                          ELSE IF failed THEN [secured EXCEPT !.encrypted = secureCache.encrypted] ELSE secured
        /\ IF failed THEN UNCHANGED <<secureFile, secureSaved>>
           ELSE \E n \in 0..Len(secured.encrypted) :
                   /\ secureFile' = SubSeq(secured.encrypted, 1, n)
                   /\ secureSaved' = [data |-> data, deflate |-> deflate, key |-> key, whole |-> n = Len(secured.encrypted),
                                      clean |-> ~deflate \/ (IF key THEN cache.deflated ELSE cache.encrypted) = <<>>]

\* The file is loaded as it was saved, into the cache of the caller.
FileToMemorySecure ==
    /\ secureCache' = Loaded(secureCache, secureSaved.deflate, secureSaved.key).cache
    /\ UNCHANGED <<secureFile, secureSaved, secureCount>>

SecureNext ==
    \/ \E data \in SecureContents, deflate, key, shared \in BOOLEAN : FileFromMemorySecure(data, deflate, key, shared)
    \/ FileToMemorySecure

SecureSpec == SecureInit /\ [][SecureNext]_secureVars

----------------------------------------------------------------------------

SecureTypeOK ==
    /\ DOMAIN secureCache = {"deflated", "encrypted"} /\ secureCount \in 0..SecureSaves
    /\ secureSaved.data \in SecureContents
    /\ secureSaved.deflate \in BOOLEAN /\ secureSaved.key \in BOOLEAN

\* What is loaded is what was saved, whatever the cache holds, unless it was deflated into a buffer
\* that held something. A file cut short is refused, unless all that is left of it are eight bytes of
\* zero: their checksum is that of nothing.
SecureLoadsWhatWasSaved ==
    LET data == Loaded(secureCache, secureSaved.deflate, secureSaved.key).data
        plain == ~secureSaved.deflate /\ ~secureSaved.key
    IN  secureSaved.clean =>
           data = IF secureSaved.whole THEN secureSaved.data
                  ELSE IF plain /\ secureFile = <<SecureZero>> THEN <<>>
                  ELSE SecureError
=============================================================================
