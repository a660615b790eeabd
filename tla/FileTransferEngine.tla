------------------------- MODULE FileTransferEngine --------------------------
(***************************************************************************)
(* The pure part of libs/file_transfer: cutting a file into chunks,        *)
(* putting chunks into a file, the integrity check and directory listings. *)
(*                                                                         *)
(* What is at a path is its kind and its bytes.  A SHA-256 digest is the   *)
(* bytes it was computed from, marked, so that it has no collisions; the   *)
(* empty string, which stands for a file that cannot be read, has no mark. *)
(***************************************************************************)
EXTENDS Integers, SequencesExt

Nothing == [kind |-> "none", bytes |-> << >>]
File(bytes) == [kind |-> "file", bytes |-> bytes]

CalculateSha256(bytes) == <<"sha256">> \o bytes

CalculateFileSha256(file) ==
    IF file.kind = "none" THEN << >> ELSE CalculateSha256(file.bytes)

VerifyIntegrity(file, expected) == CalculateFileSha256(file) = expected

\* Mutant: the last chunk is not cut to what is left of the file, and the read
\* that fails leaves the rest of the buffer zero.
PrepareFileChunksWholeOnly(file, chunkSize) ==
    LET total == Len(file.bytes)
        next(s) ==
            LET data == [i \in 1 .. chunkSize |-> IF s.offset + i <= total
                            THEN file.bytes[s.offset + i] ELSE 0]
            IN  [offset |-> s.offset + chunkSize,
                 chunks |-> Append(s.chunks,
                                [chunkIndex  |-> Len(s.chunks),
                                 offset      |-> s.offset,
                                 totalSize   |-> total,
                                 data        |-> data,
                                 sha256Hash  |-> CalculateSha256(data),
                                 isLastChunk |-> s.offset + chunkSize >= total])]
        loop[i \in 0 .. total] ==
            IF i = 0 THEN [offset |-> 0, chunks |-> << >>]
            ELSE IF loop[i - 1].offset < total THEN next(loop[i - 1]) ELSE loop[i - 1]
    IN  loop[total].chunks

\* One round of the loop of prepareFileChunks().
NextChunk(s, bytes, chunkSize) ==
    LET total == Len(bytes)
        currentChunkSize == Min({chunkSize, total - s.offset})
        data == SubSeq(bytes, s.offset + 1, s.offset + currentChunkSize)
    IN  [offset |-> s.offset + currentChunkSize,
         chunks |-> Append(s.chunks,
                        [chunkIndex  |-> Len(s.chunks),
                         offset      |-> s.offset,
                         totalSize   |-> total,
                         data        |-> data,
                         sha256Hash  |-> CalculateSha256(data),
                         isLastChunk |-> s.offset + currentChunkSize >= total])]

\* prepareFileChunks(): none for a file that is empty or cannot be opened.  Every
\* round takes a byte at least, so that there are no more rounds than bytes.
PrepareFileChunks(file, chunkSize) ==
    LET total == Len(file.bytes)
        loop[i \in 0 .. total] ==
            IF i = 0 THEN [offset |-> 0, chunks |-> << >>]
            ELSE IF loop[i - 1].offset < total THEN NextChunk(loop[i - 1], file.bytes, chunkSize)
            ELSE loop[i - 1]
    IN  loop[total].chunks

\* writeChunkToFile(), as what it makes of the file: the first chunk starts the
\* file anew, a later one needs a file and leaves a gap of zeros if that is short.
WriteChunkToFile(file, offset, data) ==
    LET old == file.bytes
        end == offset + Len(data)
    IN  IF offset = 0 THEN File(data)
        ELSE IF file.kind # "file" THEN file
        ELSE File([i \in 1 .. Max({Len(old), end}) |->
                      IF i \in offset + 1 .. end THEN data[i - offset]
                      ELSE IF i <= Len(old) THEN old[i] ELSE 0])

\* listDirectory() of a directory that holds what disk says, directories first,
\* then by name.
ListDirectory(disk) ==
    LET items == {[name |-> p, size |-> Len(disk[p].bytes), isDir |-> disk[p].kind = "dir"] :
                     p \in {q \in DOMAIN disk : disk[q].kind # "none"}}
        before(a, b) == IF a.isDir # b.isDir THEN a.isDir ELSE a.name < b.name
    IN  SetToSortSeq(items, before)

=============================================================================
