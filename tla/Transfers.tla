------------------------------ MODULE Transfers ------------------------------
(***************************************************************************)
(* File transfer in the client: the calls of SessionClient behind          *)
(* FileTransferView, on top of FileTransferEngine.                         *)
(*                                                                         *)
(* The calls run on the Qt thread and a whole transfer is one call, so     *)
(* each call is one step.  No handler of the signals a transfer emits      *)
(* calls back.  What lives on from one call to the next is the pause flag, *)
(* the counters, the queue and the listings.  Both panes list, read and    *)
(* delete on the machine of the client; "remote" is a name.                *)
(*                                                                         *)
(* Left out: transfer speed and modification times.  The fields of a       *)
(* queued item other than its direction are never read again.              *)
(***************************************************************************)
EXTENDS FileTransferEngine

CONSTANTS
    Paths,          \* names in the directory both panes look at
    Sizes,          \* sizes of the files in it
    ChunkSize,      \* 256 KB in the code
    MaxQueue        \* bound on the length of the queue

ASSUME TransferAssumption ==
    /\ Paths \subseteq Nat
    /\ Sizes \subseteq Nat
    /\ ChunkSize \in Nat \ {0}
    /\ MaxQueue \in Nat \ {0}

VARIABLES
    disk,       \* what is at each path
    xfer        \* the members of SessionClient

Here == "."         \* the directory that holds Paths
Elsewhere == "?"    \* one that does not exist

\* A file's bytes tell which file they are of and where they belong.
BytesOf(path, size) == [i \in 1 .. size |-> <<path, i>>]

\* transferProgress_ is a quotient of two counters.
NoProgress == <<0, 1>>

Init ==
    /\ disk \in [Paths -> {Nothing, [kind |-> "dir", bytes |-> << >>]}
                              \cup {File(BytesOf(p, n)) : p \in Paths, n \in Sizes}]
    /\ \A p \in Paths : disk[p].bytes \in {BytesOf(p, n) : n \in Sizes \cup {0}}
    /\ xfer = [status |-> "Idle", progress |-> NoProgress, paused |-> FALSE,
               total |-> 0, current |-> 0, queue |-> << >>,
               remotePath |-> Here, remoteList |-> << >>,
               localPath  |-> Here, localList  |-> << >>]

-----------------------------------------------------------------------------
(***************************************************************************)
(* The calls, as functions of the members and of the disk.                 *)
(***************************************************************************)

ListingOf(d, path) == IF path = Here THEN ListDirectory(d) ELSE << >>

RequestDirectoryListing(x, d, path) ==
    [x EXCEPT !.remotePath = path, !.remoteList = ListingOf(d, path)]

RequestLocalDirectoryListing(x, d, path) ==
    [x EXCEPT !.localPath = path, !.localList = ListingOf(d, path)]

\* The loop of both transfer calls.  A set pause flag ends it.
TransferChunk(x, chunk) ==
    IF x.paused THEN x
    ELSE [x EXCEPT !.current = @ + Len(chunk.data),
                   !.progress = <<x.current + Len(chunk.data), x.total>>]

TransferLoop(x, chunks) ==
    LET loop[i \in 0 .. Len(chunks)] ==
            IF i = 0 THEN x ELSE TransferChunk(loop[i - 1], chunks[i])
    IN  loop[Len(chunks)]

\* Mutant: the pause flag of an earlier transfer stays set.
StartFileUploadStillPaused(x, d, path) ==
    LET started == [x EXCEPT !.status = "Uploading", !.progress = NoProgress]
        chunks == PrepareFileChunks(d[path], ChunkSize)
    IN  IF chunks = << >> THEN [started EXCEPT !.status = "Error"]
        ELSE RequestDirectoryListing(
                 [TransferLoop([started EXCEPT !.total = chunks[1].totalSize, !.current = 0],
                               chunks)
                    EXCEPT !.status = "Upload Completed"], d, x.remotePath)

StartFileUpload(x, d, path) ==
    LET started == [x EXCEPT !.status = "Uploading", !.progress = NoProgress, !.paused = FALSE]
        chunks == PrepareFileChunks(d[path], ChunkSize)
    IN  IF chunks = << >> THEN [started EXCEPT !.status = "Error"]
        ELSE RequestDirectoryListing(
                 [TransferLoop([started EXCEPT !.total = chunks[1].totalSize, !.current = 0],
                               chunks)
                    EXCEPT !.status = "Upload Completed"], d, x.remotePath)

\* A file that is empty or cannot be read counts as 1024 bytes, of which none come.
StartFileDownload(x, d, path) ==
    LET chunks == PrepareFileChunks(d[path], ChunkSize)
        total  == IF chunks = << >> THEN 1024 ELSE chunks[1].totalSize
    IN  [TransferLoop([x EXCEPT !.progress = NoProgress, !.total = total, !.current = 0],
                      chunks)
           EXCEPT !.status = "Download Completed"]

-----------------------------------------------------------------------------
(***************************************************************************)
(* Calls from the view.                                                    *)
(***************************************************************************)

\* The view offers transfers of files only.
Transferable == {p \in Paths : disk[p].kind # "dir"}

Upload(path) == xfer' = StartFileUpload(xfer, disk, path) /\ UNCHANGED disk
Download(path) == xfer' = StartFileDownload(xfer, disk, path) /\ UNCHANGED disk

PauseFileTransfer ==
    /\ xfer' = [xfer EXCEPT !.paused = TRUE, !.status = "Transfer Paused"]
    /\ UNCHANGED disk

ResumeFileTransfer ==
    /\ xfer' = [xfer EXCEPT !.paused = FALSE, !.status = "Resuming Transfer"]
    /\ UNCHANGED disk

\* Mutant: the progress bar is left where it was.
CancelFileTransferKeepsProgress ==
    /\ xfer' = [xfer EXCEPT !.paused = TRUE, !.current = 0, !.status = "Transfer Canceled"]
    /\ UNCHANGED disk

CancelFileTransfer ==
    /\ xfer' = [xfer EXCEPT !.paused = TRUE, !.progress = NoProgress, !.current = 0,
                            !.status = "Transfer Canceled"]
    /\ UNCHANGED disk

ListRemote(path) == xfer' = RequestDirectoryListing(xfer, disk, path) /\ UNCHANGED disk
ListLocal(path) == xfer' = RequestLocalDirectoryListing(xfer, disk, path) /\ UNCHANGED disk

\* std::filesystem::remove_all(), whose error nobody looks at, then a fresh listing of
\* the same pane.
RemoveAll(path) == disk' \in {disk, [disk EXCEPT ![path] = Nothing]}

DeleteLocalFile(path) ==
    /\ RemoveAll(path)
    /\ xfer' = RequestLocalDirectoryListing([xfer EXCEPT !.status = "Deleted local item"],
                                            disk', xfer.localPath)

DeleteRemoteFile(path) ==
    /\ RemoveAll(path)
    /\ xfer' = RequestDirectoryListing([xfer EXCEPT !.status = "Deleted remote item"],
                                       disk', xfer.remotePath)

\* Only an item that finds the queue empty is started; no item is ever taken off
\* by a transfer.
EnQueueTransfer(path, isUpload) ==
    LET queued == [xfer EXCEPT !.queue = Append(@, isUpload)]
    IN  /\ Len(xfer.queue) < MaxQueue
        /\ xfer' = IF Len(queued.queue) # 1 THEN queued
                   ELSE IF isUpload THEN StartFileUpload(queued, disk, path)
                   ELSE StartFileDownload(queued, disk, path)
        /\ UNCHANGED disk

CancelQueueItem(index) ==
    /\ index \in 1 .. Len(xfer.queue)
    /\ xfer' = [xfer EXCEPT !.queue = RemoveAt(@, index)]
    /\ UNCHANGED disk

ClearQueue ==
    /\ xfer' = [xfer EXCEPT !.queue = << >>]
    /\ UNCHANGED disk

Next ==
    \/ \E path \in Transferable :
           \/ Upload(path)
           \/ Download(path)
           \/ \E isUpload \in BOOLEAN : EnQueueTransfer(path, isUpload)
    \/ PauseFileTransfer
    \/ ResumeFileTransfer
    \/ CancelFileTransfer
    \/ \E path \in {Here, Elsewhere} : ListRemote(path) \/ ListLocal(path)
    \/ \E path \in Paths : DeleteLocalFile(path) \/ DeleteRemoteFile(path)
    \/ \E index \in 1 .. MaxQueue : CancelQueueItem(index)
    \/ ClearQueue

transferVars == <<disk, xfer>>

Spec == Init /\ [][Next]_transferVars

-----------------------------------------------------------------------------
(***************************************************************************)
(* Properties.                                                             *)
(***************************************************************************)

\* What a transfer that says it is completed has counted.  An upload has counted every
\* byte of its file, whatever pauses and cancellations came before it.  A download has
\* counted none when it found the pause flag that an earlier transfer was left with,
\* and all of them otherwise; a file that it could not read is given as 1024 bytes, none
\* counted.  These are counters only: neither call sends, writes or verifies a byte,
\* whatever "Completed (SHA-256 Verified)" says.
CompletionCounts ==
    /\ xfer.status = "Upload Completed" => xfer.current = xfer.total
    /\ xfer.status = "Download Completed" =>
           \/ xfer.paused /\ xfer.current = 0
           \/ ~ xfer.paused /\ xfer.current = xfer.total
           \/ xfer.total = 1024 /\ xfer.current = 0

\* The progress bar and the byte counters tell the same story, unless an upload
\* failed to start and left the counters of the transfer before.
ProgressMatchesBytes ==
    xfer.total # 0 /\ xfer.progress # NoProgress =>
        xfer.progress[1] * xfer.total = xfer.current * xfer.progress[2]

\* What a receiver makes of a file that is given these chunks in their order, each
\* of them this many times.
WriteChunk(file, chunk, times) ==
    LET written == WriteChunkToFile(file, chunk.offset, chunk.data)
    IN  IF times = 1 THEN written ELSE WriteChunkToFile(written, chunk.offset, chunk.data)

WriteChunks(file, chunks, times) ==
    LET loop[i \in 0 .. Len(chunks)] ==
            IF i = 0 THEN file ELSE WriteChunk(loop[i - 1], chunks[i], times)
    IN  loop[Len(chunks)]

\* The chunks of any file, written in their order over any file, existing or
\* not, shorter or longer, each once or twice in a row, give that file and pass the
\* integrity check; exactly the last one says that it is the last.
ChunksRebuildFile ==
    \A p \in Transferable, q \in Transferable, size \in 1 .. 2 * ChunkSize, times \in {1, 2} :
        LET chunks == PrepareFileChunks(disk[p], size)
            result == WriteChunks(disk[q], chunks, times)
        IN  chunks # << >> =>
                /\ result = disk[p]
                /\ VerifyIntegrity(result, CalculateFileSha256(disk[p]))
                /\ \A i \in DOMAIN chunks : chunks[i].isLastChunk <=> i = Len(chunks)

=============================================================================
