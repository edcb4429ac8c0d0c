------------------------------- MODULE Uploads -------------------------------
(***************************************************************************)
(* A chunked upload session (app.py, the upload-session routes, with       *)
(* streaming_upload.py): chunk requests write files of one directory,      *)
(* commit requests list them, concatenate them into combined.video, embed  *)
(* it and remove the directory.  Nothing serialises these requests.  The   *)
(* files of sessions stand beside those of the jobs of JobQueue, with      *)
(* which they share no step.                                               *)
(***************************************************************************)
EXTENDS Integers, Sequences, JobQueue

CONSTANTS ChunkRequests, CommitRequests, ChunkIndexes,
          NoUpload,     \* a file that does not exist
          MaxVersions   \* bound: chunk contents sent

Chunk == [index : ChunkIndexes, version : Nat, whole : BOOLEAN]

ASSUME UploadAssumption == ChunkIndexes \subseteq Nat /\ NoUpload \notin Chunk

VARIABLES session_dir,  \* whether the session's directory exists
          chunks,       \* index -> content of chunk-<index>, or NoUpload
          combined,     \* content of combined.video, or NoUpload
          chunk_req,    \* chunk request -> [pc, index, version]
          commit_req,   \* commit request -> [pc, listed, hash, embedded, missing]
          versions,     \* contents sent so far
          acknowledged, \* history: contents answered with ok
          aborted,      \* history: indexes of chunk requests that failed
          committed,    \* history: the last commit answered with a video
          overlapped    \* history: two commits of the session were in progress at once

uploadVars == <<session_dir, chunks, combined, chunk_req, commit_req, versions, acknowledged,
                aborted, committed, overlapped>>

Content(index, version, whole) == [index |-> index, version |-> version, whole |-> whole]
IdleChunk == [pc |-> "idle", index |-> 0, version |-> 0]
IdleCommit == [pc |-> "idle", listed |-> {}, hash |-> <<>>, embedded |-> <<>>, missing |-> {}]

\* A commit that is to read the chunks listed, one that has read a chunk, and one that
\* has embedded a file.
Listing(listed, missing) == [IdleCommit EXCEPT !.pc = "concat", !.listed = listed, !.missing = missing]
Reading(q, i, content) == [q EXCEPT !.listed = @ \ {i}, !.hash = Append(@, content)]
Embedding(q, content) == [q EXCEPT !.pc = "record", !.embedded = content]
PresentChunks == {i \in ChunkIndexes : chunks[i] # NoUpload}

UploadInit ==
    /\ session_dir = TRUE /\ combined = NoUpload /\ chunks = [i \in ChunkIndexes |-> NoUpload]
    /\ chunk_req = [u \in ChunkRequests |-> IdleChunk]
    /\ commit_req = [c \in CommitRequests |-> IdleCommit]
    /\ versions = 0 /\ acknowledged = {} /\ aborted = {} /\ committed = IdleCommit /\ overlapped = FALSE

-----------------------------------------------------------------------------
\* upload_chunk: the session is looked up; the bytes are read later.
upload_chunk(u) ==
    /\ chunk_req[u].pc = "idle" /\ session_dir /\ versions < MaxVersions
    /\ versions' = versions + 1
    /\ \E i \in ChunkIndexes :
          chunk_req' = [chunk_req EXCEPT ![u] = [pc |-> "open", index |-> i, version |-> versions']]
    /\ UNCHANGED <<session_dir, chunks, combined, commit_req, acknowledged, aborted, committed, overlapped>>

\* hash_stream_to_path makes the directory, again if it is gone, and streams into a
\* temporary file.
open_chunk_in_place(u) ==
    /\ chunk_req[u].pc = "open" /\ session_dir' = TRUE
    /\ chunk_req' = [chunk_req EXCEPT ![u].pc = "stream"]
    /\ chunks' = [chunks EXCEPT ![chunk_req[u].index] =
                     Content(chunk_req[u].index, chunk_req[u].version, FALSE)]
    /\ UNCHANGED <<combined, commit_req, versions, acknowledged, aborted, committed, overlapped>>
open_chunk(u) ==
    /\ chunk_req[u].pc = "open" /\ session_dir' = TRUE
    /\ chunk_req' = [chunk_req EXCEPT ![u].pc = "stream"]
    /\ UNCHANGED <<chunks, combined, commit_req, versions, acknowledged, aborted, committed, overlapped>>

\* The temporary file is moved into place and the request acknowledged.
hash_stream_to_path(u) ==
    LET q == chunk_req[u] content == Content(q.index, q.version, TRUE) IN
    /\ q.pc = "stream" /\ session_dir
    /\ chunks' = [chunks EXCEPT ![q.index] = content]
    /\ acknowledged' = acknowledged \cup {content}
    /\ chunk_req' = [chunk_req EXCEPT ![u] = IdleChunk]
    /\ UNCHANGED <<session_dir, combined, commit_req, versions, aborted, committed, overlapped>>

\* The size limit, a read error, or a directory that is gone: the temporary file is
\* removed, and so is whatever was stored at the destination before.
abort_chunk(u) ==
    /\ chunk_req[u].pc = "stream"
    /\ chunks' = [chunks EXCEPT ![chunk_req[u].index] = NoUpload]
    /\ aborted' = aborted \cup {chunk_req[u].index}
    /\ chunk_req' = [chunk_req EXCEPT ![u] = IdleChunk]
    /\ UNCHANGED <<session_dir, combined, commit_req, versions, acknowledged, committed, overlapped>>

-----------------------------------------------------------------------------
\* commit_upload_session lists the chunk files; an empty session is refused.
commit_upload_session(c) ==
    /\ commit_req[c].pc = "idle" /\ session_dir /\ PresentChunks # {}
    /\ commit_req' = [commit_req EXCEPT ![c] =
          Listing(PresentChunks, IF committed.pc = "record" THEN {}
                                 ELSE {a.index : a \in acknowledged} \ PresentChunks)]
    /\ overlapped' = (overlapped \/ \E d \in CommitRequests : commit_req[d].pc # "idle")
    /\ UNCHANGED <<session_dir, chunks, combined, chunk_req, versions, acknowledged, aborted, committed>>

FailCommit(c) == commit_req' = [commit_req EXCEPT ![c] = IdleCommit]

\* hash_paths_concat: one listed chunk after another, by index, then the result moved into place;
\* on any failure (a chunk that is gone, the size limit) combined.video is removed.
hash_paths_concat(c) ==
    LET q == commit_req[c] IN
    /\ q.pc = "concat"
    /\ \/ /\ \E i \in q.listed :
                /\ chunks[i] # NoUpload /\ \A k \in q.listed : i <= k
                /\ commit_req' = [commit_req EXCEPT ![c] = Reading(q, i, chunks[i])]
          /\ UNCHANGED combined
       \/ /\ q.listed = {} /\ session_dir
          /\ combined' = q.hash /\ commit_req' = [commit_req EXCEPT ![c].pc = "embed"]
       \/ combined' = NoUpload /\ FailCommit(c)
    /\ UNCHANGED <<session_dir, chunks, chunk_req, versions, acknowledged, aborted, committed, overlapped>>

\* The assembled file is sniffed and embedded, whoever assembled it last.
embed_combined(c) ==
    /\ commit_req[c].pc = "embed"
    /\ \/ /\ combined # NoUpload
          /\ commit_req' = [commit_req EXCEPT ![c] = Embedding(@, combined)]
       \/ FailCommit(c)
    /\ UNCHANGED <<session_dir, chunks, combined, chunk_req, versions, acknowledged, aborted, committed,
                   overlapped>>

\* The retention class is looked up after the embedding; then the event is recorded, the
\* video answered with the hash of what this request assembled, and the session removed.
finish_commit(c) ==
    /\ commit_req[c].pc = "record"
    /\ \/ /\ committed' = commit_req[c]
          /\ session_dir' = FALSE /\ combined' = NoUpload /\ chunks' = [i \in ChunkIndexes |-> NoUpload]
       \/ UNCHANGED <<committed, session_dir, combined, chunks>>
    /\ FailCommit(c)
    /\ UNCHANGED <<chunk_req, versions, acknowledged, aborted, overlapped>>

UploadNext ==
    \/ \E u \in ChunkRequests : upload_chunk(u) \/ open_chunk(u) \/ hash_stream_to_path(u) \/ abort_chunk(u)
    \/ \E c \in CommitRequests : \/ commit_upload_session(c) \/ hash_paths_concat(c)
                                 \/ embed_combined(c) \/ finish_commit(c)

UploadSpec == UploadInit /\ [][UploadNext]_uploadVars

-----------------------------------------------------------------------------

(* What a commit embeds is put together from whole, acknowledged chunks in ascending order
   of their index, whatever uploads and other commits run beside it; an acknowledged index
   is missing from a session's first commit only if a request for that index failed, which
   removes the stored chunk; and the source hash it answers is
   that of the file it embedded as long as no two commits ran at once. *)
CommittedIsAcknowledged ==
    committed.pc = "record" =>
        /\ \A i \in DOMAIN committed.embedded : committed.embedded[i] \in acknowledged
        /\ \A i, j \in DOMAIN committed.embedded :
              i < j => committed.embedded[i].index < committed.embedded[j].index
        /\ committed.missing \subseteq aborted
        /\ ~overlapped => committed.hash = committed.embedded

\* Stored files outlive the work that needs them: a job that may still run has its
\* input, a download is the output of the job it names, and the video a commit returns
\* is made of chunks whose senders were told they arrived, although jobs are swept,
\* workers stop and restart and chunks are sent again while a commit reads them.
FilesServeTheirWork == UnfinishedKeepsInput /\ DownloadIsOwnOutput /\ CommittedIsAcknowledged
=============================================================================
