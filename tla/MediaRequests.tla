---------------------------- MODULE MediaRequests ----------------------------
(***************************************************************************)
(* One embed or extract request (app.py): the checks of an uploaded video  *)
(* before and after it is saved (quarantine.py), its stay in quarantine    *)
(* and in the encrypted workspace (workspace.py), and its event.  A header *)
(* is the family its magic bytes name; a file name is a stem length and    *)
(* the family its extension belongs to.                                    *)
(***************************************************************************)
EXTENDS Integers, Sequences, FiniteSets

CONSTANTS Families,      \* the families of _KNOWN_FORMATS
          ExtLen,        \* characters of a known extension, its dot included
          NameCap,       \* the cap of normalize_filename
          MaxStem        \* longest stem tried

ASSUME MediaAssumption == ExtLen \in Nat /\ NameCap \in Nat /\ MaxStem \in Nat

VARIABLES video,        \* the upload: [route, header, stem, ext, mime, sound]
          phase,        \* where the request is
          quarantined,  \* is the upload's copy in its quarantine directory
          workspace,    \* files of the workspace directory
          wkey,         \* is the workspace key in memory
          recorded,     \* was an event inserted
          replied       \* the status answered, 0 before

mediaVars == <<video, phase, quarantined, workspace, wkey, recorded, replied>>

Unlisted == {"none", "other"}   \* no extension or type, and one no family lists
Headers == Families \cup {"short", "other"}
Mimes == Families \cup {"none", "octet-stream", "other", "audio"}
Exts == Families \cup Unlisted
UploadsTried == [route : {"embed", "extract"}, header : Headers, stem : 0 .. MaxStem, ext : Exts,
                 mime : Mimes, sound : BOOLEAN]

MediaInit(uploads) ==
    /\ video \in uploads
    /\ phase = "arrived" /\ replied = 0 /\ workspace = {}
    /\ quarantined = FALSE /\ wkey = FALSE /\ recorded = FALSE

-----------------------------------------------------------------------------
\* normalize_filename: a name without a stem is None; the cap may cut the extension, to
\* nothing or to a bare dot (no extension) or to a shorter one no family lists.
NoName == [stem |-> 0, ext |-> "none"]
normalize_filename(u) ==
    LET kept == NameCap - u.stem
    IN  IF u.stem = 0 THEN NoName
        ELSE IF u.ext = "none" \/ kept >= ExtLen THEN [stem |-> u.stem, ext |-> u.ext]
        ELSE IF kept > 1 THEN [stem |-> u.stem, ext |-> "other"]
        ELSE [stem |-> NameCap, ext |-> "none"]

_detect_format_family(header) == IF header \in Families THEN header ELSE "none"

\* The cross-checks of the extension and of the declared type against the magic bytes,
\* shared by verify_consistency and sniff_media_type_stream.
HeaderAgrees_any_type(header, ext, mime) ==
    /\ _detect_format_family(header) # "none"
    /\ ext = "none" \/ ext = header
HeaderAgrees(header, ext, mime) ==
    /\ _detect_format_family(header) # "none"
    /\ ext = "none" \/ ext = header
    /\ mime \in {"none", "octet-stream"} \/ mime = header

sniff_media_type_stream(u) == HeaderAgrees(u.header, u.ext, u.mime)

\* isolate_upload falls back to the raw name when the normalized one is None.
verify_consistency(u) ==
    LET name == normalize_filename(u)
    IN  HeaderAgrees(u.header, IF name = NoName THEN u.ext ELSE name.ext, u.mime)

validate_video_upload(u) == u.mime \notin {"audio"} /\ sniff_media_type_stream(u)

-----------------------------------------------------------------------------
\* An exception inside the contexts ends the request through both exits.
Abort(status) ==
    /\ phase' = "ended" /\ replied' = status
    /\ quarantined' = FALSE /\ workspace' = {} /\ wkey' = FALSE /\ UNCHANGED <<video, recorded>>

ReplyWith(status) == phase' = "ended" /\ replied' = status /\ UNCHANGED <<video, quarantined, workspace, wkey, recorded>>
Enter(next) == phase' = next /\ UNCHANGED <<video, recorded, replied>>

\* The checks made on the request itself: sound stands for its size, and for the size,
\* JSON and fields of the metadata of an embed.
ValidateUpload ==
    /\ phase = "arrived"
    /\ IF validate_video_upload(video) /\ video.sound
       THEN Enter("validated") /\ UNCHANGED <<quarantined, workspace, wkey>>
       ELSE Abort(400)

\* isolate_upload: the upload is saved, then scanned again under its normalized name.
isolate_upload ==
    /\ phase = "validated"
    /\ IF verify_consistency(video)
       THEN Enter("isolated") /\ quarantined' = TRUE /\ UNCHANGED <<workspace, wkey>>
       ELSE Abort(400)

\* EncryptedWorkspace and write_encrypted: a fresh key, the source encrypted under it.
OpenWorkspace ==
    /\ phase = "isolated"
    /\ \/ Enter("open") /\ wkey' = TRUE /\ workspace' = {"source.video"} /\ UNCHANGED quarantined
       \/ Abort(500)

\* ffmpeg reads the source and, for an embed, writes the output through the server.
RunFfmpeg ==
    /\ phase = "open"
    /\ \/ /\ Enter("processed") /\ UNCHANGED <<quarantined, wkey>>
          /\ workspace' = workspace \cup (IF video.route = "embed" THEN {"embedded.mp4"} ELSE {})
       \/ Abort(500)

\* The hashes are taken, then both contexts exit: the directories go and the key is
\* overwritten with zeros.
__exit___keeps_workspace ==
    /\ phase = "processed" /\ phase' = "hashed"
    /\ quarantined' = FALSE /\ wkey' = FALSE /\ UNCHANGED <<video, workspace, recorded, replied>>
__exit__ ==
    /\ phase = "processed" /\ phase' = "hashed"
    /\ quarantined' = FALSE /\ workspace' = {} /\ wkey' = FALSE /\ UNCHANGED <<video, recorded, replied>>

\* insert_proof_event; an extract first checks its retention class.
RecordEvent ==
    /\ phase = "hashed"
    /\ \/ recorded' = TRUE /\ phase' = "recorded" /\ UNCHANGED <<video, quarantined, workspace, wkey, replied>>
       \/ ReplyWith(500)
       \/ video.route = "extract" /\ ReplyWith(400)

\* queue_webhook_deliveries has its own transaction: when it fails the event stays.
NotifyHooks == phase = "recorded" /\ \E status \in {200, 500} : ReplyWith(status)

\* The process dies: what is on disk stays, the key does not.
ProcessDies ==
    /\ phase \notin {"ended", "dead"}
    /\ phase' = "dead" /\ wkey' = FALSE /\ UNCHANGED <<video, quarantined, workspace, recorded, replied>>

MediaNext == ValidateUpload \/ isolate_upload \/ OpenWorkspace \/ RunFfmpeg \/ __exit__ \/ RecordEvent \/ NotifyHooks \/ ProcessDies

MediaSpec == MediaInit(UploadsTried) /\ [][MediaNext]_mediaVars

-----------------------------------------------------------------------------
Truncated(u) == u.ext # "none" /\ u.stem > 0 /\ u.stem + ExtLen > NameCap

(* Every answered request, whichever step failed, has left nothing behind: no quarantined
   copy, no workspace file and no key; a process that died may leave files but never the
   key to read them; a success has its event; and an event is only ever recorded for an
   upload whose magic bytes agree with the type and the name it came with.  The scan of
   the saved file refuses nothing the scan of the stream accepted, unless the cap of the
   normalized name cut its extension short. *)
RequestLeavesNothing ==
    /\ phase = "ended" => ~quarantined /\ workspace = {} /\ ~wkey
    /\ phase = "dead" => ~wkey
    /\ wkey => phase \in {"open", "processed"}
    /\ replied = 200 => recorded
    /\ recorded => /\ video.header \in Families
                   /\ video.ext \in {"none", video.header}
                   /\ video.mime \in {"none", "octet-stream", video.header}
    /\ phase = "validated" /\ ~Truncated(video) => verify_consistency(video)
=============================================================================
