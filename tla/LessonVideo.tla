----------------------------- MODULE LessonVideo -----------------------------
(***************************************************************************)
(* The video of one lesson: an administrator's page uploads it in parts to *)
(* the object store (LessonVideoUploader.tsx), a request completes it and  *)
(* writes the lesson (courseContent.service.ts), and a worker converts it   *)
(* to HLS, one lesson at a time (transcode.service.ts), through restarts.   *)
(* An upload is known by its number, which stands for its contents.         *)
(***************************************************************************)
EXTENDS Integers

CONSTANTS Formats,         \* extensions of a video, each an object of its own
          Playlists,       \* those of them that are HLS already (.m3u8)
          LastUpload,      \* bound on the uploads
          MaxRestarts,     \* bound
          Hasty,           \* a video may be removed while one of the lesson is worked on
          Throwing         \* the worker may throw outside of its try

VARIABLES
    row,            \* Lesson: videoKey as its format, videoType, transcodeStatus
    stored,         \* the upload in each object, or NoUpload
    hls,            \* the upload whose HLS files are stored, and whether all are
    open,           \* multipart uploads the store keeps open
    page,           \* phase of the page and its upload
    completing,     \* the request that completes an upload
    deleting,       \* the request that removes the video
    worker,
    uploads,
    restarts

store == <<stored, hls>>
bounds == <<uploads, restarts>>
vars == <<row, store, open, page, completing, deleting, worker, bounds>>

NoUpload == 0
None == "none"
NoVideo == [key |-> None, type |-> None, status |-> None]
NoHls == [of |-> NoUpload, whole |-> FALSE]
Resting == [at |-> "idle", upload |-> NoUpload, format |-> None]
Off == [at |-> "off", key |-> None, source |-> NoUpload]

Init ==
    /\ row = NoVideo
    /\ stored = [f \in Formats |-> NoUpload]
    /\ hls = NoHls
    /\ open = {}
    /\ page = Resting
    /\ completing = Resting
    /\ deleting = "no"
    /\ worker = Off
    /\ uploads = 0
    /\ restarts = 0

-----------------------------------------------------------------------------
(* The page *)

Busy == {"preparing", "uploading", "finalizing"}

Pick(f) ==
    /\ page.at \notin Busy
    /\ Hasty \/ deleting = "no"
    /\ uploads < LastUpload
    /\ uploads' = uploads + 1
    /\ page' = [at |-> "preparing", upload |-> uploads + 1, format |-> f]
    /\ UNCHANGED <<row, store, open, completing, deleting, worker, restarts>>

\* video/init opens the multipart upload.
InitAnswered ==
    /\ page.at = "preparing"
    /\ \/ open' = open \cup {page.upload} /\ page' = [page EXCEPT !.at = "uploading"]
       \/ page' = [page EXCEPT !.at = "error"] /\ UNCHANGED open
    /\ UNCHANGED <<row, store, completing, deleting, worker, bounds>>

\* A part that fails ends the upload; the page tries to close it at the store.
PartFails ==
    /\ page.at = "uploading"
    /\ page' = [page EXCEPT !.at = "error"]
    /\ open' \in {open, open \ {page.upload}}
    /\ UNCHANGED <<row, store, completing, deleting, worker, bounds>>

\* All parts are there. Bound: the last request to complete is done.
PartsDone ==
    /\ page.at = "uploading"
    /\ completing = Resting
    /\ page' = [page EXCEPT !.at = "finalizing"]
    /\ completing' = [page EXCEPT !.at = "join"]
    /\ UNCHANGED <<row, store, open, deleting, worker, bounds>>

\* What is opened after the cancellation nobody closes; what is being completed is
\* closed only if the cancellation comes first.
Cancel ==
    /\ page.at \in Busy
    /\ page' = Resting
    /\ open' \in {open, IF page.at = "preparing" THEN open \cup {page.upload}
                        ELSE open \ {page.upload}}
    /\ UNCHANGED <<row, store, completing, deleting, worker, bounds>>

-----------------------------------------------------------------------------
(* completeVideoUpload *)

Waiting == page.at = "finalizing" /\ page.upload = completing.upload
Told(phase) == page' = IF Waiting THEN [page EXCEPT !.at = phase] ELSE page

Join ==
    /\ completing.at = "join"
    /\ completing.upload \in open
    /\ open' = open \ {completing.upload}
    /\ stored' = [stored EXCEPT ![completing.format] = completing.upload]
    /\ completing' = [completing EXCEPT !.at = "clean"]
    /\ UNCHANGED <<row, hls, page, deleting, worker, bounds>>

\* The objects of other formats go, or stay if that fails.
Clean ==
    /\ completing.at = "clean"
    /\ \/ stored' = [f \in Formats |-> IF f = completing.format THEN stored[f] ELSE NoUpload]
       \/ UNCHANGED stored
    /\ completing' = [completing EXCEPT !.at = "save"]
    /\ UNCHANGED <<row, hls, open, page, deleting, worker, bounds>>

\* Mutant: the lesson keeps the type it had.
KeepingType == [key |-> completing.format, status |-> "pending",
                type |-> IF row.type = None THEN "mp4" ELSE row.type]

\* A playlist is HLS at once, and not converted.
Completed ==
    IF completing.format \in Playlists
      THEN [key |-> completing.format, type |-> "hls", status |-> None]
      ELSE [key |-> completing.format, type |-> "mp4", status |-> "pending"]

\* kickWorker, which does nothing if the worker runs.
Kicked == IF worker.at = "off" THEN [Off EXCEPT !.at = "find"] ELSE worker

Save ==
    /\ completing.at = "save"
    /\ row' = Completed
    /\ worker' = IF completing.format \in Playlists THEN worker ELSE Kicked
    /\ completing' = Resting
    /\ Told("done")
    /\ UNCHANGED <<store, open, deleting, bounds>>

\* The multipart upload is closed already, or a call fails.
CompleteFails ==
    /\ completing # Resting
    /\ completing' = Resting
    /\ Told("error")
    /\ UNCHANGED <<row, store, open, deleting, worker, bounds>>

-----------------------------------------------------------------------------
(* deleteVideo, offered where the page knows of a video *)

Delete ==
    /\ deleting = "no"
    /\ row.key # None
    /\ page.at \notin Busy
    /\ Hasty \/ (/\ completing = Resting /\ worker = Off
                 /\ row.status \notin {"pending", "processing"})
    /\ deleting' = "objects"
    /\ UNCHANGED <<row, store, open, page, completing, worker, bounds>>

DeleteObjects ==
    /\ deleting = "objects"
    /\ stored' = [f \in Formats |-> NoUpload]
    /\ hls' = NoHls
    /\ deleting' = "row"
    /\ UNCHANGED <<row, open, page, completing, worker, bounds>>

DeleteRow ==
    /\ deleting = "row"
    /\ row' = NoVideo
    /\ deleting' = "no"
    /\ UNCHANGED <<store, open, page, completing, worker, bounds>>

-----------------------------------------------------------------------------
(* The worker *)

At(point) == worker.at = point
GoTo(point) == worker' = [worker EXCEPT !.at = point]
OnlyWorker == UNCHANGED <<store, open, page, completing, deleting, bounds>>

\* The interval that wakes the worker every five minutes.
SafetyKick ==
    /\ At("off")
    /\ worker' = Kicked
    /\ UNCHANGED row /\ OnlyWorker

\* A lesson that is saved after the query is not seen, and its kick is lost.
Find ==
    /\ At("find")
    /\ GoTo(IF row.status = "pending" /\ row.key # None THEN "claim" ELSE "leave")
    /\ UNCHANGED row /\ OnlyWorker

Leave ==
    /\ At("leave")
    /\ worker' = Off
    /\ UNCHANGED row /\ OnlyWorker

Claim ==
    /\ At("claim")
    /\ IF row.status = "pending"
         THEN row' = [row EXCEPT !.status = "processing"] /\ GoTo("read")
         ELSE UNCHANGED row /\ GoTo("find")
    /\ OnlyWorker

\* processLesson reads the key and asks for a directory.
Read ==
    /\ At("read")
    /\ \/ /\ row.key = None
          /\ row' = [row EXCEPT !.status = "failed"] /\ GoTo("find")
       \/ /\ row.key # None
          /\ worker' = [worker EXCEPT !.at = "encode", !.key = row.key]
          /\ UNCHANGED row
       \/ Throwing /\ worker' = Off /\ UNCHANGED row
    /\ OnlyWorker

Encode ==
    /\ At("encode")
    /\ \/ /\ stored[worker.key] # NoUpload
          /\ worker' = [worker EXCEPT !.at = "wipe", !.source = stored[worker.key]]
       \/ GoTo("fail")
    /\ UNCHANGED row /\ OnlyWorker

\* The files of an older conversion go, or stay if that fails.
Wipe ==
    /\ At("wipe")
    /\ hls' \in {hls, NoHls}
    /\ GoTo("put")
    /\ UNCHANGED <<row, stored, open, page, completing, deleting, bounds>>

\* The master playlist and some files are put ...
Put ==
    /\ At("put")
    /\ \/ hls' = [of |-> worker.source, whole |-> FALSE] /\ GoTo("putRest")
       \/ GoTo("fail") /\ UNCHANGED hls
    /\ UNCHANGED <<row, stored, open, page, completing, deleting, bounds>>

\* ... and the rest, which is whole if those were not removed meanwhile.
PutRest ==
    /\ At("putRest")
    /\ \/ hls' = [of |-> worker.source, whole |-> hls.of = worker.source] /\ GoTo("finish")
       \/ GoTo("fail") /\ UNCHANGED hls
    /\ UNCHANGED <<row, stored, open, page, completing, deleting, bounds>>

\* Written over whatever the lesson has become. Bound: the last write goes through
\* (a failure that cannot be written leaves the lesson "processing" until a restart).
Finish ==
    /\ \/ At("finish") /\ row' = [row EXCEPT !.type = "hls", !.status = "ready"]
       \/ At("fail") /\ row' = [row EXCEPT !.status = "failed"]
    /\ worker' = [Off EXCEPT !.at = "find"]
    /\ OnlyWorker

\* Bound: no restart within the removal of a video.
Crash ==
    /\ worker.at # "down"
    /\ restarts < MaxRestarts
    /\ deleting = "no"
    /\ restarts' = restarts + 1
    /\ worker' = [Off EXCEPT !.at = "down"]
    /\ completing' = Resting
    /\ Told("error")
    /\ UNCHANGED <<row, store, open, deleting, uploads>>

\* Mutant: the boot takes up only what is pending.
ResetNothing == row

\* initTranscodeWorker puts what was being converted back into the queue.
Reset == IF row.status = "processing" THEN [row EXCEPT !.status = "pending"] ELSE row

Boot ==
    /\ At("down")
    /\ row' = Reset
    /\ worker' = [Off EXCEPT !.at = "find"]
    /\ OnlyWorker

WorkerStep == \/ Find \/ Leave \/ Claim \/ Read \/ Encode \/ Wipe \/ Put \/ PutRest \/ Finish

Next ==
    \/ \E f \in Formats : Pick(f)
    \/ InitAnswered \/ PartFails \/ PartsDone \/ Cancel
    \/ Join \/ Clean \/ Save \/ CompleteFails
    \/ Delete \/ DeleteObjects \/ DeleteRow
    \/ SafetyKick \/ WorkerStep
    \/ Crash \/ Boot

\* The worker goes on, the interval keeps ticking and a process that died is started.
Fairness == WF_vars(WorkerStep) /\ WF_vars(SafetyKick) /\ WF_vars(Boot)

Spec == Init /\ [][Next]_vars /\ Fairness

-----------------------------------------------------------------------------
(* Properties *)

Uploads == 1..LastUpload

\* The state is what the lesson, the store and the requests can hold.
TypeOK ==
    /\ row \in [key : Formats \cup {None}, type : {None, "mp4", "hls"},
                status : {None, "pending", "processing", "ready", "failed"}]
    /\ stored \in [Formats -> Uploads \cup {NoUpload}]
    /\ hls \in [of : Uploads \cup {NoUpload}, whole : BOOLEAN]
    /\ open \subseteq Uploads
    /\ page.at \in Busy \cup {"idle", "error", "done"}
    /\ completing.at \in {"idle", "join", "clean", "save"}
    /\ deleting \in {"no", "objects", "row"}
    /\ worker.source \in Uploads \cup {NoUpload}
    /\ uploads \in 0..LastUpload /\ restarts \in 0..MaxRestarts

\* What members are given as HLS of a video that was converted is all there, of one
\* upload, while videos and playlists replace each other, conversions fail and the
\* process restarts; only while the video is being removed it is not. Of a playlist
\* see PlaylistIsServed.
ServedIsWhole ==
    row.key \in Formats \ Playlists /\ row.type = "hls" /\ deleting # "row" => hls.whole

\* The HLS that is served of a lesson whose video is a playlist is that of the upload
\* (docs/r2-video-setup.md, lines 120-122: to publish HLS put the master and its
\* segments under hls/ and mark the type, "o upload de .m3u8 já faz isso").
PlaylistIsServed ==
    row.key \in Playlists /\ row.type = "hls" /\ deleting = "no" => hls.of = stored[row.key]

\* A conversion that was asked for comes to an end, though its kick was lost or the
\* process died in the middle of it.
ConversionEnds ==
    [](row.status \in {"pending", "processing"} => <>(row.status \in {None, "ready", "failed"}))

\* What is ready is the lesson's current video (transcode.service.ts, lines 11-12:
\* "when the HLS is ready" the lesson's player offers its qualities).
ReadyIsCurrent ==
    row.key # None /\ row.status = "ready" => hls.of = stored[row.key]

\* An upload that is over leaves nothing open at the store, unless its
\* closing failed.
NothingLeftOpen == page.at \notin Busy /\ completing = Resting => open = {}
=============================================================================
