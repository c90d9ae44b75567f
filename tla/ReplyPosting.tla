---------------------------- MODULE ReplyPosting ----------------------------
(***************************************************************************)
(* The replies of one agent on their way into its Teams thread: a reply's  *)
(* text, cut into messages, the images and files its markers name, and the *)
(* picture a long structured reply may be replaced with (teamsService.ts   *)
(* with imageMarker.ts, fileMarker.ts, chunk.ts, autoImageRenderer.ts, the *)
(* renderer's process and graphClient.ts).                                 *)
(*                                                                         *)
(* Each turn's reply is flushed on its own, and nobody awaits the flush:   *)
(* replies of two turns overlap, in one lane of writes to the thread.  A   *)
(* text is a sequence of characters "x" and line breaks "n".  Retries of a *)
(* write are TeamsDispatch's: here a write is posted, or fails for good,   *)
(* or is posted and reported as failed.                                    *)
(***************************************************************************)
EXTENDS Naturals, Sequences, SequencesExt, FiniteSets

CONSTANTS
    Turn,           \* the turns, numbered in the order of their flushes
    Reply,          \* the replies that occur: [text, images, files, structured]
    Path,           \* the paths that markers name
    Outside,        \* those that leave the agent's working directory
    Missing,        \* those that cannot be read
    NoImage,        \* those whose bytes are not an image's
    Size,           \* the size of each file
    MaxCount,       \* DEFAULT_MAX_IMAGES, DEFAULT_MAX_FILES
    MaxBytes,       \* DEFAULT_MAX_BYTES
    MaxTotalBytes,  \* DEFAULT_MAX_TOTAL_BYTES
    Limit,          \* the longest message, in characters
    MaxFailures     \* bound: renders, uploads and writes that fail

VARIABLES
    reply,          \* the reply of each turn
    flush,          \* where its flush is
    todo,           \* the messages its flush has yet to post
    child,          \* the renderer's process
    available,      \* cachedAvailable: the renderer was found once
    lane,           \* the writes to the thread, the first one under way
    uploads,        \* files of the first write that are uploaded
    folder,         \* the files in the channel's folder
    thread,         \* the messages of the thread
    hurt,           \* ghost: what went wrong in each turn
    failures

vars == <<reply, flush, todo, child, available, lane, uploads, folder, thread, hurt, failures>>

NoReply == [text |-> <<>>, images |-> <<>>, files |-> <<>>, structured |-> FALSE]
Message == [turn : Turn, part : {"text", "images", "files", "render"}, holds : Seq(Path \cup {"x", "n"})]

TypeOK ==
    /\ reply \in [Turn -> Reply \cup {NoReply}]
    /\ flush \in [Turn -> {"none", "rendering", "rendered", "replacing", "loading", "posting", "done"}]
    /\ child \in [Turn -> {"none", "starting", "shooting", "closing", "succeeded", "failed", "gone"}]
    /\ available \in BOOLEAN
    /\ \A i \in DOMAIN lane : lane[i] \in Message
    /\ \A t \in Turn : \A i \in DOMAIN todo[t] : todo[t][i] \in Message
    /\ uploads \subseteq Path /\ folder \subseteq Path
    /\ \A i \in DOMAIN thread : thread[i] \in Message
    /\ hurt \in [Turn -> SUBSET {"render", "write", "answer"}]
    /\ failures \in 0..MaxFailures

Init ==
    /\ reply = [t \in Turn |-> NoReply]
    /\ flush = [t \in Turn |-> "none"]
    /\ todo = [t \in Turn |-> <<>>]
    /\ child = [t \in Turn |-> "none"]
    /\ available = FALSE
    /\ lane = <<>>
    /\ uploads = {}
    /\ folder = {}
    /\ thread = <<>>
    /\ hurt = [t \in Turn |-> {}]
    /\ failures = 0

-----------------------------------------------------------------------------
(* What a reply becomes.                                                   *)

(* A marker is taken once, at its first place.                             *)
Extracted(markers) ==
    FoldLeft(LAMBDA paths, p : IF p \in ToSet(paths) THEN paths ELSE Append(paths, p), <<>>, markers)

TotalBytes(paths) == FoldLeft(LAMBDA n, p : n + Size[p], 0, paths)

(* A file that is loaded after the others: inside the sandbox, readable,   *)
(* not empty and within the caps.  (A bug: the sizes of the files before   *)
(* it are not counted.)                                                    *)
LoadableAlone(loaded, p) ==
    /\ Len(loaded) < MaxCount
    /\ p \notin Outside \cup Missing
    /\ Size[p] \in 1..MaxBytes

Loadable(loaded, p) ==
    /\ Len(loaded) < MaxCount
    /\ p \notin Outside \cup Missing
    /\ Size[p] \in 1..MaxBytes
    /\ TotalBytes(loaded) + Size[p] <= MaxTotalBytes

(* One that is refused is skipped.  (A bug: it ends the loading.)          *)
LoadedToFirst(paths) ==
    LET refused == {i \in DOMAIN paths : ~Loadable(SubSeq(paths, 1, i - 1), paths[i])}
    IN IF refused = {} THEN paths
       ELSE SubSeq(paths, 1, (CHOOSE i \in refused : \A j \in refused : i <= j) - 1)

Loaded(paths) ==
    FoldLeft(LAMBDA loaded, p : IF Loadable(loaded, p) THEN Append(loaded, p) ELSE loaded, <<>>, paths)

loadHostedImages(markers) == Loaded(SelectSeq(Extracted(markers), LAMBDA p : p \notin NoImage))
loadAttachmentFiles(markers) == Loaded(Extracted(markers))

(* The last line break that ends a message within the limit, or the limit. *)
Cut(text) ==
    LET breaks == {i \in 1..Limit : text[i + 1] = "n"}
    IN IF breaks = {} THEN Limit ELSE CHOOSE i \in breaks : \A j \in breaks : j <= i

WithoutBreak(text) == IF text # <<>> /\ Head(text) = "n" THEN Tail(text) ELSE text

(* One cut after the other, as often as a text can be cut: its messages,   *)
(* and what remains.                                                       *)
CutOnce(parts) ==
    LET text == Last(parts) IN
    IF Len(text) <= Limit THEN parts
    ELSE Front(parts) \o <<SubSeq(text, 1, Cut(text)),
                           WithoutBreak(SubSeq(text, Cut(text) + 1, Len(text)))>>

chunkReply(text) ==
    LET parts == FoldLeft(LAMBDA done, i : CutOnce(done), <<text>>, text)
    IN SelectSeq(parts, LAMBDA part : part # <<>>)

Part(t, kind, holds) == [turn |-> t, part |-> kind, holds |-> holds]
PartUnless(t, kind, holds) == IF holds = <<>> THEN <<>> ELSE <<Part(t, kind, holds)>>

(* The messages of a reply, in order.                                      *)
Parts(t, r) ==
    LET chunks == chunkReply(r.text)
    IN [i \in DOMAIN chunks |-> Part(t, "text", chunks[i])]
       \o PartUnless(t, "images", loadHostedImages(r.images))
       \o PartUnless(t, "files", loadAttachmentFiles(r.files))

(* What tryRenderReplacingText asks before it renders.                     *)
Qualifies(r) == r.structured /\ Extracted(r.images) = <<>>

-----------------------------------------------------------------------------
(* The flush of a turn.                                                    *)

Fails(t, what) ==
    /\ failures < MaxFailures
    /\ failures' = failures + 1
    /\ hurt' = [hurt EXCEPT ![t] = @ \cup {what}]

(* flushTurn, flushAmbient: a turn ends, and its reply is rendered or, if  *)
(* it does not qualify or no renderer is found, posted as it is.           *)
Flush(t) ==
    /\ flush[t] = "none"
    /\ \A u \in Turn : u < t => flush[u] # "none"
    /\ \E r \in Reply, wanted, found \in BOOLEAN :
          /\ reply' = [reply EXCEPT ![t] = r]
          /\ available' = (available \/ (wanted /\ Qualifies(r) /\ found))
          /\ LET renders == wanted /\ Qualifies(r) /\ available'
             IN /\ flush' = [flush EXCEPT ![t] = IF renders THEN "rendering" ELSE "loading"]
                /\ child' = [child EXCEPT ![t] = IF renders THEN "starting" ELSE "none"]
    /\ UNCHANGED <<todo, lane, uploads, folder, thread, hurt, failures>>

(* The picture is loaded and its message queued, or it is refused (empty,  *)
(* too large) and the reply is posted as it is.                            *)
PictureLoaded(t) ==
    /\ flush[t] = "rendered"
    /\ \/ /\ flush' = [flush EXCEPT ![t] = "replacing"]
          /\ lane' = Append(lane, Part(t, "render", <<>>))
          /\ UNCHANGED <<hurt, failures>>
       \/ /\ Fails(t, "render")
          /\ flush' = [flush EXCEPT ![t] = "loading"]
          /\ UNCHANGED lane
    /\ UNCHANGED <<reply, todo, child, available, uploads, folder, thread>>

(* postReply goes on: its first message is queued, or it has none.         *)
Begins(t, parts) ==
    IF parts = <<>>
    THEN /\ flush' = [flush EXCEPT ![t] = "done"]
         /\ UNCHANGED <<todo, lane>>
    ELSE /\ flush' = [flush EXCEPT ![t] = "posting"]
         /\ todo' = [todo EXCEPT ![t] = Tail(parts)]
         /\ lane' = Append(lane, Head(parts))

(* postReply has read the files the markers name.                          *)
MarkersLoaded(t) ==
    /\ flush[t] = "loading"
    /\ Begins(t, Parts(t, reply[t]))
    /\ UNCHANGED <<reply, child, available, uploads, folder, thread, hurt, failures>>

-----------------------------------------------------------------------------
(* The renderer's process: it starts a browser, takes the picture, closes  *)
(* the browser and exits.                                                  *)

Running(t) == child[t] \in {"starting", "shooting", "closing"}

ChildGoesOn(t) ==
    /\ Running(t)
    /\ child' = [child EXCEPT ![t] = CASE @ = "starting" -> "shooting"
                                       [] @ = "shooting" -> "closing"
                                       [] @ = "closing"  -> "succeeded"]
    /\ UNCHANGED <<reply, flush, todo, available, lane, uploads, folder, thread, hurt, failures>>

(* A step throws, or the process's own watchdog ends it.                   *)
ChildFails(t) ==
    /\ Running(t)
    /\ Fails(t, "render")
    /\ child' = [child EXCEPT ![t] = "failed"]
    /\ UNCHANGED <<reply, flush, todo, available, lane, uploads, folder, thread>>

(* done: only the first outcome counts.  (A bug: a later one counts too.)  *)
EveryOutcome(t) == flush[t] \in {"rendering", "posting", "done"}

FirstOutcome(t) == flush[t] = "rendering"

(* The parent hears that the process is gone.                              *)
ChildCloses(t) ==
    /\ child[t] \in {"succeeded", "failed"}
    /\ flush' = IF FirstOutcome(t)
                THEN [flush EXCEPT ![t] = IF child[t] = "succeeded" THEN "rendered" ELSE "loading"]
                ELSE flush
    /\ child' = [child EXCEPT ![t] = "gone"]
    /\ UNCHANGED <<reply, todo, available, lane, uploads, folder, thread, hurt, failures>>

(* The parent's timer: the reply is posted as it is, and the process is    *)
(* told to end.  It may yet succeed.                                       *)
RenderTimesOut(t) ==
    /\ flush[t] = "rendering"
    /\ Fails(t, "render")
    /\ flush' = [flush EXCEPT ![t] = "loading"]
    /\ UNCHANGED <<reply, todo, child, available, lane, uploads, folder, thread>>

(* The signal, or the one after the grace period, ends it.                 *)
ChildIsEnded(t) ==
    /\ Running(t)
    /\ "render" \in hurt[t]
    /\ child' = [child EXCEPT ![t] = "failed"]
    /\ UNCHANGED <<reply, flush, todo, available, lane, uploads, folder, thread, hurt, failures>>

-----------------------------------------------------------------------------
(* The writes to the thread, one at a time.                                *)

(* safeReply returns to the flush of turn t: with a message id, or without *)
(* one.  (A bug: the reply is given up with its picture.)                  *)
NoFallback(t, posted) ==
    /\ flush' = IF todo[t] = <<>> THEN [flush EXCEPT ![t] = "done"] ELSE flush
    /\ lane' = Tail(lane) \o (IF todo[t] = <<>> THEN <<>> ELSE <<Head(todo[t])>>)
    /\ todo' = IF todo[t] = <<>> THEN todo ELSE [todo EXCEPT ![t] = Tail(@)]

Returns(t, posted) ==
    IF flush[t] = "replacing"
    THEN /\ flush' = [flush EXCEPT ![t] = IF posted THEN "done" ELSE "loading"]
         /\ lane' = Tail(lane)
         /\ UNCHANGED todo
    ELSE /\ flush' = IF todo[t] = <<>> THEN [flush EXCEPT ![t] = "done"] ELSE flush
         /\ lane' = Tail(lane) \o (IF todo[t] = <<>> THEN <<>> ELSE <<Head(todo[t])>>)
         /\ todo' = IF todo[t] = <<>> THEN todo ELSE [todo EXCEPT ![t] = Tail(@)]

Attached(m) == IF m.part = "files" THEN ToSet(m.holds) ELSE {}

(* uploadAttachments: the files go into the channel's folder, before the   *)
(* message that refers to them.                                            *)
Upload ==
    /\ lane # <<>>
    /\ \E p \in Attached(Head(lane)) \ uploads :
          /\ uploads' = uploads \cup {p}
          /\ folder' = folder \cup {p}
    /\ UNCHANGED <<reply, flush, todo, child, available, lane, thread, hurt, failures>>

(* A write that fails, in an upload or in the post itself.                 *)
WriteFails ==
    /\ lane # <<>>
    /\ Fails(Head(lane).turn, IF Head(lane).part = "render" THEN "render" ELSE "write")
    /\ Returns(Head(lane).turn, FALSE)
    /\ uploads' = {}
    /\ UNCHANGED <<reply, child, available, folder, thread>>

(* (A bug: a message goes out with the uploads that succeeded.)            *)
AnyUploads(m) == Attached(m) = {} \/ uploads # {}

AllUploaded(m) == Attached(m) \subseteq uploads

Post ==
    /\ lane # <<>>
    /\ AllUploaded(Head(lane))
    /\ thread' = Append(thread, Head(lane))
    /\ uploads' = {}
    /\ \/ /\ Returns(Head(lane).turn, TRUE)
          /\ UNCHANGED <<hurt, failures>>
       \/ /\ Fails(Head(lane).turn, "answer")
          /\ Returns(Head(lane).turn, FALSE)
    /\ UNCHANGED <<reply, child, available, folder>>

Next ==
    \/ \E t \in Turn :
          \/ Flush(t) \/ PictureLoaded(t) \/ MarkersLoaded(t)
          \/ ChildGoesOn(t) \/ ChildFails(t) \/ ChildCloses(t) \/ RenderTimesOut(t) \/ ChildIsEnded(t)
    \/ Upload \/ WriteFails \/ Post

Spec == Init /\ [][Next]_vars

-----------------------------------------------------------------------------
(* Safety.                                                                 *)

Posted(t, part) == SelectSeq(thread, LAMBDA m : m.turn = t /\ m.part = part)
Replaced(t) == Posted(t, "render") # <<>>

(* What may remain of a text after a message: a break may be lost there.  *)
After(text, message) ==
    IF IsPrefix(message, text)
    THEN LET rest == SubSeq(text, Len(message) + 1, Len(text)) IN {rest, WithoutBreak(rest)}
    ELSE {}

Rejoins(messages, text) ==
    <<>> \in FoldLeft(LAMBDA rests, m : UNION {After(rest, m.holds) : rest \in rests}, {text}, messages)

(* What was posted of the files that markers name: within the caps, and    *)
(* all that may be posted, unless the caps leave no room for it.           *)
Honoured(markers, posted) ==
    /\ IsInjective(posted)
    /\ Len(posted) <= MaxCount
    /\ TotalBytes(posted) <= MaxTotalBytes
    /\ ToSet(posted) \subseteq ToSet(markers) \ (Outside \cup Missing)
    /\ \A p \in ToSet(markers) \ (ToSet(posted) \cup Outside \cup Missing) :
          \/ Size[p] \notin 1..MaxBytes
          \/ Len(posted) = MaxCount
          \/ TotalBytes(posted) + Size[p] > MaxTotalBytes

Holds(t, part) == IF Posted(t, part) = <<>> THEN <<>> ELSE Head(Posted(t, part)).holds

(* tryRenderReplacingText: "the reply is therefore never dropped",         *)
(* loadHostedImages: "a single bad marker never blocks the rest of the     *)
(* reply".  Unless a write other than its picture's failed, a reply is in  *)
(* the thread as a picture, or with all its text and all the images and    *)
(* files that may be shown.                                                *)
NothingIsDropped ==
    \A t \in Turn : flush[t] = "done" /\ hurt[t] \subseteq {"render", "answer"} /\ ~Replaced(t) =>
        /\ Rejoins(Posted(t, "text"), reply[t].text)
        /\ Honoured(SelectSeq(reply[t].images, LAMBDA p : p \notin NoImage), Holds(t, "images"))
        /\ Honoured(reply[t].files, Holds(t, "files"))

(* flushTurn: a picture replaces the text.  Both are posted only if the    *)
(* picture's write was reported as failed, and no message is longer than *)
(* Teams takes.                                                            *)
SaidOnce ==
    \A t \in Turn :
        /\ Replaced(t) /\ Posted(t, "text") # <<>> => "answer" \in hurt[t]
        /\ \A part \in {"render", "images", "files"} : Len(Posted(t, part)) <= 1
        /\ \A i \in DOMAIN Posted(t, "text") : Len(Posted(t, "text")[i].holds) <= Limit

(* replyToThread: a message refers only to files that are in the folder.   *)
FilesAreUploaded == \A i \in DOMAIN thread : Attached(thread[i]) \subseteq folder

RepliesAreWhole == TypeOK /\ NothingIsDropped /\ SaidOnce /\ FilesAreUploaded

(* SC-006: "No regression in the existing Teams reply flow: [...]          *)
(* office-file attachments": a reply's files are attached, whatever else   *)
(* becomes of it.                                                          *)
FilesAreAttached ==
    \A t \in Turn : flush[t] = "done" /\ hurt[t] = {} => Honoured(reply[t].files, Holds(t, "files"))

=============================================================================
