----------------------------- MODULE NodeImages -----------------------------
(***************************************************************************)
(* Uploaded images of the Node web application                             *)
(* (src/webapp/node/src/router.ts).  An image is a column of its post and, *)
(* once somebody asked for it, posted it or warmed it up, a file beside    *)
(* the table.  A file is opened (and cut to nothing), written and closed   *)
(* with other requests in between, is trusted whenever it is there, and is *)
(* deleted only by /initialize; errors of the file system are logged.      *)
(***************************************************************************)
EXTENDS FiniteSets, Naturals

CONSTANTS
    Ids,          \* posts.id values (AUTO_INCREMENT: an id is given out once)
    Seed,         \* the ids <= 10000, which dbInitialize keeps
    Imgs,         \* what users upload
    Exts,         \* jpg, png, gif: the mime types extFromMime knows
    WarmLimit,    \* IMAGE_PREWARM_LIMIT
    Reqs,         \* request slots: the bound on requests in flight
    None          \* a missing row, file, extension or answer

ASSUME NoneAssumption == None \notin Ids \cup Imgs \cup Exts
ASSUME SeedAssumption == Seed \subseteq Ids
ASSUME LimitAssumption == WarmLimit \in Nat

VARIABLES
    posts,        \* posts table: the image of each id, None without a row
    allocated,    \* ids AUTO_INCREMENT has given out
    files,        \* IMAGE_CACHE_DIR: the file named after each id, or None
    req,          \* the requests in flight
    uploaded,     \* history: what was inserted under each id
    acked,        \* history: ids whose upload, or whose image, was answered
    broken,       \* history: ids whose file a failed or killed write left
    unclean       \* history: no complete clear since rows were deleted

vars == <<posts, allocated, files, req, uploaded, acked, broken, unclean>>

\* imgdata and mime of a row; the extension is None for a mime type like
\* image/pjpeg, which the upload lets pass and extFromMime does not know.
Image == [img : Imgs, ext : Exts \cup {None}]

\* late is history: the row was already gone when the file was opened.
File == [img : Imgs, ext : Exts, whole : BOOLEAN, late : BOOLEAN]

\* A file to write: its name and the imgdata.
Job == [id : Ids, img : Imgs, ext : Exts]

\* writing is history: the file was being written when it was read.
Answer == [img : Imgs, ext : Exts, whole : BOOLEAN, writing : BOOLEAN]

ASSUME RecordAssumption == None \notin Image \cup File \cup Job \cup Answer

Request ==
    [pc : {"idle", "read", "select", "insert", "delete", "stray", "clear",
           "warm", "open", "write", "reply"},
     id : Ids \cup {None},                 \* the file name asked for,
     ext : Exts \cup {None},               \*     or the id inserted
     jobs : SUBSET Job,                    \* files yet to write
     job : Job \cup {None},                \* the file being written
     hold : {"all", "cut", "gone"},        \* what became of it since: cut by
                                           \* another writer, or deleted
     status : {"ok", "notFound", "error"},
     answer : Answer \cup {None},
     must : BOOLEAN]                       \* history: the image was there when
                                           \* it was asked for, and still is

Idle == [pc |-> "idle", id |-> None, ext |-> None, jobs |-> {}, job |-> None,
         hold |-> "all", status |-> "ok", answer |-> None, must |-> FALSE]

\* Type invariant.  Besides the types: rows and files only have ids that were
\* given out.
TypeOK ==
    /\ posts \in [Ids -> Image \cup {None}]
    /\ allocated \in SUBSET Ids
    /\ files \in [Ids -> File \cup {None}]
    /\ req \in [Reqs -> Request]
    /\ uploaded \in [Ids -> Image \cup {None}]
    /\ acked \subseteq allocated
    /\ broken \subseteq Ids
    /\ unclean \in BOOLEAN
    /\ \A i \in Ids \ allocated : posts[i] = None /\ files[i] = None

Init ==
    /\ allocated = Seed
    /\ posts \in [Ids -> Image \cup {None}]
    /\ \A i \in Ids : posts[i] = None <=> i \notin Seed
    /\ files = [i \in Ids |-> None]
    /\ req = [r \in Reqs |-> Idle]
    /\ uploaded = posts
    /\ acked = Seed
    /\ broken = {}
    /\ unclean = FALSE

-----------------------------------------------------------------------------
At(r, pc) == req[r].pc = pc
Becomes(r, q) == req' = [req EXCEPT ![r] = q]
Finish(r, status) == Becomes(r, [req[r] EXCEPT !.pc = "reply", !.status = status])

\* A request is writing the file of i and will leave it whole.
Writing(i) ==
    \E r \in Reqs : At(r, "write") /\ req[r].job.id = i /\ req[r].hold = "all"

\* GET /image/<id>.<ext>
GetImage(r, id, ext) ==
    /\ At(r, "idle")
    /\ Becomes(r, [Idle EXCEPT !.pc = "read", !.id = id, !.ext = ext,
                     !.must = id \in acked /\ posts[id] # None
                              /\ posts[id].ext = ext])
    /\ UNCHANGED <<posts, allocated, files, uploaded, acked, broken, unclean>>

PostImage(r) ==
    /\ At(r, "idle")
    /\ Becomes(r, [Idle EXCEPT !.pc = "insert"])
    /\ UNCHANGED <<posts, allocated, files, uploaded, acked, broken, unclean>>

\* /initialize clears the files after it has deleted the rows.
Initialize(r) ==
    /\ At(r, "idle")
    /\ Becomes(r, [Idle EXCEPT !.pc = "delete"])
    /\ UNCHANGED <<posts, allocated, files, uploaded, acked, broken, unclean>>

-----------------------------------------------------------------------------
(***************************************************************************)
(* GET /image: the file if there is one, whatever state it is in, else the *)
(* row, which is then written to the file.  readFile ends where the file   *)
(* ends at that moment: who reads while it is written gets a cut image,    *)
(* with status 200.                                                        *)
(***************************************************************************)
FileThere(q) == files[q.id] # None /\ files[q.id].ext = q.ext

ReadFile(r) ==
    /\ At(r, "read")
    /\ FileThere(req[r])
    /\ LET f == files[req[r].id]
       IN  Becomes(r, [req[r] EXCEPT !.pc = "reply",
                         !.answer = [img |-> f.img, ext |-> f.ext,
                                     whole |-> f.whole,
                                     writing |-> Writing(req[r].id)]])
    /\ UNCHANGED <<posts, allocated, files, uploaded, acked, broken, unclean>>

\* No file, or an error of readFile.
NotFoundInDir(r) == Finish(r, "notFound")       \* mutant of CacheMiss
CacheMiss(r) == Becomes(r, [req[r] EXCEPT !.pc = "select"])

ReadFileFails(r) ==
    /\ At(r, "read")
    /\ CacheMiss(r)
    /\ UNCHANGED <<posts, allocated, files, uploaded, acked, broken, unclean>>

\* mimeMatchesExt
AnyMime(q) == posts[q.id] # None                \* mutant of Matches
Matches(q) == posts[q.id] # None /\ posts[q.id].ext = q.ext

\* The answer is the row's imgdata, after the file is written.
SelectPost(r) ==
    LET q == req[r]
        row == posts[q.id] IN
    /\ At(r, "select")
    /\ IF Matches(q)
       THEN Becomes(r, [q EXCEPT !.pc = "open",
                          !.jobs = {[id |-> q.id, img |-> row.img, ext |-> row.ext]},
                          !.answer = [img |-> row.img, ext |-> row.ext,
                                      whole |-> TRUE, writing |-> FALSE]])
       ELSE Finish(r, "notFound")
    /\ UNCHANGED <<posts, allocated, files, uploaded, acked, broken, unclean>>


\* POST /: INSERT, then the file.
ReusableIds == {i \in Ids : posts[i] = None}    \* mutant of FreshIds
FreshIds == Ids \ allocated

InsertPost(r) ==
    /\ At(r, "insert")
    /\ \E i \in FreshIds, image \in Image :
        /\ posts' = [posts EXCEPT ![i] = image]
        /\ uploaded' = [uploaded EXCEPT ![i] = image]
        /\ allocated' = allocated \cup {i}
        /\ Becomes(r, [req[r] EXCEPT !.pc = IF image.ext = None THEN "reply" ELSE "open",
                         !.id = i,
                         !.jobs = {j \in Job : /\ j.id = i
                                               /\ j.img = image.img
                                               /\ j.ext = image.ext}])
    /\ UNCHANGED <<files, acked, broken, unclean>>

\* The SELECT or the INSERT throws.
StatementFails(r) ==
    /\ At(r, "select") \/ At(r, "insert")
    /\ Finish(r, "error")
    /\ UNCHANGED <<posts, allocated, files, uploaded, acked, broken, unclean>>

\* /initialize: dbInitialize (of which the posts), clearImageCache.
KeepFiles == "warm"                             \* mutant of AfterDelete
AfterDelete == "clear"

DeleteRows(r, pc) ==
    /\ posts' = [i \in Ids |-> IF i \in Seed THEN posts[i] ELSE None]
    /\ req' = [x \in Reqs |->
                  IF x = r THEN [req[x] EXCEPT !.pc = pc]
                  ELSE IF req[x].id \in Seed THEN req[x]
                  ELSE [req[x] EXCEPT !.must = FALSE]]
    /\ UNCHANGED <<allocated, files, uploaded, acked, broken>>

DeletePosts(r) ==
    /\ At(r, "delete")
    /\ DeleteRows(r, AfterDelete)
    /\ UNCHANGED unclean

\* An error of any statement of dbInitialize is answered at once and the files
\* stay; the DELETE may be the one that failed, or may go on ("stray").
DeleteFails(r) ==
    /\ At(r, "delete")
    /\ \/ Finish(r, "error")
       \/ Becomes(r, [req[r] EXCEPT !.pc = "stray", !.status = "error"])
    /\ UNCHANGED <<posts, allocated, files, uploaded, acked, broken, unclean>>

StrayDelete(r) ==
    /\ At(r, "stray")
    /\ DeleteRows(r, "reply")
    /\ unclean' = TRUE

\* rm unlinks the files it finds in the directory; who is writing one of them
\* goes on writing a file without a name.
ToRemove == {i \in Ids : files[i] # None}

Unlink(r, removed) ==
    /\ files' = [i \in Ids |-> IF i \in removed THEN None ELSE files[i]]
    /\ req' = [x \in Reqs |->
                  IF x = r THEN [req[x] EXCEPT !.pc = "warm"]
                  ELSE IF At(x, "write") /\ req[x].job.id \in removed
                       THEN [req[x] EXCEPT !.hold = "gone"]
                  ELSE req[x]]

ClearImageCache(r) ==
    /\ At(r, "clear")
    /\ Unlink(r, ToRemove)
    /\ unclean' = FALSE
    /\ UNCHANGED <<posts, allocated, uploaded, acked, broken>>

\* clearImageCache logs an error: some files may be left.
ClearFails(r) ==
    /\ At(r, "clear")
    /\ \E removed \in SUBSET {i \in Ids : files[i] # None} : Unlink(r, removed)
    /\ unclean' = TRUE
    /\ UNCHANGED <<posts, allocated, uploaded, acked, broken>>

\* warmImageCache: SELECT the newest posts.  created_at is in seconds, so any
\* WarmLimit of them may be the newest.
Rows == {i \in Ids : posts[i] # None}
WarmImageCache(r) ==
    /\ At(r, "warm")
    /\ \E newest \in SUBSET Rows :
        /\ \/ newest = Rows /\ Cardinality(Rows) <= WarmLimit
           \/ Cardinality(newest) = WarmLimit
        /\ LET jobs == {j \in Job : /\ j.id \in newest
                                    /\ j.img = posts[j.id].img
                                    /\ j.ext = posts[j.id].ext}
           IN  Becomes(r, [req[r] EXCEPT !.jobs = jobs,
                             !.pc = IF jobs = {} THEN "reply" ELSE "open"])
    /\ UNCHANGED <<posts, allocated, files, uploaded, acked, broken, unclean>>

WarmFails(r) ==
    /\ At(r, "warm")
    /\ Finish(r, "error")
    /\ UNCHANGED <<posts, allocated, files, uploaded, acked, broken, unclean>>

-----------------------------------------------------------------------------
(***************************************************************************)
(* writeImageCache: mkdir, then writeFile, which opens the file and cuts   *)
(* it to nothing, writes in as many calls as it takes, and closes it.      *)
(***************************************************************************)
OpenFile(r) ==
    /\ At(r, "open")
    /\ \E j \in req[r].jobs :
        /\ files' = [files EXCEPT ![j.id] =
                        [img |-> j.img, ext |-> j.ext, whole |-> FALSE,
                         late |-> posts[j.id] = None]]
        /\ req' = [x \in Reqs |->
                      IF x = r THEN [req[x] EXCEPT !.pc = "write", !.job = j,
                                       !.jobs = @ \ {j}, !.hold = "all"]
                      ELSE IF /\ At(x, "write")
                              /\ req[x].job.id = j.id
                              /\ req[x].hold = "all"
                           THEN [req[x] EXCEPT !.hold = "cut"]
                      ELSE req[x]]
    /\ UNCHANGED <<posts, allocated, uploaded, acked, broken, unclean>>

\* A file that cannot be created is not cached.
NextJob(q) == [q EXCEPT !.pc = IF q.jobs = {} THEN "reply" ELSE "open", !.job = None]

OpenFails(r) ==
    /\ At(r, "open")
    /\ \E j \in req[r].jobs : Becomes(r, NextJob([req[r] EXCEPT !.jobs = @ \ {j}]))
    /\ UNCHANGED <<posts, allocated, files, uploaded, acked, broken, unclean>>

\* All of the image is written.  If another writer cut the file meanwhile,
\* what was written before that is missing until the other one ends.
ShortWrite(q) == {files[q.job.id]}              \* mutant of Written
Written(q) ==
    LET f == files[q.job.id]
    IN  CASE q.hold = "all" -> {[f EXCEPT !.whole = TRUE]}
          [] q.hold = "cut" -> {f, [f EXCEPT !.whole = TRUE]}
          [] q.hold = "gone" -> {f}

CloseFile(r) ==
    /\ At(r, "write")
    /\ \E f \in Written(req[r]) : files' = [files EXCEPT ![req[r].job.id] = f]
    /\ Becomes(r, NextJob(req[r]))
    /\ UNCHANGED <<posts, allocated, uploaded, acked, broken, unclean>>

\* A full disk: the error is logged, what was written stays.
WriteFails(r) ==
    /\ At(r, "write")
    /\ broken' = broken \cup {req[r].job.id}
    /\ Becomes(r, NextJob(req[r]))
    /\ UNCHANGED <<posts, allocated, files, uploaded, acked, unclean>>

Reply(r) ==
    /\ At(r, "reply")
    /\ acked' = acked \cup ({req[r].id} \cap {i \in Ids : posts[i] # None})
    /\ Becomes(r, Idle)
    /\ UNCHANGED <<posts, allocated, files, uploaded, broken, unclean>>

\* The process dies and is started again: the table and the files remain.
Crash ==
    /\ \E r \in Reqs : req[r].pc \in {"clear", "write"}
    /\ broken' = broken \cup {i \in Ids : \E r \in Reqs :
                                 At(r, "write") /\ req[r].job.id = i}
    /\ unclean' = (unclean \/ \E r \in Reqs : At(r, "clear"))
    /\ req' = [r \in Reqs |-> Idle]
    /\ UNCHANGED <<posts, allocated, files, uploaded, acked>>

Client ==
    \E r \in Reqs :
        \/ \E id \in Ids, ext \in Exts : GetImage(r, id, ext)
        \/ PostImage(r)
        \/ Initialize(r)

Server ==
    \/ \E r \in Reqs :
        \/ ReadFile(r) \/ ReadFileFails(r) \/ SelectPost(r) \/ InsertPost(r) \/ StatementFails(r)
        \/ DeletePosts(r) \/ DeleteFails(r) \/ StrayDelete(r)
        \/ ClearImageCache(r) \/ ClearFails(r)
        \/ WarmImageCache(r) \/ WarmFails(r)
        \/ OpenFile(r) \/ OpenFails(r) \/ CloseFile(r) \/ WriteFails(r)
        \/ Reply(r)
    \/ Crash

Next == Client \/ Server

Spec == Init /\ [][Next]_vars

-----------------------------------------------------------------------------
Answered(q) == q.pc = "reply" /\ q.answer # None

\* What is answered for an id was uploaded under that id, although files
\* outlive their rows and only the id connects the two; and it is all of it,
\* unless the file was being written when it was read or a write of it failed
\* or died.  (The benchmarker compares an answer with the upload, whole.)
ServedIsUploaded ==
    \A r \in Reqs : Answered(req[r]) =>
        LET q == req[r] IN
        /\ uploaded[q.id] = [img |-> q.answer.img, ext |-> q.answer.ext]
        /\ q.answer.whole \/ q.answer.writing \/ q.id \in broken

\* A file is cut short only while the writer that cut it is still writing, or
\* after a write that failed or died with the process: writers of one file
\* that overlap, or that /initialize takes the file from, leave no such file.
TornOnlyWhileWritten ==
    \A i \in Ids : files[i] # None /\ ~files[i].whole => i \in broken \/ Writing(i)

\* The file of a deleted post is there only until the /initialize that deleted
\* it clears the directory, unless the clear failed or a request that held the
\* image from before wrote it anew.
DeletedOnlyByRace ==
    \A i \in Ids : files[i] # None /\ posts[i] = None =>
        \/ files[i].late
        \/ unclean
        \/ \E r \in Reqs : At(r, "clear")

\* An image whose upload was answered before it was asked for is never "not
\* found" while its row is there, whatever happens to its file.
UploadsServed ==
    \A r \in Reqs : req[r].must /\ At(r, "reply") => req[r].status # "notFound"
=============================================================================
