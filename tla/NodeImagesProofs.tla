-------------------------- MODULE NodeImagesProofs --------------------------
(***************************************************************************)
(* Proofs about NodeImages, for any ids, images, extensions, limit and     *)
(* number of requests in flight: everything that is read, written or       *)
(* answered for an id agrees with what was uploaded under it.              *)
(***************************************************************************)
EXTENDS NodeImages, TLAPS

\* Under id, img was uploaded with the mime type of ext.
UploadedAs(id, img, ext) ==
    id \in allocated /\ uploaded[id] = [img |-> img, ext |-> ext]

RowsInv == \A i \in Ids : posts[i] # None => i \in allocated /\ uploaded[i] = posts[i]

FilesInv == \A i \in Ids : files[i] # None => UploadedAs(i, files[i].img, files[i].ext)

\* The answer is all of the image, or its file was torn when it was read.
Whole(id, a) == a.whole \/ a.writing \/ id \in broken

\* What a request holds was uploaded under the id it is held for; who writes a
\* file that was not deleted finds it; and the row of an image that must be
\* served is there.
RequestInv(q) ==
    /\ q.pc \in {"read", "select"} => q.id \in Ids /\ q.ext \in Exts
    /\ q.pc = "insert" => q.answer = None
    /\ q.pc \in {"insert", "delete", "stray"} => ~q.must
    /\ \A j \in q.jobs : UploadedAs(j.id, j.img, j.ext)
    /\ q.pc = "write" =>
        /\ q.job \in Job
        /\ UploadedAs(q.job.id, q.job.img, q.job.ext)
        /\ q.hold # "gone" => files[q.job.id] # None
    /\ q.answer # None =>
        /\ q.id \in Ids
        /\ UploadedAs(q.id, q.answer.img, q.answer.ext)
        /\ Whole(q.id, q.answer)
    /\ q.must =>
        /\ q.id \in Ids
        /\ posts[q.id] # None
        /\ posts[q.id].ext = q.ext
        /\ q.status # "notFound"

IInv ==
    /\ TypeOK
    /\ RowsInv
    /\ FilesInv
    /\ \A r \in Reqs : RequestInv(req[r])
    /\ TornOnlyWhileWritten
    /\ DeletedOnlyByRace

-----------------------------------------------------------------------------
\* None is none of the values that may be missing; the records by their fields.
LEMMA Distinct ==
    /\ \A i \in Ids : i # None
    /\ \A i \in Imgs : i # None
    /\ \A i \in Exts : i # None
    /\ None \notin Seed
  BY NoneAssumption, SeedAssumption

\* Who writes no file needs nothing of the files, and whoever only reads rows
\* nothing that an INSERT or a later answer takes away.
LEMMA LocalStep ==
  ASSUME IInv,
         NEW r \in Reqs, NEW q \in Request,
         req' = [req EXCEPT ![r] = q],
         RequestInv(q),
         req[r].pc \notin {"write", "clear"},
         acked' \subseteq allocated,
         UNCHANGED <<posts, allocated, files, uploaded, broken, unclean>>
  PROVE  IInv'
<1> USE DEF IInv, TypeOK
<1>1. /\ req'[r] = q
      /\ \A x \in Reqs \ {r} : req'[x] = req[x]
      /\ req' \in [Reqs -> Request]
  OBVIOUS
<1>2. TypeOK'
  BY <1>1
<1>3. RowsInv' /\ FilesInv'
  BY DEF RowsInv, FilesInv, UploadedAs, Whole
<1>4. ASSUME NEW x \in Reqs PROVE RequestInv(req[x])'
  <2>1. RequestInv(req'[x])
    BY <1>1
  <2>2. QED
    BY <2>1 DEF RequestInv, UploadedAs, Whole
<1>5. TornOnlyWhileWritten'
  BY <1>1 DEF TornOnlyWhileWritten, Writing, At
<1>6. DeletedOnlyByRace'
  BY <1>1 DEF DeletedOnlyByRace, At
<1>7. QED
  BY <1>2, <1>3, <1>4, <1>5, <1>6

\* A request that holds nothing yet.
LEMMA IdleFacts ==
  /\ Idle \in Request
  /\ RequestInv(Idle)
BY DEF Idle, Request, RequestInv

\* The requests sent.
LEMMA ClientStep ==
  ASSUME IInv, Client PROVE IInv'
<1> USE DEF IInv, TypeOK
<1> PICK r \in Reqs : \/ \E id \in Ids, ext \in Exts : GetImage(r, id, ext)
                      \/ PostImage(r)
                      \/ Initialize(r)
  BY DEF Client
<1>0. acked \subseteq allocated
  OBVIOUS
<1>1. CASE \E id \in Ids, ext \in Exts : GetImage(r, id, ext)
  <2> PICK id \in Ids, ext \in Exts : GetImage(r, id, ext)
    BY <1>1
  <2>1. PICK must \in BOOLEAN :
            must = (id \in acked /\ posts[id] # None /\ posts[id].ext = ext)
    OBVIOUS
  <2> DEFINE q == [Idle EXCEPT !.pc = "read", !.id = id, !.ext = ext, !.must = must]
  <2>2. req' = [req EXCEPT ![r] = q]
    BY <2>1 DEF GetImage, Becomes
  <2>3. q \in Request
    BY IdleFacts DEF Request, Idle
  <2>4. RequestInv(q)
    BY <2>1 DEF RequestInv, Idle
  <2>5. req[r].pc = "idle" /\ UNCHANGED <<posts, allocated, files, uploaded, acked, broken, unclean>>
    BY DEF GetImage, At
  <2> HIDE DEF q, IInv, TypeOK
  <2>6. QED
    BY <1>0, <2>2, <2>3, <2>4, <2>5, LocalStep
<1>2. CASE PostImage(r)
  <2> DEFINE q == [Idle EXCEPT !.pc = "insert"]
  <2>1. q \in Request /\ RequestInv(q)
    BY IdleFacts DEF Request, Idle, RequestInv
  <2>2. /\ req' = [req EXCEPT ![r] = q]
        /\ req[r].pc = "idle"
        /\ UNCHANGED <<posts, allocated, files, uploaded, acked, broken, unclean>>
    BY <1>2 DEF PostImage, At, Becomes
  <2> HIDE DEF q, IInv, TypeOK
  <2>3. QED
    BY <1>0, <2>1, <2>2, LocalStep
<1>3. CASE Initialize(r)
  <2> DEFINE q == [Idle EXCEPT !.pc = "delete"]
  <2>1. q \in Request /\ RequestInv(q)
    BY IdleFacts DEF Request, Idle, RequestInv
  <2>2. /\ req' = [req EXCEPT ![r] = q]
        /\ req[r].pc = "idle"
        /\ UNCHANGED <<posts, allocated, files, uploaded, acked, broken, unclean>>
    BY <1>3 DEF Initialize, At, Becomes
  <2> HIDE DEF q, IInv, TypeOK
  <2>3. QED
    BY <1>0, <2>1, <2>2, LocalStep
<1>4. QED
  BY <1>1, <1>2, <1>3

\* Reading the file: what is in it was uploaded under its name.
LEMMA ReadStep ==
  ASSUME IInv, NEW r \in Reqs, ReadFile(r) PROVE IInv'
<1> USE DEF IInv, TypeOK
<1>0. PICK w \in BOOLEAN : w = Writing(req[r].id)
  <2>1. Writing(req[r].id) \in BOOLEAN
    BY DEF Writing
  <2>2. QED
    BY <2>1
<1> DEFINE f == files[req[r].id]
           a == [img |-> f.img, ext |-> f.ext, whole |-> f.whole, writing |-> w]
           q == [req[r] EXCEPT !.pc = "reply", !.answer = a]
<1>1. req[r] \in Request /\ RequestInv(req[r]) /\ req[r].pc = "read" /\ acked \subseteq allocated
  BY DEF ReadFile, At
<1>2. req[r].id \in Ids /\ f # None
  BY <1>1 DEF RequestInv, ReadFile, FileThere
<1>3. f \in File /\ UploadedAs(req[r].id, f.img, f.ext)
  BY <1>2 DEF FilesInv
<1>4. a \in Answer /\ a.img = f.img /\ a.ext = f.ext /\ a.whole = f.whole /\ a.writing = w
  BY <1>0, <1>3 DEF Answer, File
<1>5. req' = [req EXCEPT ![r] = q]
  BY <1>0 DEF ReadFile, Becomes
<1>5a. f.whole \/ req[r].id \in broken \/ Writing(req[r].id)
  BY <1>2 DEF TornOnlyWhileWritten
<1>5b. Whole(req[r].id, a)
  BY <1>0, <1>4, <1>5a DEF Whole
<1>6. UNCHANGED <<posts, allocated, files, uploaded, acked, broken, unclean>>
  BY DEF ReadFile
<1> HIDE DEF f, a, IInv, TypeOK
<1>7. q \in Request
  BY <1>1, <1>4 DEF Request
<1>8. /\ q.pc = "reply" /\ q.answer = a /\ q.id = req[r].id /\ q.ext = req[r].ext
      /\ q.jobs = req[r].jobs /\ q.job = req[r].job /\ q.status = req[r].status
      /\ q.must = req[r].must
  BY <1>1 DEF Request
<1>9. RequestInv(q)
  BY <1>1, <1>2, <1>3, <1>4, <1>5b, <1>8 DEF RequestInv
<1> HIDE DEF q
<1>10. QED
  BY <1>1, <1>5, <1>6, <1>7, <1>9, LocalStep

\* The row's imgdata, for the file and for the answer; an image that must be
\* served has a row to match.
LEMMA SelectStep ==
  ASSUME IInv, NEW r \in Reqs, SelectPost(r) PROVE IInv'
<1> USE DEF IInv, TypeOK
<1> DEFINE row == posts[req[r].id]
           j == [id |-> req[r].id, img |-> row.img, ext |-> row.ext]
           a == [img |-> row.img, ext |-> row.ext, whole |-> TRUE, writing |-> FALSE]
<1>1. req[r] \in Request /\ RequestInv(req[r]) /\ req[r].pc = "select" /\ acked \subseteq allocated
  BY DEF SelectPost, At
<1>2. req[r].id \in Ids /\ req[r].ext \in Exts
  BY <1>1 DEF RequestInv
<1>3. UNCHANGED <<posts, allocated, files, uploaded, acked, broken, unclean>>
  BY DEF SelectPost
<1>4. CASE Matches(req[r])
  <2> DEFINE q == [req[r] EXCEPT !.pc = "open", !.jobs = {j}, !.answer = a]
  <2>1. req' = [req EXCEPT ![r] = q]
    BY <1>4 DEF SelectPost, Becomes
  <2>2. row \in Image /\ row # None /\ row.ext \in Exts
    BY <1>2, <1>4 DEF Matches
  <2>3. uploaded[req[r].id] = row /\ req[r].id \in allocated
    BY <1>2, <2>2 DEF RowsInv
  <2>4. row = [img |-> row.img, ext |-> row.ext]
    BY <2>2 DEF Image
  <2>5. UploadedAs(req[r].id, row.img, row.ext)
    BY <2>3, <2>4 DEF UploadedAs, Whole
  <2>6. j \in Job /\ a \in Answer
    BY <1>2, <2>2 DEF Job, Answer, Image
  <2>7. /\ j.id = req[r].id /\ j.img = row.img /\ j.ext = row.ext
        /\ a.img = row.img /\ a.ext = row.ext /\ Whole(req[r].id, a)
    BY DEF Whole
  <2> HIDE DEF row, j, a, IInv, TypeOK
  <2>8. q \in Request
    BY <1>1, <2>6 DEF Request
  <2>9. /\ q.pc = "open" /\ q.answer = a /\ q.id = req[r].id /\ q.ext = req[r].ext
        /\ q.jobs = {j} /\ q.status = req[r].status /\ q.must = req[r].must
    BY <1>1 DEF Request
  <2>10. RequestInv(q)
    BY <1>1, <1>2, <2>5, <2>7, <2>9 DEF RequestInv
  <2> HIDE DEF q
  <2>11. QED
    BY <1>1, <1>3, <2>1, <2>8, <2>10, LocalStep
<1>5. CASE ~Matches(req[r])
  <2> DEFINE q == [req[r] EXCEPT !.pc = "reply", !.status = "notFound"]
  <2>1. req' = [req EXCEPT ![r] = q]
    BY <1>5 DEF SelectPost, Becomes, Finish
  <2>2. ~req[r].must
    BY <1>1, <1>5 DEF RequestInv, Matches
  <2> HIDE DEF IInv, TypeOK
  <2>3. q \in Request
    BY <1>1 DEF Request
  <2>4. /\ q.pc = "reply" /\ q.answer = req[r].answer /\ q.id = req[r].id
        /\ q.jobs = req[r].jobs /\ q.must = req[r].must
    BY <1>1 DEF Request
  <2>5. RequestInv(q)
    BY <1>1, <1>2, <2>2, <2>4 DEF RequestInv
  <2> HIDE DEF q
  <2>6. QED
    BY <1>1, <1>3, <2>1, <2>3, <2>5, LocalStep
<1>6. QED
  BY <1>4, <1>5

\* A request that only goes to another step, with the error it answers or
\* without a file it does not write.
LEMMA PcStep ==
  ASSUME IInv,
         NEW r \in Reqs, NEW q \in Request,
         req' = [req EXCEPT ![r] = q],
         q.pc \in {"select", "stray", "open", "reply"},
         q.pc = "select" => req[r].pc = "read",
         q.pc = "stray" => req[r].pc = "delete",
         q.id = req[r].id, q.ext = req[r].ext, q.answer = req[r].answer,
         q.must = req[r].must,
         q.jobs \subseteq req[r].jobs,
         q.status \in {"error", req[r].status},
         req[r].pc \notin {"write", "clear"},
         UNCHANGED <<posts, allocated, files, uploaded, acked, broken, unclean>>
  PROVE  IInv'
<1>1. RequestInv(req[r]) /\ acked \subseteq allocated
  BY DEF IInv, TypeOK
<1>2. RequestInv(q)
  BY <1>1 DEF RequestInv
<1>3. QED
  BY <1>1, <1>2, LocalStep

\* What is left of a request when it is done with a file.
LEMMA NextJobFields ==
  ASSUME NEW p \in Request
  PROVE  /\ NextJob(p) \in Request
         /\ NextJob(p).pc \in {"open", "reply"}
         /\ NextJob(p).jobs = p.jobs
         /\ NextJob(p).id = p.id
         /\ NextJob(p).ext = p.ext
         /\ NextJob(p).answer = p.answer
         /\ NextJob(p).status = p.status
         /\ NextJob(p).must = p.must
<1> PICK pc \in {"open", "reply"} : pc = (IF p.jobs = {} THEN "reply" ELSE "open")
  OBVIOUS
<1>1. NextJob(p) = [p EXCEPT !.pc = pc, !.job = None]
  BY DEF NextJob
<1>2. QED
  BY <1>1 DEF Request

\* The steps that fail or find nothing to do.
LEMMA FailStep ==
  ASSUME IInv, NEW r \in Reqs,
         ReadFileFails(r) \/ StatementFails(r) \/ DeleteFails(r) \/ WarmFails(r) \/ OpenFails(r)
  PROVE  IInv'
<1>1. req[r] \in Request
  BY DEF IInv, TypeOK
<1>2. CASE ReadFileFails(r)
  <2> DEFINE q == [req[r] EXCEPT !.pc = "select"]
  <2>1. req' = [req EXCEPT ![r] = q] /\ req[r].pc = "read"
        /\ UNCHANGED <<posts, allocated, files, uploaded, acked, broken, unclean>>
    BY <1>2 DEF ReadFileFails, CacheMiss, Becomes, At
  <2>2. q \in Request /\ q.pc = "select" /\ q.status = req[r].status /\ q.jobs = req[r].jobs
        /\ q.id = req[r].id /\ q.ext = req[r].ext /\ q.answer = req[r].answer /\ q.must = req[r].must
    BY <1>1 DEF Request
  <2> HIDE DEF q
  <2>3. QED
    BY <2>1, <2>2, PcStep
<1>3. CASE StatementFails(r) \/ WarmFails(r) \/ (DeleteFails(r) /\ Finish(r, "error"))
  <2> DEFINE q == [req[r] EXCEPT !.pc = "reply", !.status = "error"]
  <2>1. req' = [req EXCEPT ![r] = q] /\ req[r].pc \notin {"write", "clear"}
        /\ UNCHANGED <<posts, allocated, files, uploaded, acked, broken, unclean>>
    BY <1>3 DEF StatementFails, WarmFails, DeleteFails, Finish, Becomes, At
  <2>2. q \in Request /\ q.pc = "reply" /\ q.status = "error" /\ q.jobs = req[r].jobs
        /\ q.id = req[r].id /\ q.ext = req[r].ext /\ q.answer = req[r].answer /\ q.must = req[r].must
    BY <1>1 DEF Request
  <2> HIDE DEF q
  <2>3. QED
    BY <2>1, <2>2, PcStep
<1>4. CASE DeleteFails(r) /\ ~Finish(r, "error")
  <2> DEFINE q == [req[r] EXCEPT !.pc = "stray", !.status = "error"]
  <2>1. req' = [req EXCEPT ![r] = q] /\ req[r].pc = "delete"
        /\ UNCHANGED <<posts, allocated, files, uploaded, acked, broken, unclean>>
    BY <1>4 DEF DeleteFails, Becomes, At
  <2>2. q \in Request /\ q.pc = "stray" /\ q.status = "error" /\ q.jobs = req[r].jobs
        /\ q.id = req[r].id /\ q.ext = req[r].ext /\ q.answer = req[r].answer /\ q.must = req[r].must
    BY <1>1 DEF Request
  <2> HIDE DEF q
  <2>3. QED
    BY <2>1, <2>2, PcStep
<1>5. CASE OpenFails(r)
  <2>1. PICK j \in req[r].jobs : Becomes(r, NextJob([req[r] EXCEPT !.jobs = @ \ {j}]))
    BY <1>5 DEF OpenFails
  <2> DEFINE p == [req[r] EXCEPT !.jobs = req[r].jobs \ {j}]
             q == NextJob(p)
  <2>2. req' = [req EXCEPT ![r] = q] /\ req[r].pc = "open"
        /\ UNCHANGED <<posts, allocated, files, uploaded, acked, broken, unclean>>
    BY <1>5, <2>1 DEF OpenFails, Becomes, At
  <2>3. p \in Request /\ p.status = req[r].status /\ p.jobs \subseteq req[r].jobs
        /\ p.id = req[r].id /\ p.ext = req[r].ext /\ p.answer = req[r].answer /\ p.must = req[r].must
    BY <1>1 DEF Request
  <2> HIDE DEF p
  <2>4. q \in Request /\ q.pc \in {"open", "reply"} /\ q.status = p.status /\ q.jobs = p.jobs
        /\ q.id = p.id /\ q.ext = p.ext /\ q.answer = p.answer /\ q.must = p.must
    BY <2>3, NextJobFields
  <2> HIDE DEF q
  <2>5. QED
    BY <2>2, <2>3, <2>4, PcStep
<1>6. QED
  BY <1>2, <1>3, <1>4, <1>5

\* The images of the newest rows.
LEMMA WarmStep ==
  ASSUME IInv, NEW r \in Reqs, WarmImageCache(r) PROVE IInv'
<1> USE DEF IInv, TypeOK
<1>1. req[r] \in Request /\ RequestInv(req[r]) /\ req[r].pc = "warm" /\ acked \subseteq allocated
  BY DEF WarmImageCache, At
<1>2. PICK newest \in SUBSET Rows :
        LET jobs == {j \in Job : /\ j.id \in newest
                                 /\ j.img = posts[j.id].img
                                 /\ j.ext = posts[j.id].ext}
        IN  Becomes(r, [req[r] EXCEPT !.jobs = jobs,
                          !.pc = IF jobs = {} THEN "reply" ELSE "open"])
  BY DEF WarmImageCache
<1> DEFINE jobs == {j \in Job : /\ j.id \in newest
                                /\ j.img = posts[j.id].img
                                /\ j.ext = posts[j.id].ext}
<1>3. PICK pc \in {"reply", "open"} : pc = (IF jobs = {} THEN "reply" ELSE "open")
  OBVIOUS
<1> DEFINE q == [req[r] EXCEPT !.jobs = jobs, !.pc = pc]
<1>4. req' = [req EXCEPT ![r] = q]
  BY <1>2, <1>3 DEF Becomes
<1>5. ASSUME NEW j \in jobs PROVE UploadedAs(j.id, j.img, j.ext)
  <2>1. j \in Job /\ j.id \in Ids /\ posts[j.id] # None /\ posts[j.id] \in Image
        /\ j.img = posts[j.id].img /\ j.ext = posts[j.id].ext
    BY DEF Rows, Job
  <2>2. posts[j.id] = [img |-> j.img, ext |-> j.ext]
    BY <2>1 DEF Image
  <2>3. QED
    BY <2>1, <2>2 DEF RowsInv, UploadedAs, Whole
<1>6. jobs \in SUBSET Job
  OBVIOUS
<1>7. UNCHANGED <<posts, allocated, files, uploaded, acked, broken, unclean>>
  BY DEF WarmImageCache
<1> HIDE DEF jobs, IInv, TypeOK
<1>8. q \in Request
  BY <1>1, <1>6 DEF Request
<1>9. /\ q.pc = pc /\ q.answer = req[r].answer /\ q.id = req[r].id /\ q.ext = req[r].ext
      /\ q.jobs = jobs /\ q.must = req[r].must /\ q.status = req[r].status
  BY <1>1 DEF Request
<1>10. RequestInv(q)
  BY <1>1, <1>5, <1>9 DEF RequestInv
<1> HIDE DEF q
<1>11. QED
  BY <1>1, <1>4, <1>7, <1>8, <1>10, LocalStep

\* An answer: its id is acknowledged if there is a row to find.
LEMMA ReplyStep ==
  ASSUME IInv, NEW r \in Reqs, Reply(r) PROVE IInv'
<1>1. req' = [req EXCEPT ![r] = Idle] /\ req[r].pc = "reply"
      /\ UNCHANGED <<posts, allocated, files, uploaded, broken, unclean>>
  BY DEF Reply, At, Becomes
<1>2. acked' \subseteq allocated
  BY DEF Reply, IInv, TypeOK, RowsInv
<1>3. QED
  BY <1>1, <1>2, IdleFacts, LocalStep

\* An upload takes an id that nothing was uploaded under.
LEMMA InsertStep ==
  ASSUME IInv, NEW r \in Reqs, InsertPost(r) PROVE IInv'
<1> USE DEF IInv, TypeOK
<1>1. PICK i \in FreshIds, image \in Image :
        /\ posts' = [posts EXCEPT ![i] = image]
        /\ uploaded' = [uploaded EXCEPT ![i] = image]
        /\ allocated' = allocated \cup {i}
        /\ Becomes(r, [req[r] EXCEPT !.pc = IF image.ext = None THEN "reply" ELSE "open",
                         !.id = i,
                         !.jobs = {j \in Job : /\ j.id = i
                                               /\ j.img = image.img
                                               /\ j.ext = image.ext}])
  BY DEF InsertPost
<1>2. UNCHANGED <<files, acked, broken, unclean>>
  BY DEF InsertPost
<1>3. i \in Ids /\ i \notin allocated
  BY DEF FreshIds
<1>4. req[r] \in Request /\ RequestInv(req[r]) /\ req[r].pc = "insert"
  BY DEF InsertPost, At
<1> DEFINE jobs == {j \in Job : j.id = i /\ j.img = image.img /\ j.ext = image.ext}
<1>5. PICK pc \in {"reply", "open"} : pc = (IF image.ext = None THEN "reply" ELSE "open")
  OBVIOUS
<1>6. jobs \in SUBSET Job
  OBVIOUS
<1>7. image = [img |-> image.img, ext |-> image.ext]
  BY DEF Image
<1>8. ASSUME NEW j \in jobs PROVE UploadedAs(j.id, j.img, j.ext)'
  BY <1>1, <1>3, <1>7 DEF UploadedAs, Whole
<1>9. ASSUME NEW id, NEW img, NEW ext, id \in Ids, UploadedAs(id, img, ext)
       PROVE  UploadedAs(id, img, ext)'
  BY <1>1, <1>3, <1>9 DEF UploadedAs, Whole
<1>10. image # None
  BY RecordAssumption
<1>11. \A k \in Ids : posts[k] # None => posts'[k] = posts[k]
  BY <1>1, <1>3
<1> HIDE DEF jobs
<1>12. [req[r] EXCEPT !.pc = pc, !.id = i, !.jobs = jobs] \in Request
  BY <1>3, <1>4, <1>6 DEF Request
<1>13. PICK q \in Request : q = [req[r] EXCEPT !.pc = pc, !.id = i, !.jobs = jobs]
  BY <1>12
<1>14. /\ q.pc = pc /\ q.answer = req[r].answer /\ q.id = i
       /\ q.jobs = jobs /\ q.must = req[r].must /\ q.status = req[r].status
  BY <1>4, <1>13 DEF Request
<1>15. RequestInv(q)'
  <2>1. q.answer = None /\ ~q.must
    BY <1>4, <1>14 DEF RequestInv
  <2>2. \A j \in q.jobs : UploadedAs(j.id, j.img, j.ext)'
    BY <1>8, <1>14
  <2>3. q.pc \in {"reply", "open"}
    BY <1>14
  <2>4. QED
    BY <2>1, <2>2, <2>3 DEF RequestInv, UploadedAs, Whole
<1>16. /\ req'[r] = q
       /\ \A x \in Reqs \ {r} : req'[x] = req[x]
       /\ req' \in [Reqs -> Request]
  BY <1>1, <1>5, <1>13 DEF Becomes, jobs
<1>17. TypeOK'
  <2>1. posts' \in [Ids -> Image \cup {None}] /\ uploaded' \in [Ids -> Image \cup {None}]
    BY <1>1
  <2>2. allocated' \in SUBSET Ids /\ acked' \subseteq allocated'
    BY <1>1, <1>2, <1>3
  <2>3. \A k \in Ids \ allocated' : posts'[k] = None /\ files'[k] = None
    BY <1>1, <1>2, <1>3
  <2>4. QED
    BY <2>1, <2>2, <2>3, <1>2, <1>16
<1>18. RowsInv'
  BY <1>1, <1>3, <1>10 DEF RowsInv
<1>19. FilesInv'
  <2> SUFFICES ASSUME NEW k \in Ids, files[k] # None
               PROVE  UploadedAs(k, files[k].img, files[k].ext)'
    BY <1>2 DEF FilesInv, UploadedAs, Whole
  <2>1. UploadedAs(k, files[k].img, files[k].ext)
    BY DEF FilesInv
  <2>2. QED
    BY <2>1, <1>2, <1>9 DEF UploadedAs, Whole
<1>20. ASSUME NEW x \in Reqs PROVE RequestInv(req[x])'
  <2>1. CASE x = r
    BY <2>1, <1>15, <1>16 DEF RequestInv, UploadedAs, Whole
  <2>2. CASE x # r
    <3> PICK p \in Request : p = req[x]
      OBVIOUS
    <3>1. req'[x] = p /\ RequestInv(p)
      BY <2>2, <1>16
    <3>2. \A j \in p.jobs : j.id \in Ids /\ UploadedAs(j.id, j.img, j.ext)'
      BY <3>1, <1>9 DEF RequestInv, Request, Job
    <3>3. p.pc = "write" =>
            /\ p.job \in Job
            /\ UploadedAs(p.job.id, p.job.img, p.job.ext)'
            /\ p.hold # "gone" => files'[p.job.id] # None
      BY <3>1, <1>2, <1>9 DEF RequestInv, Job
    <3>4. p.answer # None =>
            p.id \in Ids /\ UploadedAs(p.id, p.answer.img, p.answer.ext)'
            /\ Whole(p.id, p.answer)'
      BY <3>1, <1>2, <1>9 DEF RequestInv, Whole
    <3>5. p.must => p.id \in Ids /\ posts'[p.id] # None /\ posts'[p.id].ext = p.ext
                    /\ p.status # "notFound"
      BY <3>1, <1>11 DEF RequestInv
    <3>6. RequestInv(p)'
      BY <3>1, <3>2, <3>3, <3>4, <3>5 DEF RequestInv, UploadedAs, Whole
    <3>7. QED
      BY <3>1, <3>6 DEF RequestInv, UploadedAs, Whole
  <2>3. QED
    BY <2>1, <2>2
<1>21. TornOnlyWhileWritten'
  <2>1. req[r].pc # "write"
    BY <1>4
  <2>2. QED
    BY <2>1, <1>2, <1>16 DEF TornOnlyWhileWritten, Writing, At
<1>22. DeletedOnlyByRace'
  BY <1>2, <1>4, <1>11, <1>16 DEF DeletedOnlyByRace, At
<1>23. QED
  BY <1>17, <1>18, <1>19, <1>20, <1>21, <1>22

\* What a step may do to a request without disturbing what is known of it:
\* answer less (must), or find its file deleted or cut.
LEMMA RequestMoves ==
  ASSUME NEW p \in Request, RequestInv(p),
         NEW q \in Request,
         q.id = p.id, q.ext = p.ext, q.jobs = p.jobs, q.job = p.job,
         q.answer = p.answer, q.status = p.status,
         q.pc \in {p.pc, "clear", "reply", "warm"},
         q.must => p.must,
         q.must => posts'[p.id] = posts[p.id],
         p.pc = "write" /\ q.pc = "write" /\ q.hold # "gone" =>
             p.hold # "gone" /\ (files[p.job.id] # None => files'[p.job.id] # None),
         UNCHANGED <<allocated, uploaded, broken>>
  PROVE  RequestInv(q)'
BY DEF RequestInv, UploadedAs, Whole

\* The rows go, and with them the promise to answer with their images; the
\* files are to be cleared by this request, or left.
LEMMA DeleteStep ==
  ASSUME IInv, NEW r \in Reqs, DeletePosts(r) \/ StrayDelete(r) PROVE IInv'
<1> USE DEF IInv, TypeOK
<1>1. PICK pc \in {"clear", "reply"} :
        /\ DeleteRows(r, pc)
        /\ \/ pc = "clear" /\ unclean' = unclean
           \/ unclean' = TRUE
  BY DEF DeletePosts, StrayDelete, AfterDelete
<1>2. req[r].pc \in {"delete", "stray"}
  BY DEF DeletePosts, StrayDelete, At
<1>3. /\ posts' = [i \in Ids |-> IF i \in Seed THEN posts[i] ELSE None]
      /\ UNCHANGED <<allocated, files, uploaded, acked, broken>>
  BY <1>1 DEF DeleteRows
<1>4. ASSUME NEW x \in Reqs
      PROVE  /\ req'[x] \in Request
             /\ RequestInv(req[x])'
             /\ x # r => req'[x].pc = req[x].pc /\ req'[x].job = req[x].job
                         /\ req'[x].hold = req[x].hold
             /\ x = r => req'[x].pc = pc
  <2> PICK p \in Request : p = req[x]
    OBVIOUS
  <2>1. req'[x] = IF x = r THEN [p EXCEPT !.pc = pc]
                  ELSE IF p.id \in Seed THEN p
                  ELSE [p EXCEPT !.must = FALSE]
    BY <1>1 DEF DeleteRows
  <2>2. RequestInv(p)
    OBVIOUS
  <2>3. p.id \in Seed => p.id \in Ids /\ posts'[p.id] = posts[p.id]
    BY <1>3, SeedAssumption
  <2>4. CASE x = r
    <3> PICK q : q = [p EXCEPT !.pc = pc]
      OBVIOUS
    <3>1. q \in Request /\ q.id = p.id /\ q.ext = p.ext /\ q.jobs = p.jobs /\ q.job = p.job
          /\ q.answer = p.answer /\ q.status = p.status /\ q.pc = pc /\ q.must = p.must
      BY DEF Request
    <3>2. ~p.must
      BY <2>2, <2>4, <1>2 DEF RequestInv
    <3>3. RequestInv(q)'
      BY <2>2, <3>1, <3>2, <1>3, RequestMoves
    <3>4. req'[x] = q
      BY <2>1, <2>4
    <3>5. QED
      BY <2>4, <3>1, <3>3, <3>4 DEF RequestInv, UploadedAs, Whole
  <2>5. CASE x # r /\ p.id \in Seed
    <3>1. RequestInv(p)'
      BY <2>2, <2>3, <2>5, <1>3, RequestMoves
    <3>2. req'[x] = p
      BY <2>1, <2>5
    <3>3. QED
      BY <2>5, <3>1, <3>2 DEF RequestInv, UploadedAs, Whole
  <2>6. CASE x # r /\ p.id \notin Seed
    <3> PICK q : q = [p EXCEPT !.must = FALSE]
      OBVIOUS
    <3>1. q \in Request /\ q.id = p.id /\ q.ext = p.ext /\ q.jobs = p.jobs /\ q.job = p.job
          /\ q.answer = p.answer /\ q.status = p.status /\ q.pc = p.pc /\ ~q.must
          /\ q.hold = p.hold
      BY DEF Request
    <3>2. RequestInv(q)'
      BY <2>2, <3>1, <1>3, RequestMoves
    <3>3. req'[x] = q
      BY <2>1, <2>6
    <3>4. QED
      BY <2>6, <3>1, <3>2, <3>3 DEF RequestInv, UploadedAs, Whole
  <2>7. QED
    BY <2>4, <2>5, <2>6
<1>5. req' \in [Reqs -> Request]
  <2>1. req' = [x \in Reqs |-> req'[x]]
    BY <1>1 DEF DeleteRows
  <2>2. QED
    BY <1>4, <2>1
<1>6. TypeOK'
  BY <1>1, <1>3, <1>5
<1>7. RowsInv' /\ FilesInv'
  BY <1>3 DEF RowsInv, FilesInv, UploadedAs, Whole
<1>8. TornOnlyWhileWritten'
  BY <1>2, <1>3, <1>4 DEF TornOnlyWhileWritten, Writing, At
<1>9. DeletedOnlyByRace'
  BY <1>1, <1>4 DEF DeletedOnlyByRace, At
<1>10. QED
  BY <1>4, <1>6, <1>7, <1>8, <1>9

\* A request that opens its next file, and one whose file is cut or deleted.
Opens(p, j) == [p EXCEPT !.pc = "write", !.job = j, !.jobs = p.jobs \ {j}, !.hold = "all"]
Loses(p, hold) == [p EXCEPT !.hold = hold]

\* All of the request that opening its next file leaves.
LEMMA OpensFacts ==
  ASSUME NEW p \in Request, NEW j \in Job
  PROVE  /\ Opens(p, j) \in Request
         /\ Opens(p, j).pc = "write" /\ Opens(p, j).job = j /\ Opens(p, j).hold = "all"
         /\ Opens(p, j).id = p.id /\ Opens(p, j).ext = p.ext
         /\ Opens(p, j).jobs \subseteq p.jobs
         /\ Opens(p, j).answer = p.answer /\ Opens(p, j).status = p.status
         /\ Opens(p, j).must = p.must
BY DEF Request, Opens

\* Only hold changes when the file is taken from its writer.
LEMMA LosesFacts ==
  ASSUME NEW p \in Request, NEW hold \in {"cut", "gone"}
  PROVE  /\ Loses(p, hold) \in Request
         /\ Loses(p, hold).pc = p.pc /\ Loses(p, hold).job = p.job
         /\ Loses(p, hold).hold = hold
         /\ Loses(p, hold).id = p.id /\ Loses(p, hold).ext = p.ext
         /\ Loses(p, hold).jobs = p.jobs /\ Loses(p, hold).answer = p.answer
         /\ Loses(p, hold).status = p.status /\ Loses(p, hold).must = p.must
BY DEF Request, Loses

\* The files go, all of them or, with an error, some; their writers go on
\* writing what has no name any more.
LEMMA ClearStep ==
  ASSUME IInv, NEW r \in Reqs, ClearImageCache(r) \/ ClearFails(r) PROVE IInv'
<1> USE DEF IInv, TypeOK
<1>1. PICK removed \in SUBSET Ids :
        /\ Unlink(r, removed)
        /\ unclean' \in BOOLEAN
        /\ unclean' \/ \A i \in Ids : files[i] # None => i \in removed
  <2>1. CASE ClearImageCache(r)
    <3>1. Unlink(r, ToRemove) /\ ~unclean' /\ unclean' \in BOOLEAN /\ ToRemove \in SUBSET Ids
      BY <2>1 DEF ClearImageCache, ToRemove
    <3>2. \A i \in Ids : files[i] # None => i \in ToRemove
      BY DEF ToRemove
    <3>3. QED
      BY <3>1, <3>2
  <2>2. CASE ClearFails(r)
    <3>1. PICK removed \in SUBSET {i \in Ids : files[i] # None} : Unlink(r, removed)
      BY <2>2 DEF ClearFails
    <3>2. removed \in SUBSET Ids /\ unclean' = TRUE
      BY <2>2, <3>1 DEF ClearFails
    <3>3. QED
      BY <3>1, <3>2
  <2>3. QED
    BY <2>1, <2>2
<1>2. req[r].pc = "clear" /\ UNCHANGED <<posts, allocated, uploaded, acked, broken>>
  BY DEF ClearImageCache, ClearFails, At
<1>3. files' = [i \in Ids |-> IF i \in removed THEN None ELSE files[i]]
  BY <1>1 DEF Unlink
<1>4. ASSUME NEW x \in Reqs
      PROVE  /\ req'[x] \in Request
             /\ RequestInv(req[x])'
             /\ req[x].pc = "write" /\ req[x].job.id \notin removed => req'[x] = req[x]
  <2> PICK p \in Request : p = req[x]
    OBVIOUS
  <2>1. req'[x] = IF x = r THEN [p EXCEPT !.pc = "warm"]
                  ELSE IF p.pc = "write" /\ p.job.id \in removed
                       THEN [p EXCEPT !.hold = "gone"]
                  ELSE p
    BY <1>1 DEF Unlink, At
  <2>2. RequestInv(p)
    OBVIOUS
  <2>3. CASE x = r
    <3> PICK q : q = [p EXCEPT !.pc = "warm"]
      OBVIOUS
    <3>1. q \in Request /\ q.id = p.id /\ q.ext = p.ext /\ q.jobs = p.jobs /\ q.job = p.job
          /\ q.answer = p.answer /\ q.status = p.status /\ q.pc = "warm" /\ q.must = p.must
      BY DEF Request
    <3>2. RequestInv(q)'
      BY <2>2, <3>1, <1>2, RequestMoves
    <3>3. req'[x] = q
      BY <2>1, <2>3
    <3>4. QED
      BY <1>2, <2>3, <3>1, <3>2, <3>3 DEF RequestInv, UploadedAs, Whole
  <2>4. CASE x # r /\ p.pc = "write" /\ p.job.id \in removed
    <3> PICK q : q = Loses(p, "gone")
      OBVIOUS
    <3>1. q \in Request /\ q.id = p.id /\ q.ext = p.ext /\ q.jobs = p.jobs /\ q.job = p.job
          /\ q.answer = p.answer /\ q.status = p.status /\ q.pc = p.pc /\ q.must = p.must
          /\ q.hold = "gone"
      BY LosesFacts
    <3>2. RequestInv(q)'
      BY <2>2, <3>1, <1>2, RequestMoves
    <3>3. req'[x] = q
      BY <2>1, <2>4 DEF Loses
    <3>4. QED
      BY <2>4, <3>1, <3>2, <3>3 DEF RequestInv, UploadedAs, Whole
  <2>5. CASE x # r /\ ~(p.pc = "write" /\ p.job.id \in removed)
    <3>1. p.pc = "write" => p.job.id \in Ids /\ files'[p.job.id] = files[p.job.id]
      BY <1>3, <2>2, <2>5 DEF RequestInv, Job
    <3>2. p.pc = "write" /\ p.hold # "gone" => files'[p.job.id] # None
      BY <3>1, <2>2 DEF RequestInv
    <3>3. RequestInv(p)'
      BY <2>2, <3>2, <1>2 DEF RequestInv, UploadedAs, Whole
    <3>4. req'[x] = p
      BY <2>1, <2>5
    <3>5. QED
      BY <3>3, <3>4 DEF RequestInv, UploadedAs, Whole
  <2>6. QED
    BY <2>3, <2>4, <2>5
<1>5. req' \in [Reqs -> Request]
  <2>1. req' = [x \in Reqs |-> req'[x]]
    BY <1>1 DEF Unlink
  <2>2. QED
    BY <1>4, <2>1
<1>6. TypeOK'
  BY <1>1, <1>2, <1>3, <1>5
<1>7. RowsInv' /\ FilesInv'
  BY <1>2, <1>3 DEF RowsInv, FilesInv, UploadedAs, Whole
<1>8. TornOnlyWhileWritten'
  BY <1>2, <1>3, <1>4 DEF TornOnlyWhileWritten, Writing, At
<1>9. DeletedOnlyByRace'
  BY <1>1, <1>2, <1>3 DEF DeletedOnlyByRace, At
<1>10. QED
  BY <1>4, <1>6, <1>7, <1>8, <1>9

\* Opening a file takes it from every other writer of it: this one will leave
\* it whole.
LEMMA OpenStep ==
  ASSUME IInv, NEW r \in Reqs, OpenFile(r) PROVE IInv'
<1> USE DEF IInv, TypeOK
<1>1. PICK j \in req[r].jobs :
        /\ files' = [files EXCEPT ![j.id] =
                        [img |-> j.img, ext |-> j.ext, whole |-> FALSE,
                         late |-> posts[j.id] = None]]
        /\ req' = [x \in Reqs |->
                      IF x = r THEN [req[x] EXCEPT !.pc = "write", !.job = j,
                                       !.jobs = @ \ {j}, !.hold = "all"]
                      ELSE IF /\ At(x, "write")
                              /\ req[x].job.id = j.id
                              /\ req[x].hold = "all"
                           THEN [req[x] EXCEPT !.hold = "cut"]
                      ELSE req[x]]
  BY DEF OpenFile
<1>2. req[r].pc = "open" /\ UNCHANGED <<posts, allocated, uploaded, acked, broken, unclean>>
  BY DEF OpenFile, At
<1>3. j \in Job /\ j.id \in Ids /\ j.img \in Imgs /\ j.ext \in Exts /\ UploadedAs(j.id, j.img, j.ext)
  BY DEF Request, RequestInv, Job
<1>4. PICK late \in BOOLEAN : late = (posts[j.id] = None)
  OBVIOUS
<1>5. PICK f \in File : f = [img |-> j.img, ext |-> j.ext, whole |-> FALSE, late |-> late]
  BY <1>3 DEF File
<1>6. files' = [files EXCEPT ![j.id] = f]
  BY <1>1, <1>4, <1>5
<1>7. f # None /\ f.img = j.img /\ f.ext = j.ext /\ (posts[j.id] = None => f.late)
  BY <1>4, <1>5, RecordAssumption
<1>8. \A i \in Ids : files[i] # None => files'[i] # None
  BY <1>6, <1>7
<1>9. ASSUME NEW x \in Reqs
      PROVE  /\ req'[x] \in Request
             /\ RequestInv(req[x])'
             /\ x = r => req'[x].pc = "write" /\ req'[x].job = j /\ req'[x].hold = "all"
             /\ x # r => req'[x].pc = req[x].pc /\ req'[x].job = req[x].job
             /\ x # r /\ ~(req[x].pc = "write" /\ req[x].job.id = j.id) => req'[x] = req[x]
  <2> PICK p \in Request : p = req[x]
    OBVIOUS
  <2>1. req'[x] = IF x = r THEN [p EXCEPT !.pc = "write", !.job = j,
                                       !.jobs = p.jobs \ {j}, !.hold = "all"]
                  ELSE IF p.pc = "write" /\ p.job.id = j.id /\ p.hold = "all"
                       THEN [p EXCEPT !.hold = "cut"]
                  ELSE p
    BY <1>1 DEF At
  <2>2. RequestInv(p)
    OBVIOUS
  <2>3. CASE x = r
    <3> PICK q : q = Opens(p, j)
      OBVIOUS
    <3>1. q \in Request /\ q.id = p.id /\ q.ext = p.ext /\ q.jobs \subseteq p.jobs /\ q.job = j
          /\ q.answer = p.answer /\ q.status = p.status /\ q.pc = "write" /\ q.must = p.must
          /\ q.hold = "all"
      BY <1>3, OpensFacts
    <3>2. RequestInv(q)'
      BY <1>2, <1>3, <1>6, <1>7, <2>2, <3>1 DEF RequestInv, UploadedAs, Whole
    <3>3. req'[x] = q
      BY <2>1, <2>3 DEF Opens
    <3>4. QED
      BY <2>3, <3>1, <3>2, <3>3 DEF RequestInv, UploadedAs, Whole
  <2>4. CASE x # r /\ p.pc = "write" /\ p.job.id = j.id /\ p.hold = "all"
    <3> PICK q : q = Loses(p, "cut")
      OBVIOUS
    <3>1. q \in Request /\ q.id = p.id /\ q.ext = p.ext /\ q.jobs = p.jobs /\ q.job = p.job
          /\ q.answer = p.answer /\ q.status = p.status /\ q.pc = p.pc /\ q.must = p.must
      BY LosesFacts
    <3>2. RequestInv(q)'
      BY <1>2, <1>3, <1>8, <2>2, <2>4, <3>1, RequestMoves
    <3>3. req'[x] = q
      BY <2>1, <2>4 DEF Loses
    <3>4. QED
      BY <2>4, <3>1, <3>2, <3>3 DEF RequestInv, UploadedAs, Whole
  <2>5. CASE x # r /\ ~(p.pc = "write" /\ p.job.id = j.id /\ p.hold = "all")
    <3>1. p.pc = "write" => p.job.id \in Ids
      BY <2>2 DEF RequestInv, Job
    <3>2. RequestInv(p)'
      BY <1>2, <1>8, <2>2, <3>1, RequestMoves
    <3>3. req'[x] = p
      BY <2>1, <2>5
    <3>4. QED
      BY <2>5, <3>2, <3>3 DEF RequestInv, UploadedAs, Whole
  <2>6. QED
    BY <2>3, <2>4, <2>5
<1>10. req' \in [Reqs -> Request]
  BY <1>1, <1>9
<1>11. TypeOK'
  <2>1. j.id \in allocated
    BY <1>3 DEF UploadedAs, Whole
  <2>2. QED
    BY <1>2, <1>3, <1>6, <1>10, <2>1
<1>12. RowsInv' /\ FilesInv'
  BY <1>2, <1>3, <1>6, <1>7 DEF RowsInv, FilesInv, UploadedAs, Whole
<1>13. TornOnlyWhileWritten'
  <2> SUFFICES ASSUME NEW i \in Ids, files'[i] # None, ~files'[i].whole, i \notin broken
               PROVE  \E x \in Reqs : req'[x].pc = "write" /\ req'[x].job.id = i /\ req'[x].hold = "all"
    BY <1>2 DEF TornOnlyWhileWritten, Writing, At
  <2>1. CASE i = j.id
    BY <2>1, <1>9
  <2>2. CASE i # j.id
    <3>1. PICK x \in Reqs : req[x].pc = "write" /\ req[x].job.id = i /\ req[x].hold = "all"
      BY <2>2, <1>6 DEF TornOnlyWhileWritten, Writing, At
    <3>2. req'[x] = req[x]
      BY <1>2, <1>9, <2>2, <3>1
    <3>3. QED
      BY <3>1, <3>2
  <2>3. QED
    BY <2>1, <2>2
<1>14. DeletedOnlyByRace'
  <2>1. \A x \in Reqs : req[x].pc = "clear" => req'[x].pc = "clear"
    BY <1>2, <1>9
  <2>2. QED
    BY <1>2, <1>6, <1>7, <2>1 DEF DeletedOnlyByRace, At
<1>15. QED
  BY <1>9, <1>11, <1>12, <1>13, <1>14

\* A write that ends: the request goes on to its next file, or answers.
LEMMA NextJobFacts ==
  ASSUME NEW p \in Request, RequestInv(p), p.pc = "write"
  PROVE  /\ NextJob(p) \in Request
         /\ NextJob(p).pc \in {"open", "reply"}
         /\ RequestInv(NextJob(p))
  BY NextJobFields DEF RequestInv

\* Closing: the file is whole when it was this writer's all along, and when it
\* is not, another writer has it or none of its name is left.
LEMMA CloseStep ==
  ASSUME IInv, NEW r \in Reqs, CloseFile(r) PROVE IInv'
<1> USE DEF IInv, TypeOK
<1> PICK p \in Request : p = req[r]
  OBVIOUS
<1> DEFINE i == p.job.id
<1>1. p.pc = "write" /\ RequestInv(p) /\ p.job \in Job /\ i \in Ids
  BY DEF CloseFile, At, RequestInv, Job
<1>2. PICK f \in Written(p) : files' = [files EXCEPT ![i] = f]
  BY DEF CloseFile
<1>3. req' = [req EXCEPT ![r] = NextJob(p)]
      /\ UNCHANGED <<posts, allocated, uploaded, acked, broken, unclean>>
  BY DEF CloseFile, Becomes
<1>4. p.hold \in {"all", "cut", "gone"}
  BY DEF Request
<1>5. /\ files[i] = None => f = None
      /\ files[i] # None =>
            /\ f \in File /\ f # None
            /\ f.img = files[i].img /\ f.ext = files[i].ext /\ f.late = files[i].late
            /\ f.whole \/ (f.whole = files[i].whole /\ p.hold # "all")
  <2>1. CASE files[i] = None
    <3>1. p.hold = "gone"
      BY <1>1, <1>4, <2>1 DEF RequestInv
    <3>2. Written(p) = {files[i]}
      BY <3>1 DEF Written
    <3>3. QED
      BY <1>2, <2>1, <3>2
  <2>2. CASE files[i] # None
    <3> PICK g \in File : g = files[i]
      BY <1>1, <2>2
    <3> PICK h : h = [g EXCEPT !.whole = TRUE]
      OBVIOUS
    <3>1. h \in File /\ h # None /\ h.img = g.img /\ h.ext = g.ext /\ h.late = g.late /\ h.whole
      BY RecordAssumption DEF File
    <3>2. f = h \/ (f = g /\ p.hold # "all")
      <4>1. CASE p.hold = "all"
        BY <1>2, <4>1 DEF Written
      <4>2. CASE p.hold = "cut"
        BY <1>2, <4>2 DEF Written
      <4>3. CASE p.hold = "gone"
        BY <1>2, <4>3 DEF Written
      <4>4. QED
        BY <1>4, <4>1, <4>2, <4>3
    <3>3. QED
      BY <2>2, <3>1, <3>2
  <2>3. QED
    BY <2>1, <2>2
<1>6. \A k \in Ids : k # i => files'[k] = files[k]
  BY <1>2
<1>7. files'[i] = f
  BY <1>1, <1>2
<1> HIDE DEF i
<1>8. \A k \in Ids : files[k] # None <=> files'[k] # None
  BY <1>1, <1>5, <1>6, <1>7
<1>9. /\ req'[r] = NextJob(p)
      /\ \A x \in Reqs \ {r} : req'[x] = req[x]
      /\ req' \in [Reqs -> Request]
  BY <1>1, <1>3, NextJobFacts
<1>10. TypeOK'
  <2>1. files' \in [Ids -> File \cup {None}]
    BY <1>1, <1>2, <1>5
  <2>2. QED
    BY <1>3, <1>8, <1>9, <2>1
<1>11. RowsInv'
  BY <1>3 DEF RowsInv
<1>12. FilesInv'
  <2> SUFFICES ASSUME NEW k \in Ids, files'[k] # None
               PROVE  /\ k \in allocated
                      /\ uploaded[k] = [img |-> files'[k].img, ext |-> files'[k].ext]
    BY <1>3 DEF FilesInv, UploadedAs, Whole
  <2>1. files'[k].img = files[k].img /\ files'[k].ext = files[k].ext /\ files[k] # None
    BY <1>5, <1>6, <1>7, <1>8
  <2>2. QED
    BY <2>1 DEF FilesInv, UploadedAs, Whole
<1>13. ASSUME NEW x \in Reqs PROVE RequestInv(req[x])'
  <2> PICK q \in Request : q = req'[x]
    BY <1>9
  <2>1. RequestInv(q)
    BY <1>1, <1>9, NextJobFacts
  <2>2. q.pc = "write" => q.job.id \in Ids
    BY <2>1 DEF RequestInv, Job
  <2>3. RequestInv(q)'
    BY <1>3, <1>8, <2>1, <2>2, RequestMoves
  <2>4. QED
    BY <2>3 DEF RequestInv, UploadedAs, Whole
<1>14. TornOnlyWhileWritten'
  <2> SUFFICES ASSUME NEW k \in Ids, files'[k] # None, ~files'[k].whole, k \notin broken
               PROVE  \E x \in Reqs : req'[x].pc = "write" /\ req'[x].job.id = k /\ req'[x].hold = "all"
    BY <1>3 DEF TornOnlyWhileWritten, Writing, At
  <2>1. files[k] # None /\ ~files[k].whole /\ (k = i => p.hold # "all")
    BY <1>5, <1>6, <1>7, <1>8
  <2>2. PICK x \in Reqs : req[x].pc = "write" /\ req[x].job.id = k /\ req[x].hold = "all"
    BY <2>1 DEF TornOnlyWhileWritten, Writing, At
  <2>3. x # r
    BY <2>1, <2>2 DEF i
  <2>4. QED
    BY <1>9, <2>2, <2>3
<1>15. DeletedOnlyByRace'
  <2> SUFFICES ASSUME NEW k \in Ids, files'[k] # None, posts[k] = None, ~files'[k].late, ~unclean
               PROVE  \E x \in Reqs : req'[x].pc = "clear"
    BY <1>3 DEF DeletedOnlyByRace, At
  <2>1. files[k] # None /\ files[k].late = files'[k].late
    BY <1>5, <1>6, <1>7, <1>8
  <2>2. PICK x \in Reqs : req[x].pc = "clear"
    BY <2>1 DEF DeletedOnlyByRace, At
  <2>3. QED
    BY <1>1, <1>9, <2>2
<1>16. QED
  BY <1>10, <1>11, <1>12, <1>13, <1>14, <1>15

\* A write that fails is the one way to leave a torn file.
LEMMA WriteFailsStep ==
  ASSUME IInv, NEW r \in Reqs, WriteFails(r) PROVE IInv'
<1> USE DEF IInv, TypeOK
<1> PICK p \in Request : p = req[r]
  OBVIOUS
<1>1. p.pc = "write" /\ RequestInv(p) /\ p.job.id \in Ids
  BY DEF WriteFails, At, RequestInv, Job
<1>2. /\ broken' = broken \cup {p.job.id}
      /\ req' = [req EXCEPT ![r] = NextJob(p)]
      /\ UNCHANGED <<posts, allocated, files, uploaded, acked, unclean>>
  BY DEF WriteFails, Becomes
<1>3. /\ req'[r] = NextJob(p)
      /\ \A x \in Reqs \ {r} : req'[x] = req[x]
      /\ req' \in [Reqs -> Request]
  BY <1>1, <1>2, NextJobFacts
<1>4. TypeOK'
  BY <1>1, <1>2, <1>3
<1>5. RowsInv' /\ FilesInv'
  BY <1>2 DEF RowsInv, FilesInv, UploadedAs, Whole
<1>6. ASSUME NEW x \in Reqs PROVE RequestInv(req[x])'
  <2> PICK q \in Request : q = req'[x]
    BY <1>3
  <2>1. RequestInv(q)
    BY <1>1, <1>3, NextJobFacts
  <2>2. QED
    BY <1>2, <2>1 DEF RequestInv, UploadedAs, Whole
<1>7. TornOnlyWhileWritten'
  BY <1>1, <1>2, <1>3 DEF TornOnlyWhileWritten, Writing, At
<1>8. DeletedOnlyByRace'
  BY <1>1, <1>2, <1>3 DEF DeletedOnlyByRace, At
<1>9. QED
  BY <1>4, <1>5, <1>6, <1>7, <1>8

\* After a crash nobody writes: the files being written are the broken ones.
LEMMA CrashStep ==
  ASSUME IInv, Crash PROVE IInv'
<1> USE DEF IInv, TypeOK
<1>1. /\ broken' = broken \cup {i \in Ids : \E r \in Reqs : At(r, "write") /\ req[r].job.id = i}
      /\ unclean' = (unclean \/ \E r \in Reqs : At(r, "clear"))
      /\ req' = [r \in Reqs |-> Idle]
      /\ UNCHANGED <<posts, allocated, files, uploaded, acked>>
  BY DEF Crash
<1>2. \A x \in Reqs : req'[x] = Idle
  BY <1>1
<1>3. unclean' \in BOOLEAN
  BY <1>1
<1>4. TypeOK'
  BY <1>1, <1>3, IdleFacts
<1>5. RowsInv' /\ FilesInv'
  BY <1>1 DEF RowsInv, FilesInv, UploadedAs, Whole
<1>6. ASSUME NEW x \in Reqs PROVE RequestInv(req[x])'
  BY <1>2 DEF RequestInv, Idle
<1>7. TornOnlyWhileWritten'
  BY <1>1 DEF TornOnlyWhileWritten, Writing
<1>8. DeletedOnlyByRace'
  BY <1>1 DEF DeletedOnlyByRace
<1>9. QED
  BY <1>4, <1>5, <1>6, <1>7, <1>8

\* The initial states.
LEMMA InitIInv == Init => IInv
<1> SUFFICES ASSUME Init PROVE IInv
  OBVIOUS
<1>1. TypeOK
  BY SeedAssumption, IdleFacts DEF Init, TypeOK
<1>2. RowsInv /\ FilesInv
  BY DEF Init, RowsInv, FilesInv
<1>3. \A r \in Reqs : RequestInv(req[r])
  BY IdleFacts DEF Init
<1>4. TornOnlyWhileWritten /\ DeletedOnlyByRace
  BY DEF Init, TornOnlyWhileWritten, Writing, DeletedOnlyByRace
<1>5. QED
  BY <1>1, <1>2, <1>3, <1>4 DEF IInv

\* Every step keeps the invariant.
LEMMA StepIInv == IInv /\ [Next]_vars => IInv'
<1> SUFFICES ASSUME IInv, [Next]_vars PROVE IInv'
  OBVIOUS
<1>1. CASE Client
  BY <1>1, ClientStep
<1>2. ASSUME NEW r \in Reqs,
             \/ ReadFile(r) \/ ReadFileFails(r) \/ SelectPost(r) \/ InsertPost(r) \/ StatementFails(r)
             \/ DeletePosts(r) \/ DeleteFails(r) \/ StrayDelete(r)
             \/ ClearImageCache(r) \/ ClearFails(r)
             \/ WarmImageCache(r) \/ WarmFails(r)
             \/ OpenFile(r) \/ OpenFails(r) \/ CloseFile(r) \/ WriteFails(r)
             \/ Reply(r)
      PROVE  IInv'
  BY <1>2, ReadStep, SelectStep, InsertStep, FailStep, DeleteStep, ClearStep, WarmStep, OpenStep,
     CloseStep, WriteFailsStep, ReplyStep
<1>3. CASE Crash
  BY <1>3, CrashStep
<1>4. CASE UNCHANGED vars
  BY <1>4 DEF vars, IInv, TypeOK, RowsInv, FilesInv, UploadedAs, Whole, RequestInv,
     TornOnlyWhileWritten, Writing, DeletedOnlyByRace, At
<1>5. QED
  BY <1>1, <1>2, <1>3, <1>4 DEF Next, Server

\* The inductive invariant holds for any ids, images, extensions, limit and
\* number of requests in flight.
THEOREM Invariance == Spec => []IInv
  BY InitIInv, StepIInv, PTL DEF Spec

\* Rows, files, jobs and answers keep their types, and only ids that were given
\* out have a row or a file.
THEOREM TypeCorrect == Spec => []TypeOK
<1>1. IInv => TypeOK
  BY DEF IInv
<1>2. QED
  BY <1>1, Invariance, PTL

\* Whatever is answered for an id, from the row or from a file that outlived
\* rows, crashes and overlapping writers, was uploaded under that id; and it is
\* whole, unless it was read from a file being written or left by a write that
\* failed or died.
THEOREM AnswersUploaded == Spec => []ServedIsUploaded
<1>1. IInv => ServedIsUploaded
  BY DEF IInv, RequestInv, UploadedAs, Whole, ServedIsUploaded, Answered
<1>2. QED
  BY <1>1, Invariance, PTL

\* Writers of one file that overlap leave it whole: a torn file is being
\* written, or a write of it failed or died.
THEOREM OverlappingWritersLeaveWhole == Spec => []TornOnlyWhileWritten
<1>1. IInv => TornOnlyWhileWritten
  BY DEF IInv
<1>2. QED
  BY <1>1, Invariance, PTL

\* Unless /initialize fails, files of deleted posts come only from requests
\* that held the image from before.
THEOREM InitializeClearsFiles == Spec => []DeletedOnlyByRace
<1>1. IInv => DeletedOnlyByRace
  BY DEF IInv
<1>2. QED
  BY <1>1, Invariance, PTL

\* An image that was there when it was asked for, and still is, is never
\* answered "not found".
THEOREM UploadsFound == Spec => []UploadsServed
<1>1. IInv => UploadsServed
  BY DEF IInv, RequestInv, UploadsServed, At
<1>2. QED
  BY <1>1, Invariance, PTL
=============================================================================
