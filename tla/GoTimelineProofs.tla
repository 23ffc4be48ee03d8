-------------------------- MODULE GoTimelineProofs --------------------------
(***************************************************************************)
(* Safety properties of GoTimeline, and that it implements Moderation,     *)
(* proved for any number of requests, users, posts and comments.           *)
(***************************************************************************)
EXTENDS GoTimeline, FiniteSetTheorems, TLAPS

InitializePCs == {"delUsers", "delPosts", "delComments", "unban", "reban", "reply"}

\* The seed is there, and its rows are those it was given.
SeedInv ==
    /\ SeedUsers \subseteq users
    /\ SeedPosts \subseteq posts
    /\ SeedComments \subseteq comments
    /\ \A p \in SeedPosts : postOf[p] = SeedPost[p]
    /\ \A c \in SeedComments : commentOf[c] = SeedComment[c]

\* A page consists of posts there are or were, none by a user banned all the
\* time; and makePosts, where it has a post to work on, has one of these.
PageInv(q) ==
    /\ \A p \in q.todo : postOf[p] # None
    /\ q.pc \in {"count", "comments", "users"} =>
         q.entry # None /\ postOf[q.entry.post] # None
    /\ \A i \in DOMAIN q.page :
         /\ postOf[q.page[i].post] # None
         /\ q.op \in Pages => postOf[q.page[i].post].author \notin q.hidden

WriterInv(q) ==
    /\ q.op \in Writes => q.user \in Uids
    /\ q.op = "newComment" => q.post \in Pids

RequestInv(q) ==
    /\ q.pc = "idle" => q = Idle
    /\ q.op = "initialize" => q.pc \in InitializePCs
    /\ q.hidden \subseteq banned /\ q.done \subseteq banned
    /\ q.dead \subseteq q.hidden
    /\ PageInv(q) /\ WriterInv(q)

\* How far an /initialize that is alone has come.
AloneInv(r) ==
    LET pc == req[r].pc
    IN  req[r].op = "initialize" /\ req[r].alone =>
          /\ \A s \in Reqs \ {r} :
               req[s].pc # "idle" =>
                 req[s].op \notin Inserts \cup {"ban", "initialize"}
          /\ pc # "delUsers" => users = SeedUsers
          /\ pc \notin {"delUsers", "delPosts"} => posts = SeedPosts
          /\ pc \notin {"delUsers", "delPosts", "delComments"} =>
               comments = SeedComments
          /\ pc = "reban" => banned = {}
          /\ pc = "reply" => banned = Fiftieth \cap SeedUsers

\* Unless torn, what lost its user is about to go.
IntegrityInv ==
    /\ \A r, s \in Reqs :
         req[r].op = "initialize" => ~ (req[s].pc # "idle" /\ req[s].op \in Writes)
    /\ \A r \in Reqs : At(r, "insert", Writes) => req[r].user \in users
    /\ \A p \in posts :
         \/ postOf[p].author \in users
         \/ \E r \in Reqs : At(r, "delPosts", {"initialize"})
    /\ \A c \in comments :
         \/ commentOf[c].author \in users
         \/ \E r \in Reqs : \/ At(r, "delPosts", {"initialize"})
                            \/ At(r, "delComments", {"initialize"})

IInv ==
    /\ TypeOK
    /\ SeedInv
    /\ dead \subseteq banned
    /\ \A r \in Reqs : RequestInv(req[r])
    /\ \A r \in Reqs : AloneInv(r)
    /\ ~ torn => IntegrityInv

LEMMA IdleType == Idle \in Request
BY DEF Idle, Request, AllOps, Pages, Inserts, Writes, PCs

LEMMA InitInv == Init => IInv
<1> SUFFICES ASSUME Init PROVE IInv
  OBVIOUS
<1> USE NoneAssumption, SeedAssumption DEF Init
<1>1. TypeOK
  <2>1. /\ postOf \in [Pids -> Post \cup {None}]
        /\ posts \subseteq {p \in Pids : postOf[p] # None}
    OBVIOUS
  <2>2. /\ commentOf \in [Cids -> Comment \cup {None}]
        /\ comments \subseteq {c \in Cids : commentOf[c] # None}
    OBVIOUS
  <2>3. /\ users \subseteq given /\ banned \subseteq users /\ given \subseteq Uids
        /\ now \in Nat /\ acked \subseteq posts \cup comments
        /\ dead \subseteq Uids /\ torn \in BOOLEAN
    BY LimitAssumption
  <2>4. req \in [Reqs -> Request]
    BY IdleType
  <2> QED
    BY <2>1, <2>2, <2>3, <2>4 DEF TypeOK
<1>2. SeedInv
  BY DEF SeedInv
<1>3. \A r \in Reqs : RequestInv(req[r])
  BY DEF RequestInv, PageInv, WriterInv, Writes, Idle
<1>4. \A r \in Reqs : AloneInv(r)
  BY DEF AloneInv, Idle
<1>5. IntegrityInv
  BY DEF IntegrityInv, At, Idle
<1> QED
  BY <1>1, <1>2, <1>3, <1>4, <1>5 DEF IInv

-----------------------------------------------------------------------------
(***************************************************************************)
(* The steps that change nothing but their own request.                    *)
(***************************************************************************)
LEMMA LocalStep ==
  ASSUME IInv, NEW r \in Reqs, NEW q \in Request,
         Becomes(r, q), Reading,
         req[r].pc # "idle", q.pc # "idle",
         q.op = req[r].op, q.op # "initialize",
         q.hidden = req[r].hidden, q.dead = req[r].dead, q.done = req[r].done,
         q.op \in Writes => q.user = req[r].user /\ q.post = req[r].post,
         q.pc = "insert" /\ q.op \in Writes => q.user \in users,
         PageInv(q)
  PROVE  IInv'
<1> USE DEF Reading, tables, history
<1>1. /\ req \in [Reqs -> Request] /\ RequestInv(req[r])
      /\ req' = [req EXCEPT ![r] = q]
  BY DEF IInv, TypeOK, Becomes
<1>2. /\ req' \in [Reqs -> Request] /\ req'[r] = q
      /\ \A s \in Reqs \ {r} : req'[s] = req[s]
  BY <1>1
<1>3. TypeOK'
  BY <1>2 DEF IInv, TypeOK
<1>4. SeedInv' /\ (dead \subseteq banned)'
  BY DEF IInv, SeedInv
<1>5. ASSUME NEW s \in Reqs PROVE RequestInv(req[s])'
  <2>1. CASE s = r
    BY <1>1, <1>2, <2>1 DEF RequestInv, PageInv, WriterInv, Writes
  <2>2. CASE s # r
    BY <1>2, <2>2 DEF IInv, RequestInv, PageInv, WriterInv
  <2> QED
    BY <2>1, <2>2
<1>6. ASSUME NEW s \in Reqs PROVE AloneInv(s)'
  <2>1. CASE s = r
    BY <1>2, <2>1 DEF AloneInv
  <2>2. CASE s # r
    BY <1>2, <2>2 DEF IInv, AloneInv
  <2> QED
    BY <2>1, <2>2
<1>7. ASSUME ~ torn' PROVE IntegrityInv'
  <2>1. ~ torn /\ IntegrityInv
    BY <1>7 DEF IInv
  <2>2. \A s \in Reqs : /\ req'[s].op = req[s].op
                        /\ (req'[s].pc = "idle") = (req[s].pc = "idle")
    BY <1>2
  <2>3. \A s \in Reqs, pc \in PCs :
          At(s, pc, {"initialize"}) => At(s, pc, {"initialize"})'
    BY <1>2 DEF At
  <2>4. "delPosts" \in PCs /\ "delComments" \in PCs
    BY DEF PCs
  <2>5. \A s \in Reqs : At(s, "insert", Writes)' => req'[s].user \in users'
    BY <1>2, <2>1 DEF IntegrityInv, At
  <2> QED
    BY <2>1, <2>2, <2>3, <2>4, <2>5 DEF IntegrityInv
<1> QED
  BY <1>3, <1>4, <1>5, <1>6, <1>7 DEF IInv

\* A request that is answered without having written.
LEMMA AnsweredStep ==
  ASSUME IInv, NEW r \in Reqs, req[r].pc # "idle", req[r].op # "initialize",
         Reading, \/ Becomes(r, Served(req[r]))
                  \/ Becomes(r, Failed(req[r]))
  PROVE  IInv'
<1>1. req[r] \in Request /\ PageInv(req[r])
  BY DEF IInv, TypeOK, RequestInv
<1>2. PICK q \in {Served(req[r]), Failed(req[r])} : Becomes(r, q)
  OBVIOUS
<1>3. /\ q \in Request /\ q.pc = "reply" /\ q.op = req[r].op
      /\ q.hidden = req[r].hidden /\ q.dead = req[r].dead
      /\ q.done = req[r].done /\ q.todo = req[r].todo
      /\ q.user = req[r].user /\ q.post = req[r].post
      /\ q.page = req[r].page \/ q.page = <<>>
  <2>1. CASE q = Served(req[r])
    BY <1>1, <2>1 DEF Request, Served, PCs
  <2>2. CASE q = Failed(req[r])
    <3>1. <<>> \in Seq(Entry)
      OBVIOUS
    <3> QED
      BY <1>1, <2>2, <3>1 DEF Request, Failed, PCs
  <2> QED
    BY <1>2, <2>1, <2>2
<1>4. PageInv(q)
  <2>1. DOMAIN <<>> = {}
    OBVIOUS
  <2> QED
    BY <1>1, <1>3, <2>1 DEF PageInv
<1> QED
  BY <1>2, <1>3, <1>4, LocalStep

LEMMA SelectOwnerStep == ASSUME IInv, NEW r \in Reqs, SelectOwner(r) PROVE IInv'
<1>1. /\ req[r] \in Request /\ PageInv(req[r])
      /\ req[r].pc = "name" /\ req[r].op = "page" /\ Reading
  BY DEF IInv, TypeOK, RequestInv, SelectOwner, At
<1>2. CASE Becomes(r, Failed(req[r]))
  BY <1>1, <1>2, AnsweredStep
<1>3. CASE Becomes(r, [req[r] EXCEPT !.pc = "select"])
  <2> DEFINE q == [req[r] EXCEPT !.pc = "select"]
  <2>1. /\ q \in Request /\ q.pc = "select" /\ q.op = req[r].op
        /\ q.hidden = req[r].hidden /\ q.dead = req[r].dead
        /\ q.done = req[r].done
    BY <1>1 DEF Request, PCs
  <2>2. PageInv(q)
    BY <1>1 DEF PageInv, Request
  <2> HIDE DEF q
  <2>3. Becomes(r, q)
    BY <1>3 DEF q
  <2> QED
    BY <1>1, <2>1, <2>2, <2>3, LocalStep DEF Writes
<1> QED
  BY <1>2, <1>3 DEF SelectOwner

\* getSessionUser found the writer's row.
LEMMA SelectMeStep == ASSUME IInv, NEW r \in Reqs, SelectMe(r) PROVE IInv'
<1>1. /\ req[r] \in Request /\ PageInv(req[r])
      /\ req[r].pc = "me" /\ req[r].op \in Writes /\ Reading
  BY DEF IInv, TypeOK, RequestInv, SelectMe, At
<1>2. CASE Becomes(r, Failed(req[r]))
  BY <1>1, <1>2, AnsweredStep DEF Writes
<1>3. CASE /\ req[r].user \in users
           /\ Becomes(r, [req[r] EXCEPT !.pc = "insert"])
  <2> DEFINE q == [req[r] EXCEPT !.pc = "insert"]
  <2>1. /\ q \in Request /\ q.pc = "insert" /\ q.op = req[r].op
        /\ q.hidden = req[r].hidden /\ q.dead = req[r].dead
        /\ q.done = req[r].done /\ q.user = req[r].user
        /\ q.post = req[r].post
    BY <1>1 DEF Request, PCs
  <2>2. PageInv(q)
    BY <1>1 DEF PageInv, Request
  <2> HIDE DEF q
  <2>3. Becomes(r, q)
    BY <1>3 DEF q
  <2> QED
    BY <1>1, <1>3, <2>1, <2>2, <2>3, LocalStep DEF Writes
<1> QED
  BY <1>2, <1>3 DEF SelectMe

\* makePosts goes on with a post that there is, or ends.
LEMMA NextPostStep ==
  ASSUME IInv, NEW r \in Reqs, req[r].pc # "idle", req[r].op \in Pages,
         NEW todo \in SUBSET Pids, \A p \in todo : postOf[p] # None,
         NEW page \in Seq(Entry),
         \A i \in DOMAIN page : /\ postOf[page[i].post] # None
                                /\ postOf[page[i].post].author \notin req[r].hidden,
         NEW q \in NextPost(req[r], todo, page), Becomes(r, q), Reading
  PROVE  IInv'
<1>1. req[r] \in Request
  BY DEF IInv, TypeOK
<1>2. CASE todo = {} \/ Full(page)
  <2>1. PICK pc \in {"tail", "reply"}, ok \in BOOLEAN :
          q = [req[r] EXCEPT !.pc = pc, !.ok = ok, !.todo = {}, !.entry = None,
                             !.page = page]
    BY <1>2 DEF NextPost
  <2>2. /\ q \in Request /\ q.pc \in {"tail", "reply"} /\ q.op = req[r].op
        /\ q.hidden = req[r].hidden /\ q.dead = req[r].dead
        /\ q.done = req[r].done /\ q.todo = {} /\ q.page = page
    <3>1. pc \in PCs
      BY DEF PCs
    <3> QED
      BY <1>1, <2>1, <3>1 DEF Request
  <2>3. PageInv(q)
    BY <2>2 DEF PageInv
  <2> QED
    BY <2>2, <2>3, LocalStep DEF Pages, Writes
<1>3. CASE ~ (todo = {} \/ Full(page))
  <2>1. PICK p \in Newest(todo) :
          q = [req[r] EXCEPT !.pc = "count", !.todo = todo \ {p},
                    !.entry = [post |-> p, count |-> 0, comments |-> {}],
                    !.page = page]
    BY <1>3 DEF NextPost
  <2>2. p \in todo /\ [post |-> p, count |-> 0, comments |-> {}] \in Entry
    BY DEF Newest, Entry
  <2>3. /\ q \in Request /\ q.pc = "count" /\ q.op = req[r].op
        /\ q.hidden = req[r].hidden /\ q.dead = req[r].dead
        /\ q.done = req[r].done /\ q.todo = todo \ {p} /\ q.page = page
        /\ q.entry = [post |-> p, count |-> 0, comments |-> {}]
    BY <1>1, <2>1, <2>2 DEF Request, PCs
  <2>4. q.entry # None /\ q.entry.post = p
    <3>1. [post |-> p, count |-> 0, comments |-> {}] # None
      BY <2>2, NoneAssumption
    <3> QED
      BY <2>3, <3>1
  <2>5. PageInv(q)
    BY <2>2, <2>3, <2>4 DEF PageInv
  <2> QED
    BY <2>3, <2>5, LocalStep DEF Pages, Writes
<1> QED
  BY <1>2, <1>3

LEMMA SelectPostsStep == ASSUME IInv, NEW r \in Reqs, SelectPosts(r) PROVE IInv'
<1> DEFINE todo == {p \in posts : Wanted(req[r], p)}
<1>1. todo \in SUBSET Pids /\ \A p \in todo : postOf[p] # None
  BY DEF IInv, TypeOK
<1>2. <<>> \in Seq(Entry) /\ DOMAIN <<>> = {}
  OBVIOUS
<1>3. PICK q \in NextPost(req[r], todo, <<>>) : Becomes(r, q)
  BY DEF SelectPosts
<1>4. req[r].pc # "idle" /\ req[r].op \in Pages /\ Reading
  BY DEF SelectPosts, At
<1> HIDE DEF todo
<1> QED
  BY <1>1, <1>2, <1>3, <1>4, NextPostStep

\* A SELECT that tells more of the post at hand.
LEMMA EntryStep ==
  ASSUME IInv, NEW r \in Reqs, Reading,
         req[r].op \in Pages, req[r].pc \in {"count", "comments", "users"},
         NEW pc \in {"comments", "users"},
         NEW entry \in Entry, entry.post = req[r].entry.post,
         NEW look \in SUBSET Cids,
         Becomes(r, [req[r] EXCEPT !.entry = entry, !.look = look, !.pc = pc])
  PROVE  IInv'
<1> DEFINE q == [req[r] EXCEPT !.entry = entry, !.look = look, !.pc = pc]
<1>1. req[r] \in Request /\ PageInv(req[r])
  BY DEF IInv, TypeOK, RequestInv
<1>2. /\ q \in Request /\ q.pc = pc /\ q.op = req[r].op /\ q.entry = entry
      /\ q.hidden = req[r].hidden /\ q.dead = req[r].dead
      /\ q.done = req[r].done /\ q.todo = req[r].todo /\ q.page = req[r].page
  BY <1>1 DEF Request, PCs
<1>3. entry # None
  BY NoneAssumption
<1> HIDE DEF q
<1>4. PageInv(q)
  BY <1>1, <1>2, <1>3 DEF PageInv
<1>5. Becomes(r, q)
  BY DEF q
<1> QED
  BY <1>2, <1>4, <1>5, LocalStep DEF Pages, Writes

LEMMA CountCommentsStep == ASSUME IInv, NEW r \in Reqs, CountComments(r) PROVE IInv'
<1> DEFINE n == CountOn(req[r].entry.post)
           entry == [req[r].entry EXCEPT !.count = n]
<1>1. /\ req[r] \in Request /\ PageInv(req[r])
      /\ req[r].pc = "count" /\ req[r].op \in Pages /\ Reading
      /\ Becomes(r, [req[r] EXCEPT !.entry.count = n, !.pc = "comments"])
  BY DEF IInv, TypeOK, RequestInv, CountComments, At
<1>2. n \in Nat
  <2>1. CommentsOn(req[r].entry.post) \subseteq Cids
    BY DEF CommentsOn, IInv, TypeOK
  <2> QED
    BY <2>1, IdsAssumption, FS_Subset, FS_CardinalityType DEF CountOn
<1> HIDE DEF n
<1>3. req[r].entry \in Entry
  BY <1>1 DEF Request, PageInv
<1>4. entry \in Entry /\ entry.post = req[r].entry.post
  BY <1>2, <1>3 DEF Entry
<1>5. [req[r] EXCEPT !.entry.count = n, !.pc = "comments"] =
        [req[r] EXCEPT !.entry = entry, !.look = req[r].look, !.pc = "comments"]
  BY <1>1 DEF Request
<1>6. req[r].look \in SUBSET Cids
  BY <1>1 DEF Request
<1> HIDE DEF entry
<1> QED
  BY <1>1, <1>4, <1>5, <1>6, EntryStep

LEMMA SelectCommentsStep ==
  ASSUME IInv, NEW r \in Reqs, SelectComments(r) PROVE IInv'
<1> DEFINE all == CommentsOn(req[r].entry.post)
<1>1. PICK few \in IF req[r].op = "post" THEN {all} ELSE Latest(all) :
        Becomes(r, [req[r] EXCEPT !.entry.comments = few, !.look = few,
                                   !.pc = "users"])
  BY DEF SelectComments
<1>2. few \in SUBSET Cids
  BY <1>1 DEF CommentsOn, Latest, IInv, TypeOK
<1> HIDE DEF all
<1> DEFINE entry == [req[r].entry EXCEPT !.comments = few]
<1>3. /\ req[r] \in Request /\ PageInv(req[r])
      /\ req[r].pc = "comments" /\ req[r].op \in Pages /\ Reading
  BY DEF IInv, TypeOK, RequestInv, SelectComments, At
<1>4. req[r].entry \in Entry
  BY <1>3 DEF Request, PageInv
<1>5. entry \in Entry /\ entry.post = req[r].entry.post
  BY <1>2, <1>4 DEF Entry
<1>6. [req[r] EXCEPT !.entry.comments = few, !.look = few, !.pc = "users"] =
        [req[r] EXCEPT !.entry = entry, !.look = few, !.pc = "users"]
  BY <1>3 DEF Request
<1> HIDE DEF entry
<1> QED
  BY <1>1, <1>2, <1>3, <1>5, <1>6, EntryStep

LEMMA SelectCommenterStep ==
  ASSUME IInv, NEW r \in Reqs, SelectCommenter(r) PROVE IInv'
<1>1. /\ req[r] \in Request /\ PageInv(req[r])
      /\ req[r].pc = "users" /\ req[r].op \in Pages /\ Reading
  BY DEF IInv, TypeOK, RequestInv, SelectCommenter, At
<1>2. CASE Becomes(r, Failed(req[r]))
  BY <1>1, <1>2, AnsweredStep DEF Pages
<1>3. CASE \E c \in req[r].look :
             Becomes(r, [req[r] EXCEPT !.look = @ \ {c}])
  <2>1. PICK c \in req[r].look : Becomes(r, [req[r] EXCEPT !.look = @ \ {c}])
    BY <1>3
  <2> DEFINE look == req[r].look \ {c}
  <2>2. look \in SUBSET Cids /\ req[r].entry \in Entry
    BY <1>1 DEF Request, PageInv
  <2>3. [req[r] EXCEPT !.look = @ \ {c}] =
          [req[r] EXCEPT !.entry = req[r].entry, !.look = look, !.pc = "users"]
    BY <1>1 DEF Request
  <2> HIDE DEF look
  <2> QED
    BY <1>1, <2>1, <2>2, <2>3, EntryStep
<1> QED
  BY <1>2, <1>3 DEF SelectCommenter

\* Only the post of a user who is not banned now goes on the page; hidden are
\* users who are.
LEMMA SelectAuthorStep ==
  ASSUME IInv, NEW r \in Reqs, SelectAuthor(r) PROVE IInv'
<1> DEFINE q == req[r]
           author == postOf[q.entry.post].author
           page == IF Shows(author) THEN Append(q.page, q.entry) ELSE q.page
<1>1. /\ q \in Request /\ PageInv(q) /\ q.hidden \subseteq banned
      /\ q.pc = "users" /\ q.op \in Pages /\ Reading
  BY DEF IInv, TypeOK, RequestInv, SelectAuthor, At
<1>2. CASE Becomes(r, Failed(q))
  BY <1>1, <1>2, AnsweredStep DEF Pages
<1>3. CASE \E p \in NextPost(q, q.todo, page) : Becomes(r, p)
  <2>1. /\ q.entry \in Entry /\ postOf[q.entry.post] # None
        /\ q.page \in Seq(Entry) /\ q.todo \in SUBSET Pids
        /\ \A p \in q.todo : postOf[p] # None
        /\ \A i \in DOMAIN q.page :
             /\ postOf[q.page[i].post] # None
             /\ postOf[q.page[i].post].author \notin q.hidden
    BY <1>1 DEF Request, PageInv
  <2>2. /\ page \in Seq(Entry)
        /\ \A i \in DOMAIN page : /\ postOf[page[i].post] # None
                                  /\ postOf[page[i].post].author \notin q.hidden
    <3>1. CASE Shows(author)
      <4>1. author \notin q.hidden
        BY <1>1, <3>1 DEF Shows
      <4>2. page = Append(q.page, q.entry)
        BY <3>1
      <4>3. /\ page \in Seq(Entry)
            /\ \A i \in DOMAIN page :
                 \/ i \in DOMAIN q.page /\ page[i] = q.page[i]
                 \/ page[i] = q.entry
        <5>1. q.page \in Seq(Entry) /\ q.entry \in Entry
          BY <2>1
        <5>2. /\ Append(q.page, q.entry) \in Seq(Entry)
              /\ \A i \in DOMAIN Append(q.page, q.entry) :
                   \/ i \in DOMAIN q.page /\ Append(q.page, q.entry)[i] = q.page[i]
                   \/ Append(q.page, q.entry)[i] = q.entry
          BY <5>1
        <5> QED
          BY <4>2, <5>2
      <4> HIDE DEF page
      <4> QED
        BY <2>1, <4>1, <4>3
    <3>2. CASE ~ Shows(author)
      BY <2>1, <3>2
    <3> QED
      BY <3>1, <3>2
  <2> HIDE DEF page
  <2> QED
    BY <1>1, <1>3, <2>1, <2>2, NextPostStep
<1> QED
  BY <1>2, <1>3 DEF SelectAuthor

LEMMA GetImageStep == ASSUME IInv, NEW r \in Reqs, GetImage(r) PROVE IInv'
<1> DEFINE entry == [post |-> req[r].post, count |-> 0, comments |-> {}]
           q == [Served(req[r]) EXCEPT !.page = <<entry>>]
<1>1. /\ req[r] \in Request /\ PageInv(req[r])
      /\ req[r].pc = "select" /\ req[r].op = "image" /\ Reading
  BY DEF IInv, TypeOK, RequestInv, GetImage, At
<1>2. CASE Becomes(r, Failed(req[r]))
  BY <1>1, <1>2, AnsweredStep
<1>3. CASE req[r].post \in posts /\ Becomes(r, q)
  <2>1. req[r].post \in Pids /\ postOf[req[r].post] # None
    BY <1>3 DEF IInv, TypeOK
  <2>2. entry \in Entry /\ entry.post = req[r].post
    BY <2>1 DEF Entry
  <2> HIDE DEF entry
  <2>3. <<entry>> \in Seq(Entry) /\ \A i \in DOMAIN <<entry>> : <<entry>>[i] = entry
    BY <2>2
  <2>4. /\ q \in Request /\ q.pc = "reply" /\ q.op = req[r].op
        /\ q.hidden = req[r].hidden /\ q.dead = req[r].dead
        /\ q.done = req[r].done /\ q.todo = req[r].todo
        /\ q.page = <<entry>>
    BY <1>1, <2>3 DEF Request, PCs, Served
  <2> HIDE DEF q
  <2>5. PageInv(q)
    BY <1>1, <2>1, <2>2, <2>3, <2>4 DEF PageInv, Pages
  <2> QED
    BY <1>1, <1>3, <2>4, <2>5, LocalStep DEF Pages, Writes
<1> QED
  BY <1>2, <1>3 DEF GetImage

LEMMA SelectFailsStep ==
  ASSUME IInv, NEW r \in Reqs,
         SelectFails(r) \/ CountUser(r) \/ InsertFails(r) \/ EndBan(r)
  PROVE  IInv'
<1>1. req[r].op # "initialize"
  BY DEF SelectFails, CountUser, InsertFails, EndBan, At, IInv, RequestInv,
         InitializePCs, Inserts, Writes
<1>2. /\ req[r].pc # "idle" /\ Reading
      /\ Becomes(r, Served(req[r])) \/ Becomes(r, Failed(req[r]))
  BY DEF SelectFails, CountUser, InsertFails, EndBan, At
<1> QED
  BY <1>1, <1>2, AnsweredStep

-----------------------------------------------------------------------------
(***************************************************************************)
(* The steps that write.                                                   *)
(***************************************************************************)
\* Rows that are added, by a request that may: what is there stays as it is.
LEMMA InsertStep ==
  ASSUME IInv, NEW r \in Reqs, NEW q \in Request,
         Becomes(r, q), UNCHANGED <<banned, now, history>>,
         req[r].pc = "insert", req[r].op \in Inserts,
         q.pc = "reply", q.op = req[r].op,
         q.hidden = req[r].hidden, q.dead = req[r].dead, q.done = req[r].done,
         q.todo = req[r].todo, q.page = req[r].page,
         WriterInv(q), TypeOK',
         users \subseteq users', posts \subseteq posts', comments \subseteq comments',
         \A p \in Pids : postOf[p] # None => postOf'[p] = postOf[p],
         \A c \in Cids : commentOf[c] # None => commentOf'[c] = commentOf[c],
         \A p \in posts' \ posts : /\ req[r].op \in Writes
                                   /\ postOf'[p].author = req[r].user,
         \A c \in comments' \ comments : /\ req[r].op \in Writes
                                         /\ commentOf'[c].author = req[r].user
  PROVE  IInv'
<1> USE DEF history
<1>1. /\ TypeOK /\ req \in [Reqs -> Request] /\ RequestInv(req[r])
      /\ req' = [req EXCEPT ![r] = q]
  BY DEF IInv, TypeOK, Becomes
<1>2. /\ req' \in [Reqs -> Request] /\ req'[r] = q
      /\ \A s \in Reqs \ {r} : req'[s] = req[s]
  BY <1>1
<1>3. SeedInv'
  BY NoneAssumption, SeedAssumption DEF IInv, SeedInv
<1>4. (dead \subseteq banned)'
  BY DEF IInv
<1>5. ASSUME NEW s \in Reqs PROVE RequestInv(req[s])'
  <2>1. PageInv(req[s]) /\ WriterInv(req[s]) /\ req[s] \in Request
    BY <1>1 DEF IInv, RequestInv
  <2>2. \A p \in Pids : postOf[p] # None => postOf'[p] = postOf[p]
    OBVIOUS
  <2>3. /\ \A p \in req[s].todo : postOf'[p] # None
        /\ \A i \in DOMAIN req[s].page :
             /\ postOf'[req[s].page[i].post] # None
             /\ req[s].op \in Pages =>
                  postOf'[req[s].page[i].post].author \notin req[s].hidden
    <3>1. req[s].todo \subseteq Pids
      BY <2>1 DEF Request
    <3>2. \A i \in DOMAIN req[s].page : req[s].page[i].post \in Pids
      <4>1. req[s].page \in Seq(Entry)
        BY <2>1 DEF Request
      <4>2. \A i \in DOMAIN req[s].page : req[s].page[i] \in Entry
        BY <4>1
      <4> QED
        BY <4>2 DEF Entry
    <3> QED
      BY <2>1, <2>2, <3>1, <3>2 DEF PageInv
  <2>4. CASE s = r
    <3>1. req'[s] = q /\ PageInv(q)'
      BY <1>2, <2>3, <2>4 DEF PageInv
    <3>2. WriterInv(q)'
      BY DEF WriterInv
    <3> QED
      BY <1>1, <2>4, <3>1, <3>2 DEF RequestInv, Inserts, Writes
  <2>5. CASE s # r
    <3>1. req'[s] = req[s] /\ RequestInv(req[s])
      BY <1>2, <2>5 DEF IInv
    <3>2. req[s].pc \in {"count", "comments", "users"} =>
            req[s].entry # None /\ postOf'[req[s].entry.post] # None
      BY <2>1, <2>2 DEF PageInv, Request, Entry
    <3>3. PageInv(req[s])'
      BY <2>3, <3>1, <3>2 DEF PageInv
    <3> QED
      BY <3>1, <3>3 DEF RequestInv
  <2> QED
    BY <2>4, <2>5
<1>6. ASSUME NEW s \in Reqs PROVE AloneInv(s)'
  \* An /initialize that is alone would not have met this request.
  <2>1. CASE s = r
    BY <1>2, <2>1 DEF AloneInv, Inserts, Writes
  <2>2. CASE s # r
    BY <1>2, <2>2 DEF IInv, AloneInv
  <2> QED
    BY <2>1, <2>2
<1>7. ASSUME ~ torn' PROVE IntegrityInv'
  <2>1. ~ torn /\ IntegrityInv
    BY <1>7 DEF IInv
  <2>2. \A s \in Reqs : /\ req'[s].op = req[s].op
                        /\ (req'[s].pc = "idle") = (req[s].pc = "idle")
    BY <1>2
  <2>3. \A s \in Reqs, pc \in PCs :
          At(s, pc, {"initialize"}) => At(s, pc, {"initialize"})'
    BY <1>2 DEF At, Inserts, Writes
  <2>4. "delPosts" \in PCs /\ "delComments" \in PCs
    BY DEF PCs
  <2>5. \A s \in Reqs : At(s, "insert", Writes)' => req'[s].user \in users'
    BY <1>2, <2>1 DEF IntegrityInv, At
  <2>6. req[r].op \in Writes => req[r].user \in users'
    BY <2>1 DEF IntegrityInv, At
  <2>7. \A p \in posts' : \/ postOf'[p].author \in users'
                          \/ p \in posts /\ postOf'[p] = postOf[p]
    <3>1. \A p \in posts : p \in Pids /\ postOf[p] # None
      BY <1>1 DEF TypeOK
    <3> QED
      BY <2>6, <3>1
  <2>8. \A c \in comments' : \/ commentOf'[c].author \in users'
                             \/ c \in comments /\ commentOf'[c] = commentOf[c]
    <3>1. \A c \in comments : c \in Cids /\ commentOf[c] # None
      BY <1>1 DEF TypeOK
    <3> QED
      BY <2>6, <3>1
  <2>9. \A p \in posts' : \/ postOf'[p].author \in users'
                          \/ \E s \in Reqs : At(s, "delPosts", {"initialize"})'
    BY <2>1, <2>3, <2>4, <2>7 DEF IntegrityInv
  <2>10. \A c \in comments' :
           \/ commentOf'[c].author \in users'
           \/ \E s \in Reqs : \/ At(s, "delPosts", {"initialize"})'
                              \/ At(s, "delComments", {"initialize"})'
    BY <2>1, <2>3, <2>4, <2>8 DEF IntegrityInv
  <2> QED
    BY <2>1, <2>2, <2>5, <2>9, <2>10 DEF IntegrityInv
<1> QED
  BY <1>3, <1>4, <1>5, <1>6, <1>7 DEF IInv

LEMMA InsertPostStep == ASSUME IInv, NEW r \in Reqs, InsertPost(r) PROVE IInv'
<1> USE NoneAssumption DEF history
<1>1. PICK p \in Pids :
        /\ postOf[p] = None /\ posts' = posts \cup {p}
        /\ postOf' = [postOf EXCEPT ![p] = [author |-> req[r].user, at |-> now]]
        /\ Becomes(r, [Served(req[r]) EXCEPT !.post = p])
  BY DEF InsertPost
<1>2. /\ TypeOK /\ req[r] \in Request /\ req \in [Reqs -> Request]
      /\ req[r].pc = "insert" /\ req[r].op = "newPost"
      /\ UNCHANGED <<users, banned, given, comments, commentOf, now, acked, dead, torn>>
  BY DEF IInv, TypeOK, InsertPost, At
<1> DEFINE q == [Served(req[r]) EXCEPT !.post = p]
<1>3. /\ q \in Request /\ q.pc = "reply" /\ q.op = req[r].op
      /\ q.hidden = req[r].hidden /\ q.dead = req[r].dead
      /\ q.done = req[r].done /\ q.todo = req[r].todo /\ q.page = req[r].page
  BY <1>2 DEF Request, Served, PCs
<1> HIDE DEF q
<1>4. Becomes(r, q)
  BY <1>1 DEF q
<1>5. req[r].user \in Uids
  BY <1>2 DEF IInv, RequestInv, WriterInv, Writes
<1>6. /\ postOf' \in [Pids -> Post \cup {None}] /\ postOf'[p] # None
      /\ postOf'[p].author = req[r].user
      /\ \A o \in Pids : postOf[o] # None => postOf'[o] = postOf[o]
  <2>1. [author |-> req[r].user, at |-> now] \in Post
    BY <1>2, <1>5 DEF Post, TypeOK
  <2> QED
    BY <1>1, <1>2, <2>1 DEF TypeOK
<1>7. TypeOK'
  <2>1. req' \in [Reqs -> Request]
    BY <1>2, <1>3, <1>4 DEF Becomes
  <2> QED
    BY <1>1, <1>2, <1>6, <2>1 DEF TypeOK
<1>8. WriterInv(q)
  BY <1>2, <1>5 DEF WriterInv, Writes, q, Served, Request
<1> QED
  BY <1>1, <1>2, <1>3, <1>4, <1>6, <1>7, <1>8, InsertStep DEF Inserts, Writes

LEMMA InsertCommentStep ==
  ASSUME IInv, NEW r \in Reqs, InsertComment(r) PROVE IInv'
<1> USE NoneAssumption DEF history
<1>1. PICK c \in Cids :
        /\ commentOf[c] = None /\ comments' = comments \cup {c}
        /\ commentOf' = [commentOf EXCEPT ![c] =
             [post |-> req[r].post, author |-> req[r].user, at |-> now]]
        /\ Becomes(r, [Served(req[r]) EXCEPT !.look = {c}])
  BY DEF InsertComment
<1>2. /\ TypeOK /\ req[r] \in Request /\ req \in [Reqs -> Request]
      /\ req[r].pc = "insert" /\ req[r].op = "newComment"
      /\ UNCHANGED <<users, banned, given, posts, postOf, now, acked, dead, torn>>
  BY DEF IInv, TypeOK, InsertComment, At
<1> DEFINE q == [Served(req[r]) EXCEPT !.look = {c}]
<1>3. /\ q \in Request /\ q.pc = "reply" /\ q.op = req[r].op
      /\ q.hidden = req[r].hidden /\ q.dead = req[r].dead
      /\ q.done = req[r].done /\ q.todo = req[r].todo /\ q.page = req[r].page
  BY <1>2 DEF Request, Served, PCs
<1> HIDE DEF q
<1>4. Becomes(r, q)
  BY <1>1 DEF q
<1>5. req[r].user \in Uids /\ req[r].post \in Pids
  BY <1>2 DEF IInv, RequestInv, WriterInv, Writes
<1>6. /\ commentOf' \in [Cids -> Comment \cup {None}] /\ commentOf'[c] # None
      /\ commentOf'[c].author = req[r].user
      /\ \A o \in Cids : commentOf[o] # None => commentOf'[o] = commentOf[o]
  <2>1. [post |-> req[r].post, author |-> req[r].user, at |-> now] \in Comment
    BY <1>2, <1>5 DEF Comment, TypeOK
  <2> QED
    BY <1>1, <1>2, <2>1 DEF TypeOK
<1>7. TypeOK'
  <2>1. req' \in [Reqs -> Request]
    BY <1>2, <1>3, <1>4 DEF Becomes
  <2> QED
    BY <1>1, <1>2, <1>6, <2>1 DEF TypeOK
<1>8. WriterInv(q)
  BY <1>2, <1>5 DEF WriterInv, Writes, q, Served, Request
<1> QED
  BY <1>1, <1>2, <1>3, <1>4, <1>6, <1>7, <1>8, InsertStep DEF Inserts, Writes

LEMMA InsertUserStep == ASSUME IInv, NEW r \in Reqs, InsertUser(r) PROVE IInv'
<1> USE DEF history
<1>1. PICK u \in Uids \ given :
        /\ users' = users \cup {u} /\ given' = given \cup {u}
        /\ Becomes(r, [Served(req[r]) EXCEPT !.user = u])
  BY DEF InsertUser
<1>2. /\ TypeOK /\ req[r] \in Request /\ req \in [Reqs -> Request]
      /\ req[r].pc = "insert" /\ req[r].op = "register"
      /\ UNCHANGED <<banned, posts, postOf, comments, commentOf, now, acked, dead, torn>>
  BY DEF IInv, TypeOK, InsertUser, At
<1> DEFINE q == [Served(req[r]) EXCEPT !.user = u]
<1>3. /\ q \in Request /\ q.pc = "reply" /\ q.op = req[r].op
      /\ q.hidden = req[r].hidden /\ q.dead = req[r].dead
      /\ q.done = req[r].done /\ q.todo = req[r].todo /\ q.page = req[r].page
  BY <1>2 DEF Request, Served, PCs
<1> HIDE DEF q
<1>4. Becomes(r, q)
  BY <1>1 DEF q
<1>5. TypeOK'
  <2>1. req' \in [Reqs -> Request]
    BY <1>2, <1>3, <1>4 DEF Becomes
  <2> QED
    BY <1>1, <1>2, <2>1 DEF TypeOK
<1> QED
  BY <1>1, <1>2, <1>3, <1>4, <1>5, InsertStep DEF Inserts, Writes, WriterInv

\* What other requests come to know of a step that bans, or that takes rows or
\* bans away, leaves them as far as they are.
Aware(q, p) ==
    /\ p.op = q.op /\ p.pc = q.pc /\ p.user = q.user /\ p.post = q.post
    /\ p.todo = q.todo /\ p.entry = q.entry /\ p.page = q.page
    /\ p.hidden \subseteq q.hidden

\* A step of a ban or of an /initialize.
LEMMA ModerateStep ==
  ASSUME IInv, NEW r \in Reqs, req[r].pc # "idle",
         req[r].op \in {"ban", "initialize"},
         req' \in [Reqs -> Request], TypeOK', SeedInv',
         UNCHANGED <<postOf, commentOf>>, (dead \subseteq banned)',
         \A s \in Reqs : /\ req'[s].hidden \subseteq banned'
                         /\ req'[s].done \subseteq banned'
                         /\ req'[s].dead \subseteq req'[s].hidden,
         \A s \in Reqs \ {r} : Aware(req[s], req'[s]),
         \A s \in Reqs \ {r} : req[s].pc = "idle" => req'[s] = req[s],
         req'[r].op = req[r].op, req'[r].pc # "idle",
         req'[r].todo = req[r].todo, req'[r].page = req[r].page,
         req[r].op = "initialize" => req'[r].pc \in InitializePCs,
         req[r].op = "ban" => req'[r].pc \in {"update", "reply"},
         AloneInv(r)', req[r].op = "ban" => users' = users,
         \A s \in Reqs \ {r} : AloneInv(s)',
         ~ torn' => IntegrityInv'
  PROVE  IInv'
<1>1. ASSUME NEW s \in Reqs PROVE RequestInv(req[s])'
  <2>1. RequestInv(req[s])
    BY DEF IInv
  <2>2. CASE s = r
    <3>1. PageInv(req[s])'
      BY <2>1, <2>2 DEF RequestInv, PageInv, InitializePCs, Pages
    <3>2. WriterInv(req[s])'
      BY <2>2 DEF WriterInv, Writes
    <3> QED
      BY <2>2, <3>1, <3>2 DEF RequestInv
  <2>3. CASE s # r
    <3>1. PageInv(req[s])' /\ WriterInv(req[s])'
      BY <2>1, <2>3 DEF RequestInv, PageInv, WriterInv, Aware
    <3> QED
      BY <2>1, <2>3, <3>1 DEF RequestInv, Aware
  <2> QED
    BY <2>2, <2>3
<1>2. \A s \in Reqs : AloneInv(s)'
  OBVIOUS
<1> QED
  BY <1>1, <1>2 DEF IInv

\* What was banned when a request was sent is banned still.
LEMMA BanOneStep == ASSUME IInv, NEW r \in Reqs, BanOne(r) PROVE IInv'
<1> USE DEF history
<1>1. /\ TypeOK /\ req \in [Reqs -> Request] /\ req[r] \in Request
      /\ RequestInv(req[r]) /\ SeedInv /\ dead \subseteq banned
      /\ req[r].pc = "update" /\ req[r].op = "ban"
      /\ UNCHANGED <<users, given, posts, postOf, comments, commentOf, now,
                     acked, dead, torn>>
  BY DEF IInv, TypeOK, BanOne, At
<1>2. PICK u \in req[r].left :
         \/ /\ banned' = banned \cup Updated(u)
            /\ req' = [q \in Reqs |->
                  IF q = r THEN [req[r] EXCEPT !.left = @ \ {u},
                                               !.done = @ \cup Updated(u)]
                  ELSE IF req[q].pc = "idle" THEN req[q]
                  ELSE [req[q] EXCEPT !.flicker = @ \cup Updated(u)]]
         \/ /\ Becomes(r, [req[r] EXCEPT !.left = @ \ {u}])
            /\ UNCHANGED banned
  BY DEF BanOne
<1>3. Updated(u) \subseteq users /\ Updated(u) \subseteq Uids
  BY <1>1 DEF Updated, TypeOK
<1> DEFINE more == IF UNCHANGED banned THEN {} ELSE Updated(u)
<1>4. /\ req' \in [Reqs -> Request]
      /\ \A s \in Reqs \ {r} :
           /\ req'[s].op = req[s].op /\ req'[s].pc = req[s].pc
           /\ req'[s].user = req[s].user /\ req'[s].post = req[s].post
           /\ req'[s].todo = req[s].todo /\ req'[s].entry = req[s].entry
           /\ req'[s].page = req[s].page /\ req'[s].alone = req[s].alone
           /\ req'[s].hidden = req[s].hidden /\ req'[s].done = req[s].done
           /\ req'[s].dead = req[s].dead
           /\ req[s].pc = "idle" => req'[s] = req[s]
      /\ req'[r].op = req[r].op /\ req'[r].pc = req[r].pc
      /\ req'[r].todo = req[r].todo /\ req'[r].page = req[r].page
      /\ req'[r].hidden = req[r].hidden /\ req'[r].dead = req[r].dead
      /\ req'[r].done \subseteq req[r].done \cup banned'
      /\ banned \subseteq banned' /\ banned' \subseteq users
  <2>1. CASE /\ banned' = banned \cup Updated(u)
             /\ req' = [q \in Reqs |->
                  IF q = r THEN [req[r] EXCEPT !.left = @ \ {u},
                                               !.done = @ \cup Updated(u)]
                  ELSE IF req[q].pc = "idle" THEN req[q]
                  ELSE [req[q] EXCEPT !.flicker = @ \cup Updated(u)]]
    <3>1. ASSUME NEW s \in Reqs PROVE req'[s] \in Request
      <4>1. CASE s = r
        BY <1>1, <1>3, <2>1, <4>1 DEF Request
      <4>2. CASE s # r
        BY <1>1, <1>3, <2>1, <4>2, ZenonT(40) DEF Request
      <4> QED
        BY <4>1, <4>2
    <3>2. req' \in [Reqs -> Request]
      BY <2>1, <3>1
    <3>3. banned \subseteq banned' /\ banned' \subseteq users
      BY <1>1, <1>3, <2>1 DEF TypeOK
    <3>4. ASSUME NEW s \in Reqs \ {r}
          PROVE  /\ req'[s].op = req[s].op /\ req'[s].pc = req[s].pc
                 /\ req'[s].user = req[s].user /\ req'[s].post = req[s].post
                 /\ req'[s].todo = req[s].todo /\ req'[s].entry = req[s].entry
                 /\ req'[s].page = req[s].page /\ req'[s].alone = req[s].alone
                 /\ req'[s].hidden = req[s].hidden
                 /\ req'[s].done = req[s].done /\ req'[s].dead = req[s].dead
                 /\ req[s].pc = "idle" => req'[s] = req[s]
      BY <1>1, <2>1 DEF Request
    <3>5. /\ req'[r].op = req[r].op /\ req'[r].pc = req[r].pc
          /\ req'[r].todo = req[r].todo /\ req'[r].page = req[r].page
          /\ req'[r].hidden = req[r].hidden /\ req'[r].dead = req[r].dead
          /\ req'[r].done \subseteq req[r].done \cup banned'
      BY <1>1, <2>1 DEF Request
    <3> QED
      BY <3>2, <3>3, <3>4, <3>5
  <2>2. CASE /\ Becomes(r, [req[r] EXCEPT !.left = @ \ {u}])
             /\ UNCHANGED banned
    <3>1. [req[r] EXCEPT !.left = @ \ {u}] \in Request
      BY <1>1 DEF Request
    <3> QED
      BY <1>1, <2>2, <3>1 DEF Becomes, TypeOK, Request
  <2> QED
    BY <1>2, <2>1, <2>2
<1>5. TypeOK' /\ SeedInv' /\ (dead \subseteq banned)'
  BY <1>1, <1>4 DEF TypeOK, SeedInv
<1>6. \A s \in Reqs : /\ req'[s].hidden \subseteq banned'
                      /\ req'[s].done \subseteq banned'
                      /\ req'[s].dead \subseteq req'[s].hidden
  BY <1>4 DEF IInv, RequestInv
<1>7. \A s \in Reqs \ {r} : /\ Aware(req[s], req'[s])
                            /\ req[s].pc = "idle" => req'[s] = req[s]
  BY <1>4 DEF Aware
\* An /initialize that is alone has not met this ban.
<1>8. AloneInv(r)' /\ \A s \in Reqs \ {r} : AloneInv(s)'
  <2>1. AloneInv(r)'
    BY <1>1, <1>4 DEF AloneInv
  <2>2. ASSUME NEW s \in Reqs \ {r} PROVE AloneInv(s)'
    BY <1>1, <1>4 DEF IInv, AloneInv
  <2> QED
    BY <2>1, <2>2
<1>9. ASSUME ~ torn' PROVE IntegrityInv'
  <2>1. IntegrityInv
    BY <1>1, <1>9 DEF IInv
  <2>2. \A s \in Reqs : /\ req'[s].op = req[s].op /\ req'[s].pc = req[s].pc
                        /\ req[s].op \in Writes => req'[s].user = req[s].user
    BY <1>1, <1>4 DEF Writes
  <2> QED
    BY <1>1, <2>1, <2>2 DEF IntegrityInv, At
<1> QED
  BY <1>1, <1>4, <1>5, <1>6, <1>7, <1>8, <1>9, ModerateStep

\* The requests after a statement of /initialize: the users who are not shown
\* are forgotten.
Moved(r, pc, shown) ==
    /\ req' \in [Reqs -> Request]
    /\ \A s \in Reqs :
         /\ req'[s].op = req[s].op /\ req'[s].user = req[s].user
         /\ req'[s].todo = req[s].todo /\ req'[s].page = req[s].page
         /\ req'[s].post = req[s].post /\ req'[s].entry = req[s].entry
         /\ req'[s].hidden = req[s].hidden \cap shown
         /\ req'[s].done = req[s].done \cap shown
         /\ req'[s].dead = req[s].dead \cap shown
    /\ \A s \in Reqs \ {r} :
         /\ req'[s].pc = req[s].pc /\ req'[s].alone = req[s].alone
         /\ req[s].pc = "idle" => req'[s] = req[s]
    /\ req'[r].pc = pc
    /\ req'[r].alone => req[r].alone

LEMMA GotoMoves ==
  ASSUME IInv, NEW r \in Reqs, req[r].pc # "idle",
         NEW pc \in PCs, NEW shown, NEW rest, Goto(r, pc, shown, rest)
  PROVE  Moved(r, pc, shown)
<1>1. req \in [Reqs -> Request] /\ \A s \in Reqs : RequestInv(req[s])
  BY DEF IInv, TypeOK
<1>2. ASSUME NEW q \in Request, q.pc = "idle" => q = Idle
      PROVE  LET p == Remember(q, shown, rest)
             IN  /\ p \in Request
                 /\ p.op = q.op /\ p.pc = q.pc /\ p.user = q.user
                 /\ p.post = q.post /\ p.todo = q.todo /\ p.entry = q.entry
                 /\ p.page = q.page /\ p.alone = q.alone
                 /\ p.hidden = q.hidden \cap shown
                 /\ p.done = q.done \cap shown /\ p.dead = q.dead \cap shown
                 /\ q.pc = "idle" => p = q
                 /\ [p EXCEPT !.pc = pc] \in Request
  <2>1. CASE q.pc = "idle"
    BY <1>2, <2>1 DEF Remember, Idle, Request
  <2>2. CASE q.pc # "idle"
    <3> DEFINE p == Remember(q, shown, rest)
    <3> DEFINE hidden == q.hidden \cap shown
               done == q.done \cap shown
               gone == q.dead \cap shown
               due == q.due \cap rest
               purged == q.purged \/ rest # Pids \cup Cids
    <3>1. p = [q EXCEPT !.hidden = hidden, !.done = done, !.dead = gone,
                        !.due = due, !.purged = purged]
      BY <2>2 DEF Remember
    <3>2. /\ hidden \in SUBSET Uids /\ done \in SUBSET Uids
          /\ gone \in SUBSET Uids /\ due \in SUBSET (Pids \cup Cids)
          /\ purged \in BOOLEAN
      BY DEF Request
    <3>6. /\ hidden = q.hidden \cap shown /\ done = q.done \cap shown
          /\ gone = q.dead \cap shown
      OBVIOUS
    <3> HIDE DEF hidden, done, gone, due, purged, p
    <3>3. p \in Request
      BY <3>1, <3>2 DEF Request
    <3>4. [p EXCEPT !.pc = pc] \in Request
      BY <3>3 DEF Request
    <3>5. /\ p.op = q.op /\ p.pc = q.pc /\ p.user = q.user
          /\ p.post = q.post /\ p.todo = q.todo /\ p.entry = q.entry
          /\ p.page = q.page /\ p.alone = q.alone
          /\ p.hidden = q.hidden \cap shown
          /\ p.done = q.done \cap shown /\ p.dead = q.dead \cap shown
      BY <3>1, <3>6 DEF Request
    <3> QED
      BY <2>2, <3>3, <3>4, <3>5 DEF p
  <2> QED
    BY <2>1, <2>2
<1>3. \A s \in Reqs : req[s] \in Request /\ (req[s].pc = "idle" => req[s] = Idle)
  BY <1>1 DEF RequestInv
<1>4. req' = [s \in Reqs |->
                IF s = r THEN [Remember(req[s], shown, rest) EXCEPT !.pc = pc]
                         ELSE Remember(req[s], shown, rest)]
  BY DEF Goto
<1>5. ASSUME NEW s \in Reqs \ {r}
      PROVE  /\ req'[s] = Remember(req[s], shown, rest)
             /\ req'[s] \in Request
             /\ req'[s].op = req[s].op /\ req'[s].user = req[s].user
             /\ req'[s].todo = req[s].todo /\ req'[s].page = req[s].page
             /\ req'[s].post = req[s].post /\ req'[s].entry = req[s].entry
             /\ req'[s].hidden = req[s].hidden \cap shown
             /\ req'[s].done = req[s].done \cap shown
             /\ req'[s].dead = req[s].dead \cap shown
             /\ req'[s].pc = req[s].pc /\ req'[s].alone = req[s].alone
             /\ req[s].pc = "idle" => req'[s] = req[s]
  BY <1>2, <1>3, <1>4
<1>6. /\ req'[r] \in Request
      /\ req'[r].op = req[r].op /\ req'[r].user = req[r].user
      /\ req'[r].todo = req[r].todo /\ req'[r].page = req[r].page
      /\ req'[r].post = req[r].post /\ req'[r].entry = req[r].entry
      /\ req'[r].hidden = req[r].hidden \cap shown
      /\ req'[r].done = req[r].done \cap shown
      /\ req'[r].dead = req[r].dead \cap shown
      /\ req'[r].pc = pc /\ req'[r].alone = req[r].alone
  <2> DEFINE p == Remember(req[r], shown, rest)
  <2>1. /\ p \in Request /\ [p EXCEPT !.pc = pc] \in Request
        /\ p.op = req[r].op /\ p.user = req[r].user
        /\ p.todo = req[r].todo /\ p.page = req[r].page
        /\ p.post = req[r].post /\ p.entry = req[r].entry
        /\ p.hidden = req[r].hidden \cap shown
        /\ p.done = req[r].done \cap shown
        /\ p.dead = req[r].dead \cap shown /\ p.alone = req[r].alone
    BY <1>2, <1>3
  <2>2. req'[r] = [p EXCEPT !.pc = pc]
    BY <1>4
  <2> HIDE DEF p
  <2> QED
    BY <2>1, <2>2 DEF Request
<1>7. req' \in [Reqs -> Request]
  BY <1>4, <1>5, <1>6
<1> QED
  BY <1>5, <1>6, <1>7 DEF Moved

LEMMA FailedMoves ==
  ASSUME IInv, NEW r \in Reqs, NEW pc \in PCs, StatementFails(r, pc)
  PROVE  Moved(r, pc, Uids) /\ ~ req'[r].alone
<1>1. req \in [Reqs -> Request]
  BY DEF IInv, TypeOK
<1> DEFINE ok == pc = "reply"
           q == [req[r] EXCEPT !.pc = pc, !.alone = FALSE, !.ok = ok]
<1>2. ok \in BOOLEAN
  OBVIOUS
<1>3. /\ req'[r] = q /\ \A s \in Reqs \ {r} : req'[s] = req[s]
      /\ req' = [req EXCEPT ![r] = q]
  BY <1>1 DEF StatementFails
<1> HIDE DEF ok
<1>4. q \in Request
  <2>1. ASSUME NEW o \in Request, NEW alone \in BOOLEAN, NEW b \in BOOLEAN
        PROVE  [o EXCEPT !.pc = pc, !.alone = alone, !.ok = b] \in Request
    BY DEF Request
  <2> QED
    BY <1>1, <1>2, <2>1
<1>5. req' \in [Reqs -> Request]
  BY <1>1, <1>3, <1>4
<1>6. \A s \in Reqs : /\ req[s].hidden \subseteq Uids
                      /\ req[s].done \subseteq Uids /\ req[s].dead \subseteq Uids
  BY <1>1 DEF Request
<1>7. /\ q.op = req[r].op /\ q.user = req[r].user
      /\ q.todo = req[r].todo /\ q.page = req[r].page
      /\ q.post = req[r].post /\ q.entry = req[r].entry
      /\ q.hidden = req[r].hidden /\ q.done = req[r].done
      /\ q.dead = req[r].dead /\ q.pc = pc /\ q.alone = FALSE
  BY <1>1 DEF Request
<1> HIDE DEF q
<1> QED
  BY <1>3, <1>5, <1>6, <1>7 DEF Moved

\* Every statement of /initialize, whether it works or not.
LEMMA StatementStep ==
  ASSUME IInv, NEW r \in Reqs, req[r].pc # "idle", req[r].op = "initialize",
         NEW pc \in InitializePCs, NEW shown \in SUBSET Uids, Moved(r, pc, shown),
         TypeOK', SeedInv', UNCHANGED <<postOf, commentOf>>,
         dead' = dead \cap shown,
         banned \cap shown \subseteq banned',
         AloneInv(r)', ~ torn' => IntegrityInv'
  PROVE  IInv'
<1>1. \A s \in Reqs : RequestInv(req[s]) /\ AloneInv(s)
  BY DEF IInv
<1>2. (dead \subseteq banned)'
  BY DEF IInv
<1>3. \A s \in Reqs : /\ req'[s].hidden \subseteq banned'
                      /\ req'[s].done \subseteq banned'
                      /\ req'[s].dead \subseteq req'[s].hidden
  BY <1>1 DEF Moved, RequestInv
<1>4. \A s \in Reqs \ {r} : /\ Aware(req[s], req'[s])
                            /\ req[s].pc = "idle" => req'[s] = req[s]
  BY DEF Moved, Aware
\* No other /initialize is alone.
<1>5. \A s \in Reqs \ {r} : AloneInv(s)'
  BY <1>1 DEF Moved, AloneInv
<1>6. /\ req' \in [Reqs -> Request] /\ req'[r].op = req[r].op
      /\ req'[r].pc \in InitializePCs /\ req'[r].pc # "idle"
      /\ req'[r].todo = req[r].todo /\ req'[r].page = req[r].page
  BY DEF Moved, InitializePCs
<1> QED
  BY <1>2, <1>3, <1>4, <1>5, <1>6, ModerateStep

LEMMA StatementFailsStep ==
  ASSUME IInv, NEW r \in Reqs, req[r].pc # "idle", req[r].op = "initialize",
         NEW pc \in InitializePCs, StatementFails(r, pc)
  PROVE  IInv'
<1>1. pc \in PCs
  BY DEF PCs, InitializePCs
<1>2. Moved(r, pc, Uids) /\ ~ req'[r].alone
  BY <1>1, FailedMoves
<1>3. /\ UNCHANGED <<users, banned, given, posts, postOf, comments, commentOf,
                     now, acked, dead>> /\ torn' = TRUE
  BY DEF StatementFails, tables
<1>4. TypeOK' /\ SeedInv' /\ dead' = dead \cap Uids
  BY <1>2, <1>3 DEF IInv, TypeOK, SeedInv, Moved
<1>5. AloneInv(r)'
  BY <1>2 DEF AloneInv
<1> QED
  BY <1>2, <1>3, <1>4, <1>5, StatementStep

\* Unless torn, no write is in flight, and no other /initialize is where posts
\* or comments may have lost their user.
LEMMA DeleteUsersStep == ASSUME IInv, NEW r \in Reqs, DeleteUsers(r) PROVE IInv'
<1>1. /\ TypeOK /\ SeedInv /\ AloneInv(r) /\ (~ torn => IntegrityInv)
      /\ req[r].pc = "delUsers" /\ req[r].op = "initialize"
  BY DEF IInv, DeleteUsers, At
<1>2. CASE StatementFails(r, "delPosts")
  BY <1>1, <1>2, StatementFailsStep DEF InitializePCs
<1>3. CASE /\ users' = users \cap SeedUsers /\ banned' = banned \cap SeedUsers
           /\ dead' = dead \cap SeedUsers
           /\ Goto(r, "delPosts", SeedUsers, Pids \cup Cids)
           /\ UNCHANGED <<given, posts, postOf, comments, commentOf, now, acked, torn>>
  <2>1. Moved(r, "delPosts", SeedUsers)
    BY <1>1, <1>3, GotoMoves DEF PCs
  <2>2. TypeOK' /\ SeedInv'
    BY <1>1, <1>3, <2>1 DEF TypeOK, SeedInv, Moved
  <2>3. AloneInv(r)'
    BY <1>1, <1>3, <2>1 DEF AloneInv, Moved, SeedInv
  <2>4. ASSUME ~ torn' PROVE IntegrityInv'
    <3>1. IntegrityInv
      BY <1>1, <1>3, <2>4
    <3>2. \A s \in Reqs : ~ (req[s].pc # "idle" /\ req[s].op \in Writes)
      BY <1>1, <3>1 DEF IntegrityInv
    <3>3. \A s \in Reqs : ~ (req'[s].pc # "idle" /\ req'[s].op \in Writes)
      BY <1>1, <2>1, <3>2 DEF Moved
    <3>4. At(r, "delPosts", {"initialize"})'
      BY <1>1, <2>1 DEF At, Moved
    <3> QED
      BY <3>3, <3>4 DEF IntegrityInv, At
  <2>5. SeedUsers \in SUBSET Uids /\ "delPosts" \in InitializePCs
    BY SeedAssumption DEF InitializePCs
  <2> QED
    BY <1>1, <1>3, <2>1, <2>2, <2>3, <2>4, <2>5, StatementStep
<1> QED
  BY <1>2, <1>3 DEF DeleteUsers

LEMMA DeletePostsStep == ASSUME IInv, NEW r \in Reqs, DeletePosts(r) PROVE IInv'
<1>1. /\ TypeOK /\ SeedInv /\ AloneInv(r) /\ (~ torn => IntegrityInv)
      /\ req[r].pc = "delPosts" /\ req[r].op = "initialize"
  BY DEF IInv, DeletePosts, At
<1>2. CASE StatementFails(r, "delComments")
  BY <1>1, <1>2, StatementFailsStep DEF InitializePCs
<1>3. CASE /\ posts' = posts \cap SeedPosts
           /\ acked' = acked \cap (SeedPosts \cup Cids)
           /\ Goto(r, "delComments", Uids, SeedPosts \cup Cids)
           /\ UNCHANGED <<users, banned, given, postOf, comments, commentOf, now,
                          dead, torn>>
  <2>1. Moved(r, "delComments", Uids)
    BY <1>1, <1>3, GotoMoves DEF PCs
  <2>2. acked' \subseteq posts' \cup comments'
    BY <1>1, <1>3, IdsAssumption DEF TypeOK
  <2>3. TypeOK' /\ SeedInv' /\ dead' = dead \cap Uids
    BY <1>1, <1>3, <2>1, <2>2 DEF TypeOK, SeedInv, Moved
  <2>4. AloneInv(r)'
    BY <1>1, <1>3, <2>1 DEF AloneInv, Moved, SeedInv
  <2>5. ASSUME ~ torn' PROVE IntegrityInv'
    <3>1. IntegrityInv
      BY <1>1, <1>3, <2>5
    <3>2. \A s \in Reqs : ~ (req[s].pc # "idle" /\ req[s].op \in Writes)
      BY <1>1, <3>1 DEF IntegrityInv
    <3>3. \A s \in Reqs : ~ (req'[s].pc # "idle" /\ req'[s].op \in Writes)
      BY <1>1, <2>1, <3>2 DEF Moved
    <3>4. At(r, "delComments", {"initialize"})'
      BY <1>1, <2>1 DEF At, Moved
    <3>5. \A p \in posts' : postOf'[p].author \in users'
      BY <1>1, <1>3, SeedAssumption DEF SeedInv
    <3> QED
      BY <3>3, <3>4, <3>5 DEF IntegrityInv, At
  <2>6. Uids \in SUBSET Uids /\ "delComments" \in InitializePCs
    BY DEF InitializePCs
  <2> QED
    BY <1>1, <1>3, <2>1, <2>3, <2>4, <2>5, <2>6, StatementStep
<1> QED
  BY <1>2, <1>3 DEF DeletePosts

LEMMA DeleteCommentsStep ==
  ASSUME IInv, NEW r \in Reqs, DeleteComments(r) PROVE IInv'
<1>1. /\ TypeOK /\ SeedInv /\ AloneInv(r) /\ (~ torn => IntegrityInv)
      /\ req[r].pc = "delComments" /\ req[r].op = "initialize"
  BY DEF IInv, DeleteComments, At
<1>2. CASE StatementFails(r, "unban")
  BY <1>1, <1>2, StatementFailsStep DEF InitializePCs
<1>3. CASE /\ comments' = comments \cap SeedComments
           /\ acked' = acked \cap (Pids \cup SeedComments)
           /\ Goto(r, "unban", Uids, Pids \cup SeedComments)
           /\ UNCHANGED <<users, banned, given, posts, postOf, commentOf, now,
                          dead, torn>>
  <2>1. Moved(r, "unban", Uids)
    BY <1>1, <1>3, GotoMoves DEF PCs
  <2>2. acked' \subseteq posts' \cup comments'
    BY <1>1, <1>3, IdsAssumption DEF TypeOK
  <2>3. TypeOK' /\ SeedInv' /\ dead' = dead \cap Uids
    BY <1>1, <1>3, <2>1, <2>2 DEF TypeOK, SeedInv, Moved
  <2>4. AloneInv(r)'
    BY <1>1, <1>3, <2>1 DEF AloneInv, Moved, SeedInv
  <2>5. ASSUME ~ torn' PROVE IntegrityInv'
    <3>1. IntegrityInv
      BY <1>1, <1>3, <2>5
    <3>2. \A s \in Reqs : ~ (req[s].pc # "idle" /\ req[s].op \in Writes)
      BY <1>1, <3>1 DEF IntegrityInv
    <3>3. \A s \in Reqs : ~ (req'[s].pc # "idle" /\ req'[s].op \in Writes)
      BY <1>1, <2>1, <3>2 DEF Moved
    <3>4. \A s \in Reqs : At(s, "delPosts", {"initialize"}) =>
                            At(s, "delPosts", {"initialize"})'
      BY <1>1, <2>1 DEF At, Moved
    <3>5. \A c \in comments' : commentOf'[c].author \in users'
      BY <1>1, <1>3, SeedAssumption DEF SeedInv
    <3>6. \A p \in posts' : \/ postOf'[p].author \in users'
                            \/ \E s \in Reqs : At(s, "delPosts", {"initialize"})'
      BY <1>3, <3>1, <3>4 DEF IntegrityInv
    <3> QED
      BY <3>3, <3>5, <3>6 DEF IntegrityInv, At
  <2>6. Uids \in SUBSET Uids /\ "unban" \in InitializePCs
    BY DEF InitializePCs
  <2> QED
    BY <1>1, <1>3, <2>1, <2>3, <2>4, <2>5, <2>6, StatementStep
<1> QED
  BY <1>2, <1>3 DEF DeleteComments

\* The statements about bans come when posts and comments are in order.
LEMMA BansKeepIntegrity ==
  ASSUME IntegrityInv, NEW r \in Reqs, req[r].op = "initialize",
         req[r].pc \in {"unban", "reban"},
         UNCHANGED <<users, posts, postOf, comments, commentOf>>,
         \A s \in Reqs : req'[s].op = req[s].op,
         req'[r].pc # "idle",
         \A s \in Reqs \ {r} : req'[s].pc = req[s].pc
  PROVE  IntegrityInv'
<1>1. \A s \in Reqs : ~ (req'[s].pc # "idle" /\ req'[s].op \in Writes)
  BY DEF IntegrityInv, Writes
<1>2. \A s \in Reqs :
        /\ At(s, "delPosts", {"initialize"}) => At(s, "delPosts", {"initialize"})'
        /\ At(s, "delComments", {"initialize"}) =>
             At(s, "delComments", {"initialize"})'
  BY DEF At
<1>3. \A p \in posts : \/ postOf[p].author \in users
                       \/ \E s \in Reqs : At(s, "delPosts", {"initialize"})'
  BY <1>2 DEF IntegrityInv
<1>4. \A c \in comments : \/ commentOf[c].author \in users
                          \/ \E s \in Reqs : \/ At(s, "delPosts", {"initialize"})'
                                             \/ At(s, "delComments", {"initialize"})'
  BY <1>2 DEF IntegrityInv
<1>5. \A s \in Reqs : ~ At(s, "insert", Writes)'
  BY <1>1 DEF At
<1> QED
  BY <1>1, <1>3, <1>4, <1>5 DEF IntegrityInv

LEMMA UnbanAllStep == ASSUME IInv, NEW r \in Reqs, UnbanAll(r) PROVE IInv'
<1>1. /\ TypeOK /\ SeedInv /\ AloneInv(r) /\ (~ torn => IntegrityInv)
      /\ req[r].pc = "unban" /\ req[r].op = "initialize"
  BY DEF IInv, UnbanAll, At
<1>2. CASE StatementFails(r, "reban")
  BY <1>1, <1>2, StatementFailsStep DEF InitializePCs
<1>3. CASE /\ banned' = {} /\ dead' = {} /\ Goto(r, "reban", {}, Pids \cup Cids)
           /\ UNCHANGED <<users, given, posts, postOf, comments, commentOf, now,
                          acked, torn>>
  <2>1. Moved(r, "reban", {})
    BY <1>1, <1>3, GotoMoves DEF PCs
  <2>2. TypeOK' /\ SeedInv'
    BY <1>1, <1>3, <2>1 DEF TypeOK, SeedInv, Moved
  <2>3. AloneInv(r)'
    BY <1>1, <1>3, <2>1 DEF AloneInv, Moved
  <2>4. ~ torn' => IntegrityInv'
    BY <1>1, <1>3, <2>1, BansKeepIntegrity DEF Moved
  <2>5. {} \in SUBSET Uids /\ "reban" \in InitializePCs
    BY DEF InitializePCs
  <2> QED
    BY <1>1, <1>3, <2>1, <2>2, <2>3, <2>4, <2>5, StatementStep
<1> QED
  BY <1>2, <1>3 DEF UnbanAll

LEMMA BanFiftiethStep == ASSUME IInv, NEW r \in Reqs, BanFiftieth(r) PROVE IInv'
<1>1. /\ TypeOK /\ SeedInv /\ AloneInv(r) /\ (~ torn => IntegrityInv)
      /\ req[r].pc = "reban" /\ req[r].op = "initialize"
      /\ req \in [Reqs -> Request]
  BY DEF IInv, TypeOK, BanFiftieth, At
<1>2. CASE StatementFails(r, "reply")
  BY <1>1, <1>2, StatementFailsStep DEF InitializePCs
<1>3. CASE /\ banned' = banned \cup (Fiftieth \cap users)
           /\ req' = [q \in Reqs |->
                IF q = r THEN Served(req[r])
                ELSE IF req[q].pc = "idle" THEN req[q]
                ELSE [req[q] EXCEPT !.flicker = @ \cup (Fiftieth \cap users)]]
           /\ UNCHANGED <<users, given, posts, postOf, comments, commentOf, now,
                          history>>
  <2>1. Moved(r, "reply", Uids)
    <3>1. Fiftieth \cap users \subseteq Uids
      BY SeedAssumption
    <3>2. Served(req[r]) \in Request
      <4>1. req[r] \in Request
        BY <1>1
      <4> QED
        BY <4>1 DEF Served, Request, PCs
    <3>3. /\ req'[r] = Served(req[r])
          /\ \A s \in Reqs \ {r} :
               req'[s] = IF req[s].pc = "idle" THEN req[s]
                         ELSE [req[s] EXCEPT !.flicker = @ \cup (Fiftieth \cap users)]
      BY <1>3
    <3>4. ASSUME NEW s \in Reqs \ {r}
          PROVE  /\ req'[s] \in Request
                 /\ req'[s].op = req[s].op /\ req'[s].user = req[s].user
                 /\ req'[s].todo = req[s].todo /\ req'[s].page = req[s].page
                 /\ req'[s].post = req[s].post /\ req'[s].entry = req[s].entry
                 /\ req'[s].hidden = req[s].hidden /\ req'[s].done = req[s].done
                 /\ req'[s].dead = req[s].dead
                 /\ req'[s].pc = req[s].pc /\ req'[s].alone = req[s].alone
                 /\ req[s].pc = "idle" => req'[s] = req[s]
      <4>1. req[s] \in Request
        BY <1>1
      <4>2. CASE req[s].pc = "idle"
        BY <3>3, <4>1, <4>2
      <4>3. CASE req[s].pc # "idle"
        <5> DEFINE flicker == req[s].flicker \cup (Fiftieth \cap users)
        <5>1. flicker \in SUBSET Uids
          BY <3>1, <4>1 DEF Request
        <5>2. req'[s] = [req[s] EXCEPT !.flicker = flicker]
          BY <3>3, <4>3
        <5> HIDE DEF flicker
        <5> QED
          BY <4>1, <4>3, <5>1, <5>2 DEF Request
      <4> QED
        BY <4>2, <4>3
    <3>5. /\ req'[r].op = req[r].op /\ req'[r].user = req[r].user
          /\ req'[r].todo = req[r].todo /\ req'[r].page = req[r].page
          /\ req'[r].post = req[r].post /\ req'[r].entry = req[r].entry
          /\ req'[r].hidden = req[r].hidden /\ req'[r].done = req[r].done
          /\ req'[r].dead = req[r].dead
          /\ req'[r].pc = "reply" /\ req'[r].alone = req[r].alone
      BY <1>1, <3>3 DEF Served, Request
    <3>6. req' \in [Reqs -> Request]
      BY <1>3, <3>2, <3>3, <3>4
    <3>7. \A s \in Reqs : /\ req[s].hidden \subseteq Uids
                          /\ req[s].done \subseteq Uids /\ req[s].dead \subseteq Uids
      BY <1>1 DEF Request
    <3> QED
      BY <3>4, <3>5, <3>6, <3>7 DEF Moved
  <2>2. TypeOK' /\ SeedInv' /\ dead' = dead \cap Uids
    BY <1>1, <1>3, <2>1 DEF TypeOK, SeedInv, Moved, history
  <2>3. AloneInv(r)'
    BY <1>1, <1>3, <2>1 DEF AloneInv, Moved
  <2>4. ~ torn' => IntegrityInv'
    BY <1>1, <1>3, <2>1, BansKeepIntegrity DEF Moved, history
  <2>5. Uids \in SUBSET Uids /\ "reply" \in InitializePCs
    BY DEF InitializePCs
  <2> QED
    BY <1>1, <1>3, <2>1, <2>2, <2>3, <2>4, <2>5, StatementStep
<1> QED
  BY <1>2, <1>3 DEF BanFiftieth

-----------------------------------------------------------------------------
(***************************************************************************)
(* The steps of the clients, and of the clock.                             *)
(***************************************************************************)
\* A request is sent with what is banned hidden; an /initialize and a write
\* that meet know of each other.
LEMMA SendStep ==
  ASSUME IInv, NEW r \in Reqs, NEW op \in Ops, Send(r, op) PROVE IInv'
<1> USE DEF tables
<1>1. /\ TypeOK /\ SeedInv /\ dead \subseteq banned /\ (~ torn => IntegrityInv)
      /\ req \in [Reqs -> Request] /\ req[r].pc = "idle"
      /\ UNCHANGED <<users, banned, given, posts, postOf, comments, commentOf,
                     now, acked, dead>>
      /\ torn' = (torn \/ (op \in Writes /\ InFlight({"initialize"}) # {})
                       \/ (op = "initialize" /\ InFlight(Writes) # {}))
      /\ op \in AllOps
  BY OpsAssumption DEF IInv, TypeOK, Send
<1>2. PICK user \in IF op \in Writes \cup {"page"} THEN given ELSE {None},
           post \in IF op \in {"post", "image", "newComment"}
                    THEN {p \in Pids : postOf[p] # None} ELSE {None},
           upto \in IF op = "posts" THEN 0..now ELSE {0},
           left \in IF op = "ban" THEN SUBSET given ELSE {{}} :
        req' = [q \in Reqs |->
            IF q = r
            THEN [Idle EXCEPT !.op = op, !.pc = FirstPC(op), !.user = user,
                     !.post = post, !.max = upto, !.left = left,
                     !.hidden = banned, !.flicker = banned, !.due = acked,
                     !.dead = dead, !.alone = (Meets(op) = {})]
            ELSE IF q \in Meets(op) THEN [req[q] EXCEPT !.alone = FALSE]
            ELSE req[q]]
  BY DEF Send
<1> DEFINE alone == Meets(op) = {}
           q == [Idle EXCEPT !.op = op, !.pc = FirstPC(op), !.user = user,
                     !.post = post, !.max = upto, !.left = left,
                     !.hidden = banned, !.flicker = banned, !.due = acked,
                     !.dead = dead, !.alone = alone]
<1>3. FirstPC(op) \in PCs \ {"idle"}
  BY <1>1 DEF FirstPC, AllOps, Pages, Inserts, Writes, PCs
<1>4. alone \in BOOLEAN
  OBVIOUS
<1>5. /\ user \in Uids \cup {None} /\ post \in Pids \cup {None} /\ upto \in Nat
      /\ left \in SUBSET Uids /\ banned \in SUBSET Uids /\ dead \in SUBSET Uids
      /\ acked \in SUBSET (Pids \cup Cids)
      /\ op \in Writes => user \in Uids
      /\ op = "newComment" => post \in Pids
  <2>1. given \subseteq Uids /\ banned \subseteq given /\ now \in Nat
    BY <1>1 DEF TypeOK
  <2>2. /\ user \in Uids \cup {None}
        /\ op \in Writes => user \in Uids
    <3>1. CASE op \in Writes \cup {"page"}
      BY <1>2, <2>1, <3>1
    <3>2. CASE op \notin Writes \cup {"page"}
      BY <1>2, <3>2
    <3> QED
      BY <3>1, <3>2
  <2>3. /\ post \in Pids \cup {None}
        /\ op = "newComment" => post \in Pids
    BY <1>2
  <2>4. upto \in Nat
    <3>1. upto \in 0..now \/ upto \in {0}
      BY <1>2, Zenon
    <3> QED
      BY <2>1, <3>1
  <2>5. left \in SUBSET Uids
    <3>1. CASE op = "ban"
      BY <1>2, <2>1, <3>1
    <3>2. CASE op # "ban"
      BY <1>2, <3>2
    <3> QED
      BY <3>1, <3>2
  <2>6. /\ banned \in SUBSET Uids /\ dead \in SUBSET Uids
        /\ acked \in SUBSET (Pids \cup Cids)
    BY <1>1 DEF TypeOK
  <2> QED
    BY <2>2, <2>3, <2>4, <2>5, <2>6
<1>7. req'[r] = q
  BY <1>2
<1> HIDE DEF alone
<1>6. q = [Idle EXCEPT !.op = op, !.pc = FirstPC(op), !.user = user,
                     !.post = post, !.max = upto, !.left = left,
                     !.hidden = banned, !.flicker = banned, !.due = acked,
                     !.dead = dead, !.alone = alone]
  OBVIOUS
<1> HIDE DEF q
<1>8. LET p == req'[r]
      IN  /\ p \in Request
          /\ p.op = op /\ p.pc = FirstPC(op) /\ p.user = user /\ p.post = post
          /\ p.hidden = banned /\ p.dead = dead /\ p.done = {}
          /\ p.todo = {} /\ p.page = <<>> /\ p.alone = alone
  <2>1. FirstPC(op) \in PCs
    BY <1>3
  <2>2. /\ q \in Request
        /\ q.op = op /\ q.pc = FirstPC(op) /\ q.user = user /\ q.post = post
        /\ q.hidden = banned /\ q.dead = dead /\ q.done = {}
        /\ q.todo = {} /\ q.page = <<>> /\ q.alone = alone
    <3>1. PICK b \in BOOLEAN : b = alone
      BY <1>4
    <3>2. PICK pc \in PCs : pc = FirstPC(op)
      BY <2>1
    <3>3. q = [Idle EXCEPT !.op = op, !.pc = pc, !.user = user,
                     !.post = post, !.max = upto, !.left = left,
                     !.hidden = banned, !.flicker = banned, !.due = acked,
                     !.dead = dead, !.alone = b]
      BY <1>6, <3>1, <3>2, Zenon
    <3>4. <<>> \in Seq(Entry)
      OBVIOUS
    <3>5. /\ q \in Request
          /\ q.op = op /\ q.pc = pc /\ q.user = user /\ q.post = post
          /\ q.hidden = banned /\ q.dead = dead /\ q.done = {}
          /\ q.todo = {} /\ q.page = <<>> /\ q.alone = b
      BY <1>1, <1>5, <3>3, <3>4, ZenonT(40) DEF Idle, Request
    <3> QED
      BY <3>1, <3>2, <3>5
  <2> QED
    BY <1>7, <2>2
<1>9. \A s \in Reqs \ {r} :
        req'[s] = IF s \in Meets(op) THEN [req[s] EXCEPT !.alone = FALSE] ELSE req[s]
  BY <1>2
<1>10. \A s \in Meets(op) : s \in Reqs /\ req[s].pc # "idle"
  BY DEF Meets, InFlight
<1>11. ASSUME NEW s \in Reqs \ {r}
       PROVE  /\ req'[s] \in Request /\ Aware(req[s], req'[s])
              /\ req'[s].hidden = req[s].hidden /\ req'[s].done = req[s].done
              /\ req'[s].dead = req[s].dead
              /\ req[s].pc = "idle" => req'[s] = req[s]
              /\ s \in Meets(op) => ~ req'[s].alone
  <2>1. req[s] \in Request
    BY <1>1
  <2>2. CASE s \in Meets(op)
    <3>1. req'[s] = [req[s] EXCEPT !.alone = FALSE]
      BY <1>9, <2>2
    <3> QED
      <4>1. req'[s] \in Request /\ req'[s].alone = FALSE
        BY <2>1, <3>1 DEF Request
      <4>2. /\ req'[s].op = req[s].op /\ req'[s].pc = req[s].pc
            /\ req'[s].user = req[s].user /\ req'[s].post = req[s].post
            /\ req'[s].todo = req[s].todo /\ req'[s].entry = req[s].entry
            /\ req'[s].page = req[s].page /\ req'[s].hidden = req[s].hidden
            /\ req'[s].done = req[s].done /\ req'[s].dead = req[s].dead
        BY <2>1, <3>1 DEF Request
      <4> QED
        BY <1>10, <2>2, <4>1, <4>2 DEF Aware
  <2>3. CASE s \notin Meets(op)
    BY <1>9, <2>1, <2>3 DEF Aware
  <2> QED
    BY <2>2, <2>3
<1>12. req' \in [Reqs -> Request]
  BY <1>2, <1>8, <1>11
<1>13. TypeOK' /\ SeedInv' /\ (dead \subseteq banned)'
  BY <1>1, <1>12 DEF TypeOK, SeedInv
<1>14. ASSUME NEW s \in Reqs PROVE RequestInv(req[s])'
  <2>1. CASE s = r
    <3>1. DOMAIN <<>> = {}
      OBVIOUS
    <3>2. PageInv(req[r])'
      <4>1. FirstPC(op) \notin {"count", "comments", "users"}
        BY <1>1 DEF FirstPC, AllOps, Pages, Inserts, Writes
      <4> QED
        BY <1>8, <3>1, <4>1 DEF PageInv
    <3>3. op = "initialize" => FirstPC(op) \in InitializePCs
      BY DEF FirstPC, InitializePCs, Writes
    <3> QED
      BY <1>1, <1>3, <1>5, <1>8, <2>1, <3>2, <3>3 DEF RequestInv, WriterInv
  <2>2. CASE s # r
    <3>1. RequestInv(req[s]) /\ s \in Reqs \ {r}
      BY <2>2 DEF IInv
    <3> QED
      BY <1>1, <1>11, <3>1 DEF RequestInv, PageInv, WriterInv, Aware
  <2> QED
    BY <2>1, <2>2
<1>15. ASSUME NEW s \in Reqs PROVE AloneInv(s)'
  <2>1. CASE s = r
    <3>1. op = "initialize" => FirstPC(op) = "delUsers"
      BY DEF FirstPC, Writes
    <3>2. op = "initialize" /\ alone =>
            \A t \in Reqs \ {r} : req[t].pc # "idle" =>
               req[t].op \notin Inserts \cup {"ban", "initialize"}
      BY DEF alone, Meets, InFlight, Inserts, Writes
    <3>3. req'[r].op = "initialize" /\ req'[r].alone =>
            \A t \in Reqs \ {r} : req'[t].pc # "idle" =>
               req'[t].op \notin Inserts \cup {"ban", "initialize"}
      BY <1>8, <1>11, <3>2 DEF Aware
    <3>4. req'[r].op = "initialize" => req'[r].pc = "delUsers"
      BY <1>8, <3>1
    <3> QED
      BY <2>1, <3>3, <3>4 DEF AloneInv
  <2>2. CASE s # r
    <3>1. AloneInv(s) /\ s \in Reqs \ {r} /\ RequestInv(req[s])
      BY <2>2 DEF IInv
    <3>2. /\ op \in Inserts \cup {"ban", "initialize"} /\ req[s].op = "initialize"
          /\ req[s].pc # "idle"
          => s \in Meets(op)
      BY DEF Meets, InFlight, Inserts, Writes
    <3>3. req[s].op = "initialize" => req[s].pc # "idle"
      BY <3>1 DEF RequestInv, InitializePCs
    <3>4. req'[s].alone => req[s].alone
      BY <1>9, <1>11, <3>1
    <3> QED
      BY <1>1, <1>8, <1>11, <3>1, <3>2, <3>3, <3>4 DEF AloneInv, Aware
  <2> QED
    BY <2>1, <2>2
<1>16. ASSUME ~ torn' PROVE IntegrityInv'
  <2>1. /\ IntegrityInv
        /\ ~ (op \in Writes /\ InFlight({"initialize"}) # {})
        /\ ~ (op = "initialize" /\ InFlight(Writes) # {})
    BY <1>1, <1>16
  <2>2. \A s \in Reqs : req[s].op = "initialize" => req[s].pc # "idle"
    BY DEF IInv, RequestInv, InitializePCs
  <2>3. \A s, t \in Reqs :
          req'[s].op = "initialize" => ~ (req'[t].pc # "idle" /\ req'[t].op \in Writes)
    <3>1. \A s \in Reqs \ {r} : req'[s].op = req[s].op /\ req'[s].pc = req[s].pc
      BY <1>11 DEF Aware
    <3>2. op \in Writes => \A s \in Reqs : req[s].op # "initialize"
      BY <2>1, <2>2 DEF InFlight
    <3>3. op = "initialize" =>
            \A s \in Reqs : ~ (req[s].pc # "idle" /\ req[s].op \in Writes)
      BY <2>1 DEF InFlight
    <3>4. req'[r].op = op
      BY <1>8
    <3> QED
      BY <2>1, <3>1, <3>2, <3>3, <3>4 DEF IntegrityInv, Writes
  <2>4. \A s \in Reqs : At(s, "insert", Writes)' => req'[s].user \in users'
    <3>1. op \in Writes => FirstPC(op) # "insert"
      BY <1>1 DEF FirstPC, Writes
    <3> QED
      BY <1>1, <1>8, <1>11, <2>1, <3>1 DEF IntegrityInv, At, Aware
  <2>5. \A s \in Reqs, pc \in PCs \ {"idle"} :
          At(s, pc, {"initialize"}) => At(s, pc, {"initialize"})'
    BY <1>1, <1>11 DEF At, Aware
  <2>6. "delPosts" \in PCs \ {"idle"} /\ "delComments" \in PCs \ {"idle"}
    BY DEF PCs
  <2> QED
    BY <1>1, <2>1, <2>3, <2>4, <2>5, <2>6 DEF IntegrityInv
<1> QED
  BY <1>13, <1>14, <1>15, <1>16 DEF IInv

\* After the answer to an /initialize that was alone nothing is torn: every
\* table is as it was seeded and no write is in flight.
LEMMA ReplyStep == ASSUME IInv, NEW r \in Reqs, Reply(r) PROVE IInv'
<1> USE DEF tables
<1>1. /\ TypeOK /\ SeedInv /\ dead \subseteq banned /\ (~ torn => IntegrityInv)
      /\ RequestInv(req[r]) /\ AloneInv(r)
      /\ req \in [Reqs -> Request] /\ req[r].pc = "reply"
      /\ UNCHANGED <<users, banned, given, posts, postOf, comments, commentOf, now>>
      /\ dead' = dead \cup req[r].done
      /\ torn' = (torn /\ ~ (req[r].op = "initialize" /\ req[r].alone))
      /\ req' = [req EXCEPT ![r] = Idle]
  BY DEF IInv, TypeOK, Reply, Becomes
<1>2. /\ req' \in [Reqs -> Request] /\ req'[r] = Idle
      /\ \A s \in Reqs \ {r} : req'[s] = req[s]
  BY <1>1, IdleType
<1>3. acked' \subseteq posts \cup comments
  <2> DEFINE new == CASE req[r].op = "newPost" -> {req[r].post} \cap posts
                      [] req[r].op = "newComment" -> req[r].look \cap comments
                      [] OTHER -> {}
  <2>1. acked' = IF ~ req[r].ok THEN acked ELSE acked \cup new
    BY DEF Reply
  <2>2. new \subseteq posts \cup comments
    <3>1. CASE req[r].op = "newPost"
      BY <3>1
    <3>2. CASE req[r].op = "newComment"
      BY <3>2
    <3>3. CASE req[r].op \notin {"newPost", "newComment"}
      BY <3>3
    <3> QED
      BY <3>1, <3>2, <3>3
  <2> HIDE DEF new
  <2> QED
    BY <1>1, <2>1, <2>2 DEF TypeOK
<1>4. TypeOK' /\ SeedInv' /\ (dead \subseteq banned)'
  <2>1. req[r].done \subseteq banned
    BY <1>1 DEF RequestInv
  <2>2. torn' \in BOOLEAN
    BY <1>1
  <2> QED
    BY <1>1, <1>2, <1>3, <2>1, <2>2 DEF TypeOK, SeedInv
<1>5. ASSUME NEW s \in Reqs PROVE RequestInv(req[s])'
  <2>1. CASE s = r
    BY <1>2, <2>1 DEF RequestInv, PageInv, WriterInv, Writes, Idle
  <2>2. CASE s # r
    BY <1>1, <1>2, <2>2 DEF IInv, RequestInv, PageInv, WriterInv
  <2> QED
    BY <2>1, <2>2
<1>6. ASSUME NEW s \in Reqs PROVE AloneInv(s)'
  <2>1. CASE s = r
    BY <1>2, <2>1 DEF AloneInv, Idle
  <2>2. CASE s # r
    BY <1>1, <1>2, <2>2 DEF IInv, AloneInv, Idle
  <2> QED
    BY <2>1, <2>2
<1>7. ASSUME ~ torn' PROVE IntegrityInv'
  <2>1. Idle.pc = "idle" /\ Idle.op = "index"
    BY DEF Idle
  <2>2. CASE ~ torn
    <3>1. IntegrityInv
      BY <1>1, <2>2
    <3>2. \A s \in Reqs, pc \in {"delPosts", "delComments"} :
            At(s, pc, {"initialize"}) => At(s, pc, {"initialize"})'
      BY <1>1, <1>2 DEF At
    <3>3. \A s \in Reqs : /\ req'[s].op = "initialize" => req[s].op = "initialize"
                          /\ req'[s].pc # "idle" => req'[s] = req[s]
      BY <1>2, <2>1
    <3>4. \A s \in Reqs : At(s, "insert", Writes)' => req'[s].user \in users'
      BY <1>1, <3>1, <3>3 DEF IntegrityInv, At
    <3>5. \A s, t \in Reqs : req'[s].op = "initialize" =>
            ~ (req'[t].pc # "idle" /\ req'[t].op \in Writes)
      BY <3>1, <3>3 DEF IntegrityInv
    <3> QED
      BY <1>1, <3>1, <3>2, <3>4, <3>5 DEF IntegrityInv
  <2>3. CASE req[r].op = "initialize" /\ req[r].alone
    <3>1. /\ users = SeedUsers /\ posts = SeedPosts /\ comments = SeedComments
          /\ \A s \in Reqs \ {r} : req[s].pc # "idle" => req[s].op \notin Inserts
      BY <1>1, <2>3 DEF AloneInv
    <3>2. \A s \in Reqs : ~ (req'[s].pc # "idle" /\ req'[s].op \in Writes)
      BY <1>2, <2>1, <3>1 DEF Inserts, Writes
    <3>3. /\ \A p \in posts' : postOf'[p].author \in users'
          /\ \A c \in comments' : commentOf'[c].author \in users'
      BY <1>1, <3>1, SeedAssumption DEF SeedInv
    <3> QED
      BY <3>2, <3>3 DEF IntegrityInv, At
  <2> QED
    BY <1>1, <1>7, <2>2, <2>3
<1> QED
  BY <1>4, <1>5, <1>6, <1>7 DEF IInv

LEMMA TickStep == ASSUME IInv, Tick PROVE IInv'
<1>1. UNCHANGED <<users, banned, given, posts, postOf, comments, commentOf,
                  acked, dead, torn, req>> /\ now' = now + 1
  BY DEF Tick, tables, history
<1>2. TypeOK'
  BY <1>1 DEF IInv, TypeOK
<1> QED
  BY <1>1, <1>2 DEF IInv, SeedInv, RequestInv, PageInv, WriterInv, AloneInv,
                    IntegrityInv, At

-----------------------------------------------------------------------------
LEMMA NextInv == IInv /\ [Next]_vars => IInv'
<1> SUFFICES ASSUME IInv, [Next]_vars PROVE IInv'
  OBVIOUS
<1>1. CASE UNCHANGED vars
  BY <1>1 DEF vars, tables, history, IInv, TypeOK, SeedInv, RequestInv, PageInv,
              WriterInv, AloneInv, IntegrityInv, At
<1>2. CASE Tick
  BY <1>2, TickStep
<1>3. ASSUME NEW r \in Reqs, NEW op \in Ops, Send(r, op) PROVE IInv'
  BY <1>3, SendStep
<1>4. ASSUME NEW r \in Reqs, SelectOwner(r) \/ SelectPosts(r) \/ CountComments(r)
                             \/ SelectComments(r) \/ SelectCommenter(r)
                             \/ SelectAuthor(r)
      PROVE  IInv'
  BY <1>4, SelectOwnerStep, SelectPostsStep, CountCommentsStep,
     SelectCommentsStep, SelectCommenterStep, SelectAuthorStep
<1>5. ASSUME NEW r \in Reqs, CountUser(r) \/ GetImage(r) \/ SelectFails(r)
                             \/ SelectMe(r) \/ InsertFails(r) \/ EndBan(r)
      PROVE  IInv'
  BY <1>5, GetImageStep, SelectFailsStep, SelectMeStep
<1>6. ASSUME NEW r \in Reqs, InsertPost(r) \/ InsertComment(r) \/ InsertUser(r)
                             \/ BanOne(r) \/ Reply(r)
      PROVE  IInv'
  BY <1>6, InsertPostStep, InsertCommentStep, InsertUserStep, BanOneStep, ReplyStep
<1>7. ASSUME NEW r \in Reqs, DeleteUsers(r) \/ DeletePosts(r) \/ DeleteComments(r)
                             \/ UnbanAll(r) \/ BanFiftieth(r)
      PROVE  IInv'
  BY <1>7, DeleteUsersStep, DeletePostsStep, DeleteCommentsStep, UnbanAllStep,
     BanFiftiethStep
<1> QED
  BY <1>1, <1>2, <1>3, <1>4, <1>5, <1>6, <1>7 DEF Next, Client, Server

\* The invariant that the properties below follow from holds always.
THEOREM Invariance == Spec => []IInv
<1>1. Init => IInv
  BY InitInv
<1>2. IInv /\ [Next]_vars => IInv'
  BY NextInv
<1> QED
  BY <1>1, <1>2, PTL DEF Spec

\* Every variable of the Go application's timeline keeps its type.
THEOREM TypeCorrect == Spec => []TypeOK
<1>1. IInv => TypeOK
  BY DEF IInv
<1> QED
  BY <1>1, Invariance, PTL

\* Whoever bans, posts or initializes meanwhile, no page shows a post of a user
\* whose ban was acknowledged before it was asked for.
THEOREM BansAreReflected == Spec => []BanReflected
<1>1. IInv => BanReflected
  <2> SUFFICES ASSUME IInv, NEW r \in Reqs, PageServed(r), NEW p \in Shown(req[r])
               PROVE  postOf[p].author \notin req[r].dead
    BY DEF BanReflected
  <2>1. PageInv(req[r]) /\ req[r].dead \subseteq req[r].hidden
    BY DEF IInv, RequestInv
  <2>2. req[r].op \in Pages
    BY DEF PageServed, At
  <2> QED
    BY <2>1, <2>2 DEF Shown, PageInv
<1> QED
  BY <1>1, Invariance, PTL

\* Only an /initialize that met a post or a comment, or lost a statement, leaves
\* rows without their user behind.
THEOREM OrphansNeedARace == Spec => []OrphansOnlyByRace
<1>1. IInv => OrphansOnlyByRace
  <2> SUFFICES ASSUME IInv, ~ torn, InFlight({"initialize"}) = {} PROVE ~ Orphans
    BY DEF OrphansOnlyByRace
  <2>1. \A r \in Reqs, pc \in PCs \ {"idle"} : ~ At(r, pc, {"initialize"})
    BY DEF At, InFlight
  <2>2. "delPosts" \in PCs \ {"idle"} /\ "delComments" \in PCs \ {"idle"}
    BY DEF PCs
  <2> QED
    BY <2>1, <2>2 DEF IInv, IntegrityInv, Orphans
<1> QED
  BY <1>1, Invariance, PTL

\* An /initialize that nothing meets and none of whose statements fails leaves
\* the seed, whatever came before it.
THEOREM InitializeIsAReset == Spec => []InitializeRestores
<1>1. IInv => InitializeRestores
  BY DEF IInv, AloneInv, InitializeRestores, At
<1> QED
  BY <1>1, Invariance, PTL

-----------------------------------------------------------------------------
(***************************************************************************)
(* GoTimeline implements Moderation.                                       *)
(***************************************************************************)
IsReader(q) == q.op \in Pages /\ q.pc # "idle"

PostsKept == \A p \in Pids : postOf[p] # None => postOf'[p] = postOf[p]

LEMMA ShownPosts ==
  ASSUME IInv, NEW s \in Reqs
  PROVE  \A p \in Shown(req[s]) : p \in Pids /\ postOf[p] # None
<1>1. PageInv(req[s]) /\ req[s].page \in Seq(Entry)
  BY DEF IInv, RequestInv, TypeOK, Request
<1>2. \A i \in DOMAIN req[s].page : req[s].page[i] \in Entry
  BY <1>1
<1> QED
  BY <1>1, <1>2 DEF Shown, PageInv, Entry

\* A request that is no reader, or whose page stays, is the reader it was.
LEMMA SameReader ==
  ASSUME IInv, NEW s \in Reqs, PostsKept,
         \/ ~ IsReader(req[s]) /\ ~ IsReader(req'[s])
         \/ /\ req'[s].op = req[s].op /\ req'[s].pc = req[s].pc
            /\ req'[s].hidden = req[s].hidden /\ req'[s].page = req[s].page
  PROVE  Reader(req[s])' = Reader(req[s])
<1>1. CASE ~ IsReader(req[s]) /\ ~ IsReader(req'[s])
  BY <1>1 DEF IsReader, Reader
<1>2. CASE /\ req'[s].op = req[s].op /\ req'[s].pc = req[s].pc
           /\ req'[s].hidden = req[s].hidden /\ req'[s].page = req[s].page
  <2>1. Shown(req[s])' = Shown(req[s])
    BY <1>2 DEF Shown
  <2>2. \A p \in Shown(req[s]) : postOf'[p] = postOf[p]
    BY ShownPosts DEF PostsKept
  <2>3. {postOf'[p].author : p \in Shown(req[s])'} =
          {postOf[p].author : p \in Shown(req[s])}
    BY <2>1, <2>2
  <2> QED
    BY <1>2, <2>3 DEF Reader
<1> QED
  BY <1>1, <1>2

LEMMA SameReaders ==
  ASSUME IInv, PostsKept, UNCHANGED banned,
         \A s \in Reqs :
           \/ ~ IsReader(req[s]) /\ ~ IsReader(req'[s])
           \/ /\ req'[s].op = req[s].op /\ req'[s].pc = req[s].pc
              /\ req'[s].hidden = req[s].hidden /\ req'[s].page = req[s].page
  PROVE  UNCHANGED M!vars
<1>1. \A s \in Reqs : Reader(req[s])' = Reader(req[s])
  BY SameReader
<1> QED
  BY <1>1 DEF M!vars

\* What a step of one handler that only reads does to its request.
LEMMA LocalKeeps ==
  ASSUME IInv, NEW r \in Reqs,
         \/ SelectOwner(r) \/ SelectPosts(r) \/ CountComments(r)
         \/ SelectComments(r) \/ SelectCommenter(r) \/ SelectAuthor(r)
         \/ CountUser(r) \/ GetImage(r) \/ SelectFails(r) \/ SelectMe(r)
         \/ InsertFails(r) \/ EndBan(r)
  PROVE  /\ req[r].pc \notin {"idle", "reply"} /\ UNCHANGED <<banned, postOf>>
         /\ \A s \in Reqs \ {r} : req'[s] = req[s]
         /\ req'[r].op = req[r].op /\ req'[r].hidden = req[r].hidden
         /\ req'[r].pc # "idle"
<1> USE DEF Reading, tables, history, Becomes
<1>1. req \in [Reqs -> Request] /\ req[r] \in Request
  BY DEF IInv, TypeOK
<1>2. /\ Served(req[r]).op = req[r].op /\ Served(req[r]).hidden = req[r].hidden
      /\ Served(req[r]).pc = "reply"
      /\ Failed(req[r]).op = req[r].op /\ Failed(req[r]).hidden = req[r].hidden
      /\ Failed(req[r]).pc = "reply"
  BY <1>1 DEF Served, Failed, Request
<1>3. ASSUME NEW todo, NEW page, NEW q \in NextPost(req[r], todo, page)
      PROVE  q.op = req[r].op /\ q.hidden = req[r].hidden /\ q.pc # "idle"
  <2>1. CASE todo = {} \/ Full(page)
    <3>1. PICK pc \in {"tail", "reply"}, ok \in BOOLEAN :
            q = [req[r] EXCEPT !.pc = pc, !.ok = ok, !.todo = {}, !.entry = None,
                               !.page = page]
      BY <2>1 DEF NextPost
    <3> QED
      BY <1>1, <3>1 DEF Request
  <2>2. CASE ~ (todo = {} \/ Full(page))
    <3>1. PICK p \in Newest(todo) :
            q = [req[r] EXCEPT !.pc = "count", !.todo = todo \ {p},
                      !.entry = [post |-> p, count |-> 0, comments |-> {}],
                      !.page = page]
      BY <2>2 DEF NextPost
    <3> QED
      BY <1>1, <3>1 DEF Request
  <2> QED
    BY <2>1, <2>2
<1>4. CASE SelectOwner(r) \/ SelectMe(r)
  BY <1>1, <1>2, <1>4 DEF SelectOwner, SelectMe, At, Request
<1>5. CASE SelectPosts(r)
  BY <1>1, <1>3, <1>5 DEF SelectPosts, At
<1>6. CASE CountComments(r)
  BY <1>1, <1>6 DEF CountComments, At, Request
<1>7. CASE SelectComments(r)
  <2>1. PICK few : Becomes(r, [req[r] EXCEPT !.entry.comments = few, !.look = few,
                                             !.pc = "users"])
    BY <1>7 DEF SelectComments
  <2> QED
    BY <1>1, <1>7, <2>1 DEF SelectComments, At, Request
<1>8. CASE SelectCommenter(r)
  <2>1. PICK c \in req[r].look :
          Becomes(r, IF commentOf[c].author \in users
                     THEN [req[r] EXCEPT !.look = @ \ {c}] ELSE Failed(req[r]))
    BY <1>8 DEF SelectCommenter
  <2> QED
    BY <1>1, <1>2, <1>8, <2>1 DEF SelectCommenter, At, Request
<1>9. CASE SelectAuthor(r)
  BY <1>1, <1>2, <1>3, <1>9 DEF SelectAuthor, At
<1>10. CASE GetImage(r)
  BY <1>1, <1>2, <1>10 DEF GetImage, At, Served, Request
<1>11. CASE CountUser(r) \/ SelectFails(r) \/ InsertFails(r) \/ EndBan(r)
  BY <1>1, <1>2, <1>11 DEF CountUser, SelectFails, InsertFails, EndBan, At
<1> QED
  BY <1>4, <1>5, <1>6, <1>7, <1>8, <1>9, <1>10, <1>11

\* A handler that reads serves its page, or its reader goes on waiting.
LEMMA ReadRefines ==
  ASSUME IInv, IInv', NEW r \in Reqs,
         req[r].pc \notin {"idle", "reply"}, UNCHANGED <<banned, postOf>>,
         \A s \in Reqs \ {r} : req'[s] = req[s],
         req'[r].op = req[r].op, req'[r].hidden = req[r].hidden,
         req'[r].pc # "idle"
  PROVE  [M!Next]_(M!vars)
<1>1. PostsKept
  BY DEF PostsKept
<1>2. \A s \in Reqs \ {r} : Reader(req[s])' = Reader(req[s])
  BY <1>1, SameReader
<1>3. CASE req[r].op \notin Pages
  <2>1. Reader(req[r])' = Reader(req[r])
    BY <1>1, <1>3, SameReader DEF IsReader
  <2> QED
    BY <1>2, <2>1 DEF M!vars
<1>4. CASE req[r].op \in Pages /\ req'[r].pc # "reply"
  <2>1. Reader(req[r])' = Reader(req[r])
    BY <1>4 DEF Reader
  <2> QED
    BY <1>2, <2>1 DEF M!vars
<1>5. CASE req[r].op \in Pages /\ req'[r].pc = "reply"
  <2> DEFINE seen == {postOf'[p].author : p \in Shown(req'[r])}
             rd == [s \in Reqs |-> Reader(req[s])]
  <2>1. Reader(req[r]) = [state |-> "waiting", hidden |-> req[r].hidden, seen |-> {}]
    BY <1>5 DEF Reader
  <2>2. Reader(req[r])' = [state |-> "served", hidden |-> req[r].hidden, seen |-> seen]
    BY <1>5 DEF Reader
  <2>3. PageInv(req[r])'
    BY DEF IInv, RequestInv
  <2>4. seen \cap req[r].hidden = {}
    BY <1>5, <2>3 DEF PageInv, Shown
  <2>5. seen \in SUBSET Uids
    <3>1. \A p \in Shown(req'[r]) : p \in Pids /\ postOf'[p] # None
      <4>1. PageInv(req[r])' /\ req'[r].page \in Seq(Entry)
        BY <2>3 DEF IInv, TypeOK, Request
      <4>2. \A i \in DOMAIN req'[r].page : req'[r].page[i] \in Entry
        BY <4>1
      <4> QED
        BY <4>1, <4>2 DEF Shown, PageInv, Entry
    <3>2. \A p \in Pids : postOf'[p] # None => postOf'[p].author \in Uids
      BY DEF IInv, TypeOK, Post
    <3> QED
      BY <3>1, <3>2
  <2> HIDE DEF seen
  <2>6. rd' = [rd EXCEPT ![r].state = "served", ![r].seen = seen]
    <3>1. rd = [s \in Reqs |-> IF s = r
                  THEN [state |-> "waiting", hidden |-> req[r].hidden, seen |-> {}]
                  ELSE Reader(req[s])]
      BY <2>1
    <3>2. rd' = [s \in Reqs |-> IF s = r
                   THEN [state |-> "served", hidden |-> req[r].hidden, seen |-> seen]
                   ELSE Reader(req[s])]
      BY <1>2, <2>2
    <3> HIDE DEF rd
    <3> QED
      BY <3>1, <3>2
  <2>7. rd[r].state = "waiting" /\ seen \cap rd[r].hidden = {}
    BY <2>1, <2>4
  <2>8. M!Serve(r, seen)
    BY <2>6, <2>7 DEF M!Serve
  <2> QED
    BY <2>5, <2>8 DEF M!Next
<1> QED
  BY <1>3, <1>4, <1>5

\* A ban by POST /admin/banned or by /initialize is one, whoever it names.
LEMMA BanRefines ==
  ASSUME IInv, UNCHANGED postOf, NEW us \in SUBSET Uids, banned' = banned \cup us,
         \A s \in Reqs : /\ req'[s].op = req[s].op /\ req'[s].hidden = req[s].hidden
                         /\ req'[s].page = req[s].page
                         /\ IsReader(req[s]) => req'[s].pc = req[s].pc
                         /\ ~ IsReader(req[s]) => ~ IsReader(req'[s])
  PROVE  [M!Next]_(M!vars)
<1>1. PostsKept
  BY DEF PostsKept
<1>2. \A s \in Reqs : Reader(req[s])' = Reader(req[s])
  BY <1>1, SameReader
<1>3. M!Ban(us)
  BY <1>2 DEF M!Ban
<1> QED
  BY <1>3 DEF M!Next

\* A statement of /initialize lifts the bans of the users who are not shown.
LEMMA LiftRefines ==
  ASSUME IInv, UNCHANGED postOf, NEW r \in Reqs, req[r].op = "initialize",
         NEW pc, NEW shown \in SUBSET Uids, Moved(r, pc, shown),
         banned' = banned \cap shown
  PROVE  [M!Next]_(M!vars)
<1> DEFINE lifted == Uids \ shown
           rd == [s \in Reqs |-> Reader(req[s])]
<1>1. /\ req \in [Reqs -> Request] /\ banned \subseteq Uids
  BY DEF IInv, TypeOK
<1>2. banned' = banned \ lifted
  BY <1>1
<1>3. ASSUME NEW s \in Reqs
      PROVE  Reader(req[s])' = [Reader(req[s]) EXCEPT !.hidden = @ \ lifted]
  <2>1. req[s].hidden \cap shown = req[s].hidden \ lifted
    BY <1>1 DEF Request
  <2>2. /\ req'[s].op = req[s].op /\ req'[s].page = req[s].page
        /\ req'[s].hidden = req[s].hidden \ lifted
        /\ req[s].op \in Pages => req'[s].pc = req[s].pc
    BY <2>1 DEF Moved, Pages
  <2> HIDE DEF lifted
  <2>3. {postOf'[p].author : p \in Shown(req'[s])} =
          {postOf[p].author : p \in Shown(req[s])}
    BY <2>2 DEF Shown
  <2>4. CASE req[s].op \in Pages /\ req[s].pc = "reply"
    <3> DEFINE seen == {postOf[p].author : p \in Shown(req[s])}
    <3>1. Reader(req[s]) = [state |-> "served", hidden |-> req[s].hidden, seen |-> seen]
      BY <2>4 DEF Reader
    <3>2. Reader(req[s])' = [state |-> "served", hidden |-> req[s].hidden \ lifted,
                             seen |-> seen]
      BY <2>2, <2>3, <2>4 DEF Reader
    <3> HIDE DEF seen
    <3> QED
      BY <3>1, <3>2
  <2>5. CASE req[s].op \in Pages /\ req[s].pc \notin {"idle", "reply"}
    <3>1. Reader(req[s]) = [state |-> "waiting", hidden |-> req[s].hidden, seen |-> {}]
      BY <2>5 DEF Reader
    <3>2. Reader(req[s])' = [state |-> "waiting", hidden |-> req[s].hidden \ lifted,
                             seen |-> {}]
      BY <2>2, <2>5 DEF Reader
    <3> QED
      BY <3>1, <3>2
  <2>6. CASE ~ (req[s].op \in Pages /\ req[s].pc # "idle")
    <3>1. Reader(req[s]) = [state |-> "away", hidden |-> {}, seen |-> {}]
      BY <2>6 DEF Reader
    <3>2. Reader(req[s])' = [state |-> "away", hidden |-> {}, seen |-> {}]
      BY <2>2, <2>6 DEF Reader
    <3> QED
      BY <3>1, <3>2
  <2> QED
    BY <2>4, <2>5, <2>6
<1>4. rd' = [s \in Reqs |-> [rd[s] EXCEPT !.hidden = @ \ lifted]]
  BY <1>3
<1>5. M!Lift(lifted)
  BY <1>2, <1>4 DEF M!Lift
<1>6. lifted \in SUBSET Uids
  OBVIOUS
<1> QED
  BY <1>5, <1>6 DEF M!Next

LEMMA SendRefines ==
  ASSUME IInv, NEW r \in Reqs, NEW op \in Ops, Send(r, op)
  PROVE  [M!Next]_(M!vars)
<1> USE DEF tables
<1>1. /\ req \in [Reqs -> Request] /\ req[r].pc = "idle"
      /\ UNCHANGED <<banned, postOf>> /\ op \in AllOps
  BY OpsAssumption DEF IInv, TypeOK, Send
<1>2. PICK user \in IF op \in Writes \cup {"page"} THEN given ELSE {None},
           post \in IF op \in {"post", "image", "newComment"}
                    THEN {p \in Pids : postOf[p] # None} ELSE {None},
           upto \in IF op = "posts" THEN 0..now ELSE {0},
           left \in IF op = "ban" THEN SUBSET given ELSE {{}} :
        req' = [q \in Reqs |->
            IF q = r
            THEN [Idle EXCEPT !.op = op, !.pc = FirstPC(op), !.user = user,
                     !.post = post, !.max = upto, !.left = left,
                     !.hidden = banned, !.flicker = banned, !.due = acked,
                     !.dead = dead, !.alone = (Meets(op) = {})]
            ELSE IF q \in Meets(op) THEN [req[q] EXCEPT !.alone = FALSE]
            ELSE req[q]]
  BY DEF Send
<1>3. /\ req'[r].op = op /\ req'[r].pc = FirstPC(op) /\ req'[r].hidden = banned
      /\ req'[r].page = <<>>
  BY <1>2 DEF Idle
<1>4. FirstPC(op) \notin {"idle", "reply"}
  BY <1>1 DEF FirstPC, AllOps, Pages, Inserts, Writes
<1>5. ASSUME NEW s \in Reqs \ {r}
      PROVE  /\ req'[s].op = req[s].op /\ req'[s].pc = req[s].pc
             /\ req'[s].hidden = req[s].hidden /\ req'[s].page = req[s].page
  BY <1>1, <1>2, ZenonT(40) DEF Request
<1>6. PostsKept
  BY <1>1 DEF PostsKept
<1>7. \A s \in Reqs \ {r} : Reader(req[s])' = Reader(req[s])
  BY <1>5, <1>6, SameReader
<1>8. CASE op \notin Pages
  <2>1. Reader(req[r])' = Reader(req[r])
    BY <1>1, <1>3, <1>6, <1>8, SameReader DEF IsReader
  <2> QED
    BY <1>1, <1>7, <2>1 DEF M!vars
<1>9. CASE op \in Pages
  <2> DEFINE rd == [s \in Reqs |-> Reader(req[s])]
             asked == [state |-> "waiting", hidden |-> banned, seen |-> {}]
  <2>1. Reader(req[r]) = M!Away
    BY <1>1 DEF Reader, M!Away
  <2>2. Reader(req[r])' = asked
    BY <1>3, <1>4, <1>9 DEF Reader
  <2>3. rd' = [rd EXCEPT ![r] = asked] /\ rd[r] = M!Away
    BY <1>7, <2>1, <2>2
  <2>4. M!Ask(r)
    BY <1>1, <2>3 DEF M!Ask
  <2> QED
    BY <2>4 DEF M!Next
<1> QED
  BY <1>8, <1>9

LEMMA ReplyRefines ==
  ASSUME IInv, NEW r \in Reqs, Reply(r) PROVE [M!Next]_(M!vars)
<1> USE DEF tables
<1>1. /\ req \in [Reqs -> Request] /\ req[r].pc = "reply"
      /\ UNCHANGED <<banned, postOf>> /\ req' = [req EXCEPT ![r] = Idle]
  BY DEF IInv, TypeOK, Reply, Becomes
<1>2. /\ req'[r] = Idle /\ Idle.pc = "idle"
      /\ \A s \in Reqs \ {r} : req'[s] = req[s]
  BY <1>1 DEF Idle
<1>3. PostsKept
  BY <1>1 DEF PostsKept
<1>4. \A s \in Reqs \ {r} : Reader(req[s])' = Reader(req[s])
  BY <1>2, <1>3, SameReader
<1>5. CASE req[r].op \notin Pages
  <2>1. Reader(req[r])' = Reader(req[r])
    BY <1>2, <1>3, <1>5, SameReader DEF IsReader
  <2> QED
    BY <1>1, <1>4, <2>1 DEF M!vars
<1>6. CASE req[r].op \in Pages
  <2> DEFINE rd == [s \in Reqs |-> Reader(req[s])]
  <2>1. Reader(req[r]).state = "served"
    BY <1>1, <1>6 DEF Reader
  <2>2. Reader(req[r])' = M!Away
    BY <1>2 DEF Reader, M!Away
  <2>3. rd' = [rd EXCEPT ![r] = M!Away] /\ rd[r].state = "served"
    BY <1>4, <2>1, <2>2
  <2>4. M!Leave(r)
    BY <1>1, <2>3 DEF M!Leave
  <2> QED
    BY <2>4 DEF M!Next
<1> QED
  BY <1>5, <1>6

\* The writes of posts, comments and users are no concern of Moderation.
LEMMA InsertRefines ==
  ASSUME IInv, NEW r \in Reqs, InsertPost(r) \/ InsertComment(r) \/ InsertUser(r)
  PROVE  [M!Next]_(M!vars)
<1>1. /\ req \in [Reqs -> Request] /\ postOf \in [Pids -> Post \cup {None}]
  BY DEF IInv, TypeOK
<1>2. req[r].op \in Inserts /\ UNCHANGED banned
  BY DEF InsertPost, InsertComment, InsertUser, At, Inserts, Writes
<1>3. PICK q : Becomes(r, q) /\ q.op = req[r].op
  <2>1. CASE InsertPost(r)
    <3>1. PICK p \in Pids : Becomes(r, [Served(req[r]) EXCEPT !.post = p])
      BY <2>1 DEF InsertPost
    <3>2. [Served(req[r]) EXCEPT !.post = p].op = req[r].op
      BY <1>1 DEF Served, Request
    <3> QED
      BY <3>1, <3>2
  <2>2. CASE InsertComment(r)
    <3>1. PICK c \in Cids : Becomes(r, [Served(req[r]) EXCEPT !.look = {c}])
      BY <2>2 DEF InsertComment
    <3>2. [Served(req[r]) EXCEPT !.look = {c}].op = req[r].op
      BY <1>1 DEF Served, Request
    <3> QED
      BY <3>1, <3>2
  <2>3. CASE InsertUser(r)
    <3>1. PICK u \in Uids : Becomes(r, [Served(req[r]) EXCEPT !.user = u])
      BY <2>3 DEF InsertUser
    <3>2. [Served(req[r]) EXCEPT !.user = u].op = req[r].op
      BY <1>1 DEF Served, Request
    <3> QED
      BY <3>1, <3>2
  <2> QED
    BY <2>1, <2>2, <2>3
<1>4. PostsKept
  BY <1>1 DEF InsertPost, InsertComment, InsertUser, PostsKept
<1>5. \A s \in Reqs :
        \/ ~ IsReader(req[s]) /\ ~ IsReader(req'[s])
        \/ /\ req'[s].op = req[s].op /\ req'[s].pc = req[s].pc
           /\ req'[s].hidden = req[s].hidden /\ req'[s].page = req[s].page
  BY <1>1, <1>2, <1>3 DEF Becomes, IsReader, Inserts, Writes, Pages
<1> QED
  BY <1>2, <1>4, <1>5, SameReaders

LEMMA BanOneRefines ==
  ASSUME IInv, NEW r \in Reqs, BanOne(r) PROVE [M!Next]_(M!vars)
<1>1. /\ req \in [Reqs -> Request] /\ req[r].op = "ban" /\ UNCHANGED postOf
      /\ users \subseteq Uids
  BY DEF IInv, TypeOK, BanOne, At
<1>2. PICK u \in req[r].left :
         \/ /\ banned' = banned \cup Updated(u)
            /\ req' = [q \in Reqs |->
                  IF q = r THEN [req[r] EXCEPT !.left = @ \ {u},
                                               !.done = @ \cup Updated(u)]
                  ELSE IF req[q].pc = "idle" THEN req[q]
                  ELSE [req[q] EXCEPT !.flicker = @ \cup Updated(u)]]
         \/ /\ Becomes(r, [req[r] EXCEPT !.left = @ \ {u}])
            /\ UNCHANGED banned
  BY DEF BanOne
<1>3. ASSUME NEW s \in Reqs
      PROVE  /\ req'[s].op = req[s].op /\ req'[s].hidden = req[s].hidden
             /\ req'[s].page = req[s].page /\ req'[s].pc = req[s].pc
  <2>1. req[s] \in Request
    BY <1>1
  <2>2. \/ req'[s] = req[s]
        \/ req'[s] = [req[s] EXCEPT !.left = @ \ {u}, !.done = @ \cup Updated(u)]
        \/ req'[s] = [req[s] EXCEPT !.left = @ \ {u}]
        \/ req'[s] = [req[s] EXCEPT !.flicker = @ \cup Updated(u)]
    BY <1>1, <1>2 DEF Becomes
  <2> QED
    BY <2>1, <2>2 DEF Request
<1>4. \E us \in SUBSET Uids : banned' = banned \cup us
  <2>1. Updated(u) \in SUBSET Uids /\ {} \in SUBSET Uids
    BY <1>1 DEF Updated
  <2> QED
    BY <1>2, <2>1
<1> QED
  BY <1>1, <1>3, <1>4, BanRefines DEF IsReader

LEMMA InitializeRefines ==
  ASSUME IInv, NEW r \in Reqs,
         \/ DeleteUsers(r) \/ DeletePosts(r) \/ DeleteComments(r)
         \/ UnbanAll(r) \/ BanFiftieth(r)
  PROVE  [M!Next]_(M!vars)
<1> USE DEF tables, history
<1>1. /\ req \in [Reqs -> Request] /\ req[r].op = "initialize"
      /\ req[r].pc # "idle" /\ UNCHANGED postOf /\ banned \subseteq Uids
  BY DEF IInv, TypeOK, At, DeleteUsers, DeletePosts, DeleteComments, UnbanAll,
         BanFiftieth, StatementFails
<1>2. banned = banned \cap Uids /\ Uids \in SUBSET Uids /\ {} \in SUBSET Uids
      /\ SeedUsers \in SUBSET Uids
  BY <1>1, SeedAssumption
<1>3. ASSUME NEW pc \in PCs, StatementFails(r, pc) PROVE [M!Next]_(M!vars)
  <2>1. Moved(r, pc, Uids) /\ UNCHANGED banned
    BY <1>3, FailedMoves DEF StatementFails
  <2> QED
    BY <1>1, <1>2, <2>1, LiftRefines
<1>4. InitializePCs \subseteq PCs
  BY DEF InitializePCs, PCs
<1>5. CASE DeleteUsers(r)
  <2>1. CASE StatementFails(r, "delPosts")
    BY <1>3, <1>4, <2>1 DEF InitializePCs
  <2>2. CASE Goto(r, "delPosts", SeedUsers, Pids \cup Cids)
             /\ banned' = banned \cap SeedUsers
    <3>1. Moved(r, "delPosts", SeedUsers)
      BY <1>1, <2>2, GotoMoves DEF PCs
    <3> QED
      BY <1>1, <1>2, <2>2, <3>1, LiftRefines
  <2> QED
    BY <1>5, <2>1, <2>2 DEF DeleteUsers
<1>6. CASE DeletePosts(r)
  <2>1. CASE StatementFails(r, "delComments")
    BY <1>3, <1>4, <2>1 DEF InitializePCs
  <2>2. CASE Goto(r, "delComments", Uids, SeedPosts \cup Cids) /\ UNCHANGED banned
    <3>1. Moved(r, "delComments", Uids)
      BY <1>1, <2>2, GotoMoves DEF PCs
    <3> QED
      BY <1>1, <1>2, <2>2, <3>1, LiftRefines
  <2> QED
    BY <1>6, <2>1, <2>2 DEF DeletePosts
<1>7. CASE DeleteComments(r)
  <2>1. CASE StatementFails(r, "unban")
    BY <1>3, <1>4, <2>1 DEF InitializePCs
  <2>2. CASE Goto(r, "unban", Uids, Pids \cup SeedComments) /\ UNCHANGED banned
    <3>1. Moved(r, "unban", Uids)
      BY <1>1, <2>2, GotoMoves DEF PCs
    <3> QED
      BY <1>1, <1>2, <2>2, <3>1, LiftRefines
  <2> QED
    BY <1>7, <2>1, <2>2 DEF DeleteComments
<1>8. CASE UnbanAll(r)
  <2>1. CASE StatementFails(r, "reban")
    BY <1>3, <1>4, <2>1 DEF InitializePCs
  <2>2. CASE Goto(r, "reban", {}, Pids \cup Cids) /\ banned' = {}
    <3>1. Moved(r, "reban", {}) /\ banned' = banned \cap {}
      BY <1>1, <2>2, GotoMoves DEF PCs
    <3> QED
      BY <1>1, <1>2, <3>1, LiftRefines
  <2> QED
    BY <1>8, <2>1, <2>2 DEF UnbanAll
<1>9. CASE BanFiftieth(r)
  <2>1. CASE StatementFails(r, "reply")
    BY <1>3, <1>4, <2>1 DEF InitializePCs
  <2>2. CASE /\ banned' = banned \cup (Fiftieth \cap users)
             /\ req' = [q \in Reqs |->
                  IF q = r THEN Served(req[r])
                  ELSE IF req[q].pc = "idle" THEN req[q]
                  ELSE [req[q] EXCEPT !.flicker = @ \cup (Fiftieth \cap users)]]
    <3>1. /\ req'[r].op = req[r].op /\ req'[r].hidden = req[r].hidden
          /\ req'[r].page = req[r].page
      <4>1. req[r] \in Request /\ req'[r] = Served(req[r])
        BY <1>1, <2>2
      <4> QED
        BY <4>1 DEF Served, Request
    <3>2. \A s \in Reqs \ {r} :
            /\ req'[s].op = req[s].op /\ req'[s].hidden = req[s].hidden
            /\ req'[s].page = req[s].page /\ req'[s].pc = req[s].pc
      BY <1>1, <2>2 DEF Request
    <3>3. \A s \in Reqs :
            /\ req'[s].op = req[s].op /\ req'[s].hidden = req[s].hidden
            /\ req'[s].page = req[s].page
            /\ IsReader(req[s]) => req'[s].pc = req[s].pc
            /\ ~ IsReader(req[s]) => ~ IsReader(req'[s])
      BY <1>1, <3>1, <3>2 DEF IsReader, Pages
    <3>4. Fiftieth \cap users \in SUBSET Uids
      BY SeedAssumption
    <3> QED
      BY <1>1, <2>2, <3>3, <3>4, BanRefines
  <2> QED
    BY <1>9, <2>1, <2>2 DEF BanFiftieth
<1> QED
  BY <1>5, <1>6, <1>7, <1>8, <1>9

LEMMA NextRefines == IInv /\ IInv' /\ [Next]_vars => [M!Next]_(M!vars)
<1> SUFFICES ASSUME IInv, IInv', [Next]_vars PROVE [M!Next]_(M!vars)
  OBVIOUS
<1>1. CASE UNCHANGED vars \/ Tick
  <2>1. UNCHANGED <<banned, postOf, req>>
    BY <1>1 DEF vars, tables, history, Tick
  <2>2. \A r \in Reqs : Reader(req[r])' = Reader(req[r])
    BY <2>1 DEF Reader, Shown
  <2> QED
    BY <2>1, <2>2 DEF M!vars
<1>2. ASSUME NEW r \in Reqs, NEW op \in Ops, Send(r, op) PROVE [M!Next]_(M!vars)
  BY <1>2, SendRefines
<1>3. ASSUME NEW r \in Reqs,
             \/ SelectOwner(r) \/ SelectPosts(r) \/ CountComments(r)
             \/ SelectComments(r) \/ SelectCommenter(r) \/ SelectAuthor(r)
             \/ CountUser(r) \/ GetImage(r) \/ SelectFails(r) \/ SelectMe(r)
             \/ InsertFails(r) \/ EndBan(r)
      PROVE  [M!Next]_(M!vars)
  <2>1. /\ req[r].pc \notin {"idle", "reply"} /\ UNCHANGED <<banned, postOf>>
        /\ \A s \in Reqs \ {r} : req'[s] = req[s]
        /\ req'[r].op = req[r].op /\ req'[r].hidden = req[r].hidden
        /\ req'[r].pc # "idle"
    BY <1>3, LocalKeeps
  <2> QED
    BY <2>1, ReadRefines
<1>4. ASSUME NEW r \in Reqs, InsertPost(r) \/ InsertComment(r) \/ InsertUser(r)
      PROVE  [M!Next]_(M!vars)
  BY <1>4, InsertRefines
<1>5. ASSUME NEW r \in Reqs, BanOne(r) PROVE [M!Next]_(M!vars)
  BY <1>5, BanOneRefines
<1>6. ASSUME NEW r \in Reqs, DeleteUsers(r) \/ DeletePosts(r) \/ DeleteComments(r)
                             \/ UnbanAll(r) \/ BanFiftieth(r)
      PROVE  [M!Next]_(M!vars)
  BY <1>6, InitializeRefines
<1>7. ASSUME NEW r \in Reqs, Reply(r) PROVE [M!Next]_(M!vars)
  BY <1>7, ReplyRefines
<1> QED
  BY <1>1, <1>2, <1>3, <1>4, <1>5, <1>6, <1>7 DEF Next, Client, Server

LEMMA InitRefines == Init => M!Init
<1> SUFFICES ASSUME Init PROVE M!Init
  OBVIOUS
<1>1. banned \in SUBSET Uids
  BY SeedAssumption DEF Init
<1>2. \A r \in Reqs : Reader(req[r]) = M!Away
  BY DEF Init, Idle, Reader, M!Away
<1> QED
  BY <1>1, <1>2 DEF M!Init

\* Pages put together by many statements, none of them in a transaction, keep
\* the promise Moderation states: GoTimeline implements it.
THEOREM Refinement == Spec => Moderated
<1>1. Init => M!Init
  BY InitRefines
<1>2. IInv /\ IInv' /\ [Next]_vars => [M!Next]_(M!vars)
  BY NextRefines
<1> QED
  BY <1>1, <1>2, Invariance, PTL DEF Spec, Moderated, M!Spec
=============================================================================
