------------------------------ MODULE GoTimeline ------------------------------
(***************************************************************************)
(* Posts, comments and the pages made of them in the Go web application    *)
(* (src/webapp/golang/app.go).                                             *)
(*                                                                         *)
(* A page is not a snapshot: the posts are selected first, and for each of *)
(* them makePosts counts the comments, selects them, and selects their     *)
(* users and the post's, one statement at a time, while others post,       *)
(* comment, ban and initialize.  There are no transactions.  Who may write *)
(* is the subject of GoSessions and is not repeated here.                  *)
(***************************************************************************)
EXTENDS Naturals, Sequences, FiniteSets

CONSTANTS
    Reqs,          \* request slots: the bound on requests in flight
    Uids,          \* users.id
    Pids,          \* posts.id
    Cids,          \* comments.id
    SeedUsers, SeedPosts, SeedComments,     \* the rows dbInitialize keeps
    SeedPost,      \* author and created_at of the posts among them
    SeedComment,   \* post, author and created_at of the comments among them
    Fiftieth,      \* the users dbInitialize bans
    PostsPerPage,
    CommentLimit,  \* the LIMIT of the comments below a post
    Start,         \* the time of the first request
    Ops,           \* the handlers the clients of this instance call
    None

Pages == {"index", "posts", "post", "page"}
Writes == {"newPost", "newComment"}
Inserts == Writes \cup {"register"}
AllOps == Pages \cup Inserts \cup {"image", "ban", "initialize"}

Post == [author : Uids, at : Nat]
Comment == [post : Pids, author : Uids, at : Nat]

\* A post as makePosts leaves it.  The comments are shown oldest first.
Entry == [post : Pids, count : Nat, comments : SUBSET Cids]

ASSUME NoneAssumption ==
    None \notin Uids \cup Pids \cup Post \cup Comment \cup Entry
ASSUME IdsAssumption == Pids \cap Cids = {} /\ IsFiniteSet(Cids)
ASSUME SeedAssumption ==
    /\ SeedUsers \subseteq Uids /\ Fiftieth \subseteq Uids
    /\ SeedPosts \subseteq Pids /\ SeedComments \subseteq Cids
    /\ SeedPost \in [SeedPosts -> Post]
    /\ SeedComment \in [SeedComments -> Comment]
    /\ \A p \in SeedPosts : SeedPost[p].author \in SeedUsers
    /\ \A c \in SeedComments : SeedComment[c].author \in SeedUsers
ASSUME LimitAssumption ==
    PostsPerPage \in Nat \ {0} /\ CommentLimit \in Nat \ {0} /\ Start \in Nat
ASSUME OpsAssumption == Ops \subseteq AllOps

VARIABLES
    users,       \* users: the ids with a row
    banned,      \* ... and with del_flg = 1
    given,       \* the ids AUTO_INCREMENT has given out
    posts,       \* posts: the ids with a row
    postOf,      \* the row an id was given to, deleted or not
    comments,    \* comments: the ids with a row
    commentOf,   \* the row an id was given to, deleted or not
    now,         \* the clock created_at is read from
    acked,       \* posts and comments whose writer was answered
    dead,        \* users whose ban was acknowledged, all updates having worked
    torn,        \* an /initialize met a post or comment or lost a statement
    req          \* the requests in flight

tables == <<users, banned, given, posts, postOf, comments, commentOf>>
history == <<acked, dead, torn>>
vars == <<tables, now, history, req>>

PCs == {"idle", "me", "name", "select", "count", "comments", "users", "tail",
        "insert", "update", "delUsers", "delPosts", "delComments", "unban",
        "reban", "reply"}

Request ==
    [op : AllOps, pc : PCs,
     user : Uids \cup {None},       \* session.user_id, or whose page it is
     post : Pids \cup {None},       \* post_id, or the id in the path
     max : Nat,                     \* max_created_at
     todo : SUBSET Pids,            \* results makePosts has yet to come to
     entry : Entry \cup {None},     \* the post it is working on
     look : SUBSET Cids,            \* comments below it that want their user
     page : Seq(Entry),
     ok : BOOLEAN,                  \* the reply is not an empty error page
     left : SUBSET Uids,            \* uid[] still to be updated
     done : SUBSET Uids,            \* ... and updated
     hidden : SUBSET Uids,          \* banned ever since it was sent
     flicker : SUBSET Uids,         \* banned at some time since
     due : SUBSET (Pids \cup Cids), \* acknowledged before it was sent
     dead : SUBSET Uids,            \* ban acknowledged before it was sent
     purged : BOOLEAN,              \* posts or comments were deleted since
     alone : BOOLEAN]               \* this /initialize met no write or failure

Idle ==
    [op |-> "index", pc |-> "idle", user |-> None, post |-> None, max |-> 0,
     todo |-> {}, entry |-> None, look |-> {}, page |-> <<>>, ok |-> FALSE,
     left |-> {}, done |-> {}, hidden |-> {}, flicker |-> {}, due |-> {},
     dead |-> {}, purged |-> FALSE, alone |-> FALSE]

TypeOK ==
    /\ users \subseteq given /\ banned \subseteq users /\ given \subseteq Uids
    /\ postOf \in [Pids -> Post \cup {None}]
    /\ posts \subseteq {p \in Pids : postOf[p] # None}
    /\ commentOf \in [Cids -> Comment \cup {None}]
    /\ comments \subseteq {c \in Cids : commentOf[c] # None}
    /\ now \in Nat
    /\ acked \subseteq posts \cup comments
    /\ dead \subseteq Uids /\ torn \in BOOLEAN
    /\ req \in [Reqs -> Request]

Init ==
    /\ users = SeedUsers /\ given = SeedUsers
    /\ banned = Fiftieth \cap SeedUsers
    /\ posts = SeedPosts
    /\ postOf = [p \in Pids |-> IF p \in SeedPosts THEN SeedPost[p] ELSE None]
    /\ comments = SeedComments
    /\ commentOf = [c \in Cids |-> IF c \in SeedComments THEN SeedComment[c]
                                                         ELSE None]
    /\ now = Start
    /\ acked = SeedPosts \cup SeedComments
    /\ dead = {} /\ torn = FALSE
    /\ req = [r \in Reqs |-> Idle]

-----------------------------------------------------------------------------
At(r, pc, ops) == req[r].pc = pc /\ req[r].op \in ops
Becomes(r, q) == req' = [req EXCEPT ![r] = q]

\* The template is executed; or the handler returned without it, or with a
\* status of its own.
Served(q) == [q EXCEPT !.pc = "reply", !.ok = TRUE]
Failed(q) == [q EXCEPT !.pc = "reply", !.page = <<>>]

InFlight(ops) == {r \in Reqs : req[r].pc # "idle" /\ req[r].op \in ops}

(***************************************************************************)
(* A client sends a request.  The user is one some session names, the      *)
(* posts are ids a client can know.                                        *)
(***************************************************************************)
FirstPC(op) ==
    CASE op \in Writes                             -> "me"
      [] op = "page"                               -> "name"
      [] op \in {"index", "posts", "post", "image"} -> "select"
      [] op = "register"                           -> "insert"
      [] op = "ban"                                -> "update"
      [] op = "initialize"                         -> "delUsers"

Meets(op) ==        \* the writes in flight an /initialize meets, or the reverse
    InFlight(IF op \in Inserts THEN {"initialize"}
             ELSE IF op = "initialize" THEN Inserts \cup {"initialize", "ban"}
             ELSE IF op = "ban" THEN {"initialize"} ELSE {})

Send(r, op) ==
    /\ req[r].pc = "idle"
    /\ \E user \in IF op \in Writes \cup {"page"} THEN given ELSE {None},
          post \in IF op \in {"post", "image", "newComment"}
                   THEN {p \in Pids : postOf[p] # None} ELSE {None},
          max \in IF op = "posts" THEN 0..now ELSE {0},
          left \in IF op = "ban" THEN SUBSET given ELSE {{}} :
         req' = [q \in Reqs |->
            IF q = r
            THEN [Idle EXCEPT !.op = op, !.pc = FirstPC(op), !.user = user,
                     !.post = post, !.max = max, !.left = left,
                     !.hidden = banned, !.flicker = banned, !.due = acked,
                     !.dead = dead, !.alone = Meets(op) = {}]
            ELSE IF q \in Meets(op) THEN [req[q] EXCEPT !.alone = FALSE]
            ELSE req[q]]
    /\ torn' = (torn \/ (op \in Writes /\ InFlight({"initialize"}) # {})
                     \/ (op = "initialize" /\ InFlight(Writes) # {}))
    /\ UNCHANGED <<tables, now, acked, dead>>

-----------------------------------------------------------------------------
(***************************************************************************)
(* makePosts.  The results come newest first; posts of one second in any   *)
(* order, so the next one is any of the newest that are left.              *)
(***************************************************************************)
Newest(todo) == {p \in todo : \A q \in todo : postOf[q].at <= postOf[p].at}

\* What the page of q asks MySQL for.
Wanted(q, p) ==
    CASE q.op = "index"           -> TRUE
      [] q.op = "posts"           -> postOf[p].at <= q.max
      [] q.op = "page"            -> postOf[p].author = q.user
      [] q.op \in {"post", "image"} -> p = q.post

FullEarly(page) == Len(page) + 1 >= PostsPerPage  \* mutant of Full
Full(page) == Len(page) >= PostsPerPage

NextPost(q, todo, page) ==
    IF todo = {} \/ Full(page)
    THEN {[q EXCEPT !.pc = IF q.op = "page" THEN "tail" ELSE "reply",
                    !.ok = q.op # "page", !.todo = {}, !.entry = None,
                    !.page = page]}
    ELSE {[q EXCEPT !.pc = "count", !.todo = todo \ {p},
                    !.entry = [post |-> p, count |-> 0, comments |-> {}],
                    !.page = page] : p \in Newest(todo)}

Reading == UNCHANGED <<tables, now, history>>

\* getAccountName: the user by name, who must not be banned.
SelectOwner(r) ==
    /\ At(r, "name", {"page"})
    /\ Becomes(r, IF req[r].user \in users \ banned
                  THEN [req[r] EXCEPT !.pc = "select"]
                  ELSE Failed(req[r]))
    /\ Reading

SelectPosts(r) ==
    /\ At(r, "select", Pages)
    /\ \E q \in NextPost(req[r], {p \in posts : Wanted(req[r], p)}, <<>>) :
         Becomes(r, q)
    /\ Reading

CountAll(p) == Cardinality(comments)              \* mutant of CountOn
CommentsOn(p) == {c \in comments : commentOf[c].post = p}
CountOn(p) == Cardinality(CommentsOn(p))

CountComments(r) ==
    /\ At(r, "count", Pages)
    /\ Becomes(r, [req[r] EXCEPT !.entry.count = CountOn(req[r].entry.post),
                                 !.pc = "comments"])
    /\ Reading

\* ORDER BY created_at DESC, LIMIT 3 unless the page is the post's own.
Few(cs) == IF Cardinality(cs) <= CommentLimit THEN Cardinality(cs)
                                              ELSE CommentLimit
Oldest(cs) ==                                     \* mutant of Latest
    {few \in SUBSET cs :
        /\ Cardinality(few) = Few(cs)
        /\ \A c \in few, d \in cs \ few : commentOf[c].at <= commentOf[d].at}
Latest(cs) ==
    {few \in SUBSET cs :
        /\ Cardinality(few) = Few(cs)
        /\ \A c \in few, d \in cs \ few : commentOf[d].at <= commentOf[c].at}

SelectComments(r) ==
    /\ At(r, "comments", Pages)
    /\ \E few \in LET all == CommentsOn(req[r].entry.post)
                  IN  IF req[r].op = "post" THEN {all} ELSE Latest(all) :
         Becomes(r, [req[r] EXCEPT !.entry.comments = few, !.look = few,
                                   !.pc = "users"])
    /\ Reading

\* The user of each comment has to be there ...
SelectCommenter(r) ==
    /\ At(r, "users", Pages)
    /\ \E c \in req[r].look :
         /\ \A d \in req[r].look : commentOf[d].at <= commentOf[c].at
         /\ Becomes(r, IF commentOf[c].author \in users
                       THEN [req[r] EXCEPT !.look = @ \ {c}]
                       ELSE Failed(req[r]))
    /\ Reading

\* ... and so has the post's, whose del_flg decides whether it is shown.
AnyAuthor(u) == TRUE                              \* mutant of Shows
Shows(u) == u \notin banned

SelectAuthor(r) ==
    /\ At(r, "users", Pages) /\ req[r].look = {}
    /\ LET q == req[r]
           author == postOf[q.entry.post].author
           page == IF Shows(author) THEN Append(q.page, q.entry) ELSE q.page
       IN  IF author \in users
           THEN \E p \in NextPost(q, q.todo, page) : Becomes(r, p)
           ELSE Becomes(r, Failed(q))
    /\ Reading

\* The three counts of a user's page; and a post's image.
CountUser(r) ==
    /\ At(r, "tail", {"page"})
    /\ Becomes(r, Served(req[r]))
    /\ Reading

GetImage(r) ==
    /\ At(r, "select", {"image"})
    /\ Becomes(r, IF req[r].post \in posts
                  THEN [Served(req[r]) EXCEPT !.page =
                          <<[post |-> req[r].post, count |-> 0,
                             comments |-> {}]>>]
                  ELSE Failed(req[r]))
    /\ Reading

\* An error of any SELECT ends the handler without a page.
SelectFails(r) ==
    /\ req[r].pc \in {"me", "name", "select", "count", "comments", "users", "tail"}
    /\ Becomes(r, Failed(req[r]))
    /\ Reading

-----------------------------------------------------------------------------
(***************************************************************************)
(* Writes                                                                  *)
(***************************************************************************)
\* getSessionUser: the writer has to have a row, banned or not.
SelectMe(r) ==
    /\ At(r, "me", Writes)
    /\ Becomes(r, IF req[r].user \in users THEN [req[r] EXCEPT !.pc = "insert"]
                                            ELSE Failed(req[r]))
    /\ Reading

InsertPost(r) ==
    /\ At(r, "insert", {"newPost"})
    /\ \E p \in Pids :
         /\ postOf[p] = None
         /\ posts' = posts \cup {p}
         /\ postOf' = [postOf EXCEPT ![p] = [author |-> req[r].user, at |-> now]]
         /\ Becomes(r, [Served(req[r]) EXCEPT !.post = p])
    /\ UNCHANGED <<users, banned, given, comments, commentOf, now, history>>

\* The post need not be there: comments has no foreign key.
InsertComment(r) ==
    /\ At(r, "insert", {"newComment"})
    /\ \E c \in Cids :
         /\ commentOf[c] = None
         /\ comments' = comments \cup {c}
         /\ commentOf' = [commentOf EXCEPT ![c] =
               [post |-> req[r].post, author |-> req[r].user, at |-> now]]
         /\ Becomes(r, [Served(req[r]) EXCEPT !.look = {c}])
    /\ UNCHANGED <<users, banned, given, posts, postOf, now, history>>

InsertUser(r) ==
    /\ At(r, "insert", {"register"})
    /\ \E u \in Uids \ given :
         /\ users' = users \cup {u}
         /\ given' = given \cup {u}
         /\ Becomes(r, [Served(req[r]) EXCEPT !.user = u])
    /\ UNCHANGED <<banned, posts, postOf, comments, commentOf, now, history>>

InsertFails(r) ==
    /\ At(r, "insert", Inserts)
    /\ Becomes(r, Failed(req[r]))
    /\ Reading

\* postAdminBanned: one UPDATE after the other, errors ignored.
AnyId(u) == {u}                                   \* mutant of Updated
Updated(u) == {u} \cap users

BanOne(r) ==
    /\ At(r, "update", {"ban"})
    /\ \E u \in req[r].left :
         \/ /\ banned' = banned \cup Updated(u)
            /\ req' = [q \in Reqs |->
                  IF q = r THEN [req[r] EXCEPT !.left = @ \ {u},
                                               !.done = @ \cup Updated(u)]
                  ELSE IF req[q].pc = "idle" THEN req[q]
                  ELSE [req[q] EXCEPT !.flicker = @ \cup Updated(u)]]
         \/ /\ Becomes(r, [req[r] EXCEPT !.left = @ \ {u}])
            /\ UNCHANGED banned
    /\ UNCHANGED <<users, given, posts, postOf, comments, commentOf, now, history>>

EndBan(r) ==
    /\ At(r, "update", {"ban"}) /\ req[r].left = {}
    /\ Becomes(r, Served(req[r]))
    /\ Reading

(***************************************************************************)
(* dbInitialize: five statements, errors ignored.                          *)
(***************************************************************************)
\* What the statement that takes users out of sight, or rows away, does to
\* what requests remember.
Remember(q, shown, rest) ==
    IF q.pc = "idle" THEN q
    ELSE [q EXCEPT !.hidden = @ \cap shown, !.done = @ \cap shown,
                   !.dead = @ \cap shown, !.due = @ \cap rest,
                   !.purged = (@ \/ rest # Pids \cup Cids)]

Goto(r, pc, shown, rest) ==
    req' = [q \in Reqs |->
              IF q = r THEN [Remember(req[q], shown, rest) EXCEPT !.pc = pc]
                       ELSE Remember(req[q], shown, rest)]

StatementFails(r, pc) ==
    /\ req' = [req EXCEPT ![r].pc = pc, ![r].alone = FALSE,
                          ![r].ok = (pc = "reply")]
    /\ torn' = TRUE
    /\ UNCHANGED <<tables, now, acked, dead>>

DeleteUsers(r) ==
    /\ At(r, "delUsers", {"initialize"})
    /\ \/ /\ users' = users \cap SeedUsers
          /\ banned' = banned \cap SeedUsers
          /\ dead' = dead \cap SeedUsers
          /\ Goto(r, "delPosts", SeedUsers, Pids \cup Cids)
          /\ UNCHANGED <<given, posts, postOf, comments, commentOf, now, acked, torn>>
       \/ StatementFails(r, "delPosts")

KeepPosts(r) ==                                   \* mutant of DeletePosts
    /\ At(r, "delPosts", {"initialize"})
    /\ Goto(r, "delComments", Uids, Pids \cup Cids)
    /\ UNCHANGED <<tables, now, history>>
DeletePosts(r) ==
    /\ At(r, "delPosts", {"initialize"})
    /\ \/ /\ posts' = posts \cap SeedPosts
          /\ acked' = acked \cap (SeedPosts \cup Cids)
          /\ Goto(r, "delComments", Uids, SeedPosts \cup Cids)
          /\ UNCHANGED <<users, banned, given, postOf, comments, commentOf, now,
                         dead, torn>>
       \/ StatementFails(r, "delComments")

KeepComments(r) ==                                \* mutant of DeleteComments
    /\ At(r, "delComments", {"initialize"})
    /\ Goto(r, "unban", Uids, Pids \cup Cids)
    /\ UNCHANGED <<tables, now, history>>
DeleteComments(r) ==
    /\ At(r, "delComments", {"initialize"})
    /\ \/ /\ comments' = comments \cap SeedComments
          /\ acked' = acked \cap (Pids \cup SeedComments)
          /\ Goto(r, "unban", Uids, Pids \cup SeedComments)
          /\ UNCHANGED <<users, banned, given, posts, postOf, commentOf, now,
                         dead, torn>>
       \/ StatementFails(r, "unban")

UnbanAll(r) ==
    /\ At(r, "unban", {"initialize"})
    /\ \/ /\ banned' = {} /\ dead' = {}
          /\ Goto(r, "reban", {}, Pids \cup Cids)
          /\ UNCHANGED <<users, given, posts, postOf, comments, commentOf, now,
                         acked, torn>>
       \/ StatementFails(r, "reban")

BanFiftieth(r) ==
    /\ At(r, "reban", {"initialize"})
    /\ \/ /\ banned' = banned \cup (Fiftieth \cap users)
          /\ req' = [q \in Reqs |->
                IF q = r THEN Served(req[r])
                ELSE IF req[q].pc = "idle" THEN req[q]
                ELSE [req[q] EXCEPT !.flicker = @ \cup (Fiftieth \cap users)]]
          /\ UNCHANGED <<users, given, posts, postOf, comments, commentOf, now,
                         history>>
       \/ StatementFails(r, "reply")

-----------------------------------------------------------------------------
\* The client is answered, and knows what was written.  An /initialize that
\* was alone has put everything in order.
Reply(r) ==
    LET q == req[r]
    IN  /\ q.pc = "reply"
        /\ acked' = IF ~ q.ok THEN acked
                    ELSE acked \cup CASE q.op = "newPost" -> {q.post} \cap posts
                                      [] q.op = "newComment" -> q.look \cap comments
                                      [] OTHER -> {}
        /\ dead' = dead \cup q.done
        /\ torn' = (torn /\ ~ (q.op = "initialize" /\ q.alone))
        /\ Becomes(r, Idle)
        /\ UNCHANGED <<tables, now>>

\* The clock goes on; created_at has seconds.
Tick == now' = now + 1 /\ UNCHANGED <<tables, history, req>>

Server ==
    \E r \in Reqs :
      \/ SelectOwner(r) \/ SelectPosts(r) \/ CountComments(r)
      \/ SelectComments(r) \/ SelectCommenter(r) \/ SelectAuthor(r)
      \/ CountUser(r) \/ GetImage(r) \/ SelectFails(r)
      \/ SelectMe(r) \/ InsertPost(r) \/ InsertComment(r) \/ InsertUser(r)
      \/ InsertFails(r) \/ BanOne(r) \/ EndBan(r)
      \/ DeleteUsers(r) \/ DeletePosts(r) \/ DeleteComments(r)
      \/ UnbanAll(r) \/ BanFiftieth(r) \/ Reply(r)

Client == \E r \in Reqs, op \in Ops : Send(r, op)

Next == Client \/ Server \/ Tick

Spec == Init /\ [][Next]_vars

-----------------------------------------------------------------------------
(***************************************************************************)
(* Properties                                                              *)
(***************************************************************************)
Shown(q) == {q.page[i].post : i \in DOMAIN q.page}

\* Whose posts a page shows although they are banned, and were when it was
\* asked for: nobody's.  Each request for a page is a reader of Moderation.
Reader(q) ==
    IF q.op \in Pages /\ q.pc # "idle"
    THEN [state |-> IF q.pc = "reply" THEN "served" ELSE "waiting",
          hidden |-> q.hidden,
          seen |-> IF q.pc = "reply" THEN {postOf[p].author : p \in Shown(q)}
                                     ELSE {}]
    ELSE [state |-> "away", hidden |-> {}, seen |-> {}]

M == INSTANCE Moderation
       WITH Readers <- Reqs, Users <- Uids, reader <- [r \in Reqs |-> Reader(req[r])]

Moderated == M!Spec

PageServed(r) == At(r, "reply", Pages) /\ req[r].ok

\* Once POST /admin/banned was answered, and its UPDATEs had worked, no page
\* asked for shows a post of these users, until /initialize lifts the ban
\* (app.go:804-806 and 210-225; whoever posts, bans or initializes meanwhile).
BanReflected ==
    \A r \in Reqs :
      PageServed(r) => \A p \in Shown(req[r]) : postOf[p].author \notin req[r].dead

\* A post whose writer was answered before a page was asked for is on the page,
\* unless its author was banned at some time meanwhile, it was deleted, or the
\* page is full of posts that are not older: makePosts neither loses a post
\* nor stops early (app.go:178-228).
PostsReflected ==
    \A r \in Reqs :
      PageServed(r) =>
        \A p \in req[r].due \cap Pids :
          Wanted(req[r], p) /\ postOf[p].author \notin req[r].flicker =>
            \/ p \in Shown(req[r])
            \/ /\ Len(req[r].page) >= PostsPerPage
               /\ \A s \in Shown(req[r]) : postOf[p].at <= postOf[s].at

\* The same of comments, which are counted and listed by two statements: the
\* count includes every comment acknowledged before, and the list has it
\* or newer ones instead (app.go:182-195).
CommentsReflected ==
    \A r \in Reqs :
      PageServed(r) =>
        \A i \in DOMAIN req[r].page :
          LET e == req[r].page[i]
              mine == {c \in req[r].due \cap Cids : commentOf[c].post = e.post}
          IN  /\ Cardinality(mine) <= e.count
              /\ \A c \in mine \ e.comments :
                   /\ req[r].op # "post"
                   /\ Cardinality(e.comments) >= CommentLimit
                   /\ \A d \in e.comments : commentOf[c].at <= commentOf[d].at

\* A page never says there are more comments than it shows where it could show
\* them, unless comments were deleted meanwhile; its posts are distinct and
\* newest first.
PageCoherent ==
    \A r \in Reqs :
      LET page == req[r].page
      IN  PageServed(r) =>
            /\ Len(page) <= PostsPerPage
            /\ \A i, j \in DOMAIN page :
                 i < j => /\ page[i].post # page[j].post
                          /\ postOf[page[j].post].at <= postOf[page[i].post].at
            /\ \A i \in DOMAIN page :
                 \/ req[r].purged
                 \/ page[i].count <= Cardinality(page[i].comments)
                 \/ /\ req[r].op # "post"
                    /\ CommentLimit <= Cardinality(page[i].comments)

Orphans == \/ \E p \in posts : postOf[p].author \notin users
           \/ \E c \in comments : commentOf[c].author \notin users

\* A post or comment without its user, which makes makePosts fail for every
\* page it would be on (app.go:198-201, 212-215), is only left behind by an
\* /initialize that met a post or a comment in flight, or that lost a statement
\* (app.go:82-94: users go before posts and comments).
OrphansOnlyByRace ==
    ~ torn /\ InFlight({"initialize"}) = {} => ~ Orphans

\* An /initialize that meets no write and loses no statement puts the tables
\* back to the seed, whatever was written, banned or left behind before.
InitializeRestores ==
    \A r \in Reqs :
      At(r, "reply", {"initialize"}) /\ req[r].alone =>
        /\ users = SeedUsers /\ banned = Fiftieth \cap SeedUsers
        /\ posts = SeedPosts /\ comments = SeedComments
=============================================================================
