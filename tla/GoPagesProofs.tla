--------------------------- MODULE GoPagesProofs ----------------------------
(***************************************************************************)
(* What the pages of GoTimeline show, proved for any number of requests,   *)
(* users, posts and comments: a page is put together by many statements    *)
(* between which others post, comment, ban and initialize.                 *)
(***************************************************************************)
EXTENDS GoTimelineProofs

-----------------------------------------------------------------------------
(***************************************************************************)
(* The inductive invariant: what holds of a page while makePosts makes it. *)
(***************************************************************************)
\* makePosts is working on a post; and it has returned.
AtPost(q) == q.pc \in {"count", "comments", "users"}
Made(q) == q.pc = "tail" \/ (q.pc = "reply" /\ q.ok)

\* Who is banned has been so at some time since the page was asked for, and
\* what was acknowledged before that and not deleted since is there.
SentInv(q) ==
    /\ banned \subseteq q.flicker
    /\ q.due \cap Pids \subseteq posts
    /\ q.due \cap Cids \subseteq comments
    /\ q.pc # "reply" => ~ q.ok

\* Posts come newest first: those on the page, the one at hand, the rest.
OrderInv(q) ==
    /\ \A i, j \in DOMAIN q.page :
         i < j => /\ q.page[i].post # q.page[j].post
                  /\ postOf[q.page[j].post].at <= postOf[q.page[i].post].at
    /\ Len(q.page) <= PostsPerPage
    /\ AtPost(q) =>
         /\ Len(q.page) < PostsPerPage
         /\ \A i \in DOMAIN q.page :
              /\ q.page[i].post # q.entry.post
              /\ postOf[q.entry.post].at <= postOf[q.page[i].post].at
         /\ \A p \in q.todo :
              /\ p # q.entry.post
              /\ \A i \in DOMAIN q.page : p # q.page[i].post
              /\ postOf[p].at <= postOf[q.entry.post].at

\* A post that was due is shown, or has its turn coming, or the page is full.
DueInv(q) ==
    \A p \in q.due \cap Pids :
      Wanted(q, p) /\ postOf[p].author \notin q.flicker =>
        \/ p \in Shown(q)
        \/ AtPost(q) /\ (p = q.entry.post \/ p \in q.todo)
        \/ /\ Made(q)
           /\ Len(q.page) >= PostsPerPage
           /\ \A s \in Shown(q) : postOf[p].at <= postOf[s].at

\* The comments that were due below a post; and that there are so many below
\* it that older ones are left out.
DueOn(q, p) == {c \in q.due \cap Cids : commentOf[c].post = p}
Crowded(q, e) == q.op # "post" /\ CommentLimit <= Cardinality(e.comments)

Counted(q, e) == Cardinality(DueOn(q, e.post)) <= e.count

Listed(q, e) ==
    /\ \A c \in e.comments : commentOf[c] # None
    /\ \A c \in DueOn(q, e.post) \ e.comments :
         /\ Crowded(q, e)
         /\ \A d \in e.comments : commentOf[c].at <= commentOf[d].at

Matching(q, e) ==
    q.purged \/ e.count <= Cardinality(e.comments) \/ Crowded(q, e)

EntryInv(q, e) == Counted(q, e) /\ Listed(q, e) /\ Matching(q, e)

MakingInv(q) ==
    /\ SentInv(q)
    /\ AtPost(q) \/ Made(q) =>
         /\ OrderInv(q) /\ DueInv(q)
         /\ \A i \in DOMAIN q.page : EntryInv(q, q.page[i])
    /\ q.pc \in {"comments", "users"} => Counted(q, q.entry)
    /\ q.pc = "comments" => q.purged \/ q.entry.count <= CountOn(q.entry.post)
    /\ q.pc = "users" => EntryInv(q, q.entry)

Makes(q) == q.op \in Pages /\ q.pc # "idle"

PagesInv == \A r \in Reqs : Makes(req[r]) => MakingInv(req[r])

-----------------------------------------------------------------------------
(***************************************************************************)
(* What others may do while a page is made.                                *)
(***************************************************************************)
CommentsKept == \A c \in Cids : commentOf[c] # None => commentOf'[c] = commentOf[c]

\* A set of comments is finite, and a part of it has no more of them.
LEMMA CommentsFinite ==
  ASSUME NEW T, T \subseteq Cids, NEW S, S \subseteq T
  PROVE  /\ IsFiniteSet(T) /\ IsFiniteSet(S)
         /\ Cardinality(T) \in Nat /\ Cardinality(S) \in Nat
         /\ Cardinality(S) <= Cardinality(T)
         /\ Cardinality(S) = Cardinality(T) => S = T
BY IdsAssumption, FS_Subset, FS_CardinalityType

\* What other requests come to know while they are away: what they were sent
\* with may be deleted, others are banned.
Noted(q, p) ==
    /\ p.op = q.op /\ p.pc = q.pc /\ p.user = q.user /\ p.post = q.post
    /\ p.max = q.max /\ p.todo = q.todo /\ p.entry = q.entry /\ p.page = q.page
    /\ p.ok = q.ok
    /\ p.due \subseteq q.due /\ q.flicker \subseteq p.flicker
    /\ q.purged => p.purged

\* The duties of a request for comments get less.
LEMMA DueShrinks ==
  ASSUME TypeOK, CommentsKept, NEW q \in Request, NEW p \in Request, Noted(q, p),
         q.due \cap Cids \subseteq comments, NEW x
  PROVE  /\ DueOn(p, x)' \subseteq DueOn(q, x)
         /\ Cardinality(DueOn(p, x)') <= Cardinality(DueOn(q, x))
         /\ Cardinality(DueOn(p, x)') \in Nat /\ Cardinality(DueOn(q, x)) \in Nat
<1>1. DueOn(q, x) \subseteq Cids
  BY DEF DueOn
<1>2. DueOn(p, x)' \subseteq DueOn(q, x)
  <2> SUFFICES ASSUME NEW c \in Cids, c \in p.due, commentOf'[c].post = x
               PROVE  c \in q.due /\ commentOf[c].post = x
    BY DEF DueOn
  <2>1. c \in q.due
    BY DEF Noted
  <2>2. commentOf[c] # None
    BY <2>1 DEF TypeOK
  <2> QED
    BY <2>1, <2>2 DEF CommentsKept
<1> QED
  BY <1>1, <1>2, CommentsFinite

\* An entry says as much as before.
LEMMA EntryKept ==
  ASSUME TypeOK, CommentsKept, NEW q \in Request, NEW p \in Request, Noted(q, p),
         q.due \cap Cids \subseteq comments, NEW e \in Entry
  PROVE  /\ Counted(q, e) => Counted(p, e)'
         /\ EntryInv(q, e) => EntryInv(p, e)'
<1>1. e.count \in Nat /\ e.comments \subseteq Cids
  BY DEF Entry
<1>2. DueOn(p, e.post)' \subseteq DueOn(q, e.post)
      /\ Cardinality(DueOn(p, e.post)') <= Cardinality(DueOn(q, e.post))
      /\ Cardinality(DueOn(p, e.post)') \in Nat /\ Cardinality(DueOn(q, e.post)) \in Nat
  BY DueShrinks
<1>3. Counted(q, e) => Counted(p, e)'
  BY <1>1, <1>2 DEF Counted
<1>4. ASSUME Listed(q, e) PROVE Listed(p, e)'
  <2>1. \A c \in e.comments : commentOf[c] # None /\ commentOf'[c] = commentOf[c]
    BY <1>1, <1>4 DEF Listed, CommentsKept
  <2>2. ASSUME NEW c \in DueOn(p, e.post)' \ e.comments
        PROVE  /\ Crowded(p, e)
               /\ \A d \in e.comments : commentOf'[c].at <= commentOf'[d].at
    <3>1. c \in DueOn(q, e.post) \ e.comments
      BY <1>2
    <3>2. commentOf'[c] = commentOf[c]
      BY <3>1 DEF DueOn, TypeOK, CommentsKept
    <3> QED
      BY <1>4, <2>1, <3>1, <3>2 DEF Listed, Crowded, Noted
  <2> QED
    BY <2>1, <2>2 DEF Listed, Crowded
<1>5. Matching(q, e) => Matching(p, e)'
  BY DEF Matching, Crowded, Noted
<1> QED
  BY <1>3, <1>4, <1>5 DEF EntryInv

\* Whoever posts, comments, bans or deletes: what a page has so far stands.
LEMMA NotedKeeps ==
  ASSUME TypeOK, TypeOK', PostsKept, CommentsKept,
         NEW q \in Request, NEW p \in Request, Noted(q, p),
         Makes(q), PageInv(q), MakingInv(q),
         banned' \subseteq p.flicker,
         p.due \cap Pids \subseteq posts', p.due \cap Cids \subseteq comments',
         p.purged \/ comments \subseteq comments'
  PROVE  MakingInv(p)'
<1>1. /\ q.page \in Seq(Entry) /\ q.todo \subseteq Pids
      /\ q.due \cap Pids \subseteq posts /\ q.due \cap Cids \subseteq comments
      /\ \A i \in DOMAIN q.page : q.page[i] \in Entry /\ q.page[i].post \in Pids
  <2>1. q.page \in Seq(Entry) /\ q.todo \subseteq Pids
    BY DEF Request
  <2>2. \A i \in DOMAIN q.page : q.page[i] \in Entry
    BY <2>1
  <2>3. \A i \in DOMAIN q.page : q.page[i].post \in Pids
    BY <2>2 DEF Entry
  <2>4. q.due \cap Pids \subseteq posts /\ q.due \cap Cids \subseteq comments
    BY DEF MakingInv, SentInv
  <2> QED
    BY <2>1, <2>2, <2>3, <2>4
<1>2. AtPost(q) => /\ q.entry \in Entry /\ q.entry.post \in Pids
                   /\ postOf[q.entry.post] # None
  BY DEF AtPost, Request, PageInv, Entry
<1>3. /\ \A i \in DOMAIN q.page : postOf'[q.page[i].post] = postOf[q.page[i].post]
      /\ \A x \in q.todo : postOf'[x] = postOf[x]
      /\ \A x \in q.due \cap Pids : postOf'[x] = postOf[x]
      /\ AtPost(q) => postOf'[q.entry.post] = postOf[q.entry.post]
  BY <1>1, <1>2 DEF PageInv, PostsKept, TypeOK
<1>4. SentInv(p)'
  BY DEF SentInv, MakingInv, Noted
<1>5. /\ AtPost(p) <=> AtPost(q)
      /\ Made(p) <=> Made(q)
  BY DEF AtPost, Made, Noted
<1>6. ASSUME OrderInv(q) PROVE OrderInv(p)'
  <2>1. /\ \A i, j \in DOMAIN p.page :
             i < j => /\ p.page[i].post # p.page[j].post
                      /\ postOf'[p.page[j].post].at <= postOf'[p.page[i].post].at
        /\ Len(p.page) <= PostsPerPage
    BY <1>3, <1>6 DEF OrderInv, Noted
  <2>2. AtPost(p) =>
         /\ Len(p.page) < PostsPerPage
         /\ \A i \in DOMAIN p.page :
              /\ p.page[i].post # p.entry.post
              /\ postOf'[p.entry.post].at <= postOf'[p.page[i].post].at
         /\ \A x \in p.todo :
              /\ x # p.entry.post
              /\ \A i \in DOMAIN p.page : x # p.page[i].post
              /\ postOf'[x].at <= postOf'[p.entry.post].at
    BY <1>3, <1>5, <1>6 DEF OrderInv, Noted
  <2> QED
    BY <2>1, <2>2 DEF OrderInv, AtPost
<1>7. ASSUME DueInv(q) PROVE DueInv(p)'
  <2> SUFFICES ASSUME NEW x \in p.due \cap Pids,
                      Wanted(p, x)', postOf'[x].author \notin p.flicker
               PROVE  \/ x \in Shown(p)
                      \/ AtPost(p) /\ (x = p.entry.post \/ x \in p.todo)
                      \/ /\ Made(p)
                         /\ Len(p.page) >= PostsPerPage
                         /\ \A s \in Shown(p) : postOf'[x].at <= postOf'[s].at
    BY DEF DueInv, Shown, AtPost, Made
  <2>1. x \in q.due \cap Pids /\ postOf'[x] = postOf[x]
    BY <1>3 DEF Noted
  <2>2. Wanted(q, x)
    BY <2>1 DEF Wanted, Noted
  <2>3. postOf[x].author \notin q.flicker
    BY <2>1 DEF Noted
  <2>4. Shown(p) = Shown(q) /\ \A s \in Shown(q) : postOf'[s] = postOf[s]
    BY <1>3 DEF Shown, Noted
  <2> QED
    BY <1>5, <1>7, <2>1, <2>2, <2>3, <2>4 DEF DueInv, Noted
<1>8. \A i \in DOMAIN q.page : EntryInv(q, q.page[i]) => EntryInv(p, p.page[i])'
  BY <1>1, EntryKept DEF Noted
<1>9. q.pc \in {"comments", "users"} => Counted(p, p.entry)'
  <2> SUFFICES ASSUME q.pc \in {"comments", "users"} PROVE Counted(p, p.entry)'
    OBVIOUS
  <2>1. Counted(q, q.entry) /\ q.entry \in Entry
    BY <1>2 DEF MakingInv, AtPost
  <2> QED
    BY <1>1, <2>1, EntryKept DEF Noted
<1>10. q.pc = "users" => EntryInv(p, p.entry)'
  <2> SUFFICES ASSUME q.pc = "users" PROVE EntryInv(p, p.entry)'
    OBVIOUS
  <2>1. EntryInv(q, q.entry) /\ q.entry \in Entry
    BY <1>2 DEF MakingInv, AtPost
  <2> QED
    BY <1>1, <2>1, EntryKept DEF Noted
<1>11. ASSUME q.pc = "comments", ~ p.purged
       PROVE  p.entry.count <= CountOn(p.entry.post)'
  <2> DEFINE x == q.entry.post
  <2>1. ~ q.purged /\ q.entry \in Entry /\ p.entry = q.entry
    BY <1>2, <1>11 DEF Noted, AtPost
  <2>2. q.entry.count <= CountOn(x) /\ q.entry.count \in Nat
    BY <1>11, <2>1 DEF MakingInv, Entry
  <2>3. CommentsOn(x) \subseteq CommentsOn(x)' /\ CommentsOn(x)' \subseteq Cids
    <3>1. ASSUME NEW c \in comments, commentOf[c].post = x
          PROVE  c \in comments' /\ commentOf'[c].post = x
      BY <1>11, <3>1 DEF TypeOK, CommentsKept
    <3> QED
      BY <3>1 DEF CommentsOn, TypeOK
  <2>4. CountOn(x) <= CountOn(x)' /\ CountOn(x) \in Nat /\ CountOn(x)' \in Nat
    BY <2>3, CommentsFinite DEF CountOn
  <2> QED
    BY <2>1, <2>2, <2>4
<1> QED
  BY <1>4, <1>5, <1>6, <1>7, <1>8, <1>9, <1>10, <1>11
  DEF MakingInv, Noted, AtPost, Made

-----------------------------------------------------------------------------
(***************************************************************************)
(* The statements of a page, which change no table.                        *)
(***************************************************************************)
\* What a page has so far depends on the tables only.
LEMMA SameTables == ASSUME UNCHANGED tables, NEW q, MakingInv(q) PROVE MakingInv(q)'
<1> USE DEF tables
<1>1. SentInv(q)'
  BY DEF MakingInv, SentInv
<1>2. OrderInv(q) => OrderInv(q)'
  BY DEF OrderInv, AtPost
<1>3. DueInv(q) => DueInv(q)'
  BY DEF DueInv, AtPost, Made, Wanted, Shown
<1>4. \A e : Counted(q, e) => Counted(q, e)'
  BY DEF Counted, DueOn
<1>5. \A e : EntryInv(q, e) => EntryInv(q, e)'
  BY DEF EntryInv, Counted, Listed, Matching, DueOn, Crowded
<1>6. CountOn(q.entry.post)' = CountOn(q.entry.post)
  BY DEF CountOn, CommentsOn
<1> QED
  BY <1>1, <1>2, <1>3, <1>4, <1>5, <1>6 DEF MakingInv, AtPost, Made

\* A statement concerns the page of its own request.
LEMMA LocalPages ==
  ASSUME TypeOK, PagesInv, NEW r \in Reqs, NEW q,
         Becomes(r, q), UNCHANGED tables, Makes(q) => MakingInv(q)
  PROVE  PagesInv'
<1>1. /\ req'[r] = q
      /\ \A s \in Reqs \ {r} : req'[s] = req[s]
  BY DEF TypeOK, Becomes
<1>2. ASSUME NEW s \in Reqs, Makes(req'[s]) PROVE MakingInv(req[s])'
  <2>1. PICK p : p = req'[s]
    OBVIOUS
  <2>2. MakingInv(p)
    <3>1. CASE s = r
      BY <1>1, <1>2, <2>1, <3>1
    <3>2. CASE s # r
      BY <1>1, <1>2, <2>1, <3>2 DEF PagesInv
    <3> QED
      BY <3>1, <3>2
  <2>3. MakingInv(p)'
    BY <2>2, SameTables
  <2> QED
    BY <2>1, <2>3
<1> QED
  BY <1>2 DEF PagesInv, Makes

\* What a request was sent with, and has come to know since.
Carries(q, p) ==
    /\ p.op = q.op /\ p.user = q.user /\ p.post = q.post /\ p.max = q.max
    /\ p.due = q.due /\ p.flicker = q.flicker /\ p.purged = q.purged

LEMMA SameEntry ==
  ASSUME NEW q, NEW p, Carries(q, p), NEW e
  PROVE  /\ Counted(q, e) => Counted(p, e)
         /\ EntryInv(q, e) => EntryInv(p, e)
BY DEF Carries, EntryInv, Counted, Listed, Matching, DueOn, Crowded

\* A statement that tells more of the post at hand leaves the rest as it is.
LEMMA SamePage ==
  ASSUME NEW q, NEW p, Carries(q, p), MakingInv(q), AtPost(q), AtPost(p),
         p.page = q.page, p.todo = q.todo, p.entry.post = q.entry.post,
         p.ok = q.ok,
         p.pc \in {"comments", "users"} => Counted(p, p.entry),
         p.pc = "comments" => p.purged \/ p.entry.count <= CountOn(p.entry.post),
         p.pc = "users" => EntryInv(p, p.entry)
  PROVE  MakingInv(p)
<1>1. SentInv(p)
  BY DEF MakingInv, SentInv, Carries, AtPost
<1>2. OrderInv(p)
  BY DEF MakingInv, OrderInv
<1>3. DueInv(p)
  <2>1. DueInv(q)
    BY DEF MakingInv
  <2>2. ~ Made(q)
    BY DEF AtPost, Made
  <2>3. Shown(p) = Shown(q) /\ \A x : Wanted(p, x) = Wanted(q, x)
    BY DEF Shown, Wanted, Carries
  <2> QED
    BY <2>1, <2>2, <2>3 DEF DueInv, Carries
<1>4. \A i \in DOMAIN p.page : EntryInv(p, p.page[i])
  BY SameEntry DEF MakingInv
<1> QED
  BY <1>1, <1>2, <1>3, <1>4 DEF MakingInv

\* makePosts goes on with one of the newest posts left, or ends because none
\* is or the page is full.
LEMMA NextPostPages ==
  ASSUME TypeOK, NEW o \in Request, o.op \in Pages, o.pc # "reply", SentInv(o),
         NEW todo \in SUBSET Pids, \A p \in todo : postOf[p] # None,
         NEW page \in Seq(Entry), Len(page) <= PostsPerPage,
         \A i, j \in DOMAIN page :
           i < j => /\ page[i].post # page[j].post
                    /\ postOf[page[j].post].at <= postOf[page[i].post].at,
         \A p \in todo, i \in DOMAIN page :
           p # page[i].post /\ postOf[p].at <= postOf[page[i].post].at,
         \A p \in o.due \cap Pids :
           Wanted(o, p) /\ postOf[p].author \notin o.flicker =>
             p \in todo \/ \E i \in DOMAIN page : p = page[i].post,
         \A i \in DOMAIN page : EntryInv(o, page[i]),
         NEW q \in NextPost(o, todo, page)
  PROVE  MakingInv(q)
<1>1. CASE todo = {} \/ Full(page)
  <2>1. PICK pc \in {"tail", "reply"}, ok \in BOOLEAN :
          /\ q = [o EXCEPT !.pc = pc, !.ok = ok, !.todo = {}, !.entry = None,
                           !.page = page]
          /\ pc = IF o.op = "page" THEN "tail" ELSE "reply"
          /\ ok = (o.op # "page")
    BY <1>1 DEF NextPost
  <2>2. /\ Carries(o, q) /\ q.page = page /\ q.pc = pc /\ q.ok = ok
    BY <2>1 DEF Request, Carries
  <2>3. ~ AtPost(q) /\ Made(q) /\ (q.pc = "tail" => ~ q.ok)
    BY <2>1, <2>2, Zenon DEF AtPost, Made
  <2>4. SentInv(q)
    BY <2>1, <2>2, <2>3 DEF SentInv, Carries
  <2>5. OrderInv(q)
    BY <2>2, <2>3 DEF OrderInv
  <2>6. DueInv(q)
    <3> SUFFICES ASSUME NEW p \in o.due \cap Pids, Wanted(o, p),
                        postOf[p].author \notin o.flicker
                 PROVE  \/ p \in Shown(q)
                        \/ /\ Len(page) >= PostsPerPage
                           /\ \A s \in Shown(q) : postOf[p].at <= postOf[s].at
      BY <2>2, <2>3 DEF DueInv, Carries, Wanted
    <3>1. CASE p \in todo
      BY <1>1, <2>2, <3>1 DEF Full, Shown
    <3>2. CASE \E i \in DOMAIN page : p = page[i].post
      BY <2>2, <3>2 DEF Shown
    <3> QED
      BY <3>1, <3>2
  <2>7. \A i \in DOMAIN page : EntryInv(q, page[i])
    BY <2>2, SameEntry
  <2> QED
    BY <2>2, <2>3, <2>4, <2>5, <2>6, <2>7 DEF MakingInv, AtPost
<1>2. CASE ~ (todo = {} \/ Full(page))
  <2>1. PICK p \in Newest(todo) :
          q = [o EXCEPT !.pc = "count", !.todo = todo \ {p},
                    !.entry = [post |-> p, count |-> 0, comments |-> {}],
                    !.page = page]
    BY <1>2 DEF NextPost
  <2>2. /\ Carries(o, q) /\ q.page = page /\ q.pc = "count" /\ q.ok = o.ok
        /\ q.todo = todo \ {p} /\ q.entry.post = p
    BY <2>1 DEF Request, Carries
  <2>3. p \in todo /\ \A x \in todo : postOf[x].at <= postOf[p].at
    BY DEF Newest
  <2>4. AtPost(q) /\ ~ Made(q)
    BY <2>2 DEF AtPost, Made
  <2>5. SentInv(q)
    BY <2>2 DEF SentInv, Carries
  <2>6. OrderInv(q)
    <3>1. Len(page) < PostsPerPage
      BY <1>2, LimitAssumption DEF Full
    <3> QED
      BY <2>2, <2>3, <2>4, <3>1 DEF OrderInv
  <2>7. DueInv(q)
    <3> SUFFICES ASSUME NEW x \in o.due \cap Pids, Wanted(o, x),
                        postOf[x].author \notin o.flicker
                 PROVE  x \in Shown(q) \/ x = p \/ x \in todo \ {p}
      BY <2>2, <2>4 DEF DueInv, Carries, Wanted
    <3> QED
      BY <2>2 DEF Shown
  <2>8. \A i \in DOMAIN page : EntryInv(q, page[i])
    BY <2>2, SameEntry
  <2> QED
    BY <2>2, <2>4, <2>5, <2>6, <2>7, <2>8 DEF MakingInv, AtPost
<1> QED
  BY <1>1, <1>2

\* A page that failed is none.
LEMMA FailedPage ==
  ASSUME NEW q \in Request, MakingInv(q), q.pc # "reply"
  PROVE  MakingInv(Failed(q))
<1>1. PICK p : p = Failed(q)
  OBVIOUS
<1>2. Carries(q, p) /\ p.pc = "reply" /\ p.ok = q.ok
  BY <1>1 DEF Failed, Carries, Request
<1>3. ~ p.ok /\ ~ AtPost(p) /\ ~ Made(p)
  BY <1>2 DEF MakingInv, SentInv, AtPost, Made
<1>4. SentInv(p)
  BY <1>2, <1>3 DEF MakingInv, SentInv, Carries
<1>5. MakingInv(p)
  BY <1>2, <1>3, <1>4 DEF MakingInv
<1> QED
  BY <1>1, <1>5

\* Any request that is not for a page may do as it likes with itself.
LEMMA OtherPages ==
  ASSUME TypeOK, PagesInv, NEW r \in Reqs, NEW q, Becomes(r, q), UNCHANGED tables,
         q.op \notin Pages
  PROVE  PagesInv'
BY LocalPages DEF Makes

LEMMA SelectOwnerPages ==
  ASSUME IInv, PagesInv, NEW r \in Reqs, SelectOwner(r) PROVE PagesInv'
<1>1. /\ TypeOK /\ req[r] \in Request /\ UNCHANGED tables
      /\ req[r].pc = "name" /\ req[r].op = "page"
  BY DEF IInv, TypeOK, SelectOwner, At, Reading
<1>2. MakingInv(req[r])
  BY <1>1 DEF PagesInv, Makes, Pages
<1>3. CASE Becomes(r, Failed(req[r]))
  <2>1. MakingInv(Failed(req[r]))
    BY <1>1, <1>2, FailedPage
  <2> QED
    BY <1>1, <1>3, <2>1, LocalPages
<1>4. CASE Becomes(r, [req[r] EXCEPT !.pc = "select"])
  <2>1. PICK q : q = [req[r] EXCEPT !.pc = "select"]
    OBVIOUS
  <2>2. Carries(req[r], q) /\ q.pc = "select" /\ q.ok = req[r].ok
    BY <1>1, <2>1 DEF Carries, Request
  <2>3. MakingInv(q)
    BY <1>1, <1>2, <2>2 DEF MakingInv, SentInv, Carries, AtPost, Made
  <2>4. Becomes(r, q)
    BY <1>4, <2>1
  <2> QED
    BY <1>1, <2>3, <2>4, LocalPages
<1> QED
  BY <1>3, <1>4 DEF SelectOwner

\* Nothing that is due is missing from what MySQL is asked for.
LEMMA SelectPostsPages ==
  ASSUME IInv, PagesInv, NEW r \in Reqs, SelectPosts(r) PROVE PagesInv'
<1>1. PICK o \in Request : o = req[r]
  BY DEF IInv, TypeOK
<1> DEFINE todo == {p \in posts : Wanted(o, p)}
<1>2. /\ TypeOK /\ UNCHANGED tables
      /\ o.pc = "select" /\ o.op \in Pages
  BY <1>1 DEF IInv, SelectPosts, At, Reading
<1>3. SentInv(o)
  BY <1>1, <1>2 DEF PagesInv, Makes, MakingInv
<1>4. todo \in SUBSET Pids /\ \A p \in todo : postOf[p] # None
  BY <1>2 DEF TypeOK
<1>5. \A p \in o.due \cap Pids : Wanted(o, p) => p \in todo
  BY <1>3 DEF SentInv
<1>6. <<>> \in Seq(Entry) /\ DOMAIN <<>> = {} /\ Len(<<>>) <= PostsPerPage
  BY LimitAssumption
<1>7. PICK q \in NextPost(o, todo, <<>>) : Becomes(r, q)
  BY <1>1 DEF SelectPosts
<1> HIDE DEF todo
<1>8. MakingInv(q)
  BY <1>2, <1>3, <1>4, <1>5, <1>6, NextPostPages
<1> QED
  BY <1>2, <1>7, <1>8, LocalPages

\* What every statement after the first finds.
LEMMA AtPostFacts ==
  ASSUME IInv, PagesInv, NEW r \in Reqs, req[r].op \in Pages, AtPost(req[r])
  PROVE  /\ TypeOK /\ req[r] \in Request /\ MakingInv(req[r]) /\ req[r].pc # "reply"
         /\ SentInv(req[r])
         /\ req[r].entry \in Entry /\ req[r].entry.post \in Pids
         /\ postOf[req[r].entry.post] # None
<1>1. TypeOK /\ req[r] \in Request /\ PageInv(req[r])
  BY DEF IInv, TypeOK, RequestInv
<1>2. MakingInv(req[r]) /\ req[r].pc # "reply"
  BY DEF PagesInv, Makes, AtPost
<1>3. req[r].entry \in Entry /\ postOf[req[r].entry.post] # None
  BY <1>1 DEF Request, PageInv, AtPost
<1>4. req[r].entry.post \in Pids
  BY <1>3 DEF Entry
<1> QED
  BY <1>1, <1>2, <1>3, <1>4 DEF MakingInv

\* The comments that are due are among those that are counted.
LEMMA CountCommentsPages ==
  ASSUME IInv, PagesInv, NEW r \in Reqs, CountComments(r) PROVE PagesInv'
<1>1. PICK o : o = req[r]
  OBVIOUS
<1>2. o.pc = "count" /\ o.op \in Pages /\ UNCHANGED tables /\ AtPost(o)
  BY <1>1 DEF CountComments, At, Reading, AtPost
<1>3. /\ TypeOK /\ o \in Request /\ MakingInv(o) /\ SentInv(o)
      /\ o.entry \in Entry
  BY <1>1, <1>2, AtPostFacts
<1> DEFINE x == o.entry.post
<1>4. PICK q : q = [o EXCEPT !.entry.count = CountOn(x), !.pc = "comments"]
  OBVIOUS
<1>5. Becomes(r, q)
  BY <1>1, <1>4 DEF CountComments
<1>6. /\ Carries(o, q) /\ q.pc = "comments" /\ q.ok = o.ok
      /\ q.page = o.page /\ q.todo = o.todo
      /\ q.entry = [o.entry EXCEPT !.count = CountOn(x)]
  BY <1>3, <1>4 DEF Request, Carries
<1>7. q.entry.post = x /\ q.entry.count = CountOn(x)
  BY <1>3, <1>6 DEF Entry
<1>8. DueOn(o, x) \subseteq CommentsOn(x) /\ CommentsOn(x) \subseteq Cids
  BY <1>3 DEF SentInv, DueOn, CommentsOn, TypeOK
<1>9. Cardinality(DueOn(o, x)) <= CountOn(x) /\ CountOn(x) \in Nat
  BY <1>8, CommentsFinite DEF CountOn
<1>10. Counted(q, q.entry)
  BY <1>6, <1>7, <1>9 DEF Counted, DueOn, Carries
<1>11. q.entry.count <= CountOn(q.entry.post)
  BY <1>7, <1>9
<1>12. AtPost(q) /\ q.pc # "users"
  BY <1>6 DEF AtPost
<1>13. MakingInv(q)
  BY <1>2, <1>3, <1>6, <1>7, <1>10, <1>11, <1>12, SamePage
<1> QED
  BY <1>2, <1>3, <1>5, <1>13, LocalPages

\* The newest comments, as many as there is room for, of those below the post.
LEMMA SelectCommentsPages ==
  ASSUME IInv, PagesInv, NEW r \in Reqs, SelectComments(r) PROVE PagesInv'
<1>1. PICK o : o = req[r]
  OBVIOUS
<1>2. o.pc = "comments" /\ o.op \in Pages /\ UNCHANGED tables /\ AtPost(o)
  BY <1>1 DEF SelectComments, At, Reading, AtPost
<1>3. /\ TypeOK /\ o \in Request /\ MakingInv(o) /\ SentInv(o)
      /\ o.entry \in Entry
  BY <1>1, <1>2, AtPostFacts
<1> DEFINE x == o.entry.post
           all == CommentsOn(x)
<1>4. PICK few \in IF o.op = "post" THEN {all} ELSE Latest(all) :
        Becomes(r, [o EXCEPT !.entry.comments = few, !.look = few, !.pc = "users"])
  BY <1>1 DEF SelectComments
<1>5. PICK q : q = [o EXCEPT !.entry.comments = few, !.look = few, !.pc = "users"]
  OBVIOUS
<1>6. /\ Carries(o, q) /\ q.pc = "users" /\ q.ok = o.ok
      /\ q.page = o.page /\ q.todo = o.todo
      /\ q.entry = [o.entry EXCEPT !.comments = few]
  BY <1>3, <1>5 DEF Request, Carries
<1>7. q.entry.post = x /\ q.entry.count = o.entry.count /\ q.entry.comments = few
      /\ q.entry.count \in Nat
  BY <1>3, <1>6 DEF Entry
<1>8. /\ all \subseteq Cids /\ DueOn(o, x) \subseteq all
      /\ \A c \in all : commentOf[c] # None
  BY <1>3 DEF SentInv, DueOn, CommentsOn, TypeOK
<1>9. few \subseteq all
  BY <1>4 DEF Latest
<1>10. /\ Cardinality(few) \in Nat /\ Cardinality(all) \in Nat
       /\ Cardinality(few) = Cardinality(all) => few = all
  BY <1>8, <1>9, CommentsFinite
<1>11. \/ few = all
       \/ /\ o.op # "post" /\ Cardinality(few) = CommentLimit
          /\ \A c \in few, d \in all \ few : commentOf[d].at <= commentOf[c].at
  BY <1>4, <1>10 DEF Latest, Few
<1>12. Counted(q, q.entry)
  BY <1>2, <1>3, <1>6, <1>7 DEF MakingInv, Counted, DueOn, Carries
<1>13. Listed(q, q.entry)
  <2>1. DueOn(q, x) = DueOn(o, x)
    BY <1>6 DEF DueOn, Carries
  <2>2. few # all => Crowded(q, q.entry)
    BY <1>6, <1>7, <1>11, LimitAssumption DEF Crowded, Carries
  <2> QED
    BY <1>7, <1>8, <1>9, <1>11, <2>1, <2>2 DEF Listed
<1>14. Matching(q, q.entry)
  <2>1. CASE few = all
    BY <1>2, <1>3, <1>6, <1>7, <2>1 DEF MakingInv, Matching, Carries, CountOn
  <2>2. CASE few # all
    BY <1>6, <1>7, <1>11, <2>2, LimitAssumption DEF Matching, Crowded, Carries
  <2> QED
    BY <2>1, <2>2
<1>15. MakingInv(q)
  BY <1>2, <1>3, <1>6, <1>7, <1>12, <1>13, <1>14, SamePage DEF EntryInv, AtPost
<1> QED
  BY <1>2, <1>3, <1>4, <1>5, <1>15, LocalPages

LEMMA SelectCommenterPages ==
  ASSUME IInv, PagesInv, NEW r \in Reqs, SelectCommenter(r) PROVE PagesInv'
<1>1. PICK o : o = req[r]
  OBVIOUS
<1>2. o.pc = "users" /\ o.op \in Pages /\ UNCHANGED tables /\ AtPost(o)
  BY <1>1 DEF SelectCommenter, At, Reading, AtPost
<1>3. TypeOK /\ o \in Request /\ MakingInv(o) /\ o.pc # "reply"
  BY <1>1, <1>2, AtPostFacts
<1>4. CASE Becomes(r, Failed(o))
  <2>1. MakingInv(Failed(o))
    BY <1>3, FailedPage
  <2> QED
    BY <1>2, <1>3, <1>4, <2>1, LocalPages
<1>5. CASE \E c \in o.look : Becomes(r, [o EXCEPT !.look = @ \ {c}])
  <2>1. PICK c \in o.look : Becomes(r, [o EXCEPT !.look = @ \ {c}])
    BY <1>5
  <2>2. PICK q : q = [o EXCEPT !.look = @ \ {c}]
    OBVIOUS
  <2>3. /\ Carries(o, q) /\ q.pc = o.pc /\ q.ok = o.ok
        /\ q.page = o.page /\ q.todo = o.todo /\ q.entry = o.entry
    BY <1>3, <2>2 DEF Request, Carries
  <2>4. Counted(q, q.entry) /\ EntryInv(q, q.entry)
    BY <1>2, <1>3, <2>3, SameEntry DEF MakingInv
  <2>5. MakingInv(q)
    BY <1>2, <1>3, <2>3, <2>4, SamePage DEF AtPost
  <2> QED
    BY <1>2, <1>3, <2>1, <2>2, <2>5, LocalPages
<1> QED
  BY <1>1, <1>4, <1>5 DEF SelectCommenter

\* The post at hand goes on the page unless its author is banned now.
LEMMA SelectAuthorPages ==
  ASSUME IInv, PagesInv, NEW r \in Reqs, SelectAuthor(r) PROVE PagesInv'
<1>1. PICK o : o = req[r]
  OBVIOUS
<1>2. o.pc = "users" /\ o.op \in Pages /\ UNCHANGED tables /\ AtPost(o)
  BY <1>1 DEF SelectAuthor, At, Reading, AtPost
<1>3. /\ TypeOK /\ o \in Request /\ MakingInv(o) /\ SentInv(o) /\ o.pc # "reply"
      /\ o.entry \in Entry /\ o.entry.post \in Pids
  BY <1>1, <1>2, AtPostFacts
<1>4. CASE Becomes(r, Failed(o))
  <2>1. MakingInv(Failed(o))
    BY <1>3, FailedPage
  <2> QED
    BY <1>2, <1>3, <1>4, <2>1, LocalPages
<1> DEFINE author == postOf[o.entry.post].author
           page == IF Shows(author) THEN Append(o.page, o.entry) ELSE o.page
<1>5. CASE \E q \in NextPost(o, o.todo, page) : Becomes(r, q)
  <2>1. o.page \in Seq(Entry) /\ o.todo \in SUBSET Pids
    BY <1>3 DEF Request
  <2>2. \A p \in o.todo : postOf[p] # None
    BY <1>1, <1>3 DEF IInv, RequestInv, PageInv
  <2>3. OrderInv(o) /\ DueInv(o) /\ EntryInv(o, o.entry)
        /\ \A i \in DOMAIN o.page : EntryInv(o, o.page[i])
    BY <1>2, <1>3 DEF MakingInv
  <2>4. \A p \in o.todo, i \in DOMAIN o.page :
          p # o.page[i].post /\ postOf[p].at <= postOf[o.page[i].post].at
    <3> SUFFICES ASSUME NEW p \in o.todo, NEW i \in DOMAIN o.page
                 PROVE  p # o.page[i].post /\ postOf[p].at <= postOf[o.page[i].post].at
      OBVIOUS
    <3>1. /\ p # o.page[i].post /\ postOf[p].at <= postOf[o.entry.post].at
          /\ postOf[o.entry.post].at <= postOf[o.page[i].post].at
      BY <1>2, <2>3 DEF OrderInv
    <3>2. o.page[i].post \in Pids /\ p \in Pids
      <4>1. o.page[i] \in Entry
        BY <2>1
      <4> QED
        BY <2>1, <4>1 DEF Entry
    <3>3. postOf[p] \in Post /\ postOf[o.entry.post] \in Post
          /\ postOf[o.page[i].post] \in Post
      BY <1>1, <1>2, <1>3, <2>2, <3>2 DEF IInv, TypeOK, RequestInv, PageInv, AtPost
    <3>4. postOf[p].at \in Nat /\ postOf[o.entry.post].at \in Nat
          /\ postOf[o.page[i].post].at \in Nat
      BY <3>3 DEF Post
    <3> QED
      BY <3>1, <3>4
  <2>5. CASE Shows(author)
    <3>1. PICK longer : longer = Append(o.page, o.entry)
      OBVIOUS
    <3>2. /\ longer \in Seq(Entry) /\ Len(longer) = Len(o.page) + 1
          /\ Len(o.page) \in Nat
          /\ DOMAIN o.page = 1..Len(o.page) /\ DOMAIN longer = 1..(Len(o.page) + 1)
          /\ \A i \in 1..Len(o.page) : longer[i] = o.page[i]
          /\ longer[Len(o.page) + 1] = o.entry
      BY <1>3, <2>1, <3>1
    <3>3. \A i \in DOMAIN longer :
            \/ i \in DOMAIN o.page /\ longer[i] = o.page[i]
            \/ i = Len(o.page) + 1 /\ longer[i] = o.entry
      BY <3>2
    <3>4. Len(longer) <= PostsPerPage
      BY <1>2, <2>3, <3>2, LimitAssumption DEF OrderInv
    <3>5. \A i, j \in DOMAIN longer :
            i < j => /\ longer[i].post # longer[j].post
                     /\ postOf[longer[j].post].at <= postOf[longer[i].post].at
      <4> SUFFICES ASSUME NEW i \in DOMAIN longer, NEW j \in DOMAIN longer, i < j
                   PROVE  /\ longer[i].post # longer[j].post
                          /\ postOf[longer[j].post].at <= postOf[longer[i].post].at
        OBVIOUS
      <4>1. i \in DOMAIN o.page /\ longer[i] = o.page[i]
        BY <3>2
      <4> QED
        BY <1>2, <2>3, <3>3, <4>1 DEF OrderInv
    <3>6. \A p \in o.todo, i \in DOMAIN longer :
            p # longer[i].post /\ postOf[p].at <= postOf[longer[i].post].at
      <4> SUFFICES ASSUME NEW p \in o.todo, NEW i \in DOMAIN longer
                   PROVE  p # longer[i].post /\ postOf[p].at <= postOf[longer[i].post].at
        OBVIOUS
      <4>1. /\ p # o.entry.post /\ postOf[p].at <= postOf[o.entry.post].at
        BY <1>2, <2>3 DEF OrderInv
      <4>2. CASE longer[i] = o.entry
        BY <4>1, <4>2
      <4>3. CASE i \in DOMAIN o.page /\ longer[i] = o.page[i]
        BY <2>4, <4>3
      <4> QED
        BY <3>3, <4>2, <4>3
    <3>7. \A p \in o.due \cap Pids :
            Wanted(o, p) /\ postOf[p].author \notin o.flicker =>
              p \in o.todo \/ \E i \in DOMAIN longer : p = longer[i].post
      <4> SUFFICES ASSUME NEW p \in o.due \cap Pids, Wanted(o, p),
                          postOf[p].author \notin o.flicker
                   PROVE  p \in o.todo \/ \E i \in DOMAIN longer : p = longer[i].post
        OBVIOUS
      <4>1. p \in Shown(o) \/ p = o.entry.post \/ p \in o.todo
        BY <1>2, <2>3 DEF DueInv, Made
      <4>2. CASE p \in Shown(o)
        BY <3>2, <4>2 DEF Shown
      <4>3. CASE p = o.entry.post
        BY <3>2, <4>3
      <4> QED
        BY <4>1, <4>2, <4>3
    <3>8. \A i \in DOMAIN longer : EntryInv(o, longer[i])
      BY <2>3, <3>3
    <3>9. PICK q \in NextPost(o, o.todo, longer) : Becomes(r, q)
      BY <1>5, <2>5, <3>1
    <3>10. MakingInv(q)
      BY <1>2, <1>3, <2>1, <2>2, <3>2, <3>4, <3>5, <3>6, <3>7, <3>8, NextPostPages
    <3> QED
      BY <1>2, <1>3, <3>9, <3>10, LocalPages
  <2>6. CASE ~ Shows(author)
    <3>1. author \in o.flicker
      BY <1>3, <2>6 DEF Shows, SentInv
    <3>2. PICK q \in NextPost(o, o.todo, o.page) : Becomes(r, q)
      BY <1>5, <2>6
    <3>3. \A p \in o.due \cap Pids :
            Wanted(o, p) /\ postOf[p].author \notin o.flicker =>
              p \in o.todo \/ \E i \in DOMAIN o.page : p = o.page[i].post
      BY <1>2, <2>3, <3>1 DEF DueInv, Made, Shown
    <3>4. /\ Len(o.page) <= PostsPerPage
          /\ \A i, j \in DOMAIN o.page :
               i < j => /\ o.page[i].post # o.page[j].post
                        /\ postOf[o.page[j].post].at <= postOf[o.page[i].post].at
      BY <2>3 DEF OrderInv
    <3>5. MakingInv(q)
      BY <1>2, <1>3, <2>1, <2>2, <2>3, <2>4, <3>2, <3>3, <3>4, NextPostPages
    <3> QED
      BY <1>2, <1>3, <3>2, <3>5, LocalPages
  <2> QED
    BY <2>5, <2>6
<1> QED
  BY <1>1, <1>4, <1>5 DEF SelectAuthor

\* All other statements that change no table.
LEMMA OtherLocalPages ==
  ASSUME IInv, PagesInv, NEW r \in Reqs,
         \/ CountUser(r) \/ GetImage(r) \/ SelectFails(r) \/ SelectMe(r)
         \/ InsertFails(r) \/ EndBan(r) \/ Reply(r)
  PROVE  PagesInv'
<1>1. PICK o : o = req[r]
  OBVIOUS
<1>2. TypeOK /\ o \in Request
  BY <1>1 DEF IInv, TypeOK
<1>3. UNCHANGED tables
  BY DEF CountUser, GetImage, SelectFails, SelectMe, InsertFails, EndBan, Reply,
         Reading
<1>4. /\ Served(o).op = o.op /\ Failed(o).op = o.op
      /\ [o EXCEPT !.pc = "insert"].op = o.op
      /\ \A page : [Served(o) EXCEPT !.page = page].op = o.op
  BY <1>2 DEF Request, Served, Failed
<1>5. CASE o.op \in Pages /\ SelectFails(r)
  <2>1. Becomes(r, Failed(o)) /\ o.pc \notin {"idle", "reply"}
    BY <1>1, <1>5 DEF SelectFails
  <2>2. MakingInv(Failed(o))
    BY <1>1, <1>2, <1>5, <2>1, FailedPage DEF PagesInv, Makes
  <2> QED
    BY <1>2, <1>3, <2>1, <2>2, LocalPages
<1>6. CASE CountUser(r)
  <2>1. Becomes(r, Served(o)) /\ o.pc = "tail" /\ o.op \in Pages
    BY <1>1, <1>6 DEF CountUser, At, Pages
  <2>2. MakingInv(o)
    BY <1>1, <2>1 DEF PagesInv, Makes
  <2>3. PICK q : q = Served(o)
    OBVIOUS
  <2>4. /\ Carries(o, q) /\ q.pc = "reply" /\ q.ok /\ q.page = o.page
    BY <1>2, <2>3 DEF Carries, Request, Served
  <2>5. /\ Made(o) /\ Made(q) /\ ~ AtPost(o) /\ ~ AtPost(q)
    BY <2>1, <2>4 DEF Made, AtPost
  <2>6. SentInv(q)
    BY <2>2, <2>4 DEF MakingInv, SentInv, Carries
  <2>7. OrderInv(q) /\ DueInv(q)
    <3>1. OrderInv(o) /\ DueInv(o)
      BY <2>2, <2>5 DEF MakingInv
    <3>2. OrderInv(q)
      BY <2>4, <2>5, <3>1 DEF OrderInv
    <3>3. Shown(q) = Shown(o) /\ \A p : Wanted(q, p) = Wanted(o, p)
      BY <2>4 DEF Shown, Wanted, Carries
    <3>4. DueInv(q)
      BY <2>4, <2>5, <3>1, <3>3 DEF DueInv, Carries
    <3> QED
      BY <3>2, <3>4
  <2>8. \A i \in DOMAIN q.page : EntryInv(q, q.page[i])
    BY <2>2, <2>4, <2>5, SameEntry DEF MakingInv
  <2>9. MakingInv(q)
    BY <2>4, <2>6, <2>7, <2>8 DEF MakingInv
  <2> QED
    BY <1>2, <1>3, <2>1, <2>3, <2>9, LocalPages
<1>7. CASE Reply(r)
  <2>1. Becomes(r, Idle) /\ ~ Makes(Idle)
    BY <1>7 DEF Reply, Makes, Idle
  <2> QED
    BY <1>2, <1>3, <2>1, LocalPages
<1>8. CASE /\ o.op \notin Pages
           /\ \/ GetImage(r) \/ SelectFails(r) \/ SelectMe(r) \/ InsertFails(r)
              \/ EndBan(r)
  <2>1. \/ Becomes(r, Served(o)) \/ Becomes(r, Failed(o))
        \/ Becomes(r, [o EXCEPT !.pc = "insert"])
        \/ \E page : Becomes(r, [Served(o) EXCEPT !.page = page])
    BY <1>1, <1>8 DEF GetImage, SelectFails, SelectMe, InsertFails, EndBan
  <2> QED
    BY <1>2, <1>3, <1>4, <1>8, <2>1, OtherPages
<1> QED
  BY <1>1, <1>5, <1>6, <1>7, <1>8
  DEF GetImage, SelectMe, InsertFails, EndBan, At, Pages, Inserts, Writes

-----------------------------------------------------------------------------
(***************************************************************************)
(* The statements that change what pages are made of.                      *)
(***************************************************************************)
\* What was sent stands for the page of q, which comes to be p.
Stands(q, p) ==
    /\ Makes(q) /\ Noted(q, p)
    /\ banned' \subseteq p.flicker
    /\ p.due \cap Pids \subseteq posts' /\ p.due \cap Cids \subseteq comments'
    /\ p.purged \/ comments \subseteq comments'

LEMMA OthersPages ==
  ASSUME IInv, TypeOK', PagesInv, PostsKept, CommentsKept,
         \A s \in Reqs : Makes(req'[s]) => Stands(req[s], req'[s])
  PROVE  PagesInv'
<1>1. ASSUME NEW s \in Reqs, Makes(req'[s]) PROVE MakingInv(req[s])'
  <2>1. PICK q \in Request, p \in Request : q = req[s] /\ p = req'[s]
    BY DEF IInv, TypeOK
  <2>2. Stands(q, p) /\ MakingInv(q) /\ PageInv(q) /\ TypeOK
    BY <1>1, <2>1 DEF PagesInv, Stands, IInv, RequestInv
  <2>3. MakingInv(p)'
    BY <2>2, NotedKeeps DEF Stands
  <2> QED
    BY <2>1, <2>3
<1> QED
  BY <1>1 DEF PagesInv, Makes

\* A page that is not touched, while rows are added and nobody is banned.
LEMMA UntouchedStands ==
  ASSUME NEW q, Makes(q), MakingInv(q), banned' \subseteq banned,
         posts \subseteq posts', comments \subseteq comments'
  PROVE  Stands(q, q)
BY DEF Stands, Noted, MakingInv, SentInv

LEMMA InsertPages ==
  ASSUME IInv, TypeOK', PagesInv, NEW r \in Reqs,
         InsertPost(r) \/ InsertComment(r) \/ InsertUser(r)
  PROVE  PagesInv'
<1>1. /\ req \in [Reqs -> Request]
      /\ postOf \in [Pids -> Post \cup {None}]
      /\ commentOf \in [Cids -> Comment \cup {None}]
  BY DEF IInv, TypeOK
<1>2. /\ req[r].op \notin Pages /\ banned' = banned
      /\ posts \subseteq posts' /\ comments \subseteq comments'
  BY DEF InsertPost, InsertComment, InsertUser, At, Pages
<1>3. PostsKept /\ CommentsKept
  BY <1>1 DEF InsertPost, InsertComment, InsertUser, PostsKept, CommentsKept
<1>4. PICK q : Becomes(r, q) /\ q.op = req[r].op
  <2>1. \/ \E p : Becomes(r, [Served(req[r]) EXCEPT !.post = p])
        \/ \E c : Becomes(r, [Served(req[r]) EXCEPT !.look = {c}])
        \/ \E u : Becomes(r, [Served(req[r]) EXCEPT !.user = u])
    BY DEF InsertPost, InsertComment, InsertUser
  <2>2. \A x : /\ [Served(req[r]) EXCEPT !.post = x].op = req[r].op
               /\ [Served(req[r]) EXCEPT !.look = {x}].op = req[r].op
               /\ [Served(req[r]) EXCEPT !.user = x].op = req[r].op
    BY <1>1 DEF Served, Request
  <2> QED
    BY <2>1, <2>2
<1>5. \A s \in Reqs : req'[s] = req[s] \/ ~ Makes(req'[s])
  BY <1>1, <1>2, <1>4 DEF Becomes, Makes
<1>6. \A s \in Reqs : Makes(req[s]) => Stands(req[s], req[s])
  BY <1>2, UntouchedStands DEF PagesInv
<1> QED
  BY <1>3, <1>5, <1>6, OthersPages

\* Who is banned is noted by every request in flight.
LEMMA BanPages ==
  ASSUME IInv, TypeOK', PagesInv, NEW r \in Reqs, req[r].op \notin Pages,
         NEW us, banned' \subseteq banned \cup us,
         UNCHANGED <<posts, postOf, comments, commentOf>>,
         req'[r].op = req[r].op,
         \A s \in Reqs \ {r} :
           \/ req'[s] = req[s] /\ req[s].pc = "idle"
           \/ req'[s] = [req[s] EXCEPT !.flicker = @ \cup us]
  PROVE  PagesInv'
<1>1. PostsKept /\ CommentsKept
  BY DEF PostsKept, CommentsKept
<1>2. ASSUME NEW s \in Reqs, Makes(req'[s]) PROVE Stands(req[s], req'[s])
  <2>1. s # r
    BY <1>2 DEF Makes
  <2>2. PICK q, p : q \in Request /\ q = req[s] /\ p = req'[s]
    BY DEF IInv, TypeOK
  <2>3. p = [q EXCEPT !.flicker = @ \cup us]
    BY <1>2, <2>1, <2>2 DEF Makes
  <2>4. Noted(q, p) /\ p.flicker = q.flicker \cup us /\ p.due = q.due
    BY <2>2, <2>3 DEF Noted, Request
  <2>5. Makes(q) /\ SentInv(q)
    BY <1>2, <2>2, <2>4 DEF Makes, Noted, PagesInv, MakingInv
  <2>6. Stands(q, p)
    BY <2>4, <2>5 DEF Stands, SentInv
  <2> QED
    BY <2>2, <2>6
<1> QED
  BY <1>1, <1>2, OthersPages

LEMMA BanOnePages ==
  ASSUME IInv, TypeOK', PagesInv, NEW r \in Reqs, BanOne(r) PROVE PagesInv'
<1>1. /\ TypeOK /\ req \in [Reqs -> Request] /\ req[r].op = "ban"
      /\ UNCHANGED <<users, posts, postOf, comments, commentOf>>
  BY DEF IInv, TypeOK, BanOne, At
<1>2. PICK u \in req[r].left :
         \/ /\ banned' = banned \cup Updated(u)
            /\ req' = [q \in Reqs |->
                  IF q = r THEN [req[r] EXCEPT !.left = @ \ {u},
                                               !.done = @ \cup Updated(u)]
                  ELSE IF req[q].pc = "idle" THEN req[q]
                  ELSE [req[q] EXCEPT !.flicker = @ \cup Updated(u)]]
         \/ /\ Becomes(r, [req[r] EXCEPT !.left = @ \ {u}])
            /\ UNCHANGED banned
  BY DEF BanOne
<1>3. CASE /\ Becomes(r, [req[r] EXCEPT !.left = @ \ {u}])
           /\ UNCHANGED banned
  <2>1. [req[r] EXCEPT !.left = @ \ {u}].op = req[r].op
    BY <1>1 DEF Request
  <2>2. \A s \in Reqs : req'[s] = req[s] \/ ~ Makes(req'[s])
    BY <1>1, <1>3, <2>1 DEF Becomes, Makes, Pages
  <2>3. \A s \in Reqs : Makes(req[s]) => Stands(req[s], req[s])
    BY <1>1, <1>3, UntouchedStands DEF PagesInv
  <2>4. PostsKept /\ CommentsKept
    BY <1>1 DEF PostsKept, CommentsKept
  <2> QED
    BY <2>2, <2>3, <2>4, OthersPages
<1>4. CASE /\ banned' = banned \cup Updated(u)
           /\ req' = [q \in Reqs |->
                  IF q = r THEN [req[r] EXCEPT !.left = @ \ {u},
                                               !.done = @ \cup Updated(u)]
                  ELSE IF req[q].pc = "idle" THEN req[q]
                  ELSE [req[q] EXCEPT !.flicker = @ \cup Updated(u)]]
  <2>1. req'[r].op = req[r].op
    <3>1. /\ req[r] \in Request
          /\ req'[r] = [req[r] EXCEPT !.left = @ \ {u}, !.done = @ \cup Updated(u)]
      BY <1>1, <1>4
    <3> QED
      BY <3>1 DEF Request
  <2>2. \A s \in Reqs \ {r} :
           \/ req'[s] = req[s] /\ req[s].pc = "idle"
           \/ req'[s] = [req[s] EXCEPT !.flicker = @ \cup Updated(u)]
    BY <1>4
  <2> QED
    BY <1>1, <1>4, <2>1, <2>2, BanPages DEF Pages
<1> QED
  BY <1>2, <1>3, <1>4

\* What /initialize deletes is no longer due, and is noted.
LEMMA DeletePages ==
  ASSUME IInv, TypeOK', PagesInv, NEW r \in Reqs, req[r].op = "initialize",
         NEW pc, NEW shown, NEW rest, Goto(r, pc, shown, rest),
         banned' \subseteq banned, UNCHANGED <<postOf, commentOf>>,
         posts \cap rest \subseteq posts', comments \cap rest \subseteq comments',
         rest = Pids \cup Cids => comments \subseteq comments'
  PROVE  PagesInv'
<1>1. PostsKept /\ CommentsKept /\ req \in [Reqs -> Request]
  BY DEF PostsKept, CommentsKept, IInv, TypeOK
<1>2. req'[r].op \notin Pages
  <2>1. PICK q, m : q \in Request /\ q = req[r] /\ m = Remember(q, shown, rest)
    BY <1>1
  <2>2. req'[r] = [m EXCEPT !.pc = pc]
    BY <1>1, <2>1 DEF Goto
  <2>3. PICK b \in BOOLEAN : b = (q.purged \/ rest # Pids \cup Cids)
    OBVIOUS
  <2>4. \/ m = q
        \/ m = [q EXCEPT !.hidden = @ \cap shown, !.done = @ \cap shown,
                         !.dead = @ \cap shown, !.due = @ \cap rest, !.purged = b]
    BY <2>1, <2>3, Zenon DEF Remember
  <2>5. m.op = q.op /\ "op" \in DOMAIN m
    BY <2>1, <2>4 DEF Request
  <2>6. req'[r].op = m.op
    BY <2>2, <2>5
  <2> QED
    BY <1>1, <2>1, <2>5, <2>6 DEF Pages
<1>3. ASSUME NEW s \in Reqs, Makes(req'[s]) PROVE Stands(req[s], req'[s])
  <2>1. s # r
    BY <1>2, <1>3 DEF Makes
  <2>2. PICK q, p : q \in Request /\ q = req[s] /\ p = req'[s]
    BY <1>1
  <2>3. p = Remember(q, shown, rest)
    BY <2>1, <2>2 DEF Goto
  <2>4. q.pc # "idle"
    BY <1>3, <2>2, <2>3 DEF Remember, Makes
  <2>5. PICK b \in BOOLEAN : b = (q.purged \/ rest # Pids \cup Cids)
    OBVIOUS
  <2>6. p = [q EXCEPT !.hidden = @ \cap shown, !.done = @ \cap shown,
                      !.dead = @ \cap shown, !.due = @ \cap rest, !.purged = b]
    BY <2>3, <2>4, <2>5, Zenon DEF Remember
  <2>7. /\ p.op = q.op /\ p.pc = q.pc /\ p.user = q.user /\ p.post = q.post
        /\ p.max = q.max /\ p.todo = q.todo /\ p.entry = q.entry
        /\ p.page = q.page /\ p.ok = q.ok
        /\ p.due = q.due \cap rest /\ p.flicker = q.flicker /\ p.purged = b
    BY <2>2, <2>6 DEF Request
  <2>8. q.purged => p.purged
    BY <2>5, <2>7, Zenon
  <2>9. p.purged \/ rest = Pids \cup Cids
    BY <2>5, <2>7, Zenon
  <2>10. Noted(q, p)
    BY <2>7, <2>8 DEF Noted
  <2>11. Makes(q) /\ SentInv(q)
    BY <1>3, <2>2, <2>7 DEF Makes, PagesInv, MakingInv
  <2>12. Stands(q, p)
    BY <2>7, <2>9, <2>10, <2>11 DEF Stands, SentInv
  <2> QED
    BY <2>2, <2>12
<1> QED
  BY <1>1, <1>3, OthersPages

LEMMA InitializePages ==
  ASSUME IInv, TypeOK', PagesInv, NEW r \in Reqs,
         \/ DeleteUsers(r) \/ DeletePosts(r) \/ DeleteComments(r)
         \/ UnbanAll(r) \/ BanFiftieth(r)
  PROVE  PagesInv'
<1> USE DEF tables, history
<1>1. /\ TypeOK /\ req \in [Reqs -> Request] /\ req[r].op = "initialize"
      /\ posts \subseteq Pids /\ comments \subseteq Cids
  BY DEF IInv, TypeOK, At, DeleteUsers, DeletePosts, DeleteComments, UnbanAll,
         BanFiftieth
<1>2. ASSUME NEW pc, StatementFails(r, pc) PROVE PagesInv'
  <2>1. PICK ok \in BOOLEAN : ok = (pc = "reply")
    OBVIOUS
  <2>2. PICK q : q = [req[r] EXCEPT !.pc = pc, !.alone = FALSE, !.ok = ok]
    OBVIOUS
  <2>3. Becomes(r, q)
    <3>1. req' = [req EXCEPT ![r].pc = pc, ![r].alone = FALSE, ![r].ok = ok]
      BY <1>2, <2>1, Zenon DEF StatementFails
    <3> QED
      BY <1>1, <2>2, <3>1 DEF Becomes
  <2>4. q.op \notin Pages
    BY <1>1, <2>2 DEF Request, Pages
  <2> QED
    BY <1>1, <1>2, <2>3, <2>4, OtherPages DEF StatementFails
<1>3. CASE DeleteUsers(r)
  <2>1. CASE /\ Goto(r, "delPosts", SeedUsers, Pids \cup Cids)
             /\ banned' = banned \cap SeedUsers
             /\ UNCHANGED <<posts, postOf, comments, commentOf>>
    BY <1>1, <2>1, DeletePages
  <2> QED
    BY <1>2, <1>3, <2>1 DEF DeleteUsers
<1>4. CASE DeletePosts(r)
  <2>1. CASE /\ Goto(r, "delComments", Uids, SeedPosts \cup Cids)
             /\ posts' = posts \cap SeedPosts
             /\ UNCHANGED <<banned, postOf, comments, commentOf>>
    <3>1. posts \cap (SeedPosts \cup Cids) \subseteq posts'
      BY <1>1, <2>1, IdsAssumption
    <3> QED
      BY <1>1, <2>1, <3>1, DeletePages
  <2> QED
    BY <1>2, <1>4, <2>1 DEF DeletePosts
<1>5. CASE DeleteComments(r)
  <2>1. CASE /\ Goto(r, "unban", Uids, Pids \cup SeedComments)
             /\ comments' = comments \cap SeedComments
             /\ UNCHANGED <<banned, posts, postOf, commentOf>>
    <3>1. comments \cap (Pids \cup SeedComments) \subseteq comments'
      BY <1>1, <2>1, IdsAssumption
    <3>2. Pids \cup SeedComments = Pids \cup Cids => comments \subseteq comments'
      BY <1>1, <2>1, IdsAssumption
    <3> QED
      BY <1>1, <2>1, <3>1, <3>2, DeletePages
  <2> QED
    BY <1>2, <1>5, <2>1 DEF DeleteComments
<1>6. CASE UnbanAll(r)
  <2>1. CASE /\ Goto(r, "reban", {}, Pids \cup Cids) /\ banned' = {}
             /\ UNCHANGED <<posts, postOf, comments, commentOf>>
    BY <1>1, <2>1, DeletePages
  <2> QED
    BY <1>2, <1>6, <2>1 DEF UnbanAll
<1>7. CASE BanFiftieth(r)
  <2>1. CASE /\ banned' = banned \cup (Fiftieth \cap users)
             /\ req' = [q \in Reqs |->
                  IF q = r THEN Served(req[r])
                  ELSE IF req[q].pc = "idle" THEN req[q]
                  ELSE [req[q] EXCEPT !.flicker = @ \cup (Fiftieth \cap users)]]
             /\ UNCHANGED <<users, posts, postOf, comments, commentOf>>
    <3>1. req'[r].op = req[r].op
      <4>1. req[r] \in Request /\ req'[r] = Served(req[r])
        BY <1>1, <2>1
      <4> QED
        BY <4>1 DEF Served, Request
    <3>2. \A s \in Reqs \ {r} :
             \/ req'[s] = req[s] /\ req[s].pc = "idle"
             \/ req'[s] = [req[s] EXCEPT !.flicker = @ \cup (Fiftieth \cap users)]
      BY <2>1
    <3> QED
      BY <1>1, <2>1, <3>1, <3>2, BanPages DEF Pages
  <2> QED
    BY <1>2, <1>7, <2>1 DEF BanFiftieth
<1> QED
  BY <1>3, <1>4, <1>5, <1>6, <1>7

\* A page that is asked for owes what is acknowledged, and is there, by now.
LEMMA SendPages ==
  ASSUME IInv, TypeOK', PagesInv, NEW r \in Reqs, NEW op \in Ops, Send(r, op)
  PROVE  PagesInv'
<1> USE DEF tables
<1>1. /\ req \in [Reqs -> Request] /\ UNCHANGED tables /\ op \in AllOps
      /\ posts \subseteq Pids /\ comments \subseteq Cids
      /\ acked \subseteq posts \cup comments
  BY OpsAssumption DEF IInv, TypeOK, Send
<1>2. PICK user \in IF op \in Writes \cup {"page"} THEN given ELSE {None},
           post \in IF op \in {"post", "image", "newComment"}
                    THEN {p \in Pids : postOf[p] # None} ELSE {None},
           upto \in IF op = "posts" THEN 0..now ELSE {0},
           left \in IF op = "ban" THEN SUBSET given ELSE {{}} :
        req' = [q \in Reqs |->
            IF q = r
            THEN [Idle EXCEPT !.op = op, !.pc = FirstPC(op), !.user = user,
                     !.post = post, !.max = upto, !.left = left,
                     !.hidden = banned, !.flicker = banned, !.due = acked,
                     !.dead = dead, !.alone = (Meets(op) = {})]
            ELSE IF q \in Meets(op) THEN [req[q] EXCEPT !.alone = FALSE]
            ELSE req[q]]
  BY DEF Send
<1>3. /\ req'[r].op = op /\ req'[r].pc = FirstPC(op) /\ req'[r].flicker = banned
      /\ req'[r].due = acked /\ req'[r].ok = FALSE
  BY <1>2 DEF Idle
<1>4. op \in Pages => FirstPC(op) \in {"name", "select"}
  BY DEF FirstPC, Pages, Writes
<1>5. ASSUME Makes(req'[r]) PROVE MakingInv(req[r])'
  <2>1. PICK p : p = req'[r]
    OBVIOUS
  <2>2. /\ p.pc \in {"name", "select"} /\ p.flicker = banned /\ p.due = acked
        /\ ~ p.ok
    BY <1>3, <1>4, <1>5, <2>1 DEF Makes
  <2>3. ~ AtPost(p) /\ ~ Made(p)
    BY <2>2 DEF AtPost, Made
  <2>4. SentInv(p)
    BY <1>1, <2>2, IdsAssumption DEF SentInv
  <2>5. MakingInv(p)
    BY <2>2, <2>3, <2>4 DEF MakingInv
  <2>6. MakingInv(p)'
    BY <1>1, <2>5, SameTables
  <2> QED
    BY <2>1, <2>6
<1>6. ASSUME NEW s \in Reqs \ {r}, Makes(req'[s]) PROVE MakingInv(req[s])'
  <2>1. PICK q, p : q \in Request /\ q = req[s] /\ p = req'[s]
    BY <1>1
  <2>2. p = q \/ p = [q EXCEPT !.alone = FALSE]
    BY <1>1, <1>2, <2>1, Zenon
  <2>3. /\ Noted(q, p) /\ Noted(p, q)
    BY <2>1, <2>2 DEF Noted, Request
  <2>4. Makes(q) /\ MakingInv(q)
    BY <1>6, <2>1, <2>3 DEF Makes, Noted, PagesInv
  <2>5. Stands(q, p)
    BY <1>1, <2>3, <2>4 DEF Stands, Noted, MakingInv, SentInv
  <2>6. PageInv(q) /\ TypeOK /\ PostsKept /\ CommentsKept
    BY <1>1, <2>1 DEF IInv, RequestInv, PostsKept, CommentsKept
  <2>7. p \in Request
    BY <2>1 DEF TypeOK
  <2>8. MakingInv(p)'
    BY <2>1, <2>3, <2>4, <2>5, <2>6, <2>7, NotedKeeps DEF Stands
  <2> QED
    BY <2>1, <2>8
<1> QED
  BY <1>5, <1>6 DEF PagesInv, Makes

-----------------------------------------------------------------------------
LEMMA NextPages == IInv /\ IInv' /\ PagesInv /\ [Next]_vars => PagesInv'
<1> SUFFICES ASSUME IInv, IInv', PagesInv, [Next]_vars PROVE PagesInv'
  OBVIOUS
<1>1. TypeOK'
  BY DEF IInv
<1>2. CASE UNCHANGED vars \/ Tick
  <2>1. UNCHANGED tables /\ UNCHANGED req
    BY <1>2 DEF vars, Tick
  <2>2. ASSUME NEW s \in Reqs, Makes(req'[s]) PROVE MakingInv(req[s])'
    <3>1. PICK p : p = req[s]
      OBVIOUS
    <3>2. MakingInv(p)'
      BY <2>1, <2>2, <3>1, SameTables DEF PagesInv
    <3> QED
      BY <2>1, <3>1, <3>2
  <2> QED
    BY <2>2 DEF PagesInv, Makes
<1>3. ASSUME NEW r \in Reqs, NEW op \in Ops, Send(r, op) PROVE PagesInv'
  BY <1>1, <1>3, SendPages
<1>4. ASSUME NEW r \in Reqs,
             \/ SelectOwner(r) \/ SelectPosts(r) \/ CountComments(r)
             \/ SelectComments(r) \/ SelectCommenter(r) \/ SelectAuthor(r)
      PROVE  PagesInv'
  BY <1>4, SelectOwnerPages, SelectPostsPages, CountCommentsPages,
     SelectCommentsPages, SelectCommenterPages, SelectAuthorPages
<1>5. ASSUME NEW r \in Reqs,
             \/ CountUser(r) \/ GetImage(r) \/ SelectFails(r) \/ SelectMe(r)
             \/ InsertFails(r) \/ EndBan(r) \/ Reply(r)
      PROVE  PagesInv'
  BY <1>5, OtherLocalPages
<1>6. ASSUME NEW r \in Reqs, InsertPost(r) \/ InsertComment(r) \/ InsertUser(r)
      PROVE  PagesInv'
  BY <1>1, <1>6, InsertPages
<1>7. ASSUME NEW r \in Reqs, BanOne(r) PROVE PagesInv'
  BY <1>1, <1>7, BanOnePages
<1>8. ASSUME NEW r \in Reqs,
             \/ DeleteUsers(r) \/ DeletePosts(r) \/ DeleteComments(r)
             \/ UnbanAll(r) \/ BanFiftieth(r)
      PROVE  PagesInv'
  BY <1>1, <1>8, InitializePages
<1> QED
  BY <1>2, <1>3, <1>4, <1>5, <1>6, <1>7, <1>8 DEF Next, Client, Server

LEMMA InitPages == Init => PagesInv
BY DEF Init, PagesInv, Makes, Idle

\* However its statements interleave with those of others, what a page has so
\* far is right about the posts and comments it has yet to show (makePosts,
\* app.go:176-230).
THEOREM PagesInvariance == Spec => []PagesInv
<1>1. IInv /\ IInv' /\ PagesInv /\ [Next]_vars => PagesInv'
  BY NextPages
<1>2. Init => PagesInv
  BY InitPages
<1> QED
  BY <1>1, <1>2, Invariance, PTL DEF Spec

\* A page that is served was made to its end.
LEMMA ServedPages ==
  ASSUME PagesInv, NEW r \in Reqs, PageServed(r)
  PROVE  /\ OrderInv(req[r]) /\ DueInv(req[r])
         /\ \A i \in DOMAIN req[r].page : EntryInv(req[r], req[r].page[i])
         /\ Made(req[r]) /\ ~ AtPost(req[r])
<1>1. Made(req[r]) /\ ~ AtPost(req[r]) /\ MakingInv(req[r])
  BY DEF PagesInv, PageServed, At, Makes, Made, AtPost
<1> QED
  BY <1>1 DEF MakingInv

\* makePosts neither loses a post whose writer was answered before the page
\* was asked for nor stops before the page is full (app.go:178-228).
THEOREM PostsAreReflected == Spec => []PostsReflected
<1>1. PagesInv => PostsReflected
  BY ServedPages DEF PostsReflected, DueInv
<1> QED
  BY <1>1, PagesInvariance, PTL

\* The count below a post includes every comment acknowledged before the page
\* was asked for, and the list has it or newer ones (app.go:182-195).
THEOREM CommentsAreReflected == Spec => []CommentsReflected
<1>1. PagesInv => CommentsReflected
  <2> SUFFICES ASSUME PagesInv, NEW r \in Reqs, PageServed(r),
                      NEW i \in DOMAIN req[r].page, NEW e, e = req[r].page[i]
               PROVE  /\ Cardinality(DueOn(req[r], e.post)) <= e.count
                      /\ \A c \in DueOn(req[r], e.post) \ e.comments :
                           /\ req[r].op # "post"
                           /\ Cardinality(e.comments) >= CommentLimit
                           /\ \A d \in e.comments : commentOf[c].at <= commentOf[d].at
    BY DEF CommentsReflected, DueOn
  <2>1. EntryInv(req[r], e)
    BY ServedPages
  <2> QED
    BY <2>1 DEF EntryInv, Counted, Listed, Crowded
<1> QED
  BY <1>1, PagesInvariance, PTL

\* A page has no post twice, the newest first, not too many, and shows the
\* comments it counts where it has the room, unless comments were deleted
\* while it was made (app.go:178-228).
THEOREM PagesCohere == Spec => []PageCoherent
<1>1. PagesInv => PageCoherent
  BY ServedPages DEF PageCoherent, OrderInv, EntryInv, Matching, Crowded
<1> QED
  BY <1>1, PagesInvariance, PTL
=============================================================================
