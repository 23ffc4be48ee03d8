--------------------------- MODULE NodeUsersProofs --------------------------
(***************************************************************************)
(* The properties of NodeUsers, proved for any number of requests in       *)
(* flight, any tables and any seed.                                        *)
(***************************************************************************)
EXTENDS NodeUsers, TLAPS

-----------------------------------------------------------------------------
(***************************************************************************)
(* The inductive invariant the properties follow from.                     *)
(***************************************************************************)
\* What may be left of each plan.
Ahead ==
    [index |-> {Plans.index, <<"posts", "authors">>, <<"authors">>, <<>>},
     posts |-> {Plans.posts, <<"me", "authors">>, <<"authors">>, <<>>},
     post |-> {Plans.post, <<"me">>, <<>>},
     page |-> {Plans.page, <<"authors", "me">>, <<"me">>, <<>>},
     login |-> {Plans.login, <<"name">>, <<>>},
     register |-> {Plans.register, <<"exists", "insert", "name">>,
                   <<"insert", "name">>, <<"name">>, <<>>},
     ban |-> {Plans.ban, <<"updates">>, <<>>},
     initialize |-> {Plans.initialize, <<"statements", "reban">>,
                     <<"reban">>, <<>>}]

\* The tables: ids keep their names, which are unique while they have a row.
TablesInv ==
    /\ \A i \in Live : rows[i] = named[i]
    /\ \A i, j \in Live : rows[i] = rows[j] => i = j
    /\ gone \subseteq allocated
    /\ FormField = "uid" => BanApplied

\* A user that is cached, or about to be, has the name of its id for ever, with
\* or without a row.
Known(u) == named[u.id] = u.name

CacheInv ==
    /\ \A i \in Ids : byId[i] # None => Known(byId[i])
    /\ \A n \in Names : byName[n] # None => Known(byName[n])

\* While an /initialize changes rows, whatever is cached is marked: it has
\* cleared the cache, and what came since was answered in the meantime.
WindowInv == Initializing => \A i \in Ids : byId[i] # None => i \in raced

Excused(i) == i \in orphaned \/ Banning(i)

\* A user is its row, but for the excuses of a ban.
Fresh(u) == u.id \in Live /\ (~ Excused(u.id) => u = Row(u.id))

\* What a request has looked up, and how far that is from the table.
LookupInv(q) ==
    /\ q.phase \in {"asked", "answered"}
       => q.plan # <<>> /\ Head(q.plan) \in LookupStages
    /\ q.phase \notin {"asked", "answered"} => q.users = {}
    /\ q.phase # "answered" => q.rows = {} /\ q.stale = FALSE
    /\ q.op \in {"page", "login", "register"} => q.name \in Names
    /\ \A u \in q.users \cup q.rows : Known(u)
    /\ \A u, v \in q.rows : u.id = v.id => u = v
    /\ q.phase \in {"asked", "answered"} /\ Head(q.plan) = "name"
       => q.users = {} /\ \A u \in q.rows : u.name = q.name
    /\ ~ q.stale => \A u \in q.rows : Fresh(u)
    /\ q.phase = "answered" /\ Initializing => q.stale

\* The statement of a ban is of its one id and runs while the ban waits for it;
\* those of /initialize may outlive their request.  A ban whose UPDATE has run
\* has banned its user, unless an /initialize has lifted that ban.
BanInv(q) ==
    /\ q.todo # {} =>
         \/ /\ q.op = "ban" /\ q.plan = <<"updates">> /\ q.todo = q.ids
            /\ FormField = "uid" /\ \E i \in Ids : q.ids = {i}
         \/ /\ q.todo \subseteq {"delete", "unban"}
            /\ \/ q.phase = "idle"
               \/ q.op = "initialize" /\ q.plan # Plans.initialize
    /\ q.op = "ban" =>
         /\ q.ids \subseteq allocated
         /\ FormField = "uid" => \E i \in Ids : q.ids = {i}
         /\ FormField = "uid" /\ q.plan = <<"updates">> /\ ~ q.lifted
            => (q.ids \cap Live) \ q.todo \subseteq banned

\* Posts are selected without those of the users who were gone by then.
ShownInv(q) ==
    ~ q.lifted =>
      /\ q.dead \subseteq gone
      /\ FormField = "uid" /\ q.op \in {"index", "posts"}
         => q.shown \cap q.dead = {}

\* A registration reads back the name it inserted, and finds another user of it
\* only when its own row has gone.
RegisterInv(q) ==
    /\ q.op = "register" /\ q.ids # {} => q.plan \in {<<"name">>, <<>>}
    /\ q.op = "register" /\ q.plan = <<"name">> =>
         /\ ~ q.ok /\ \E i \in allocated : q.ids = {i} /\ named[i] = q.name
         /\ \A u \in q.rows : u.id \in q.ids \/ ~ (q.ids \subseteq Live)

RequestInv(q) ==
    /\ q.plan \in Ahead[q.op]
    /\ q.phase = "idle" => q = [Idle EXCEPT !.todo = q.todo]
    /\ LookupInv(q) /\ BanInv(q) /\ ShownInv(q) /\ RegisterInv(q)

IInv ==
    /\ TypeOK /\ TablesInv
    /\ CacheInv /\ MapsAgree /\ StaleOnlyByRace /\ WindowInv
    /\ \A r \in Reqs : RequestInv(req[r])

-----------------------------------------------------------------------------
(***************************************************************************)
(* The plans.                                                              *)
(***************************************************************************)
\* The rest of what is left of a plan.
LEMMA Tails ==
  /\ Tail(<<"authors">>) = <<>>
  /\ Tail(<<"me">>) = <<>>
  /\ Tail(<<"name">>) = <<>>
  /\ Tail(<<"updates">>) = <<>>
  /\ Tail(<<"reban">>) = <<>>
  /\ Tail(<<"posts", "authors">>) = <<"authors">>
  /\ Tail(<<"me", "authors">>) = <<"authors">>
  /\ Tail(<<"authors", "me">>) = <<"me">>
  /\ Tail(<<"me", "name">>) = <<"name">>
  /\ Tail(<<"insert", "name">>) = <<"name">>
  /\ Tail(<<"me", "updates">>) = <<"updates">>
  /\ Tail(<<"statements", "reban">>) = <<"reban">>
  /\ Tail(<<"me", "posts", "authors">>) = <<"posts", "authors">>
  /\ Tail(<<"posts", "me", "authors">>) = <<"me", "authors">>
  /\ Tail(<<"name", "authors", "me">>) = <<"authors", "me">>
  /\ Tail(<<"exists", "insert", "name">>) = <<"insert", "name">>
  /\ Tail(<<"clear", "statements", "reban">>) = <<"statements", "reban">>
  /\ Tail(<<"me", "exists", "insert", "name">>) = <<"exists", "insert", "name">>
OBVIOUS

\* The handlers.
LEMMA Handlers ==
  AllOps = {"index", "posts", "post", "page", "login", "register", "ban",
            "initialize"}
BY DEF AllOps, Plans

\* What is left after a stage is left of the same plan.
LEMMA TailAhead ==
  ASSUME NEW op \in AllOps, NEW plan \in Ahead[op]
  PROVE  <<>> \in Ahead[op] /\ (plan # <<>> => Tail(plan) \in Ahead[op])
<1>1. CASE op = "index"
  BY <1>1, Tails DEF Ahead, Plans
<1>2. CASE op = "posts"
  BY <1>2, Tails DEF Ahead, Plans
<1>3. CASE op = "post"
  BY <1>3, Tails DEF Ahead, Plans
<1>4. CASE op = "page"
  BY <1>4, Tails DEF Ahead, Plans
<1>5. CASE op = "login"
  BY <1>5, Tails DEF Ahead, Plans
<1>6. CASE op = "register"
  BY <1>6, Tails DEF Ahead, Plans
<1>7. CASE op = "ban"
  BY <1>7, Tails DEF Ahead, Plans
<1>8. CASE op = "initialize"
  BY <1>8, Tails DEF Ahead, Plans
<1> QED
  BY <1>1, <1>2, <1>3, <1>4, <1>5, <1>6, <1>7, <1>8, Handlers

\* A stage belongs to the plans of few handlers.
LEMMA StageOps ==
  ASSUME NEW op \in AllOps, NEW plan \in Ahead[op], plan # <<>>
  PROVE  /\ Head(plan) \in Stages
         /\ Head(plan) = "name" => /\ op \in {"page", "login", "register"}
                                   /\ op # "page" => plan = <<"name">>
         /\ Head(plan) \in {"posts", "authors"}
            => op \in {"index", "posts", "post", "page"}
         /\ Head(plan) = "exists" => op = "register"
         /\ Head(plan) = "insert" => op = "register" /\ plan = <<"insert", "name">>
         /\ Head(plan) = "updates" <=> op = "ban" /\ plan = <<"updates">>
<1>1. CASE op = "index"
  BY <1>1 DEF Ahead, Plans, Stages
<1>2. CASE op = "posts"
  BY <1>2 DEF Ahead, Plans, Stages
<1>3. CASE op = "post"
  BY <1>3 DEF Ahead, Plans, Stages
<1>4. CASE op = "page"
  BY <1>4 DEF Ahead, Plans, Stages
<1>5. CASE op = "login"
  BY <1>5 DEF Ahead, Plans, Stages
<1>6. CASE op = "register"
  BY <1>6 DEF Ahead, Plans, Stages
<1>7. CASE op = "ban"
  BY <1>7 DEF Ahead, Plans, Stages
<1>8. CASE op = "initialize"
  BY <1>8 DEF Ahead, Plans, Stages
<1> QED
  BY <1>1, <1>2, <1>3, <1>4, <1>5, <1>6, <1>7, <1>8, Handlers

\* The lookup of a registration is of its client, or of what it inserted.
LEMMA RegisterPlans ==
  ASSUME NEW plan \in Ahead["register"], plan # <<>>
  PROVE  /\ plan = <<"name">> \/ Tail(plan) # <<>>
         /\ Head(plan) \in LookupStages /\ plan # <<"name">>
            => Tail(plan) = <<"exists", "insert", "name">>
         /\ Tail(plan) = <<"name">> => plan = <<"insert", "name">>
         /\ Head(plan) \in {"exists", "insert"} => plan # <<"name">>
<1>1. CASE plan = Plans.register
  BY <1>1, Tails DEF Plans
<1>2. CASE plan = <<"exists", "insert", "name">>
  BY <1>2, Tails DEF LookupStages
<1>3. CASE plan = <<"insert", "name">>
  BY <1>3, Tails DEF LookupStages
<1>4. CASE plan = <<"name">>
  BY <1>4, Tails
<1> QED
  BY <1>1, <1>2, <1>3, <1>4 DEF Ahead

\* The plans of the two handlers that write to existing rows.
LEMMA WriterPlans ==
  ASSUME NEW op \in AllOps, NEW plan \in Ahead[op], plan # <<>>
  PROVE  /\ op = "ban" => plan \in {Plans.ban, <<"updates">>}
         /\ op = "initialize" => /\ Head(plan) \in {"clear", "statements", "reban"}
                                 /\ Head(plan) = "clear" <=> plan = Plans.initialize
         /\ Head(plan) \in {"clear", "statements", "reban"} => op = "initialize"
<1>1. CASE op = "index"
  BY <1>1 DEF Ahead, Plans, Stages
<1>2. CASE op = "posts"
  BY <1>2 DEF Ahead, Plans, Stages
<1>3. CASE op = "post"
  BY <1>3 DEF Ahead, Plans, Stages
<1>4. CASE op = "page"
  BY <1>4 DEF Ahead, Plans, Stages
<1>5. CASE op = "login"
  BY <1>5 DEF Ahead, Plans, Stages
<1>6. CASE op = "register"
  BY <1>6 DEF Ahead, Plans, Stages
<1>7. CASE op = "ban"
  BY <1>7 DEF Ahead, Plans, Stages
<1>8. CASE op = "initialize"
  BY <1>8 DEF Ahead, Plans, Stages
<1> QED
  BY <1>1, <1>2, <1>3, <1>4, <1>5, <1>6, <1>7, <1>8, Handlers

\* They are <<"me", "updates">> and <<"clear", "statements", "reban">>.
LEMMA WriterTails ==
  /\ Tail(Plans.ban) = <<"updates">> /\ Tail(<<"updates">>) = <<>>
  /\ Head(Plans.ban) = "me" /\ Plans.ban # <<"updates">> /\ Plans.ban # <<>>
  /\ \A plan \in Ahead["initialize"] \ {<<>>} : Tail(plan) # Plans.initialize
  /\ Plans.initialize # <<>>
<1>1. Plans.ban = <<"me", "updates">>
  BY DEF Plans
<1>2. Plans.initialize = <<"clear", "statements", "reban">>
  BY DEF Plans
<1>3. Ahead["initialize"] = {Plans.initialize, <<"statements", "reban">>,
                             <<"reban">>, <<>>}
  BY DEF Ahead
<1>4. \A plan \in Ahead["initialize"] \ {<<>>} : Tail(plan) # Plans.initialize
  <2>1. <<"statements", "reban">> # Plans.initialize /\ <<"reban">> # Plans.initialize
    BY <1>2
  <2>2. <<>> # Plans.initialize
    BY <1>2
  <2> QED
    BY <1>2, <1>3, <2>1, <2>2, Tails
<1>5. /\ Head(Plans.ban) = "me" /\ Plans.ban # <<"updates">> /\ Plans.ban # <<>>
      /\ Plans.initialize # <<>>
  BY <1>1, <1>2
<1> QED
  BY <1>1, <1>4, <1>5, Tails

\* What is left of a plan is a sequence of stages.
LEMMA PlanTypes ==
  ASSUME NEW op \in AllOps
  PROVE  Ahead[op] \subseteq Seq(Stages)
<1>1. CASE op = "index"
  BY <1>1 DEF Ahead, Plans, Stages
<1>2. CASE op = "posts"
  BY <1>2 DEF Ahead, Plans, Stages
<1>3. CASE op = "post"
  BY <1>3 DEF Ahead, Plans, Stages
<1>4. CASE op = "page"
  BY <1>4 DEF Ahead, Plans, Stages
<1>5. CASE op = "login"
  BY <1>5 DEF Ahead, Plans, Stages
<1>6. CASE op = "register"
  BY <1>6 DEF Ahead, Plans, Stages
<1>7. CASE op = "ban"
  BY <1>7 DEF Ahead, Plans, Stages
<1>8. CASE op = "initialize"
  BY <1>8 DEF Ahead, Plans, Stages
<1> QED
  BY <1>1, <1>2, <1>3, <1>4, <1>5, <1>6, <1>7, <1>8, Handlers

\* A handler starts with its whole plan.
LEMMA WholePlans ==
  ASSUME NEW op \in AllOps
  PROVE  Plans[op] \in Ahead[op] /\ Plans[op] # <<>>
<1>1. CASE op = "index"
  BY <1>1 DEF Ahead, Plans, Stages
<1>2. CASE op = "posts"
  BY <1>2 DEF Ahead, Plans, Stages
<1>3. CASE op = "post"
  BY <1>3 DEF Ahead, Plans, Stages
<1>4. CASE op = "page"
  BY <1>4 DEF Ahead, Plans, Stages
<1>5. CASE op = "login"
  BY <1>5 DEF Ahead, Plans, Stages
<1>6. CASE op = "register"
  BY <1>6 DEF Ahead, Plans, Stages
<1>7. CASE op = "ban"
  BY <1>7 DEF Ahead, Plans, Stages
<1>8. CASE op = "initialize"
  BY <1>8 DEF Ahead, Plans, Stages
<1> QED
  BY <1>1, <1>2, <1>3, <1>4, <1>5, <1>6, <1>7, <1>8, Handlers

-----------------------------------------------------------------------------
(***************************************************************************)
(* What becomes of a request.                                              *)
(***************************************************************************)
\* The fields a stage leaves alone, besides those of the client.
Kept(q, p) ==
    /\ p.op = q.op /\ p.name = q.name /\ p.dead = q.dead
    /\ p.users = q.users /\ p.rows = q.rows /\ p.stale = q.stale
    /\ p.lifted = q.lifted

\* Ending a stage or a handler.
LEMMA Endings ==
  ASSUME NEW q \in Request, q.plan \in Ahead[q.op], q.plan # <<>>
  PROVE  /\ Next1(q) \in Request /\ Next1(q).phase = "run"
         /\ Next1(q).plan = Tail(q.plan) /\ Next1(q).ok = (Tail(q.plan) = <<>>)
         /\ Kept(q, Next1(q)) /\ Next1(q).ids = q.ids /\ Next1(q).todo = q.todo
         /\ Next1(q).shown = q.shown /\ Next1(q).me = q.me
         /\ End(q) \in Request /\ End(q).phase = "run" /\ End(q).plan = <<>>
         /\ Kept(q, End(q)) /\ End(q).ids = q.ids /\ End(q).todo = q.todo
         /\ End(q).shown = q.shown /\ End(q).me = q.me
         /\ Throw(q) \in Request /\ Throw(q).phase = "run" /\ Throw(q).plan = <<>>
         /\ Kept(q, Throw(q)) /\ Throw(q).ids = q.ids /\ Throw(q).todo = q.todo
         /\ Throw(q).shown = {} /\ Throw(q).me = q.me /\ Throw(q).ok = q.ok
<1>1. PICK b \in BOOLEAN : b = (Tail(q.plan) = <<>>)
  OBVIOUS
<1>2. Next1(q) = [q EXCEPT !.plan = Tail(@), !.phase = "run", !.ok = b]
  BY <1>1 DEF Next1
<1>3. q.op \in AllOps
  BY DEF Request
<1>4. Tail(q.plan) \in Seq(Stages) /\ <<>> \in Seq(Stages)
  BY <1>3, TailAhead, PlanTypes
<1>5. /\ Next1(q) \in Request /\ Next1(q).phase = "run"
      /\ Next1(q).plan = Tail(q.plan) /\ Next1(q).ok = b
      /\ Kept(q, Next1(q)) /\ Next1(q).ids = q.ids /\ Next1(q).todo = q.todo
      /\ Next1(q).shown = q.shown /\ Next1(q).me = q.me
  <2> DEFINE n == [q EXCEPT !.plan = Tail(q.plan), !.phase = "run", !.ok = b]
  <2>1. n \in Request
    BY <1>4 DEF Request
  <2>2. /\ n.phase = "run" /\ n.plan = Tail(q.plan) /\ n.ok = b
        /\ n.ids = q.ids /\ n.todo = q.todo /\ n.shown = q.shown /\ n.me = q.me
    BY DEF Request
  <2>3. Kept(q, n)
    BY DEF Request, Kept
  <2>4. Next1(q) = n
    BY <1>2
  <2> QED
    BY <2>1, <2>2, <2>3, <2>4
<1>6. /\ End(q) \in Request /\ End(q).phase = "run" /\ End(q).plan = <<>>
      /\ Kept(q, End(q)) /\ End(q).ids = q.ids /\ End(q).todo = q.todo
      /\ End(q).shown = q.shown /\ End(q).me = q.me
  BY <1>4 DEF Request, Kept, End
<1>7. /\ Throw(q) \in Request /\ Throw(q).phase = "run" /\ Throw(q).plan = <<>>
      /\ Kept(q, Throw(q)) /\ Throw(q).ids = q.ids /\ Throw(q).todo = q.todo
      /\ Throw(q).shown = {} /\ Throw(q).me = q.me /\ Throw(q).ok = q.ok
  BY <1>4 DEF Request, Kept, Throw
<1> QED
  BY <1>1, <1>5, <1>6, <1>7

\* What a handler does next when it has looked up its client: a ban starts its
\* UPDATEs, the others go on or end.
LEMMA FoundMeStep ==
  ASSUME NEW q \in Request, q.plan \in Ahead[q.op], q.plan # <<>>, NEW users
  PROVE  LET p == FoundMe(q, users)
         IN  /\ p \in Request /\ p.phase = "run" /\ Kept(q, p)
             /\ p.ids = q.ids /\ p.shown = q.shown
             /\ \/ p.plan = <<>> /\ p.todo = q.todo
                \/ p.plan = Tail(q.plan) /\ q.op # "ban" /\ p.todo = q.todo
                \/ p.plan = Tail(q.plan) /\ q.op = "ban" /\ p.todo = BodyUid(q.ids)
<1> DEFINE me == IF users = {} THEN None ELSE q.user
           m == [q EXCEPT !.me = me]
<1>1. me \in Ids \cup {None}
  BY DEF Request
<1> HIDE DEF me
<1>2. /\ m \in Request /\ m.plan = q.plan /\ Kept(q, m) /\ m.ids = q.ids
      /\ m.shown = q.shown /\ m.todo = q.todo
  BY <1>1 DEF Request, Kept
<1> HIDE DEF m
<1>3. m.plan \in Ahead[m.op] /\ m.plan # <<>>
  BY <1>2 DEF Kept
<1>4. FoundMe(q, users) = End(m) \/ (FoundMe(q, users) = Next1(m) /\ q.op # "ban")
      \/ (q.op = "ban" /\ FoundMe(q, users) = [Next1(m) EXCEPT !.todo = BodyUid(q.ids)])
  BY DEF FoundMe, m, me
<1>5. CASE FoundMe(q, users) = End(m)
  BY <1>2, <1>3, <1>5, Endings DEF Kept
<1>6. CASE FoundMe(q, users) = Next1(m) /\ q.op # "ban"
  BY <1>2, <1>3, <1>6, Endings DEF Kept
<1>7. CASE /\ q.op = "ban"
           /\ FoundMe(q, users) = [Next1(m) EXCEPT !.todo = BodyUid(q.ids)]
  <2> DEFINE n == Next1(m)
  <2>1. /\ n \in Request /\ n.phase = "run" /\ n.plan = Tail(q.plan) /\ Kept(q, n)
        /\ n.ids = q.ids /\ n.shown = q.shown
    BY <1>2, <1>3, Endings DEF Kept
  <2>2. BodyUid(q.ids) \subseteq Ids
    BY DEF BodyUid, Request
  <2> HIDE DEF n
  <2>3. /\ [n EXCEPT !.todo = BodyUid(q.ids)] \in Request
        /\ [n EXCEPT !.todo = BodyUid(q.ids)].phase = "run"
        /\ [n EXCEPT !.todo = BodyUid(q.ids)].plan = Tail(q.plan)
        /\ [n EXCEPT !.todo = BodyUid(q.ids)].todo = BodyUid(q.ids)
        /\ [n EXCEPT !.todo = BodyUid(q.ids)].ids = q.ids
        /\ [n EXCEPT !.todo = BodyUid(q.ids)].shown = q.shown
        /\ Kept(q, [n EXCEPT !.todo = BodyUid(q.ids)])
    BY <2>1, <2>2 DEF Request, Kept
  <2>4. FoundMe(q, users) = [n EXCEPT !.todo = BodyUid(q.ids)]
    BY <1>7 DEF n
  <2> QED
    BY <1>7, <2>3, <2>4
<1> QED
  BY <1>4, <1>5, <1>6, <1>7

\* By name: a page goes on with the user, a login or registration ends, the
\* latter as the user it found.
LEMMA FoundNameStep ==
  ASSUME NEW q \in Request, q.plan \in Ahead[q.op], q.plan # <<>>,
         Head(q.plan) = "name", NEW users \in SUBSET User
  PROVE  LET p == FoundName(q, users)
         IN  /\ p \in Request /\ p.phase = "run" /\ Kept(q, p) /\ p.todo = q.todo
             /\ q.op \in {"page", "login", "register"}
             /\ p.plan \in {<<>>, Tail(q.plan)}
             /\ q.op # "page" => q.plan = <<"name">> /\ p.plan = <<>> /\ p.ids = q.ids
             /\ q.op = "register" => p.ok = q.ok \/ p.me \in {u.id : u \in users}
<1>1. q.op \in AllOps
  BY DEF Request
<1>2. q.op \in {"page", "login", "register"} /\ (q.op # "page" => q.plan = <<"name">>)
  BY <1>1, StageOps
<1>3. CASE q.op = "page" /\ Actives(users) = {}
  <2>1. FoundName(q, users) = End(q)
    BY <1>3 DEF FoundName
  <2> QED
    BY <1>2, <1>3, <2>1, Endings
<1>4. CASE q.op = "page" /\ Actives(users) # {}
  <2> DEFINE owner == {u.id : u \in users}
             n == Next1(q)
             p == [n EXCEPT !.shown = owner,
                            !.ids = IF @ = {} THEN {} ELSE @ \cup owner]
  <2>1. owner \subseteq Ids
    BY DEF User
  <2>2. /\ n \in Request /\ n.phase = "run" /\ n.plan = Tail(q.plan)
        /\ Kept(q, n) /\ n.todo = q.todo
    BY Endings
  <2>3. FoundName(q, users) = p
    BY <1>4 DEF FoundName
  <2> HIDE DEF owner, n
  <2>4. PICK ids \in SUBSET Ids : p = [n EXCEPT !.shown = owner, !.ids = ids]
    BY <2>1, <2>2 DEF Request
  <2> HIDE DEF p
  <2>5. p \in Request /\ p.phase = "run" /\ p.plan = Tail(q.plan) /\ p.todo = q.todo
    BY <2>1, <2>2, <2>4 DEF Request
  <2>6. Kept(q, p)
    BY <2>2, <2>4 DEF Request, Kept
  <2> QED
    BY <1>4, <2>3, <2>5, <2>6
<1>5. CASE q.op = "login"
  <2> DEFINE me == IF q.good /\ Actives(users) # {}
                   THEN (CHOOSE u \in users : TRUE).id ELSE None
             n == End(q)
             p == [n EXCEPT !.me = me]
  <2>1. me \in Ids \cup {None}
    BY DEF Actives, User
  <2>2. /\ n \in Request /\ n.phase = "run" /\ n.plan = <<>>
        /\ Kept(q, n) /\ n.todo = q.todo /\ n.ids = q.ids
    BY Endings
  <2>3. FoundName(q, users) = p
    BY <1>5 DEF FoundName
  <2> HIDE DEF me, n
  <2>4. /\ p \in Request /\ p.phase = "run" /\ p.plan = <<>>
        /\ Kept(q, p) /\ p.todo = q.todo /\ p.ids = q.ids
    BY <2>1, <2>2 DEF Request, Kept
  <2> QED
    BY <1>2, <1>5, <2>3, <2>4
<1>6. CASE q.op = "register" /\ users = {}
  <2>1. FoundName(q, users) = Throw(q)
    BY <1>6 DEF FoundName
  <2> QED
    BY <1>2, <1>6, <2>1, Endings
<1>7. CASE q.op = "register" /\ users # {}
  <2> DEFINE me == (CHOOSE u \in users : TRUE).id
             n == End(q)
             p == [n EXCEPT !.me = me]
  <2>1. me \in {u.id : u \in users} /\ me \in Ids
    BY <1>7 DEF User
  <2>2. /\ n \in Request /\ n.phase = "run" /\ n.plan = <<>>
        /\ Kept(q, n) /\ n.todo = q.todo /\ n.ids = q.ids
    BY Endings
  <2>3. FoundName(q, users) = p
    BY <1>7 DEF FoundName
  <2> HIDE DEF me, n
  <2>4. /\ p \in Request /\ p.phase = "run" /\ p.plan = <<>> /\ p.me = me
        /\ Kept(q, p) /\ p.todo = q.todo /\ p.ids = q.ids
    BY <2>1, <2>2 DEF Request, Kept
  <2> QED
    BY <1>2, <1>7, <2>1, <2>3, <2>4
<1> QED
  BY <1>2, <1>3, <1>4, <1>5, <1>6, <1>7

\* Authors can only be left out.
LEMMA FoundAuthorsStep ==
  ASSUME NEW q \in Request, q.plan \in Ahead[q.op], q.plan # <<>>, NEW users
  PROVE  LET p == FoundAuthors(q, users)
         IN  /\ p \in Request /\ p.phase = "run" /\ Kept(q, p) /\ p.todo = q.todo
             /\ p.plan \in {<<>>, Tail(q.plan)} /\ p.ids = q.ids
             /\ p.shown \subseteq q.shown
<1> DEFINE kept == {u.id : u \in Actives(users)}
<1>1. PICK m : m = [q EXCEPT !.shown = IF q.op = "page" THEN @ ELSE @ \cap kept]
  OBVIOUS
<1>2. FoundAuthors(q, users)
        = IF q.op = "post" /\ m.shown = {} THEN End(m) ELSE Next1(m)
  BY <1>1 DEF FoundAuthors
<1>3. /\ m \in Request /\ m.plan = q.plan /\ Kept(q, m) /\ m.ids = q.ids
      /\ m.shown \subseteq q.shown /\ m.todo = q.todo
  BY <1>1 DEF Request, Kept
<1>4. m.plan \in Ahead[m.op] /\ m.plan # <<>>
  BY <1>3 DEF Kept
<1> HIDE DEF kept
<1>5. PICK p : p = FoundAuthors(q, users)
  OBVIOUS
<1>6. p \in {End(m), Next1(m)}
  BY <1>2, <1>5
<1>7. /\ p \in Request /\ p.phase = "run" /\ Kept(m, p) /\ p.todo = m.todo
      /\ p.plan \in {<<>>, Tail(m.plan)} /\ p.ids = m.ids /\ p.shown = m.shown
  <2>1. CASE p = End(m)
    BY <1>3, <1>4, <2>1, Endings
  <2>2. CASE p = Next1(m)
    BY <1>3, <1>4, <2>2, Endings
  <2> QED
    BY <1>6, <2>1, <2>2
<1> QED
  BY <1>3, <1>5, <1>7 DEF Kept

\* Forgetting what was looked up.
LEMMA ForgetFields ==
  ASSUME NEW q \in Request
  PROVE  /\ Forget(q) \in Request /\ Forget(q).users = {} /\ Forget(q).rows = {}
         /\ Forget(q).stale = FALSE /\ Forget(q).phase = q.phase
         /\ Forget(q).op = q.op /\ Forget(q).name = q.name /\ Forget(q).dead = q.dead
         /\ Forget(q).plan = q.plan /\ Forget(q).ids = q.ids
         /\ Forget(q).todo = q.todo /\ Forget(q).shown = q.shown
         /\ Forget(q).me = q.me /\ Forget(q).ok = q.ok
         /\ Forget(q).lifted = q.lifted
BY DEF Forget, Request

\* All of it, as far as the invariant tells requests apart.
LEMMA FoundStep ==
  ASSUME NEW q \in Request, q.plan \in Ahead[q.op], q.plan # <<>>,
         Head(q.plan) \in LookupStages, NEW users \in SUBSET User
  PROVE  LET p == Found(q, users)
         IN  /\ p \in Request /\ p.phase = "run" /\ Kept(q, p)
             /\ p.plan \in {<<>>, Tail(q.plan)}
             /\ q.op # "ban" => p.todo = q.todo
             /\ q.op = "ban" => \/ p.plan = <<>> /\ p.todo = q.todo
                                \/ p.plan = Tail(q.plan) /\ p.todo = BodyUid(q.ids)
             /\ q.op # "page" => p.ids = q.ids
             /\ q.op \in {"index", "posts"} => p.shown \subseteq q.shown
             /\ q.op = "register" /\ q.plan = <<"name">> =>
                  p.plan = <<>> /\ (p.ok = q.ok \/ p.me \in {u.id : u \in users})
<1>1. q.op \in AllOps
  BY DEF Request
<1>2. CASE Head(q.plan) = "me"
  <2>1. Found(q, users) = FoundMe(q, users)
    BY <1>2 DEF Found
  <2>2. q.plan # <<"name">>
    BY <1>2
  <2>3. PICK p : p = FoundMe(q, users)
    OBVIOUS
  <2>4. /\ p \in Request /\ p.phase = "run" /\ Kept(q, p)
        /\ p.ids = q.ids /\ p.shown = q.shown
        /\ \/ p.plan = <<>> /\ p.todo = q.todo
           \/ p.plan = Tail(q.plan) /\ q.op # "ban" /\ p.todo = q.todo
           \/ p.plan = Tail(q.plan) /\ q.op = "ban" /\ p.todo = BodyUid(q.ids)
    BY <2>3, FoundMeStep
  <2> QED
    BY <2>1, <2>2, <2>3, <2>4
<1>3. CASE Head(q.plan) = "name"
  <2>1. Found(q, users) = FoundName(q, users)
    BY <1>3 DEF Found
  <2> QED
    BY <1>3, <2>1, FoundNameStep
<1>4. CASE Head(q.plan) = "authors"
  <2>1. Found(q, users) = FoundAuthors(q, users)
    BY <1>4 DEF Found
  <2>2. q.op \notin {"ban", "register"}
    BY <1>1, <1>4, StageOps
  <2> QED
    BY <2>1, <2>2, FoundAuthorsStep
<1> QED
  BY <1>2, <1>3, <1>4 DEF LookupStages

-----------------------------------------------------------------------------
(***************************************************************************)
(* What a step leaves in order.                                            *)
(***************************************************************************)
\* A row is a user, with the name of its id.
LEMMA RowFacts ==
  ASSUME TypeOK, TablesInv, NEW i \in Live
  PROVE  /\ Row(i) \in User /\ Row(i).id = i /\ Row(i).name = rows[i] /\ i \in Ids
         /\ Known(Row(i)) /\ Fresh(Row(i)) /\ i \in allocated
<1>1. i \in Ids /\ rows[i] \in Names /\ i \in allocated
  BY DEF TypeOK, Live
<1>2. (i \in banned) \in BOOLEAN
  OBVIOUS
<1>3. Row(i) \in User /\ Row(i).id = i /\ Row(i).name = rows[i]
  BY <1>1, <1>2 DEF User, Row
<1> QED
  BY <1>1, <1>3 DEF Known, Fresh, TablesInv

\* Ids keep their names, and a row that has gone does not come back.
IdsStay ==
    \A i \in allocated :
      /\ i \in allocated' /\ named'[i] = named[i]
      /\ i \in Live' => i \in Live

\* A row is changed only while its cached copies are excused, and they are
\* excused from then on.
FreshStays ==
    \A i \in Live :
      i \in Live' /\ (~ Excused(i)' => ~ Excused(i) /\ Row(i)' = Row(i))

\* Bans stand, acknowledged ones too.
BansStay ==
    /\ gone \subseteq gone'
    /\ \A i \in allocated : i \in Live' /\ i \in banned => i \in banned'

\* A known user stays so.
LEMMA KnownStays ==
  ASSUME IdsStay, NEW u \in User, Known(u)
  PROVE  Known(u)' /\ u.id \in allocated
<1>1. u.id \in Ids /\ u.name \in Names
  BY DEF User
<1>2. u.id \in allocated
  BY <1>1, NoneAssumption DEF Known, allocated
<1> QED
  BY <1>2 DEF IdsStay, Known

\* The same tables.
LEMMA SameTables ==
  ASSUME UNCHANGED <<rows, banned, named, gone>>
  PROVE  /\ IdsStay /\ BansStay /\ Live' = Live /\ allocated' = allocated
         /\ \A i : Row(i)' = Row(i)
         /\ TablesInv => TablesInv'
<1>1. Live' = Live /\ allocated' = allocated
  BY DEF Live, allocated
<1>2. \A i : Row(i)' = Row(i)
  BY DEF Row
<1>3. IdsStay /\ BansStay
  BY <1>1 DEF IdsStay, BansStay
<1>4. TablesInv => TablesInv'
  BY <1>1 DEF TablesInv, BanApplied
<1> QED
  BY <1>1, <1>2, <1>3, <1>4

\* A request that has nothing looked up, after a step that leaves the tables.
LEMMA SettledRequest ==
  ASSUME NEW r \in Reqs, RequestInv(req'[r]), req'[r].rows = {}, req'[r].users = {},
         req'[r].phase # "answered",
         UNCHANGED <<rows, banned, named, gone>>
  PROVE  RequestInv(req[r])'
<1>1. Live' = Live /\ allocated' = allocated
  BY SameTables
<1>2. LookupInv(req[r])'
  BY DEF RequestInv, LookupInv
<1>3. (BanInv(req[r]) /\ ShownInv(req[r]) /\ RegisterInv(req[r]))'
  BY <1>1 DEF RequestInv, BanInv, ShownInv, RegisterInv
<1> QED
  BY <1>2, <1>3 DEF RequestInv

\* A slot without a request, whatever statements it was left with.
LEMMA IdleInOrder ==
  ASSUME NEW r \in Reqs, NEW todo \in SUBSET {"delete", "unban"},
         req'[r] = [Idle EXCEPT !.todo = todo]
  PROVE  /\ req'[r] \in Request /\ req'[r].todo = todo /\ req'[r].plan = <<>>
         /\ req'[r].phase = "idle" /\ RequestInv(req[r])'
<1> DEFINE p == [Idle EXCEPT !.todo = todo]
<1>1. /\ p.op = "index" /\ p.plan = <<>> /\ p.phase = "idle"
      /\ p.users = {} /\ p.rows = {} /\ p.stale = FALSE /\ p.todo = todo
      /\ p.ids = {} /\ p.shown = {} /\ p.dead = {} /\ p.lifted = FALSE
  BY DEF Idle
<1>2. p \in Request
  <2>1. Idle \in Request
    BY Handlers DEF Idle, Request
  <2> QED
    BY <2>1 DEF Request
<1>3. p.plan \in Ahead[p.op]
  BY <1>1 DEF Ahead
<1>4. p = [Idle EXCEPT !.todo = p.todo]
  BY <1>1
<1> HIDE DEF p
<1>5. req'[r] = p
  BY DEF p
<1>6. LookupInv(req[r])'
  BY <1>1, <1>5 DEF LookupInv
<1>7. (BanInv(req[r]) /\ ShownInv(req[r]) /\ RegisterInv(req[r]))'
  BY <1>1, <1>5 DEF BanInv, ShownInv, RegisterInv
<1> QED
  BY <1>1, <1>2, <1>3, <1>4, <1>5, <1>6, <1>7 DEF RequestInv

\* What is left of a request of /initialize that has cleared the cache.
LEMMA WriterInOrder ==
  ASSUME NEW r \in Reqs, req'[r].op = "initialize",
         req'[r].plan \in Ahead["initialize"], req'[r].plan # Plans.initialize,
         req'[r].phase = "run", req'[r].users = {}, req'[r].rows = {},
         req'[r].stale = FALSE, req'[r].todo \subseteq {"delete", "unban"},
         req'[r].lifted \/ req'[r].dead \subseteq gone'
  PROVE  RequestInv(req[r])'
BY DEF RequestInv, LookupInv, BanInv, ShownInv, RegisterInv

\* A request other than /initialize is not changing rows as one.
LEMMA NotChanging ==
  ASSUME NEW p \in Request, p.plan \in Ahead[p.op], BanInv(p),
         p.op # "initialize", p.phase # "idle"
  PROVE  ~ Changing(p)
<1>1. p.op \in AllOps
  BY DEF Request
<1>2. p.plan # <<>> => Head(p.plan) \notin {"statements", "reban"}
  BY <1>1, WriterPlans
<1>3. p.todo \subseteq Ids
  BY DEF BanInv
<1> QED
  BY <1>2, <1>3, StatementAssumption DEF Changing

\* A slot whose statements are those of /initialize: a request of it that waits
\* for them or has failed, or one that has been answered.
LEMMA Writer ==
  ASSUME IInv, NEW r \in Reqs, NEW s \in req[r].todo, s \notin Ids
  PROVE  /\ Changing(req[r]) /\ req[r].todo \subseteq {"delete", "unban"}
         /\ req[r] \in Request /\ req[r].users = {} /\ req[r].rows = {}
         /\ req[r].stale = FALSE
         /\ \/ req[r].phase = "idle" /\ req[r] = [Idle EXCEPT !.todo = req[r].todo]
            \/ /\ req[r].op = "initialize" /\ req[r].phase = "run"
               /\ req[r].plan \in Ahead["initialize"] \ {Plans.initialize}
         /\ req[r].lifted \/ req[r].dead \subseteq gone
<1> DEFINE q == req[r]
<1>1. /\ q \in Request /\ RequestInv(q) /\ LookupInv(q) /\ BanInv(q) /\ ShownInv(q)
  BY DEF IInv, TypeOK, RequestInv
<1>2. q.todo \subseteq {"delete", "unban"}
      /\ (q.phase = "idle" \/ (q.op = "initialize" /\ q.plan # Plans.initialize))
  BY <1>1 DEF BanInv
<1>3. Changing(q)
  BY <1>2 DEF Changing
<1>4. q.op = "initialize" => q.phase \notin {"asked", "answered"}
  BY <1>1, WriterPlans, Handlers DEF RequestInv, LookupInv, LookupStages, Request
<1>5. q.phase \notin {"asked", "answered"}
  BY <1>2, <1>4
<1>6. q.users = {} /\ q.rows = {} /\ q.stale = FALSE
  BY <1>1, <1>5 DEF LookupInv
<1>7. q.phase = "idle" \/ q.phase = "run"
  BY <1>1, <1>5 DEF Request
<1>8. q.phase = "idle" => q = [Idle EXCEPT !.todo = q.todo]
  BY <1>1 DEF RequestInv
<1>9. q.plan \in Ahead[q.op]
  BY <1>1 DEF RequestInv
<1>10. q.lifted \/ q.dead \subseteq gone
  BY <1>1 DEF ShownInv
<1> QED
  BY <1>1, <1>2, <1>3, <1>6, <1>7, <1>8, <1>9, <1>10

\* What a handler does with the users it has found leaves its request in order:
\* a ban has its UPDATE before it.
LEMMA FoundRequest ==
  ASSUME IInv, NEW r \in Reqs, NEW users \in SUBSET User,
         req[r].plan # <<>>, Head(req[r].plan) \in LookupStages,
         req'[r] = Forget(Found(req[r], users)),
         UNCHANGED <<rows, banned, named, gone>>
  PROVE  /\ req'[r] \in Request /\ RequestInv(req[r])'
         /\ ~ Changing(req'[r]) /\ req[r].op # "initialize"
         /\ req[r].op = "register" /\ req[r].plan = <<"name">> =>
              ~ req'[r].ok \/ req'[r].me \in {u.id : u \in users}
<1> DEFINE q == req[r]
           f == Found(q, users)
           p == Forget(f)
<1>1. /\ q \in Request /\ q.plan \in Ahead[q.op] /\ q.plan # <<>> /\ q.op \in AllOps
      /\ LookupInv(q) /\ BanInv(q) /\ ShownInv(q) /\ RegisterInv(q)
  BY DEF IInv, TypeOK, RequestInv, Request
<1>2. /\ f \in Request /\ f.phase = "run" /\ Kept(q, f)
      /\ f.plan \in {<<>>, Tail(q.plan)}
      /\ q.op # "ban" => f.todo = q.todo
      /\ q.op = "ban" => \/ f.plan = <<>> /\ f.todo = q.todo
                         \/ f.plan = Tail(q.plan) /\ f.todo = BodyUid(q.ids)
      /\ q.op # "page" => f.ids = q.ids
      /\ q.op \in {"index", "posts"} => f.shown \subseteq q.shown
      /\ q.op = "register" /\ q.plan = <<"name">> =>
           f.plan = <<>> /\ (f.ok = q.ok \/ f.me \in {u.id : u \in users})
  BY <1>1, FoundStep
<1> HIDE DEF f
<1>3. /\ p \in Request /\ p.users = {} /\ p.rows = {} /\ p.stale = FALSE
      /\ p.phase = "run" /\ p.op = q.op /\ p.name = q.name /\ p.dead = q.dead
      /\ p.plan = f.plan /\ p.ids = f.ids /\ p.todo = f.todo /\ p.shown = f.shown
      /\ p.me = f.me /\ p.ok = f.ok /\ p.lifted = q.lifted
  BY <1>2, ForgetFields DEF Kept
<1>4. req'[r] = p
  BY DEF f
<1> HIDE DEF p
<1>5. p.plan \in Ahead[p.op]
  BY <1>1, <1>2, <1>3, TailAhead
<1>6. LookupInv(p)
  BY <1>1, <1>3 DEF LookupInv
<1>7. q.op # "initialize" /\ q.phase # "idle"
  <2>1. q.op # "initialize"
    BY <1>1, WriterPlans DEF LookupStages
  <2>2. ([Idle EXCEPT !.todo = q.todo]).plan = <<>>
    BY DEF Idle
  <2>3. q.phase = "idle" => q = [Idle EXCEPT !.todo = q.todo]
    BY DEF IInv, RequestInv
  <2> QED
    BY <1>1, <2>1, <2>2, <2>3
<1>8. BanInv(p)
  <2>1. CASE q.op = "ban"
    <3>1. q.plan = Plans.ban /\ q.plan # <<"updates">>
      BY <1>1, <2>1, StageOps, WriterPlans DEF LookupStages
    <3>2. q.todo = {} /\ q.ids \subseteq allocated
      BY <1>1, <1>7, <2>1, <3>1 DEF BanInv
    <3>3. FormField = "uid" => \E i \in Ids : q.ids = {i}
      BY <1>1, <2>1 DEF BanInv
    <3>4. BodyUid(q.ids) = {} \/ (FormField = "uid" /\ BodyUid(q.ids) = q.ids)
      BY DEF BodyUid
    <3>5. p.plan = <<>> => p.plan # <<"updates">>
      OBVIOUS
    <3>6. FormField = "uid" => BodyUid(q.ids) = q.ids
      BY DEF BodyUid
    <3> QED
      BY <1>2, <1>3, <2>1, <3>1, <3>2, <3>3, <3>4, <3>5, <3>6, WriterTails DEF BanInv
  <2>2. CASE q.op # "ban"
    BY <1>1, <1>2, <1>3, <1>7, <2>2 DEF BanInv
  <2> QED
    BY <2>1, <2>2
<1>9. ShownInv(p)
  BY <1>1, <1>2, <1>3 DEF ShownInv
<1>10. RegisterInv(p)
  <2> SUFFICES ASSUME q.op = "register" PROVE RegisterInv(p)
    BY <1>3 DEF RegisterInv
  <2>1. CASE q.plan = <<"name">>
    <3>1. p.plan = <<>> /\ <<"name">> # <<>>
      BY <1>2, <1>3, <2>1
    <3> QED
      BY <3>1 DEF RegisterInv
  <2>2. CASE q.plan # <<"name">>
    <3>1. Tail(q.plan) = <<"exists", "insert", "name">>
      BY <1>1, <2>2, RegisterPlans
    <3>2. p.plan # <<"name">>
      <4>1. <<"exists", "insert", "name">> # <<"name">> /\ <<>> # <<"name">>
        OBVIOUS
      <4> QED
        BY <1>2, <1>3, <3>1, <4>1
    <3>3. q.ids = {}
      BY <1>1, <2>2 DEF RegisterInv
    <3> QED
      BY <1>2, <1>3, <3>2, <3>3 DEF RegisterInv
  <2> QED
    BY <2>1, <2>2
<1>11. RequestInv(req[r])'
  <2>1. RequestInv(p)
    BY <1>3, <1>5, <1>6, <1>8, <1>9, <1>10 DEF RequestInv
  <2> QED
    BY <1>3, <1>4, <2>1, SettledRequest
<1>12. ~ Changing(p)
  BY <1>3, <1>5, <1>7, <1>8, NotChanging
<1>13. q.op = "register" /\ q.plan = <<"name">> => ~ q.ok
  BY <1>1 DEF RegisterInv
<1> QED
  BY <1>2, <1>3, <1>4, <1>7, <1>11, <1>12, <1>13

\* A request another one leaves alone, but for the marks that its answer has
\* raced and that bans were lifted.
LEMMA OtherRequest ==
  ASSUME NEW x \in Reqs, req[x] \in Request, RequestInv(req[x]), IdsStay,
         NEW stale \in BOOLEAN, NEW lifted \in BOOLEAN,
         req'[x] = [req[x] EXCEPT !.stale = stale, !.lifted = lifted],
         req[x].stale => stale, stale => req[x].phase = "answered",
         FreshStays \/ (req[x].phase = "answered" => stale),
         Initializing' /\ req[x].phase = "answered" => stale,
         req[x].phase = "idle" => ~ lifted,
         lifted \/ (~ req[x].lifted /\ BansStay)
  PROVE  req'[x] \in Request /\ RequestInv(req[x])'
<1> DEFINE q == req[x]
           p == req'[x]
<1>1. /\ LookupInv(q) /\ BanInv(q) /\ ShownInv(q) /\ RegisterInv(q)
      /\ q.plan \in Ahead[q.op] /\ (q.phase = "idle" => q = [Idle EXCEPT !.todo = q.todo])
  BY DEF RequestInv
<1>2. /\ p \in Request /\ p.op = q.op /\ p.plan = q.plan /\ p.phase = q.phase
      /\ p.users = q.users /\ p.rows = q.rows /\ p.name = q.name
      /\ p.ids = q.ids /\ p.todo = q.todo /\ p.shown = q.shown
      /\ p.dead = q.dead /\ p.ok = q.ok /\ p.me = q.me
      /\ p.stale = stale /\ p.lifted = lifted
  <2>1. p \in Request
    BY DEF Request
  <2>2. /\ p.op = q.op /\ p.plan = q.plan /\ p.phase = q.phase
        /\ p.users = q.users /\ p.rows = q.rows /\ p.name = q.name
    BY DEF Request
  <2>3. /\ p.ids = q.ids /\ p.todo = q.todo /\ p.shown = q.shown
        /\ p.dead = q.dead /\ p.ok = q.ok /\ p.me = q.me
    BY DEF Request
  <2>4. p.stale = stale /\ p.lifted = lifted
    BY DEF Request
  <2> QED
    BY <2>1, <2>2, <2>3, <2>4
<1>3. p.phase = "idle" => p = [Idle EXCEPT !.todo = p.todo]
  <2> SUFFICES ASSUME q.phase = "idle" PROVE p = q
    BY <1>1, <1>2
  <2>1. q = [Idle EXCEPT !.todo = q.todo]
    BY <1>1
  <2>2. q.stale = FALSE /\ q.lifted = FALSE
    BY <2>1 DEF Idle
  <2>3. stale = q.stale /\ lifted = q.lifted
    BY <2>2
  <2>4. [q EXCEPT !.stale = q.stale, !.lifted = q.lifted] = q
    BY DEF Request
  <2> QED
    BY <2>3, <2>4
<1>4. \A u \in q.users \cup q.rows : Known(u)'
  <2>1. \A u \in q.users \cup q.rows : u \in User /\ Known(u)
    BY <1>1 DEF LookupInv, Request
  <2> QED
    BY <2>1, KnownStays
<1>5. ~ stale => \A u \in q.rows : Fresh(u)'
  <2> SUFFICES ASSUME ~ stale, NEW u \in q.rows PROVE Fresh(u)'
    OBVIOUS
  <2>1. q.phase = "answered" /\ ~ q.stale
    BY <1>1 DEF LookupInv
  <2>2. FreshStays /\ Fresh(u)
    BY <1>1, <2>1 DEF LookupInv
  <2> QED
    BY <2>2 DEF FreshStays, Fresh
<1>6. LookupInv(req[x])'
  <2>2. /\ p.phase \in {"asked", "answered"}
           => p.plan # <<>> /\ Head(p.plan) \in LookupStages
        /\ p.phase \notin {"asked", "answered"} => p.users = {}
        /\ p.op \in {"page", "login", "register"} => p.name \in Names
        /\ \A u, v \in p.rows : u.id = v.id => u = v
        /\ p.phase \in {"asked", "answered"} /\ Head(p.plan) = "name"
           => p.users = {} /\ \A u \in p.rows : u.name = p.name
    BY <1>1, <1>2 DEF LookupInv
  <2>3. p.phase # "answered" => p.rows = {} /\ p.stale = FALSE
    BY <1>1, <1>2 DEF LookupInv
  <2> QED
    BY <1>2, <1>4, <1>5, <2>2, <2>3 DEF LookupInv
<1>7. BanInv(req[x])'
  <2>1. q.op = "ban" => q.ids \subseteq allocated'
    BY <1>1 DEF BanInv, IdsStay
  <2>2. ASSUME q.op = "ban", FormField = "uid", q.plan = <<"updates">>, ~ lifted
        PROVE  (q.ids \cap Live') \ q.todo \subseteq banned'
    BY <1>1, <2>2 DEF BanInv, IdsStay, BansStay
  <2> QED
    BY <1>1, <1>2, <2>1, <2>2 DEF BanInv
<1>8. ShownInv(req[x])'
  BY <1>1, <1>2 DEF ShownInv, BansStay
<1>9. RegisterInv(req[x])'
  <2> SUFFICES ASSUME q.op = "register", q.plan = <<"name">>
               PROVE  /\ \E i \in allocated' : q.ids = {i} /\ named'[i] = q.name
                      /\ \A u \in q.rows : u.id \in q.ids \/ ~ (q.ids \subseteq Live')
    BY <1>1, <1>2 DEF RegisterInv
  <2>1. PICK i \in allocated : q.ids = {i} /\ named[i] = q.name
    BY <1>1 DEF RegisterInv
  <2>2. i \in allocated' /\ named'[i] = named[i] /\ (i \notin Live => i \notin Live')
    BY DEF IdsStay
  <2> QED
    BY <1>1, <2>1, <2>2 DEF RegisterInv
<1> QED
  BY <1>1, <1>2, <1>3, <1>6, <1>7, <1>8, <1>9 DEF RequestInv

\* The requests a step leaves as they are.
LEMMA OtherRequests ==
  ASSUME IInv, NEW r \in Reqs, \A x \in Reqs \ {r} : req'[x] = req[x],
         IdsStay, FreshStays \/ Initializing, BansStay,
         Initializing' => Initializing
  PROVE  \A x \in Reqs \ {r} : RequestInv(req[x])'
<1> TAKE x \in Reqs \ {r}
<1>1. req[x] \in Request /\ RequestInv(req[x]) /\ LookupInv(req[x])
  BY DEF IInv, TypeOK, RequestInv
<1>2. PICK stale \in BOOLEAN, lifted \in BOOLEAN :
        stale = req[x].stale /\ lifted = req[x].lifted
  BY <1>1 DEF Request
<1>3. req'[x] = [req[x] EXCEPT !.stale = stale, !.lifted = lifted]
  BY <1>1, <1>2 DEF Request
<1>4. Initializing /\ req[x].phase = "answered" => stale
  BY <1>1, <1>2 DEF LookupInv
<1>5. stale => req[x].phase = "answered"
  BY <1>1, <1>2 DEF LookupInv
<1>6. req[x].phase = "idle" => ~ lifted
  <2>1. req[x].phase = "idle" => req[x] = [Idle EXCEPT !.todo = req[x].todo]
    BY <1>1 DEF RequestInv
  <2>2. ([Idle EXCEPT !.todo = req[x].todo]).lifted = FALSE
    BY DEF Idle
  <2> QED
    BY <1>2, <2>1, <2>2
<1>7. FreshStays \/ (req[x].phase = "answered" => stale)
  BY <1>4
<1>8. Initializing' /\ req[x].phase = "answered" => stale
  BY <1>4
<1>9. (req[x].stale => stale) /\ (lifted \/ ~ req[x].lifted)
  BY <1>2
<1> HIDE DEF IInv
<1> QED
  BY <1>1, <1>3, <1>5, <1>6, <1>7, <1>8, <1>9, OtherRequest

\* A step of one request beside the cache.
LEMMA QuietStep ==
  ASSUME IInv, NEW r \in Reqs, TypeOK', TablesInv', UnchangedCache, IdsStay,
         FreshStays \/ Initializing, Initializing' => Initializing,
         \A x \in Reqs \ {r} : RequestInv(req[x])', RequestInv(req[r])'
  PROVE  IInv'
<1>1. UNCHANGED <<byId, byName, raced>>
  BY DEF UnchangedCache
<1>2. CacheInv'
  <2>1. \A i \in Ids : byId[i] # None => byId[i] \in User /\ Known(byId[i])
    BY DEF IInv, TypeOK, CacheInv
  <2>2. \A n \in Names : byName[n] # None => byName[n] \in User /\ Known(byName[n])
    BY DEF IInv, TypeOK, CacheInv
  <2>3. \A i \in Ids : byId[i] # None => Known(byId[i])'
    BY <1>1, <2>1, KnownStays DEF Known
  <2>4. \A n \in Names : byName[n] # None => Known(byName[n])'
    BY <1>1, <2>2, KnownStays DEF Known
  <2> QED
    BY <1>1, <2>3, <2>4 DEF CacheInv, Known
<1>3. MapsAgree' /\ WindowInv'
  BY <1>1 DEF IInv, MapsAgree, WindowInv
<1>4. StaleOnlyByRace'
  <2> SUFFICES ASSUME NEW i \in Ids, byId[i] # None, i \notin raced
               PROVE  i \in Live' /\ (Excused(i)' \/ byId[i] = Row(i)')
    BY <1>1 DEF StaleOnlyByRace, Excused
  <2>1. FreshStays
    BY DEF IInv, WindowInv
  <2>2. i \in Live /\ (Excused(i) \/ byId[i] = Row(i))
    BY DEF IInv, StaleOnlyByRace, Excused
  <2> QED
    BY <2>1, <2>2 DEF FreshStays
<1>5. \A x \in Reqs : RequestInv(req[x])'
  OBVIOUS
<1> QED
  BY <1>2, <1>3, <1>4, <1>5 DEF IInv

\* A step that changes what its request knows and no more.
LEMMA LocalStep ==
  ASSUME IInv, NEW r \in Reqs, NEW p \in Request, Becomes(r, p),
         UnchangedDB, UnchangedCache, UNCHANGED <<orphaned, gone>>,
         ~ At(r, "updates", "run") \/ BodyUid(req[r].ids) \ req[r].todo = {},
         Changing(p) => Changing(req[r]), RequestInv(req[r])'
  PROVE  IInv'
<1>1. /\ req' = [req EXCEPT ![r] = p] /\ req \in [Reqs -> Request]
      /\ UNCHANGED <<rows, banned, named, byId, byName, raced, orphaned, gone>>
  BY DEF Becomes, UnchangedDB, UnchangedCache, IInv, TypeOK
<1>2. \A x \in Reqs \ {r} : req'[x] = req[x]
  BY <1>1
<1>3. IdsStay /\ BansStay /\ Live' = Live /\ allocated' = allocated
      /\ (\A i : Row(i)' = Row(i)) /\ TablesInv'
  BY <1>1, SameTables DEF IInv
<1>4. TypeOK'
  BY <1>1, <1>3 DEF IInv, TypeOK
<1>5. FreshStays
  <2>1. \A i : Banning(i) => Banning(i)'
    BY <1>2 DEF Banning, At
  <2> QED
    BY <1>1, <1>3, <2>1 DEF FreshStays, Excused
<1>6. Initializing' => Initializing
  BY <1>1, <1>2 DEF Initializing
<1>7. \A x \in Reqs \ {r} : RequestInv(req[x])'
  BY <1>2, <1>3, <1>5, <1>6, OtherRequests
<1> HIDE DEF IInv, TypeOK, TablesInv
<1> QED
  BY <1>3, <1>4, <1>5, <1>6, <1>7, QuietStep

\* One that ends with nothing looked up.
LEMMA SettledStep ==
  ASSUME IInv, NEW r \in Reqs, NEW p \in Request, Becomes(r, p),
         UnchangedDB, UnchangedCache, UNCHANGED <<orphaned, gone>>,
         ~ At(r, "updates", "run") \/ BodyUid(req[r].ids) \ req[r].todo = {},
         p.users = {}, p.rows = {}, p.phase = "run", RequestInv(p),
         p.op # "initialize"
  PROVE  IInv'
<1>1. req'[r] = p
  BY DEF Becomes, IInv, TypeOK
<1>2. UNCHANGED <<rows, banned, named, gone>>
  BY DEF UnchangedDB
<1>3. RequestInv(req[r])'
  BY <1>1, <1>2, SettledRequest
<1>4. ~ Changing(p)
  BY NotChanging DEF RequestInv
<1> HIDE DEF IInv
<1> QED
  BY <1>3, <1>4, LocalStep

-----------------------------------------------------------------------------
(***************************************************************************)
(* The steps.                                                              *)
(***************************************************************************)
\* Nothing is cached and no request is in flight at first.
LEMMA InitInv == Init => IInv
<1> SUFFICES ASSUME Init PROVE IInv
  OBVIOUS
<1>1. /\ Live = Seed /\ allocated = Seed /\ named = rows
      /\ \A i \in Seed : rows[i] = SeedName[i]
  BY SeedAssumption, NoneAssumption DEF Init, Live, allocated
<1>2. /\ Idle.op = "index" /\ Idle.plan = <<>> /\ Idle.phase = "idle"
      /\ Idle.users = {} /\ Idle.rows = {} /\ Idle.stale = FALSE /\ Idle.todo = {}
      /\ Idle.ids = {} /\ Idle.shown = {} /\ Idle.dead = {} /\ Idle \in Request
  BY Handlers DEF Idle, Request
<1>3. \A r \in Reqs : req[r] = Idle
  BY DEF Init
<1>4. TypeOK
  <2>1. rows \in [Ids -> Names \cup {None}]
    BY SeedAssumption DEF Init
  <2>2. req \in [Reqs -> Request]
    BY <1>2 DEF Init
  <2>3. banned \subseteq Live /\ Live \subseteq allocated
    BY <1>1 DEF Init
  <2> QED
    BY <1>1, <2>1, <2>2, <2>3, SeedAssumption, NoneAssumption DEF Init, TypeOK
<1>5. CacheInv /\ MapsAgree /\ StaleOnlyByRace /\ WindowInv
  BY DEF Init, CacheInv, MapsAgree, StaleOnlyByRace, WindowInv
<1>6. TablesInv
  <2>1. gone = {}
    BY DEF Init
  <2> QED
    BY <1>1, <2>1, SeedAssumption DEF TablesInv, BanApplied
<1>7. RequestInv(Idle)
  <2>1. Idle.plan \in Ahead[Idle.op]
    BY <1>2 DEF Ahead
  <2>2. [Idle EXCEPT !.todo = Idle.todo] = Idle
    BY <1>2 DEF Request
  <2>3. LookupInv(Idle)
    BY <1>2 DEF LookupInv
  <2> QED
    BY <1>2, <2>1, <2>2, <2>3 DEF RequestInv, BanInv, ShownInv, RegisterInv
<1> QED
  BY <1>3, <1>4, <1>5, <1>6, <1>7 DEF IInv

\* A request arrives: knowing nothing, at the start of its plan.
LEMMA SendStep ==
  ASSUME IInv, NEW r \in Reqs, NEW op \in Ops, Send(r, op)
  PROVE  IInv'
<1>1. PICK name \in NameInputs(op), ids \in IdInputs(op),
           user \in IF op = "initialize" THEN {None} ELSE Live \cup {None},
           good \in IF op \in {"login", "register", "ban"} THEN BOOLEAN
                                                         ELSE {TRUE} :
        Becomes(r, [Idle EXCEPT
             !.op = op, !.plan = Plans[op], !.phase = "run", !.name = name,
             !.user = user, !.ids = ids, !.good = good,
             !.shown = IF op = "post" THEN ids ELSE {}, !.dead = gone])
  BY Zenon DEF Send
<1> DEFINE shown == IF op = "post" THEN ids ELSE {}
           p == [Idle EXCEPT
             !.op = op, !.plan = Plans[op], !.phase = "run", !.name = name,
             !.user = user, !.ids = ids, !.good = good,
             !.shown = shown, !.dead = gone]
<1>2. op \in AllOps
  BY InputAssumption
<1>3. name \in Names \cup {None} /\ (op \in {"page", "login", "register"} => name \in Names)
  BY DEF NameInputs
<1>4. /\ ids \subseteq allocated /\ (op = "register" => ids = {})
      /\ op = "ban" /\ FormField = "uid" => \E i \in Ids : ids = {i}
  <2>1. allocated \subseteq Ids
    BY DEF allocated
  <2> QED
    BY <1>2, <2>1, Handlers DEF IdInputs
<1>5. allocated \subseteq Ids /\ gone \subseteq Ids
  BY DEF IInv, TypeOK, allocated
<1>6. Plans[op] \in Seq(Stages) /\ Plans[op] \in Ahead[op] /\ Plans[op] # <<>>
  BY <1>2, WholePlans, PlanTypes
<1>7. shown \subseteq Ids /\ (op \in {"index", "posts"} => shown = {})
  BY <1>4, <1>5
<1> HIDE DEF shown
<1>8. /\ p \in Request /\ p.op = op /\ p.plan = Plans[op] /\ p.phase = "run"
      /\ p.name = name /\ p.ids = ids /\ p.shown = shown /\ p.dead = gone
      /\ p.users = {} /\ p.rows = {} /\ p.todo = {} /\ p.stale = FALSE
  <2>1. user \in Ids \cup {None} /\ good \in BOOLEAN
    BY DEF Live
  <2>2. ids \subseteq Ids /\ None \in Ids \cup {None}
    BY <1>4, <1>5
  <2>3. Idle \in Request
    BY Handlers DEF Idle, Request
  <2>4. p \in Request
    BY <1>2, <1>3, <1>5, <1>6, <1>7, <2>1, <2>2, <2>3 DEF Request
  <2>5. /\ p.op = op /\ p.plan = Plans[op] /\ p.phase = "run"
        /\ p.name = name /\ p.ids = ids /\ p.shown = shown /\ p.dead = gone
    BY <2>3 DEF Request
  <2>6. p.users = {} /\ p.rows = {} /\ p.todo = {} /\ p.stale = FALSE
    BY DEF Idle
  <2> QED
    BY <2>4, <2>5, <2>6
<1>9. Becomes(r, p)
  BY <1>1 DEF shown
<1> HIDE DEF p
<1>10. req[r].phase = "idle"
  BY DEF Send, Busy
<1>11. req'[r] = p
  BY <1>9 DEF Becomes, IInv, TypeOK
<1>12. Plans[op] # <<"name">> /\ Plans[op] # <<"updates">>
  <2>1. op = "ban" => Plans[op] # <<"updates">>
    BY WriterTails
  <2>2. op # "ban" => Plans[op] # <<"updates">>
    BY <1>2, <1>6, StageOps
  <2>3. op \in {"page", "login", "register"} => Plans[op] # <<"name">>
    BY DEF Plans
  <2>4. op \notin {"page", "login", "register"} => Plans[op] # <<"name">>
    BY <1>2, <1>6, StageOps
  <2> QED
    BY <2>1, <2>2, <2>3, <2>4
<1>13. RequestInv(p)
  <2>1. LookupInv(p)
    BY <1>3, <1>8 DEF LookupInv
  <2>2. BanInv(p)
    BY <1>4, <1>8, <1>12 DEF BanInv
  <2>3. ShownInv(p) /\ RegisterInv(p)
    BY <1>4, <1>7, <1>8, <1>12 DEF ShownInv, RegisterInv
  <2> QED
    BY <1>6, <1>8, <2>1, <2>2, <2>3 DEF RequestInv
<1>14. UNCHANGED <<rows, banned, named, orphaned, gone>> /\ UnchangedDB /\ UnchangedCache
  BY DEF Send, UnchangedDB
<1>15. RequestInv(req[r])'
  BY <1>8, <1>11, <1>13, <1>14, SettledRequest
<1>16. ~ Changing(p)
  <2>1. CASE op = "initialize"
    <3>1. Head(Plans[op]) = "clear"
      BY <2>1 DEF Plans
    <3> QED
      BY <1>8, <3>1 DEF Changing
  <2>2. CASE op # "initialize"
    BY <1>8, <1>13, <2>2, NotChanging DEF RequestInv
  <2> QED
    BY <2>1, <2>2
<1>17. ~ At(r, "updates", "run")
  BY <1>10 DEF At
<1> HIDE DEF IInv
<1> QED
  BY <1>8, <1>9, <1>14, <1>15, <1>16, <1>17, LocalStep

\* What the cache has for a lookup are users by their own names.
LEMMA CachedFacts ==
  ASSUME IInv, NEW r \in Reqs, req[r].plan # <<>>,
         Head(req[r].plan) \in LookupStages
  PROVE  /\ Cached(req[r]) \subseteq User
         /\ \A u \in Cached(req[r]) : Known(u)
         /\ Head(req[r].plan) = "name" =>
              Cached(req[r]) = {byName[req[r].name]} \ {None} /\ req[r].name \in Names
<1> DEFINE q == req[r]
<1>1. /\ q \in Request /\ q.plan \in Ahead[q.op] /\ q.op \in AllOps /\ LookupInv(q)
  BY DEF IInv, TypeOK, RequestInv, Request
<1>2. CASE Head(q.plan) = "name"
  <2>1. q.name \in Names
    BY <1>1, <1>2, StageOps DEF LookupInv
  <2>2. Cached(q) = {byName[q.name]} \ {None}
    BY <1>2 DEF Cached
  <2> QED
    BY <1>2, <2>1, <2>2 DEF IInv, TypeOK, CacheInv
<1>3. CASE Head(q.plan) # "name"
  <2>1. WantedIds(q) \subseteq Ids
    BY <1>1 DEF WantedIds, Request
  <2>2. Cached(q) = {byId[i] : i \in WantedIds(q)} \ {None}
    BY <1>3 DEF Cached
  <2> QED
    BY <1>3, <2>1, <2>2 DEF IInv, TypeOK, CacheInv
<1> QED
  BY <1>2, <1>3

\* A lookup: all of it is cached, or MySQL is asked.
LEMMA LookupStep ==
  ASSUME IInv, NEW r \in Reqs, Lookup(r)
  PROVE  IInv'
<1> DEFINE q == req[r]
           users == Cached(q)
<1>1. /\ q.phase = "run" /\ q.plan # <<>> /\ Head(q.plan) \in LookupStages
      /\ UnchangedDB /\ UnchangedCache /\ UNCHANGED <<orphaned, gone>>
      /\ ~ At(r, "updates", "run")
  BY DEF Lookup, At, LookupStages
<1>2. /\ q \in Request /\ q.plan \in Ahead[q.op] /\ q.op \in AllOps
      /\ LookupInv(q) /\ BanInv(q) /\ ShownInv(q) /\ RegisterInv(q)
  BY DEF IInv, TypeOK, RequestInv, Request
<1>3. /\ users \subseteq User /\ \A u \in users : Known(u)
      /\ Head(q.plan) = "name" => users = {byName[q.name]} \ {None}
  BY <1>1, CachedFacts
<1>4. q.users = {} /\ q.rows = {} /\ q.stale = FALSE
  BY <1>1, <1>2 DEF LookupInv
<1>5. UNCHANGED <<rows, banned, named, gone>>
  BY <1>1 DEF UnchangedDB
<1> HIDE DEF users
<1>6. CASE Complete(q)
  <2> DEFINE f == Found(q, users)
  <2>1. Becomes(r, f)
    BY <1>6 DEF Lookup, users
  <2>2. f \in Request /\ f.users = {} /\ f.rows = {} /\ f.stale = FALSE
    BY <1>1, <1>2, <1>3, <1>4, FoundStep DEF Kept
  <2> HIDE DEF f
  <2>3. Forget(f) = f
    BY <2>2 DEF Forget, Request
  <2>4. req'[r] = f /\ req'[r] = Forget(Found(q, users))
    BY <2>1, <2>3 DEF Becomes, IInv, TypeOK, f
  <2>5. RequestInv(req[r])' /\ ~ Changing(f)
    BY <1>1, <1>3, <1>5, <2>4, FoundRequest
  <2> HIDE DEF IInv
  <2> QED
    BY <1>1, <2>1, <2>2, <2>5, LocalStep
<1>7. CASE ~ Complete(q)
  <2> DEFINE p == [q EXCEPT !.users = users, !.phase = "asked"]
  <2>1. Becomes(r, p)
    BY <1>7 DEF Lookup, users
  <2>2. /\ p \in Request /\ p.users = users /\ p.phase = "asked" /\ p.rows = {}
        /\ p.stale = FALSE /\ p.op = q.op /\ p.plan = q.plan /\ p.name = q.name
        /\ p.ids = q.ids /\ p.todo = q.todo /\ p.shown = q.shown
        /\ p.dead = q.dead /\ p.ok = q.ok /\ p.me = q.me /\ p.lifted = q.lifted
    BY <1>2, <1>3, <1>4 DEF Request
  <2>3. Head(q.plan) = "name" => users = {}
    <3>1. Head(q.plan) = "name" => Cached(q) = {}
      BY <1>7 DEF Complete
    <3> QED
      BY <3>1 DEF users
  <2> HIDE DEF p
  <2>4. req'[r] = p
    BY <2>1 DEF Becomes, IInv, TypeOK
  <2>5. LookupInv(req[r])'
    <3>1. \A u \in p.users \cup p.rows : Known(u)'
      BY <1>3, <1>5, <2>2 DEF Known
    <3> QED
      BY <1>1, <1>2, <2>2, <2>3, <2>4, <3>1 DEF LookupInv
  <2>6. (BanInv(req[r]) /\ ShownInv(req[r]) /\ RegisterInv(req[r]))'
    <3>1. Live' = Live /\ allocated' = allocated
      BY <1>5, SameTables
    <3>2. RegisterInv(req[r])'
      BY <1>2, <1>4, <1>5, <2>2, <2>4, <3>1 DEF RegisterInv
    <3>3. BanInv(req[r])'
      BY <1>1, <1>2, <1>5, <2>2, <2>4, <3>1 DEF BanInv
    <3> QED
      BY <1>2, <1>5, <2>2, <2>4, <3>2, <3>3 DEF ShownInv
  <2>7. RequestInv(req[r])'
    BY <1>2, <2>2, <2>4, <2>5, <2>6 DEF RequestInv
  <2>8. Changing(p) => Changing(q)
    BY <2>2 DEF Changing
  <2> HIDE DEF IInv
  <2> QED
    BY <1>1, <2>1, <2>2, <2>7, <2>8, LocalStep
<1> QED
  BY <1>6, <1>7

\* MySQL answers with rows as they are.
LEMMA AnswerStep ==
  ASSUME IInv, NEW r \in Reqs, Answer(r)
  PROVE  IInv'
<1>1. PICK b \in BOOLEAN : b = Initializing
  <2>1. Initializing \in BOOLEAN
    BY DEF Initializing
  <2> QED
    BY <2>1
<1> DEFINE q == req[r]
           found == Selected(q)
           p == [q EXCEPT !.rows = found, !.phase = "answered", !.stale = b]
<1>2. /\ q \in Request /\ q.plan \in Ahead[q.op] /\ q.op \in AllOps
      /\ LookupInv(q) /\ BanInv(q) /\ ShownInv(q) /\ RegisterInv(q)
  BY DEF IInv, TypeOK, RequestInv, Request
<1>3. /\ q.phase = "asked" /\ q.plan # <<>> /\ Head(q.plan) \in LookupStages
      /\ q.rows = {}
      /\ UnchangedDB /\ UnchangedCache /\ UNCHANGED <<orphaned, gone>>
  BY <1>2 DEF Answer, LookupInv
<1>4. UNCHANGED <<rows, banned, named, gone>>
  BY <1>3 DEF UnchangedDB
<1>5. \A u \in found : \E i \in Live : u = Row(i) /\ (Head(q.plan) = "name" => rows[i] = q.name)
  BY DEF Selected
<1>6. TypeOK /\ TablesInv
  BY DEF IInv
<1>7. \A u \in found : /\ u \in User /\ u.id \in Live /\ u = Row(u.id) /\ Known(u)
                       /\ Head(q.plan) = "name" => u.name = q.name /\ rows[u.id] = q.name
  BY <1>5, <1>6, RowFacts
<1>8. Becomes(r, p)
  BY <1>1 DEF Answer
<1> HIDE DEF found
<1>9. /\ p \in Request /\ p.rows = found /\ p.phase = "answered" /\ p.users = q.users
      /\ p.stale = b /\ p.op = q.op /\ p.plan = q.plan /\ p.name = q.name
      /\ p.ids = q.ids /\ p.todo = q.todo /\ p.shown = q.shown
      /\ p.dead = q.dead /\ p.ok = q.ok /\ p.me = q.me /\ p.lifted = q.lifted
  BY <1>2, <1>7 DEF Request
<1> HIDE DEF p
<1>10. req'[r] = p /\ req' = [req EXCEPT ![r] = p]
  BY <1>8 DEF Becomes, IInv, TypeOK
<1>11. Live' = Live /\ allocated' = allocated /\ \A i : Row(i)' = Row(i)
  BY <1>4, SameTables
<1>12. Changing(p) => Changing(q)
  BY <1>9 DEF Changing
<1>13. Initializing' => b
  <2>1. \A x \in Reqs : Changing(req'[x]) => Changing(req[x])
    BY <1>10, <1>12 DEF IInv, TypeOK
  <2>2. Initializing' => Initializing
    BY <2>1 DEF Initializing
  <2> QED
    BY <1>1, <2>2
<1>14. LookupInv(req[r])'
  <2>1. \A u \in p.users \cup p.rows : Known(u)'
    BY <1>2, <1>4, <1>7, <1>9 DEF LookupInv, Known
  <2>2. \A u, v \in p.rows : u.id = v.id => u = v
    BY <1>7, <1>9
  <2>3. \A u \in p.rows : Fresh(u)'
    BY <1>7, <1>9, <1>11 DEF Fresh
  <2>4. Head(p.plan) = "name" => p.users = {} /\ \A u \in p.rows : u.name = p.name
    BY <1>2, <1>3, <1>7, <1>9 DEF LookupInv
  <2>5. p.op \in {"page", "login", "register"} => p.name \in Names
    BY <1>2, <1>9 DEF LookupInv
  <2> QED
    BY <1>3, <1>9, <1>10, <1>13, <2>1, <2>2, <2>3, <2>4, <2>5 DEF LookupInv
<1>15. RegisterInv(req[r])'
  <2>1. ASSUME q.op = "register", q.plan = <<"name">>, NEW u \in found,
               q.ids \subseteq Live
        PROVE  u.id \in q.ids
    <3>1. PICK i \in allocated : q.ids = {i} /\ named[i] = q.name
      BY <1>2, <2>1 DEF RegisterInv
    <3>2. i \in Live /\ rows[i] = q.name
      BY <1>6, <2>1, <3>1 DEF TablesInv
    <3>3. Head(q.plan) = "name"
      BY <2>1
    <3> QED
      BY <1>6, <1>7, <3>1, <3>2, <3>3 DEF TablesInv
  <2>2. /\ q.op = "register" /\ q.ids # {} => q.plan \in {<<"name">>, <<>>}
        /\ q.op = "register" /\ q.plan = <<"name">> =>
             ~ q.ok /\ \E i \in allocated : q.ids = {i} /\ named[i] = q.name
    BY <1>2 DEF RegisterInv
  <2> QED
    BY <1>4, <1>9, <1>10, <1>11, <2>1, <2>2 DEF RegisterInv
<1>16. (BanInv(req[r]) /\ ShownInv(req[r]))'
  BY <1>2, <1>3, <1>4, <1>9, <1>10, <1>11 DEF BanInv, ShownInv
<1>17. RequestInv(req[r])'
  BY <1>2, <1>9, <1>10, <1>14, <1>15, <1>16 DEF RequestInv
<1>18. ~ At(r, "updates", "run")
  BY <1>3 DEF At
<1> HIDE DEF IInv
<1> QED
  BY <1>3, <1>8, <1>9, <1>12, <1>17, <1>18, LocalStep

\* A SELECT or an INSERT fails.
LEMMA QueryFailsStep ==
  ASSUME IInv, NEW r \in Reqs, QueryFails(r)
  PROVE  IInv'
<1> DEFINE q == req[r]
           t == Throw(q)
           p == Forget(t)
<1>1. /\ q \in Request /\ q.plan \in Ahead[q.op] /\ q.op \in AllOps
      /\ LookupInv(q) /\ BanInv(q) /\ ShownInv(q) /\ RegisterInv(q)
  BY DEF IInv, TypeOK, RequestInv, Request
<1>2. /\ q.phase # "idle" /\ q.plan # <<>>
      /\ Head(q.plan) \in {"me", "authors", "name", "posts", "exists", "insert"}
  BY <1>1 DEF QueryFails, At, LookupInv, LookupStages
<1>3. /\ t \in Request /\ t.phase = "run" /\ t.plan = <<>> /\ Kept(q, t)
      /\ t.ids = q.ids /\ t.todo = q.todo /\ t.shown = {} /\ t.ok = q.ok
  BY <1>1, <1>2, Endings
<1> HIDE DEF t
<1>4. /\ p \in Request /\ p.users = {} /\ p.rows = {} /\ p.stale = FALSE
      /\ p.phase = "run" /\ p.op = q.op /\ p.name = q.name /\ p.dead = q.dead
      /\ p.plan = <<>> /\ p.ids = q.ids /\ p.todo = q.todo /\ p.shown = {}
      /\ p.ok = q.ok /\ p.lifted = q.lifted
  BY <1>3, ForgetFields DEF Kept
<1> HIDE DEF p
<1>5. p.plan \in Ahead[p.op]
  BY <1>1, <1>4, TailAhead
<1>6. q.op # "initialize"
  BY <1>1, <1>2, WriterPlans
<1>7. BanInv(p)
  <2>1. q.plan # <<"updates">>
    BY <1>2
  <2>2. <<>> # <<"updates">>
    OBVIOUS
  <2>3. q.todo = {}
    BY <1>1, <1>2, <1>6, <2>1 DEF BanInv
  <2> QED
    BY <1>1, <1>4, <2>2, <2>3 DEF BanInv
<1>8. LookupInv(p) /\ ShownInv(p)
  BY <1>1, <1>4 DEF LookupInv, ShownInv
<1>9. RegisterInv(p)
  BY <1>4 DEF RegisterInv
<1>10. RequestInv(p)
  BY <1>4, <1>5, <1>7, <1>8, <1>9 DEF RequestInv
<1>11. ~ At(r, "updates", "run")
  BY <1>2 DEF At
<1>12. Becomes(r, p) /\ UnchangedDB /\ UnchangedCache /\ UNCHANGED <<orphaned, gone>>
  BY DEF QueryFails, p, t
<1> HIDE DEF IInv
<1> QED
  BY <1>4, <1>6, <1>10, <1>11, <1>12, SettledStep

\* The posts of the index are selected without those of a banned user.
LEMMA SelectPostsStep ==
  ASSUME IInv, NEW r \in Reqs, SelectPosts(r)
  PROVE  IInv'
<1> DEFINE q == req[r]
           n == Next1(q)
           p == [n EXCEPT !.shown = JoinedAuthors, !.ids = @ \cup JoinedAuthors]
<1>1. /\ q \in Request /\ q.plan \in Ahead[q.op] /\ q.op \in AllOps
      /\ LookupInv(q) /\ BanInv(q) /\ ShownInv(q) /\ RegisterInv(q)
  BY DEF IInv, TypeOK, RequestInv, Request
<1>2. q.phase = "run" /\ q.plan # <<>> /\ Head(q.plan) = "posts"
  BY DEF SelectPosts, At
<1>3. q.op \in {"index", "posts", "post", "page"}
  BY <1>1, <1>2, StageOps
<1>4. /\ n \in Request /\ n.phase = "run" /\ n.plan = Tail(q.plan)
      /\ Kept(q, n) /\ n.ids = q.ids /\ n.todo = q.todo
  BY <1>1, <1>2, Endings
<1>5. JoinedAuthors \subseteq Ids
  BY DEF JoinedAuthors, Live
<1> HIDE DEF n
<1>6. /\ p \in Request /\ p.phase = "run" /\ p.plan = Tail(q.plan)
      /\ p.op = q.op /\ p.name = q.name /\ p.dead = q.dead /\ p.todo = q.todo
      /\ p.users = q.users /\ p.rows = q.rows /\ p.stale = q.stale
      /\ p.shown = JoinedAuthors /\ p.lifted = q.lifted
  BY <1>4, <1>5 DEF Request, Kept
<1>7. Becomes(r, p) /\ UnchangedDB /\ UnchangedCache /\ UNCHANGED <<orphaned, gone>>
  BY DEF SelectPosts, n
<1> HIDE DEF p
<1>8. p.users = {} /\ p.rows = {} /\ LookupInv(p)
  BY <1>1, <1>2, <1>6 DEF LookupInv
<1>9. BanInv(p) /\ RegisterInv(p)
  BY <1>1, <1>2, <1>3, <1>6 DEF BanInv, RegisterInv
<1>10. ShownInv(p)
  <2>1. FormField = "uid" => gone \cap Live \subseteq banned
    BY DEF IInv, TablesInv, BanApplied
  <2> QED
    BY <1>1, <1>3, <1>6, <2>1 DEF ShownInv, JoinedAuthors
<1>11. p.plan \in Ahead[p.op]
  BY <1>1, <1>2, <1>6, TailAhead
<1>12. RequestInv(p) /\ p.op # "initialize"
  BY <1>3, <1>6, <1>8, <1>9, <1>10, <1>11 DEF RequestInv
<1>13. ~ At(r, "updates", "run")
  BY <1>2 DEF At
<1> HIDE DEF IInv
<1> QED
  BY <1>6, <1>7, <1>8, <1>12, <1>13, SettledStep

\* A registration looks for its name.
LEMMA SelectExistsStep ==
  ASSUME IInv, NEW r \in Reqs, SelectExists(r)
  PROVE  IInv'
<1> DEFINE q == req[r]
<1>1. /\ q \in Request /\ q.plan \in Ahead[q.op] /\ q.op \in AllOps
      /\ LookupInv(q) /\ BanInv(q) /\ ShownInv(q) /\ RegisterInv(q)
  BY DEF IInv, TypeOK, RequestInv, Request
<1>2. q.phase = "run" /\ q.plan # <<>> /\ Head(q.plan) = "exists"
  BY DEF SelectExists, At
<1>3. q.op = "register"
  BY <1>1, <1>2, StageOps
<1>4. q.plan # <<"name">> /\ q.ids = {} /\ Tail(q.plan) # <<"name">>
  <2>1. q.plan # <<"name">> /\ q.plan # <<"insert", "name">>
    BY <1>2
  <2>2. Tail(q.plan) # <<"name">>
    BY <1>1, <1>2, <1>3, <2>1, RegisterPlans
  <2> QED
    BY <1>1, <1>2, <1>3, <2>1, <2>2 DEF RegisterInv
<1>5. PICK p \in {End(q), Next1(q)} : Becomes(r, p)
  BY DEF SelectExists
<1>6. /\ p \in Request /\ p.phase = "run" /\ p.plan \in {<<>>, Tail(q.plan)}
      /\ Kept(q, p) /\ p.ids = q.ids /\ p.todo = q.todo /\ p.shown = q.shown
  <2>1. CASE p = End(q)
    BY <1>1, <1>2, <2>1, Endings
  <2>2. CASE p = Next1(q)
    BY <1>1, <1>2, <2>2, Endings
  <2> QED
    BY <1>5, <2>1, <2>2
<1>7. p.users = {} /\ p.rows = {} /\ LookupInv(p)
  BY <1>1, <1>2, <1>6 DEF LookupInv, Kept
<1>8. BanInv(p) /\ RegisterInv(p) /\ ShownInv(p)
  <2>1. <<>> # <<"name">>
    OBVIOUS
  <2> QED
    BY <1>1, <1>2, <1>3, <1>4, <1>6, <2>1 DEF BanInv, RegisterInv, ShownInv, Kept
<1>9. p.plan \in Ahead[p.op]
  BY <1>1, <1>2, <1>6, TailAhead DEF Kept
<1>10. RequestInv(p) /\ p.op # "initialize"
  BY <1>3, <1>6, <1>7, <1>8, <1>9 DEF RequestInv, Kept
<1>11. ~ At(r, "updates", "run")
  BY <1>2 DEF At
<1>12. UnchangedDB /\ UnchangedCache /\ UNCHANGED <<orphaned, gone>>
  BY DEF SelectExists
<1> HIDE DEF IInv
<1> QED
  BY <1>5, <1>6, <1>7, <1>10, <1>11, <1>12, SettledStep

\* The client has its reply; what is left of it are statements of /initialize.
LEMMA ReplyStep ==
  ASSUME IInv, NEW r \in Reqs, Reply(r)
  PROVE  IInv'
<1> DEFINE q == req[r]
           p == [Idle EXCEPT !.todo = q.todo]
<1>1. q.phase = "run" /\ q.plan = <<>> /\ ~ At(r, "updates", "run")
  BY DEF Reply, Done, At
<1>2. q.todo \subseteq {"delete", "unban"}
  <2>1. BanInv(q)
    BY DEF IInv, RequestInv
  <2>2. <<>> # <<"updates">>
    OBVIOUS
  <2> QED
    BY <1>1, <2>1, <2>2 DEF BanInv
<1>3. Becomes(r, p) /\ UnchangedDB /\ UnchangedCache /\ UNCHANGED <<orphaned, gone>>
  BY DEF Reply
<1>4. req'[r] = p
  BY <1>3 DEF Becomes, IInv, TypeOK
<1>5. PICK todo \in SUBSET {"delete", "unban"} : todo = q.todo
  BY <1>2
<1>6. req'[r] = [Idle EXCEPT !.todo = todo]
  BY <1>4, <1>5
<1>7. /\ req'[r] \in Request /\ req'[r].todo = todo /\ req'[r].plan = <<>>
      /\ RequestInv(req[r])'
  BY <1>6, IdleInOrder
<1> HIDE DEF IInv, p
<1>8. p \in Request /\ p.todo = q.todo /\ p.plan = <<>>
  BY <1>4, <1>5, <1>7
<1>9. Changing(p) => Changing(q)
  BY <1>8 DEF Changing
<1> QED
  BY <1>1, <1>3, <1>7, <1>8, <1>9, LocalStep

\* A registration inserts its user; the answer may be lost.
LEMMA InsertUserStep ==
  ASSUME IInv, NEW r \in Reqs, InsertUser(r)
  PROVE  IInv'
<1> DEFINE q == req[r]
<1>1. /\ q \in Request /\ q.plan \in Ahead[q.op] /\ q.op \in AllOps
      /\ LookupInv(q) /\ BanInv(q) /\ ShownInv(q) /\ RegisterInv(q)
  BY DEF IInv, TypeOK, RequestInv, Request
<1>2. q.phase = "run" /\ q.plan # <<>> /\ Head(q.plan) = "insert"
  BY DEF InsertUser, At
<1>3. q.op = "register" /\ q.plan = <<"insert", "name">> /\ q.name \in Names
  BY <1>1, <1>2, StageOps DEF LookupInv
<1>4. PICK i \in Ids \ allocated :
        /\ rows' = [rows EXCEPT ![i] = q.name]
        /\ named' = [named EXCEPT ![i] = q.name]
        /\ \E x \in {Next1(q), Throw(q)} : Becomes(r, [x EXCEPT !.ids = {i}])
  BY DEF InsertUser
<1>5. PICK n \in {Next1(q), Throw(q)} : Becomes(r, [n EXCEPT !.ids = {i}])
  BY <1>4
<1> DEFINE p == [n EXCEPT !.ids = {i}]
<1>6. UNCHANGED <<banned, byId, byName, raced, orphaned, gone>> /\ UnchangedCache
  BY DEF InsertUser, UnchangedCache
<1>7. \A j \in Live : rows[j] # q.name
  BY DEF InsertUser
<1>8. /\ n \in Request /\ n.phase = "run" /\ n.plan \in {<<"name">>, <<>>}
      /\ n.plan = <<"name">> => n.ok = FALSE
      /\ Kept(q, n) /\ n.todo = q.todo
  <2>1. Tail(q.plan) = <<"name">>
    BY <1>3, Tails
  <2>2. Tail(q.plan) # <<>> /\ <<>> # <<"name">>
    BY <2>1
  <2>3. CASE n = Next1(q)
    BY <1>1, <1>2, <2>1, <2>2, <2>3, Endings
  <2>4. CASE n = Throw(q)
    BY <1>1, <1>2, <2>2, <2>4, Endings
  <2> QED
    BY <1>5, <2>3, <2>4
<1>9. /\ p \in Request /\ p.phase = "run" /\ p.plan \in {<<"name">>, <<>>}
      /\ p.plan = <<"name">> => p.ok = FALSE
      /\ p.op = q.op /\ p.name = q.name /\ p.dead = q.dead /\ p.todo = q.todo
      /\ p.users = q.users /\ p.rows = q.rows /\ p.stale = q.stale
      /\ p.ids = {i} /\ p.lifted = q.lifted
  BY <1>8 DEF Request, Kept
<1> HIDE DEF p
<1>10. Becomes(r, p)
  BY <1>5 DEF p
<1>11. /\ req'[r] = p /\ \A x \in Reqs \ {r} : req'[x] = req[x]
       /\ req' \in [Reqs -> Request]
  BY <1>9, <1>10 DEF Becomes, IInv, TypeOK
<1>12. /\ q.name # None /\ rows \in [Ids -> Names \cup {None}]
       /\ named \in [Ids -> Names \cup {None}] /\ Live \subseteq allocated
       /\ banned \subseteq Live
  BY <1>3, NoneAssumption DEF IInv, TypeOK
<1>13. /\ Live' = Live \cup {i} /\ i \notin Live
       /\ rows'[i] = q.name /\ \A j \in Ids \ {i} : rows'[j] = rows[j]
  BY <1>4, <1>12 DEF Live
<1>14. /\ allocated' = allocated \cup {i}
       /\ named'[i] = q.name /\ \A j \in Ids \ {i} : named'[j] = named[j]
  BY <1>4, <1>12 DEF allocated
<1>15. TypeOK'
  <2>1. /\ rows' \in [Ids -> Names \cup {None}] /\ named' \in [Ids -> Names \cup {None}]
    BY <1>3, <1>4, <1>12
  <2>2. banned' \subseteq Live' /\ Live' \subseteq allocated'
    BY <1>6, <1>12, <1>13, <1>14
  <2> QED
    BY <1>6, <1>11, <2>1, <2>2 DEF IInv, TypeOK
<1>16. IdsStay /\ BansStay
  BY <1>4, <1>6, <1>13, <1>14 DEF IdsStay, BansStay, allocated
<1>17. FreshStays
  <2>1. ~ At(r, "updates", "run")
    BY <1>2 DEF At
  <2>2. \A j : Banning(j) => Banning(j)'
    BY <1>11, <2>1 DEF Banning, At
  <2>3. \A j \in Live : Row(j)' = Row(j)
    BY <1>6, <1>13 DEF Row, Live
  <2> QED
    BY <1>6, <1>13, <2>2, <2>3 DEF FreshStays, Excused
<1>18. TablesInv'
  <2>1. /\ \A j \in Live : rows[j] = named[j]
        /\ \A j, k \in Live : rows[j] = rows[k] => j = k
        /\ gone \subseteq allocated
        /\ FormField = "uid" => gone \cap Live \subseteq banned
    BY DEF IInv, TablesInv, BanApplied
  <2>2. \A j \in Live : j \in Ids \ {i}
    BY <1>13 DEF Live
  <2>3. \A j \in Live' : rows'[j] = named'[j]
    BY <1>13, <1>14, <2>1, <2>2
  <2>4. \A j, k \in Live' : rows'[j] = rows'[k] => j = k
    BY <1>7, <1>13, <2>1, <2>2
  <2>5. gone' \subseteq allocated' /\ (FormField = "uid" => gone' \cap Live' \subseteq banned')
    BY <1>4, <1>6, <1>13, <1>14, <2>1
  <2> QED
    BY <2>3, <2>4, <2>5 DEF TablesInv, BanApplied
<1>19. q.users = {} /\ q.rows = {} /\ q.stale = FALSE /\ q.todo = {}
  BY <1>1, <1>2, <1>3 DEF LookupInv, BanInv
<1>20. RequestInv(req[r])'
  <2>1. LookupInv(req[r])'
    BY <1>1, <1>3, <1>9, <1>11, <1>19 DEF LookupInv
  <2>2. (BanInv(req[r]) /\ ShownInv(req[r]))'
    BY <1>1, <1>3, <1>6, <1>9, <1>11, <1>19 DEF BanInv, ShownInv
  <2>3. RegisterInv(req[r])'
    BY <1>9, <1>11, <1>14, <1>19 DEF RegisterInv
  <2>4. p.plan \in Ahead[p.op]
    BY <1>3, <1>9 DEF Ahead
  <2> QED
    BY <1>9, <1>11, <2>1, <2>2, <2>3, <2>4 DEF RequestInv
<1>21. ~ Changing(p)
  BY <1>3, <1>9, <1>19 DEF Changing
<1>22. Initializing' => Initializing
  BY <1>11, <1>21 DEF Initializing
<1>23. \A x \in Reqs \ {r} : RequestInv(req[x])'
  BY <1>11, <1>16, <1>17, <1>22, OtherRequests
<1> HIDE DEF IInv, TypeOK, TablesInv
<1> QED
  BY <1>6, <1>15, <1>16, <1>17, <1>18, <1>20, <1>22, <1>23, QuietStep

\* A statement of a ban is the only one of a request that waits for it.
LEMMA BanWriter ==
  ASSUME IInv, NEW r \in Reqs, NEW i \in req[r].todo, i \in Ids
  PROVE  /\ req[r] \in Request /\ req[r].op = "ban" /\ req[r].plan = <<"updates">>
         /\ req[r].phase = "run" /\ req[r].todo = {i} /\ req[r].ids = {i}
         /\ FormField = "uid" /\ BodyUid(req[r].ids) \ req[r].todo = {}
         /\ req[r].users = {} /\ req[r].rows = {} /\ req[r].stale = FALSE
<1> DEFINE q == req[r]
<1>1. q \in Request /\ LookupInv(q) /\ BanInv(q)
      /\ (q.phase = "idle" => q = [Idle EXCEPT !.todo = q.todo])
  BY DEF IInv, TypeOK, RequestInv
<1>2. /\ q.op = "ban" /\ q.plan = <<"updates">> /\ q.todo = q.ids /\ FormField = "uid"
      /\ \E j \in Ids : q.ids = {j}
  BY <1>1, StatementAssumption DEF BanInv
<1>3. q.todo = {i} /\ q.ids = {i}
  BY <1>2
<1>4. ([Idle EXCEPT !.todo = q.todo]).op = "index"
  BY DEF Idle
<1>5. q.phase # "idle"
  BY <1>1, <1>2, <1>4
<1>6. Head(q.plan) = "updates" /\ q.plan # <<>>
  BY <1>2
<1>7. q.phase \notin {"asked", "answered"}
  BY <1>1, <1>6 DEF LookupInv, LookupStages
<1>8. q.phase = "run" /\ q.users = {} /\ q.rows = {} /\ q.stale = FALSE
  BY <1>1, <1>5, <1>7 DEF Request, LookupInv
<1>9. BodyUid(q.ids) \ q.todo = {}
  BY <1>3 DEF BodyUid
<1> QED
  BY <1>1, <1>2, <1>3, <1>8, <1>9

\* The UPDATE of a ban, whose answer may be lost.
LEMMA BanOneStep ==
  ASSUME IInv, NEW r \in Reqs, NEW i \in Ids, BanOne(r, i)
  PROVE  IInv'
<1> DEFINE q == req[r]
<1>1. /\ i \in q.todo /\ banned' = banned \cup ({i} \cap Live) /\ UnchangedCache
      /\ UNCHANGED <<rows, named, gone, byId, byName, raced>>
  BY DEF BanOne, UnchangedCache
<1>2. /\ q \in Request /\ q.op = "ban" /\ q.plan = <<"updates">> /\ q.phase = "run"
      /\ q.todo = {i} /\ q.ids = {i} /\ FormField = "uid"
      /\ q.users = {} /\ q.rows = {} /\ q.stale = FALSE
      /\ BodyUid(q.ids) \ q.todo = {}
  BY <1>1, BanWriter
<1>3. BanInv(q) /\ ShownInv(q) /\ LookupInv(q) /\ q.plan \in Ahead[q.op]
  BY DEF IInv, RequestInv
<1>4. PICK n \in {q, Throw(q)} :
        /\ Becomes(r, Without(n, i))
        /\ \/ n = q /\ orphaned' = orphaned
           \/ n = Throw(q) /\ orphaned' = orphaned \cup {i}
  BY DEF BanOne
<1> DEFINE p == Without(n, i)
<1>5. /\ p \in Request /\ p.op = q.op /\ p.phase = "run" /\ p.users = {}
      /\ p.rows = {} /\ p.stale = FALSE /\ p.name = q.name /\ p.ids = q.ids
      /\ p.todo = {} /\ p.dead = q.dead /\ p.lifted = q.lifted
      /\ p.plan = n.plan /\ (n = Throw(q) => p.plan = <<>>)
      /\ p.shown \subseteq q.shown
  <2>1. <<>> \in Seq(Stages) /\ Throw(q).plan = <<>>
    BY <1>2 DEF Throw, Request
  <2>2. /\ n \in Request /\ n.op = q.op /\ n.phase = "run" /\ n.users = {}
        /\ n.rows = {} /\ n.stale = FALSE /\ n.name = q.name /\ n.ids = q.ids
        /\ n.todo = q.todo /\ n.dead = q.dead /\ n.lifted = q.lifted
        /\ (n = Throw(q) => n.plan = <<>>) /\ n.shown \subseteq q.shown
    <3>1. CASE n = q
      BY <1>2, <2>1, <3>1
    <3>2. CASE n = Throw(q)
      BY <1>2, <2>1, <3>2 DEF Throw, Request
    <3> QED
      BY <1>4, <3>1, <3>2
  <2>3. p = [n EXCEPT !.todo = n.todo \ {i}] /\ n.todo \ {i} = {}
    BY <1>2, <2>2 DEF Without
  <2> QED
    BY <2>2, <2>3 DEF Request
<1> HIDE DEF p
<1>6. /\ req'[r] = p /\ \A x \in Reqs \ {r} : req'[x] = req[x]
      /\ req' \in [Reqs -> Request]
  BY <1>4, <1>5 DEF Becomes, IInv, TypeOK, p
<1>7. Live' = Live /\ allocated' = allocated
  BY <1>1 DEF Live, allocated
<1>8. orphaned' \subseteq orphaned \cup {i} /\ orphaned \subseteq orphaned'
  BY <1>4
<1>9. TypeOK'
  BY <1>1, <1>6, <1>7, <1>8 DEF IInv, TypeOK
<1>10. IdsStay /\ BansStay
  BY <1>1, <1>7 DEF IdsStay, BansStay
<1>11. TablesInv'
  BY <1>1, <1>7 DEF IInv, TablesInv, BanApplied
<1>12. FreshStays
  <2>1. \A j : Banning(j) => Banning(j)'
    <3> TAKE j
    <3> SUFFICES ASSUME Banning(j) PROVE Banning(j)'
      OBVIOUS
    <3>1. PICK x \in Reqs : At(x, "updates", "run") /\ j \in BodyUid(req[x].ids) \ req[x].todo
      BY DEF Banning
    <3>2. x \in Reqs \ {r}
      BY <1>2, <3>1
    <3>3. req'[x] = req[x]
      BY <1>6, <3>2
    <3> QED
      BY <3>1, <3>3 DEF Banning, At
  <2>2. Excused(i)'
    <3>1. CASE n = q
      <4>0. p.plan = <<"updates">>
        BY <1>2, <1>5, <3>1
      <4>1. p.plan # <<>> /\ Head(p.plan) = "updates"
        BY <4>0
      <4>2. At(r, "updates", "run")'
        BY <1>5, <1>6, <4>1 DEF At
      <4>3. i \in BodyUid(p.ids) \ p.todo
        BY <1>2, <1>5 DEF BodyUid
      <4> QED
        BY <1>6, <4>2, <4>3 DEF Excused, Banning
    <3>2. CASE n # q
      BY <1>4, <3>2 DEF Excused
    <3> QED
      BY <3>1, <3>2
  <2>3. \A j \in Live : j # i => Row(j)' = Row(j)
    BY <1>1 DEF Row
  <2> QED
    BY <1>7, <1>8, <2>1, <2>2, <2>3 DEF FreshStays, Excused
<1>13. ~ Changing(p)
  <2>1. n.plan = <<"updates">> \/ n.plan = <<>>
    BY <1>2, <1>4, <1>5
  <2>2. n.plan # <<>> => Head(n.plan) = "updates"
    BY <2>1
  <2> QED
    BY <1>5, <2>2 DEF Changing
<1>14. Initializing' => Initializing
  BY <1>6, <1>13 DEF Initializing
<1>15. RequestInv(req[r])'
  <2>1. LookupInv(req[r])'
    BY <1>2, <1>5, <1>6 DEF LookupInv
  <2>2. BanInv(req[r])'
    BY <1>1, <1>2, <1>3, <1>5, <1>6, <1>7 DEF BanInv
  <2>3. (ShownInv(req[r]) /\ RegisterInv(req[r]))'
    BY <1>1, <1>2, <1>3, <1>5, <1>6 DEF ShownInv, RegisterInv
  <2>4. p.plan \in Ahead[p.op]
    BY <1>2, <1>3, <1>4, <1>5, TailAhead, Handlers
  <2> QED
    BY <1>5, <1>6, <2>1, <2>2, <2>3, <2>4 DEF RequestInv
<1>16. \A x \in Reqs \ {r} : RequestInv(req[x])'
  BY <1>6, <1>10, <1>12, <1>14, OtherRequests
<1> HIDE DEF IInv, TypeOK, TablesInv
<1> QED
  BY <1>1, <1>9, <1>10, <1>11, <1>12, <1>14, <1>15, <1>16, QuietStep

\* What becomes of a slot when a statement of /initialize is no longer running.
LEMMA WriterWithout ==
  ASSUME IInv, NEW r \in Reqs, NEW s \in req[r].todo, s \notin Ids,
         NEW n, n \in {req[r], Rejected(req[r])}, NEW lifted \in BOOLEAN,
         req[r].phase = "idle" => lifted = FALSE,
         req[r].lifted => lifted,
         req[r].phase = "idle" \/ lifted \/ gone \subseteq gone',
         req'[r] = [Without(n, s) EXCEPT !.lifted = lifted]
  PROVE  req'[r] \in Request /\ RequestInv(req[r])'
<1> DEFINE q == req[r]
           p == req'[r]
<1>1. /\ q.todo \subseteq {"delete", "unban"} /\ q \in Request
      /\ q.users = {} /\ q.rows = {} /\ q.stale = FALSE
      /\ \/ q.phase = "idle" /\ q = [Idle EXCEPT !.todo = q.todo]
         \/ /\ q.op = "initialize" /\ q.phase = "run"
            /\ q.plan \in Ahead["initialize"] \ {Plans.initialize}
      /\ q.lifted \/ q.dead \subseteq gone
  BY Writer
<1>2. p = [n EXCEPT !.todo = n.todo \ {s}, !.lifted = lifted]
  BY DEF Without
<1>3. CASE q.phase = "idle"
  <2>1. n = q
    BY <1>3 DEF Rejected
  <2>2. PICK todo \in SUBSET {"delete", "unban"} : todo = q.todo \ {s}
    BY <1>1
  <2>3. q = [Idle EXCEPT !.todo = q.todo] /\ lifted = FALSE
    BY <1>1, <1>3
  <2>4. p = [q EXCEPT !.todo = todo, !.lifted = FALSE]
    BY <1>2, <2>1, <2>2, <2>3
  <2>5. p = [Idle EXCEPT !.todo = todo]
    <3>1. PICK old, e : old = q.todo /\ e = Idle
      OBVIOUS
    <3>2. e \in Request /\ e.lifted = FALSE
      BY <3>1, Handlers DEF Idle, Request
    <3>3. q = [e EXCEPT !.todo = old]
      BY <2>3, <3>1
    <3>4. [[e EXCEPT !.todo = old] EXCEPT !.todo = todo, !.lifted = FALSE]
            = [e EXCEPT !.todo = todo]
      BY <3>2 DEF Request
    <3> QED
      BY <2>4, <3>1, <3>3, <3>4
  <2> QED
    BY <2>5, IdleInOrder
<1>4. CASE q.phase # "idle"
  <2>1. q.op = "initialize" /\ q.phase = "run"
        /\ q.plan \in Ahead["initialize"] \ {Plans.initialize}
    BY <1>1, <1>4
  <2>2. n \in {q, Throw(q)}
    BY <1>4 DEF Rejected
  <2>3. <<>> \in Seq(Stages) /\ <<>> \in Ahead["initialize"] /\ Plans.initialize # <<>>
    BY WriterTails DEF Ahead
  <2>4. /\ n \in Request /\ n.op = "initialize" /\ n.phase = "run"
        /\ n.plan \in Ahead["initialize"] \ {Plans.initialize} /\ n.users = {}
        /\ n.rows = {} /\ n.stale = FALSE /\ n.todo = q.todo /\ n.dead = q.dead
    <3>1. CASE n = q
      BY <1>1, <2>1, <3>1
    <3>2. CASE n = Throw(q)
      BY <1>1, <2>1, <2>3, <3>2 DEF Throw, Request
    <3> QED
      BY <2>2, <3>1, <3>2
  <2>5. /\ p \in Request /\ p.op = "initialize" /\ p.phase = "run"
        /\ p.plan = n.plan /\ p.users = {} /\ p.rows = {} /\ p.stale = FALSE
        /\ p.todo = q.todo \ {s} /\ p.dead = q.dead /\ p.lifted = lifted
    <3>1. PICK todo \in SUBSET {"delete", "unban"} : todo = q.todo \ {s}
      BY <1>1
    <3>2. p = [n EXCEPT !.todo = todo, !.lifted = lifted]
      BY <1>2, <2>4, <3>1
    <3> HIDE DEF p, q
    <3> QED
      BY <2>4, <3>1, <3>2 DEF Request
  <2>6. lifted \/ q.dead \subseteq gone'
    BY <1>1, <1>4
  <2>7. p.plan \in Ahead["initialize"] /\ p.plan # Plans.initialize
    BY <2>4, <2>5
  <2>8. p.todo \subseteq {"delete", "unban"} /\ (p.lifted \/ p.dead \subseteq gone')
    BY <1>1, <2>5, <2>6
  <2> HIDE DEF p
  <2>9. RequestInv(req[r])'
    BY <2>5, <2>7, <2>8, WriterInOrder DEF p
  <2> QED
    BY <2>5, <2>9 DEF p
<1> QED
  BY <1>3, <1>4

\* A statement of a ban fails, or one of /initialize, with its request or after.
LEMMA StatementFailsStep ==
  ASSUME IInv, NEW r \in Reqs, StatementFails(r)
  PROVE  IInv'
<1> DEFINE q == req[r]
<1>1. PICK s \in q.todo : Becomes(r, Without(Rejected(q), s))
  BY DEF StatementFails
<1>2. UnchangedDB /\ UnchangedCache /\ UNCHANGED <<orphaned, gone>>
  BY DEF StatementFails
<1> DEFINE p == Without(Rejected(q), s)
<1>3. req'[r] = p
  BY <1>1 DEF Becomes, IInv, TypeOK
<1>4. CASE s \in Ids
  <2>1. /\ q \in Request /\ q.op = "ban" /\ q.plan = <<"updates">> /\ q.phase = "run"
        /\ q.todo = {s} /\ q.ids = {s} /\ BodyUid(q.ids) \ q.todo = {}
        /\ q.users = {} /\ q.rows = {} /\ q.stale = FALSE
    BY <1>1, <1>4, BanWriter
  <2>2. BanInv(q) /\ ShownInv(q) /\ LookupInv(q) /\ q.plan \in Ahead[q.op]
    BY DEF IInv, RequestInv
  <2>3. Rejected(q) = Throw(q)
    BY <2>1 DEF Rejected
  <2>4. /\ p \in Request /\ p.op = q.op /\ p.phase = "run" /\ p.users = {}
        /\ p.rows = {} /\ p.stale = FALSE /\ p.name = q.name /\ p.ids = q.ids
        /\ p.todo = {} /\ p.dead = q.dead /\ p.lifted = q.lifted
        /\ p.plan = <<>> /\ p.shown \subseteq q.shown
    <3>1. PICK t : t = Throw(q)
      OBVIOUS
    <3>2. <<>> \in Seq(Stages)
      OBVIOUS
    <3>3. /\ t \in Request /\ t.op = q.op /\ t.phase = "run" /\ t.users = {}
          /\ t.rows = {} /\ t.stale = FALSE /\ t.name = q.name /\ t.ids = q.ids
          /\ t.todo = q.todo /\ t.dead = q.dead /\ t.lifted = q.lifted
          /\ t.plan = <<>> /\ t.shown \subseteq q.shown
      BY <2>1, <3>1, <3>2 DEF Throw, Request
    <3>4. p = [t EXCEPT !.todo = t.todo \ {s}] /\ t.todo \ {s} = {}
      BY <2>1, <2>3, <3>1, <3>3 DEF Without
    <3> QED
      BY <3>3, <3>4 DEF Request
  <2> HIDE DEF p
  <2>5. <<>> # <<"updates">> /\ <<>> # <<"name">>
    OBVIOUS
  <2>6. BanInv(p)
    BY <2>1, <2>2, <2>4, <2>5 DEF BanInv
  <2>7. LookupInv(p) /\ ShownInv(p) /\ RegisterInv(p)
    <3>1. LookupInv(p)
      BY <2>1, <2>4 DEF LookupInv
    <3>2. ShownInv(p) /\ RegisterInv(p)
      BY <2>1, <2>2, <2>4 DEF ShownInv, RegisterInv
    <3> QED
      BY <3>1, <3>2
  <2>8. p.plan \in Ahead[p.op]
    <3>1. q.plan \in Ahead["ban"] /\ "ban" \in AllOps
      BY <2>1, <2>2, Handlers
    <3> QED
      BY <2>1, <2>4, <3>1, TailAhead
  <2>9. RequestInv(p) /\ p.op # "initialize"
    BY <2>1, <2>4, <2>6, <2>7, <2>8 DEF RequestInv
  <2>10. Becomes(r, p)
    BY <1>1 DEF p
  <2> HIDE DEF IInv
  <2> QED
    BY <1>2, <2>1, <2>4, <2>9, <2>10, SettledStep
<1>5. CASE s \notin Ids
  <2>1. /\ Changing(q) /\ q \in Request
        /\ \/ q.phase = "idle" /\ q = [Idle EXCEPT !.todo = q.todo]
           \/ q.op = "initialize" /\ q.plan \in Ahead["initialize"]
    BY <1>5, Writer
  <2>2. PICK lifted \in BOOLEAN : lifted = q.lifted
    BY <2>1 DEF Request
  <2>3. q.phase = "idle" => lifted = FALSE
    <3>1. ([Idle EXCEPT !.todo = q.todo]).lifted = FALSE
      BY DEF Idle
    <3>2. q.op = "initialize" => q.phase # "idle"
      <4>1. ([Idle EXCEPT !.todo = q.todo]).op = "index"
        BY DEF Idle
      <4>2. q.phase = "idle" => q = [Idle EXCEPT !.todo = q.todo]
        BY DEF IInv, RequestInv
      <4> QED
        BY <4>1, <4>2
    <3> QED
      BY <2>1, <2>2, <3>1, <3>2
  <2>4. p = [p EXCEPT !.lifted = lifted]
    <3>1. p.lifted = q.lifted /\ p = [p EXCEPT !.lifted = p.lifted]
      <4>1. PICK n : n = Rejected(q)
        OBVIOUS
      <4>2. n \in Request /\ n.lifted = q.lifted
        <5>1. <<>> \in Seq(Stages)
          OBVIOUS
        <5>2. CASE n = q
          BY <2>1, <5>2
        <5>3. CASE n = Throw(q)
          BY <2>1, <5>1, <5>3 DEF Throw, Request
        <5> QED
          BY <4>1, <5>2, <5>3 DEF Rejected
      <4>3. p = [n EXCEPT !.todo = n.todo \ {s}]
        BY <4>1 DEF Without
      <4> QED
        BY <4>2, <4>3 DEF Request
    <3> QED
      BY <2>2, <3>1
  <2>5. req'[r] = [Without(Rejected(q), s) EXCEPT !.lifted = lifted]
    BY <1>3, <2>4
  <2>6. gone \subseteq gone'
    BY <1>2
  <2>7. PICK n : n = Rejected(q)
    OBVIOUS
  <2>8. req'[r] \in Request /\ RequestInv(req[r])'
    BY <1>5, <2>2, <2>3, <2>5, <2>6, <2>7, WriterWithout
  <2>9. ~ At(r, "updates", "run")
    <3>1. q.phase # "idle" /\ q.plan # <<>> => Head(q.plan) # "updates"
      BY <2>1, StageOps, Handlers
    <3> QED
      BY <3>1 DEF At
  <2> HIDE DEF p, IInv
  <2>10. Becomes(r, p)
    BY <1>1 DEF p
  <2> QED
    BY <1>2, <1>3, <2>1, <2>8, <2>9, <2>10, LocalStep
<1> QED
  BY <1>4, <1>5

\* A stage of /initialize ends, or its handler throws, and may have changed the
\* marks of bans in the table.
LEMMA InitializeStage ==
  ASSUME IInv, NEW r \in Reqs, req[r].phase = "run", req[r].plan # <<>>,
         Head(req[r].plan) \in {"statements", "reban"},
         NEW p, p \in {Next1(req[r]), Throw(req[r])}, Becomes(r, p),
         UNCHANGED <<rows, named, orphaned, gone>>, UnchangedCache,
         banned \subseteq banned', banned' \subseteq Live
  PROVE  IInv'
<1> DEFINE q == req[r]
<1>1. /\ q \in Request /\ q.plan \in Ahead[q.op] /\ q.op \in AllOps
      /\ LookupInv(q) /\ BanInv(q) /\ ShownInv(q)
  BY DEF IInv, TypeOK, RequestInv, Request
<1>2. q.op = "initialize" /\ Changing(q) /\ q.plan # Plans.initialize
  <2>1. Head(q.plan) # "clear"
    OBVIOUS
  <2> QED
    BY <1>1, <2>1, WriterPlans DEF Changing
<1>3. q.todo \subseteq {"delete", "unban"} /\ (q.lifted \/ q.dead \subseteq gone)
  BY <1>1, <1>2 DEF BanInv, ShownInv
<1>4. q.users = {} /\ q.rows = {} /\ q.stale = FALSE
  BY <1>1 DEF LookupInv
<1>5. /\ p \in Request /\ p.phase = "run" /\ p.plan \in {<<>>, Tail(q.plan)}
      /\ Kept(q, p) /\ p.todo = q.todo
  <2>1. CASE p = Next1(q)
    BY <1>1, <2>1, Endings
  <2>2. CASE p = Throw(q)
    BY <1>1, <2>2, Endings
  <2> QED
    BY <2>1, <2>2
<1>6. p.plan \in Ahead["initialize"] /\ p.plan # Plans.initialize
  BY <1>1, <1>2, <1>5, TailAhead, WriterTails
<1>7. /\ req'[r] = p /\ \A x \in Reqs \ {r} : req'[x] = req[x]
      /\ req' \in [Reqs -> Request]
  BY <1>5 DEF Becomes, IInv, TypeOK
<1>8. RequestInv(req[r])'
  <2>1. p.lifted \/ p.dead \subseteq gone'
    BY <1>3, <1>5 DEF Kept
  <2> QED
    BY <1>2, <1>3, <1>4, <1>5, <1>6, <1>7, <2>1, WriterInOrder DEF Kept
<1>9. Live' = Live /\ allocated' = allocated
  BY DEF Live, allocated
<1>10. TypeOK' /\ TablesInv' /\ IdsStay /\ BansStay
  <2>1. UNCHANGED <<byId, byName, raced>>
    BY DEF UnchangedCache
  <2>2. TypeOK'
    BY <1>7, <1>9, <2>1 DEF IInv, TypeOK
  <2>3. TablesInv'
    BY <1>9 DEF IInv, TablesInv, BanApplied
  <2> QED
    BY <1>9, <2>2, <2>3 DEF IdsStay, BansStay
<1>11. Initializing
  BY <1>2 DEF Initializing
<1>12. \A x \in Reqs \ {r} : RequestInv(req[x])'
  BY <1>7, <1>10, <1>11, OtherRequests
<1> HIDE DEF IInv, TypeOK, TablesInv
<1> QED
  BY <1>8, <1>10, <1>11, <1>12, QuietStep

\* A statement of /initialize about posts or comments fails.
LEMMA OtherStatementFailsStep ==
  ASSUME IInv, NEW r \in Reqs, OtherStatementFails(r)
  PROVE  IInv'
<1>1. /\ req[r].phase = "run" /\ req[r].plan # <<>> /\ Head(req[r].plan) = "statements"
      /\ Becomes(r, Throw(req[r])) /\ UnchangedCache
      /\ UNCHANGED <<rows, banned, named, orphaned, gone>>
  BY DEF OtherStatementFails, At, UnchangedDB
<1>2. banned \subseteq Live
  BY DEF IInv, TypeOK
<1>3. PICK p : p = Throw(req[r])
  OBVIOUS
<1> HIDE DEF IInv
<1> QED
  BY <1>1, <1>2, <1>3, InitializeStage

\* The four statements are done.
LEMMA JoinStatementsStep ==
  ASSUME IInv, NEW r \in Reqs, JoinStatements(r)
  PROVE  IInv'
<1>1. /\ req[r].phase = "run" /\ req[r].plan # <<>> /\ Head(req[r].plan) = "statements"
      /\ Becomes(r, Next1(req[r])) /\ UnchangedCache
      /\ UNCHANGED <<rows, banned, named, orphaned, gone>>
  BY DEF JoinStatements, At, UnchangedDB
<1>2. banned \subseteq Live
  BY DEF IInv, TypeOK
<1>3. PICK p : p = Next1(req[r])
  OBVIOUS
<1> HIDE DEF IInv
<1> QED
  BY <1>1, <1>2, <1>3, InitializeStage

\* The last statement of /initialize.
LEMMA BanFiftiethStep ==
  ASSUME IInv, NEW r \in Reqs, BanFiftieth(r)
  PROVE  IInv'
<1>1. /\ req[r].phase = "run" /\ req[r].plan # <<>> /\ Head(req[r].plan) = "reban"
      /\ UnchangedCache /\ UNCHANGED <<rows, named, orphaned, gone>>
  BY DEF BanFiftieth, At
<1>2. PICK p \in {Next1(req[r]), Throw(req[r])} : Becomes(r, p)
  BY DEF BanFiftieth
<1>3. banned \subseteq banned' /\ banned' \subseteq Live
  BY DEF BanFiftieth, IInv, TypeOK
<1> HIDE DEF IInv
<1> QED
  BY <1>1, <1>2, <1>3, InitializeStage

\* /initialize deletes the users that are not seeded.
LEMMA DeleteNewUsersStep ==
  ASSUME IInv, NEW r \in Reqs, DeleteNewUsers(r)
  PROVE  IInv'
<1> DEFINE q == req[r]
           s == "delete"
<1>1. /\ s \in q.todo /\ rows' = [i \in Ids |-> IF i \in Seed THEN rows[i] ELSE None]
      /\ banned' = banned \cap Seed /\ Becomes(r, Without(q, s))
      /\ UnchangedCache /\ UNCHANGED <<named, orphaned, gone, byId, byName, raced>>
  BY DEF DeleteNewUsers, UnchangedCache
<1>2. s \notin Ids
  BY StatementAssumption
<1> HIDE DEF s
<1>3. /\ Changing(q) /\ q \in Request
      /\ \/ q.phase = "idle" /\ q = [Idle EXCEPT !.todo = q.todo]
         \/ q.op = "initialize"
  BY <1>1, <1>2, Writer
<1>4. Initializing
  BY <1>3 DEF Initializing
<1>5. PICK lifted \in BOOLEAN : lifted = q.lifted
  BY <1>3 DEF Request
<1> DEFINE p == Without(q, s)
<1>6. /\ req'[r] = p /\ \A x \in Reqs \ {r} : req'[x] = req[x]
  BY <1>1, <1>5 DEF Becomes, IInv, TypeOK
<1>7. p = [p EXCEPT !.lifted = lifted]
  BY <1>3, <1>5 DEF Without, Request
<1>8. req'[r] = [Without(q, s) EXCEPT !.lifted = lifted]
  BY <1>5, <1>6, <1>7
<1>9. q.phase = "idle" => lifted = FALSE
  <2>1. ([Idle EXCEPT !.todo = q.todo]).lifted = FALSE
    BY DEF Idle
  <2>2. q.phase = "idle" => q = [Idle EXCEPT !.todo = q.todo]
    BY DEF IInv, RequestInv
  <2> QED
    BY <1>5, <2>1, <2>2
<1>10. req'[r] \in Request /\ RequestInv(req[r])'
  <2>1. PICK n : n = q
    OBVIOUS
  <2>2. gone \subseteq gone'
    BY <1>1
  <2> QED
    BY <1>1, <1>2, <1>5, <1>8, <1>9, <2>1, <2>2, WriterWithout
<1>11. req' \in [Reqs -> Request]
  BY <1>1, <1>5, <1>6, <1>10 DEF Becomes, IInv, TypeOK
<1>12. /\ Live' = Live \cap Seed /\ allocated' = allocated
       /\ \A i \in Live' : rows'[i] = rows[i]
  BY <1>1, SeedAssumption DEF Live, allocated
<1>13. TypeOK'
  <2>1. rows' \in [Ids -> Names \cup {None}]
    BY <1>1 DEF IInv, TypeOK
  <2>2. banned' \subseteq Live' /\ Live' \subseteq allocated'
    BY <1>1, <1>12 DEF IInv, TypeOK
  <2> QED
    BY <1>1, <1>11, <2>1, <2>2 DEF IInv, TypeOK
<1>14. TablesInv'
  BY <1>1, <1>12 DEF IInv, TablesInv, BanApplied
<1>15. IdsStay /\ BansStay
  BY <1>1, <1>12 DEF IdsStay, BansStay
<1>16. \A x \in Reqs \ {r} : RequestInv(req[x])'
  BY <1>4, <1>6, <1>15, OtherRequests
<1> HIDE DEF IInv, TypeOK, TablesInv
<1> QED
  BY <1>1, <1>4, <1>10, <1>13, <1>14, <1>15, <1>16, QuietStep

\* /initialize lifts all bans, those of the requests in flight too.
LEMMA UnbanAllStep ==
  ASSUME IInv, NEW r \in Reqs, UnbanAll(r)
  PROVE  IInv'
<1> DEFINE s == "unban"
<1>1. /\ s \in req[r].todo /\ banned' = {} /\ gone' = {} /\ UnchangedCache
      /\ req' = [x \in Reqs |-> Lift(IF x = r THEN Without(req[r], s) ELSE req[x])]
      /\ UNCHANGED <<rows, named, orphaned, byId, byName, raced>>
  BY DEF UnbanAll, UnchangedCache
<1>2. s \notin Ids
  BY StatementAssumption
<1> HIDE DEF s
<1>3. Changing(req[r]) /\ req[r] \in Request
  BY <1>1, <1>2, Writer
<1>4. Initializing
  BY <1>3 DEF Initializing
<1>5. IdsStay /\ Live' = Live /\ allocated' = allocated
  BY <1>1 DEF IdsStay, Live, allocated
<1>6. req'[r] \in Request /\ RequestInv(req[r])'
  <2>1. PICK lifted \in BOOLEAN : lifted = (req[r].phase # "idle")
    OBVIOUS
  <2>2. Without(req[r], s).phase = req[r].phase
    BY <1>3 DEF Without, Request
  <2>3. req'[r] = [Without(req[r], s) EXCEPT !.lifted = lifted]
    BY <1>1, <2>1, <2>2 DEF Lift
  <2>4. req[r].phase = "idle" => lifted = FALSE
    BY <2>1
  <2>5. req[r].lifted => lifted
    <3>1. ([Idle EXCEPT !.todo = req[r].todo]).lifted = FALSE
      BY DEF Idle
    <3>2. req[r].phase = "idle" => req[r] = [Idle EXCEPT !.todo = req[r].todo]
      BY DEF IInv, RequestInv
    <3>3. req[r].phase = "idle" => ~ req[r].lifted
      BY <3>1, <3>2
    <3> QED
      BY <2>1, <3>3
  <2>6. req[r].phase = "idle" \/ lifted \/ gone \subseteq gone'
    <3>1. CASE req[r].phase # "idle"
      BY <2>1, <3>1
    <3>2. CASE req[r].phase = "idle"
      BY <3>2
    <3> QED
      BY <3>1, <3>2
  <2>7. PICK n : n = req[r]
    OBVIOUS
  <2> QED
    BY <1>1, <1>2, <2>3, <2>4, <2>5, <2>6, <2>7, WriterWithout
<1>7. ASSUME NEW x \in Reqs \ {r} PROVE req'[x] \in Request /\ RequestInv(req[x])'
  <2>1. req'[x] = [req[x] EXCEPT !.lifted = req[x].phase # "idle"]
    BY <1>1 DEF Lift
  <2>2. /\ req[x] \in Request /\ RequestInv(req[x])
        /\ LookupInv(req[x]) /\ BanInv(req[x])
    BY DEF IInv, TypeOK, RequestInv
  <2>3. CASE req[x].phase = "idle"
    <3>1. PICK todo \in SUBSET {"delete", "unban"} : todo = req[x].todo
      <4>1. req[x] = [Idle EXCEPT !.todo = req[x].todo]
        BY <2>2, <2>3 DEF RequestInv
      <4>2. ([Idle EXCEPT !.todo = req[x].todo]).op = "index"
        BY DEF Idle
      <4>3. req[x].todo \subseteq {"delete", "unban"}
        BY <2>2, <4>1, <4>2 DEF BanInv
      <4> QED
        BY <4>3
    <3>2. PICK e : e = Idle
      OBVIOUS
    <3>3. e \in Request /\ e.lifted = FALSE
      BY <3>2, Handlers DEF Idle, Request
    <3>4. req[x] = [e EXCEPT !.todo = todo]
      BY <2>2, <2>3, <3>1, <3>2 DEF RequestInv
    <3>5. PICK b \in BOOLEAN : b = (req[x].phase # "idle")
      OBVIOUS
    <3>6. b = FALSE
      BY <2>3, <3>5
    <3>7. [[e EXCEPT !.todo = todo] EXCEPT !.lifted = FALSE] = [e EXCEPT !.todo = todo]
      BY <3>3 DEF Request
    <3>8. req'[x] = [Idle EXCEPT !.todo = todo]
      BY <2>1, <3>2, <3>4, <3>5, <3>6, <3>7
    <3> QED
      BY <3>8, IdleInOrder
  <2>4. CASE req[x].phase # "idle"
    <3>1. PICK stale \in BOOLEAN, lifted \in BOOLEAN :
            stale = req[x].stale /\ lifted = (req[x].phase # "idle")
      <4>1. req[x].stale \in BOOLEAN /\ (req[x].phase # "idle") \in BOOLEAN
        BY <2>2 DEF Request
      <4> QED
        BY <4>1
    <3>2. lifted = TRUE
      BY <2>4, <3>1
    <3>3. req'[x] = [req[x] EXCEPT !.stale = stale, !.lifted = lifted]
      <4>1. req'[x] = [req[x] EXCEPT !.lifted = lifted]
        BY <2>1, <3>1
      <4>2. [req[x] EXCEPT !.lifted = lifted]
              = [req[x] EXCEPT !.stale = req[x].stale, !.lifted = lifted]
        BY <2>2 DEF Request
      <4> QED
        BY <3>1, <4>1, <4>2
    <3>4. req[x].phase = "answered" => stale
      BY <1>4, <2>2, <3>1 DEF LookupInv
    <3>5. (stale => req[x].phase = "answered") /\ (req[x].stale => stale)
      BY <2>2, <3>1 DEF LookupInv
    <3>6. req[x].phase = "idle" => ~ lifted
      BY <2>4
    <3> HIDE DEF IInv
    <3> QED
      BY <1>5, <2>2, <3>2, <3>3, <3>4, <3>5, <3>6, OtherRequest
  <2> QED
    BY <2>3, <2>4
<1>8. req' \in [Reqs -> Request]
  <2>1. req' = [x \in Reqs |-> req'[x]]
    BY <1>1
  <2>2. \A x \in Reqs : req'[x] \in Request
    BY <1>6, <1>7
  <2> QED
    BY <2>1, <2>2
<1>9. TypeOK'
  BY <1>1, <1>5, <1>8 DEF IInv, TypeOK
<1>10. TablesInv'
  BY <1>1, <1>5 DEF IInv, TablesInv, BanApplied
<1>11. \A x \in Reqs \ {r} : RequestInv(req[x])'
  BY <1>7
<1> HIDE DEF IInv, TypeOK, TablesInv
<1> QED
  BY <1>1, <1>4, <1>5, <1>6, <1>9, <1>10, <1>11, QuietStep

\* What was looked up arrives and is cached.
LEMMA ResumeStep ==
  ASSUME IInv, NEW r \in Reqs, Resume(r)
  PROVE  IInv'
<1> DEFINE q == req[r]
           got == {u.id : u \in q.rows}
           users == q.users \cup q.rows
           p == Forget(Found(q, users))
<1>1. /\ q \in Request /\ q.plan \in Ahead[q.op] /\ q.op \in AllOps /\ LookupInv(q)
  BY DEF IInv, TypeOK, RequestInv, Request
<1>2. /\ q.phase = "answered" /\ CacheById(q.rows) /\ CacheByName(q.rows)
      /\ raced' = IF q.stale THEN raced \cup got ELSE raced \ got
      /\ Becomes(r, p) /\ UNCHANGED <<rows, banned, named, orphaned, gone>>
  BY DEF Resume, UnchangedDB
<1>3. q.plan # <<>> /\ Head(q.plan) \in LookupStages
  BY <1>1, <1>2 DEF LookupInv
<1>4. users \in SUBSET User
  BY <1>1 DEF Request
<1>5. req \in [Reqs -> Request]
  BY DEF IInv, TypeOK
<1>6. req'[r] = Forget(Found(q, users)) /\ \A x \in Reqs \ {r} : req'[x] = req[x]
  BY <1>2, <1>5 DEF Becomes
<1> HIDE DEF users, p
<1>7. /\ req'[r] \in Request /\ RequestInv(req[r])' /\ ~ Changing(req'[r])
  BY <1>2, <1>3, <1>4, <1>6, FoundRequest
<1>8. req' \in [Reqs -> Request]
  BY <1>2, <1>5, <1>6, <1>7 DEF Becomes, p
<1>9. \A u, v \in q.rows : u.id = v.id => u = v
  BY <1>1 DEF LookupInv
<1>10. \A u \in q.rows : Known(u) /\ u \in User
  BY <1>1, <1>4 DEF LookupInv, users
<1>11. ASSUME NEW i \in Ids
       PROVE  \/ \E u \in q.rows : u.id = i /\ byId'[i] = u
              \/ i \notin got /\ byId'[i] = byId[i]
  BY <1>2 DEF CacheById
<1>12. ASSUME NEW n \in Names
       PROVE  \/ \E u \in q.rows : u.name = n /\ byName'[n] = u
              \/ (\A u \in q.rows : u.name # n) /\ byName'[n] = byName[n]
  BY <1>2 DEF CacheByName
<1>13. IdsStay /\ BansStay /\ Live' = Live /\ allocated' = allocated
       /\ (\A i : Row(i)' = Row(i)) /\ TablesInv'
  BY <1>2, SameTables DEF IInv
<1>14. TypeOK'
  <2>1. /\ byId' \in [Ids -> User \cup {None}]
        /\ \A i \in Ids : byId'[i] # None => byId'[i].id = i
    <3>1. byId' = [i \in Ids |-> byId'[i]]
      BY <1>2 DEF CacheById
    <3>2. \A i \in Ids : /\ byId'[i] \in User \cup {None}
                         /\ byId'[i] # None => byId'[i].id = i
      BY <1>10, <1>11 DEF IInv, TypeOK
    <3> QED
      BY <3>1, <3>2
  <2>2. /\ byName' \in [Names -> User \cup {None}]
        /\ \A n \in Names : byName'[n] # None => byName'[n].name = n
    <3>1. byName' = [n \in Names |-> byName'[n]]
      BY <1>2 DEF CacheByName
    <3>2. \A n \in Names : /\ byName'[n] \in User \cup {None}
                           /\ byName'[n] # None => byName'[n].name = n
      BY <1>10, <1>12 DEF IInv, TypeOK
    <3> QED
      BY <3>1, <3>2
  <2>3. raced' \subseteq Ids
    BY <1>2, <1>10 DEF IInv, TypeOK, User
  <2> QED
    BY <1>2, <1>8, <1>13, <2>1, <2>2, <2>3 DEF IInv, TypeOK
<1>15. CacheInv'
  <2>1. \A u : Known(u) => Known(u)'
    BY <1>2 DEF Known
  <2>2. \A i \in Ids : byId'[i] # None => Known(byId'[i])
    BY <1>10, <1>11 DEF IInv, CacheInv
  <2>3. \A n \in Names : byName'[n] # None => Known(byName'[n])
    BY <1>10, <1>12 DEF IInv, CacheInv
  <2> QED
    BY <2>1, <2>2, <2>3 DEF CacheInv
<1>16. MapsAgree'
  <2> SUFFICES ASSUME NEW n \in Names, byName'[n] # None
               PROVE  byId'[byName'[n].id] = byName'[n]
    BY DEF MapsAgree
  <2>1. CASE \E u \in q.rows : u.name = n /\ byName'[n] = u
    <3>1. PICK u \in q.rows : byName'[n] = u
      BY <2>1
    <3>2. u.id \in Ids /\ u.id \in got
      BY <1>10 DEF User
    <3> QED
      BY <1>9, <1>11, <3>1, <3>2
  <2>2. CASE (\A u \in q.rows : u.name # n) /\ byName'[n] = byName[n]
    <3> DEFINE v == byName[n]
    <3>1. v \in User /\ v.name = n /\ Known(v) /\ byId[v.id] = v /\ v.id \in Ids
      BY <2>2 DEF IInv, TypeOK, CacheInv, MapsAgree, User
    <3>2. \A u \in q.rows : u.id # v.id
      BY <1>10, <2>2, <3>1 DEF Known
    <3> QED
      BY <1>11, <2>2, <3>1, <3>2
  <2> QED
    BY <1>12, <2>1, <2>2
<1>17. \A j : Banning(j) => Banning(j)'
  BY <1>2, <1>6 DEF Banning, At
<1>18. FreshStays
  BY <1>2, <1>13, <1>17 DEF FreshStays, Excused
<1>19. StaleOnlyByRace'
  <2> SUFFICES ASSUME NEW i \in Ids, byId'[i] # None, i \notin raced'
               PROVE  i \in Live' /\ (Excused(i)' \/ byId'[i] = Row(i)')
    BY DEF StaleOnlyByRace, Excused
  <2>1. i \in Live /\ (Excused(i) \/ byId'[i] = Row(i))
    <3>1. CASE \E u \in q.rows : u.id = i /\ byId'[i] = u
      <4>1. PICK u \in q.rows : u.id = i /\ byId'[i] = u
        BY <3>1
      <4>2. ~ q.stale
        BY <1>2, <4>1
      <4>3. Fresh(u)
        BY <1>1, <4>1, <4>2 DEF LookupInv
      <4> QED
        BY <4>1, <4>3 DEF Fresh
    <3>2. CASE i \notin got /\ byId'[i] = byId[i]
      <4>1. i \notin raced
        BY <1>2, <3>2
      <4> QED
        BY <3>2, <4>1 DEF IInv, StaleOnlyByRace, Excused
    <3> QED
      BY <1>11, <3>1, <3>2
  <2> QED
    BY <1>13, <1>18, <2>1 DEF FreshStays
<1>20. Initializing' => Initializing
  BY <1>6, <1>7 DEF Initializing
<1>21. WindowInv'
  <2> SUFFICES ASSUME Initializing', NEW i \in Ids, byId'[i] # None
               PROVE  i \in raced'
    BY DEF WindowInv
  <2>1. q.stale /\ Initializing
    BY <1>1, <1>2, <1>20 DEF LookupInv
  <2>2. raced' = raced \cup got
    BY <1>2, <2>1
  <2>3. i \in got \/ i \in raced
    BY <1>11, <2>1 DEF IInv, WindowInv
  <2> QED
    BY <2>2, <2>3
<1>22. \A x \in Reqs \ {r} : RequestInv(req[x])'
  BY <1>6, <1>13, <1>18, <1>20, OtherRequests
<1>23. \A x \in Reqs : RequestInv(req[x])'
  BY <1>7, <1>22
<1> QED
  BY <1>13, <1>14, <1>15, <1>16, <1>19, <1>21, <1>23 DEF IInv

\* A handler clears the cache; what is on its way is marked.
LEMMA ClearStep ==
  ASSUME IInv, NEW r \in Reqs, NEW p \in Request, ClearAndBecome(r, p),
         UNCHANGED <<rows, banned, named>>,
         gone \subseteq gone', gone' \subseteq allocated,
         FormField = "uid" => gone' \cap Live \subseteq banned,
         RequestInv(req[r])'
  PROVE  IInv'
<1>1. /\ \A i \in Ids : byId'[i] = None
      /\ \A n \in Names : byName'[n] = None
      /\ byId' \in [Ids -> User \cup {None}] /\ byName' \in [Names -> User \cup {None}]
      /\ raced' = {} /\ orphaned' = {}
      /\ req' = [x \in Reqs |->
                  IF x = r THEN p
                  ELSE [req[x] EXCEPT !.stale = req[x].phase = "answered"]]
  BY DEF ClearAndBecome, ClearUserCache
<1>2. CacheInv' /\ MapsAgree' /\ StaleOnlyByRace' /\ WindowInv'
  BY <1>1 DEF CacheInv, MapsAgree, StaleOnlyByRace, WindowInv
<1>3. Live' = Live /\ allocated' = allocated
  BY DEF Live, allocated
<1>4. IdsStay /\ BansStay
  BY <1>3 DEF IdsStay, BansStay
<1>5. TablesInv'
  BY <1>3 DEF IInv, TablesInv, BanApplied
<1>6. ASSUME NEW x \in Reqs \ {r} PROVE req'[x] \in Request /\ RequestInv(req[x])'
  <2>1. req[x] \in Request /\ RequestInv(req[x]) /\ LookupInv(req[x])
    BY DEF IInv, TypeOK, RequestInv
  <2>2. PICK b \in BOOLEAN : b = (req[x].phase = "answered")
    OBVIOUS
  <2>3. PICK lifted \in BOOLEAN : lifted = req[x].lifted
    BY <2>1 DEF Request
  <2>4. req'[x] = [req[x] EXCEPT !.stale = b, !.lifted = lifted]
    <3>1. req'[x] = [req[x] EXCEPT !.stale = b]
      BY <1>1, <2>2
    <3>2. [req[x] EXCEPT !.stale = b] = [req[x] EXCEPT !.stale = b, !.lifted = req[x].lifted]
      BY <2>1 DEF Request
    <3> QED
      BY <2>3, <3>1, <3>2
  <2>5. req[x].phase = "idle" => ~ lifted
    <3>1. ([Idle EXCEPT !.todo = req[x].todo]).lifted = FALSE
      BY DEF Idle
    <3>2. req[x].phase = "idle" => req[x] = [Idle EXCEPT !.todo = req[x].todo]
      BY <2>1 DEF RequestInv
    <3> QED
      BY <2>3, <3>1, <3>2
  <2>6. req[x].stale => b
    BY <2>1, <2>2 DEF LookupInv
  <2>7. (b => req[x].phase = "answered") /\ (req[x].phase = "answered" => b)
        /\ (lifted \/ ~ req[x].lifted)
    BY <2>2, <2>3
  <2> HIDE DEF IInv
  <2> QED
    BY <1>4, <2>1, <2>4, <2>5, <2>6, <2>7, OtherRequest
<1>7. req' \in [Reqs -> Request]
  <2>1. req' = [x \in Reqs |-> req'[x]]
    BY <1>1
  <2>2. req'[r] = p
    BY <1>1
  <2> QED
    BY <1>6, <2>1, <2>2
<1>8. TypeOK'
  <2>1. gone' \subseteq Ids
    BY DEF allocated
  <2> QED
    BY <1>1, <1>3, <1>7, <2>1 DEF IInv, TypeOK
<1>9. \A x \in Reqs : RequestInv(req[x])'
  BY <1>6
<1> QED
  BY <1>2, <1>5, <1>8, <1>9 DEF IInv

\* A ban whose UPDATE is done clears the cache and is acknowledged.
LEMMA FinishBanStep ==
  ASSUME IInv, NEW r \in Reqs, FinishBan(r)
  PROVE  IInv'
<1> DEFINE q == req[r]
           p == Next1(q)
<1>1. /\ q \in Request /\ q.plan \in Ahead[q.op] /\ q.op \in AllOps
      /\ LookupInv(q) /\ BanInv(q) /\ ShownInv(q)
  BY DEF IInv, TypeOK, RequestInv, Request
<1>2. /\ q.phase = "run" /\ q.plan # <<>> /\ Head(q.plan) = "updates"
      /\ q.todo = {} /\ ClearAndBecome(r, p)
      /\ gone' = IF q.lifted THEN gone ELSE gone \cup q.ids
      /\ UNCHANGED <<rows, banned, named>>
  BY DEF FinishBan, At, UnchangedDB
<1>3. q.op = "ban" /\ q.plan = <<"updates">> /\ Tail(q.plan) = <<>>
  BY <1>1, <1>2, StageOps, Tails
<1>4. /\ p \in Request /\ p.phase = "run" /\ p.plan = <<>> /\ Kept(q, p)
      /\ p.ids = q.ids /\ p.todo = {}
  BY <1>1, <1>2, <1>3, Endings
<1> HIDE DEF p
<1>5. /\ q.ids \subseteq allocated
      /\ FormField = "uid" /\ ~ q.lifted => q.ids \cap Live \subseteq banned
  BY <1>1, <1>2, <1>3 DEF BanInv
<1>6. gone \subseteq gone' /\ gone' \subseteq allocated
  BY <1>2, <1>5 DEF IInv, TablesInv
<1>7. FormField = "uid" => gone' \cap Live \subseteq banned
  BY <1>2, <1>5 DEF IInv, TablesInv, BanApplied
<1>8. req'[r] = p /\ Live' = Live /\ allocated' = allocated
  BY <1>2 DEF ClearAndBecome, Live, allocated
<1>9. RequestInv(req[r])'
  <2>1. p.users = {} /\ p.rows = {} /\ p.stale = FALSE
    BY <1>1, <1>2, <1>4 DEF LookupInv, Kept
  <2>2. LookupInv(req[r])'
    BY <1>3, <1>4, <1>8, <2>1 DEF LookupInv, Kept
  <2>3. BanInv(req[r])'
    <3>1. p.plan # <<"updates">>
      BY <1>4, WriterTails
    <3>2. FormField = "uid" => \E i \in Ids : q.ids = {i}
      BY <1>1, <1>3 DEF BanInv
    <3> QED
      BY <1>3, <1>4, <1>5, <1>8, <3>1, <3>2 DEF BanInv, Kept
  <2>4. (ShownInv(req[r]) /\ RegisterInv(req[r]))'
    BY <1>1, <1>3, <1>4, <1>6, <1>8 DEF ShownInv, RegisterInv, Kept
  <2>5. p.plan \in Ahead[p.op]
    BY <1>1, <1>4, TailAhead DEF Kept
  <2> QED
    BY <1>4, <1>8, <2>2, <2>3, <2>4, <2>5 DEF RequestInv
<1> HIDE DEF IInv
<1> QED
  BY <1>2, <1>4, <1>6, <1>7, <1>9, ClearStep

\* /initialize clears the cache before anything else.
LEMMA StartInitializeStep ==
  ASSUME IInv, NEW r \in Reqs, StartInitialize(r)
  PROVE  IInv'
<1> DEFINE q == req[r]
           n == Next1(q)
           p == [n EXCEPT !.todo = {"delete", "unban"}]
<1>1. /\ q \in Request /\ q.plan \in Ahead[q.op] /\ q.op \in AllOps
      /\ LookupInv(q) /\ ShownInv(q)
  BY DEF IInv, TypeOK, RequestInv, Request
<1>2. /\ q.phase = "run" /\ q.plan # <<>> /\ Head(q.plan) = "clear"
      /\ ClearAndBecome(r, p) /\ UNCHANGED <<rows, banned, named, gone>>
  BY DEF StartInitialize, At, UnchangedDB
<1>3. q.op = "initialize"
  BY <1>1, <1>2, WriterPlans
<1>4. q.users = {} /\ q.rows = {} /\ q.stale = FALSE
  BY <1>1, <1>2 DEF LookupInv
<1>5. n \in Request /\ n.phase = "run" /\ n.plan = Tail(q.plan) /\ Kept(q, n)
  BY <1>1, <1>2, Endings
<1>6. Tail(q.plan) \in Ahead["initialize"] /\ Tail(q.plan) # Plans.initialize
  BY <1>1, <1>2, <1>3, TailAhead, WriterTails
<1> HIDE DEF n
<1>7. /\ p \in Request /\ p.phase = "run" /\ p.plan = Tail(q.plan)
      /\ p.op = "initialize" /\ p.users = {} /\ p.rows = {} /\ p.stale = FALSE
      /\ p.todo = {"delete", "unban"} /\ p.dead = q.dead /\ p.lifted = q.lifted
  BY <1>3, <1>4, <1>5 DEF Request, Kept
<1> HIDE DEF p
<1>8. req'[r] = p
  BY <1>2 DEF ClearAndBecome
<1>9. p.lifted \/ p.dead \subseteq gone'
  BY <1>1, <1>2, <1>7 DEF ShownInv
<1>10. RequestInv(req[r])'
  BY <1>6, <1>7, <1>8, <1>9, WriterInOrder
<1>11. /\ gone \subseteq gone' /\ gone' \subseteq allocated
       /\ FormField = "uid" => gone' \cap Live \subseteq banned
  BY <1>2 DEF IInv, TablesInv, BanApplied
<1> HIDE DEF IInv
<1> QED
  BY <1>2, <1>7, <1>10, <1>11, ClearStep

\* Every step.
LEMMA NextInv == IInv /\ [Next]_vars => IInv'
<1> SUFFICES ASSUME IInv, [Next]_vars PROVE IInv'
  OBVIOUS
<1> HIDE DEF IInv
<1>1. CASE Client
  BY <1>1, SendStep DEF Client
<1>2. CASE Server
  <2>1. PICK r \in Reqs :
          \/ Lookup(r) \/ Answer(r) \/ Resume(r) \/ QueryFails(r)
          \/ SelectPosts(r) \/ SelectExists(r) \/ InsertUser(r)
          \/ \E i \in Ids : BanOne(r, i)
          \/ DeleteNewUsers(r) \/ UnbanAll(r)
          \/ StatementFails(r) \/ OtherStatementFails(r)
          \/ FinishBan(r) \/ StartInitialize(r) \/ JoinStatements(r)
          \/ BanFiftieth(r) \/ Reply(r)
    BY <1>2 DEF Server
  <2>2. CASE Lookup(r) \/ Answer(r) \/ Resume(r) \/ QueryFails(r)
    BY <2>2, LookupStep, AnswerStep, ResumeStep, QueryFailsStep
  <2>3. CASE SelectPosts(r) \/ SelectExists(r) \/ InsertUser(r)
    BY <2>3, SelectPostsStep, SelectExistsStep, InsertUserStep
  <2>4. CASE \E i \in Ids : BanOne(r, i)
    BY <2>4, BanOneStep
  <2>5. CASE DeleteNewUsers(r) \/ UnbanAll(r)
    BY <2>5, DeleteNewUsersStep, UnbanAllStep
  <2>6. CASE StatementFails(r) \/ OtherStatementFails(r)
    BY <2>6, StatementFailsStep, OtherStatementFailsStep
  <2>7. CASE FinishBan(r) \/ StartInitialize(r) \/ JoinStatements(r)
    BY <2>7, FinishBanStep, StartInitializeStep, JoinStatementsStep
  <2>8. CASE BanFiftieth(r) \/ Reply(r)
    BY <2>8, BanFiftiethStep, ReplyStep
  <2> QED
    BY <2>1, <2>2, <2>3, <2>4, <2>5, <2>6, <2>7, <2>8
<1>3. CASE UNCHANGED vars
  <2>1. UNCHANGED <<rows, banned, named, byId, byName, req, raced, orphaned, gone>>
    BY <1>3 DEF vars
  <2>2. UNCHANGED <<Live, allocated, Initializing>> /\ \A i : Row(i)' = Row(i)
        /\ (Banning(i) <=> Banning(i)')
    BY <2>1 DEF Live, allocated, Initializing, Row, Banning, At
  <2>3. \A u : /\ Known(u) <=> Known(u)'
               /\ Fresh(u) <=> Fresh(u)'
    BY <2>1, <2>2 DEF Known, Fresh, Excused
  <2>4. ASSUME NEW r \in Reqs, RequestInv(req[r]) PROVE RequestInv(req[r])'
    <3>1. LookupInv(req[r])'
      BY <2>1, <2>2, <2>3, <2>4 DEF RequestInv, LookupInv
    <3>2. (BanInv(req[r]) /\ ShownInv(req[r]) /\ RegisterInv(req[r]))'
      BY <2>1, <2>2, <2>4 DEF RequestInv, BanInv, ShownInv, RegisterInv
    <3> QED
      BY <2>1, <2>4, <3>1, <3>2 DEF RequestInv
  <2>5. CacheInv' /\ MapsAgree' /\ StaleOnlyByRace' /\ WindowInv'
    BY <2>1, <2>2, <2>3 DEF IInv, CacheInv, MapsAgree, StaleOnlyByRace, WindowInv
  <2>6. TypeOK' /\ TablesInv'
    BY <2>1, <2>2 DEF IInv, TypeOK, TablesInv, BanApplied
  <2> QED
    BY <2>4, <2>5, <2>6 DEF IInv
<1> QED
  BY <1>1, <1>2, <1>3 DEF Next

-----------------------------------------------------------------------------
(***************************************************************************)
(* The theorems.                                                           *)
(***************************************************************************)
\* The inductive invariant holds in every reachable state.
THEOREM Invariance == Spec => []IInv
BY InitInv, NextInv, PTL DEF Spec

\* The cache holds rows under their own id and name, and every request is one
\* of the program's.
THEOREM TypeCorrect == Spec => []TypeOK
<1>1. IInv => TypeOK
  BY DEF IInv
<1> QED
  BY <1>1, Invariance, PTL

\* models.ts:29-38: the two maps hold the same record of a user.
THEOREM MapsStayTogether == Spec => []MapsAgree
<1>1. IInv => MapsAgree
  BY DEF IInv
<1> QED
  BY <1>1, Invariance, PTL

\* A cached user is its row, unless the answer outlived a clear or came while
\* /initialize was changing the rows behind the cache it had cleared, or a ban
\* of the user runs, or has lost its answer.
THEOREM StalenessNeedsARace == Spec => []StaleOnlyByRace
<1>1. IInv => StaleOnlyByRace
  BY DEF IInv
<1> QED
  BY <1>1, Invariance, PTL

\* router.ts:203: if the ban form is read, no index shows a post of a user
\* whose ban was acknowledged before it was asked for and has not been lifted.
THEOREM IndexHonoursBans == ASSUME FormField = "uid" PROVE Spec => []IndexHonoursBan
<1>1. IInv => IndexHonoursBan
  BY DEF IInv, RequestInv, ShownInv, IndexHonoursBan
<1> QED
  BY <1>1, Invariance, PTL

\* If the ban form is read, an acknowledged ban is in the table.
THEOREM BansAreApplied == ASSUME FormField = "uid" PROVE Spec => []BanApplied
<1>1. IInv => BanApplied
  BY DEF IInv, TablesInv
<1> QED
  BY <1>1, Invariance, PTL

\* A name is read back as the row that has it, as a user cached in a race, or
\* when the row that was inserted has gone.
LEMMA ReadBack ==
  ASSUME IInv, NEW r \in Reqs, req[r].op = "register", req[r].plan = <<"name">>,
         NEW u \in Cached(req[r]), req[r].ids \subseteq Live
  PROVE  u.id \in req[r].ids \cup raced
<1> DEFINE q == req[r]
<1>1. /\ TypeOK /\ TablesInv /\ CacheInv /\ MapsAgree /\ StaleOnlyByRace
      /\ RegisterInv(q)
  BY DEF IInv, RequestInv
<1>2. Head(q.plan) = "name" /\ q.plan # <<>>
  BY DEF LookupStages
<1>3. u = byName[q.name] /\ u # None /\ u \in User /\ Known(u) /\ q.name \in Names
  <2>1. /\ Cached(q) = {byName[q.name]} \ {None} /\ q.name \in Names
        /\ Cached(q) \subseteq User /\ \A v \in Cached(q) : Known(v)
    BY <1>2, CachedFacts DEF LookupStages
  <2> QED
    BY <2>1
<1>4. byId[u.id] = u /\ u.name = q.name /\ u.id \in Ids
  BY <1>1, <1>3 DEF MapsAgree, TypeOK, User
<1>5. CASE u.id \notin raced
  <2>1. u.id \in Live
    BY <1>1, <1>3, <1>4, <1>5 DEF StaleOnlyByRace
  <2>2. rows[u.id] = q.name
    BY <1>1, <1>3, <1>4, <2>1 DEF TablesInv, Known
  <2>3. PICK i \in allocated : q.ids = {i} /\ named[i] = q.name
    BY <1>1 DEF RegisterInv
  <2>4. i \in Live /\ rows[i] = q.name
    BY <1>1, <2>3 DEF TablesInv
  <2> QED
    BY <1>1, <2>1, <2>2, <2>3, <2>4 DEF TablesInv
<1> QED
  BY <1>5

\* router.ts:186-189: the user a registration reads back by name is the one it
\* inserted, unless an /initialize has deleted that one or another of the name
\* was cached in a race.
THEOREM RegistrationLogsInItself == Spec => RegisterLogsInNewUser
<1>1. IInv /\ [Next]_vars =>
        [\A r \in Reqs : LogsIn(r) => \/ req'[r].me \in req[r].ids \cup raced
                                      \/ ~ (req[r].ids \subseteq Live)]_vars
  <2> SUFFICES ASSUME IInv, NEW r \in Reqs, LogsIn(r), req[r].ids \subseteq Live
               PROVE  req'[r].me \in req[r].ids \cup raced
    OBVIOUS
  <2> DEFINE q == req[r]
  <2>1. /\ Lookup(r) \/ Resume(r)
        /\ q.op = "register" /\ Head(q.plan) = "name" /\ req'[r].ok
    BY DEF LogsIn
  <2>2. /\ q \in Request /\ q.plan \in Ahead[q.op] /\ LookupInv(q) /\ RegisterInv(q)
        /\ req \in [Reqs -> Request]
    BY DEF IInv, TypeOK, RequestInv
  <2>3. q.plan # <<>>
    BY <2>1, <2>2 DEF Lookup, Resume, At, LookupInv
  <2>4. q.plan = <<"name">> /\ Head(q.plan) \in LookupStages
    BY <2>1, <2>2, <2>3, StageOps, Handlers DEF LookupStages
  <2>5. CASE Lookup(r)
    <3>1. q.phase = "run" /\ UNCHANGED <<rows, banned, named, gone>>
      BY <2>5 DEF Lookup, At, UnchangedDB
    <3>2. Complete(q) \/ req'[r] = [q EXCEPT !.users = Cached(q), !.phase = "asked"]
      BY <2>2, <2>5 DEF Lookup, Becomes
    <3>3. Complete(q)
      BY <2>1, <2>2, <2>4, <3>2 DEF RegisterInv, Request
    <3>4. PICK users : users = Cached(q)
      OBVIOUS
    <3>5. users \in SUBSET User
      BY <2>3, <2>4, <3>4, CachedFacts
    <3>6. PICK f : f = Found(q, users)
      OBVIOUS
    <3>7. req'[r] = f
      BY <2>2, <2>5, <3>3, <3>4, <3>6 DEF Lookup, Becomes
    <3>8. f.ok = q.ok \/ f.me \in {u.id : u \in users}
      BY <2>1, <2>2, <2>3, <2>4, <3>5, <3>6, FoundStep
    <3>9. ~ q.ok
      BY <2>1, <2>4, <2>2 DEF RegisterInv
    <3>10. PICK u \in users : req'[r].me = u.id
      BY <2>1, <3>7, <3>8, <3>9
    <3> QED
      BY <2>1, <2>4, <3>4, <3>10, ReadBack
  <2>6. CASE Resume(r)
    <3>1. PICK users : users = q.users \cup q.rows
      OBVIOUS
    <3>2. /\ users \in SUBSET User /\ q.users = {}
      BY <2>1, <2>2, <2>6, <3>1 DEF Resume, LookupInv, Request
    <3>3. req'[r] = Forget(Found(q, users)) /\ UNCHANGED <<rows, banned, named, gone>>
      BY <2>2, <2>6, <3>1 DEF Resume, Becomes, UnchangedDB
    <3>4. ~ req'[r].ok \/ req'[r].me \in {u.id : u \in users}
      BY <2>1, <2>3, <2>4, <3>2, <3>3, FoundRequest
    <3>5. PICK u \in q.rows : req'[r].me = u.id
      BY <2>1, <3>1, <3>2, <3>4
    <3> QED
      BY <2>1, <2>2, <2>4, <3>5 DEF RegisterInv
  <2> QED
    BY <2>1, <2>5, <2>6
<1> QED
  BY <1>1, Invariance, PTL DEF Spec, RegisterLogsInNewUser
=============================================================================
