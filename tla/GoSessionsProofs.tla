-------------------------- MODULE GoSessionsProofs --------------------------
(***************************************************************************)
(* The safety properties of GoSessions, proved for any number of browsers, *)
(* requests in flight, accounts, sessions and tokens.                      *)
(***************************************************************************)
EXTENDS GoSessions, TLAPS

-----------------------------------------------------------------------------
(***************************************************************************)
(* The inductive invariant the properties follow from.                     *)
(***************************************************************************)
\* What browser b may hold in a session, wherever a copy of it is.
SessionOf(b, vals) ==
    /\ Coherent(vals)
    /\ vals.user_id # None => /\ vals.user_id \in allocated
                              /\ rows[vals.user_id] \in authed[b] \cup {None}

StoreInv ==
    \A s \in Sids :
      IF owner[s] = None
      THEN store[s] = Empty /\ ended[s] = "open"
      ELSE SessionOf(owner[s], store[s])

CookieInv == \A b \in Browsers : cookie[b] # None => owner[cookie[b]] = b

\* What the code knows of request q at each point of its handler.
RequestInv(q) ==
    IF q.pc = "idle"
    THEN q = Idle
    ELSE /\ q.from # None
         /\ SessionOf(q.from, q.vals)
         /\ q.sid # None => owner[q.sid] = q.from
         /\ q.me # None => q.me = q.vals.user_id /\ q.op # "logout"
         /\ q.pc = "write" =>
               IF q.op \in LoginOps
               THEN q.me = None
               ELSE q.me # None /\ q.token = q.vals.csrf_token
         /\ q.pc # "reply" /\ q.op \in LoginOps => q.name # None
         /\ q.setCookie # "keep" => q.pc = "reply" /\ q.sid # None
         /\ q.setCookie = "delete" => q.op = "logout"
         /\ q.pc \in {"save", "reply"} /\ q.op = "logout" =>
               q.vals.user_id = None

\* A logout that nothing overlaps is its browser's only request, and once its
\* reply is under way the stored session has no user.
LoneLogoutInv ==
    \A r \in Reqs :
      req[r].op = "logout" /\ req[r].overlaps = {} =>
        /\ \A q \in Reqs \ {r} : req[q].from # req[r].from
        /\ req[r].setCookie = "delete" => store[req[r].sid].user_id = None

\* A session closed by such a logout is out of everybody's reach.
ClosedInv ==
    \A s \in Sids : ended[s] = "closed" => \A r \in Reqs : req[r].sid # s

IInv ==
    /\ TypeOK
    /\ Live \subseteq allocated
    /\ StoreInv
    /\ CookieInv
    /\ \A r \in Reqs : RequestInv(req[r])
    /\ LoneLogoutInv
    /\ ClosedInv
    /\ LogoutSticks

\* The seeded tables, without sessions or requests, satisfy the invariant.
LEMMA InitInv == Init => IInv
<1> SUFFICES ASSUME Init PROVE IInv
  OBVIOUS
<1> USE NoneAssumption, SeedAssumption DEF Init
<1>1. Empty \in Session /\ Idle \in Request
  BY DEF Empty, Idle, Session, Request, PCs, AllOps
<1>2. TypeOK
  BY <1>1 DEF TypeOK, Live, Issued
<1>3. Live \subseteq allocated
  BY DEF Live
<1>4. StoreInv /\ CookieInv
  BY DEF StoreInv, CookieInv
<1>5. \A r \in Reqs : RequestInv(req[r])
  BY DEF RequestInv, Idle
<1>6. LoneLogoutInv
  BY DEF LoneLogoutInv, Idle
<1>7. ClosedInv /\ LogoutSticks
  BY DEF ClosedInv, LogoutSticks
<1> QED
  BY <1>2, <1>3, <1>4, <1>5, <1>6, <1>7 DEF IInv

\* Rows may go, ids be given out, tokens be drawn and credentials be accepted:
\* what a browser holds in a session stays in order.
LEMMA SessionOfStable ==
  ASSUME TypeOK,
         \A t \in Tokens : mintedFor[t] # None => mintedFor'[t] = mintedFor[t],
         \A b \in Browsers : authed[b] \subseteq authed'[b],
         \A u \in allocated : rows'[u] \in {rows[u], None},
         allocated \subseteq allocated',
         NEW b \in Browsers, NEW vals \in Session, SessionOf(b, vals)
  PROVE  SessionOf(b, vals)'
BY NoneAssumption DEF SessionOf, Coherent, Session, TypeOK

\* A step of one request that at most changes, besides what that request
\* knows, who is banned.
LEMMA LocalStep ==
  ASSUME IInv, NEW r \in Reqs,
         UNCHANGED <<rows, allocated>>, banned' \subseteq Live,
         UnchangedSessions, UnchangedAuth,
         req' \in [Reqs -> Request],
         \A q \in Reqs \ {r} : req'[q] = req[q],
         RequestInv(req'[r]),
         \/ req'[r] = Idle
         \/ /\ req'[r].from = req[r].from
            /\ req'[r].op = req[r].op
            /\ req'[r].overlaps = req[r].overlaps
            /\ req'[r].sid \in {None, req[r].sid}
            /\ req'[r].setCookie = "keep"
  PROVE  IInv'
<1> USE NoneAssumption DEF IInv, UnchangedSessions, UnchangedAuth
<1>1. TypeOK'
  BY DEF TypeOK, Live, Issued
<1>2. (Live \subseteq allocated)'
  BY DEF Live
<1>3. (StoreInv /\ CookieInv)'
  BY DEF StoreInv, CookieInv, SessionOf, Coherent
<1>4. \A q \in Reqs : RequestInv(req[q])'
  <2>1. RequestInv(req[r])'
    BY DEF RequestInv, SessionOf, Coherent
  <2>2. ASSUME NEW q \in Reqs \ {r} PROVE RequestInv(req[q])'
    BY <2>2 DEF RequestInv, SessionOf, Coherent
  <2> QED
    BY <2>1, <2>2
<1>5. LoneLogoutInv'
  <2>1. Idle.op # "logout" /\ Idle.from = None
    BY DEF Idle
  <2>2. \A q \in Reqs : req[q].op = "logout" => req[q].from # None
    BY DEF RequestInv, Idle
  <2> QED
    BY <2>1, <2>2 DEF LoneLogoutInv
<1>6. ClosedInv' /\ LogoutSticks'
  <2>1. Idle.sid = None
    BY DEF Idle
  <2> QED
    BY <2>1 DEF ClosedInv, LogoutSticks
<1> QED
  BY <1>1, <1>2, <1>3, <1>4, <1>5, <1>6 DEF IInv

-----------------------------------------------------------------------------
(***************************************************************************)
(* The steps that only change the request.                                 *)
(***************************************************************************)
\* A session read from memcached is the browser's own, or empty.
LEMMA LoadStep == ASSUME IInv, NEW r \in Reqs, Load(r) PROVE IInv'
<1> USE NoneAssumption DEF IInv
<1> DEFINE sess == {Empty} \cup {store[s] : s \in {req[r].sid} \cap Sids}
<1>1. PICK vals \in sess :
        req' = [req EXCEPT ![r].vals = vals,
                           ![r].pc = IF req[r].op = "logout" THEN "work"
                                                             ELSE "me"]
  BY DEF Load
<1>2. Empty \in Session /\ SessionOf(req[r].from, Empty)
  BY DEF Empty, Session, SessionOf, Coherent
<1>3. req[r].pc = "load" /\ RequestInv(req[r]) /\ req \in [Reqs -> Request]
  BY DEF Load, TypeOK
<1>4. vals \in Session /\ SessionOf(req[r].from, vals)
  BY <1>1, <1>2, <1>3 DEF TypeOK, StoreInv, RequestInv, Request
<1>5. req' \in [Reqs -> Request]
  BY <1>1, <1>3, <1>4 DEF Request, PCs
<1>6. RequestInv(req'[r])
  BY <1>1, <1>3, <1>4 DEF RequestInv, Request
<1>7. /\ UNCHANGED <<rows, allocated>> /\ banned' \subseteq Live
      /\ UnchangedSessions /\ UnchangedAuth
  BY DEF Load, UnchangedTables, TypeOK
<1>8. /\ \A q \in Reqs \ {r} : req'[q] = req[q]
      /\ req'[r].from = req[r].from /\ req'[r].op = req[r].op
      /\ req'[r].overlaps = req[r].overlaps
      /\ req'[r].sid \in {None, req[r].sid} /\ req'[r].setCookie = "keep"
  BY <1>1, <1>3 DEF RequestInv, Request
<1> HIDE DEF IInv, sess
<1> QED
  BY <1>5, <1>6, <1>7, <1>8, LocalStep

\* getSessionUser finds the session's own user or nobody.
LEMMA SelectMeStep == ASSUME IInv, NEW r \in Reqs, SelectMe(r) PROVE IInv'
<1> USE NoneAssumption DEF IInv
<1>1. PICK me \in {None} \cup ({req[r].vals.user_id} \cap Live) :
        req' = [req EXCEPT ![r].me = me, ![r].pc = "work"]
  BY DEF SelectMe
<1>2. req[r].pc = "me" /\ RequestInv(req[r]) /\ req \in [Reqs -> Request]
  BY DEF SelectMe, TypeOK
<1>3. req' \in [Reqs -> Request]
  BY <1>1, <1>2 DEF Request, PCs, Live
<1>4. RequestInv(req'[r])
  BY <1>1, <1>2 DEF RequestInv, Request
<1>5. /\ UNCHANGED <<rows, allocated>> /\ banned' \subseteq Live
      /\ UnchangedSessions /\ UnchangedAuth
  BY DEF SelectMe, UnchangedTables, TypeOK
<1>6. /\ \A q \in Reqs \ {r} : req'[q] = req[q]
      /\ req'[r].from = req[r].from /\ req'[r].op = req[r].op
      /\ req'[r].overlaps = req[r].overlaps
      /\ req'[r].sid \in {None, req[r].sid} /\ req'[r].setCookie = "keep"
  BY <1>1, <1>2 DEF RequestInv, Request
<1> HIDE DEF IInv
<1> QED
  BY <1>3, <1>4, <1>5, <1>6, LocalStep

\* What is left of an answered request is a request.
LEMMA AnsweredType ==
  ASSUME req \in [Reqs -> Request], NEW r \in Reqs,
         NEW s \in Sids \cup {None}, NEW c \in {"keep", "set", "delete"}
  PROVE  [req EXCEPT ![r] =
            [Idle EXCEPT !.pc = "reply", !.from = req[r].from,
                         !.op = req[r].op, !.overlaps = req[r].overlaps,
                         !.sid = s, !.setCookie = c]] \in [Reqs -> Request]
<1>1. Idle \in Request
  BY DEF Idle, Empty, Session, Request, PCs, AllOps
<1>2. /\ req[r].from \in Browsers \cup {None} /\ req[r].op \in AllOps
      /\ req[r].overlaps \in SUBSET AllOps
  BY DEF Request
<1>3. "reply" \in PCs
  BY DEF PCs
<1>4. ASSUME NEW q \in Request, NEW b \in Browsers \cup {None},
             NEW o \in AllOps, NEW ops \in SUBSET AllOps
      PROVE  [q EXCEPT !.pc = "reply", !.from = b, !.op = o,
                       !.overlaps = ops, !.sid = s, !.setCookie = c]
               \in Request
  BY <1>3 DEF Request
<1> QED
  BY <1>1, <1>2, <1>4

\* A handler that answers without having saved.
LEMMA AnswerLocalStep ==
  ASSUME IInv, NEW r \in Reqs, req[r].pc # "idle", Answer(r),
         UNCHANGED <<rows, allocated>>, banned' \subseteq Live,
         UnchangedSessions, UnchangedAuth
  PROVE  IInv'
<1> USE NoneAssumption
<1>1. req' = [req EXCEPT ![r] =
                [Idle EXCEPT !.pc = "reply", !.from = req[r].from,
                             !.op = req[r].op, !.overlaps = req[r].overlaps,
                             !.sid = None, !.setCookie = "keep"]]
  BY DEF Answer, AnswerWith
<1>2. req \in [Reqs -> Request] /\ req[r].from # None
  BY DEF IInv, TypeOK, RequestInv
<1>3. req' \in [Reqs -> Request]
  BY <1>1, <1>2, AnsweredType
<1>4. /\ req'[r] = [Idle EXCEPT !.pc = "reply", !.from = req[r].from,
                                !.op = req[r].op, !.overlaps = req[r].overlaps,
                                !.sid = None, !.setCookie = "keep"]
      /\ \A q \in Reqs \ {r} : req'[q] = req[q]
  BY <1>1, <1>2
<1>5. RequestInv(req'[r])
  <2>1. /\ req'[r].pc = "reply" /\ req'[r].from # None /\ req'[r].vals = Empty
        /\ req'[r].sid = None /\ req'[r].me = None
        /\ req'[r].setCookie = "keep"
    BY <1>2, <1>4 DEF Idle
  <2>2. Empty.user_id = None
    BY DEF Empty
  <2> QED
    BY <2>1, <2>2 DEF RequestInv, SessionOf, Coherent
<1>6. /\ req'[r].from = req[r].from /\ req'[r].op = req[r].op
      /\ req'[r].overlaps = req[r].overlaps
      /\ req'[r].sid = None /\ req'[r].setCookie = "keep"
  BY <1>4 DEF Idle
<1> QED
  BY <1>3, <1>4, <1>5, <1>6, LocalStep

LEMMA AnswerStep ==
  ASSUME IInv, NEW r \in Reqs, req[r].pc # "idle", Answer(r),
         UnchangedTables, UnchangedSessions, UnchangedAuth
  PROVE  IInv'
<1>1. UNCHANGED <<rows, allocated>> /\ banned' \subseteq Live
  BY DEF UnchangedTables, IInv, TypeOK
<1> QED
  BY <1>1, AnswerLocalStep

\* A handler that changes its copy of the session, within what its browser
\* may hold, and goes on to save it.
LEMMA SaveWithStep ==
  ASSUME IInv, NEW r \in Reqs, NEW vals \in Session,
         req[r].pc \in {"work", "write"}, SaveWith(r, vals),
         SessionOf(req[r].from, vals),
         req[r].me # None => vals.user_id = req[r].vals.user_id,
         req[r].op = "logout" => vals.user_id = None,
         UnchangedTables, UnchangedSessions, UnchangedAuth
  PROVE  IInv'
<1> USE NoneAssumption DEF IInv
<1>1. /\ req' = [req EXCEPT ![r].vals = vals, ![r].pc = "save"]
      /\ RequestInv(req[r]) /\ req \in [Reqs -> Request]
  BY DEF SaveWith, TypeOK
<1>2. req' \in [Reqs -> Request]
  BY <1>1 DEF Request, PCs
<1>3. RequestInv(req'[r])
  BY <1>1 DEF RequestInv, Request
<1>4. UNCHANGED <<rows, allocated>> /\ banned' \subseteq Live
  BY DEF UnchangedTables, TypeOK
<1>5. /\ \A q \in Reqs \ {r} : req'[q] = req[q]
      /\ req'[r].from = req[r].from /\ req'[r].op = req[r].op
      /\ req'[r].overlaps = req[r].overlaps
      /\ req'[r].sid \in {None, req[r].sid} /\ req'[r].setCookie = "keep"
  BY <1>1 DEF RequestInv, Request
<1> HIDE DEF IInv
<1> QED
  BY <1>2, <1>3, <1>4, <1>5, LocalStep

\* A handler that goes on to its INSERT or UPDATE.
LEMMA GotoWriteStep ==
  ASSUME IInv, NEW r \in Reqs, req[r].pc = "work", Goto(r, "write"),
         IF req[r].op \in LoginOps THEN req[r].me = None ELSE MayWrite(r),
         UnchangedTables, UnchangedSessions, UnchangedAuth
  PROVE  IInv'
<1> USE NoneAssumption DEF IInv
<1>1. /\ req' = [req EXCEPT ![r].pc = "write"]
      /\ RequestInv(req[r]) /\ req \in [Reqs -> Request]
  BY DEF Goto, TypeOK
<1>2. req' \in [Reqs -> Request]
  <2>1. ASSUME NEW q \in Request
        PROVE  [q EXCEPT !.pc = "write"] \in Request
    BY DEF Request, PCs
  <2> QED
    BY <1>1, <2>1
<1>3. RequestInv(req'[r])
  BY <1>1 DEF RequestInv, Request, MayWrite
<1>4. UNCHANGED <<rows, allocated>> /\ banned' \subseteq Live
  BY DEF UnchangedTables, TypeOK
<1>5. /\ \A q \in Reqs \ {r} : req'[q] = req[q]
      /\ req'[r].from = req[r].from /\ req'[r].op = req[r].op
      /\ req'[r].overlaps = req[r].overlaps
      /\ req'[r].sid \in {None, req[r].sid} /\ req'[r].setCookie = "keep"
  BY <1>1 DEF RequestInv, Request
<1> HIDE DEF IInv
<1> QED
  BY <1>2, <1>3, <1>4, <1>5, LocalStep

\* Setting or taking the notice leaves user and token alone.
LEMMA NoticeFact ==
  ASSUME IInv, NEW r \in Reqs, req[r].pc = "work", NEW n \in BOOLEAN
  PROVE  LET vals == [req[r].vals EXCEPT !.notice = n]
         IN  /\ vals \in Session
             /\ SessionOf(req[r].from, vals)
             /\ vals.user_id = req[r].vals.user_id
<1>1. /\ req[r].vals \in Session /\ SessionOf(req[r].from, req[r].vals)
  BY DEF IInv, TypeOK, Request, RequestInv
<1> QED
  BY <1>1 DEF Session, SessionOf, Coherent

\* A handler that only leaves a notice and saves.
LEMMA NoticeStep ==
  ASSUME IInv, NEW r \in Reqs, req[r].pc = "work", req[r].op # "logout",
         Notice(r),
         UnchangedTables, UnchangedSessions, UnchangedAuth
  PROVE  IInv'
<1> DEFINE vals == [req[r].vals EXCEPT !.notice = TRUE]
<1>1. vals \in Session /\ SessionOf(req[r].from, vals)
      /\ vals.user_id = req[r].vals.user_id
  BY NoticeFact
<1>2. SaveWith(r, vals)
  BY DEF Notice
<1> HIDE DEF vals
<1> QED
  BY <1>1, <1>2, SaveWithStep

\* getFlash: the notice is taken and the session saved, or there is none.
LEMMA FlashStep ==
  ASSUME IInv, NEW r \in Reqs, req[r].pc = "work", req[r].op # "logout",
         Flash(r),
         UnchangedTables, UnchangedSessions, UnchangedAuth
  PROVE  IInv'
<1>1. CASE Answer(r)
  BY <1>1, AnswerStep
<1>2. CASE SaveWith(r, [req[r].vals EXCEPT !.notice = FALSE])
  <2> DEFINE vals == [req[r].vals EXCEPT !.notice = FALSE]
  <2>1. vals \in Session /\ SessionOf(req[r].from, vals)
        /\ vals.user_id = req[r].vals.user_id
    BY NoticeFact
  <2>2. SaveWith(r, vals)
    BY <1>2
  <2> HIDE DEF vals
  <2> QED
    BY <2>1, <2>2, SaveWithStep
<1> QED
  BY <1>1, <1>2 DEF Flash

\* The handlers and replies that change nothing but their request.
LEMMA HandlerStep ==
  ASSUME IInv, NEW r \in Reqs,
         \/ GetLogin(r) \/ GetIndex(r) \/ PostLoginFail(r) \/ PostRegister(r)
         \/ InsertOther(r) \/ PostForm(r) \/ GetLogout(r) \/ SaveFails(r)
         \/ LoseReply(r)
  PROVE  IInv'
<1>1. CASE GetLogin(r)
  BY <1>1, AnswerStep, FlashStep DEF GetLogin, At
<1>2. CASE GetIndex(r)
  BY <1>2, AnswerStep, FlashStep DEF GetIndex, At
<1>3. CASE PostLoginFail(r)
  BY <1>3, AnswerStep, NoticeStep DEF PostLoginFail, At
<1>4. CASE PostRegister(r)
  BY <1>4, AnswerStep, NoticeStep, GotoWriteStep DEF PostRegister, At, LoginOps
<1>5. CASE InsertOther(r)
  BY <1>5, AnswerStep DEF InsertOther, At
<1>6. CASE PostForm(r)
  BY <1>6, AnswerStep, NoticeStep, GotoWriteStep DEF PostForm, At, LoginOps
<1>7. CASE GetLogout(r)
  <2> DEFINE vals == LogoutVals(req[r].vals)
  <2>1. vals \in Session /\ vals.user_id = None
    BY DEF IInv, TypeOK, Request, Session, LogoutVals
  <2>2. SessionOf(req[r].from, vals)
    BY <2>1 DEF SessionOf, Coherent
  <2>3. req[r].pc = "work" /\ req[r].op = "logout" /\ SaveWith(r, vals)
        /\ UnchangedTables /\ UnchangedSessions /\ UnchangedAuth
    BY <1>7 DEF GetLogout, At
  <2>4. req[r].me = None
    BY <2>3 DEF IInv, RequestInv
  <2> HIDE DEF vals
  <2> QED
    BY <2>1, <2>2, <2>3, <2>4, SaveWithStep
<1>8. CASE SaveFails(r)
  BY <1>8, AnswerStep DEF SaveFails
<1>9. CASE LoseReply(r)
  <2> USE NoneAssumption DEF IInv
  <2>1. req' = [req EXCEPT ![r] = Idle] /\ req \in [Reqs -> Request]
    BY <1>9 DEF LoseReply, TypeOK
  <2>2. Idle \in Request
    BY DEF Idle, Empty, Session, Request, PCs, AllOps
  <2>3. RequestInv(Idle)
    BY DEF RequestInv, Idle
  <2> QED
    BY <1>9, <2>1, <2>2, <2>3, LocalStep
    DEF LoseReply, UnchangedTables, TypeOK
<1> QED
  BY <1>1, <1>2, <1>3, <1>4, <1>5, <1>6, <1>7, <1>8, <1>9

-----------------------------------------------------------------------------
(***************************************************************************)
(* The steps that change the tables.                                       *)
(***************************************************************************)
\* The UPDATEs of del_flg.
LEMMA BanStep ==
  ASSUME IInv, NEW r \in Reqs, BanUsers(r) \/ UnbanAll(r) \/ BanFiftieth(r)
  PROVE  IInv'
<1> USE NoneAssumption DEF IInv
<1>1. banned' \subseteq Live /\ UNCHANGED <<rows, allocated>>
      /\ UnchangedSessions /\ UnchangedAuth
  BY DEF TypeOK, BanUsers, UnbanAll, BanFiftieth
<1>2. req \in [Reqs -> Request] /\ RequestInv(req[r]) /\ req[r].pc # "idle"
  BY DEF TypeOK, BanUsers, UnbanAll, BanFiftieth, At
<1> HIDE DEF IInv
<1>3. CASE Answer(r)
  BY <1>1, <1>2, <1>3, AnswerLocalStep
<1>4. CASE Goto(r, "reban") /\ req[r].pc = "unban"
  <2>1. req' = [req EXCEPT ![r] = [req[r] EXCEPT !.pc = "reban"]]
    BY <1>4 DEF Goto
  <2>2. req[r] \in Request
    BY <1>2
  <2>3. [req[r] EXCEPT !.pc = "reban"] \in Request
    BY <2>2 DEF Request, PCs
  <2>4. req' \in [Reqs -> Request]
    BY <1>2, <2>1, <2>3
  <2>5. RequestInv(req'[r])
    BY <1>2, <1>4, <2>1, <2>2 DEF RequestInv, Request
  <2>6. /\ \A q \in Reqs \ {r} : req'[q] = req[q]
        /\ req'[r].from = req[r].from /\ req'[r].op = req[r].op
        /\ req'[r].overlaps = req[r].overlaps
        /\ req'[r].sid \in {None, req[r].sid} /\ req'[r].setCookie = "keep"
    BY <1>2, <1>4, <2>1, <2>2 DEF RequestInv, Request
  <2> QED
    BY <1>1, <2>4, <2>5, <2>6, LocalStep
<1>5. CASE /\ req[r].pc = "write"
           /\ \E u \in req[r].targets :
                req' = [req EXCEPT ![r].targets = @ \ {u}]
  <2>1. PICK u \in Uids :
          req' = [req EXCEPT ![r] = [req[r] EXCEPT !.targets = @ \ {u}]]
    BY <1>2, <1>5 DEF Request
  <2>2. req[r] \in Request
    BY <1>2
  <2>3. [req[r] EXCEPT !.targets = @ \ {u}] \in Request
    BY <2>2 DEF Request
  <2>4. req' \in [Reqs -> Request]
    BY <1>2, <2>1, <2>3
  <2>5. RequestInv(req'[r])
    BY <1>2, <2>1, <2>2 DEF RequestInv, Request
  <2>6. /\ \A q \in Reqs \ {r} : req'[q] = req[q]
        /\ req'[r].from = req[r].from /\ req'[r].op = req[r].op
        /\ req'[r].overlaps = req[r].overlaps
        /\ req'[r].sid \in {None, req[r].sid} /\ req'[r].setCookie = "keep"
    BY <1>2, <1>5, <2>1, <2>2 DEF RequestInv, Request
  <2> QED
    BY <1>1, <2>4, <2>5, <2>6, LocalStep
<1> QED
  BY <1>3, <1>4, <1>5 DEF BanUsers, UnbanAll, BanFiftieth, At

\* DELETE FROM users WHERE id > 1000: rows go, their ids stay given out.
LEMMA DeleteStep ==
  ASSUME IInv, NEW r \in Reqs, DeleteNewUsers(r) PROVE IInv'
<1> USE NoneAssumption DEF IInv
<1>1. /\ \A u \in Uids : rows'[u] \in {rows[u], None}
      /\ rows' \in [Uids -> Names \cup {None}]
      /\ banned' \subseteq Live'
  BY DEF DeleteNewUsers, TypeOK, Live
<1>2. UnchangedSessions /\ UnchangedAuth /\ allocated' = allocated
  BY DEF DeleteNewUsers
<1>3. /\ req \in [Reqs -> Request] /\ RequestInv(req[r])
      /\ req[r].pc = "clean" /\ req' = [req EXCEPT ![r].pc = "unban"]
  BY DEF DeleteNewUsers, Goto, TypeOK
<1>4. req' \in [Reqs -> Request]
  <2>1. ASSUME NEW q \in Request
        PROVE  [q EXCEPT !.pc = "unban"] \in Request
    BY DEF Request, PCs
  <2> QED
    BY <1>3, <2>1
<1>5. TypeOK'
  BY <1>1, <1>2, <1>4 DEF TypeOK, Issued, UnchangedSessions, UnchangedAuth
<1>6. (Live \subseteq allocated)'
  BY <1>1, <1>2 DEF Live
<1>7. ASSUME NEW b \in Browsers, NEW vals \in Session, SessionOf(b, vals)
      PROVE  SessionOf(b, vals)'
  BY <1>1, <1>2, <1>7, SessionOfStable DEF UnchangedAuth, TypeOK
<1>8. (StoreInv /\ CookieInv)'
  BY <1>2, <1>7 DEF StoreInv, CookieInv, UnchangedSessions, TypeOK
<1>9. \A q \in Reqs : RequestInv(req[q])'
  <2> TAKE q \in Reqs
  <2>1. CASE q = r
    BY <1>2, <1>3, <1>7, <2>1 DEF RequestInv, Request, UnchangedSessions
  <2>2. CASE q # r
    <3>1. req'[q] = req[q] /\ req[q] \in Request /\ RequestInv(req[q])
      BY <1>3, <2>2
    <3> QED
      BY <1>2, <1>7, <3>1 DEF RequestInv, Request, UnchangedSessions
  <2> QED
    BY <2>1, <2>2
<1>10. (LoneLogoutInv /\ ClosedInv /\ LogoutSticks)'
  BY <1>2, <1>3 DEF LoneLogoutInv, ClosedInv, LogoutSticks,
                    UnchangedSessions, Request
<1> QED
  BY <1>5, <1>6, <1>8, <1>9, <1>10 DEF IInv

\* A login or a registration: a fresh token for the account whose credentials
\* this browser gave, which the new session is of.
LEMMA CredentialsStep ==
  ASSUME IInv, NEW r \in Reqs, NEW u \in Uids, NEW t \in Tokens,
         req[r].pc \in {"work", "write"}, req[r].op \in LoginOps,
         req[r].me = None,
         mintedFor[t] = None, mintedFor' = [mintedFor EXCEPT ![t] = u],
         authed' = [authed EXCEPT ![req[r].from] = @ \cup {req[r].name}],
         SaveWith(r, LoginVals(req[r].vals, u, t)),
         UnchangedSessions,
         allocated' \subseteq Uids, allocated \subseteq allocated',
         u \in allocated',
         rows' \in [Uids -> Names \cup {None}],
         \A v \in allocated : rows'[v] = rows[v],
         rows'[u] = req[r].name,
         (Live \subseteq allocated)',
         (banned \subseteq Live)'
  PROVE  IInv'
<1> USE NoneAssumption DEF IInv
<1> DEFINE vals == LoginVals(req[r].vals, u, t)
<1>1. /\ req \in [Reqs -> Request] /\ RequestInv(req[r])
      /\ req' = [req EXCEPT ![r].vals = vals, ![r].pc = "save"]
  BY DEF SaveWith, TypeOK
<1>2. req[r].from \in Browsers /\ req[r].name \in Names
  BY <1>1 DEF RequestInv, Request, LoginOps
<1>3. vals \in Session /\ vals.user_id = u /\ vals.csrf_token = t
  BY <1>1 DEF Request, Session, LoginVals
<1> HIDE DEF vals
<1>4. req' \in [Reqs -> Request]
  <2>1. ASSUME NEW q \in Request
        PROVE  [q EXCEPT !.vals = vals, !.pc = "save"] \in Request
    BY <1>3 DEF Request, PCs
  <2> QED
    BY <1>1, <2>1
<1>5. mintedFor' \in [Tokens -> Uids \cup {None}]
      /\ authed' \in [Browsers -> SUBSET Names]
  BY <1>2 DEF TypeOK
<1>6. TypeOK'
  BY <1>4, <1>5 DEF TypeOK, Issued, UnchangedSessions
<1>7. ASSUME NEW b \in Browsers, NEW v \in Session, SessionOf(b, v)
      PROVE  SessionOf(b, v)'
  <2>1. \A p \in Tokens : mintedFor[p] # None => mintedFor'[p] = mintedFor[p]
    BY DEF TypeOK
  <2>2. \A p \in Browsers : authed[p] \subseteq authed'[p]
    BY DEF TypeOK
  <2> QED
    BY <1>7, <2>1, <2>2, SessionOfStable
<1>8. (StoreInv /\ CookieInv)'
  BY <1>7 DEF StoreInv, CookieInv, UnchangedSessions, TypeOK
<1>9. SessionOf(req[r].from, req[r].vals)'
  <2>1. /\ req'[r].from = req[r].from /\ req'[r].vals = vals
        /\ mintedFor'[t] = u /\ req[r].name \in authed'[req[r].from]
    BY <1>1, <1>2 DEF TypeOK, Request
  <2> QED
    BY <1>3, <2>1 DEF SessionOf, Coherent
<1>10. \A q \in Reqs : RequestInv(req[q])'
  <2> TAKE q \in Reqs
  <2>1. CASE q = r
    BY <1>1, <1>9, <2>1 DEF RequestInv, Request, UnchangedSessions, LoginOps
  <2>2. CASE q # r
    <3>1. req'[q] = req[q] /\ req[q] \in Request /\ RequestInv(req[q])
      BY <1>1, <2>2
    <3> QED
      BY <1>7, <3>1 DEF RequestInv, Request, UnchangedSessions
  <2> QED
    BY <2>1, <2>2
<1>11. (LoneLogoutInv /\ ClosedInv /\ LogoutSticks)'
  BY <1>1 DEF LoneLogoutInv, ClosedInv, LogoutSticks,
                    UnchangedSessions, Request, LoginOps
<1> QED
  BY <1>6, <1>8, <1>10, <1>11 DEF IInv

\* postLogin, with the right credentials.
LEMMA LoginStep == ASSUME IInv, NEW r \in Reqs, PostLoginOK(r) PROVE IInv'
<1> PICK u \in LoginRows(r), t \in Tokens \ Minted :
      /\ mintedFor' = [mintedFor EXCEPT ![t] = u]
      /\ SaveWith(r, LoginVals(req[r].vals, u, t))
  BY DEF PostLoginOK
<1>1. u \in Uids /\ rows[u] = req[r].name /\ u \in Live
  BY DEF LoginRows, Live
<1>2. /\ req[r].pc = "work" /\ req[r].op \in LoginOps /\ req[r].me = None
      /\ authed' = [authed EXCEPT ![req[r].from] = @ \cup {req[r].name}]
      /\ UNCHANGED <<rows, banned, allocated>> /\ UnchangedSessions
  BY DEF PostLoginOK, At, LoginOps, UnchangedTables
<1>3. (Live \subseteq allocated /\ banned \subseteq Live)'
  BY <1>2 DEF IInv, TypeOK, Live
<1>4. mintedFor[t] = None /\ t \in Tokens /\ u \in allocated
  BY <1>1 DEF IInv, Minted
<1> QED
  BY <1>1, <1>2, <1>3, <1>4, CredentialsStep DEF IInv, TypeOK

\* postRegister's INSERT: the id is new, and no session names it yet.
LEMMA InsertStep == ASSUME IInv, NEW r \in Reqs, InsertUser(r) PROVE IInv'
<1> USE NoneAssumption
<1> PICK u \in FreshIds, t \in Tokens \ Minted :
      /\ rows' = [rows EXCEPT ![u] = req[r].name]
      /\ allocated' = allocated \cup {u}
      /\ mintedFor' = [mintedFor EXCEPT ![t] = u]
      /\ SaveWith(r, LoginVals(req[r].vals, u, t))
  BY DEF InsertUser
<1>1. /\ req[r].pc = "write" /\ req[r].op \in LoginOps
      /\ authed' = [authed EXCEPT ![req[r].from] = @ \cup {req[r].name}]
      /\ banned' = banned /\ UnchangedSessions
  BY DEF InsertUser, At, LoginOps
<1>2. req[r].me = None /\ req[r].name \in Names
  BY <1>1 DEF IInv, TypeOK, RequestInv, Request
<1>3. u \in Uids /\ u \notin allocated /\ t \in Tokens /\ mintedFor[t] = None
  BY DEF FreshIds, Minted
<1>4. /\ rows' \in [Uids -> Names \cup {None}] /\ rows'[u] = req[r].name
      /\ \A v \in Uids \ {u} : rows'[v] = rows[v]
  BY <1>2, <1>3 DEF IInv, TypeOK
<1>5. (Live \subseteq allocated /\ banned \subseteq Live)'
  <2>1. rows \in [Uids -> Names \cup {None}] /\ Live' = Live \cup {u}
    BY <1>2, <1>3, <1>4 DEF IInv, TypeOK, Live
  <2>2. (Live \subseteq allocated /\ banned \subseteq Live)'
    BY <1>1, <2>1 DEF IInv, TypeOK
  <2> QED
    BY <2>2
<1>6. /\ allocated' \subseteq Uids /\ allocated \subseteq allocated'
      /\ u \in allocated' /\ \A v \in allocated : rows'[v] = rows[v]
  BY <1>3, <1>4 DEF IInv, TypeOK
<1> QED
  BY <1>1, <1>2, <1>3, <1>4, <1>5, <1>6, CredentialsStep

-----------------------------------------------------------------------------
(***************************************************************************)
(* The steps that change memcached and the browsers' cookies.              *)
(***************************************************************************)
\* memcached forgets a session: an empty one is in order.
LEMMA EvictStep == ASSUME IInv, NEW s \in Sids, Evict(s) PROVE IInv'
<1> USE NoneAssumption
    DEF IInv, Evict, UnchangedTables, UnchangedAuth
<1>1. Empty \in Session /\ \A b \in Browsers : SessionOf(b, Empty)
  BY DEF Empty, Session, SessionOf, Coherent
<1>2. TypeOK'
  BY <1>1 DEF TypeOK, Live, Issued
<1>3. (Live \subseteq allocated)'
  BY DEF Live
<1>4. (StoreInv /\ CookieInv)'
  <2>1. ASSUME NEW b, NEW vals, SessionOf(b, vals)
        PROVE  SessionOf(b, vals)'
    BY <2>1 DEF SessionOf, Coherent
  <2>2. store' = [store EXCEPT ![s] = Empty] /\ store \in [Sids -> Session]
    BY DEF TypeOK
  <2>3. ASSUME NEW z \in Sids, owner[z] # None PROVE SessionOf(owner[z], store'[z])
    BY <1>1, <2>2, <2>3 DEF StoreInv, TypeOK
  <2> QED
    BY <2>1, <2>2, <2>3 DEF StoreInv, CookieInv
<1>5. \A q \in Reqs : RequestInv(req[q])'
  BY DEF RequestInv, SessionOf, Coherent
<1>6. (LoneLogoutInv /\ ClosedInv /\ LogoutSticks)'
  BY DEF LoneLogoutInv, ClosedInv, LogoutSticks, Empty, TypeOK, RequestInv
<1> QED
  BY <1>2, <1>3, <1>4, <1>5, <1>6 DEF IInv

\* The forms clients send are of the request's types.
LEMMA FormFacts ==
  ASSUME NEW f \in Forms
  PROVE  /\ f.op \in AllOps /\ f.name \in Names \cup {None}
         /\ f.good \in BOOLEAN /\ f.token \in Tokens \cup {None}
         /\ f.targets \in SUBSET Uids
         /\ f.op \in LoginOps => f.name # None
<1> USE NoneAssumption DEF Form, LoginOps, AllOps
<1>1. CASE f \in {Form(op, None, TRUE, None, {}) :
                  op \in {"initialize", "getLogin", "logout", "getIndex"}}
  <2> PICK op \in {"initialize", "getLogin", "logout", "getIndex"} :
             f = Form(op, None, TRUE, None, {})
    BY <1>1
  <2>1. /\ f.op = op /\ f.name = None /\ f.good = TRUE /\ f.token = None
        /\ f.targets = {}
    OBVIOUS
  <2> QED
    BY <2>1
<1>2. CASE f \in {Form(op, n, good, None, {}) :
                  op \in LoginOps, n \in Names, good \in BOOLEAN}
  BY <1>2
<1>3. CASE f \in {Form(op, None, good, t, {}) :
                  op \in {"postIndex", "postComment"}, good \in BOOLEAN,
                  t \in Minted \cup {None}}
  BY <1>3 DEF Minted
<1>4. CASE f \in {Form("postAdminBanned", None, TRUE, t, ids) :
                  t \in Minted \cup {None}, ids \in SUBSET Uids}
  <2> PICK t \in Minted \cup {None}, ids \in SUBSET Uids :
             f = Form("postAdminBanned", None, TRUE, t, ids)
    BY <1>4
  <2>1. /\ f.op = "postAdminBanned" /\ f.name = None /\ f.good = TRUE
        /\ f.token = t /\ f.targets = ids
    OBVIOUS
  <2> QED
    BY <2>1 DEF Minted
<1> QED
  BY <1>1, <1>2, <1>3, <1>4 DEF Forms

\* A new request: it has its browser's cookie, and a logout it overlaps is no
\* longer alone.
LEMMA SendStep ==
  ASSUME IInv, NEW r \in Reqs, NEW b \in Browsers, Send(r, b) PROVE IInv'
<1>1. PICK f \in Forms :
        /\ f.op \in Ops
        /\ req' = [q \in Reqs |->
              IF q = r THEN NewRequest(f, b)
              ELSE IF q \in InFlight(b) /\ req[q].op = "logout"
              THEN [req[q] EXCEPT !.overlaps = @ \cup {f.op}]
              ELSE req[q]]
  BY DEF Send
<1> UNCHANGED <<rows, banned, allocated, store, owner, ended, cookie,
                mintedFor, authed>>
  BY DEF Send, UnchangedTables, UnchangedSessions, UnchangedAuth
<1> USE NoneAssumption, OpsAssumption DEF IInv
<1>2. req \in [Reqs -> Request] /\ req[r] = Idle
  BY DEF Send, TypeOK, RequestInv
<1>3. f.op \in AllOps /\ f.name \in Names \cup {None} /\ f.good \in BOOLEAN
      /\ f.token \in Tokens \cup {None} /\ f.targets \in SUBSET Uids
      /\ (f.op \in LoginOps => f.name # None)
  BY <1>1, OpsAssumption, FormFacts
<1>4. cookie[b] \in Sids \cup {None} /\ (cookie[b] # None => owner[cookie[b]] = b)
  BY DEF TypeOK, Issued, CookieInv
<1>5. {req[p].op : p \in InFlight(b)} \subseteq AllOps
  BY <1>2 DEF Request, InFlight
<1>6. NewRequest(f, b) \in Request
  BY <1>3, <1>4, <1>5 DEF NewRequest, Request, PCs, Empty, Session
<1>7. ASSUME NEW q \in Request PROVE [q EXCEPT !.overlaps = @ \cup {f.op}] \in Request
  BY <1>3 DEF Request
<1>8. req' \in [Reqs -> Request]
  BY <1>1, <1>2, <1>6, <1>7
<1>9. TypeOK'
  BY <1>1, <1>8 DEF TypeOK, Live, Issued
<1>10. (Live \subseteq allocated /\ StoreInv /\ CookieInv)'
  BY <1>1 DEF Live, StoreInv, CookieInv, SessionOf, Coherent
<1>11. \A q \in Reqs : RequestInv(req[q])'
  <2> TAKE q \in Reqs
  <2>1. CASE q = r
    BY <1>1, <1>3, <1>4, <2>1
    DEF NewRequest, RequestInv, SessionOf, Coherent, Empty, LoginOps
  <2>2. CASE q # r
    <3>1. /\ RequestInv(req[q]) /\ req[q] \in Request
          /\ \/ req'[q] = req[q]
             \/ /\ req[q].from = b
                /\ req'[q] = [req[q] EXCEPT !.overlaps = @ \cup {f.op}]
      BY <1>1, <1>2, <2>2 DEF InFlight
    <3>2. req[q].from = b => req[q].pc # "idle"
      BY <3>1 DEF RequestInv, Idle
    <3> QED
      BY <1>1, <3>1, <3>2 DEF RequestInv, SessionOf, Coherent, Request
  <2> QED
    BY <2>1, <2>2
<1>12. \A q \in Reqs \ {r} :
         /\ req'[q].from = req[q].from /\ req'[q].op = req[q].op
         /\ req'[q].sid = req[q].sid /\ req'[q].setCookie = req[q].setCookie
         /\ req'[q].overlaps = {} =>
              /\ req[q].overlaps = {}
              /\ ~ (req[q].from = b /\ req[q].op = "logout")
  <2> TAKE q \in Reqs \ {r}
  <2>1. /\ req[q] \in Request
        /\ req'[q] = IF req[q].from = b /\ req[q].op = "logout"
                     THEN [req[q] EXCEPT !.overlaps = @ \cup {f.op}]
                     ELSE req[q]
    BY <1>1, <1>2 DEF InFlight
  <2> HIDE DEF IInv
  <2> QED
    BY <2>1 DEF Request
<1>13. LoneLogoutInv'
  <2> SUFFICES ASSUME NEW q \in Reqs, req'[q].op = "logout",
                      req'[q].overlaps = {}
               PROVE  /\ \A p \in Reqs \ {q} : req'[p].from # req'[q].from
                      /\ req'[q].setCookie = "delete" =>
                            store'[req'[q].sid].user_id = None
    BY DEF LoneLogoutInv
  <2>1. req'[r].from = b /\ req'[r].setCookie = "keep"
    BY <1>1 DEF NewRequest
  <2>2. CASE q = r
    <3>1. {req[p].op : p \in InFlight(b)} = {}
      BY <1>1, <2>2 DEF NewRequest
    <3>2. \A p \in Reqs : req[p].from # b
      BY <3>1 DEF InFlight
    <3> QED
      BY <1>12, <2>1, <2>2, <3>2
  <2>3. CASE q # r
    BY <1>1, <1>12, <2>1, <2>3 DEF LoneLogoutInv
  <2> QED
    BY <2>2, <2>3
<1>14. (ClosedInv /\ LogoutSticks)'
  <2>1. req'[r].sid = cookie[b]
    BY <1>1 DEF NewRequest
  <2> QED
    BY <1>1, <1>4, <1>12, <2>1 DEF ClosedInv, LogoutSticks
<1> QED
  BY <1>9, <1>10, <1>11, <1>13, <1>14 DEF IInv

\* Save: the browser's own session id, or a fresh one, gets what the handler
\* holds; nothing closed is written, and a lone logout's user is gone.
LEMMA SaveStep == ASSUME IInv, NEW r \in Reqs, SaveSession(r) PROVE IInv'
<1>1. PICK s \in SaveIds(r), vals \in {req[r].vals, Empty} :
        /\ vals # req[r].vals => req[r].op = "logout"
        /\ store' = [store EXCEPT ![s] = vals]
        /\ owner' = [owner EXCEPT ![s] = req[r].from]
        /\ \/ AnswerWith(r, s, IF req[r].op = "logout" THEN "delete" ELSE "set")
           \/ AnswerWith(r, None, "keep")
  BY DEF SaveSession, Answer
<1>2. /\ req[r].pc = "save"
      /\ UNCHANGED <<rows, banned, allocated, mintedFor, authed, ended, cookie>>
  BY DEF SaveSession, UnchangedTables, UnchangedAuth
<1> USE NoneAssumption DEF IInv
<1>3. req \in [Reqs -> Request] /\ RequestInv(req[r]) /\ req[r].from \in Browsers
  BY <1>2 DEF TypeOK, RequestInv, Request
<1>4. s \in Sids /\ owner[s] \in {None, req[r].from} /\ ended[s] # "closed"
      /\ (owner[s] = None => ended[s] = "open" /\ req[r].sid = None)
  BY <1>2, <1>3 DEF SaveIds, Issued, RequestInv, Request, ClosedInv, StoreInv,
                    TypeOK
<1>5. Idle \in Request /\ Empty \in Session /\ SessionOf(req[r].from, Empty)
  BY DEF Idle, Empty, Session, Request, PCs, AllOps, SessionOf, Coherent
<1>6. /\ vals \in Session /\ SessionOf(req[r].from, vals)
      /\ req[r].op = "logout" => vals.user_id = None
  <2>1. CASE vals = Empty
    BY <1>5, <2>1 DEF Empty
  <2>2. CASE vals = req[r].vals
    BY <1>2, <1>3, <2>2 DEF RequestInv, Request
  <2> QED
    BY <1>1, <2>1, <2>2
<1>7. PICK sid \in {s, None}, sc \in {"keep", "set", "delete"} :
        /\ AnswerWith(r, sid, sc)
        /\ sc # "keep" => sid = s
        /\ sc = "delete" => req[r].op = "logout"
  BY <1>1
<1>8. req' = [req EXCEPT ![r] =
                [Idle EXCEPT !.pc = "reply", !.from = req[r].from,
                             !.op = req[r].op, !.overlaps = req[r].overlaps,
                             !.sid = sid, !.setCookie = sc]]
  BY <1>7 DEF AnswerWith
<1>9. req' \in [Reqs -> Request]
  BY <1>3, <1>4, <1>5, <1>8, AnsweredType
<1>10. /\ req'[r].pc = "reply" /\ req'[r].from = req[r].from
       /\ req'[r].op = req[r].op /\ req'[r].overlaps = req[r].overlaps
       /\ req'[r].sid = sid /\ req'[r].setCookie = sc
       /\ req'[r].vals = Empty /\ req'[r].me = None
       /\ \A q \in Reqs \ {r} : req'[q] = req[q]
  <2>1. Idle.vals = Empty /\ Idle.me = None
    BY DEF Idle
  <2>2. req'[r] = [Idle EXCEPT !.pc = "reply", !.from = req[r].from,
                     !.op = req[r].op, !.overlaps = req[r].overlaps,
                     !.sid = sid, !.setCookie = sc]
    BY <1>3, <1>8
  <2> QED
    BY <1>3, <1>5, <1>8, <2>1, <2>2 DEF Request
<1>11. TypeOK'
  <2>1. store' \in [Sids -> Session] /\ owner' \in [Sids -> Browsers \cup {None}]
    BY <1>1, <1>3, <1>6 DEF TypeOK
  <2>2. Issued \subseteq Issued'
    BY <1>1, <1>3, <1>4 DEF TypeOK, Issued
  <2> QED
    BY <1>2, <1>9, <2>1, <2>2 DEF TypeOK, Live
<1>12. (Live \subseteq allocated)'
  BY <1>2 DEF Live
<1>13. ASSUME NEW b, NEW v, SessionOf(b, v) PROVE SessionOf(b, v)'
  BY <1>2, <1>13 DEF SessionOf, Coherent
<1>14. \A z \in Sids : owner[z] # None => owner'[z] = owner[z]
  BY <1>1, <1>4 DEF TypeOK
<1>15. StoreInv'
  <2>1. /\ owner'[s] = req[r].from /\ store'[s] = vals
        /\ \A z \in Sids \ {s} : owner'[z] = owner[z] /\ store'[z] = store[z]
    BY <1>1, <1>4 DEF TypeOK
  <2>2. ASSUME NEW z \in Sids, owner'[z] # None
        PROVE  SessionOf(owner'[z], store'[z])
    BY <1>6, <2>1, <2>2 DEF StoreInv
  <2>3. ASSUME NEW z \in Sids, owner'[z] # None
        PROVE  SessionOf(owner[z], store[z])'
    BY <1>2, <2>2, <2>3 DEF SessionOf, Coherent
  <2>4. ASSUME NEW z \in Sids, owner'[z] = None
        PROVE  store'[z] = Empty /\ ended'[z] = "open"
    BY <1>2, <1>3, <2>1, <2>4 DEF StoreInv
  <2> QED
    BY <2>3, <2>4 DEF StoreInv
<1>16. CookieInv'
  BY <1>2, <1>14 DEF CookieInv, TypeOK, Issued
<1>17. \A q \in Reqs : RequestInv(req[q])'
  <2> TAKE q \in Reqs
  <2>1. CASE q = r
    <3>1. sid # None => owner'[sid] = req[r].from
      BY <1>1, <1>4, <1>7 DEF TypeOK
    <3>2. SessionOf(req[r].from, req[r].vals)' /\ req'[r].vals.user_id = None
      BY <1>10 DEF SessionOf, Coherent, Empty
    <3>3. req[r].from # None
      BY <1>3
    <3> QED
      BY <1>4, <1>7, <1>10, <2>1, <3>1, <3>2, <3>3 DEF RequestInv
  <2>2. CASE q # r
    <3>1. req'[q] = req[q] /\ RequestInv(req[q]) /\ req[q] \in Request
      BY <1>3, <1>10, <2>2
    <3> QED
      BY <1>13, <1>14, <3>1 DEF RequestInv, Request
  <2> QED
    BY <2>1, <2>2
<1>18. LoneLogoutInv'
  <2> SUFFICES ASSUME NEW q \in Reqs, req'[q].op = "logout",
                      req'[q].overlaps = {}
               PROVE  /\ \A p \in Reqs \ {q} : req'[p].from # req'[q].from
                      /\ req'[q].setCookie = "delete" =>
                            store'[req'[q].sid].user_id = None
    BY DEF LoneLogoutInv
  <2>1. \A p \in Reqs \ {q} : req'[p].from # req'[q].from
    BY <1>10 DEF LoneLogoutInv
  <2>2. CASE q = r
    BY <1>1, <1>4, <1>6, <1>7, <1>10, <2>1, <2>2 DEF TypeOK
  <2>3. CASE q # r /\ req[q].setCookie = "delete"
    <3>1. req[q].sid # s
      BY <1>3, <1>4, <1>10, <2>1, <2>3 DEF RequestInv, Idle
    <3> QED
      BY <1>1, <1>10, <2>1, <2>3, <3>1 DEF LoneLogoutInv, TypeOK
  <2> QED
    BY <1>10, <2>1, <2>2, <2>3
<1>19. ClosedInv'
  BY <1>2, <1>4, <1>7, <1>10 DEF ClosedInv
<1>20. LogoutSticks'
  BY <1>1, <1>2, <1>4 DEF LogoutSticks, TypeOK
<1> QED
  BY <1>11, <1>12, <1>15, <1>16, <1>17, <1>18, <1>19, <1>20 DEF IInv

\* The reply: a lone logout closes a session nobody else can still name.
LEMMA ReplyStep == ASSUME IInv, NEW r \in Reqs, Reply(r) PROVE IInv'
<1>1. /\ req[r].pc = "reply" /\ req' = [req EXCEPT ![r] = Idle]
      /\ UNCHANGED <<rows, banned, allocated, store, owner, mintedFor, authed>>
  BY DEF Reply, UnchangedTables, UnchangedAuth
<1> USE NoneAssumption DEF IInv
<1>2. /\ req \in [Reqs -> Request] /\ RequestInv(req[r])
      /\ req[r].from \in Browsers /\ req[r].sid \in Sids \cup {None}
  BY <1>1 DEF TypeOK, RequestInv, Request
<1>3. Idle \in Request /\ RequestInv(Idle) /\ Idle.sid = None
      /\ Idle.from = None /\ Idle.op # "logout"
  BY DEF Idle, Empty, Session, Request, PCs, AllOps, RequestInv
<1>4. PICK c \in Sids \cup {None} :
        /\ cookie' = [cookie EXCEPT ![req[r].from] = c]
        /\ c # None => owner[c] = req[r].from /\ ended[c] # "closed"
        /\ c = cookie[req[r].from] \/ req[r].setCookie # "keep"
  <2>1. CASE req[r].setCookie = "keep"
    BY <1>2, <2>1 DEF Reply, CookieInv, TypeOK, Issued, LogoutSticks
  <2>2. CASE req[r].setCookie = "set"
    BY <1>1, <1>2, <2>2 DEF Reply, RequestInv, ClosedInv
  <2>3. CASE req[r].setCookie = "delete"
    BY <1>2, <2>3 DEF Reply
  <2> QED
    BY <2>1, <2>2, <2>3 DEF Reply
<1>5. /\ ended' \in [Sids -> {"open", "closed", "raced"}]
      /\ \A s \in Sids : ended'[s] = ended[s]
           \/ /\ s = req[r].sid /\ req[r].setCookie = "delete"
              /\ ended'[s] = "closed" => req[r].overlaps = {} /\ cookie' =
                                           [cookie EXCEPT ![req[r].from] = None]
  <2>1. CASE req[r].setCookie = "delete"
    <3> DEFINE e == CASE req[r].overlaps = {} -> "closed"
                      [] req[r].overlaps \in SUBSET (AllOps \ LoginOps) \ {{}} ->
                           "raced"
                      [] OTHER -> ended[req[r].sid]
    <3>1. /\ ended' = [ended EXCEPT ![req[r].sid] = e]
          /\ cookie' = [cookie EXCEPT ![req[r].from] = None]
      BY <2>1 DEF Reply
    <3>2. req[r].sid \in Sids
      BY <1>1, <1>2, <2>1 DEF RequestInv
    <3>3. /\ e \in {"open", "closed", "raced"}
          /\ e = "closed" => req[r].overlaps = {} \/ ended[req[r].sid] = "closed"
      BY <3>2 DEF TypeOK
    <3>4. ended[req[r].sid] # "closed"
      BY <3>2 DEF ClosedInv
    <3> HIDE DEF e
    <3> QED
      BY <2>1, <3>1, <3>2, <3>3, <3>4 DEF TypeOK
  <2>2. CASE req[r].setCookie # "delete"
    BY <2>2 DEF Reply, TypeOK
  <2> QED
    BY <2>1, <2>2
<1>6. /\ \A b \in Browsers \ {req[r].from} : cookie'[b] = cookie[b]
      /\ cookie'[req[r].from] = c
      /\ \A q \in Reqs \ {r} : req'[q] = req[q]
      /\ req'[r] = Idle
  BY <1>1, <1>2, <1>4 DEF TypeOK
<1>7. TypeOK'
  <2>1. c \in Issued \cup {None}
    BY <1>2, <1>4 DEF Issued
  <2> QED
    BY <1>1, <1>2, <1>3, <1>4, <1>5, <2>1 DEF TypeOK, Live, Issued
<1>8. (Live \subseteq allocated)'
  BY <1>1 DEF Live
<1>9. StoreInv'
  BY <1>1, <1>5, <1>2 DEF StoreInv, SessionOf, Coherent, RequestInv
<1>10. CookieInv'
  BY <1>1, <1>4, <1>6 DEF CookieInv
<1>11. \A q \in Reqs : RequestInv(req[q])'
  BY <1>1, <1>3, <1>6 DEF RequestInv, SessionOf, Coherent
<1>12. LoneLogoutInv'
  BY <1>1, <1>3, <1>6 DEF LoneLogoutInv, RequestInv
<1>13. ASSUME NEW s \in Sids, ended'[s] = "closed"
       PROVE  /\ store[s].user_id = None
              /\ \A b \in Browsers : cookie'[b] # s
              /\ \A q \in Reqs : req'[q].sid # s
  <2>1. CASE ended[s] = "closed"
    BY <1>3, <1>4, <1>6, <2>1 DEF LogoutSticks, ClosedInv
  <2>2. CASE ended[s] # "closed"
    <3>1. /\ s = req[r].sid /\ req[r].setCookie = "delete"
          /\ req[r].overlaps = {} /\ req[r].op = "logout"
          /\ cookie'[req[r].from] = None /\ owner[s] = req[r].from
      BY <1>1, <1>2, <1>5, <1>13, <2>2 DEF RequestInv, TypeOK
    <3>2. store[s].user_id = None
          /\ \A q \in Reqs \ {r} : req[q].from # req[r].from
      BY <3>1 DEF LoneLogoutInv
    <3>3. \A q \in Reqs \ {r} : req[q].sid # s
      BY <3>1, <3>2 DEF RequestInv, Idle
    <3>4. \A b \in Browsers : cookie'[b] # s
      BY <1>6, <3>1 DEF CookieInv
    <3> QED
      BY <1>3, <1>6, <3>2, <3>3, <3>4
  <2> QED
    BY <2>1, <2>2
<1>14. (ClosedInv /\ LogoutSticks)'
  BY <1>1, <1>13 DEF ClosedInv, LogoutSticks
<1> QED
  BY <1>7, <1>8, <1>9, <1>10, <1>11, <1>12, <1>14 DEF IInv

\* Every step of a client or of the server preserves the invariant.
LEMMA NextInv == IInv /\ [Next]_vars => IInv'
<1> SUFFICES ASSUME IInv, [Next]_vars PROVE IInv'
  OBVIOUS
<1>1. ASSUME NEW r \in Reqs, NEW b \in Browsers, Send(r, b) PROVE IInv'
  BY <1>1, SendStep
<1>2. ASSUME NEW r \in Reqs, Handle(r) PROVE IInv'
  BY <1>2, HandlerStep, LoginStep, InsertStep, BanStep, DeleteStep DEF Handle
<1>3. ASSUME NEW r \in Reqs,
             \/ Load(r) \/ SelectMe(r) \/ SaveSession(r) \/ SaveFails(r)
             \/ Reply(r) \/ LoseReply(r)
      PROVE  IInv'
  BY <1>3, LoadStep, SelectMeStep, SaveStep, HandlerStep, ReplyStep
<1>4. ASSUME NEW s \in Sids, Evict(s) PROVE IInv'
  BY <1>4, EvictStep
<1>5. CASE UNCHANGED vars
  BY <1>5 DEF vars, IInv, TypeOK, Live, Issued, StoreInv,
     CookieInv, RequestInv, SessionOf, Coherent, LoneLogoutInv, ClosedInv,
     LogoutSticks
<1> QED
  BY <1>1, <1>2, <1>3, <1>4, <1>5 DEF Next, Client, Server

-----------------------------------------------------------------------------
(***************************************************************************)
(* The theorems.                                                           *)
(***************************************************************************)
\* The inductive invariant holds in every state the Go application can reach.
THEOREM Invariance == Spec => []IInv
BY InitInv, NextInv, PTL DEF Spec

\* Type correctness: cookies name saved sessions and del_flg belongs to a row,
\* whatever fails or is reordered.
THEOREM TypeCorrect == Spec => []TypeOK
<1>1. IInv => TypeOK
  BY DEF IInv
<1> QED
  BY <1>1, Invariance, PTL

\* Sessions and handlers hold a user only with the token of that user's login,
\* however requests overwrite each other's sessions.
THEOREM TokensCohere == Spec => []TokenCoherence
<1>1. IInv => TokenCoherence
  <2> SUFFICES ASSUME IInv PROVE TokenCoherence
    OBVIOUS
  <2> USE NoneAssumption DEF IInv
  <2>1. \A s \in Sids : Coherent(store[s])
    BY DEF StoreInv, SessionOf, Coherent, Empty
  <2>2. \A r \in Reqs : Coherent(req[r].vals)
    BY DEF RequestInv, SessionOf, Coherent, Idle, Empty
  <2> QED
    BY <2>1, <2>2 DEF TokenCoherence
<1> QED
  BY <1>1, Invariance, PTL

\* What is written for an account was asked for with that account's own token
\* by a browser that gave the account's credentials.
THEOREM WritesAreAuthorized == Spec => []WritersAuthorized
<1>1. IInv => WritersAuthorized
  BY DEF IInv, WritersAuthorized, At, RequestInv, SessionOf, Coherent, LoginOps
<1> QED
  BY <1>1, Invariance, PTL

\* No browser is taken for an account whose credentials it never gave, though
\* /initialize deletes accounts while sessions still name them.
THEOREM LoginsAreOwn == Spec => []NoForeignLogin
<1>1. IInv => NoForeignLogin
  BY NoneAssumption
  DEF IInv, NoForeignLogin, StoreInv, CookieInv, SessionOf, TypeOK, Issued
<1> QED
  BY <1>1, Invariance, PTL

\* A logout that overlaps no request of its browser is final.
THEOREM LogoutIsFinal == Spec => []LogoutSticks
<1>1. IInv => LogoutSticks
  BY DEF IInv
<1> QED
  BY <1>1, Invariance, PTL
=============================================================================
