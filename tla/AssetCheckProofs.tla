-------------------------- MODULE AssetCheckProofs --------------------------
(***************************************************************************)
(* The properties of AssetCheck, proved for any number of goroutines,      *)
(* paths, images and bodies.                                               *)
(***************************************************************************)
EXTENDS AssetCheck, TLAPS

-----------------------------------------------------------------------------
(***************************************************************************)
(* The inductive invariant the properties follow from.                     *)
(***************************************************************************)
\* The Asset of an action is right about its path, or about to learn.
AssetInv(q) ==
    /\ q.asset # None => ImageMD5[q.asset] = Content[q.path]
    /\ q.asset = None /\ q.pc # "judge" => q.own \in {None, Content[q.path]}
    /\ q.asset = None /\ q.pc = "judge" /\ q.res.status = 200
       => q.own \in {q.res.body, Content[q.path]}
    /\ q.asset = None /\ q.known => q.own = Content[q.path]
    /\ q.asset # None => q.known

\* The shared images keep the MD5 prepareUserdata gave them.
SharedUntouched == md5 = ImageMD5

\* What an action found in the cache, and what it made of its answer.
AnswerInv(q) ==
    /\ q.condition # None => q.cacheFound
    /\ q.cacheFound => q.path \in storable
    /\ q.pc \in {"received", "judge"} =>
         /\ honest => Right(q, q.res)
         /\ Stored(q.res) => q.path \in storable

IInv ==
    /\ TypeOK
    /\ HonestNeverFails
    /\ CaughtUnlessStorable
    /\ SharedUntouched
    /\ \A a \in Plays : play[a].pc # "idle" =>
                           AssetInv(play[a]) /\ AnswerInv(play[a])

\* A slot without an action.
LEMMA IdleType == Idle \in Play
BY PathsAssumption, NoneAssumption DEF Idle, Play, NoResponse, Response

\* The cache is empty and the Assets are as prepareUserdata made them.
LEMMA InitInv == Init => IInv
<1> SUFFICES ASSUME Init PROVE IInv
  OBVIOUS
<1> USE NoneAssumption, ContentAssumption, ImagesAssumption DEF Init
<1>1. TypeOK
  BY IdleType DEF TypeOK
<1>2. HonestNeverFails /\ CaughtUnlessStorable /\ SharedUntouched
  BY DEF HonestNeverFails, CaughtUnlessStorable, SharedUntouched
<1>3. \A a \in Plays : play[a].pc = "idle"
  BY DEF Idle
<1> QED
  BY <1>1, <1>2, <1>3 DEF IInv

\* What an action knows of itself, of the honesty so far and of what the
\* server ever let be stored is not undone by the others.
LEMMA OtherPlay ==
  ASSUME NEW a \in Plays, play[a].pc # "idle",
         AssetInv(play[a]), AnswerInv(play[a]), play'[a] = play[a],
         storable \subseteq storable', honest' => honest
  PROVE  (AssetInv(play[a]) /\ AnswerInv(play[a]))'
BY DEF AssetInv, AnswerInv, Right, Stored

\* A step of one action that says nothing of success.
LEMMA PlayStep ==
  ASSUME IInv, NEW a \in Plays, TypeOK',
         \A b \in Plays \ {a} : play'[b] = play[b],
         storable \subseteq storable', honest' => honest,
         HonestNeverFails', CaughtUnlessStorable', UNCHANGED md5,
         play'[a].pc # "idle" => (AssetInv(play[a]) /\ AnswerInv(play[a]))'
  PROVE  IInv'
<1>1. SharedUntouched'
  BY DEF IInv, SharedUntouched
<1>2. ASSUME NEW b \in Plays, play'[b].pc # "idle"
      PROVE  (AssetInv(play[b]) /\ AnswerInv(play[b]))'
  BY <1>2, OtherPlay DEF IInv
<1> QED
  BY <1>1, <1>2 DEF IInv

-----------------------------------------------------------------------------
\* An action starts with an Asset that is right about its path.
LEMMA SendStep ==
  ASSUME IInv, NEW a \in Plays, NEW p \in Paths, NEW i \in Images \cup {None},
         NEW own \in Bodies \cup {None}, Send(a, p, i, own)
  PROVE  IInv'
<1> USE NoneAssumption, ContentAssumption, ImagesAssumption
<1>1. PICK found \in BOOLEAN : found = (items[p] # None)
  OBVIOUS
<1>1a. PICK known \in BOOLEAN : known = (i # None \/ own # None)
  OBVIOUS
<1>2. Condition(items[p]) \in Bodies \cup {None}
  BY DEF Condition, IInv, TypeOK, URLCache
<1>3. Condition(items[p]) # None => found
  BY <1>1 DEF Condition
<1> DEFINE q == [Idle EXCEPT !.pc = "sent", !.path = p, !.asset = i,
                   !.own = own, !.known = known, !.cacheFound = found,
                   !.condition = Condition(items[p])]
<1>4. /\ q \in Play /\ q.pc = "sent" /\ q.path = p /\ q.asset = i /\ q.own = own
      /\ q.known = known
      /\ q.cacheFound = found /\ q.condition = Condition(items[p])
  BY <1>2, IdleType DEF Play
<1>5. play' = [play EXCEPT ![a] = q] /\ play \in [Plays -> Play]
  BY <1>1, <1>1a DEF Send, IInv, TypeOK
<1>6. UNCHANGED <<items, md5, honest, failed, storable, fooled>>
  BY DEF Send
<1> HIDE DEF q
<1>7. play'[a] = q /\ \A b \in Plays \ {a} : play'[b] = play[b]
  BY <1>5
<1>8. TypeOK'
  BY <1>4, <1>5, <1>6 DEF IInv, TypeOK
<1>9. HonestNeverFails' /\ CaughtUnlessStorable'
  BY <1>6 DEF IInv, HonestNeverFails, CaughtUnlessStorable
<1>10. AssetInv(play[a])'
  <2>1. /\ i = None => own \in {None, Content[p]}
        /\ i # None => ImageMD5[i] = Content[p]
    BY DEF Send, MayPlay
  <2>2. known <=> i # None \/ own # None
    BY <1>1a
  <2> QED
    BY <1>4, <1>7, <2>1, <2>2 DEF AssetInv
<1>11. AnswerInv(play[a])'
  BY <1>1, <1>3, <1>4, <1>6, <1>7 DEF AnswerInv, IInv, TypeOK
<1> QED
  BY <1>6, <1>7, <1>8, <1>9, <1>10, <1>11, PlayStep

\* An answer may be anything; if it is wrong the server is not honest.
LEMMA ReceiveStep ==
  ASSUME IInv, NEW a \in Plays, NEW res \in Response, Receive(a, res)
  PROVE  IInv'
<1> USE NoneAssumption
<1> DEFINE q == [play[a] EXCEPT !.pc = "received", !.res = res]
<1>1. play[a] \in Play /\ play \in [Plays -> Play] /\ play[a].pc = "sent"
  BY DEF Receive, IInv, TypeOK
<1>2. /\ q \in Play /\ q.pc = "received" /\ q.res = res
      /\ q.path = play[a].path /\ q.asset = play[a].asset /\ q.own = play[a].own
      /\ q.known = play[a].known
      /\ q.cacheFound = play[a].cacheFound /\ q.condition = play[a].condition
  BY <1>1 DEF Play
<1>3. play' = [play EXCEPT ![a] = q]
  BY <1>1 DEF Receive
<1>4. /\ UNCHANGED <<items, md5, failed, fooled>>
      /\ honest' = (honest /\ Right(play[a], res))
      /\ storable' = IF res.cc = "none" THEN storable
                     ELSE storable \cup {play[a].path}
  BY DEF Receive
<1> HIDE DEF q
<1>5. play'[a] = q /\ \A b \in Plays \ {a} : play'[b] = play[b]
  BY <1>1, <1>3
<1>6. play[a].path \in Paths /\ honest' \in BOOLEAN
  BY <1>1, <1>4 DEF Play
<1>7. play' \in [Plays -> Play]
  BY <1>1, <1>2, <1>3
<1>8. TypeOK'
  BY <1>4, <1>6, <1>7 DEF IInv, TypeOK
<1>9. HonestNeverFails' /\ CaughtUnlessStorable'
  BY <1>4 DEF IInv, HonestNeverFails, CaughtUnlessStorable
<1>10. AssetInv(play[a]) /\ AnswerInv(play[a])
  BY <1>1 DEF IInv
<1>11. AssetInv(play[a])'
  BY <1>1, <1>2, <1>5, <1>10 DEF AssetInv
<1>12. AnswerInv(play[a])'
  <2>1. honest' => Right(play[a], res)
    BY <1>4, ZenonT(20)
  <2>2. honest' => Right(play'[a], res)
    BY <1>2, <1>5, <2>1 DEF Right
  <2>3. Stored(res) => play[a].path \in storable'
    BY <1>4 DEF Stored
  <2> QED
    BY <1>1, <1>2, <1>4, <1>5, <1>10, <2>2, <2>3 DEF AnswerInv, Right, Stored
<1>13. storable \subseteq storable' /\ UNCHANGED md5
  BY <1>4
<1>14. honest' => honest
  BY <1>4, ZenonT(20)
<1> QED
  BY <1>5, <1>8, <1>9, <1>11, <1>12, <1>13, <1>14, PlayStep

\* A request without an answer fails, and is the server's fault.
LEMMA SendFailsStep == ASSUME IInv, NEW a \in Plays, SendFails(a) PROVE IInv'
<1>1. play' = [play EXCEPT ![a] = Idle] /\ play \in [Plays -> Play]
  BY DEF SendFails, IInv, TypeOK
<1>2. play'[a] = Idle /\ \A b \in Plays \ {a} : play'[b] = play[b]
  BY <1>1
<1>3. UNCHANGED <<items, md5, storable, fooled>> /\ honest' = FALSE /\ failed' = TRUE
  BY DEF SendFails
<1>4. TypeOK'
  BY <1>1, <1>3, IdleType DEF IInv, TypeOK
<1>5. HonestNeverFails' /\ CaughtUnlessStorable'
  BY <1>3 DEF IInv, HonestNeverFails, CaughtUnlessStorable
<1>6. play'[a].pc = "idle"
  BY <1>2 DEF Idle
<1> QED
  BY <1>2, <1>3, <1>4, <1>5, <1>6, PlayStep

\* Only an Asset of the action's own learns: the shared ones have an MD5.
LEMMA RememberStep == ASSUME IInv, NEW a \in Plays, Remember(a) PROVE IInv'
<1> USE NoneAssumption, ContentAssumption, ImagesAssumption
<1> DEFINE learnt == IF play[a].asset = None THEN Learnt(play[a].own, play[a])
                     ELSE play[a].own
           q == [play[a] EXCEPT !.pc = "judge", !.own = learnt]
<1>1. /\ play[a] \in Play /\ play \in [Plays -> Play] /\ play[a].pc = "received"
      /\ play[a].res \in Response /\ play[a].path \in Paths
  BY DEF Remember, IInv, TypeOK, Play
<1>2. learnt \in Bodies \cup {None}
  BY <1>1 DEF Learnt, Play, Response
<1>3. /\ q \in Play /\ q.pc = "judge" /\ q.own = learnt
      /\ q.path = play[a].path /\ q.asset = play[a].asset /\ q.res = play[a].res
      /\ q.known = play[a].known
      /\ q.cacheFound = play[a].cacheFound /\ q.condition = play[a].condition
  BY <1>1, <1>2 DEF Play
<1>4. play' = [play EXCEPT ![a] = q]
  BY <1>1 DEF Remember
<1> HIDE DEF q
<1>5. play'[a] = q /\ \A b \in Plays \ {a} : play'[b] = play[b]
  BY <1>1, <1>4
<1>6. UNCHANGED <<honest, failed, storable, fooled>>
  BY DEF Remember
<1>7. md5' = md5
  <2>1. md5 = ImageMD5 /\ md5 \in [Images -> Bodies]
    BY DEF IInv, SharedUntouched
  <2>2. \A i \in Images : Learnt(md5[i], play[a]) = md5[i]
    BY <2>1 DEF Learnt
  <2> QED
    BY <2>1, <2>2 DEF Remember
<1>8. AssetInv(play[a]) /\ AnswerInv(play[a])
  BY <1>1 DEF IInv
<1>9. TypeOK'
  <2> DEFINE entry == [validator |-> play[a].res.validator,
                       available |-> play[a].res.cc = "fresh"]
  <2>1. entry \in URLCache
    <3>1. PICK fresh \in BOOLEAN : fresh = (play[a].res.cc = "fresh")
      OBVIOUS
    <3>2. entry = [validator |-> play[a].res.validator, available |-> fresh]
      BY <3>1
    <3> QED
      BY <1>1, <3>2 DEF URLCache, Response
  <2> HIDE DEF entry
  <2>2. items' = IF Stored(play[a].res)
                 THEN [items EXCEPT ![play[a].path] = entry] ELSE items
    BY DEF Remember, entry
  <2>3. Stored(play[a].res) => play[a].path \in storable
    BY <1>1, <1>8 DEF AnswerInv
  <2>4. items' \in [Paths -> URLCache \cup {None}]
    BY <1>1, <2>1, <2>2 DEF IInv, TypeOK
  <2>5. \A p \in Paths \ storable' : items'[p] = None
    BY <1>1, <1>6, <2>2, <2>3 DEF IInv, TypeOK
  <2>6. play' \in [Plays -> Play]
    BY <1>1, <1>3, <1>4
  <2> QED
    BY <1>6, <1>7, <2>4, <2>5, <2>6 DEF IInv, TypeOK
<1>10. HonestNeverFails' /\ CaughtUnlessStorable'
  BY <1>6 DEF IInv, HonestNeverFails, CaughtUnlessStorable
<1>11. AssetInv(play[a])'
  BY <1>1, <1>3, <1>5, <1>8 DEF AssetInv, Learnt
<1>12. AnswerInv(play[a])'
  BY <1>1, <1>3, <1>5, <1>6, <1>8 DEF AnswerInv, Right
<1> QED
  BY <1>5, <1>6, <1>7, <1>9, <1>10, <1>11, <1>12, PlayStep

\* A right answer passes one of the two tests; a wrong one that passes came
\* with leave to store, or after an answer that did.
LEMMA JudgeStep == ASSUME IInv, NEW a \in Plays, Judge(a) PROVE IInv'
<1> USE NoneAssumption, ContentAssumption, ImagesAssumption
<1>1a. PICK learnt \in BOOLEAN : learnt = (play[a].res.status = 200 /\ ~play[a].known)
  OBVIOUS
<1> DEFINE q == play[a]
           success == NotModified(q) \/ Matches(q)
           w == [path |-> q.path, learnt |-> learnt]
<1>1. /\ q \in Play /\ play \in [Plays -> Play] /\ q.pc = "judge"
      /\ q.path \in Paths /\ q.asset \in Images \cup {None}
      /\ md5 = ImageMD5 /\ AssetInv(q) /\ AnswerInv(q)
  BY DEF Judge, IInv, TypeOK, Play, SharedUntouched
<1>2. /\ play' = [play EXCEPT ![a] = Idle]
      /\ failed' = (failed \/ ~success)
      /\ fooled' = IF success /\ Wrong(q) THEN fooled \cup {w} ELSE fooled
      /\ UNCHANGED <<items, md5, honest, storable>>
  BY <1>1a DEF Judge
<1>3. honest => success
  <2> SUFFICES ASSUME honest PROVE success
    OBVIOUS
  <2>1. Right(q, q.res)
    BY <1>1 DEF AnswerInv
  <2>2. CASE q.res.status = 304 /\ q.condition = Content[q.path]
    BY <1>1, <2>2 DEF AnswerInv, NotModified
  <2>3. CASE q.res.status = 200 /\ q.res.body = Content[q.path]
    BY <1>1, <2>3 DEF AssetInv, Matches, MD5
  <2> QED
    BY <2>1, <2>2, <2>3 DEF Right
<1>4. success /\ Wrong(q) => w.path \in storable \/ w.learnt
  <2> SUFFICES ASSUME success, Wrong(q), q.path \notin storable
               PROVE  q.res.status = 200 /\ ~q.known
    BY <1>1a
  <2>1. ~q.cacheFound /\ ~Stored(q.res)
    BY <1>1 DEF AnswerInv
  <2>2. q.res.status = 200 /\ q.res.body = MD5(q) /\ q.res.body # Content[q.path]
    BY <2>1 DEF NotModified, Matches, Wrong
  <2>3. ASSUME q.known PROVE MD5(q) = Content[q.path]
    BY <1>1, <2>3 DEF AssetInv, MD5
  <2> QED
    BY <2>2, <2>3
<1>4a. w \in Wronged
  BY <1>1, <1>1a DEF Wronged
<1> HIDE DEF success, w
<1>5. play'[a] = Idle /\ \A b \in Plays \ {a} : play'[b] = play[b]
  BY <1>1, <1>2
<1>6. TypeOK'
  <2>1. failed' \in BOOLEAN /\ fooled' \subseteq Wronged
    BY <1>1, <1>2, <1>4a DEF IInv, TypeOK
  <2> QED
    BY <1>1, <1>2, <2>1, IdleType DEF IInv, TypeOK
<1>7. HonestNeverFails' /\ CaughtUnlessStorable'
  BY <1>2, <1>3, <1>4 DEF IInv, HonestNeverFails, CaughtUnlessStorable
<1>8. play'[a].pc = "idle"
  BY <1>5 DEF Idle
<1> QED
  BY <1>2, <1>5, <1>6, <1>7, <1>8, PlayStep

\* No action looks at the cache again after it sent its request.
LEMMA ExpireStep == ASSUME IInv, NEW p \in Paths, Expire(p) PROVE IInv'
<1> USE NoneAssumption
<1>1. UNCHANGED <<md5, play, honest, failed, storable, fooled>>
  BY DEF Expire
<1>2. items[p] \in URLCache
  BY DEF Expire, IInv, TypeOK
<1>3. [items[p] EXCEPT !.available = FALSE] \in URLCache
  BY <1>2 DEF URLCache
<1>4. TypeOK'
  BY <1>1, <1>3 DEF Expire, IInv, TypeOK
<1>5. \A a \in Plays : play'[a].pc # "idle" => (AssetInv(play[a]) /\ AnswerInv(play[a]))'
  BY <1>1, OtherPlay DEF IInv
<1> QED
  BY <1>1, <1>4, <1>5 DEF IInv, HonestNeverFails, CaughtUnlessStorable, SharedUntouched

-----------------------------------------------------------------------------
\* Every step of an action and of the clock keeps the invariant.
LEMMA NextInv == ASSUME IInv, [Next]_vars PROVE IInv'
<1>1. CASE UNCHANGED vars
  BY <1>1 DEF vars, IInv, TypeOK, HonestNeverFails, CaughtUnlessStorable,
              SharedUntouched, AssetInv, AnswerInv
<1>2. ASSUME NEW a \in Plays, NEW p \in Paths, NEW i \in Images \cup {None},
             NEW own \in Bodies \cup {None}, Send(a, p, i, own)
      PROVE  IInv'
  BY <1>2, SendStep
<1>3. ASSUME NEW a \in Plays, NEW res \in Response, Receive(a, res) PROVE IInv'
  BY <1>3, ReceiveStep
<1>4. ASSUME NEW a \in Plays, SendFails(a) \/ Remember(a) \/ Judge(a) PROVE IInv'
  BY <1>4, SendFailsStep, RememberStep, JudgeStep
<1>5. ASSUME NEW p \in Paths, Expire(p) PROVE IInv'
  BY <1>5, ExpireStep
<1> QED
  BY <1>1, <1>2, <1>3, <1>4, <1>5 DEF Next

\* The invariant holds in every reachable state.
THEOREM Invariance == Spec => []IInv
<1>1. Init => IInv
  BY InitInv
<1>2. IInv /\ [Next]_vars => IInv'
  BY NextInv
<1> QED
  BY <1>1, <1>2, PTL DEF Spec

\* Every variable keeps its type, and only what the server let the client
\* store is in the cache.
THEOREM TypeCorrect == Spec => []TypeOK
<1>1. IInv => TypeOK
  BY DEF IInv
<1> QED
  BY <1>1, Invariance, PTL

\* Right answers never cost points, however goroutines share cache and Assets.
THEOREM RightAnswersCount == Spec => []HonestNeverFails
<1>1. IInv => HonestNeverFails
  BY DEF IInv
<1> QED
  BY <1>1, Invariance, PTL

\* From a server that never sends Cache-Control, wrong answers earn points only
\* where the Asset has no MD5 and learns that of the answer: in loadImages.
THEOREM WrongAnswersAreCaught == Spec => []CaughtUnlessStorable
<1>1. IInv => CaughtUnlessStorable
  BY DEF IInv
<1> QED
  BY <1>1, Invariance, PTL
=============================================================================
