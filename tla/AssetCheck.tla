----------------------------- MODULE AssetCheck -----------------------------
(***************************************************************************)
(* How the benchmarker checks images and static files                      *)
(* (src/benchmarker/checker/action.go, AssetAction.Play, and               *)
(* src/benchmarker/cache/cache.go).  Many goroutines play such actions and *)
(* share one cache of URLs, whose entries come from whatever the server    *)
(* answered whom, and the Assets of the images they upload.                *)
(*                                                                         *)
(* The server answers as it likes; honest remembers whether every answer   *)
(* so far was what HTTP and the contents of its paths call for.            *)
(***************************************************************************)
EXTENDS FiniteSets

CONSTANTS
    Paths,        \* URLs of images and static files
    Bodies,       \* bodies and their MD5s, which tell apart what differs
    Empty,        \* the empty body, that of a 304
    Content,      \* the body that belongs at each path
    Images,       \* the Assets of prepareUserdata, shared by all goroutines
    ImageMD5,     \* the MD5 prepareUserdata computed for each
    Plays,        \* slots for actions being played
    None          \* no entry, validator or MD5

ASSUME NoneAssumption == None \notin Bodies /\ Empty \in Bodies
ASSUME PathsAssumption == Paths # {}
ASSUME ContentAssumption == Content \in [Paths -> Bodies]
ASSUME ImagesAssumption == ImageMD5 \in [Images -> Bodies]

VARIABLES
    items,        \* cacheStore.items: path -> URLCache, None without an entry
    md5,          \* Asset.MD5 of the shared images
    play,         \* the actions being played
    honest,       \* history: no answer was wrong or missing so far
    failed,       \* history: some action failed
    storable,     \* history: paths the server ever let the client store
    fooled        \* history: the wrong answers that were counted

vars == <<items, md5, play, honest, failed, storable, fooled>>

\* A validator stands for the Last-Modified and ETag headers.
URLCache == [validator : Bodies \cup {None}, available : BOOLEAN]

\* cc: no Cache-Control (or no-cache, or no-store); one without a max-age that
\* lasts; one with it.
Response == [status : {200, 304, 404}, body : Bodies,
             validator : Bodies \cup {None}, cc : {"none", "stale", "fresh"}]

Play ==
    [pc : {"idle", "sent", "received", "judge"},
     path : Paths,
     asset : Images \cup {None},           \* a shared image, or an Asset of
     own : Bodies \cup {None},             \*     its own with this MD5
     known : BOOLEAN,                      \* history: its MD5 was known when
                                           \*     the request was sent
     cacheFound : BOOLEAN,
     condition : Bodies \cup {None},       \* If-Modified-Since, If-None-Match
     res : Response]

\* learnt: a 200 that was compared with the MD5 it had itself.
Wronged == [path : Paths, learnt : BOOLEAN]

NoResponse == [status |-> 404, body |-> Empty,
               validator |-> None, cc |-> "none"]
Idle == [pc |-> "idle", path |-> CHOOSE p \in Paths : TRUE, asset |-> None,
         own |-> None, known |-> FALSE, cacheFound |-> FALSE,
         condition |-> None, res |-> NoResponse]

\* Type invariant.  Besides the types: only what the server let the client
\* store is stored.
TypeOK ==
    /\ items \in [Paths -> URLCache \cup {None}]
    /\ md5 \in [Images -> Bodies \cup {None}]
    /\ play \in [Plays -> Play]
    /\ honest \in BOOLEAN
    /\ failed \in BOOLEAN
    /\ storable \subseteq Paths
    /\ fooled \subseteq Wronged
    /\ \A p \in Paths \ storable : items[p] = None

Init ==
    /\ items = [p \in Paths |-> None]
    /\ md5 = ImageMD5
    /\ play = [a \in Plays |-> Idle]
    /\ honest = TRUE
    /\ failed = FALSE
    /\ storable = {}
    /\ fooled = {}

-----------------------------------------------------------------------------
\* Asset.MD5, "" being None.
MD5(q) == IF q.asset = None THEN q.own ELSE md5[q.asset]

\* getImage of a posted image, which is the image that was uploaded; a static
\* file with the MD5 in loadAssets; an image of a page, of which loadImages
\* knows nothing.
MayPlay(path, asset, own) ==
    IF asset = None THEN own \in {None, Content[path]}
    ELSE own = None /\ ImageMD5[asset] = Content[path]

\* URLCache.Apply: conditional headers while the entry is available.
Condition(entry) ==
    IF entry # None /\ entry.available THEN entry.validator ELSE None

\* cache.Get, Apply, and the request goes out.
Send(a, path, asset, own) ==
    /\ play[a].pc = "idle"
    /\ MayPlay(path, asset, own)
    /\ play' = [play EXCEPT ![a] =
                   [Idle EXCEPT !.pc = "sent", !.path = path, !.asset = asset,
                      !.own = own, !.known = asset # None \/ own # None,
                      !.cacheFound = items[path] # None,
                      !.condition = Condition(items[path])]]
    /\ UNCHANGED <<items, md5, honest, failed, storable, fooled>>

\* What an honest server may answer: the content, or that it is not modified.
Right(q, res) ==
    /\ res.validator \in {None, Content[q.path]}
    /\ \/ res.status = 200 /\ res.body = Content[q.path]
       \/ res.status = 304 /\ q.condition = Content[q.path]

\* Nobody reads the validators of an answer that is not to be stored.
Receive(a, res) ==
    /\ play[a].pc = "sent"
    /\ res.status = 200 \/ res.body = Empty
    /\ res.cc = "none" => res.validator = None
    /\ play' = [play EXCEPT ![a].pc = "received", ![a].res = res]
    /\ honest' = (honest /\ Right(play[a], res))
    /\ storable' = IF res.cc = "none" THEN storable
                   ELSE storable \cup {play[a].path}
    /\ UNCHANGED <<items, md5, failed, fooled>>

\* SendRequest returns an error, of a timeout or another.
SendFails(a) ==
    /\ play[a].pc = "sent"
    /\ play' = [play EXCEPT ![a] = Idle]
    /\ honest' = FALSE
    /\ failed' = TRUE
    /\ UNCHANGED <<items, md5, storable, fooled>>

\* NewURLCache is nil unless the directive allows to store the answer.
AlwaysStored(res) == TRUE                       \* mutant of Stored
Stored(res) == res.cc # "none"

\* Asset.MD5 is learnt, from this very answer, if it was not known.
Overwritten(old, q) == q.res.body               \* mutant of Learnt
Learnt(old, q) ==
    IF old = None /\ (q.res.status = 200 \/ ~Stored(q.res)) THEN q.res.body
    ELSE old

\* NewURLCache, cache.Set and the Asset's MD5, whatever the status is.
Remember(a) ==
    LET q == play[a] IN
    /\ q.pc = "received"
    /\ items' = IF Stored(q.res)
                THEN [items EXCEPT ![q.path] = [validator |-> q.res.validator,
                                                available |-> q.res.cc = "fresh"]]
                ELSE items
    /\ md5' = [i \in Images |-> IF i = q.asset THEN Learnt(md5[i], q) ELSE md5[i]]
    /\ play' = [play EXCEPT ![a].pc = "judge",
                            ![a].own = IF q.asset = None THEN Learnt(@, q) ELSE @]
    /\ UNCHANGED <<honest, failed, storable, fooled>>

\* The two conditions of success.
StillAvailable(q) ==                            \* mutant of NotModified
    /\ q.res.status = 304
    /\ q.cacheFound
    /\ items[q.path] # None /\ items[q.path].available
NotModified(q) == q.cacheFound /\ q.res.status = 304

Matches(q) == q.res.status = 200 /\ (Stored(q.res) \/ q.res.body = MD5(q))

\* Not the content of the path, or a 304 that no condition asked for.
Wrong(q) ==
    \/ q.res.status = 200 /\ q.res.body # Content[q.path]
    \/ q.res.status = 304 /\ q.condition = None

Judge(a) ==
    LET q == play[a]
        success == NotModified(q) \/ Matches(q) IN
    /\ q.pc = "judge"
    /\ play' = [play EXCEPT ![a] = Idle]
    /\ failed' = (failed \/ ~success)
    /\ fooled' = IF success /\ Wrong(q)
                 THEN fooled \cup {[path |-> q.path,
                                    learnt |-> q.res.status = 200 /\ ~q.known]}
                 ELSE fooled
    /\ UNCHANGED <<items, md5, honest, storable>>

\* time.Now passes ExpiresAt.
Expire(p) ==
    /\ items[p] # None /\ items[p].available
    /\ items' = [items EXCEPT ![p].available = FALSE]
    /\ UNCHANGED <<md5, play, honest, failed, storable, fooled>>

Next ==
    \/ \E a \in Plays :
        \/ \E p \in Paths, i \in Images \cup {None}, own \in Bodies \cup {None} :
            Send(a, p, i, own)
        \/ \E res \in Response : Receive(a, res)
        \/ SendFails(a) \/ Remember(a) \/ Judge(a)
    \/ \E p \in Paths : Expire(p)

Spec == Init /\ [][Next]_vars

-----------------------------------------------------------------------------
\* A server that answers what HTTP calls for loses no points, whatever it says
\* of caching and however entries expire or are replaced by other goroutines
\* between a request and its answer.
HonestNeverFails == honest => ~failed

\* A wrong 200, or a 304 that was not asked for, counts only at a path for
\* which the server has sent a Cache-Control that allows to store it; except
\* that loadImages (scenario.go:29-35), which knows no MD5, takes any 200: its
\* Asset learns the MD5 of the very answer it is compared with.
CaughtUnlessStorable ==
    \A w \in fooled : w.path \in storable \/ w.learnt
=============================================================================
