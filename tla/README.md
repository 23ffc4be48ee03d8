# private-isu in TLA+

Specifications of private-isu: a photo-sharing web application, implemented
several times over, the benchmarker that loads and judges it, and the portal that
runs the benchmarker for the teams of a contest.  Each module is translated from
the code under `src/`; `PROJECT.json` names, for every definition, the lines it
stands for.

## 1. The system

| Part | Source | State it keeps | Operations |
|---|---|---|---|
| Go web application | `webapp/golang/app.go` | none of its own: MySQL (`users`, `posts`, `comments`) and memcached (sessions) | one handler per route (`main`, 853-872), `dbInitialize` |
| Node web application | `webapp/node/src/*.ts` | two maps of cached users (`models.ts:26-27`), image files, access statistics; MySQL and memcached as above | handlers (`router.ts`), `sessionMiddleware`, `clearUserCache` |
| Ruby, Python, PHP web applications | `webapp/{ruby,python,php}` | none of their own | the same handlers |
| Benchmarker | `benchmarker/` | score and failure log (`score/`), asset cache (`cache/`), one channel of tokens for each kind of scenario (`cli.go`) | `Run`, scenarios, the three `Play` methods |
| Portal | `portal/app` | jobs and scores | enqueue a job, `BenchmarkerJob#perform` |
| Migrations and scripts | `scripts/` | indexes of the database | `apply_migrations.sh`; the others measure |
| Seed and provisioning | `benchmarker/sql`, `benchmarker/userdata`, `provisioning`, `ansible_old` | | |

How they interact.  A browser, or the benchmarker acting as several, sends HTTP
requests with its session cookie.  Every request is a goroutine (Go) or an async
handler (Node) and makes its own calls to memcached and MySQL, without
transactions and without waiting for other requests.  `/initialize` puts the
database back to its seed while the process, its sessions and its caches go on.
The benchmarker calls `/initialize`, plays every scenario once, then keeps a
bounded number of scenarios going until its time is up, and prints a report that
the portal stores.

What is hard, and the properties that make each part correct:

* **Sessions (Go).**  A session is loaded once per request and saved whole, so
  requests of one browser overwrite each other's; saves fail, replies are lost,
  memcached forgets.  Session, user and CSRF token must stay those of one login;
  a write must carry the token of the account it is written for; a browser must
  not become an account whose credentials it never gave; a logout must last.
* **Accounts (Go).**  Two registrations pass the same check; `/initialize` deletes
  accounts behind sessions that name them.
* **Timeline (Go).**  A page is put together from one SELECT after the other, while
  others post, comment, ban and initialize.  A banned user's posts must not be shown,
  what was acknowledged must be on the next page, a page must agree with itself.
* **User cache (Node).**  Rows arrive in the cache later than MySQL read them, and
  clears come in between; `/initialize` clears the cache first, deletes and unbans after
  that, and may be answered before it has finished.  The two maps must agree; what is
  stale, and why, must be known; whom a registration logs in too; a ban must show.
* **Sessions (Node).**  Loaded before the handler and saved whole after it, if they
  were written to; errors of memcached are logged and forgotten.  What a browser signed
  in to must last, and so must its logout.
* **Images (Node).**  Files beside the table, opened, cut and written with readers,
  other writers and `/initialize` in between.  What is served must be what was uploaded, and
  when it is not all of it must be known.
* **Benchmark run.**  Goroutines share a score and a log, locked one by one, with a
  report that does not wait for them.  Tokens must be conserved, the report must be
  coherent, a pass must mean a clean pre-check, and every run must end.
* **Asset cache and checks.**  Goroutines share cached validators and MD5 sums.  A right
  answer must not cost points; which wrong ones earn any must be known.

`PROJECT.json` lists the hazards at their lines with the properties that cover them,
or the reason why none does.

## 2. Modules

| Module | Models | |
|---|---|---|
| `GoSessions` | accounts, sessions and cookies of the Go application | checked, proved |
| `Moderation` | what a ban promises to readers, abstractly | refined by `GoTimeline` |
| `GoTimeline` | posts, comments and pages of the Go application | checked, proved |
| `NodeUsers` | the user cache of the Node application and its readers | checked, proved |
| `NodeSessions` | the session middleware of the Node application | checked, proved |
| `NodeImages` | uploaded images and their files in the Node application | checked, proved |
| `BenchRun` | one run of the benchmarker | checked, proved |
| `AssetCheck` | the benchmarker's URL cache and its check of images and static files | checked, proved |
| `GoSessionsProofs`, `GoTimelineProofs`, `GoPagesProofs`, `NodeUsersProofs`, `NodeSessionsProofs`, `NodeImagesProofs`, `BenchRunProofs`, `AssetCheckProofs` | the inductive invariants and the theorems | |
| `MC...` | bounded instances for TLC | |

### GoSessions

State.  `rows`, `banned` and `allocated` are the table `users` (names, `del_flg`,
AUTO_INCREMENT); `store` is memcached; `cookie` the cookie jars; `req` the
requests in flight, each with the session it loaded (`vals`), the user it
selected (`me`) and its program counter.  `owner`, `ended`, `mintedFor` and
`authed` are history: whose session an id was, how it was logged out, for whom a
token was drawn, which credentials a browser gave.

Actions.  A handler is cut at its calls to memcached and MySQL, since other
requests run in between: `Load` (`getSession`), `SelectMe` (`getSessionUser`),
the handler's checks and statements (`PostLoginOK`, `PostRegister`, `InsertUser`,
`PostForm`, `BanUsers`, `DeleteNewUsers` ...), `SaveSession` or `SaveFails`, and
`Reply` or `LoseReply`.  Each call may fail, the way the code takes it: an error of
the session's load is an empty session, one of `SELECT 1` a free name, one of `Save`
nothing at all.  `Evict` is memcached's.  Every handler of `main` that reads a
session to change something is an action; `getIndex` and `getLogin` stand for the
pages, as `getFlash` makes them save.  `/register` is the same as `/login` on GET.

Left out: what posts and comments hold, passwords other than right or wrong, and
MySQL connections.  Session ids and tokens are drawn fresh (`crypto/rand`).

### GoTimeline and Moderation

State.  `users`, `banned`, `posts` and `comments` are the tables, as the sets of ids with
a row; `postOf` and `commentOf` the rows themselves, which outlive their deletion so
that properties can still speak of them; `given` is AUTO_INCREMENT, `now` the clock of
`created_at`, which has seconds, so that rows may tie.  A request holds the posts
selected, the one `makePosts` is at (`entry`), the page so far and its program counter.

Actions.  A handler is cut at its statements.  A page is `SelectOwner` (for
`/@name`), `SelectPosts`, then for each post `CountComments`, `SelectComments`, one
`SelectCommenter` for each comment and `SelectAuthor`, which shows the post or
skips it and stops at `PostsPerPage`; then `CountUser` and `SelectMe`.  A ban is one
`BanOne` after the other, any of which may fail unnoticed, and `EndBan`; `/initialize` is
`DeleteUsers`, `DeletePosts`, `DeleteComments`, `UnbanAll`, `BanFiftieth` in this order, any of
which may be lost (`StatementFails`).  Writers are the INSERTs of `postRegister`, `postIndex`
and `postComment`; who may write is the subject of `GoSessions`.

History.  `acked` (posts and comments whose writer was answered), `dead` (users whose
ban was acknowledged with all its updates), `torn` (an `/initialize` met a write in
flight or lost a statement).  A request remembers what held from before it was sent:
`due` and `dead`, what was acknowledged then and still stands; `hidden`, who was banned
all the time; `flicker`, who was banned at some time; `purged`, that comments were
deleted; `alone`, that an `/initialize` met no write.

`Moderation` knows only readers and bans: whoever is banned from before a page is asked
for until it is served is not on it.  `GoTimeline` implements it under the mapping
`Reader`, in which a request for a page is a reader that waits until the page is
served; `Moderated` is the abstract specification, a PROPERTY of the run and a theorem.

### NodeUsers

JavaScript runs a handler up to its next `await`.  A handler is a plan of stages
(`Plans`): lookups through the cache, and statements.  `Lookup` finds everything
in the cache or asks MySQL; `Answer` is the moment MySQL reads the rows; `Resume`
that of `cacheUser`, when the handler goes on.  A ban runs its UPDATE (`BanOne`), then
`FinishBan` clears the cache.  `/initialize` clears first (`StartInitialize`), runs its
statements side by side (`DeleteNewUsers`, `UnbanAll`), then `BanFiftieth`, and clears
nothing after that.  Everything may overlap it, another `/initialize` included: nothing in
the code excludes that.  If a statement fails (`StatementFails`, `OtherStatementFails`), the handler
throws and replies, while the statements it has sent go on: they stay in the slot's `todo`
until they are done, and the slot is not used again before.

History.  `raced` are the cached users whose row MySQL read before the last clear, or while
an `/initialize` that had cleared had statements to run (`Initializing`); `orphaned` the
users of a ban whose UPDATE ran and whose clear will not; `gone` the users whose
ban was acknowledged; a request's `lifted` says that an `/initialize` lifted the bans since
it was sent.

The images `/initialize` removes and prewarms after the statements are in `NodeImages`.
A page's commenters are represented by one user at a time.  `FormField` is the
field a ban form uses: `uid[]` in `views/banned.ejs` and in the benchmarker, `uid` in
what `router.ts:363` reads, of which `parseBody` keeps the last one: a ban by `uid` has one
UPDATE at most.

### NodeSessions

One browser's view: `store` is memcached, `cookie` the browser's cookie, `req` the requests
in flight with the session each loaded and whether the Proxy saw it change.  A request
is `LoadFound`, `LoadMissing` or `LoadFails` (`sessionMiddleware` up to `next()`), one step of its
handler (`Render`, `SignIn`, `Notice`, `Write`, `Logout`, `LeaveAlone`: the session object is the
request's own, so what the handler awaits in between does not matter to it), `Save` or
`SaveFails` if it is dirty, and `Reply` or `LoseReply`.  `Evict` is memcached's.  Static files go
through the middleware as well (`app.ts:132-134`), and so get sessions.

`expect` and `ended` are history: the user the browser may rely on being, and the session
ids it may rely on being logged out.  A sign-in or a logout counts if nothing disturbed it:
no other request changed the session or the cookie while it ran, and its own call to
memcached worked.  The requests in flight when it is answered are `old`; what an old one
writes afterwards withdraws the expectation, for it may be from before.  Nothing else does
but memcached itself (an error of `get`, an eviction) and the browser's next sign-in or logout.

### NodeImages

`posts` is the table, `files` the directory: a file has an image, and is `whole` or cut short.
`GetImage` reads the file (`ReadFile`) or, without one, selects the row and writes the file;
`InsertPost` writes it after the row; `/initialize` is `DeletePosts`, `ClearImageCache`,
`WarmImageCache` and a file for each row selected.  `writeFile` is `OpenFile`, which cuts the
file to nothing, and `CloseFile`, with anything in between; `hold` says whether another writer
cut the file since, or `rm` took its name away.  Every call may fail (`OpenFails`, `WriteFails`,
`ClearFails`, `StatementFails`, `WarmFails`), `Promise.all` in `dbInitialize` may give up while the
DELETE goes on (`DeleteFails`, `StrayDelete`), and the process may die and be started again
(`Crash`).  `uploaded`, `acked`, `broken`, `unclean`, a file's `late` and an answer's `writing`
(the file was being written when it was read) are history.

Left out: the answer to `/image/0.*`, which is always empty, who may upload
(`NodeSessions`), and reads that see a file change while they read it: what they miss
is missing from the file at some moment of the read, at which a read in one step misses it too.

### BenchRun

`phase` is where `Run` has come to, `crew` what each goroutine is playing (a plan
of scenarios, each a sequence of requests), `tokens` the channels, `score`,
`sucesses`, `fails` and `errs` package `score`, `rep` and `msgs` the report.
A request succeeds (`Succeed`, and `SucceedAgain` for the second score of a POST or
an upload) or fails: `Fail` counts and `LogFailure` logs, in two steps, since they
take two locks.  The report is put together by `Log`, `Sort`, `Collect`, `ReadScore`,
`ReadSucesses` and `ReadFails`, while goroutines go on.  `sort.torn` says that a
failure was logged while the log was being sorted without its lock: the swaps
go to the array the sort began with and may be lost or doubled, so the sorted part
may hold any of its entries.

`banScenario` ends with the registration, as the code does: it tests `imageURLs`
(532) before it plays the upload that fills it.

Left out: words torn by a racing read of a slice header, the content of pages and
assets (a request may fail with any message), `-version`, a target that does not
parse, and `setupInitialize`'s `NewRequest` error, which the parsed target cannot
cause.  The fixed messages of a run that stops before its pre-check are `msgs = {}`.

### AssetCheck

`items` is the cache all goroutines share, `md5` what the Assets of the uploaded images hold,
`play` the actions being played.  `Send` reads the cache and puts its validator into the
request while the entry is available; `Receive` is any answer (status, body, validator,
Cache-Control) of a server about which nothing is assumed, and `honest` remembers whether
all were right; `Remember` stores the answer and learns an MD5, `Judge` counts or fails.
`Expire` is the clock.  A body stands for its MD5, a validator for Last-Modified and ETag.

`loadAssets` and the uploads give their Assets an MD5, `loadImages` gives each image an
empty Asset of its own, so no goroutine writes an Asset another one reads: `MayPlay` says so.
Such an empty Asset learns the MD5 of the answer before it is compared with it (`Learnt`), so any
200 counts there.  `known`, a request's history, tells whether there was an MD5 to compare
with; `fooled` collects the wrong answers that counted, each with its path and
whether it was taken for its own MD5 (`learnt`).  The promise that remains, `CaughtUnlessStorable`,
is about all wrong answers, and names both exceptions.

## 3. What TLC checks

| Run | Question | States |
|---|---|---|
| `accounts` | Two browsers race registrations, logins and `/initialize`: is no browser ever taken for another's account? | 0.9 M |
| `sessions` | One browser overlaps four of all its requests: do user and token stay together, are writes authorized, is a logout final? | 4.5 M |
| `logout` (violation) | Does a logout last when a page was loading? | |
| `timeline` | Pages overlap posts, comments, registrations, bans and an `/initialize` that may lose statements: is what was acknowledged on the next page, does a page agree with itself, does `GoTimeline` implement `Moderation`? | 1.6 M |
| `node_users` | Readers, logins and registrations overlap bans and `/initialize`, which may go on after its reply: do the maps agree, why is a user stale, does the index honour the ban, who is logged in? | 0.9 M |
| `node_ban_race` (violation) | Is an acknowledged ban honoured at once? | |
| `node_ban_form` (violation) | Does the form of `banned.ejs` ban anybody? | |
| `node_sessions` | One browser overlaps requests of every kind over a memcached that may fail: does a sign-in last, and a logout? | 0.9 M |
| `node_images` | Uploads, readers, `/initialize` and crashes share files: is what is served what was uploaded, when is it, or a file, cut short, when is a file left behind? | 2.3 M |
| `bench_load` | Scenarios go on while the report is put together: is it coherent, is a pass a clean one, is a token ever lost? | 2.7 M |
| `bench_ends` | Does every run report, and name every message once? | 0.6 M |
| `asset_check` | Goroutines share cache and Assets before any server: does a right answer ever fail, which wrong ones count? | 5.6 M |

Bounds, and why they are enough.

* `Reqs` has two slots and `MaxSent` is three or four: a race needs two requests that
  overlap, and a third that was sent before (a login to be logged out of) or after (a
  page that shows what came of it).  Slots are used again.  `node_images` has three: two
  writers of one file, and an `/initialize` that takes it away from both.
* Two names and two ids suffice for a wrong account to differ from a right one;
  `accounts` and `node_users` have a third id (and `accounts` a third name) for an
  account registered after a deleted one.  Two session ids and two tokens: the
  one a login replaces and the new one; `node_sessions` has a third session id, since
  requests without a session each generate one.
* `timeline` has two posts and one comment beside the seed's, a page of two posts and
  one comment below each: pages that are full and that are not.  Users may be seeded,
  seeded and banned, or new.  `MaxNow` is one, so rows tie and do not.
* `node_images` has a seeded post and a new one, and two images, so that a file may
  belong to a deleted post; with the id given out twice it would be served for another.
* `Fiftieth` is empty where `/initialize` is not offered.
* `MaxLoad` bounds the goroutines started and the repeated images, pages and comments;
  `MaxFails` the failures.  `MaxFails` is three in `bench_ends` so that a log can hold
  two equal messages and another.  The two goroutines of `bench_load` outnumber the one
  token of the comment and of the ban scenarios.
* `asset_check` has one URL: the cache and the properties treat URLs alike, and the one
  image they could share is already played twice.  It has no bound on the actions
  played.
* Errors are ordered by number, as the log sorts strings; `Exceptions` cost 20 and
  the others 10.

Symmetry is used only without liveness, over slots, session ids, tokens, browsers and
goroutines, which nothing orders.  The runs of the web applications stop after
`MaxSent` requests, so deadlock is not checked there; those of the benchmarker check
it, `Exited` being the only state a run may stay in.

Fairness.  The web applications' specifications have none: nothing there is
promised to happen.  `BenchRun` assumes that `/initialize` is answered or times out
(`InitializeTimeout` on its client), that the main goroutine goes on, its
requests having a timeout of ten seconds (`session.go:46`), that a page has finitely
many images (strong fairness of `Enough`, which `More` may delay), and that `select`, which
chooses among ready cases at random, chooses the timeout in the end.  Scenarios of the
load phase need not make progress: `RunReports` holds although each may hang.

Every property of a passing run has a mutant: a plausible slip of the code (a
token kept over a login, a counter not incremented, one map not cleared), under
which TLC finds the property violated.

## 4. What the code does otherwise than it is documented

* **A logout can be undone** (`logout`).  A page that loaded the session before the
  logout saves its copy afterwards, and its `Set-Cookie` brings the cookie back.
* **A ban can be forgotten** (`node_ban_race`).  A row selected before the ban is
  cached after the clear; page, post pages and login of the banned user work until
  the next clear.  The index is safe, because it joins `del_flg` (`node_users`).
* **The ban form bans nobody** (`node_ban_form`).  It sends `uid[]`, the handler
  reads `uid`.  (The race above therefore needs a client that posts `uid`.)

Others were read off the code and have no run of their own.

* `manual.md:215-218` voids the score if a DOM element is missing or if the response to
  `/initialize` does not end within ten seconds; the first costs ten points once the
  pre-check is over (`cli.go:197`), and of the second the headers are enough
  (`cli.go:259-266`).
* The comment at `action.go:188` accepts a 304 if the cache is valid; the code accepts
  it if there was an entry, which may have expired (`HonestNeverFails` shows what would go
  wrong if it did not).
* Posted images are compared with the upload (`scenario.go:327`, `action.go:193`) and must be
  there at once (`public_manual.md:47`).  The Node application answers a file that is
  being written, or that a full disk or a crash has cut short, with a 200
  (`router.ts:312-315`), and goes on doing so in the second case until `/initialize`.
  `ServedIsUploaded` has these two exceptions and no other.
* `loadImages` is to find that posted images can be read (`scenario.go:32`); it takes any 200 for one, since its
  Asset learns the MD5 it is compared with (`action.go:182-183`, 193-194).
  `CaughtUnlessStorable` has this exception.
* `router.ts:187-189` logs in whom the cache has under the new name.  TLC finds this
  without the exception of `raced` in `RegisterLogsInNewUser`: n2 is registered,
  `/initialize` clears the cache, the registration reads n2 back, caches and logs it in,
  the DELETE takes its row, n2 is registered again, and the second registration logs
  in the deleted account.

## 5. What is proved

TLAPS checks these for every value of the constants that meets the named
assumptions: every invariant of the passing runs, the refinement, and one action
property.  Each proof module begins with its inductive invariant.

`GoSessionsProofs`, from `NoneAssumption` (None is no name, id, session id, token or
browser), `SeedAssumption` (the seed is a table with distinct names) and
`OpsAssumption`:
`Invariance` (`Spec => []IInv`) and from it `TypeCorrect`, `TokensCohere`,
`WritesAreAuthorized`, `LoginsAreOwn`, `LogoutIsFinal`.
The invariant has to speak of every copy of a session: `TokenCoherence` of memcached
alone is not inductive, since a save writes what a handler has held for any length
of time.  `SessionOf(b, vals)` says what a session of browser `b` may hold, wherever it
is; `StoreInv` and `RequestInv` assert it of memcached and of every request's
memory, and it is stable because ids are never given out again and `authed` only
grows.  `LogoutSticks` needs `LoneLogoutInv`, that nothing overlaps such a logout,
and `ClosedInv`, that nothing in flight carries the session afterwards.

`BenchRunProofs`, from `WorkersAssumption` (finitely many goroutines, `Main` not among
them), `ErrsAssumption`, `NoneAssumption` and `KindsAssumption`: `Invariance`, and from
it `TypeCorrect`, `TokensAreConserved`, `ReportsCohere`, `PassingIsClean`.
`ReportCoherent` follows from the order of the reads only with `LogInv`: what is logged
and what is counted and not yet logged (`Pending`) add up to `fails`, and no success
scores more than five.  `PassMeansClean` needs `PhaseInv`: the main goroutine has no
request left after the pre-check, and while it has, either none has failed or `fails`
is positive.  `CrewInv` ties the two: a goroutine that has come to the end of its
plan has nothing left to log.

Of the messages, `MessagesAreExact` and the action property `SortLosesNothing`.
`MessagesInv` adds to `MessagesExact` that the sorted part stays sorted until it is
collected, however many failures are logged behind it (`LogGrows`), unless one was
logged while it was being sorted.  `Collect` keeps the first of each run of equal messages:
`HeadsExact` finds the head of a message at its least index in the sorted part, which exists
because the order of the naturals is well founded (`LeastIndex`), so no induction over the log
is needed.  `SortLosesNothing` says that the sort's result has the messages of what it was
given: from equal numbers of each message (`Rearranged`) to equal sets of messages.

`GoTimelineProofs`, from `NoneAssumption`, `IdsAssumption` (posts and comments are told
apart, comments are finitely many), `SeedAssumption` (the seed's rows refer to one another
only), `LimitAssumption` and `OpsAssumption`: `Invariance`, and from it `TypeCorrect`,
`BansAreReflected`, `OrphansNeedARace`, `InitializeIsAReset`; and `Refinement`.  The
invariant adds to the types: that the seed's rows stay; that `dead` users are banned
(`dead` loses a user exactly where the table does); of each request, that its `dead` and
`hidden` are banned as long as it runs, which makes the author's check in `SelectAuthor` enough
for the whole page; of an `/initialize` that is `alone`, what each of its statements has
left; and, unless `torn`, that rows refer to users there are or about to be deleted with them.
The refinement maps every statement to a step of `Moderation` or to none: `BanOne` and
`BanFiftieth` are its `Ban`, `UnbanAll` and `DeleteUsers` its `Lift`, the step that completes a
page its `Serve`.

`GoPagesProofs`, from the same assumptions and `GoTimelineProofs!IInv`: `PagesInvariance`
(`Spec => []PagesInv`), and from it `PostsAreReflected`, `CommentsAreReflected` and `PagesCohere`,
which say what a page promises although no two of its statements see the same tables.
None of the three is inductive: they are about pages that are served.  `MakingInv`
says what is true of one under way.  `DueInv`: a post that was due is on the page, is the one at
hand, or is still to come, or, once `makePosts` has returned, the page was full of posts that
are not older.  `OrderInv`: what is on the page is not older than the post at hand, and that
not older than what is to come.  `Counted`, `Listed` and `Matching`: how the count and the
list below a post, read at two moments, stand to the comments that were due.
`SentInv` ties a request to the tables: what is `due` is there, and whoever is banned is in
`flicker`, so that an author `SelectAuthor` skips is one the property excuses.  Two lemmas
carry the proof: `NextPostPages`, that `makePosts` goes on or ends with all this
true, and `NotedKeeps`, that a page stands whatever a request of another does, if
rows keep what they hold, what is deleted is no longer due and is noted
(`purged`), and who is banned is noted.

`NodeUsersProofs`, from `NoneAssumption`, `StatementAssumption` (the names of the statements
are no ids), `SeedAssumption` and `InputAssumption`: `Invariance`, and from it `TypeCorrect`,
`MapsStayTogether`, `StalenessNeedsARace` and `RegistrationLogsInItself`, and, if
`FormField = "uid"`, `IndexHonoursBans` and `BansAreApplied`: the handlers would be right about bans
if the form had the field they read.  `Ahead` says what may be left of each plan.  `MapsAgree`
alone is not inductive: an answer put into both maps could pair an id with a name another record
has.  `CacheInv` and `LookupInv` exclude it, since what is cached or on its way is always
`Known`, a record under the name its id was inserted with, which `named` keeps when
`/initialize` has deleted the row.  `StaleOnlyByRace` rests on `WindowInv`, that while statements of an
`/initialize` run every cached user is marked, be they left over from a request that was
answered; `LookupInv` says the same of every answer on its way, and that the others are
`Fresh`: a row there is, equal but for the excuses of a ban.  So a statement that changes rows
while it runs owes nothing, and the step that ends the last of them finds marks, not claims.
`RegisterInv` says who a registration may find under the name it inserted, from which
`ReadBack` concludes for the cache.  A step of one request leaves the others in order if it
marks those whose answers it makes stale or whose bans it lifts (`OtherRequest`), and one that
leaves what is fresh fresh, or runs while all that is cached is marked, leaves the cache in order
(`QuietStep`, `LocalStep`).

`NodeSessionsProofs`, from `NoneAssumption`: `Invariance`, and from it `TypeCorrect`,
`TokensCohere`, `WritesAreAuthorized`, `SignInsLast` and `LogoutsLast`.  As with the Go
application the invariant asserts coherence of every copy of a session, in memcached and
in requests (`StageInv`).  `LoginSticks` needs to know of every request that is not old what
it will write: the cookie's session with the user expected, or nothing (`CurrentInv`); and of
a sign-in still under way that the cookie is the one it was sent with and what it has saved
is still there, of a logout that what it has deleted is (`UndisturbedInv`).  A step of one
request leaves the others in order because it changes nothing they could know of or marks
them as disturbed or old (`OtherRequest`).

`NodeImagesProofs`, from `NoneAssumption`, `RecordAssumption` (None is no image, file, job or
answer) and `SeedAssumption`: `Invariance`, and from it
`TypeCorrect`, `AnswersUploaded`, `OverlappingWritersLeaveWhole`, `InitializeClearsFiles` and
`UploadsFound`.  `ServedIsUploaded` alone is not inductive: what is answered has come from a file,
a file from a request that held an image, that from a row or an upload.  `RowsInv`, `FilesInv` and
`RequestInv` assert of each of these copies that it was uploaded under its id
(`UploadedAs`), which stays true because ids are never given out again.  An answer is also
`Whole`, or came from a file that was being written or that a write has left broken: a file
cut short is one or the other when it is read (`TornOnlyWhileWritten`, which the invariant
contains), and what is broken stays so.  A writer whose file
was not taken away finds it (`hold`), so closing it tears nothing; and a reader that must be
served keeps its row, or is withdrawn by the DELETE.

`AssetCheckProofs`, from `PathsAssumption` (there is a path), `NoneAssumption`,
`ContentAssumption` and `ImagesAssumption`: `Invariance`, and from it `TypeCorrect`,
`RightAnswersCount` and `WrongAnswersAreCaught`.  `AssetInv` says that an action's Asset is
right about its path or was not `known` and learns from its own answer, `AnswerInv` that
whatever an action found in the cache was put there because the server allowed it: both
hold without a look at the cache when the answer is judged, which is why entries may
expire or be replaced meanwhile.

Only model-checked: `RunReports`, since the prover does not reach liveness under fairness;
and that the properties of the three violation runs of section 4 are violated, which a counterexample shows.

## 6. What is not modelled

* `hydratePosts` of the Node application, which groups and cuts the comments of a page in
  one turn of the event loop: sequential code without state.  `getPosts` of the Go
  application is in `GoTimeline`.
* The access statistics of the Node application (`app.ts:49-130`): counters written in one
  turn of the event loop, on only for measurements.
* The Ruby, Python and PHP applications, ports of the same handlers, for which the Go one
  stands.
* `prepareUserdata`: it runs before any goroutine is started.  Of its slices,
  `bannedUsers` (whose entries `append` to `users` may overwrite) is never used.
* The portal: a Rails application around the benchmarker whose queue and time limit are
  those of Active Job and the shell, which are not in the repository.
* `apply_migrations.sh` and the measuring scripts, run by hand, one statement after another;
  the front end, the seed loader and the provisioning, which have no state that
  anything here depends on.
