# Forumgo in TLA+

Models, TLC runs and TLAPS proofs for Forumgo, a forum service in Go: boards,
threads, comments, votes and reports over HTTP, kept in memory and saved as JSON
files.  Paths below are relative to the repository; `store/`, `service/` and so
on are under `internal/`.

## The system

| Component | Code | State it keeps | Operations | What is hard |
|---|---|---|---|---|
| Boards | `store/memory_board.go`, `BoardService` | boards by id, index slug -> id | create, get, get by slug, update, delete, list | the index under renames, clears and deletions; read-modify-write updates |
| Threads | `store/memory_thread.go`, `ThreadService` | threads by id, index board -> thread ids | create, get (counts a view), update, delete, list | the board is checked before the thread is stored; whole clones are written back |
| Comments | `store/memory_comment.go`, `CommentService` | comments by id, index thread -> comment ids | create (counts a reply on the thread), update, soft delete, list | the thread clone read at the check is written back after the comment is stored |
| Votes | `store/memory_vote_report.go`, `VoteService` | votes by target and user | vote, count | the target is checked, then the vote is stored |
| Reports | `store/memory_vote_report.go`, `ReportService` | reports by id | create, resolve, list | concurrent verdicts |
| Persistence | `flush`, `saveLoop`, `Close`, `load` of each store | dirty flag, file, temporary file | tick, flush, close, load | flush races changes and Close; failed writes and loads; crashes |
| Rate limiter | `middleware/ratelimit.go` | admitted times per client | `Limit` | window edge, limit 0, entries never removed |
| Authenticator | `auth/auth.go` | token -> user, token -> expiry | register, validate, revoke, clean up | clean-up goroutine, expiry |
| Request pipeline | `middleware/middleware.go`, `httpapi/server.go` | the response being written | request id, logging, recovery, auth, timeout | the handler goes on after the timeout; a recorder without a mutex; the header map of one response in two goroutines |
| Router, responses | `httpapi/router.go`, `httpapi/respond.go` | the patterns registered | register, route, error -> status | patterns that conflict |
| Logger | `logger/logger.go` | one line buffer | log, `With` | child and parent share the buffer under two mutexes |
| Validator, configuration, entities | `validator/`, `config/`, `model/` | none | pure functions | - |

A request runs on a goroutine of its own.  Its handler calls one service method;
the service calls store methods one after the other; a store method holds its
store's mutex from its first access to its last, and never takes a second one.
So the unit of interleaving is the store call, and what a goroutine keeps
between two calls (the clone `GetByID` gave it) may be stale when it is used.
The five stores share nothing but the services that call them, and each has a
`saveLoop` goroutine and a file of its own.  `ThreadService` reads the board
store; `CommentService` reads and writes the thread store.

Around the handlers `NewServer` stacks the middleware as
`Limit(Timeout(RequireAuth(Recovery(Logging(RequestID(mux))))))`.  `Timeout`
gives a request a second goroutine, which runs everything below it, and answers
in its stead when the deadline passes; that goroutine is not stopped.  The
authenticator starts a clean-up goroutine at every registration, and the one
logger is shared by all goroutines.

What makes the components correct:

- boards: a slug leads to the board that has it, and to at most one;
- threads and comments: an index holds every live record once and nothing else
  (`List` dereferences what it finds there); counters agree with what they count;
  a lock refuses what comes after it and changes only on request; what is
  deleted stays deleted; nothing refers to what never existed;
- persistence: the file only moves forward; `Close` saves everything; every
  change reaches the file;
- rate limiter: no window holds more admitted requests than the limit, and none
  is refused while there is room;
- authenticator: an expired or revoked token is never accepted, a live one is,
  and expired ones do not pile up;
- pipeline: nobody waits for ever, a refused request changed nothing, and what a
  client is told is the last word;
- router: every pattern is registered, and none takes the requests of another;
- logger: every line is one message.

## Modules

| Module | Models | State and actions |
|---|---|---|
| `Handlers` | the request goroutines, `newID` | `req[r]` is what goroutine `r` holds between two store calls: an operation and its locals, or `Idle`; `issued` the identifiers handed out |
| `BoardStore` | `MemoryBoardStore` | `boards`, `slugIdx`; one operator per method that changes them |
| `BoardService` | `BoardService` over the store | `BoardCreate`, `BoardUpdateRead`/`BoardUpdateWrite`, `BoardDelete`, and what the slug index must satisfy |
| `ThreadStore`, `CommentStore` | the two stores | `threads`, `boardIdx`; `comments`, `threadIdx` |
| `ThreadService` | `ThreadService` over the board and thread stores | check and store of a creation apart, read and count of `GetByID` apart, read and write of an update apart |
| `CommentService` | `CommentService` over the thread and comment stores | a creation in three steps: check, store, count |
| `Forum` | the three services together (`NewServer`, the routes) | `ForumSpec`, and the properties across stores |
| `AtomicForum` | what the three services promise together: every operation is one step | boards, threads and comments without goroutines, clones or indexes |
| `IsolatedForum` | `Forum` as long as no request changes what another one is at work on | `Undisturbed` says what that is; `CountedThreads` are the threads with every stored comment counted |
| `VoteService`, `ReportService` | the two services with their stores | `votes` by type, target and user, `reports`; check and store of a vote apart, read and write of a verdict apart |
| `Feedback` | votes and reports beside the forum | `FeedbackSpec`; `ForumView` is what is left of it without votes and reports |
| `SlidingWindow` | what a rate limiter promises | the clock, every admission, the answer to each client's latest request |
| `RateLimiter` | `RateLimiter.Limit` | `requests`, the admissions kept; `admitted` and `verdict` record what the code forgets |
| `DurableSet` | what a store with a file promises | changes accepted, saved, fallen back on; a start without the file |
| `StoreFile` | `flush`, `saveLoop`, `Close`, `load`, written once for the five stores that repeat it | `mem`, `file`, `dirty`, the places of the two flushing goroutines and their snapshots; `intact`: whether the file was read, or has been replaced, by this process |
| `ForumRestart` | `Forum` with the files of its three stores: saves at times of their own, a process that ends anywhere, `load` of each store | `savedBoards`, `savedThreads`, `savedComments`; `Restart` loads each file or fails to; `posted` counts the comments ever stored, `unread` has the stores that could not load their file and have not replaced it yet |
| `Authenticator` | `Register` (before and under the lock), `Validate`, `Revoke`, `cleanExpired` on its goroutines | `tokens`, `expires`, the calls that wait for the lock, the number of clean-ups that do; `granted`, `revoked`, `lastStore` are history |
| `Logger` | the line a call of `log` builds in the shared builder, under the mutex | `holder` of the mutex, `buf`, `lines` |
| `Pipeline` | the middleware stack over `Authenticator` and `Logger`: the goroutine of the connection, that of `Timeout`, the deadline, the client that leaves, the write deadline, the recorders, the panic and its recovery | `conn[r]`, `work[r]`: where the two goroutines are; `status[r]`: what the response says; `told[r]`: what of it reaches the client; `effect[r]`: whether a store changed |
| `Router` | `Handler`: the registration of the patterns in a `ServeMux` | `registered`, `panicked` |
| `MCForum`, `MCIsolatedForum`, `MCForumRestart`, `MCFeedback` | nothing: they add the symmetry of identifiers, users and goroutines for TLC | |
| `ForumProofs`, `BoardProofs`, `IsolatedProofs`, `RestartProofs`, `FeedbackProofs`, `StoreFileProofs`, `RateLimiterProofs`, `PipelineProofs` | nothing: theorems | |

Conventions.  A map is a total function with the value `Absent` for a missing
key.  A call that returns an error before it changed anything is a stuttering
step, so its early returns are the guards of its action; a call that reads and
changes nothing (`List`, `GetByID` of a board or comment, `GetVotes`) is no
action.  Definitions with a suffix after an underscore (`ThreadStoreUpdate_NoCheck`)
are plausible mistakes; no specification uses them, and each is there to show
that a property notices it.

Abstractions.  Names, titles, bodies, authors and times are left out: nothing
the modelled code does depends on them once the payload passed validation.  A
lost edit of a title shows as a lost lock or a lost view, because `Update`
replaces the whole record.  The pin is such a payload too, `ParentID` is never
validated, and the vote counts of a comment are never written.  An update's
payload leaves the lock out, sets it or clears it; in a board update, which
slugs it may carry is the constant `Renames`: `"none"`, `"unused"` (slugs no
board had when the board was read) or `"any"`.  `newID` is assumed never to
repeat.  Callers that choose a board's or a thread's identifier themselves, as
`BoardService.Create` and `ThreadService.Create` allow to callers other than
the handlers, are left out.

A vote's key is a triple, where the code joins its parts with colons: the
identifiers `newID` makes are hexadecimal, so keys of stored targets never
collide.  Nothing reads the identifier or the time of a vote.  What a report is
about is never checked, so it is an opaque `Subject`.  No route leads to
`ReportService.Resolve`; the model calls it as another caller of the service
would.  Time in `RateLimiter` is a number of ticks and any number of requests
come in one; an entry has a number because the slice of the code may hold one
time twice.  A limit below zero acts as zero.  The key `clientIP` makes of a
request is a member of `Clients`.

In `StoreFile` the contents are the set of changes applied: a flush writes the
whole map.  A rename is one atomic step; there is no `fsync` in the code, and
the model does not cover a machine that loses a rename.  `Restart` is both a
crash and an exit; what `main` does around `Server.Close` is not in the
repository, so it is assumed to return when `ListenAndServe` does.  Changes stop with
`Server.Close`: a handler still running then has not been answered.  `promised`,
`failed` and `intact` are history variables: the contents when `Close` was called,
whether the last flush failed, and whether the process knows what its file has.  A
file that cannot be read stops nothing: the constructor warns, the store starts
empty, and its first save replaces the file (`store/memory_board.go:43`).

`ForumRestart` takes a save as the one step in which the contents are copied
under the lock.  That is what a restart can tell: the file holds one whole copy
at any time, and the saves of a store never overlap (`StoreFile` has the steps
between).  A load appends the keys it reads to the indexes in the order of the
file; that order is payload here, so the index may have any.  Any of the loads may
fail, and then the store starts empty, as in `StoreFile`.  The files of votes
and reports are left out: no index is built from them that could disagree with
another store.

In `Pipeline` a handler is one step that may change a store, and may never
return; what it does there is `Forum`'s and `Feedback`'s.  What the limiter
decides is `RateLimiter`'s and is left open, so a request may be turned away at
any time.  Every answer of a handler panics, because the recorder `Logging` makes
has no mutex (`middleware/middleware.go:36`): so there is no action that answers
200, and the line "request" is never written.  The late answer of `Timeout` reads
the header map that the handler's goroutine may be writing; the Go runtime may
end the process for it, which is the action `HeaderRace`.  A response
leaves the server when the goroutine of the connection returns, and `Server` sets
a write deadline as long as the timeout that starts before it
(`httpapi/server.go:71`).  So an answer that is sent when the deadline of `Timeout`
is over does not arrive: the client sees the connection close.  Only with a timeout
of zero, which is no write deadline, does the late 503 reach it.  A client may
leave at any time, which ends the context just as the deadline does; and any
answer may be lost on its way.  `told[r]` is `Gone` in these cases.  Whether the
connection is kept for another request is left out.
`AuthToken` of the configuration only says that tokens are asked for; it is not
registered itself, and `Register` is called through `Server.Authenticator`.  With
it set, requests that only read need a token like all others.  A token's random
bytes never come twice.  Tokens, users and status codes are all that is left of a
request and its answer.

`NewServer` panics as long as two patterns conflict (`RouterPatterns`).  The other
modules describe the components as they are written, and as the tests of
`service/` and `store/` put them together, without the router.

## Runs

| Run | Question | Result |
|---|---|---|
| `BoardsRenameRace` | 2 requests, 3 boards, 2 slugs, renames to slugs found free: can two boards share a slug? | yes: an update and a creation, or two updates, find one slug free, and `Update` never looks again |
| `ForumConcurrent` | 2 requests, 2 boards, 2 threads, 2 comments, 1 slug, updates that keep the slug: types, reply counts from above, consistency of the clones in flight, the three indexes (`IndexesExact`), references, deleted threads | holds (2.7 million states) |
| `ForumIsolated` | 2 requests that leave each other alone, 2 boards, 2 threads, 1 comment, 2 slugs, 1 view, renames to free slugs: the slug index, the promises of each operation (`ReplyCountExact`, `LockChangesOnlyOnRequest`, `ViewCountNeverFalls`, `DeletedCommentStaysDeleted`, `PostedOnlyWhereOpen`), and that every operation is one step (`ImplementsAtomicForum`) | holds (1.3 million states) |
| `ForumLostReply` | `ReplyCountExact` with 2 requests at a time, 1 thread and 1 comment | broken: an update of the thread writes back what it read before the comment was counted (`service/service.go:175`) |
| `ForumRestart` | 2 requests cut short anywhere, 1 board, 1 thread, 1 comment, updates that keep the slug, saves and restarts at any time, loads that fail: types, `IndexesExact`, `RepliesWerePosted`, `SavedDeletionIsFinal`, `SavedCommentsStay` | holds (470 thousand states) |
| `Feedback` | 2 requests, 1 board, thread, comment, user and report: types, targets of votes, the workflow of a report, and that the forum behaves as `ForumSpec` says (`ImplementsForum`) | holds (200 thousand states) |
| `RateLimiter` | 2 clients, 2 requests in 2 ticks, 5 ticks: types, `WindowsBounded`, `ImplementsSlidingWindow` | holds (16 thousand states) |
| `FileSaves` | 3 changes, failing writes and loads, crashes, shutdowns and `Close` at any time: types, `CloseSaves`, `DirtyCoversChanges`, `SavedUnlessFailed`, `ImplementsDurableSet` | holds (18 thousand states) |
| `FileShutdown` | `Server.Close`, then the process ends: `ShutdownKeepsChanges` | broken: no store is closed |
| `Pipeline` | 1 request, 2 tokens, 3 ticks, with and without authentication: types, `ValidateIsExact`, `StaleTokensBounded`, `RefusedWithoutEffect`, `OnlyGoodTokensAct`, `AnswerIsFinal`, `NobodyWaits` | holds (400 thousand states) |
| `PipelineLog` | `RequestsLogged`: does a request that reached its handler get its line in the log? | no: the answer panics first |
| `RouterPatterns` | `AllRoutesRegistered`: does `Handler` register all its patterns? | no: the seventh conflicts with the third |

`ForumIsolated`, `ForumLostReply` and `ForumConcurrent` belong together.  The
first shows that the promises are what the code does as long as no request changes
what another one has read and will rely on, and that every operation is then one
step; among its behaviours are those of requests that come one at a time.
`ForumLostReply` shows that nothing enforces this, and `ForumConcurrent` what is left
that no interleaving breaks.  The other promises break with two requests in the
same way as the reply count: a board or a thread is locked or deleted after a
creation looked at it, a lock set or a view counted meanwhile is undone by a
write-back, and so is the deletion of a comment by the write-back of its update
(`service/service.go:280`).

`Undisturbed` is a condition on executions, not a claim about the code.  With one
request at a time the code always meets it (`OneRequestIsolated`).  With more it
speaks only of what a waiting goroutine has read: requests on different boards and
threads meet it, and so do reads, votes, and deletions of what nobody is at work
on.

For renames that race there is nothing weaker to promise of the slug index.  A
stale clone with the empty slug leaves an entry behind that its board no longer
has (`store/memory_board.go:107`); a deletion of that board leaves it dangling,
and a rename makes it lead to a board with another slug.

Another deviation that a constant can switch on and no run shows: with `Renames =
"any"` even one request breaks the slug index, because an update to an empty slug
leaves the old slug in it (`store/memory_board.go:107`).  Two of the properties have
exceptions that are what the code does.  `ImplementsDurableSet` and `SavedCommentsStay`
let go of what a file had when it could not be read, because the next flush
replaces it (`store/memory_board.go:43`).  `SavedUnlessFailed` says "unless a flush
fails" because the flag is reset before the write and the error dropped: the
changes then wait for another change (`store/memory_board.go:171`).

Bounds.  Two requests are enough for every race here: each involves one
goroutine with a stale clone or a stale check and one that changes what it saw;
a third could only repeat either part, and the proofs cover any number.  In `ForumConcurrent` two threads let an index entry land in the wrong place, and two
comments let a reply be lost or counted twice.  `MaxViews` bounds only how far views are counted.  The
sets of identifiers bound how many records are ever created, because no
identifier is used twice.  The runs turn deadlock checking off: once every
identifier is used and everything is deleted no operation is left.

In `ForumIsolated` two threads and two boards let the requests work side by side or
on one record; one comment is enough for what is stored and not yet counted, since
`Undisturbed` keeps two creations on one thread apart.

In `ForumRestart` two requests let one delete the thread the other holds a clone of,
with saves and restarts before, between and after; one thread and one comment are
enough for that, for a file of the threads that is ahead of or behind that of the
comments, and for a comment file that fails to load.  Slugs stay as they are in the
run: with renames to free slugs and more records it takes longer than a run is
worth, and the theorems (`RestartedSlugsSound`, `RestartedPlacesSound`) cover them,
and any number of requests and records.

In `Pipeline` `Life = 0` means that a token is good in the tick in which
`Register` begins and has expired in the next, so that in three ticks a token can
expire while it is being stored, while a request uses it, and before a clean-up.
A request has one tick, so the deadline can pass at any point of its handler.  Two
tokens let one expire, and be stored late, while the clean-up of a later
registration runs, which is what `StaleTokensBounded` is about.  Requests meet only
in the logger and in the authenticator, and a property of a request speaks of it
alone; that the lines of several requests are kept apart (`LinesWhole`) is proved,
for any number of them, and not run.

In `Feedback` two requests may vote for one user on one target, or resolve one
report; votes of different users share no key, so a second user adds no race.
In `RateLimiter` five ticks are two windows and a half: entries are dropped, the
limit is reached again, and a request comes exactly one window after another.

Fairness.  The forum specification has none: its properties are
safety, and no request has to arrive.  `StoreFileSpec` assumes that the ticker
fires, that a goroutine which can run does (weak fairness of `saveLoop`), and that a
flush in progress ends, well or not (weak fairness of the two together); the Go
runtime and the operating system give these.  That a write succeeds is not
assumed.  Nothing is assumed of requests, of `Close`, or of restarts.  `PipelineSpec` assumes that the clock goes on and that a
connection's goroutine which can run does (weak fairness of its return, of the
deadline, and of its own answer).  It assumes nothing of the handler or of the client:
`NobodyWaits` holds with one that hangs and one that stays.  `RouterSpec` assumes that `Handler` goes on as long as
`HandleFunc` does not panic.

## Proofs

TLAPS proves, for every value of the constants:

| Theorem | Property | Argument |
|---|---|---|
| `ForumTypeCorrect` | `ForumTypeOK` | each operation keeps the types |
| `RepliesBounded` | `ReplyCountBounded` | see below |
| `SnapshotsStayConsistent` | `SnapshotsConsistent` | see below |
| `ThreadIndexSound`, `CommentIndexSound` | two parts of `IndexesExact` | creations append a fresh identifier, a deletion takes out the one entry there is, a write-back changes neither board nor thread of a record |
| `ReferencesSound` | `ReferencesWereStored` | what a goroutine holds was issued |
| `DeletedThreadsStayGone` | `DeletedThreadStaysGone` | only a creation stores under an absent identifier, and it issues it |
| `SlugIndexCorrect`, `IndexesSound` (`Renames = "none"`) | `SlugIndexExact`, `IndexesExact` | needs that a clone in flight has the slug its board still has, or its board is gone for good; that in turn needs identifiers that do not come back |
| `FeedbackTypeCorrect`, `VoteTargetsSound` | `FeedbackTypeOK`, `VoteTargetsWereStored` | a step of the forum starts no vote and no verdict, removes no comment and takes back no identifier |
| `ReportsSound` | `ReportsStayClosed` | the clone of a report that is being resolved is closed and about what the stored report is about |
| `ForumUndisturbed` | `ImplementsForum` | a step of the forum is seen as the same step, one of a vote or report is not seen |
| `LimiterTypeCorrect` | `LimiterTypeOK` | each step keeps the types |
| `WindowsStayBounded` | `WindowsBounded` | an admission enters only the window that ends now, which had room; a tick opens a window with no more in it |
| `LimiterIsSlidingWindow` | `ImplementsSlidingWindow` | what was dropped has left the window for good (`KeepsWhatCounts`), so what is kept and valid is the window |
| `StoreFileTypeCorrect` | `StoreFileTypeOK` | each step keeps the types |
| `RepliesExact`, `LocksSound`, `ViewsSound`, `DeletionsSound`, `OpenBoardsSound`, `OpenThreadsSound`, `PostingsSound` (of `IsolatedSpec`) | `ReplyCountExact`, `LockChangesOnlyOnRequest`, `ViewCountNeverFalls`, `DeletedCommentStaysDeleted`, and the two parts of `PostedOnlyWhereOpen` | see below |
| `IsolatedSlugsExact` (of `IsolatedSpec`, `Renames # "any"`) | `SlugIndexExact` | the slug an update found free is free until it is written |
| `OperationsAtomic` (of `IsolatedSpec`, `Renames # "any"`) | `ImplementsAtomicForum` | see below |
| `OneRequestIsolated` (`OneRequest`) | `ForumSpec` implies `IsolatedSpec` | a goroutine that is alone has nobody to disturb it |
| `RestartTypeCorrect` | `RestartTypeOK` | an index built by a load is one of slices, because there are finitely many identifiers |
| `RestartedRepliesSound` | `RepliesWerePosted` | the clones in flight and the copies in the file are bounded by what was ever posted, which no restart takes back |
| `RestartedPlacesSound` | two parts of `IndexesExact`, and `ReferencesWereStored`, across restarts, for any renames | see below |
| `RestartedIndexesSound` (`Renames = "none"`) | `IndexesExact` | see below |
| `RestartedSlugsSound` (requests leave each other alone, `Renames # "any"`) | `IndexesExact` | see below |
| `SavedDeletionsFinal` | `SavedDeletionIsFinal` | only a creation stores under an absent identifier, a save copies what is stored, a load brings back what is saved |
| `SavedCommentsKept` | `SavedCommentsStay` | a saved comment is still stored, on the same thread, as long as its store could load the file or has replaced it |
| `CloseSavesAll` | `CloseSaves` | what was promised is in memory, then in the snapshot, then in the file |
| `StoreFileIsDurable` | `ImplementsDurableSet` | only one goroutine flushes at a time, so the file it replaces is part of its snapshot, unless this process could not read it |
| `DirtyFlagSound` | `DirtyCoversChanges` | a change that comes while a flush writes sets the flag again |
| `PipelineTypeCorrect` | `PipelineTypeOK` | each step keeps the types |
| `TokensSound`, `StaleTokensSound` | `ValidateIsExact`, `StaleTokensBounded` | a token was registered once, and is in the map with the time of that registration unless it was revoked or had expired when it was cleaned up; a clean-up that is pending comes after the last store |
| `LogSound` | `LinesWhole` (no run) | the builder holds the first half of the message of the goroutine that has the mutex, and nothing else |
| `RefusalsSound`, `AnswersAreFinal` | `RefusedWithoutEffect`, `AnswerIsFinal` | how far the two goroutines of a request are bounds what may have been sent; while a handler runs only `Timeout` answers, and then the write deadline is over or the client gone |
| `OnlyGoodTokensSound` | `OnlyGoodTokensAct` | a token that was used up stays so, and a validated one was good when it was validated, after the request came |

The invariant of the forum (`ForumInv` in `ForumProofs`) is the conjunction of
the types, `ReferencesWereStored`, `SnapshotsConsistent`, `ReplyCountBounded`
and the two indexes.  None of these is inductive alone.  The reply count of a
thread is bounded by its comments only because the clone a goroutine is about to
write back is, and a clone stays bounded while it waits because the number of
comments of a thread never falls: `StoresEvolve` states what every step of any
goroutine may do to the stores (comments only grow and keep their thread,
threads keep their board, issued identifiers stay issued), and `SnapshotsWait`
that a consistent clone stays consistent under any such step.  The bound of a
goroutine that has stored its comment is one tighter, which is what lets the
count be written.  The indexes rely on the clones for the board of the thread
that is written back, and on the references for identifiers being fresh.

With requests that leave each other alone (`IsolatedInv` in `IsolatedProofs`) three
facts join `ForumInv`: what a goroutine checked or read is still so (`UpToDate`); a
thread has as many comments as it counts, and one more while a creation has stored
its comment and not yet counted it (`Counted`); and no two creations are that far
on one thread (`OneUncounted`).  The last is where isolation does its work: the
second creation would change the comments of a thread the first is at work on.
They need each other, because writing a clone back keeps the count only if the
clone is the stored record.

`OperationsAtomic` maps every step to a step of `AtomicForum` or to none.  Reads and
checks are not seen.  A creation of a board or a thread is the step that stores
it, where `UpToDate` says that the check still holds; an update is its
write-back, where the clone is the stored record with the payload applied.  A
comment is created when it is stored, and its reply must be counted in the same
step: `CountedThreads` counts it there, so that the later write-back is not seen.
The test for a taken slug looks in the index, the abstract one at the boards;
`SlugIndexExact` says it is the same.

A restart forgets the counts but not the places.  `IndexInv` is the part of
`ForumInv` that does not speak of counts; the lemmas about indexes, references and
`StoresEvolve` rest on it alone, so it is inductive by itself.  `PlacesInv` adds
that the files hold only what was stored, and that a saved comment is still
stored on the same thread as long as its store could load the file; it holds of
stores put together from files of three different times, some of which may not be
readable, whatever slugs updates carry.  The loaded indexes of threads and
comments are exact because an injection between finite sets of one size is onto.
The slug index also needs that no two boards in the file share a slug
(`SavedSlugsUnique`, in `FilesInv`), which holds as long as the boards themselves
never do: that is where the theorems about it differ in what they assume of
`Renames`.

`FeedbackProofs` does not repeat that argument.  `ForumSide` is the little of it
that votes and reports rely on, and `ForumLeaves` what any step of the forum
leaves to them; the rest follows from `ForumUndisturbed`, by which every theorem
about `ForumSpec` holds of `FeedbackSpec` seen through `ForumView`.  That last
step is an argument on paper: tlapm does not let an instance of a theorem be
cited, so the instances are not stated as theorems.

The assumptions on constants say that `Absent` and `NoSlug` are no identifiers,
records or slugs, that reports have identifiers of their own, that `MaxViews`,
the limit, the window, the timeout, the life of a token and the end of the clock
are numbers, that there are finitely many threads and comments to restart with,
that the callers of the logger are the requests and that the switches have the
values named.  `OneRequest` says that `Requests` has one member; it, `Renames` and isolation
are assumed only where the table says so.  Writes and loads may fail in every
theorem.

Only model-checked: `SavedUnlessFailed` and `NobodyWaits`, because liveness is out of
the prover's reach.  The runs that expect a violation are about the code, not about
theorems that fail.

## Not modelled

- Validator: its outcome is an early return without effect; the actions of the
  services take payloads that pass.
- Configuration: read once, shows as parameters.  That an empty `DataDir` keeps the
  data in memory is not modelled, because `NewServer` appends a file name to it and
  the path is then never empty (`httpapi/server.go:32`).
- Reads: `GetVotes`, and the filters and order of `List`, compute from one store
  under its lock and change nothing; what `List` relies on, that no identifier in
  an index lacks its record, is in the indexes' invariants.
- Responses: the status an error turns into and the segments of a path are functions
  of one request without state.
- `clientIP`: which connections share a limit is decided by the client and proxies;
  the limiter takes the key for granted.
- `Logger.With`: only tests call it.  A child has a mutex of its own and the builder
  of its parent, so its lines may mix with its parent's.
- A second `Close` of a store, which panics: the code calls none.
- The files of votes and reports across a crash, and an operating system that loses a
  rename.
- The growth of the limiter's map by clients that do not come back: it is bounded
  only by how many clients there are.
