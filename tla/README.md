# rssalchemy in TLA+

rssalchemy turns a web page into an RSS feed: a webserver takes a request whose
URL holds the page's address and the CSS selectors (the *specs*), hands a task to
a worker through NATS, and the worker fetches the page with FlareSolverr, picks
the posts out of it and stores the result, which the webserver renders as Atom.
This directory holds TLA+ models of that program, the TLC runs that check them,
and proofs for the TLA+ proof system. Paths below are relative to `src/`.

## The system

| part | code | state it keeps | operations |
|---|---|---|---|
| request handlers | `internal/api/http/handler.go` | none of their own | `handleRender`, `handlePageScreenshot` |
| per-address rate limit | `handler.go` `checkRateLimit` | map of token buckets behind an RWMutex | `checkRateLimit` |
| work queue and result cache | `internal/adapters/natsadapter` | marks of running keys (in memory), a NATS key-value bucket, a work-queue stream | `Enqueue`, `Get`, `ConsumeQueue` |
| worker process | `cmd/worker/worker.go` | `err`, which main and the callback share; the context an interrupt cancels | `main`, the task function: extract or screenshot |
| webserver process | `cmd/webserver/webserver.go` | the listening server, the context | `main` |
| command-line extractor | `cmd/extractor/extractor.go` | none | `main` |
| page fetch | `internal/extractors/pwextractor/extractor.go`, `client.go` | FlareSolverr sessions | `fetchSolution`, `Extract`, `Screenshot` |
| host check | `pwextractor/utils.go` | DNS cache with a TTL of a minute | `getIPs`, `allowHost`, `parseBaseDomain` |
| per-domain limiter | `internal/limiter/redisleaky` | last slot per domain, in Redis, with an expiry | `Limit` |
| cookie manager | `internal/cookiemgr` | NATS bucket: cookies by URL and a hash of the original cookies as printed | `GetCookies`, `UpdateCookies`; `ParseCookieHeader`, `EncodeCookieHeader`, `CookiesHash` |
| page parser | `pwextractor/parser.go`, `content.go` | none | `parse`, `extractPost`, `extractContent` |
| feed and specs | `handler.go` `makeFeed`, `decodeSpecs`; `models.go` `CacheKey` | none | pure functions |
| wizard (browser) | `frontend/wizard-vue/src` | the form, localStorage, two debounce timers, encodings under way | edit, paste, reset, generate |

How they interact. A handler calls `cache.Get`, then `checkRateLimit`, then
`workQueue.Enqueue`; `Enqueue` publishes to the stream and watches the bucket,
and only those two connect webservers and workers. A worker's callback calls the
task function, which runs `fetchSolution` (limiter, host check, cookies,
session, request, host check again, cookies again) and the parser, then
acknowledges the message and puts the result into the bucket. Cookies, the
domain's last slot and the result cache are shared by all workers; the marks and
the token buckets belong to one webserver, the DNS cache to one worker.

What is hard about it, and what makes each part right:

- *Queue and cache.* Calls for one key on one webserver join each other; a
  message may be delivered again while its task runs; acknowledgement comes
  before the result is stored; a watch replays old values before it reports new
  ones; either side may die at any point. Right means: a call ends in an error
  or in a value newer than itself, no mark is left behind, no task is lost
  before it was run, every call ends.
- *Rate limit.* Calls race to make an address's limiter. Right means: one bucket
  per address, no unlocked access to the map, nobody waits for ever.
- *Handlers.* The order of cache, token and queue. Right means: a feed no older
  than asked for, a screenshot never from the cache, tokens only for work.
- *Page fetch.* Many ways out. Right means: no session leaks that its call knows
  of, no page from a host that is named and was not checked, cookies cross only to
  clients the store takes for the same, and do not go back.
- *Wizard.* Two debounced functions per change, encodings and decodings that
  overlap and end in any order, a form read twice. Right means: once all is
  quiet, link and preset are those of the form; a link is never of an invalid
  form; a saved form comes back; a pasted link makes the form it was made of.
- *Parser and feed.* Two loops that leave things out, one after the other.
  Right means: a bad post takes no good one with it, an author's link is his own,
  content keeps its order and its tags closed.
- *From request to result.* A key is computed on both sides of the queue, by hand
  and without separators; cookies are stored as text and parsed again. Right
  means: nobody gets another request's result, everybody gets his own, cookies
  come back as they were set.
- *Processes.* An interrupt comes at any stage, nobody waits for the callback, and
  main and callback write the same `err`. Right means: the process ends, and
  leaves neither a wrong result nor a lost task.
- *Domain limiter.* Expiry and rounding. Right means: slots one rate apart as
  long as the state is kept, bounded waits, refusals only when full.

`PROJECT.json` lists every part and every hazard with its line.

## Modules

| module | models | composed of |
|---|---|---|
| `WorkQueue` | what a caller of `adapters.WorkQueue` relies on | |
| `NatsAdapter` | `Enqueue` and `ConsumeQueue`, step by step, with faults | refines `WorkQueue` |
| `TokenBucket` | a burst and a token per interval, per address | |
| `CheckRateLimit` | `checkRateLimit` with its locks | refines `TokenBucket` |
| `RenderService` | both handlers | instances of `WorkQueue` and `TokenBucket` |
| `DomainLimiter` | `redisleaky.Limiter.Limit` | |
| `PageFetch` | `fetchSolution`, host check, cookies, sessions | |
| `Wizard` | the store, the page and the specs part of a link | |
| `Feed` | `parse`, `extractContent` and `makeFeed` | |
| `TaskKey` | `decodeSpecs`, the tasks of both handlers, `CacheKey`, a task as JSON | |
| `CookieHeader` | `cookiemgr/utils.go` | |
| `Programs` | the three main functions, and a request's way through webserver and worker | extends `TaskKey` and `CookieHeader` |
| `MC*` | values for the constants, nothing else | |
| `*Proofs` | theorems and lemmas of a module | |

The two abstract modules are used twice: the detailed module of each service is
shown to implement it, and `RenderService` uses the service at its promise. So
the handlers are checked against every behaviour the services may show, without
the product of all their steps.

### How state and actions correspond to the code

`NatsAdapter`. `pc` is the place of a request in `Enqueue`; one action for each
step between two points where another goroutine can interfere: `Enter` (first
critical section), `Watch`, one action per branch of the `select`
(`SkipOld`, `TakeNil`, `TakeResult`, `CtxDone`), `Publish`, `Leave` (the deferred
calls). `running` is `runningTasks`, `joined` and `enqueued` are the locals
`alreadyRunning` and `taskEnqueued`, `chan` what a watcher has still to deliver,
with 0 for its nil. Results are numbered by their revision in the bucket, so
"newer" is `>`. On the other side `Deliver`, `Start`, `TaskReturns`,
`TaskPanics`, `DoubleAck`, `Put`, `WorkerExit` are the consumer's callback and the end of the
process. What NATS does (replay order, redelivery after AckWait, lost
acknowledgements) is external: it follows JetStream's documented behaviour as
the code relies on it. `Put` lets a watcher that has not replayed yet replay the new value
instead of the old one, since the bucket keeps one value per key. `Faults` is the
set of things that may go wrong in an instance.

`CheckRateLimit`. One action per lock operation; the limiter is named by the
call that made it, so two limiters for one address are visible. Tokens are
counted in fractions so that time is discrete and nothing is rounded.

`RenderService`. One action per call the handlers make. Results carry the time
they were stored; time passes between any two steps.

`DomainLimiter`. A call is one step, as it runs under the Redis lock; `now`
moves between calls. The arithmetic (`NextSlot`, `TooLong`) is the limiter
library's and marked external.

`PageFetch`. `pc` follows `fetchSolution`; `Leave` is the deferred
`destroySession`; errors and panics both go through `fail`, because both run the
deferred calls. A worker has one call at a time (`Start`), as the consumer runs
its callbacks one after the other. DNS answers are only "public", "denied"
(private, loopback or the proxy's own) or "empty". A page may be from any host (`final`),
and is checked again only if the answer names its URL (`named`). Cookies are numbered in the
order sites issue them, and a header's own are number 0. The store's key is the URL and the
header's cookies as they are printed (`PrintOf`), which headers may share.

`Wizard`. `saving` and `showing` are the two debounce timers (`updateLocalStorage`
and the page's watcher). A call of `generate` is a member of `Gen`: `gen` says
which of its two awaits it is in, `taken` what it is encoding there; `ShowLink` is the
moment between the two, at which the form is read again. `pasted` is what the calls
of the `existingLink` watcher decode. A link is its version and the fields in it:
protocol buffers do not send an empty field, and `toObject` gives it back as
empty, while a version 0 link is JSON with whatever fields it has. `clean` is
history: it tells apart the runs in which no two calls of `generate` overlapped
and none failed, for which the page promises more.

`Feed`. A page is a sequence of posts; a post says which of its required fields
were found, whether its link parses, and what its content is as the walk over
its nodes: texts, images, and where a tag that is kept opens and closes.
`ParsePost` is a turn of the worker's loop, `AddEntry` one of the webserver's,
`Made` the last loop over the authors. Items and entries carry the number of
their post, which is how the properties know whose they are.

`TaskKey` and `CookieHeader`. Texts are sequences of characters, from which keys
and headers are put together as the code does it, so that two tasks or two
clients are one where the code takes them for one. A byte that is no UTF-8 is a
character (`Broken`) that JSON replaces; an escape such as `%3D` is one character.
A link is what `decodeSpecs` looks at: its version, whether the bytes are JSON, a
protocol buffer or neither, the fields in it. SHA-256 is taken to tell texts apart.

`Programs`. `at` and `stage` are the place in each main function; a stage is the code
up to the next call that takes the context, and may panic. `returned` is the
moment between `ConsumeQueue`'s return and main's look at `err`; `unwind` and
`panic` are the deferred calls, which close connections under a callback that
still runs. `cb` is that callback: `Run` is the call of `Extract` or `Screenshot`
with its assignment to `err`, `Check` the look at it, which main may have
overwritten, then `Ack` and `Put`, which fail once the context is done. `cb.sent` is the list of
cookies the request is sent with, looked up in `Take`: none if the store does not answer.
A put of new ones (`UpdateCookies`) may fail too; `saved` is the last one that did not. `Handle`
stands for a handler up to its wait; the steps in it are `RenderService`'s and
`NatsAdapter`'s. What was asked is constant (`Asks`, chosen by `ask`), and tables
over it (`Meets`, `SameEntry`, `Readings`...) are what keys and headers make of it.

## Runs

| run | question | size |
|---|---|---|
| `nats_faults` | with every fault, does the adapter keep the queue's promise, keep tasks, release marks, and does every call return? | 2 requests, 1 key, 1 worker; 60 000 states |
| `nats_answered` | with messages delivered again to another worker and acknowledgements that fail, is the publisher answered? | 2 requests, 2 workers; 8 000 states |
| `nats_resubmit` | violation: is a running task never submitted again? | 4 requests |
| `nats_skips` | violation: are only old values skipped? | 2 requests |
| `rate_limit` | is there one bucket per address, and does every call decide? | 3 racing calls and one of another address |
| `domain_limiter` | spacing and refusals | capacity 2, rate 2, 6 calls |
| `domain_one_per_rate` | violation: one request per rate, always? | the same |
| `serve` | freshness, tokens | a feed and a screenshot of one client, 2 results per key |
| `page_fetch` | sessions, hosts, cookies | 3 calls, 2 workers, 3 clients of which 2 share an entry; 880 000 states |
| `wizard` | what is shown at last, what a reload brings back, what a paste makes | 2 fields, 3 values, 4 acts of the user, 2 calls of `generate`, 2 of pasting; 158 000 states |
| `feed` | what becomes of posts, authors and content | every page of up to 3 posts from a set of 9; every content of up to 5 nodes; 17 000 states |
| `programs` | whose result, whose cookies, and what an interrupt leaves behind | 6 pairs of requests, 3 lists of cookies, 1 worker; 530 000 states, two to three minutes |

Why the bounds are enough. In `NatsAdapter` a hazard needs one call that
publishes and one that joins or comes too late; the second worker, that gets a
redelivered message, is in `nats_answered`, and the safety properties are proved for any
number of workers; keys do not interact, so one key is enough. Redelivery is
counted up to one (`MaxRedeliver`): the second run of a task is then possible, a
third adds nothing new. `Prefetch` is one, which still lets a message wait in a
buffer while its AckWait passes. In `CheckRateLimit` a lost limiter needs two calls that
both miss and a third that uses the one which was overwritten. In
`DomainLimiter` six calls fill a bucket of two, are refused, and come back
after expiry. In `PageFetch` one pair of calls overlaps, of two clients with one entry, and the third one,
of a client with another entry, follows on the same worker and its DNS cache. In `Wizard`
two calls of `generate` overlap and the form changes between the two awaits of
either; a third would wait for one of them to end. In `Feed` a post left out
by the worker, one left out by the webserver and one behind them are three; five nodes
hold a tag around an image with text on both sides. In `Programs` a mix-up is one
of two: each pair shares what a mistake would mix up. One has a selector that
ends where the other's next one begins and the date from elsewhere; one differs
in a single selector; one has a byte that is no UTF-8 against its replacement; a
feed and a screenshot have the same cookies written in two ways; two
lists of cookies print the same; a header cannot be read and a request is refused. The
site's lists hold each character with a meaning of its own, and there are two of them so that
the last one is not the only one. The proofs below do not
depend on any of these bounds.

`CHECK_DEADLOCK FALSE` is set where the instance ends: every request has been
served and the clock is at its bound; the feed is made; the user has stopped and all is quiet; the processes have ended.

Fairness. `NatsAdapter!Fairness`: a request that has begun runs on, its context
ends (`context.WithTimeout` of a minute in both handlers), a live worker runs
its callbacks, and NATS delivers to a worker that has room. Nothing is assumed
of calls that may never come, faults and restarts. `CheckRateLimit!Fairness`:
every call is scheduled, and strong fairness on the two lock operations, because
Go's RWMutex blocks new readers once a writer waits and so starves neither.
`Programs!FairSpec`: only the main functions run on (`Main`), because nothing in them
waits for others for ever: `Ping` and `CreateOrUpdateConsumer` take the context, `Stop` and
`Drain` do not wait, `Shutdown` has ten seconds. Callbacks need not return, handlers
need not be answered, nobody need interrupt.
`Wizard!Fairness`: timers fire and compression streams end; the user need not
do anything.

What the violations show, each quoted in `PROJECT.json` under findings:

- `NoResubmit`: the comment at natsadapter.go:62 says the marks prevent
  resubmitting a running task. Every call removes the mark when it ends, also
  one that only joined, while the task may still be queued or running.
- `SkippedIsOld`: the log line at natsadapter.go:85 calls a skipped value old. A
  result stored after a call joined and before its watch's nil is skipped too, and
  the call then waits for its context.
- `OnePerRate`: config.go:32 promises one request per interval. The state
  expires after capacity * rate, when the last slot given may still be ahead.

## Proofs

`tlapm` checks every theorem for all values of the constants that satisfy the
assumptions in the modules (`ConstantsAssumption`, `RateAssumption`,
`ServiceAssumption`, `FetchAssumption`, `WizardAssumption`, `FeedAssumption`, `LimiterAssumption`,
`TextAssumption`, `ProgramsAssumption`: typing of the constants). Two of them say more:
`FeedAssumption` that the walk over a post's nodes closes each tag it opens, as
`extractContent`'s does when it returns from a node; `CookieAssumption` that a
cookie a site sends has no escapes in it, a `%` of its own being a `%` and nothing else.

- `NatsAdapterProofs`: `TypeCorrect`, `MarksAreHeld`, `TasksDoNotVanish`,
  `AnswersAreNew`, `OwnResultsArrive`, `ImplementsWorkQueue`. None of the
  properties is inductive. What is added: `TasksKnown` (whatever is in the
  stream, in a buffer or in a callback was sent by a request that got that far),
  `WatchOrder` (a watcher's channel is increasing and bounded by the bucket's
  revision; what follows the nil is newer than the call), `NilAhead` (until the
  nil was taken it is in the channel exactly once), and `OwnInv` (a request's own result
  is stored only after its nil was taken, and stays in its channel).
- `CheckRateLimitProofs`: `TypeCorrect`, `RateBound`, `RefusalIsEarned`, `MapRaceFree`,
  `ImplementsTokenBucket`. The invariant is a ledger: tokens an address has
  left and those it spent never exceed its burst and the time passed, a call that is
  past its lookup holds the limiter that is in the map, and the lock protocol
  excludes writers and readers.
- `RenderServiceProofs`: `TypeCorrect`, `FeedsAreFresh`, `ScreenshotsAreNew`,
  `TokensBuyWork`, `WorkBound`. `Fresh` says of each place in a handler what is known
  of the result it holds; `Accounts` that an address's tokens equal the set of
  its requests beyond the check, by cardinality.
- `PageFetchProofs`: `TypeCorrect`, `SessionsClosed`, `HostsAllowed`,
  `CookiesApart`, `CookiesNewer`. The invariant is one conjunct per call:
  which hosts it has checked at each place (`solved` tells the second host check from the
  first, `named` the answers whose host gets that second check from those that skip it), what it
  knows of its session, and whose cookies it holds; and one for the store: an entry has only
  what was issued to clients that print as its key, and no header.

- `WizardProofs`: `TypeCorrect`, `ShownRight`, `LinksAreValid`, `SavedRestores`,
  `PastesRoundTrip`. `RoundTrip` (decoding undoes encoding) carries three of them.
  What is added: `ValidInv` (what a call encodes first is of a valid form) and
  `GenInv` (while `clean`, at most one call is under way, and it is one for the
  form as it is or the watcher is due).
- `FeedProofs`: `TypeCorrect`, `FeedComplete`, `AuthorsOwn`, `ContentIsKept`, `TagsClosed`,
  for pages of any length and posts of any content. The last two are about the
  recursive walk. `WalkSteps` gives its value after each node from the one before;
  `OrderInv` (what is in blocks comes before what is collected, all of it before what
  is still to come), `Has` (nothing is missing) and `TagInv` (a block that is finished is closed; what is
  collected has the tags that are open now) hold after each. For the loops the
  invariant follows both: the items are the posts so far that have what is
  required, the entries the items so far whose link parses, each in order
  (`ItemsInv`, `EntriesInv`), and until an item is left out an entry has its item's
  place (`PlaceInv`).

- `DomainLimiterProofs`: `TypeCorrect`, `SlotsAreSpaced`, `RefusalsAreEarned`.
  `Remembers` ties Redis to the last slot given. For refusals, `Covered`: from any
  time on, up to the last slot, there is at most a rate for each slot ahead. It
  survives expiry, because a slot is given behind the last one or at once.
- `ProgramsProofs`: `TypeCorrect`, `StoppingIsSafe`, `OwnAnswersArrive`, `AnswersFit`, `CookiesAreKept`.
  The first half is about texts: `ConcatCancel` (equal texts whose first parts are
  equally long have equal parts), `RecodedText` and `Utf8Received` (JSON changes no length,
  and nothing that is UTF-8), `PrintedTells` and `KeyTells` (a key, read from its
  front, gives back the type, the fields and the headers of tasks whose fields are equally
  long). The second half is about steps: `Stopping` follows `err` and the callback's
  result through every way to stop (a nil result is taken for one only once main is past
  `ConsumeQueue`, when `Put` can no longer succeed), `Answering` says that whatever is in the
  bucket or was answered got there by a key that meets. `CookiesAreKept` needs both halves.
  Of texts: `JoinSplit` (what is joined with a character falls apart at it, if the pieces
  do not have it), `EscapeBack`, `ParsePart` and `TrimBlank` give `HeaderReadBack`: any list of cookies,
  written as a header and read, is as it was but trimmed, so it is never an error and
  never empty. `PlainHash`: what is hashed, split at its spaces, gives back the names and values,
  so lists without spaces of their own have hashes of their own. Of steps: `Keeping`, that
  no entry of the store is an empty list, that only requests whose header can be read are sent
  with any and so only their answers are stored, and that a client who shares his entry with
  nobody finds in it the last list that was put for him. The store may fail at each look-up and each put.

Induction. The library states it for predicates, which none of the provers instantiates.
`FeedProofs` and `ProgramsProofs` state it for sets of numbers, from the
order of the numbers (`Least`, `Induction`), and the same for functions that are defined
step by step (`Recursion`: there is one with the values that each step asks for). That is what
proofs about the walk of a post, `FlattenSeq`, `Split` and the counts of characters rest on.

Theorems about properties that no run checks, because they follow from one that a run does check:
`AnswersAreNew` (from `RefinesWorkQueue`), `RefusalIsEarned` (from `RefinesTokenBucket`),
`WorkBound` (from `TokensAreForWork` and what a token bucket lets through); and
`DomainLimiterProofs!TypeCorrect`. `HeaderReadBack` and `PlainHash` are about operators alone.

Every invariant and every action property that a run checks is stated by a theorem. Only
model-checked are the liveness properties (`EveryCallReturns`, `PublisherIsAnswered`, `EveryCallDecides`,
`LinkIsShownAtLast`, `SignalStops`; liveness under fairness is outside the
prover's reach), and the violations.

What the models show that no document speaks of:

- A cookie header with a part that has no `=` (a final semicolon is enough) or with a bare
  `%` is dropped as a whole; the task then runs without cookies, and none are stored.
- Clients whose cookies print the same, with a space in a name or value, share an entry of the
  cookie store and get what a site issued to the other (`CookiesStayApart` and `CookiesReturn` except them).
- An answer of FlareSolverr that does not name the page's URL skips the second host check
  (extractor.go:189), whatever host the page is from (`OnlyAllowedHosts` excepts it).
- When the cookie store does not answer, the error is logged and the task runs without cookies
  (extractor.go:226); a put that fails is logged, and the site's last list is not kept. Neither spoils what is stored.
- A session that `createSession` did not hear of stays (`orphan`; `SessionsAreClosed` excepts it).
- A request whose headers, or a screenshot whose URL, are no UTF-8 waits for a key that its result
  is never stored under (`OwnAnswerArrives` excepts them).
- Requests that differ only in where the date is read from share a key (`AnswerFits`
  excepts those fields). models.go:24 reminds the reader of the function, and does not say
  that every field belongs into it.
- A webserver whose port is taken logs "shutting down" (webserver.go:77) and waits for an
  interrupt.

## Plan

Done: the queue and cache first, because everything else waits for it; the rate
limit and the handlers on top of the two abstract services; the domain limiter;
the page fetch; the wizard; the parser and the feed; keys, specs and cookie headers with
the processes around them; proofs of each.

Left: the wizard's `encodeSpecsPart` against `decodeSpecs` (each is modelled, not the two
together), the date of a fetch in `NatsAdapter` (which of two runs of a task stores last),
and several workers in `Programs`.

## Not modelled

The date parser (a library over strings; its outcome is an input of `Feed`), what a CSS
parser can read (a constant), the values of the configuration and their validation, the choice of a client's
address (`ipranges.go`, `setIPExtractor`), static files, the ad block lists (nothing
calls them), generated protocol buffers but for the fields of `Specs`, `absURL` and
`parseProxy`, growth of memory (the map of limiters only grows).
