------------------------------ MODULE Programs ------------------------------
(***************************************************************************)
(* The programs of cmd/: the webserver, a worker, and the command-line     *)
(* extractor, from start to exit, and what a request becomes on its way    *)
(* through the first two: a task, a cookie header, a result under a key.   *)
(*                                                                         *)
(* A main function runs its stages one after the other; one that fails     *)
(* panics.  However main ends, its deferred calls close what was opened    *)
(* before the process is gone.  NatsAdapter has the queue's own protocol;  *)
(* here a result that is stored reaches those who watch its key at once.   *)
(***************************************************************************)
EXTENDS TaskKey, CookieHeader

CONSTANTS
    Req,         \* requests; the task of a request bears its name
    None,
    Null,        \* "null", what a nil result is as JSON
    Asks,        \* what the requests may ask, all at once: one list of choices
    SiteCookies, \* the lists of cookies a site may set
    Deployments  \* programs that are started together

ASSUME ProgramsAssumption ==
    /\ None \notin Req /\ Null \notin Req /\ None # Null
    /\ Asks \in Seq([Req -> Ask]) /\ SiteCookies \in Seq(Seq(Text \X Text))
    /\ Deployments \subseteq SUBSET {"web", "worker", "tool"}

\* A "%" that a site sends is a "%": only what is in a header is an escape.
ASSUME CookieAssumption ==
    \A n \in DOMAIN SiteCookies : \A i \in DOMAIN SiteCookies[n] :
        Raw(SiteCookies[n][i][1]) /\ Raw(SiteCookies[n][i][2])

VARIABLES
    ask,       \* which of the choices it is
    at,        \* where each main function is
    stage,     \* the stage it has come to
    signalled, \* has its context been cancelled by an interrupt?
    listening, \* does the webserver accept requests?
    req,       \* where each request's handler is
    ans,       \* the task whose result it was answered with
    queue,     \* tasks published and not acknowledged
    cb,        \* the worker's callback: where it is, its task, the cookies that are
               \* sent for it, and its result
    err,       \* is the worker's variable err, which both use, an error?
    bucket,    \* what is stored under each request's key
    store,     \* which of the site's lists the cookie store holds, for each request
    put,       \* history: tasks whose own result was stored
    cut,       \* history: tasks that failed while connections were closed
    saved      \* history: which of the lists set for each client was stored last

mainVars == <<at, stage, signalled, listening>>
webVars  == <<req, ans>>
cbVars   == <<cb, err>>
dataVars == <<bucket, store, saved>>
vars == <<ask, mainVars, webVars, queue, cbVars, dataVars, put, cut>>

Program == {"web", "worker", "tool"}

\* The stages of the main functions: what comes before interrupts are caught,
\* and then each up to the next call that is given the context.
WebStages    == <<"config", "routes">>
WorkerStages == <<"config", "redis", "consume">>
ToolStages   == <<"extractor">>

Stages == [web |-> WebStages, worker |-> WorkerStages, tool |-> ToolStages]

\* Such a call fails once the context is done.
NeedContext == {"redis", "consume"}

Idle == [at |-> "idle", task |-> None, sent |-> <<>>, res |-> "none"]

\* What follows from what was asked: the task of each request, also as it
\* reaches the worker; whose cookies the worker takes it to bring, the URL's
\* and those of its header; and the key of their entry in the cookie store.
TaskFor(n, r)  == TaskOf(Asks[n][r])
Payload(n, r)  == Received(TaskFor(n, r))
Client(n, r)   == <<Payload(n, r).text["URL"], ParseCookieHeader(Payload(n, r).Headers.Cookie)>>
StoreKey(n, r) == <<Client(n, r)[1], CookiesHash(Client(n, r)[2])>>

Choice == DOMAIN Asks
Accepting  == [n \in Choice |-> [r \in Req |-> Accepted(Asks[n][r])]]
Readable   == [n \in Choice |-> [r \in Req |-> Client(n, r)[2] # <<>>]]
SameClient == [n \in Choice |-> [r \in Req |-> [s \in Req |->
                 Client(n, r) = Client(n, s)]]]
SameEntry  == [n \in Choice |-> [r \in Req |-> [s \in Req |->
                 StoreKey(n, r) = StoreKey(n, s)]]]

\* Does the result of t end up where r looks for its own?
Meets == [n \in Choice |-> [r \in Req |-> [t \in Req |->
                 CacheKey(TaskFor(n, r)) = CacheKey(Payload(n, t))]]]

\* A list that is put into the cookie store, as a header, and read from it.
Readings == [n \in DOMAIN SiteCookies |->
                ParseCookieHeader(EncodeCookieHeader(SiteCookies[n]))]

\* The lists of cookies a task may be run with.
SentLists == {<<>>} \cup {Client(n, r)[2] : n \in Choice, r \in Req}
                    \cup {Readings[n] : n \in DOMAIN SiteCookies}

TypeOK ==
    /\ ask \in Choice
    /\ at \in [Program -> {"boot", "run", "returned", "closing", "unwind", "panic", "down"}]
    /\ stage \in [Program -> Nat]
    /\ signalled \in [Program -> BOOLEAN]
    /\ listening \in BOOLEAN
    /\ req \in [Req -> {"new", "refused", "waiting", "answered", "error", "cut"}]
    /\ ans \in [Req -> Req \cup {None}]
    /\ queue \subseteq Req
    /\ cb \in [at : {"idle", "run", "check", "ack", "put"}, task : Req \cup {None},
              sent : SentLists, res : {"none", "result", "null", "error"}]
    /\ cb.at # "idle" => cb.task # None /\ at["worker"] \in {"run", "returned", "unwind", "panic"}
    /\ err \in BOOLEAN
    /\ bucket \in [Req -> Req \cup {None, Null}]
    /\ store \in [Req -> 0 .. Len(SiteCookies)]
    /\ saved \in [Req -> 0 .. Len(SiteCookies)]
    /\ put \subseteq Req /\ cut \subseteq Req

Init ==
    /\ ask \in Choice
    /\ \E d \in Deployments : at = [p \in Program |-> IF p \in d THEN "boot" ELSE "down"]
    /\ stage = [p \in Program |-> 1]
    /\ signalled = [p \in Program |-> FALSE]
    /\ listening = FALSE
    /\ req = [r \in Req |-> "new"]
    /\ ans = [r \in Req |-> None]
    /\ queue = {}
    /\ cb = Idle
    /\ err = FALSE
    /\ bucket = [r \in Req |-> None]
    /\ store = [r \in Req |-> 0]
    /\ put = {}
    /\ cut = {}
    /\ saved = [r \in Req |-> 0]

Goto(p, place) == at' = [at EXCEPT ![p] = place]

-----------------------------------------------------------------------------
(* The main functions *)

\* The next stage, or a panic in it.  If the port is taken, the goroutine that
\* serves says so and ends, and main waits for an interrupt all the same.
Boot(p) ==
    LET s    == Stages[p][stage[p]]
        last == stage[p] = Len(Stages[p])
    IN  /\ at[p] = "boot"
        /\ \/ /\ s \in NeedContext => ~signalled[p]
              /\ stage' = [stage EXCEPT ![p] = @ + 1]
              /\ Goto(p, IF last THEN "run" ELSE "boot")
              /\ listening' \in {listening, p = "web" /\ last}
           \/ Goto(p, "panic") /\ UNCHANGED <<stage, listening>>
        /\ UNCHANGED <<ask, signalled, webVars, queue, cbVars, dataVars, put, cut>>

\* An interrupt.  It is caught from NotifyContext on, right after the config.
Signal(p) ==
    /\ p \in {"web", "worker"} /\ ~signalled[p]
    /\ at[p] = "run" \/ (at[p] = "boot" /\ stage[p] > 1)
    /\ signalled' = [signalled EXCEPT ![p] = TRUE]
    /\ UNCHANGED <<ask, at, stage, listening, webVars, queue, cbVars, dataVars,
                   put, cut>>

\* Mutant of Return: the consumer is drained before it is left.
ReturnDrained ==
    /\ at["worker"] = "run" /\ signalled["worker"] /\ cb = Idle
    /\ Goto("worker", "returned")
    /\ err' = FALSE
    /\ UNCHANGED <<ask, stage, signalled, listening, webVars, queue, cb,
                   dataVars, put, cut>>

\* ConsumeQueue returns nil to main's err, and waits for no callback.
Return ==
    /\ at["worker"] = "run" /\ signalled["worker"]
    /\ Goto("worker", "returned")
    /\ err' = FALSE
    /\ UNCHANGED <<ask, stage, signalled, listening, webVars, queue, cb,
                   dataVars, put, cut>>

\* main looks at err, which a callback may have set since.
CheckErr ==
    /\ at["worker"] = "returned"
    /\ Goto("worker", IF err THEN "panic" ELSE "unwind")
    /\ UNCHANGED <<ask, stage, signalled, listening, webVars, queue, cbVars,
                   dataVars, put, cut>>

\* The webserver stops listening, and waits ten seconds for its handlers.
Shutdown ==
    /\ at["web"] = "run" /\ signalled["web"]
    /\ Goto("web", "closing")
    /\ listening' = FALSE
    /\ UNCHANGED <<ask, stage, signalled, webVars, queue, cbVars, dataVars, put,
                   cut>>

ShutdownEnds ==
    /\ at["web"] = "closing"
    /\ Goto("web", "unwind")
    /\ UNCHANGED <<ask, stage, signalled, listening, webVars, queue, cbVars,
                   dataVars, put, cut>>

\* The extractor's result is written; an error is followed by a screenshot
\* and then by a panic, whatever became of the screenshot.
RunTool ==
    /\ at["tool"] = "run"
    /\ \E end \in {"unwind", "panic"} : Goto("tool", end)
    /\ UNCHANGED <<ask, stage, signalled, listening, webVars, queue, cbVars,
                   dataVars, put, cut>>

\* The deferred calls have closed what was opened, and the process is gone,
\* with all that still ran in it.
Exit(p) ==
    /\ at[p] \in {"unwind", "panic"}
    /\ Goto(p, "down")
    /\ stage' = [stage EXCEPT ![p] = 1]
    /\ signalled' = [signalled EXCEPT ![p] = FALSE]
    /\ req' = [r \in Req |-> IF p = "web" /\ req[r] = "waiting" THEN "cut" ELSE req[r]]
    /\ IF p = "worker" THEN cb' = Idle /\ err' = FALSE ELSE UNCHANGED cbVars
    /\ UNCHANGED <<ask, listening, ans, queue, dataVars, put, cut>>

Main(p) ==
    \/ Boot(p) \/ Exit(p)
    \/ p = "worker" /\ (Return \/ CheckErr)
    \/ p = "web" /\ (Shutdown \/ ShutdownEnds)
    \/ p = "tool" /\ RunTool

-----------------------------------------------------------------------------
(* A handler: refused, answered from the cache, or waiting for its task *)

Handle(r) ==
    /\ at["web"] = "run" /\ listening /\ req[r] = "new"
    /\ \/ /\ ~Accepting[ask][r]
          /\ req' = [req EXCEPT ![r] = "refused"]
          /\ UNCHANGED <<ans, queue>>
       \/ /\ Accepting[ask][r] /\ Asks[ask][r].type = "extract" /\ bucket[r] \in Req
          /\ req' = [req EXCEPT ![r] = "answered"]
          /\ ans' = [ans EXCEPT ![r] = bucket[r]]
          /\ UNCHANGED queue
       \/ /\ Accepting[ask][r]
          /\ req' = [req EXCEPT ![r] = "waiting"]
          /\ queue' = queue \cup {r}
          /\ UNCHANGED ans
    /\ UNCHANGED <<ask, mainVars, cbVars, dataVars, put, cut>>

\* Its minute is over.
Timeout(r) ==
    /\ req[r] = "waiting"
    /\ req' = [req EXCEPT ![r] = "error"]
    /\ UNCHANGED <<ask, mainVars, ans, queue, cbVars, dataVars, put, cut>>

-----------------------------------------------------------------------------
(* The worker's callback *)

\* What the cookie manager finds for a task.  Without an answer of the store
\* its error is logged, and the task is run without cookies; so it is with a
\* header that cannot be read.
GetCookies(r, answers) ==
    IF ~answers THEN <<>>
    ELSE IF Readable[ask][r] /\ store[r] # 0 THEN Readings[store[r]] ELSE Client(ask, r)[2]

\* Mutant of Take: messages come before everything that handles them is made.
TakeEarly(r) ==
    /\ at["worker"] # "down" /\ cb = Idle /\ r \in queue
    /\ \E answers \in BOOLEAN :
          cb' = [at |-> "run", task |-> r, sent |-> GetCookies(r, answers), res |-> "none"]
    /\ cut' = cut \ {r}
    /\ UNCHANGED <<ask, mainVars, webVars, queue, err, dataVars, put>>

\* A message is handed to the callback, one at a time, and the cookies for its
\* request are looked up: with one callback nobody stores others meanwhile.
Take(r) ==
    /\ at["worker"] = "run" /\ cb = Idle /\ r \in queue
    /\ \E answers \in BOOLEAN :
          cb' = [at |-> "run", task |-> r, sent |-> GetCookies(r, answers), res |-> "none"]
    /\ cut' = cut \ {r}
    /\ UNCHANGED <<ask, mainVars, webVars, queue, err, dataVars, put>>

\* An empty list is not put: read again, it would be an error for ever.  The
\* error of a put that fails is logged, and the entry stays as it was.
UpdateCookies(r, n) ==
    \/ /\ SiteCookies[n] # <<>>
       /\ store' = [s \in Req |-> IF SameEntry[ask][r][s] THEN n ELSE store[s]]
       /\ saved' = [s \in Req |-> IF SameClient[ask][r][s] THEN n ELSE saved[s]]
    \/ UNCHANGED <<store, saved>>

\* A fetch that is answered brings the site's cookies, which are kept if some
\* were sent.
KeepCookies ==
    \/ UNCHANGED <<store, saved>>
    \/ cb.sent # <<>> /\ \E n \in DOMAIN SiteCookies : UpdateCookies(cb.task, n)

\* Extract or Screenshot returns to main's err.
Run(ok) ==
    /\ cb.at = "run"
    /\ err' = ~ok
    /\ cb' = [cb EXCEPT !.at = "check", !.sent = <<>>, !.res = IF ok THEN "result" ELSE "null"]
    /\ cut' = IF ~ok /\ at["worker"] \in {"unwind", "panic"} THEN cut \cup {cb.task} ELSE cut
    /\ KeepCookies
    /\ UNCHANGED <<ask, mainVars, webVars, queue, bucket, put>>

\* A task that panics is terminated, unless its Term is lost.
RunPanics ==
    /\ cb.at = "run"
    /\ queue' \in {queue, queue \ {cb.task}}
    /\ cb' = Idle
    /\ KeepCookies
    /\ UNCHANGED <<ask, mainVars, webVars, err, bucket, put, cut>>

\* The callback looks at err, which main may have overwritten since.
Check ==
    /\ cb.at = "check"
    /\ cb' = [cb EXCEPT !.at = "ack", !.res = IF err THEN "error" ELSE @]
    /\ UNCHANGED <<ask, mainVars, webVars, queue, err, dataVars, put, cut>>

\* Mutant of Ack: with a context of its own.
AckAnyway ==
    /\ cb.at = "ack"
    /\ queue' = queue \ {cb.task}
    /\ cb' = IF cb.res = "error" THEN Idle ELSE [cb EXCEPT !.at = "put"]
    /\ UNCHANGED <<ask, mainVars, webVars, err, dataVars, put, cut>>

\* DoubleAck and Put use the context of main: once that is done they fail
\* before they send anything, and failures are logged.
Ack ==
    /\ cb.at = "ack"
    /\ \/ ~signalled["worker"] /\ queue' = queue \ {cb.task}
       \/ UNCHANGED queue
    /\ cb' = IF cb.res = "error" THEN Idle ELSE [cb EXCEPT !.at = "put"]
    /\ UNCHANGED <<ask, mainVars, webVars, err, dataVars, put, cut>>

PutFails ==
    /\ cb.at = "put"
    /\ cb' = Idle
    /\ UNCHANGED <<ask, mainVars, webVars, queue, err, dataVars, put, cut>>

Put ==
    LET value == IF cb.res = "null" THEN Null ELSE cb.task
    IN  /\ cb.at = "put" /\ ~signalled["worker"]
        /\ bucket' = [r \in Req |-> IF Meets[ask][r][cb.task] THEN value ELSE bucket[r]]
        /\ req' = [r \in Req |-> IF Meets[ask][r][cb.task] /\ req[r] = "waiting"
                                 THEN IF value = Null THEN "error" ELSE "answered"
                                 ELSE req[r]]
        /\ ans' = [r \in Req |-> IF Meets[ask][r][cb.task] /\ req[r] = "waiting" /\ value # Null
                                 THEN value ELSE ans[r]]
        /\ put' = put \cup {cb.task}
        /\ cb' = Idle
        /\ UNCHANGED <<ask, mainVars, queue, err, store, saved, cut>>

Callback == (\E ok \in BOOLEAN : Run(ok)) \/ RunPanics \/ Check \/ Ack \/ Put \/ PutFails

Next ==
    \/ \E p \in Program : Main(p) \/ Signal(p)
    \/ \E r \in Req : Handle(r) \/ Timeout(r) \/ Take(r)
    \/ Callback

Spec == Init /\ [][Next]_vars

\* Main functions run on; nobody has to ask, to answer or to interrupt.
FairSpec == Spec /\ \A p \in Program : WF_vars(Main(p))
-----------------------------------------------------------------------------
(* Properties *)

SameLengths(t, u) ==
    /\ \A f \in Field : Len(t.text[f]) = Len(u.text[f])
    /\ Len(t.Headers.AcceptLanguage) = Len(u.Headers.AcceptLanguage)
    /\ Len(t.Headers.Cookie) = Len(u.Headers.Cookie)

\* A request is answered with the result of its own task or of one that shares
\* its key: a task of the same type which, unless a text ends where in the
\* other one the next begins, has the same URL, selectors and headers.  Where
\* the date is read from may differ: CacheKey does not look at it.
AnswerFits ==
    \A r \in Req : ans[r] # None =>
       LET t == Payload(ask, ans[r])
           u == TaskFor(ask, r)
       IN  /\ t.TaskType = u.TaskType
           /\ SameLengths(t, u) => t.text = u.text /\ t.Headers = u.Headers

\* A request no longer waits once its task's result has been stored: the worker
\* finds the same key in the task's JSON as the handler in the task.  That needs
\* texts that are UTF-8, which nobody checks for headers and for the URL of a
\* screenshot: the result of a request with others goes to another key.
OwnAnswerArrives ==
    \A r \in put : IsUtf8Task(TaskFor(ask, r)) => req[r] # "waiting"

\* A worker that is stopping does no harm to what it leaves behind: a nil result
\* which passed for one because main and callback share err is not stored, and
\* a task that failed because connections were closed under it stays queued.
StopIsSafe ==
    /\ \A r \in Req : bucket[r] # Null
    /\ cut \subseteq queue

Plain(r) == \A i \in DOMAIN Client(ask, r)[2] : \A j \in {1, 2} :
               ~Contains(Client(ask, r)[2][i][j], " ")

StoredLast(r) == IF saved[r] = 0 THEN Client(ask, r)[2] ELSE Trimmed(SiteCookies[saved[r]])

\* A task that is run with cookies is run with those the site set last for its
\* client of which the put succeeded, names and values trimmed, or else with
\* those of its own header.  It is run without any only if its header cannot be
\* read or the store does not answer: what was stored can always be read again.
\* Clients share an entry, and get each other's cookies, only if a name or value
\* of theirs has a space in it: the hash is of the list as it is printed.
CookiesReturn ==
    [][\A r \in Req : Take(r) =>
          /\ Readable[ask][r] => GetCookies(r, TRUE) # <<>>
          /\ (\A s \in Req : SameEntry[ask][r][s] => Plain(s)) =>
                cb'.sent \in {<<>>, StoredLast(r)}]_cb

\* An interrupt ends the webserver and the worker, whatever they are at: still
\* starting, with a callback that never returns, or with handlers that wait.
SignalStops ==
    \A p \in {"web", "worker"} : signalled[p] ~> at[p] = "down"
=============================================================================
