---------------------------- MODULE RequestPool -----------------------------
(***************************************************************************)
(* How one process serves requests at the same time.  Dependencies,        *)
(* handlers and the check of a response are ordinary functions: each takes *)
(* one of the worker threads for itself, in the order of a queue, and      *)
(* gives it back.  The SQLAlchemy session takes a connection of the pool   *)
(* at its first statement and keeps it, with or without a thread, until    *)
(* commit or close.  So a request may hold a thread and wait for a         *)
(* connection, or hold a connection and wait for a thread; only the pool's *)
(* time-out breaks the circle that this may close.                         *)
(*                                                                         *)
(*   login      get_db and get_current_user: thread, then connection       *)
(*   handle     the handler: a thread; commit gives the connection back    *)
(*   reread     db.refresh, in the same thread: a connection again         *)
(*   render     the response is checked: a thread                          *)
(*   close      the session is closed, by a thread set aside for exits     *)
(*   ready      ready_check: one thread, a session of its own              *)
(*   metrics    metrics_text: one thread, no session                       *)
(*   total, sum, count    the counters record_http_metric adds to next     *)
(*   sent       the answer is on its way                                   *)
(*                                                                         *)
(* RequestContextMiddleware adds to three counters of the path, one after  *)
(* the other, on the event loop, while metrics_text may read them in a     *)
(* thread.                                                                 *)
(***************************************************************************)
EXTENDS Integers, FiniteSets, Sequences

CONSTANTS
  Requests,         \* each is sent once
  Path,             \* Path[r]: handler, ready or metrics
  Threads,          \* worker threads of the process
  PoolSize          \* pool_size and max_overflow of the engine

Paths == {"handler", "ready", "metrics"}

ASSUME PoolAssumption ==
  /\ IsFiniteSet(Requests)
  /\ Path \in [Requests -> Paths]
  /\ Threads \in Nat \ {0} /\ PoolSize \in Nat \ {0}

VARIABLES
  stage,            \* stage[r]: where r is, none before it comes
  queue,            \* requests that wait for a worker thread
  busy,             \* requests on a worker thread
  idle,             \* connections in the pool
  connected,        \* requests whose session has a connection
  counter,          \* counter[c][p]: the three counters, for each path
  page              \* page[r]: what the scrape r has read

vars == <<stage, queue, busy, idle, connected, counter, page>>

Counters == {"total", "sum", "count"}
NoPage == [c \in {} |-> 0]

PoolInit ==
  /\ stage = [r \in Requests |-> "none"]
  /\ queue = << >> /\ busy = {}
  /\ idle = PoolSize /\ connected = {}
  /\ counter = [c \in Counters |-> [p \in Paths |-> 0]]
  /\ page = [r \in Requests |-> NoPage]

-----------------------------------------------------------------------------
(* Threads *)

At(r, s) == stage[r] = s
GoTo(r, s) == stage' = [stage EXCEPT ![r] = s]

(* The next function of r is handed to the worker threads.                 *)
Enqueue(r, s) == GoTo(r, s) /\ queue' = Append(queue, r)

(* Registration, login and refresh have no get_current_user.               *)
Arrive(r) ==
  /\ At(r, "none")
  /\ \E s \in IF Path[r] = "handler" THEN {"login", "handle"} ELSE {Path[r]} :
       Enqueue(r, s)
  /\ UNCHANGED <<busy, idle, connected, counter, page>>

GrantThread ==
  /\ queue # << >>
  /\ Cardinality(busy) < Threads
  /\ busy' = busy \cup {Head(queue)}
  /\ queue' = Tail(queue)
  /\ UNCHANGED <<stage, idle, connected, counter, page>>

(* The function returns or raises. *)
Leave(r) ==
  /\ r \in busy /\ busy' = busy \ {r}
  /\ UNCHANGED <<counter, page>>

-----------------------------------------------------------------------------
(* Connections *)

NeedsConnection(r) ==
  r \in busy \ connected /\ stage[r] \in {"login", "handle", "reread", "ready"}

Checkout(r) ==
  /\ NeedsConnection(r) /\ idle > 0
  /\ idle' = idle - 1 /\ connected' = connected \cup {r}
  /\ UNCHANGED <<stage, queue, busy, counter, page>>

Return(r) ==
  /\ idle' = IF r \in connected THEN idle + 1 ELSE idle
  /\ connected' = connected \ {r}

PoolTimeoutNone == FALSE
(* pool_timeout is not None. *)
PoolTimeout == TRUE

(* No connection came in time: sqlalchemy.exc.TimeoutError, an error 500;  *)
(* ready_check catches it and answers 503.  At reread the work is          *)
(* committed all the same; analyze catches the error there and undoes its  *)
(* SUCCESS, which is left out here (Analysis!RereadFails).                 *)
TimeOut(r) ==
  /\ PoolTimeout
  /\ NeedsConnection(r) /\ idle = 0
  /\ Leave(r)
  /\ GoTo(r, IF At(r, "ready") THEN "total" ELSE "close")
  /\ UNCHANGED <<queue, idle, connected>>

-----------------------------------------------------------------------------
(* Handlers *)

Working(r, s) == At(r, s) /\ r \in busy \cap connected

(* get_current_user: the connection stays with the session.                *)
Authenticate(r) ==
  /\ Working(r, "login")
  /\ Leave(r) /\ Enqueue(r, "handle")
  /\ UNCHANGED <<idle, connected>>

RefuseUnclosed(r) ==
  /\ Working(r, "login") \/ Working(r, "handle")
  /\ Leave(r) /\ GoTo(r, "total")
  /\ UNCHANGED <<queue, idle, connected>>
(* AppError, of the dependency or of the handler. *)
Refuse(r) ==
  /\ Working(r, "login") \/ Working(r, "handle")
  /\ Leave(r) /\ GoTo(r, "close")
  /\ UNCHANGED <<queue, idle, connected>>

(* The handler returns: one that only reads, or after db.refresh.          *)
Answer(r) ==
  /\ Working(r, "handle") \/ Working(r, "reread")
  /\ Leave(r) /\ Enqueue(r, "render")
  /\ UNCHANGED <<idle, connected>>

Commit(r) ==
  /\ Working(r, "handle")
  /\ GoTo(r, "reread") /\ Return(r)
  /\ UNCHANGED <<queue, busy, counter, page>>

Render(r) ==
  /\ At(r, "render")
  /\ Leave(r) /\ GoTo(r, "close")
  /\ UNCHANGED <<queue, idle, connected>>

(* get_db's finally, however the request ended. *)
Close(r) ==
  /\ At(r, "close")
  /\ Return(r) /\ GoTo(r, "total")
  /\ UNCHANGED <<queue, busy, counter, page>>

(* The statement of ready_check, and the end of its with. *)
Probe(r) ==
  /\ Working(r, "ready")
  /\ Leave(r) /\ Return(r) /\ GoTo(r, "total")
  /\ UNCHANGED queue

-----------------------------------------------------------------------------
(* Counters *)

ReadOrderReversed == <<"count", "sum", "total">>
(* metrics_text copies the totals, then the sums, and looks each count up. *)
ReadOrder == <<"total", "sum", "count">>

Unread(r) == {i \in DOMAIN ReadOrder : ReadOrder[i] \notin DOMAIN page[r]}

Read(r) ==
  /\ At(r, "metrics") /\ r \in busy
  /\ \E i \in Unread(r) :
       LET c == ReadOrder[i]
       IN  /\ \A j \in Unread(r) : i <= j
           /\ page' = [page EXCEPT ![r] = [d \in DOMAIN page[r] \cup {c} |->
                         IF d = c THEN counter[c] ELSE page[r][d]]]
  /\ UNCHANGED <<stage, queue, busy, idle, connected, counter>>

Scrape(r) ==
  /\ At(r, "metrics") /\ Unread(r) = {}
  /\ Leave(r) /\ GoTo(r, "total")
  /\ UNCHANGED <<queue, idle, connected>>

(* record_http_metric runs on the event loop: one request at a time.       *)
LoopFree == \A q \in Requests : stage[q] \notin {"sum", "count"}

Add(r, c, next) ==
  /\ At(r, c)
  /\ counter' = [counter EXCEPT ![c][Path[r]] = @ + 1]
  /\ GoTo(r, next)
  /\ UNCHANGED <<queue, busy, idle, connected, page>>

Record(r) ==
  \/ LoopFree /\ Add(r, "total", "sum")
  \/ Add(r, "sum", "count")
  \/ Add(r, "count", "sent")

-----------------------------------------------------------------------------

(* What a request does by itself, once it has what it waits for.           *)
Work(r) ==
  \/ Authenticate(r) \/ Refuse(r) \/ Answer(r) \/ Commit(r) \/ Render(r)
  \/ Close(r) \/ Probe(r) \/ Read(r) \/ Scrape(r)

PoolNext ==
  \/ GrantThread
  \/ \E r \in Requests :
       Arrive(r) \/ Checkout(r) \/ TimeOut(r) \/ Work(r) \/ Record(r)

PoolSpec == PoolInit /\ [][PoolNext]_vars

(* The event loop and the threads run on.  A connection that is free is    *)
(* taken or, if others are faster, missed until the time-out.              *)
PoolFairness ==
  /\ WF_vars(GrantThread)
  /\ \A r \in Requests :
       /\ WF_vars(Checkout(r) \/ TimeOut(r))
       /\ WF_vars(Work(r))
       /\ WF_vars(Record(r))

PoolLiveSpec == PoolSpec /\ PoolFairness

-----------------------------------------------------------------------------
(* Properties *)

InService == {r \in Requests : stage[r] \notin {"none", "sent"}}

(* Types, and who may be where: only a request that waits has a place in   *)
(* the queue, and it has one; a session has one connection.                *)
PoolTypeOK ==
  /\ stage \in [Requests -> {"none", "login", "handle", "reread", "render", "close",
                             "ready", "metrics", "total", "sum", "count", "sent"}]
  /\ busy \subseteq InService /\ connected \subseteq InService
  /\ idle \in 0..PoolSize /\ idle + Cardinality(connected) = PoolSize

WaitsForThread(r) == r \in {queue[i] : i \in 1..Len(queue)}
Blocked(r) ==
  \/ WaitsForThread(r) /\ Cardinality(busy) = Threads
  \/ NeedsConnection(r) /\ idle = 0

(* Nothing that a request has taken outlives it, so that the process can   *)
(* come to a stand-still, until the pool's time-out, only when requests    *)
(* with a connection queue for threads while requests with a thread wait   *)
(* for connections: with 40 and 15 of them, not below 55 requests.         *)
StallNeedsCrowd ==
  (InService # {} /\ \A r \in InService : Blocked(r))
    => Cardinality(InService) >= Threads + PoolSize

(* A scrape is not a snapshot of the counters, but it never shows a        *)
(* duration count more than one behind the total or the sum it shows.      *)
ScrapeLagsByOne ==
  \A r \in Requests, p \in Paths :
    At(r, "metrics") /\ Unread(r) = {} =>
      /\ page[r]["total"][p] <= page[r]["count"][p] + 1
      /\ page[r]["sum"][p] <= page[r]["count"][p] + 1

(* Every request is answered, also one of the crowd that holds all threads *)
(* and all connections between them, and the probes of the load balancer.  *)
EveryRequestServed == \A r \in Requests : r \in InService ~> stage[r] = "sent"
=============================================================================
