----------------------------- MODULE ServingProofs -----------------------------
(***************************************************************************)
(* Theorems about how requests are admitted and served, for any number of  *)
(* requests, processes, threads and connections.  About RequestPool: no    *)
(* thread and no connection is lost, the process can come to a stand-still *)
(* only in a crowd of Threads + PoolSize requests, and a scrape is at most *)
(* one request out of date.  About RateLimit, from its own section on: how *)
(* much is admitted in a window, and that no counter outlives its window.  *)
(***************************************************************************)
EXTENDS RequestPool, RateLimit, FiniteSetTheorems, TLAPS

-----------------------------------------------------------------------------
(* RequestPool: what a request has *)

Stages == {"none", "login", "handle", "reread", "render", "close",
           "ready", "metrics", "total", "sum", "count", "sent"}

(* The requests that wait for a thread: each has one place in the queue. *)
Waiting == {queue[i] : i \in 1..Len(queue)}
QueueInv ==
  /\ queue \in Seq(Requests)
  /\ \A i, j \in 1..Len(queue) : queue[i] = queue[j] => i = j

(* What a request has, stage by stage. *)
Place(r) ==
  /\ stage[r] \in {"login", "handle", "render", "ready", "metrics"}
       => (r \in Waiting <=> r \notin busy)
  /\ stage[r] = "reread" => r \in busy /\ r \notin Waiting
  /\ stage[r] \in {"none", "close", "total", "sum", "count", "sent"}
       => r \notin Waiting /\ r \notin busy
  /\ stage[r] \in {"none", "metrics", "total", "sum", "count", "sent"}
       => r \notin connected
PlaceInv ==
  /\ stage \in [Requests -> Stages]
  /\ busy \subseteq Requests /\ connected \subseteq Requests
  /\ \A r \in Requests : Place(r)

(* Threads and connections are counted right. *)
CountInv ==
  /\ Cardinality(busy) <= Threads
  /\ idle \in Nat /\ idle + Cardinality(connected) = PoolSize

PoolInv == QueueInv /\ PlaceInv /\ CountInv

-----------------------------------------------------------------------------
(* The queue *)

(* A request that was not in the queue joins it. *)
LEMMA QueueJoined ==
  ASSUME QueueInv, NEW r \in Requests, r \notin Waiting, queue' = Append(queue, r)
  PROVE  QueueInv' /\ Waiting' = Waiting \cup {r}
<1> DEFINE n == Len(queue) + 1
<1>1. /\ Len(queue) \in Nat /\ Len(queue') = n /\ queue'[n] = r
      /\ \A i \in 1..Len(queue) : queue'[i] = queue[i]
      /\ queue' \in Seq(Requests)
  BY DEF QueueInv
<1>2. \A i : i \in 1..n <=> i \in 1..Len(queue) \/ i = n
  BY <1>1
<1>3. \A i \in 1..Len(queue) : queue[i] # r
  BY DEF Waiting
<1>4. \A i, j \in 1..n : queue'[i] = queue'[j] => i = j
  BY <1>1, <1>2, <1>3 DEF QueueInv
<1>5. \A q : q \in Waiting' <=> q \in Waiting \/ q = r
  <2>1. Waiting' = {queue'[i] : i \in 1..n}
    BY <1>1 DEF Waiting
  <2> QED
    BY <1>1, <1>2, <2>1 DEF Waiting
<1> QED
  BY <1>1, <1>4, <1>5 DEF QueueInv

(* The first of the queue leaves it. *)
LEMMA QueueLeft ==
  ASSUME QueueInv, queue # << >>, queue' = Tail(queue)
  PROVE  /\ QueueInv' /\ Head(queue) \in Waiting
         /\ Waiting' = Waiting \ {Head(queue)}
<1> DEFINE n == Len(queue)
           h == queue[1]
<1>1. /\ n \in Nat /\ n # 0 /\ Head(queue) = h /\ 1 \in 1..n
      /\ Len(queue') = n - 1 /\ queue' \in Seq(Requests)
      /\ \A i \in 1..n-1 : queue'[i] = queue[i+1] /\ i+1 \in 1..n /\ i+1 # 1
  BY DEF QueueInv
<1>2. \A i, j \in 1..n-1 : queue'[i] = queue'[j] => i = j
  BY <1>1 DEF QueueInv
<1>3. Waiting' = {queue'[i] : i \in 1..n-1}
  BY <1>1 DEF Waiting
<1>4. ASSUME NEW q \in Waiting'
      PROVE  q \in Waiting /\ q # h
  BY <1>1, <1>3, <1>4 DEF Waiting, QueueInv
<1>5. ASSUME NEW q \in Waiting, q # h
      PROVE  q \in Waiting'
  <2>1. PICK i \in 1..n : q = queue[i]
    BY DEF Waiting
  <2>2. i - 1 \in 1..n-1 /\ queue'[i-1] = q
    <3>1. i # 1
      BY <1>5, <2>1
    <3>2. i - 1 \in 1..n-1 /\ (i - 1) + 1 = i
      BY <1>1, <3>1
    <3> QED
      BY <1>1, <2>1, <3>2
  <2> QED
    BY <1>3, <2>2
<1>6. Waiting' = Waiting \ {h}
  BY <1>4, <1>5
<1> QED
  BY <1>1, <1>2, <1>6 DEF QueueInv, Waiting

-----------------------------------------------------------------------------
(* Threads and connections *)

(* Sets of requests are finite, so they can be counted. *)
LEMMA Finite ==
  ASSUME PlaceInv
  PROVE  /\ IsFiniteSet(busy) /\ IsFiniteSet(connected)
         /\ Cardinality(busy) \in Nat /\ Cardinality(connected) \in Nat
BY PoolAssumption, FS_Subset, FS_CardinalityType DEF PlaceInv

(* A thread given back leaves one fewer taken; a connection given back     *)
(* leaves one more in the pool.                                            *)
LEMMA ThreadLeft ==
  ASSUME PlaceInv, CountInv, NEW r, busy' = busy \ {r}
  PROVE  Cardinality(busy') <= Threads
<1>1. Cardinality(busy') \in {Cardinality(busy), Cardinality(busy) - 1}
  BY Finite, FS_RemoveElement
<1> QED
  BY <1>1, Finite, PoolAssumption DEF CountInv
LEMMA ConnectionReturned ==
  ASSUME PlaceInv, CountInv, NEW r \in Requests, Return(r)
  PROVE  idle' \in Nat /\ idle' + Cardinality(connected') = PoolSize
<1>1. CASE r \in connected
  <2>1. /\ Cardinality(connected') = Cardinality(connected) - 1
        /\ idle' = idle + 1
    BY <1>1, Finite, FS_RemoveElement DEF Return
  <2> QED
    BY <2>1, Finite, PoolAssumption DEF CountInv
<1>2. CASE r \notin connected
  <2>1. connected' = connected /\ idle' = idle
    BY <1>2 DEF Return
  <2> QED
    BY <2>1 DEF CountInv
<1> QED
  BY <1>1, <1>2

(* When one request moves, the others stay where they are. *)
LEMMA OthersStay ==
  ASSUME PlaceInv, NEW r \in Requests, NEW s \in Stages, GoTo(r, s),
         busy' \subseteq Requests, connected' \subseteq Requests,
         \A q \in Requests \ {r} :
           /\ q \in Waiting' <=> q \in Waiting
           /\ q \in busy' <=> q \in busy
           /\ q \in connected' <=> q \in connected,
         Place(r)'
  PROVE  PlaceInv'
<1>1. stage' \in [Requests -> Stages] /\ \A q \in Requests \ {r} : stage'[q] = stage[q]
  BY DEF GoTo, PlaceInv
<1>2. \A q \in Requests \ {r} : Place(q)'
  BY <1>1 DEF PlaceInv, Place
<1> QED
  BY <1>1, <1>2 DEF PlaceInv
-----------------------------------------------------------------------------
(* The invariant *)

(* No request has come, every thread and every connection is free. *)
LEMMA InitInv == PoolInit => PoolInv
<1> SUFFICES ASSUME PoolInit PROVE PoolInv
  OBVIOUS
<1>1. QueueInv /\ Waiting = {}
  BY DEF PoolInit, QueueInv, Waiting
<1>2. PlaceInv
  BY <1>1 DEF PoolInit, PlaceInv, Place, Stages
<1>3. CountInv
  BY PoolAssumption, FS_EmptySet DEF PoolInit, CountInv
<1> QED
  BY <1>1, <1>2, <1>3 DEF PoolInv

(* A request goes on to its next function, which waits for a thread. *)
LEMMA EnqueueKeepsInv ==
  ASSUME PoolInv, NEW r \in Requests, NEW s \in Stages, Enqueue(r, s),
         s \in {"login", "handle", "render", "ready", "metrics"},
         s = "metrics" => r \notin connected,
         (stage[r] = "none" /\ busy' = busy) \/ Leave(r),
         UNCHANGED <<idle, connected>>
  PROVE  PoolInv'
<1> USE DEF PoolInv
<1>1. r \notin Waiting /\ r \notin busy' /\ busy' = busy \ {r}
  BY DEF Leave, PlaceInv, Place, Stages
<1>2. QueueInv' /\ Waiting' = Waiting \cup {r}
  BY <1>1, QueueJoined DEF Enqueue
<1>3. stage'[r] = s
  BY DEF Enqueue, GoTo, PlaceInv
<1>4. Place(r)'
  BY <1>1, <1>2, <1>3 DEF Place
<1>5. PlaceInv'
  BY <1>1, <1>2, <1>4, OthersStay DEF Enqueue, PlaceInv
<1>6. CountInv'
  BY <1>1, ThreadLeft DEF CountInv
<1> QED
  BY <1>2, <1>5, <1>6

(* A request leaves its thread for the event loop, with its connection     *)
(* only if it has a session to close.                                      *)
LEMMA LeaveKeepsInv ==
  ASSUME PoolInv, NEW r \in Requests, NEW s \in {"close", "total"},
         Leave(r), GoTo(r, s), UNCHANGED queue,
         UNCHANGED <<idle, connected>> \/ Return(r),
         s = "total" => r \notin connected'
  PROVE  PoolInv'
<1> USE DEF PoolInv
<1>1. r \notin Waiting /\ r \notin busy' /\ busy' = busy \ {r}
  BY DEF Leave, PlaceInv, Place, Stages
<1>2. QueueInv' /\ Waiting' = Waiting
  BY DEF QueueInv, Waiting
<1>3. stage'[r] = s
  BY DEF GoTo, PlaceInv
<1>4. Place(r)'
  BY <1>1, <1>2, <1>3 DEF Place
<1>5. connected' = connected \/ connected' = connected \ {r}
  BY DEF Return
<1>6. PlaceInv'
  BY <1>1, <1>2, <1>4, <1>5, OthersStay DEF PlaceInv, Stages
<1>7. CountInv'
  BY <1>1, ThreadLeft, ConnectionReturned DEF CountInv
<1> QED
  BY <1>2, <1>6, <1>7

(* A request moves on without a change of threads. *)
LEMMA GoKeepsInv ==
  ASSUME PoolInv, NEW r \in Requests, NEW s \in Stages, GoTo(r, s),
         UNCHANGED <<queue, busy>>, UNCHANGED <<idle, connected>> \/ Return(r),
         Place(r)'
  PROVE  PoolInv'
<1> USE DEF PoolInv
<1>1. QueueInv' /\ Waiting' = Waiting
  BY DEF QueueInv, Waiting
<1>2. connected' = connected \/ connected' = connected \ {r}
  BY DEF Return
<1>3. PlaceInv'
  BY <1>1, <1>2, OthersStay DEF PlaceInv
<1>4. CountInv'
  BY ConnectionReturned DEF CountInv
<1> QED
  BY <1>1, <1>3, <1>4

(* Every step keeps the invariant. *)
LEMMA StepKeepsInv ==
  ASSUME PoolInv, [PoolNext]_vars
  PROVE  PoolInv'
<1> USE DEF PoolInv
<1>1. CASE GrantThread
  <2> DEFINE h == Head(queue)
  <2>1. QueueInv' /\ h \in Waiting /\ Waiting' = Waiting \ {h}
    BY <1>1, QueueLeft DEF GrantThread
  <2>2. h \in Requests
    BY <2>1 DEF QueueInv, Waiting
  <2>3. /\ h \notin busy /\ busy' = busy \cup {h}
        /\ stage[h] \in {"login", "handle", "render", "ready", "metrics"}
        /\ UNCHANGED <<stage, idle, connected>>
    BY <1>1, <2>1, <2>2 DEF GrantThread, PlaceInv, Place, Stages
  <2> HIDE DEF h
  <2>4. \A r \in Requests : Place(r)'
    BY <2>1, <2>2, <2>3 DEF PlaceInv, Place
  <2>5. PlaceInv'
    BY <2>2, <2>3, <2>4 DEF PlaceInv
  <2>6. Cardinality(busy') = Cardinality(busy) + 1
    BY <2>3, Finite, FS_AddElement
  <2>7. Cardinality(busy) < Threads
    BY <1>1 DEF GrantThread
  <2>8. CountInv'
    BY <2>3, <2>6, <2>7, Finite, PoolAssumption DEF CountInv
  <2> QED
    BY <2>1, <2>5, <2>8
<1>2. ASSUME NEW r \in Requests, Arrive(r)
      PROVE  PoolInv'
  <2>1. PICK s \in {"login", "handle", "ready", "metrics"} : Enqueue(r, s)
    BY <1>2, PoolAssumption DEF Arrive, Paths
  <2>2. stage[r] = "none" /\ r \notin connected
    BY <1>2 DEF Arrive, At, PlaceInv, Place
  <2> QED
    BY <1>2, <2>1, <2>2, EnqueueKeepsInv DEF Arrive, Stages
<1>3. ASSUME NEW r \in Requests, Authenticate(r) \/ Answer(r)
      PROVE  PoolInv'
  <2>1. PICK s \in {"handle", "render"} : Enqueue(r, s)
    BY <1>3 DEF Authenticate, Answer
  <2> QED
    BY <1>3, <2>1, EnqueueKeepsInv DEF Authenticate, Answer, Stages
<1>4. ASSUME NEW r \in Requests, TimeOut(r)
      PROVE  PoolInv'
  BY <1>4, LeaveKeepsInv DEF TimeOut, NeedsConnection
<1>5. ASSUME NEW r \in Requests, Refuse(r) \/ Render(r) \/ Probe(r)
      PROVE  PoolInv'
  BY <1>5, LeaveKeepsInv DEF Refuse, Render, Probe, Return
<1>6. ASSUME NEW r \in Requests, Scrape(r)
      PROVE  PoolInv'
  <2>1. r \notin connected
    BY <1>6 DEF Scrape, At, PlaceInv, Place
  <2> QED
    BY <1>6, <2>1, LeaveKeepsInv DEF Scrape
<1>7. ASSUME NEW r \in Requests, Checkout(r)
      PROVE  PoolInv'
  <2>1. /\ r \in busy /\ r \notin connected
        /\ stage[r] \in {"login", "handle", "reread", "ready"}
        /\ idle > 0 /\ idle' = idle - 1 /\ connected' = connected \cup {r}
        /\ UNCHANGED <<stage, queue, busy>>
    BY <1>7 DEF Checkout, NeedsConnection
  <2>2. QueueInv' /\ Waiting' = Waiting
    BY <2>1 DEF QueueInv, Waiting
  <2>3. PlaceInv'
    BY <2>1, <2>2 DEF PlaceInv, Place
  <2>4. Cardinality(connected') = Cardinality(connected) + 1
    BY <2>1, Finite, FS_AddElement
  <2>5. CountInv'
    BY <2>1, <2>4, Finite, PoolAssumption DEF CountInv
  <2> QED
    BY <2>2, <2>3, <2>5
<1>8. ASSUME NEW r \in Requests, Commit(r)
      PROVE  PoolInv'
  <2>1. /\ stage[r] = "handle" /\ r \in busy /\ Return(r) /\ GoTo(r, "reread")
        /\ UNCHANGED <<queue, busy>>
    BY <1>8 DEF Commit, Working, At
  <2>2. stage'[r] = "reread" /\ r \notin Waiting'
    BY <2>1 DEF GoTo, PlaceInv, Place, Waiting
  <2>3. Place(r)'
    BY <2>1, <2>2 DEF Place
  <2> QED
    BY <2>1, <2>3, GoKeepsInv DEF Stages
<1>9. ASSUME NEW r \in Requests, Close(r)
      PROVE  PoolInv'
  <2>1. /\ stage[r] = "close" /\ Return(r) /\ GoTo(r, "total")
        /\ UNCHANGED <<queue, busy>>
    BY <1>9 DEF Close, At
  <2>2. stage'[r] = "total" /\ r \notin Waiting' /\ r \notin busy' /\ r \notin connected'
    BY <2>1 DEF GoTo, PlaceInv, Place, Waiting, Return
  <2>3. Place(r)'
    BY <2>2 DEF Place
  <2> QED
    BY <2>1, <2>3, GoKeepsInv DEF Stages
<1>10. ASSUME NEW r \in Requests, Record(r)
       PROVE  PoolInv'
  <2>1. PICK c \in Counters, s \in {"sum", "count", "sent"} : Add(r, c, s)
    BY <1>10 DEF Record, Counters
  <2>2. /\ stage[r] = c /\ GoTo(r, s)
        /\ UNCHANGED <<queue, busy, idle, connected>>
    BY <2>1 DEF Add, At
  <2>3. stage'[r] = s /\ r \notin Waiting' /\ r \notin busy' /\ r \notin connected'
    BY <2>2 DEF GoTo, PlaceInv, Place, Waiting, Counters
  <2>4. Place(r)'
    BY <2>3 DEF Place
  <2> QED
    BY <2>2, <2>4, GoKeepsInv DEF Stages
<1>11. CASE UNCHANGED <<stage, queue, busy, idle, connected>>
  BY <1>11 DEF QueueInv, PlaceInv, Place, CountInv, Waiting
<1> QED
  BY <1>1, <1>2, <1>3, <1>4, <1>5, <1>6, <1>7, <1>8, <1>9, <1>10, <1>11
  DEF PoolNext, Work, Read, vars

(* The invariant holds throughout. *)
LEMMA Invariance == PoolSpec => []PoolInv
<1>1. PoolInv /\ [PoolNext]_vars => PoolInv'
  BY StepKeepsInv
<1> QED
  BY <1>1, InitInv, PTL DEF PoolSpec

(* Whoever has a thread or a connection is in service, and every           *)
(* connection is in the pool or with one session: none is lost, however    *)
(* requests fail or time out (database.py:18-24, dependencies.py:15-17).   *)
THEOREM PoolTypeCorrect == PoolSpec => []PoolTypeOK
<1>1. ASSUME PoolInv
      PROVE  PoolTypeOK
  <2>1. stage \in [Requests -> Stages]
    BY <1>1 DEF PoolInv, PlaceInv
  <2>2. busy \subseteq InService /\ connected \subseteq InService
    BY <1>1 DEF PoolInv, PlaceInv, Place, InService
  <2>3. idle \in 0..PoolSize /\ idle + Cardinality(connected) = PoolSize
    BY <1>1, Finite, PoolAssumption DEF PoolInv, CountInv
  <2> QED
    BY <2>1, <2>2, <2>3 DEF PoolTypeOK, Stages
<1> QED
  BY <1>1, Invariance, PTL

(* Below Threads + PoolSize requests in service somebody can always go on  *)
(* without the pool's time-out.                                            *)
THEOREM StallsNeedCrowds == PoolSpec => []StallNeedsCrowd
<1>1. ASSUME PoolInv, InService # {}, \A r \in InService : Blocked(r)
      PROVE  Cardinality(InService) >= Threads + PoolSize
  <2> USE DEF PoolInv
  <2>1. /\ busy \subseteq InService /\ connected \subseteq InService
        /\ InService \subseteq Requests
    BY <1>1 DEF PlaceInv, Place, InService
  <2>2. \A r \in InService :
          \/ r \in Waiting /\ Cardinality(busy) = Threads
          \/ r \in busy \ connected /\ idle = 0
    BY <1>1 DEF Blocked, WaitsForThread, Waiting, NeedsConnection
  <2>3. busy \cap Waiting = {}
    BY <1>1 DEF PlaceInv, Place, Stages
  <2>4. busy \cap connected = {}
    BY <2>1, <2>2, <2>3
  <2>5. Cardinality(busy) = Threads => idle = 0
    <3>1. CASE busy = {}
      BY <3>1, FS_EmptySet, PoolAssumption
    <3>2. CASE busy # {}
      BY <2>1, <2>2, <2>3, <3>2
    <3> QED
      BY <3>1, <3>2
  <2>6. idle = 0 => Cardinality(busy) = Threads
    <3>1. CASE connected = {}
      BY <1>1, <3>1, FS_EmptySet, PoolAssumption DEF CountInv
    <3>2. CASE connected # {}
      BY <2>1, <2>2, <3>2
    <3> QED
      BY <3>1, <3>2
  <2>7. Cardinality(busy) = Threads /\ Cardinality(connected) = PoolSize
    <3>1. idle = 0 /\ Cardinality(busy) = Threads
      BY <1>1, <2>2, <2>5, <2>6
    <3>2. Cardinality(connected) \in Nat
      BY <1>1, Finite
    <3> QED
      BY <1>1, <3>1, <3>2 DEF CountInv
  <2>8. Cardinality(busy \cup connected) = Threads + PoolSize
    <3>1. Cardinality(busy \cap connected) = 0
      BY <2>4, FS_EmptySet
    <3>2. Cardinality(busy \cup connected)
            = Cardinality(busy) + Cardinality(connected) - Cardinality(busy \cap connected)
      BY <1>1, Finite, FS_Union
    <3> QED
      BY <2>7, <3>1, <3>2, PoolAssumption
  <2>9. /\ IsFiniteSet(InService)
        /\ Cardinality(busy \cup connected) <= Cardinality(InService)
        /\ Cardinality(InService) \in Nat
    BY <2>1, PoolAssumption, FS_Subset, FS_CardinalityType
  <2> QED
    BY <2>8, <2>9, PoolAssumption
<1> QED
  BY <1>1, Invariance, PTL DEF StallNeedsCrowd

-----------------------------------------------------------------------------
(* Counters and scrapes *)

(* record_http_metric is between its first and its last counter for r. *)
Recording(r) == stage[r] \in {"sum", "count"}

(* The event loop records one request at a time, so a path's counters are  *)
(* equal except while one request of the path is recorded: then the total, *)
(* and next the sum, is one ahead.                                         *)
LagsByOne(p) ==
  LET n == counter["count"][p]
  IN  /\ (\A r \in Requests : Path[r] = p => ~Recording(r))
           => counter["total"][p] = n /\ counter["sum"][p] = n
      /\ \A r \in Requests : Path[r] = p =>
           /\ stage[r] = "sum" => counter["total"][p] = n + 1 /\ counter["sum"][p] = n
           /\ stage[r] = "count" => counter["total"][p] = n + 1 /\ counter["sum"][p] = n + 1
CounterInv ==
  /\ counter \in [Counters -> [Paths -> Nat]]
  /\ \A q, r \in Requests : Recording(q) /\ Recording(r) => q = r
  /\ \A p \in Paths : LagsByOne(p)

(* What a scrape has read: no number that a counter has not reached yet,   *)
(* and with the counts, which come last, the totals and the sums.          *)
PageIsPast(r) ==
  /\ DOMAIN page[r] \subseteq Counters
  /\ \A c \in DOMAIN page[r], p \in Paths :
       page[r][c][p] \in Nat /\ page[r][c][p] <= counter[c][p]
  /\ "count" \in DOMAIN page[r] =>
       /\ DOMAIN page[r] = Counters
       /\ \A c \in Counters, p \in Paths : page[r][c][p] <= page[r]["count"][p] + 1
PageInv ==
  /\ DOMAIN page = Requests
  /\ \A r \in Requests : PageIsPast(r)

(* A step of the event loop that adds to a counter of the request's path.  *)
LEMMA AddKeepsCounters ==
  ASSUME PlaceInv, CounterInv, NEW r \in Requests, Record(r)
  PROVE  CounterInv'
<1> DEFINE p == Path[r]
<1>1. p \in Paths /\ Counters = {"total", "sum", "count"}
  BY PoolAssumption DEF Counters
<1>2. \A c \in Counters, q \in Paths : counter[c][q] \in Nat
  BY DEF CounterInv
<1>3. \A q \in Requests \ {r} : stage'[q] = stage[q]
  BY DEF Record, Add, GoTo, PlaceInv
<1>4. \A c \in Counters, s \in Stages : Add(r, c, s) =>
        /\ stage[r] = c /\ stage'[r] = s
        /\ counter' \in [Counters -> [Paths -> Nat]]
        /\ counter'[c][p] = counter[c][p] + 1
        /\ \A d \in Counters, q \in Paths :
             d # c \/ q # p => counter'[d][q] = counter[d][q]
  BY <1>1, <1>2 DEF Add, At, GoTo, PlaceInv, CounterInv
<1>5. CASE LoopFree /\ Add(r, "total", "sum")
  <2>1. /\ stage[r] = "total" /\ stage'[r] = "sum"
        /\ counter' \in [Counters -> [Paths -> Nat]]
        /\ counter'["total"][p] = counter["total"][p] + 1
        /\ \A d \in Counters, q \in Paths :
             d # "total" \/ q # p => counter'[d][q] = counter[d][q]
    BY <1>1, <1>4, <1>5 DEF Stages
  <2>2. \A q \in Requests : ~Recording(q)
    BY <1>5 DEF LoopFree, Recording
  <2>3. \A q \in Requests : Recording(q)' <=> q = r
    BY <1>3, <2>1, <2>2 DEF Recording
  <2>4. \A q \in Paths : counter["total"][q] = counter["count"][q]
                           /\ counter["sum"][q] = counter["count"][q]
    BY <2>2 DEF CounterInv, LagsByOne
  <2>5. ASSUME NEW q \in Paths
        PROVE  LagsByOne(q)'
    <3>1. CASE q = p
      <4>1. /\ counter'["total"][q] = counter'["count"][q] + 1
            /\ counter'["sum"][q] = counter'["count"][q]
        BY <1>1, <2>1, <2>4, <3>1
      <4>2. \A s \in Requests : Path[s] = q => stage'[s] # "count"
        BY <2>1, <2>3 DEF Recording
      <4> QED
        BY <2>1, <2>3, <3>1, <4>1, <4>2 DEF LagsByOne
    <3>2. CASE q # p
      <4>1. /\ counter'["total"][q] = counter'["count"][q]
            /\ counter'["sum"][q] = counter'["count"][q]
        BY <1>1, <2>1, <2>4, <3>2
      <4>2. \A s \in Requests : Path[s] = q => ~Recording(s)'
        BY <2>3, <3>2
      <4> QED
        BY <4>1, <4>2 DEF LagsByOne, Recording
    <3> QED
      BY <3>1, <3>2
  <2> QED
    BY <2>1, <2>3, <2>5 DEF CounterInv
<1>6. CASE Add(r, "sum", "count") \/ Add(r, "count", "sent")
  <2>1. PICK c \in {"sum", "count"}, n \in {"count", "sent"} :
          Add(r, c, n) /\ (c = "sum" <=> n = "count")
    BY <1>6
  <2>2. /\ stage[r] = c /\ stage'[r] = n
        /\ counter' \in [Counters -> [Paths -> Nat]]
        /\ counter'[c][p] = counter[c][p] + 1
        /\ \A d \in Counters, q \in Paths :
             d # c \/ q # p => counter'[d][q] = counter[d][q]
    BY <1>1, <1>4, <2>1 DEF Stages
  <2>3. \A q \in Requests \ {r} : ~Recording(q) /\ ~Recording(q)'
    BY <1>3, <2>2 DEF CounterInv, Recording
  <2>4. ASSUME NEW q \in Paths
        PROVE  LagsByOne(q)'
    <3>1. CASE q = p
      <4>1. /\ counter["total"][p] = counter["count"][p] + 1
            /\ counter["sum"][p] = IF c = "sum" THEN counter["count"][p]
                                                ELSE counter["count"][p] + 1
        BY <1>1, <2>2 DEF CounterInv, LagsByOne
      <4>2. CASE c = "sum"
        BY <1>1, <1>2, <2>1, <2>2, <2>3, <3>1, <4>1, <4>2 DEF LagsByOne, Recording
      <4>3. CASE c = "count"
        BY <1>1, <1>2, <2>1, <2>2, <2>3, <3>1, <4>1, <4>3 DEF LagsByOne, Recording
      <4> QED
        BY <4>2, <4>3
    <3>2. CASE q # p
      <4>1. \A d \in Counters : counter'[d][q] = counter[d][q]
        BY <2>2, <3>2
      <4>2. \A s \in Requests : Path[s] = q => ~Recording(s) /\ ~Recording(s)'
        BY <2>3, <3>2
      <4> QED
        BY <1>1, <4>1, <4>2 DEF CounterInv, LagsByOne, Recording
    <3> QED
      BY <3>1, <3>2
  <2>5. \A q, s \in Requests : Recording(q)' /\ Recording(s)' => q = s
    BY <2>3
  <2> QED
    BY <2>2, <2>4, <2>5 DEF CounterInv
<1> QED
  BY <1>5, <1>6 DEF Record

(* Every other step leaves the counters, and who is recorded, alone. *)
LEMMA StepKeepsCounters ==
  ASSUME PlaceInv, CounterInv, [PoolNext]_vars
  PROVE  CounterInv'
<1>1. ASSUME UNCHANGED counter,
             \A q \in Requests : stage'[q] = stage[q] \/ (~Recording(q) /\ ~Recording(q)')
      PROVE  CounterInv'
  <2>1. \A q \in Requests : Recording(q)' <=> Recording(q)
    BY <1>1 DEF Recording
  <2>2. \A p \in Paths : LagsByOne(p)'
    BY <1>1, <2>1 DEF CounterInv, LagsByOne, Recording
  <2> QED
    BY <1>1, <2>1, <2>2 DEF CounterInv
<1>2. ASSUME NEW r \in Requests, UNCHANGED counter, ~Recording(r),
             \E s \in Stages \ {"sum", "count"} : GoTo(r, s)
      PROVE  CounterInv'
  BY <1>1, <1>2 DEF GoTo, PlaceInv, Recording
<1>3. ASSUME NEW r \in Requests, Arrive(r)
      PROVE  CounterInv'
  <2>1. PICK s \in {"login", "handle", "ready", "metrics"} : GoTo(r, s)
    BY <1>3, PoolAssumption DEF Arrive, Enqueue, Paths
  <2> QED
    BY <1>2, <1>3, <2>1 DEF Arrive, At, Recording, Stages
<1>4. ASSUME NEW r \in Requests, TimeOut(r)
      PROVE  CounterInv'
  BY <1>2, <1>4 DEF TimeOut, NeedsConnection, Leave, Recording, Stages
<1>5. ASSUME NEW r \in Requests,
             Authenticate(r) \/ Refuse(r) \/ Answer(r) \/ Commit(r) \/ Render(r)
               \/ Close(r) \/ Probe(r) \/ Scrape(r)
      PROVE  CounterInv'
  BY <1>2, <1>5
  DEF Authenticate, Refuse, Answer, Commit, Render, Close, Probe, Scrape, Leave,
      Enqueue, Working, At, Recording, Stages
<1>6. CASE UNCHANGED <<stage, counter>>
  BY <1>1, <1>6
<1> QED
  BY <1>3, <1>4, <1>5, <1>6, AddKeepsCounters
  DEF PoolNext, Work, Read, GrantThread, Checkout, vars

(* Counters only grow. *)
LEMMA CountersGrow ==
  ASSUME CounterInv, [PoolNext]_vars
  PROVE  \A c \in Counters, p \in Paths : counter[c][p] <= counter'[c][p]
<1>1. \A c \in Counters, p \in Paths : counter[c][p] \in Nat
  BY DEF CounterInv
<1>2. ASSUME NEW r \in Requests, Record(r)
      PROVE  \A c \in Counters, p \in Paths : counter[c][p] <= counter'[c][p]
  <2>1. PICK d \in Counters, s \in Stages : Add(r, d, s)
    BY <1>2 DEF Record, Counters, Stages
  <2>2. \A c \in Counters, p \in Paths :
          counter'[c][p] \in {counter[c][p], counter[c][p] + 1}
    BY <2>1, PoolAssumption DEF Add, CounterInv
  <2> QED
    BY <1>1, <2>2
<1>3. CASE UNCHANGED counter
  BY <1>1, <1>3
<1> QED
  BY <1>2, <1>3
  DEF PoolNext, Work, GrantThread, Arrive, Checkout, TimeOut, Authenticate, Refuse,
      Answer, Commit, Render, Close, Probe, Read, Scrape, Leave, vars

(* A page that is not added to stays in the past. *)
LEMMA PageStaysPast ==
  ASSUME CounterInv, CounterInv', [PoolNext]_vars,
         NEW r \in Requests, PageIsPast(r), page'[r] = page[r]
  PROVE  PageIsPast(r)'
<1>1. \A c \in Counters, p \in Paths :
        /\ counter[c][p] \in Nat /\ counter'[c][p] \in Nat
        /\ counter[c][p] <= counter'[c][p]
  BY CountersGrow DEF CounterInv
<1>2. \A c \in DOMAIN page[r], p \in Paths : page'[r][c][p] <= counter'[c][p]
  BY <1>1 DEF PageIsPast
<1> QED
  BY <1>2 DEF PageIsPast

(* The scrape reads its next counter; at the counts it has the others. *)
LEMMA ReadKeepsPage ==
  ASSUME CounterInv, NEW r \in Requests, DOMAIN page = Requests, PageIsPast(r), Read(r)
  PROVE  PageIsPast(r)'
<1>1. PICK i \in Unread(r) :
        /\ \A j \in Unread(r) : i <= j
        /\ page' = [page EXCEPT ![r] =
                      [d \in DOMAIN page[r] \cup {ReadOrder[i]} |->
                         IF d = ReadOrder[i] THEN counter[ReadOrder[i]] ELSE page[r][d]]]
  BY DEF Read
<1> DEFINE c == ReadOrder[i]
<1>2. /\ DOMAIN ReadOrder = 1..3
      /\ ReadOrder[1] = "total" /\ ReadOrder[2] = "sum" /\ ReadOrder[3] = "count"
  BY DEF ReadOrder
<1>3. i \in 1..3 /\ c \in Counters /\ c \notin DOMAIN page[r]
  BY <1>1, <1>2 DEF Unread, Counters
<1>4. c = "count" => {"total", "sum"} \subseteq DOMAIN page[r]
  <2> SUFFICES ASSUME c = "count", NEW j \in {1, 2}, ReadOrder[j] \notin DOMAIN page[r]
               PROVE  FALSE
    BY <1>2
  <2>1. j \in Unread(r)
    BY <1>2 DEF Unread
  <2>2. i <= j
    BY <1>1, <2>1
  <2>3. i = 3
    BY <1>2, <1>3
  <2> QED
    BY <2>2, <2>3
<1>5. page'[r] = [d \in DOMAIN page[r] \cup {c} |-> IF d = c THEN counter[c] ELSE page[r][d]]
  BY <1>1
<1> HIDE DEF c
<1>6. DOMAIN page'[r] = DOMAIN page[r] \cup {c} /\ page'[r][c] = counter[c]
      /\ \A d \in DOMAIN page[r] : page'[r][d] = page[r][d]
  BY <1>3, <1>5
<1>7. \A d \in Counters, p \in Paths : counter[d][p] \in Nat
  BY DEF CounterInv
<1>8. counter' = counter
  BY DEF Read
<1>9. \A d \in DOMAIN page'[r], p \in Paths :
        page'[r][d][p] \in Nat /\ page'[r][d][p] <= counter'[d][p]
  BY <1>3, <1>6, <1>7, <1>8 DEF PageIsPast
<1>10. ASSUME "count" \in DOMAIN page'[r]
       PROVE  /\ DOMAIN page'[r] = Counters
              /\ \A d \in Counters, p \in Paths : page'[r][d][p] <= page'[r]["count"][p] + 1
  <2>1. c = "count"
    BY <1>3, <1>6, <1>10 DEF PageIsPast
  <2>2. DOMAIN page'[r] = Counters
    BY <1>4, <1>6, <2>1 DEF PageIsPast, Counters
  <2>3. \A d \in Counters, p \in Paths : counter[d][p] <= counter["count"][p] + 1
    <3> SUFFICES ASSUME NEW p \in Paths
                 PROVE  /\ counter["total"][p] <= counter["count"][p] + 1
                        /\ counter["sum"][p] <= counter["count"][p] + 1
      BY <1>7 DEF Counters
    <3>1. counter["count"][p] \in Nat /\ LagsByOne(p)
      BY <1>7 DEF CounterInv, Counters
    <3>2. CASE \A q \in Requests : Path[q] = p => ~Recording(q)
      BY <3>1, <3>2 DEF LagsByOne
    <3>3. CASE \E q \in Requests : Path[q] = p /\ Recording(q)
      BY <3>1, <3>3 DEF LagsByOne, Recording
    <3> QED
      BY <3>2, <3>3
  <2>4. \A d \in Counters, p \in Paths :
          /\ page'[r][d][p] \in Nat /\ page'[r][d][p] <= counter[d][p]
          /\ page'[r]["count"][p] = counter["count"][p]
    BY <1>6, <1>8, <1>9, <2>1, <2>2
  <2>5. \A d \in Counters, p \in Paths : page'[r][d][p] <= page'[r]["count"][p] + 1
    BY <1>7, <2>3, <2>4 DEF Counters
  <2> QED
    BY <2>2, <2>5
<1>11. DOMAIN page'[r] \subseteq Counters
  BY <1>3, <1>6 DEF PageIsPast
<1> QED
  BY <1>9, <1>10, <1>11 DEF PageIsPast

(* Every step keeps the pages in the past of the counters. *)
LEMMA StepKeepsPages ==
  ASSUME CounterInv, CounterInv', PageInv, [PoolNext]_vars
  PROVE  PageInv'
<1>1. ASSUME NEW r \in Requests, Read(r)
      PROVE  PageInv'
  <2>1. DOMAIN page' = Requests /\ \A q \in Requests \ {r} : page'[q] = page[q]
    BY <1>1 DEF Read, PageInv
  <2> QED
    BY <1>1, <2>1, ReadKeepsPage, PageStaysPast DEF PageInv
<1>2. CASE UNCHANGED page
  BY <1>2, PageStaysPast DEF PageInv
<1> QED
  BY <1>1, <1>2
  DEF PoolNext, Work, Record, Add, GrantThread, Arrive, Checkout, TimeOut,
      Authenticate, Refuse, Answer, Commit, Render, Close, Probe, Scrape, Leave, vars

(* A scrape may show a path's requests and their durations at different    *)
(* moments, but the duration count is never more than one behind, for any  *)
(* number of requests that finish meanwhile (observability.py:62-83).      *)
THEOREM ScrapesLagByOne == PoolSpec => []ScrapeLagsByOne
<1>1. PoolInit => CounterInv /\ PageInv
  <2> SUFFICES ASSUME PoolInit PROVE CounterInv /\ PageInv
    OBVIOUS
  <2>1. \A r \in Requests : stage[r] = "none" /\ page[r] = NoPage
    BY DEF PoolInit
  <2>2. DOMAIN NoPage = {}
    BY DEF NoPage
  <2>3. CounterInv
    BY <2>1 DEF PoolInit, CounterInv, LagsByOne, Recording, Counters
  <2>4. PageInv
    BY <2>1, <2>2 DEF PoolInit, PageInv, PageIsPast
  <2> QED
    BY <2>3, <2>4
<1>2. PoolInv => PlaceInv
  BY DEF PoolInv
<1>3. PlaceInv /\ CounterInv /\ [PoolNext]_vars => CounterInv'
  BY StepKeepsCounters
<1>4. CounterInv /\ CounterInv' /\ PageInv /\ [PoolNext]_vars => PageInv'
  BY StepKeepsPages
<1>5. PageInv => ScrapeLagsByOne
  <2> SUFFICES ASSUME PageInv, NEW r \in Requests, NEW p \in Paths, Unread(r) = {}
               PROVE  /\ page[r]["total"][p] <= page[r]["count"][p] + 1
                      /\ page[r]["sum"][p] <= page[r]["count"][p] + 1
    BY DEF ScrapeLagsByOne
  <2>1. 3 \in DOMAIN ReadOrder /\ ReadOrder[3] = "count"
    BY DEF ReadOrder
  <2>2. "count" \in DOMAIN page[r]
    BY <2>1 DEF Unread
  <2> QED
    BY <2>2 DEF PageInv, PageIsPast, Counters
<1> QED
  BY <1>1, <1>2, <1>3, <1>4, <1>5, Invariance, PTL DEF PoolSpec

-----------------------------------------------------------------------------
(* RateLimit: the invariant *)

(* The first second after the window w. *)
Ends(w) == w * Window + Window

(* The checks of k under way that named the window w; those of them that   *)
(* INCR has yet to count, and those that it has counted within the limit.  *)
UnderWay(k, w) ==
  {p \in Processes : check[p].key = k /\ WindowOf(check[p].since) = w}
Uncounted(k, w) == {p \in UnderWay(k, w) : check[p].count = 0}
Accepted(k, w) == {p \in UnderWay(k, w) : check[p].count \in 1..Limit[k]}

(* What the window w has admitted and will admit without another INCR.     *)
Granted(k, w) == Cardinality(InWindow(admitted, k, w)) + Cardinality(Accepted(k, w))

(* A window may see a second bucket, when the first has expired under a    *)
(* check that is late, but not a third: by then no check is late enough.   *)
InFirstBucket(k, w) ==
  /\ Granted(k, w) <= bucket[k][w].count /\ Granted(k, w) <= Limit[k]
  /\ bucket[k][w].expires # Never => Ends(w) <= bucket[k][w].expires
InSecondBucket(k, w) ==
  /\ Ends(w) <= now
  /\ Granted(k, w) <= Limit[k] + bucket[k][w].count /\ Granted(k, w) <= 2 * Limit[k]
  /\ Granted(k, w) + Cardinality(Uncounted(k, w)) <= Limit[k] + Cardinality(Processes)
  /\ bucket[k][w].expires # Never => Ends(w) + Window <= bucket[k][w].expires
AfterItsBuckets(k, w) ==
  /\ Ends(w) + Window <= now
  /\ UnderWay(k, w) = {}
  /\ Granted(k, w) <= 2 * Limit[k]
  /\ Granted(k, w) <= Limit[k] + Cardinality(Processes)
WindowInv(k, w) ==
  /\ InFirstBucket(k, w) \/ InSecondBucket(k, w) \/ AfterItsBuckets(k, w)
  /\ bucket[k][w].count + Cardinality(Uncounted(k, w)) <= Cardinality(InWindow(asked, k, w))
SharedInv == \A k \in Keys, w \in Windows : WindowInv(k, w)

(* No check is under way for longer than its calls may take. *)
InTime ==
  \A p \in Processes :
    IF check[p].key = NoKey THEN check[p] = Idle
    ELSE check[p].since <= now /\ now <= check[p].since + Patience

(* A process that counts by itself, whose count of the window up to end is *)
(* given: what it admits in that window, in the one before and in any      *)
(* stretch as long as a window.                                            *)
KeptBy(history, p, k, end, count, t) ==
  LET Admitted(first, last) == Cardinality(Between(history, p, k, first, last))
  IN  /\ end <= t + Window
      /\ \A c \in history : c.by = p /\ c.key = k => c.at < end
      /\ Admitted(end - Window, end - 1) <= count
      /\ Admitted(end - Window, end - 1) <= Limit[k]
      /\ Admitted(end - 2 * Window, end - Window - 1) <= Limit[k]
      /\ \A s \in Times : Admitted(s, s + Window - 1) <= 2 * Limit[k]
OwnInv(p, k) ==
  LET end == memory[p][k].resetAt
      count == memory[p][k].count
  IN  /\ KeptBy(admitted, p, k, end, count, now)
      /\ count <= Cardinality(Between(asked, p, k, end - Window, end - 1))
MemoryKept(p) ==
  IF backend[p] = "memory" THEN \A k \in Keys : OwnInv(p, k)
  ELSE \A c \in admitted : c.by # p
MemoryInv == \A p \in Processes : MemoryKept(p)

(* A history is finite, and its marks of the same time have the numbers    *)
(* from 1 on.                                                              *)
Numbered(history) ==
  /\ IsFiniteSet(history)
  /\ \A c \in history :
       /\ c.nr \in Nat
       /\ c.nr <= Cardinality(Between(history, c.by, c.key, c.at, c.at))

LimitInv ==
  /\ Numbered(asked) /\ Numbered(admitted)
  /\ InTime /\ SharedInv /\ MemoryInv

-----------------------------------------------------------------------------
(* RateLimit: types *)

(* A second lies in the window that is named after it. *)
LEMMA WindowBounds ==
  ASSUME NEW t \in Nat
  PROVE  LET w == WindowOf(t)
         IN  /\ w \in Nat /\ Ends(w) \in Nat
             /\ Ends(w) - Window <= t /\ t < Ends(w)
BY LimitAssumption, Z3 DEF WindowOf, Ends

(* Windows are numbers. *)
LEMMA WindowsAreNumbers == \A w \in Windows : w \in Nat /\ Ends(w) \in Nat
<1> SUFFICES ASSUME NEW t \in Times
             PROVE  WindowOf(t) \in Nat /\ Ends(WindowOf(t)) \in Nat
  BY DEF Windows
<1>1. t \in Nat
  BY LimitAssumption DEF Times
<1> QED
  BY <1>1, WindowBounds

(* A part of a finite set is counted, and counts no more than the whole. *)
LEMMA PartCounts ==
  ASSUME NEW T, IsFiniteSet(T), NEW S, S \subseteq T
  PROVE  /\ IsFiniteSet(S) /\ Cardinality(S) \in Nat /\ Cardinality(T) \in Nat
         /\ Cardinality(S) <= Cardinality(T)
BY FS_Subset, FS_CardinalityType

(* A mark is new to its history, which stays numbered with it. *)
LEMMA Marked ==
  ASSUME NEW h, Numbered(h), NEW s, NEW k, NEW t \in Nat
  PROVE  /\ Numbered(Count(h, s, k, t))
         /\ \E m : /\ m \notin h /\ Count(h, s, k, t) = h \cup {m}
                   /\ m.by = s /\ m.key = k /\ m.at = t
                   /\ s \in Tallies /\ k \in Keys /\ t \in Times => m \in Mark
<1> DEFINE G == Between(h, s, k, t, t)
           n == Cardinality(G)
           m == [by |-> s, key |-> k, at |-> t, nr |-> n + 1]
           g == h \cup {m}
<1>1. IsFiniteSet(h) /\ IsFiniteSet(G) /\ n \in Nat
  <2>1. G \subseteq h
    BY DEF Between
  <2> QED
    BY <2>1, FS_Subset, FS_CardinalityType DEF Numbered
<1>2. m \notin h
  <2> SUFFICES ASSUME m \in h PROVE FALSE
    OBVIOUS
  <2>1. m.nr <= Cardinality(Between(h, m.by, m.key, m.at, m.at))
    BY DEF Numbered
  <2>2. n + 1 <= n
    BY <2>1
  <2> QED
    BY <1>1, <2>2
<1>3. IsFiniteSet(g)
  BY <1>1, FS_AddElement
<1>4. ASSUME NEW c \in g
      PROVE  c.nr \in Nat /\ c.nr <= Cardinality(Between(g, c.by, c.key, c.at, c.at))
  <2> HIDE DEF g
  <2>1. CASE c \in h
    <3>1. /\ c.nr \in Nat
          /\ c.nr <= Cardinality(Between(h, c.by, c.key, c.at, c.at))
      BY <2>1 DEF Numbered
    <3>2. /\ Between(h, c.by, c.key, c.at, c.at) \subseteq Between(g, c.by, c.key, c.at, c.at)
          /\ Between(g, c.by, c.key, c.at, c.at) \subseteq g
      BY DEF Between, g
    <3> DEFINE old == Between(h, c.by, c.key, c.at, c.at)
               new == Between(g, c.by, c.key, c.at, c.at)
    <3> HIDE DEF old, new
    <3>3. old \subseteq new /\ new \subseteq g
      BY <3>2 DEF old, new
    <3>4. IsFiniteSet(new)
      BY <1>3, <3>3, PartCounts
    <3>5. /\ Cardinality(old) \in Nat /\ Cardinality(new) \in Nat
          /\ Cardinality(old) <= Cardinality(new)
      BY <3>3, <3>4, PartCounts
    <3>6. c.nr <= Cardinality(old)
      BY <3>1 DEF old
    <3>7. c.nr <= Cardinality(new)
      BY <3>1, <3>5, <3>6
    <3> QED
      BY <3>1, <3>7 DEF new
  <2>2. CASE c = m
    <3>1. c.nr = n + 1 /\ c.by = s /\ c.key = k /\ c.at = t
      BY <2>2
    <3> HIDE DEF m
    <3>2. Between(g, s, k, t, t) = G \cup {m} /\ m \notin G
      BY <1>2, <2>2, <3>1 DEF Between, g
    <3> HIDE DEF G
    <3>3. Cardinality(Between(g, s, k, t, t)) = n + 1
      BY <1>1, <3>2, FS_AddElement
    <3> QED
      BY <1>1, <3>1, <3>3
  <2> QED
    BY <2>1, <2>2 DEF g
<1>5. Count(h, s, k, t) = g
  BY DEF Count
<1>6. s \in Tallies /\ k \in Keys /\ t \in Times => m \in Mark
  BY <1>1 DEF Mark
<1>7. Numbered(g)
  BY <1>3, <1>4 DEF Numbered
<1>8. m.by = s /\ m.key = k /\ m.at = t
  OBVIOUS
<1> HIDE DEF m
<1> QED
  BY <1>2, <1>5, <1>6, <1>7, <1>8

(* The marks of one process can be dropped. *)
LEMMA Dropped ==
  ASSUME NEW h, Numbered(h), NEW p
  PROVE  Numbered({c \in h : c.by # p})
<1> DEFINE g == {c \in h : c.by # p}
<1>1. IsFiniteSet(g)
  BY FS_Subset DEF Numbered
<1>2. \A c \in g : Between(g, c.by, c.key, c.at, c.at) = Between(h, c.by, c.key, c.at, c.at)
  BY DEF Between
<1> QED
  BY <1>1, <1>2 DEF Numbered

(* The types hold at first and after every step. *)
LEMMA LimitInitTypes == LimitInit => LimitTypeOK
<1> SUFFICES ASSUME LimitInit PROVE LimitTypeOK
  OBVIOUS
<1>1. 0 \in Times /\ Never \in {Never} /\ 0 \in Nat
  BY LimitAssumption DEF Times
<1>2. memory \in [Processes -> [Keys -> [count : Nat, resetAt : Nat]]]
  BY <1>1 DEF LimitInit, Unused
<1>3. bucket \in [Keys -> [Windows -> [count : Nat, expires : Nat \cup {Never}]]]
  BY <1>1 DEF LimitInit, Missing
<1>4. check \in [Processes -> [key : Keys \cup {NoKey}, since : Times, count : Nat]]
  BY <1>1 DEF LimitInit, Idle
<1> QED
  BY <1>1, <1>2, <1>3, <1>4 DEF LimitInit, LimitTypeOK

(* The bucket of a check that is under way is written at its place. *)
LEMMA NamedPlace ==
  ASSUME LimitTypeOK, NEW p \in Processes, check[p].key # NoKey
  PROVE  /\ check[p].key \in Keys /\ check[p].since \in Times /\ check[p].since \in Nat
         /\ WindowOf(check[p].since) \in Windows
         /\ Named(p) = bucket[check[p].key][WindowOf(check[p].since)]
         /\ Named(p) \in [count : Nat, expires : Nat \cup {Never}]
<1>1. check[p] \in [key : Keys \cup {NoKey}, since : Times, count : Nat]
  BY DEF LimitTypeOK
<1>2. check[p].key \in Keys /\ check[p].since \in Times
  BY <1>1
<1>3. check[p].since \in Nat
  BY <1>2, LimitAssumption DEF Times
<1>4. WindowOf(check[p].since) \in Windows
  BY <1>2 DEF Windows
<1> QED
  BY <1>2, <1>3, <1>4 DEF Named, LimitTypeOK

(* A check that INCR has counted has a key. *)
LEMMA CountedHasKey ==
  ASSUME InTime, NEW p \in Processes, check[p].count # 0
  PROVE  check[p].key # NoKey
BY DEF InTime, Idle

(* A check comes to its end: idle again, the others go on. *)
LEMMA DoneEffect ==
  ASSUME LimitTypeOK, NEW p \in Processes, Done(p)
  PROVE  /\ check' \in [Processes -> [key : Keys \cup {NoKey}, since : Times, count : Nat]]
         /\ check'[p] = Idle /\ \A q \in Processes \ {p} : check'[q] = check[q]
<1>1. Idle \in [key : Keys \cup {NoKey}, since : Times, count : Nat]
  BY LimitAssumption DEF Idle, Times
<1> QED
  BY <1>1 DEF Done, LimitTypeOK

(* What an allowed check adds to the history. *)
LEMMA AllowEffect ==
  ASSUME LimitTypeOK, LimitInv, NEW p \in Processes, Allow(p), check[p].key # NoKey
  PROVE  \E m : /\ m \notin admitted /\ admitted' = admitted \cup {m} /\ m \in Mark
                /\ m.by = Shared /\ m.key = check[p].key /\ m.at = check[p].since
<1>1. /\ check[p].key \in Keys /\ check[p].since \in Times /\ check[p].since \in Nat
      /\ Shared \in Tallies
  BY NamedPlace DEF Tallies
<1> QED
  BY <1>1, Marked DEF Allow, LimitInv

(* What setting the expiry changes: the bucket that the check named. *)
LEMMA SetExpiryEffect ==
  ASSUME LimitTypeOK, InTime, NEW p \in Processes, SetExpiry(p)
  PROVE  /\ check[p].key # NoKey
         /\ bucket' \in [Keys -> [Windows -> [count : Nat, expires : Nat \cup {Never}]]]
         /\ \A k \in Keys, w \in Windows :
              \/ bucket'[k][w] = bucket[k][w]
              \/ /\ p \in UnderWay(k, w) /\ bucket'[k][w].count = bucket[k][w].count
                 /\ bucket'[k][w].expires = now + Window
<1> DEFINE key == check[p].key
           win == WindowOf(check[p].since)
           new == [Named(p) EXCEPT !.expires = now + Window]
<1>1. key # NoKey
  BY CountedHasKey DEF SetExpiry
<1>2. key \in Keys /\ win \in Windows /\ Named(p) = bucket[key][win]
      /\ Named(p) \in [count : Nat, expires : Nat \cup {Never}]
  BY <1>1, NamedPlace
<1>3. now + Window \in Nat
  BY LimitAssumption DEF LimitTypeOK, Times
<1>4. /\ new \in [count : Nat, expires : Nat \cup {Never}]
      /\ new.count = Named(p).count /\ new.expires = now + Window
  BY <1>2, <1>3
<1>5. bucket' = [bucket EXCEPT ![key][win] = new]
  BY DEF SetExpiry, SetNamed
<1> HIDE DEF new
<1>6. /\ bucket' \in [Keys -> [Windows -> [count : Nat, expires : Nat \cup {Never}]]]
      /\ bucket'[key][win] = new
      /\ \A k \in Keys, w \in Windows : k # key \/ w # win => bucket'[k][w] = bucket[k][w]
  BY <1>2, <1>4, <1>5 DEF LimitTypeOK
<1>7. p \in UnderWay(key, win)
  BY DEF UnderWay
<1> HIDE DEF key, win
<1>8. ASSUME NEW k \in Keys, NEW w \in Windows
      PROVE  \/ bucket'[k][w] = bucket[k][w]
             \/ /\ p \in UnderWay(k, w) /\ bucket'[k][w].count = bucket[k][w].count
                /\ bucket'[k][w].expires = now + Window
  BY <1>2, <1>4, <1>6, <1>7
<1> QED
  BY <1>1, <1>6, <1>8 DEF key

(* What INCR changes: the bucket that the check named, and the check. *)
LEMMA IncrEffect ==
  ASSUME LimitTypeOK, NEW p \in Processes, Incr(p)
  PROVE  \E k \in Keys, w \in Windows :
           LET n == bucket[k][w].count + 1
           IN  /\ check[p].key = k /\ WindowOf(check[p].since) = w /\ check[p].count = 0
               /\ n \in Nat \ {0}
               /\ check' \in [Processes -> [key : Keys \cup {NoKey}, since : Times, count : Nat]]
               /\ check'[p].key = k /\ check'[p].since = check[p].since /\ check'[p].count = n
               /\ \A q \in Processes \ {p} : check'[q] = check[q]
               /\ bucket' \in [Keys -> [Windows -> [count : Nat, expires : Nat \cup {Never}]]]
               /\ bucket'[k][w].count = n /\ bucket'[k][w].expires = bucket[k][w].expires
               /\ \A j \in Keys, v \in Windows :
                    j # k \/ v # w => bucket'[j][v] = bucket[j][v]
<1> DEFINE key == check[p].key
           win == WindowOf(check[p].since)
           n == bucket[key][win].count + 1
           new == [Named(p) EXCEPT !.count = @ + 1]
<1>1. key # NoKey /\ check[p].count = 0
  BY DEF Incr, Asked
<1>2. key \in Keys /\ win \in Windows /\ Named(p) = bucket[key][win]
      /\ Named(p) \in [count : Nat, expires : Nat \cup {Never}]
  BY <1>1, NamedPlace
<1>3. /\ new \in [count : Nat, expires : Nat \cup {Never}]
      /\ new.count = n /\ new.expires = bucket[key][win].expires
      /\ n \in Nat \ {0} /\ Named(p).count + 1 = n
  BY <1>2
<1>4. bucket' = [bucket EXCEPT ![key][win] = new]
  BY DEF Incr, SetNamed
<1>5. check' = [check EXCEPT ![p].count = n]
  BY <1>3 DEF Incr
<1> HIDE DEF new, n
<1>6. /\ bucket' \in [Keys -> [Windows -> [count : Nat, expires : Nat \cup {Never}]]]
      /\ bucket'[key][win] = new
      /\ \A j \in Keys, v \in Windows : j # key \/ v # win => bucket'[j][v] = bucket[j][v]
  BY <1>2, <1>3, <1>4 DEF LimitTypeOK
<1>7. /\ check' \in [Processes -> [key : Keys \cup {NoKey}, since : Times, count : Nat]]
      /\ check'[p].key = key /\ check'[p].since = check[p].since /\ check'[p].count = n
      /\ \A q \in Processes \ {p} : check'[q] = check[q]
  <2> DEFINE c == [check[p] EXCEPT !.count = n]
  <2>1. check[p] \in [key : Keys \cup {NoKey}, since : Times, count : Nat]
    BY DEF LimitTypeOK
  <2>2. /\ c \in [key : Keys \cup {NoKey}, since : Times, count : Nat]
        /\ c.key = key /\ c.since = check[p].since /\ c.count = n
    BY <1>3, <2>1
  <2>3. check' = [check EXCEPT ![p] = c]
    BY <1>5
  <2> HIDE DEF c
  <2> QED
    BY <2>2, <2>3 DEF LimitTypeOK
<1> HIDE DEF key, win
<1> QED
  BY <1>1, <1>2, <1>3, <1>6, <1>7 DEF n, key, win

(* What a check in memory changes: one entry, begun anew if it had ended.  *)
LEMMA MemoryEffect ==
  ASSUME LimitTypeOK, NEW p \in Processes, NEW k \in Keys, CheckMemory(p, k)
  PROVE  LET e == memory[p][k]
             f == memory'[p][k]
         IN  /\ backend[p] = "memory" /\ now \in Nat
             /\ memory' \in [Processes -> [Keys -> [count : Nat, resetAt : Nat]]]
             /\ e.count \in Nat /\ e.resetAt \in Nat
             /\ f.count \in Nat /\ f.resetAt \in Nat
             /\ now >= e.resetAt => f.count = 1 /\ f.resetAt = now + Window
             /\ now < e.resetAt => f.count = e.count + 1 /\ f.resetAt = e.resetAt
             /\ \A q \in Processes, j \in Keys :
                  q # p \/ j # k => memory'[q][j] = memory[q][j]
             /\ asked' = Count(asked, p, k, now)
             /\ admitted' = IF f.count > Limit[k] THEN admitted ELSE Count(admitted, p, k, now)
<1> DEFINE e == memory[p][k]
           start == EntryNow(p, k)
           new == [start EXCEPT !.count = start.count + 1]
<1>1. /\ e \in [count : Nat, resetAt : Nat] /\ now \in Nat /\ Window \in Nat
      /\ now + Window \in Nat
  BY LimitAssumption DEF LimitTypeOK, Times
<1>2. /\ start \in [count : Nat, resetAt : Nat]
      /\ now >= e.resetAt => start.count = 0 /\ start.resetAt = now + Window
      /\ now < e.resetAt => start = e
  BY <1>1 DEF EntryNow
<1> HIDE DEF start
<1>3. /\ new \in [count : Nat, resetAt : Nat]
      /\ new.count = start.count + 1 /\ new.resetAt = start.resetAt
  BY <1>2
<1>4. memory' = [memory EXCEPT ![p][k] = new]
  BY DEF CheckMemory, start
<1>5. admitted' = IF new.count > Limit[k] THEN admitted ELSE Count(admitted, p, k, now)
  BY <1>3 DEF CheckMemory, start
<1> HIDE DEF new
<1>6. /\ memory' \in [Processes -> [Keys -> [count : Nat, resetAt : Nat]]]
      /\ memory'[p][k] = new
      /\ \A q \in Processes, j \in Keys : q # p \/ j # k => memory'[q][j] = memory[q][j]
  BY <1>3, <1>4 DEF LimitTypeOK
<1>7. /\ now >= e.resetAt => new.count = 1 /\ new.resetAt = now + Window
      /\ now < e.resetAt => new.count = e.count + 1 /\ new.resetAt = e.resetAt
  BY <1>1, <1>2, <1>3
<1>8. new.count \in Nat /\ new.resetAt \in Nat /\ e.count \in Nat /\ e.resetAt \in Nat
  BY <1>1, <1>3
<1>9. backend[p] = "memory" /\ asked' = Count(asked, p, k, now)
  BY DEF CheckMemory
<1> QED
  BY <1>1, <1>5, <1>6, <1>7, <1>8, <1>9

(* Histories hold marks, with their numbers, and bookkeeping is in time. *)
LEMMA LimitStepTypes ==
  ASSUME LimitTypeOK, LimitInv, [LimitNext]_limitVars
  PROVE  LimitTypeOK' /\ Numbered(asked)' /\ Numbered(admitted)' /\ InTime'
<1> USE DEF LimitInv
<1>1. now \in Nat /\ \A t \in Times : t \in Nat
  BY LimitAssumption DEF LimitTypeOK, Times
<1>2. ASSUME NEW p \in Processes, Start(p)
      PROVE  LimitTypeOK' /\ Numbered(asked)' /\ Numbered(admitted)' /\ InTime'
  <2>1. /\ memory' = [memory EXCEPT ![p] = [k \in Keys |-> Unused]]
        /\ \E b \in {"redis", "memory"} : backend' = [backend EXCEPT ![p] = b]
        /\ UNCHANGED <<now, bucket, check, asked, admitted>>
    BY <1>2 DEF Start, Begin
  <2>2. [k \in Keys |-> Unused] \in [Keys -> [count : Nat, resetAt : Nat]]
    BY DEF Unused
  <2>3. LimitTypeOK'
    BY <2>1, <2>2 DEF LimitTypeOK
  <2> QED
    BY <2>1, <2>3 DEF InTime
<1>3. ASSUME NEW p \in Processes, Stop(p)
      PROVE  LimitTypeOK' /\ Numbered(asked)' /\ Numbered(admitted)' /\ InTime'
  <2>1. /\ Done(p) /\ UNCHANGED <<now, memory, bucket>>
        /\ backend' = [backend EXCEPT ![p] = "down"]
        /\ asked' = {c \in asked : c.by # p} /\ admitted' = {c \in admitted : c.by # p}
    BY <1>3 DEF Stop, Done
  <2>2. LimitTypeOK'
    BY <2>1, DoneEffect DEF LimitTypeOK
  <2>3. Numbered(asked)' /\ Numbered(admitted)'
    BY <2>1, Dropped
  <2>4. InTime'
    BY <2>1, DoneEffect DEF InTime, Idle
  <2> QED
    BY <2>2, <2>3, <2>4
<1>4. ASSUME NEW p \in Processes, NEW k \in Keys, CheckMemory(p, k)
      PROVE  LimitTypeOK' /\ Numbered(asked)' /\ Numbered(admitted)' /\ InTime'
  <2>1. /\ p \in Tallies /\ now \in Times
        /\ UNCHANGED <<now, backend, bucket, check>>
    BY <1>4 DEF CheckMemory, Tallies, LimitTypeOK
  <2>2. asked' \subseteq Mark /\ Numbered(asked)'
    BY <1>1, <1>4, <2>1, Marked DEF CheckMemory, LimitTypeOK
  <2>3. admitted' \subseteq Mark /\ Numbered(admitted)'
    <3>1. admitted' = admitted \/ admitted' = Count(admitted, p, k, now)
      BY <1>4, MemoryEffect
    <3>2. Numbered(Count(admitted, p, k, now)) /\ Count(admitted, p, k, now) \subseteq Mark
      BY <1>1, <2>1, Marked DEF LimitTypeOK
    <3>3. CASE admitted' = admitted
      BY <3>3 DEF LimitTypeOK
    <3>4. CASE admitted' = Count(admitted, p, k, now)
      BY <3>2, <3>4
    <3> QED
      BY <3>1, <3>3, <3>4
  <2>4. \A q \in Processes : backend[q] = "redis" => memory'[q] = memory[q]
    BY <1>4 DEF CheckMemory, LimitTypeOK
  <2>5. LimitTypeOK'
    BY <1>4, <2>1, <2>2, <2>3, <2>4, MemoryEffect DEF LimitTypeOK
  <2> QED
    BY <2>1, <2>2, <2>3, <2>5 DEF InTime
<1>5. ASSUME NEW p \in Processes, NEW k \in Keys, Ask(p, k)
      PROVE  LimitTypeOK' /\ Numbered(asked)' /\ Numbered(admitted)' /\ InTime'
  <2>1. /\ Shared \in Tallies /\ now \in Times
        /\ check' = [check EXCEPT ![p] = [key |-> k, since |-> now, count |-> 0]]
        /\ asked' = Count(asked, Shared, k, now)
        /\ UNCHANGED <<now, backend, memory, bucket, admitted>>
    BY <1>5 DEF Ask, Tallies, LimitTypeOK
  <2>2. asked' \subseteq Mark /\ Numbered(asked)'
    BY <1>1, <2>1, Marked DEF LimitTypeOK
  <2>3. /\ check' \in [Processes -> [key : Keys \cup {NoKey}, since : Times, count : Nat]]
        /\ check'[p] = [key |-> k, since |-> now, count |-> 0]
        /\ \A q \in Processes \ {p} : check'[q] = check[q]
    BY <2>1 DEF LimitTypeOK
  <2>4. LimitTypeOK'
    BY <2>1, <2>2, <2>3 DEF LimitTypeOK
  <2>5. k # NoKey /\ now <= now + Patience
    BY <1>1, LimitAssumption
  <2>6. InTime'
    BY <1>1, <2>1, <2>3, <2>5 DEF InTime
  <2> QED
    BY <2>1, <2>2, <2>4, <2>6
<1>6. ASSUME NEW p \in Processes, Incr(p)
      PROVE  LimitTypeOK' /\ Numbered(asked)' /\ Numbered(admitted)' /\ InTime'
  <2>1. PICK k \in Keys :
          /\ check[p].key = k /\ check'[p].key = k /\ check'[p].since = check[p].since
          /\ check' \in [Processes -> [key : Keys \cup {NoKey}, since : Times, count : Nat]]
          /\ bucket' \in [Keys -> [Windows -> [count : Nat, expires : Nat \cup {Never}]]]
          /\ \A q \in Processes \ {p} : check'[q] = check[q]
    BY <1>6, IncrEffect
  <2>2. k # NoKey /\ UNCHANGED <<now, backend, memory, asked, admitted>>
    BY <1>6, LimitAssumption DEF Incr
  <2> QED
    BY <2>1, <2>2 DEF LimitTypeOK, InTime
<1>7. ASSUME NEW p \in Processes, Done(p), UNCHANGED <<now, backend, memory, asked>>,
             UNCHANGED admitted \/ (Allow(p) /\ check[p].key # NoKey),
             SetExpiry(p) \/ UNCHANGED bucket
      PROVE  LimitTypeOK' /\ Numbered(asked)' /\ Numbered(admitted)' /\ InTime'
  <2>1. bucket' \in [Keys -> [Windows -> [count : Nat, expires : Nat \cup {Never}]]]
    BY <1>7, SetExpiryEffect DEF LimitTypeOK
  <2>2. admitted' \subseteq Mark
    BY <1>7, AllowEffect DEF LimitTypeOK
  <2>3. Numbered(admitted)'
    <3>1. CASE UNCHANGED admitted
      BY <3>1
    <3>2. CASE Allow(p) /\ check[p].key # NoKey
      BY <3>2, NamedPlace, Marked DEF Allow
    <3> QED
      BY <1>7, <3>1, <3>2
  <2>4. LimitTypeOK'
    BY <1>7, <2>1, <2>2, DoneEffect DEF LimitTypeOK
  <2>5. InTime'
    BY <1>7, DoneEffect DEF InTime, Idle
  <2> QED
    BY <1>7, <2>3, <2>4, <2>5
<1>8. ASSUME NEW p \in Processes,
             Expire(p) \/ AnswerAllowed(p) \/ Deny(p) \/ Raise(p)
      PROVE  LimitTypeOK' /\ Numbered(asked)' /\ Numbered(admitted)' /\ InTime'
  <2>1. Expire(p) \/ AnswerAllowed(p) => Allow(p) /\ Done(p) /\ check[p].key # NoKey
    BY CountedHasKey DEF Expire, AnswerAllowed, Allow, SetExpiry, Counted, LimitTypeOK
  <2> QED
    BY <1>7, <1>8, <2>1 DEF Expire, AnswerAllowed, Deny, Raise, Allow
<1>9. CASE Tick
  <2>1. now' = now + 1 /\ now' \in Times /\ UNCHANGED <<backend, memory, check, asked, admitted>>
    BY <1>1, <1>9, LimitAssumption DEF Tick, Times
  <2>2. bucket' \in [Keys -> [Windows -> [count : Nat, expires : Nat \cup {Never}]]]
    BY <1>9 DEF Tick, LimitTypeOK, Missing
  <2>3. LimitTypeOK'
    BY <2>1, <2>2 DEF LimitTypeOK
  <2>4. \A p \in Processes : check[p].since \in Nat /\ Patience \in Nat
    <3>1. \A p \in Processes : check[p].since \in Times
      BY DEF LimitTypeOK
    <3> QED
      BY <1>1, <3>1, LimitAssumption
  <2>5. InTime'
    BY <1>1, <1>9, <2>1, <2>4 DEF Tick, InTime
  <2> QED
    BY <2>1, <2>3, <2>5
<1>10. CASE UNCHANGED limitVars
  BY <1>10 DEF limitVars, LimitTypeOK, InTime
<1> QED
  BY <1>2, <1>3, <1>4, <1>5, <1>6, <1>8, <1>9, <1>10 DEF LimitNext, ProcessStep

-----------------------------------------------------------------------------
(* RateLimit: windows in Redis *)

(* What is counted is a number, and nobody else than a process is late.    *)
Numbers(k, w) ==
  /\ IsFiniteSet(InWindow(admitted, k, w)) /\ IsFiniteSet(InWindow(asked, k, w))
  /\ Cardinality(InWindow(admitted, k, w)) \in Nat
  /\ Cardinality(InWindow(asked, k, w)) \in Nat
  /\ IsFiniteSet(Accepted(k, w)) /\ Cardinality(Accepted(k, w)) \in Nat
  /\ IsFiniteSet(Uncounted(k, w)) /\ Cardinality(Uncounted(k, w)) \in Nat
  /\ Cardinality(Uncounted(k, w)) <= Cardinality(Processes)
  /\ Granted(k, w) \in Nat /\ now \in Nat
  /\ bucket[k][w].count \in Nat /\ bucket[k][w].expires \in Nat \cup {Never}
AllNumbers == \A k \in Keys, w \in Windows : Numbers(k, w)
LEMMA NumbersHold ==
  LimitTypeOK /\ Numbered(asked) /\ Numbered(admitted) => AllNumbers
<1> SUFFICES ASSUME LimitTypeOK, Numbered(asked), Numbered(admitted),
                    NEW k \in Keys, NEW w \in Windows
             PROVE  Numbers(k, w)
  BY DEF AllNumbers
<1>1. InWindow(admitted, k, w) \subseteq admitted /\ InWindow(asked, k, w) \subseteq asked
  BY DEF InWindow
<1>2. Accepted(k, w) \subseteq Processes /\ Uncounted(k, w) \subseteq Processes
  BY DEF Accepted, Uncounted, UnderWay
<1>3. IsFiniteSet(admitted) /\ IsFiniteSet(asked) /\ IsFiniteSet(Processes)
  BY LimitAssumption DEF Numbered
<1>4. /\ IsFiniteSet(InWindow(admitted, k, w)) /\ IsFiniteSet(InWindow(asked, k, w))
      /\ Cardinality(InWindow(admitted, k, w)) \in Nat
      /\ Cardinality(InWindow(asked, k, w)) \in Nat
  BY <1>1, <1>3, PartCounts
<1>5. /\ IsFiniteSet(Accepted(k, w)) /\ Cardinality(Accepted(k, w)) \in Nat
      /\ IsFiniteSet(Uncounted(k, w)) /\ Cardinality(Uncounted(k, w)) \in Nat
      /\ Cardinality(Uncounted(k, w)) <= Cardinality(Processes)
  BY <1>2, <1>3, PartCounts
<1>6. Granted(k, w) \in Nat
  BY <1>4, <1>5 DEF Granted
<1>7. now \in Nat
  BY LimitAssumption DEF LimitTypeOK, Times
<1>8. bucket[k][w] \in [count : Nat, expires : Nat \cup {Never}]
  BY DEF LimitTypeOK
<1>9. bucket[k][w].count \in Nat /\ bucket[k][w].expires \in Nat \cup {Never}
  BY <1>8
<1> QED
  BY <1>4, <1>5, <1>6, <1>7, <1>9 DEF Numbers

(* The same of the state after a step. *)
LEMMA NumbersHoldNext ==
  ASSUME LimitTypeOK', Numbered(asked)', Numbered(admitted)'
  PROVE  AllNumbers'
BY NumbersHold, PTL

(* The constants that the bounds are made of. *)
LEMMA ConstantNumbers ==
  ASSUME NEW k \in Keys, NEW w \in Windows
  PROVE  /\ Limit[k] \in Nat \ {0} /\ Window \in Nat \ {0} /\ Ends(w) \in Nat
         /\ Cardinality(Processes) \in Nat
BY LimitAssumption, WindowsAreNumbers, FS_CardinalityType

(* A step that grants nothing more, lets no check begin and only postpones *)
(* an expiry leaves a window as it should be.                              *)
LEMMA WindowStays ==
  ASSUME NEW k \in Keys, NEW w \in Windows,
         WindowInv(k, w), Numbers(k, w), Numbers(k, w)', now' = now,
         Granted(k, w)' <= Granted(k, w),
         UnderWay(k, w)' \subseteq UnderWay(k, w),
         Uncounted(k, w)' \subseteq Uncounted(k, w),
         InWindow(asked, k, w) \subseteq InWindow(asked, k, w)',
         bucket'[k][w].count = bucket[k][w].count,
         \/ bucket'[k][w].expires = bucket[k][w].expires
         \/ bucket'[k][w].expires = now + Window /\ Ends(w) <= now + Window
  PROVE  WindowInv(k, w)'
<1>1. Cardinality(Uncounted(k, w)') <= Cardinality(Uncounted(k, w))
  BY PartCounts DEF Numbers
<1>2. Cardinality(InWindow(asked, k, w)) <= Cardinality(InWindow(asked, k, w)')
  BY PartCounts DEF Numbers
<1> DEFINE g == Granted(k, w)
           u == Cardinality(Uncounted(k, w))
           a == Cardinality(InWindow(asked, k, w))
           b == bucket[k][w]
           L == Limit[k]
           P == Cardinality(Processes)
           E == Ends(w)
<1>3. /\ g \in Nat /\ g' \in Nat /\ u \in Nat /\ u' \in Nat /\ a \in Nat /\ a' \in Nat
      /\ b.count \in Nat /\ b'.count \in Nat /\ now \in Nat
      /\ b.expires \in Nat \cup {Never} /\ b'.expires \in Nat \cup {Never}
      /\ L \in Nat /\ P \in Nat /\ E \in Nat /\ Window \in Nat
  BY ConstantNumbers DEF Numbers
<1>4. /\ g' <= g /\ u' <= u /\ a <= a' /\ b'.count = b.count
      /\ \/ b'.expires = b.expires
         \/ b'.expires = now + Window /\ E <= now + Window
  BY <1>1, <1>2
<1>5. b.count + u <= a => b'.count + u' <= a'
  BY <1>3, <1>4
<1>6. InFirstBucket(k, w) => InFirstBucket(k, w)'
  <2> SUFFICES ASSUME g <= b.count, g <= L, b.expires # Never => E <= b.expires
               PROVE  g' <= b'.count /\ g' <= L /\ (b'.expires # Never => E <= b'.expires)
    BY DEF InFirstBucket
  <2> HIDE DEF g, u, a, b, L, P, E
  <2> QED
    BY <1>3, <1>4
<1>7. InSecondBucket(k, w) => InSecondBucket(k, w)'
  <2> SUFFICES ASSUME E <= now, g <= L + b.count, g <= 2 * L, g + u <= L + P,
                      b.expires # Never => E + Window <= b.expires
               PROVE  /\ g' <= L + b'.count /\ g' <= 2 * L /\ g' + u' <= L + P
                      /\ b'.expires # Never => E + Window <= b'.expires
    BY DEF InSecondBucket
  <2> HIDE DEF g, u, a, b, L, P, E
  <2> QED
    BY <1>3, <1>4
<1>8. AfterItsBuckets(k, w) => AfterItsBuckets(k, w)'
  <2> SUFFICES ASSUME E + Window <= now, UnderWay(k, w) = {}, g <= 2 * L, g <= L + P
               PROVE  UnderWay(k, w)' = {} /\ g' <= 2 * L /\ g' <= L + P
    BY DEF AfterItsBuckets
  <2>1. UnderWay(k, w)' = {}
    OBVIOUS
  <2> HIDE DEF g, u, a, b, L, P, E
  <2> QED
    BY <1>3, <1>4, <2>1
<1> QED
  BY <1>5, <1>6, <1>7, <1>8 DEF WindowInv

(* When a check is over, it is no longer under way in any window. *)
LEMMA CheckOver ==
  ASSUME LimitTypeOK, NEW p \in Processes, Done(p), NEW k \in Keys, NEW w \in Windows
  PROVE  /\ UnderWay(k, w)' = UnderWay(k, w) \ {p}
         /\ Uncounted(k, w)' = Uncounted(k, w) \ {p}
         /\ Accepted(k, w)' = Accepted(k, w) \ {p}
<1>1. /\ check'[p].key # k
      /\ \A q \in Processes \ {p} : check'[q] = check[q]
  BY DoneEffect, LimitAssumption DEF Idle
<1>2. UnderWay(k, w)' = UnderWay(k, w) \ {p}
  BY <1>1 DEF UnderWay
<1>3. \A q \in UnderWay(k, w)' : check'[q] = check[q]
  BY <1>1, <1>2 DEF UnderWay
<1>4. Uncounted(k, w)' = Uncounted(k, w) \ {p}
  BY <1>2, <1>3 DEF Uncounted
<1>5. Accepted(k, w)' = Accepted(k, w) \ {p}
  BY <1>2, <1>3 DEF Accepted
<1> QED
  BY <1>2, <1>4, <1>5

(* A check under way in a window began in it. *)
LEMMA UnderWaySince ==
  ASSUME LimitTypeOK, InTime, NEW k \in Keys, NEW w \in Windows, NEW p \in UnderWay(k, w)
  PROVE  /\ p \in Processes /\ check[p].since \in Nat
         /\ Ends(w) <= check[p].since + Window /\ check[p].since < Ends(w)
         /\ check[p].since <= now /\ now <= check[p].since + Patience
<1>1. p \in Processes /\ check[p].key = k /\ WindowOf(check[p].since) = w /\ k # NoKey
  BY LimitAssumption DEF UnderWay
<1>2. check[p].since \in Nat
  BY <1>1, NamedPlace
<1>3. Ends(w) \in Nat /\ Ends(w) - Window <= check[p].since /\ check[p].since < Ends(w)
  BY <1>1, <1>2, WindowBounds
<1>4. check[p].since <= now /\ now <= check[p].since + Patience
  BY <1>1 DEF InTime
<1> QED
  BY <1>1, <1>2, <1>3, <1>4, LimitAssumption

(* A step that leaves the clock, the buckets, the checks and the marks of  *)
(* Redis alone.                                                            *)
LEMMA QuietKeepsShared ==
  ASSUME LimitTypeOK, LimitInv, LimitTypeOK', Numbered(asked)', Numbered(admitted)',
         UNCHANGED <<now, bucket, check>>,
         \A k, w : InWindow(asked, k, w)' = InWindow(asked, k, w),
         \A k, w : InWindow(admitted, k, w)' = InWindow(admitted, k, w)
  PROVE  SharedInv'
<1> SUFFICES ASSUME NEW k \in Keys, NEW w \in Windows
             PROVE  WindowInv(k, w)'
  BY DEF SharedInv
<1>1. Numbers(k, w) /\ Numbers(k, w)'
  BY NumbersHold, NumbersHoldNext DEF LimitInv, AllNumbers
<1>2. /\ UnderWay(k, w)' = UnderWay(k, w) /\ Uncounted(k, w)' = Uncounted(k, w)
      /\ Granted(k, w)' = Granted(k, w)
  BY DEF UnderWay, Uncounted, Accepted, Granted
<1>3. Granted(k, w)' <= Granted(k, w)
  BY <1>1, <1>2 DEF Numbers
<1>4. WindowInv(k, w)
  BY DEF LimitInv, SharedInv
<1> QED
  BY <1>1, <1>2, <1>3, <1>4, WindowStays

(* A check ends, allowed or not: what it was granted it has, or nobody     *)
(* gets it.                                                                *)
LEMMA EndKeepsShared ==
  ASSUME LimitTypeOK, LimitInv, LimitTypeOK', Numbered(asked)', Numbered(admitted)',
         NEW p \in Processes, Done(p), now' = now, SetExpiry(p) \/ UNCHANGED bucket,
         \A k, w : InWindow(asked, k, w)' = InWindow(asked, k, w),
         \/ \A k, w : InWindow(admitted, k, w)' = InWindow(admitted, k, w)
         \/ Allow(p) /\ check[p].key # NoKey /\ check[p].count \in 1..Limit[check[p].key]
  PROVE  SharedInv'
<1> SUFFICES ASSUME NEW k \in Keys, NEW w \in Windows
             PROVE  WindowInv(k, w)'
  BY DEF SharedInv
<1>1. Numbers(k, w) /\ Numbers(k, w)'
  BY NumbersHold, NumbersHoldNext DEF LimitInv, AllNumbers
<1>2. /\ UnderWay(k, w)' = UnderWay(k, w) \ {p}
      /\ Uncounted(k, w)' = Uncounted(k, w) \ {p}
      /\ Accepted(k, w)' = Accepted(k, w) \ {p}
  BY CheckOver
<1>3. Granted(k, w)' <= Granted(k, w)
  <2>1. Cardinality(Accepted(k, w)') <= Cardinality(Accepted(k, w))
    BY <1>1, <1>2, PartCounts DEF Numbers
  <2>2. CASE InWindow(admitted, k, w)' = InWindow(admitted, k, w)
    BY <1>1, <2>1, <2>2 DEF Numbers, Granted
  <2>3. CASE /\ Allow(p) /\ check[p].key # NoKey
             /\ check[p].count \in 1..Limit[check[p].key]
    <3>1. PICK m : /\ m \notin admitted /\ admitted' = admitted \cup {m}
                   /\ m.by = Shared /\ m.key = check[p].key /\ m.at = check[p].since
      BY <2>3, AllowEffect
    <3>2. CASE p \in UnderWay(k, w)
      <4>1. p \in Accepted(k, w) /\ m.key = k /\ WindowOf(m.at) = w
        BY <2>3, <3>1, <3>2 DEF Accepted, UnderWay
      <4>2. /\ InWindow(admitted, k, w)' = InWindow(admitted, k, w) \cup {m}
            /\ m \notin InWindow(admitted, k, w)
        BY <3>1, <4>1 DEF InWindow
      <4>3. Cardinality(InWindow(admitted, k, w)') = Cardinality(InWindow(admitted, k, w)) + 1
        BY <1>1, <4>2, FS_AddElement DEF Numbers
      <4>4. Cardinality(Accepted(k, w)') = Cardinality(Accepted(k, w)) - 1
        BY <1>1, <1>2, <4>1, FS_RemoveElement DEF Numbers
      <4> QED
        BY <1>1, <4>3, <4>4 DEF Numbers, Granted
    <3>3. CASE p \notin UnderWay(k, w)
      <4>1. m.key # k \/ WindowOf(m.at) # w
        BY <3>1, <3>3 DEF UnderWay
      <4>2. InWindow(admitted, k, w)' = InWindow(admitted, k, w)
        BY <3>1, <4>1 DEF InWindow
      <4> QED
        BY <2>2, <4>2
    <3> QED
      BY <3>2, <3>3
  <2> QED
    BY <2>2, <2>3
<1>4. /\ bucket'[k][w].count = bucket[k][w].count
      /\ \/ bucket'[k][w].expires = bucket[k][w].expires
         \/ bucket'[k][w].expires = now + Window /\ Ends(w) <= now + Window
  <2>1. CASE UNCHANGED bucket
    BY <2>1
  <2>2. CASE SetExpiry(p)
    <3>1. CASE bucket'[k][w] = bucket[k][w]
      BY <3>1
    <3>2. CASE /\ p \in UnderWay(k, w) /\ bucket'[k][w].count = bucket[k][w].count
               /\ bucket'[k][w].expires = now + Window
      <4>1. Ends(w) <= check[p].since + Window /\ check[p].since <= now
            /\ check[p].since \in Nat
        BY <3>2, UnderWaySince DEF LimitInv
      <4>2. Ends(w) <= now + Window
        BY <1>1, <4>1, ConstantNumbers DEF Numbers
      <4> QED
        BY <3>2, <4>2
    <3> QED
      BY <2>2, <3>1, <3>2, SetExpiryEffect DEF LimitInv
  <2> QED
    BY <2>1, <2>2
<1>5. WindowInv(k, w)
  BY DEF LimitInv, SharedInv
<1>6. /\ UnderWay(k, w)' \subseteq UnderWay(k, w)
      /\ Uncounted(k, w)' \subseteq Uncounted(k, w)
      /\ InWindow(asked, k, w) \subseteq InWindow(asked, k, w)'
  BY <1>2
<1> QED
  BY <1>1, <1>3, <1>4, <1>5, <1>6, WindowStays

(* A check that begins names the window of now, whose bucket is the first. *)
LEMMA AskKeepsShared ==
  ASSUME LimitTypeOK, LimitInv, LimitTypeOK', Numbered(asked)', Numbered(admitted)',
         NEW p \in Processes, NEW j \in Keys, Ask(p, j)
  PROVE  SharedInv'
<1> SUFFICES ASSUME NEW k \in Keys, NEW w \in Windows
             PROVE  WindowInv(k, w)'
  BY DEF SharedInv
<1>1. Numbers(k, w) /\ Numbers(k, w)'
  BY NumbersHold, NumbersHoldNext DEF LimitInv, AllNumbers
<1>2. /\ check[p].key = NoKey /\ NoKey \notin Keys
      /\ check'[p] = [key |-> j, since |-> now, count |-> 0]
      /\ \A q \in Processes \ {p} : check'[q] = check[q]
      /\ UNCHANGED <<now, bucket, admitted>>
  BY LimitAssumption DEF Ask, Idle, LimitTypeOK
<1>3. PICK m : /\ m \notin asked /\ asked' = asked \cup {m}
               /\ m.by = Shared /\ m.key = j /\ m.at = now
  BY <1>1, Marked DEF Ask, LimitInv, Numbers
<1>4. WindowInv(k, w)
  BY DEF LimitInv, SharedInv
<1>5. p \notin UnderWay(k, w)
  BY <1>2 DEF UnderWay
<1>6. Accepted(k, w)' = Accepted(k, w)
  BY <1>2, <1>5 DEF Accepted, UnderWay
<1>7. Granted(k, w)' = Granted(k, w)
  BY <1>2, <1>6 DEF Granted
<1>8. CASE k = j /\ w = WindowOf(now)
  <2>1. now < Ends(w) /\ Ends(w) \in Nat
    BY <1>1, <1>8, WindowBounds DEF Numbers
  <2>2. InFirstBucket(k, w)
    <3>1. ~(Ends(w) <= now) /\ ~(Ends(w) + Window <= now)
      BY <1>1, <2>1, ConstantNumbers DEF Numbers
    <3> QED
      BY <1>4, <3>1 DEF WindowInv, InSecondBucket, AfterItsBuckets
  <2>3. InFirstBucket(k, w)'
    BY <1>2, <1>7, <2>2 DEF InFirstBucket
  <2>4. Uncounted(k, w)' = Uncounted(k, w) \cup {p} /\ p \notin Uncounted(k, w)
    BY <1>2, <1>5, <1>8 DEF Uncounted, UnderWay
  <2>5. /\ InWindow(asked, k, w)' = InWindow(asked, k, w) \cup {m}
        /\ m \notin InWindow(asked, k, w)
    BY <1>3, <1>8 DEF InWindow
  <2>6. /\ Cardinality(Uncounted(k, w)') = Cardinality(Uncounted(k, w)) + 1
        /\ Cardinality(InWindow(asked, k, w)') = Cardinality(InWindow(asked, k, w)) + 1
    BY <1>1, <2>4, <2>5, FS_AddElement DEF Numbers
  <2>7. bucket'[k][w].count + Cardinality(Uncounted(k, w)')
          <= Cardinality(InWindow(asked, k, w)')
    BY <1>1, <1>2, <1>4, <2>6 DEF WindowInv, Numbers
  <2> QED
    BY <2>3, <2>7 DEF WindowInv
<1>9. CASE ~(k = j /\ w = WindowOf(now))
  <2>1. UnderWay(k, w)' = UnderWay(k, w) /\ Uncounted(k, w)' = Uncounted(k, w)
    BY <1>2, <1>9 DEF UnderWay, Uncounted
  <2>2. InWindow(asked, k, w)' = InWindow(asked, k, w)
    BY <1>3, <1>9 DEF InWindow
  <2>3. Granted(k, w)' <= Granted(k, w)
    BY <1>1, <1>7 DEF Numbers
  <2> QED
    BY <1>1, <1>2, <1>4, <2>1, <2>2, <2>3, WindowStays
<1> QED
  BY <1>8, <1>9

(* INCR counts one check more in its bucket, and grants it if that is      *)
(* within the limit.                                                       *)
LEMMA IncrKeepsShared ==
  ASSUME LimitTypeOK, LimitInv, LimitTypeOK', Numbered(asked)', Numbered(admitted)',
         NEW p \in Processes, Incr(p)
  PROVE  SharedInv'
<1> SUFFICES ASSUME NEW k \in Keys, NEW w \in Windows
             PROVE  WindowInv(k, w)'
  BY DEF SharedInv
<1>1. Numbers(k, w) /\ Numbers(k, w)'
  BY NumbersHold, NumbersHoldNext DEF LimitInv, AllNumbers
<1>2. PICK j \in Keys, v \in Windows :
        LET n == bucket[j][v].count + 1
        IN  /\ check[p].key = j /\ WindowOf(check[p].since) = v /\ check[p].count = 0
            /\ n \in Nat \ {0}
            /\ check'[p].key = j /\ check'[p].since = check[p].since /\ check'[p].count = n
            /\ \A q \in Processes \ {p} : check'[q] = check[q]
            /\ bucket'[j][v].count = n /\ bucket'[j][v].expires = bucket[j][v].expires
            /\ \A i \in Keys, u \in Windows : i # j \/ u # v => bucket'[i][u] = bucket[i][u]
  BY IncrEffect
<1>3. UNCHANGED <<now, asked, admitted>>
  BY DEF Incr
<1>4. WindowInv(k, w)
  BY DEF LimitInv, SharedInv
<1>5. UnderWay(k, w)' = UnderWay(k, w)
  BY <1>2 DEF UnderWay
<1>6. /\ InWindow(asked, k, w)' = InWindow(asked, k, w)
      /\ InWindow(admitted, k, w)' = InWindow(admitted, k, w)
  BY <1>3 DEF InWindow
<1>7. CASE k = j /\ w = v
  <2> DEFINE g == Granted(k, w)
             u == Cardinality(Uncounted(k, w))
             a == Cardinality(InWindow(asked, k, w))
             n == bucket[k][w].count
             e == bucket[k][w].expires
             L == Limit[k]
             P == Cardinality(Processes)
             E == Ends(w)
  <2>1. p \in UnderWay(k, w) /\ p \in Uncounted(k, w) /\ p \notin Accepted(k, w)
    BY <1>2, <1>7 DEF UnderWay, Uncounted, Accepted
  <2>2. Uncounted(k, w)' = Uncounted(k, w) \ {p}
    <3>1. check'[p].count # 0 /\ \A q \in UnderWay(k, w) \ {p} : check'[q] = check[q]
      BY <1>2 DEF UnderWay
    <3> QED
      BY <1>5, <3>1 DEF Uncounted
  <2>3. Accepted(k, w)' = IF n + 1 <= L THEN Accepted(k, w) \cup {p} ELSE Accepted(k, w)
    <3>1. check'[p].count = n + 1 /\ \A q \in UnderWay(k, w) \ {p} : check'[q] = check[q]
      BY <1>2, <1>7 DEF UnderWay
    <3>2. n + 1 \in 1..L <=> n + 1 <= L
      BY <1>1, ConstantNumbers DEF Numbers
    <3> HIDE DEF n, L
    <3> QED
      BY <1>5, <2>1, <3>1, <3>2 DEF Accepted, L
  <2>4. u' = u - 1
    BY <1>1, <2>1, <2>2, FS_RemoveElement DEF Numbers
  <2>5. /\ n + 1 <= L => g' = g + 1
        /\ ~(n + 1 <= L) => g' = g
    <3>1. CASE n + 1 <= L
      <4>1. Cardinality(Accepted(k, w)') = Cardinality(Accepted(k, w)) + 1
        BY <1>1, <2>1, <2>3, <3>1, FS_AddElement DEF Numbers
      <4> QED
        BY <1>1, <1>6, <3>1, <4>1 DEF Numbers, Granted
    <3>2. CASE ~(n + 1 <= L)
      BY <1>6, <2>3, <3>2 DEF Granted
    <3> QED
      BY <3>1, <3>2
  <2>6. n' = n + 1 /\ e' = e /\ a' = a
    BY <1>2, <1>6, <1>7
  <2>7. /\ g \in Nat /\ u \in Nat /\ a \in Nat /\ n \in Nat /\ now \in Nat
        /\ L \in Nat /\ P \in Nat /\ E \in Nat /\ Window \in Nat
    BY <1>1, ConstantNumbers DEF Numbers
  <2>8. InFirstBucket(k, w) => InFirstBucket(k, w)'
    <3> SUFFICES ASSUME g <= n, g <= L, e # Never => E <= e
                 PROVE  g' <= n' /\ g' <= L /\ (e' # Never => E <= e')
      BY DEF InFirstBucket
    <3> HIDE DEF g, u, a, n, e, L, P, E
    <3> QED
      BY <2>5, <2>6, <2>7
  <2>9. InSecondBucket(k, w) => InSecondBucket(k, w)'
    <3> SUFFICES ASSUME E <= now, g <= L + n, g <= 2 * L, g + u <= L + P,
                        e # Never => E + Window <= e
                 PROVE  /\ E <= now' /\ g' <= L + n' /\ g' <= 2 * L /\ g' + u' <= L + P
                        /\ e' # Never => E + Window <= e'
      BY DEF InSecondBucket
    <3> HIDE DEF g, u, a, n, e, L, P, E
    <3> QED
      BY <1>3, <2>4, <2>5, <2>6, <2>7
  <2>10. ~AfterItsBuckets(k, w)
    BY <2>1 DEF AfterItsBuckets
  <2>11. n + u <= a => n' + u' <= a'
    <3> HIDE DEF g, u, a, n, e, L, P, E
    <3> QED
      BY <2>4, <2>6, <2>7
  <2> QED
    BY <1>4, <2>8, <2>9, <2>10, <2>11 DEF WindowInv
<1>8. CASE ~(k = j /\ w = v)
  <2>1. p \notin UnderWay(k, w)
    BY <1>2, <1>8 DEF UnderWay
  <2>2. \A q \in UnderWay(k, w) : check'[q] = check[q]
    BY <1>2, <2>1 DEF UnderWay
  <2>3. Uncounted(k, w)' = Uncounted(k, w) /\ Accepted(k, w)' = Accepted(k, w)
    BY <1>5, <2>2 DEF Uncounted, Accepted
  <2>4. Granted(k, w)' <= Granted(k, w)
    BY <1>1, <1>6, <2>3 DEF Granted, Numbers
  <2>5. bucket'[k][w] = bucket[k][w]
    BY <1>2, <1>8
  <2> QED
    BY <1>1, <1>3, <1>4, <1>5, <1>6, <2>3, <2>4, <2>5, WindowStays
<1> QED
  BY <1>7, <1>8

(* A second passes: the first bucket may expire once its window is over,   *)
(* the second when every check that named the window has ended.            *)
LEMMA TickKeepsShared ==
  ASSUME LimitTypeOK, LimitInv, LimitTypeOK', Numbered(asked)', Numbered(admitted)', Tick
  PROVE  SharedInv'
<1> SUFFICES ASSUME NEW k \in Keys, NEW w \in Windows
             PROVE  WindowInv(k, w)'
  BY DEF SharedInv
<1>1. Numbers(k, w) /\ Numbers(k, w)'
  BY NumbersHold, NumbersHoldNext DEF LimitInv, AllNumbers
<1>2. WindowInv(k, w)
  BY DEF LimitInv, SharedInv
<1> DEFINE g == Granted(k, w)
           u == Cardinality(Uncounted(k, w))
           a == Cardinality(InWindow(asked, k, w))
           n == bucket[k][w].count
           e == bucket[k][w].expires
           L == Limit[k]
           P == Cardinality(Processes)
           E == Ends(w)
<1>3. now' = now + 1 /\ UNCHANGED <<check, asked, admitted>>
  BY DEF Tick
<1>4. UnderWay(k, w)' = UnderWay(k, w) /\ g' = g /\ u' = u /\ a' = a
  BY <1>3 DEF UnderWay, Uncounted, Accepted, Granted, InWindow
<1>5. /\ g \in Nat /\ u \in Nat /\ a \in Nat /\ n \in Nat /\ now \in Nat /\ u <= P
      /\ e \in Nat \cup {Never} /\ Never = -1
      /\ L \in Nat /\ P \in Nat /\ E \in Nat /\ Window \in Nat
  BY <1>1, ConstantNumbers DEF Numbers, Never
<1>6. \/ n' = n /\ e' = e
      \/ n' = 0 /\ e' = Never /\ e # Never /\ e <= now + 1
  BY DEF Tick, Gone, Missing
<1>7. E + Window <= now + 1 => UnderWay(k, w) = {}
  <2> SUFFICES ASSUME E + Window <= now + 1, NEW p \in UnderWay(k, w)
               PROVE  FALSE
    OBVIOUS
  <2>1. p \in Processes /\ check[p].since \in Nat /\ check[p].since < E
    BY UnderWaySince DEF LimitInv
  <2>2. now < check[p].since + Patience
    BY <2>1, LimitAssumption DEF Tick, UnderWay
  <2>3. Patience \in Nat /\ Patience <= Window
    BY LimitAssumption
  <2> HIDE DEF E
  <2> QED
    BY <1>5, <2>1, <2>2, <2>3
<1>8. n + u <= a => n' + u' <= a'
  <2> HIDE DEF g, u, a, n, e, L, P, E
  <2> QED
    BY <1>4, <1>5, <1>6
<1>9. InFirstBucket(k, w) => InFirstBucket(k, w)' \/ InSecondBucket(k, w)'
  <2> SUFFICES ASSUME g <= n, g <= L, e # Never => E <= e
               PROVE  \/ g' <= n' /\ g' <= L /\ (e' # Never => E <= e')
                      \/ /\ E <= now' /\ g' <= L + n' /\ g' <= 2 * L /\ g' + u' <= L + P
                         /\ e' # Never => E + Window <= e'
    BY DEF InFirstBucket, InSecondBucket
  <2> HIDE DEF g, u, a, n, e, L, P, E
  <2> QED
    BY <1>3, <1>4, <1>5, <1>6
<1>10. InSecondBucket(k, w) => InSecondBucket(k, w)' \/ AfterItsBuckets(k, w)'
  <2> SUFFICES ASSUME E <= now, g <= L + n, g <= 2 * L, g + u <= L + P,
                      e # Never => E + Window <= e
               PROVE  \/ /\ E <= now' /\ g' <= L + n' /\ g' <= 2 * L /\ g' + u' <= L + P
                         /\ e' # Never => E + Window <= e'
                      \/ /\ E + Window <= now' /\ UnderWay(k, w)' = {}
                         /\ g' <= 2 * L /\ g' <= L + P
    BY DEF InSecondBucket, AfterItsBuckets
  <2> HIDE DEF g, u, a, n, e, L, P, E
  <2> QED
    BY <1>3, <1>4, <1>5, <1>6, <1>7
<1>11. AfterItsBuckets(k, w) => AfterItsBuckets(k, w)'
  <2> SUFFICES ASSUME E + Window <= now, UnderWay(k, w) = {}, g <= 2 * L, g <= L + P
               PROVE  /\ E + Window <= now' /\ UnderWay(k, w)' = {}
                      /\ g' <= 2 * L /\ g' <= L + P
    BY DEF AfterItsBuckets
  <2> HIDE DEF g, u, a, n, e, L, P, E
  <2> QED
    BY <1>3, <1>4, <1>5
<1> QED
  BY <1>2, <1>8, <1>9, <1>10, <1>11 DEF WindowInv

(* Every step keeps the windows in Redis. *)
LEMMA StepKeepsShared ==
  ASSUME LimitTypeOK, LimitInv, LimitTypeOK', Numbered(asked)', Numbered(admitted)',
         [LimitNext]_limitVars
  PROVE  SharedInv'
<1>1. ASSUME NEW p \in Processes, Start(p)
      PROVE  SharedInv'
  <2>1. UNCHANGED <<now, bucket, check, asked, admitted>>
    BY <1>1 DEF Start, Begin
  <2> QED
    BY <2>1, QuietKeepsShared DEF InWindow
<1>2. ASSUME NEW p \in Processes, Stop(p)
      PROVE  SharedInv'
  <2>1. /\ Done(p) /\ UNCHANGED <<now, bucket>>
        /\ asked' = {c \in asked : c.by # p} /\ admitted' = {c \in admitted : c.by # p}
        /\ p # Shared
    BY <1>2, LimitAssumption DEF Stop, Done
  <2>2. \A k, w : InWindow(asked, k, w)' = InWindow(asked, k, w)
    BY <2>1 DEF InWindow
  <2>3. \A k, w : InWindow(admitted, k, w)' = InWindow(admitted, k, w)
    BY <2>1 DEF InWindow
  <2> QED
    BY <2>1, <2>2, <2>3, EndKeepsShared
<1>3. ASSUME NEW p \in Processes, NEW j \in Keys, CheckMemory(p, j)
      PROVE  SharedInv'
  <2>1. /\ UNCHANGED <<now, bucket, check>> /\ p # Shared /\ now \in Nat
        /\ asked' = Count(asked, p, j, now)
        /\ admitted' = admitted \/ admitted' = Count(admitted, p, j, now)
    BY <1>3, MemoryEffect, LimitAssumption DEF CheckMemory
  <2>2. PICK m : asked' = asked \cup {m} /\ m.by = p
    BY <2>1, Marked DEF LimitInv
  <2>3. \E c : Count(admitted, p, j, now) = admitted \cup {c} /\ c.by = p
    BY <2>1, Marked DEF LimitInv
  <2>4. \A k, w : InWindow(asked, k, w)' = InWindow(asked, k, w)
    BY <2>1, <2>2 DEF InWindow
  <2>5. \A k, w : InWindow(admitted, k, w)' = InWindow(admitted, k, w)
    BY <2>1, <2>3 DEF InWindow
  <2> QED
    BY <2>1, <2>4, <2>5, QuietKeepsShared
<1>4. ASSUME NEW p \in Processes, Expire(p) \/ AnswerAllowed(p)
      PROVE  SharedInv'
  <2>1. /\ Allow(p) /\ Done(p) /\ UNCHANGED <<now, asked>>
        /\ SetExpiry(p) \/ UNCHANGED bucket
        /\ check[p].count # 0
    BY <1>4 DEF Expire, AnswerAllowed, Allow, SetExpiry, Counted, LimitTypeOK
  <2>2. check[p].key # NoKey
    BY <2>1, CountedHasKey DEF LimitInv
  <2>3. Limit[check[p].key] \in Nat \ {0}
    BY <2>2, NamedPlace, LimitAssumption
  <2>4. check[p].count \in 1..Limit[check[p].key]
    <3>1. check[p].count = 1 \/ check[p].count \in 2..Limit[check[p].key]
      BY <1>4 DEF Expire, SetExpiry, AnswerAllowed
    <3> QED
      BY <2>3, <3>1
  <2>5. \A k, w : InWindow(asked, k, w)' = InWindow(asked, k, w)
    BY <2>1 DEF InWindow
  <2> QED
    BY <2>1, <2>2, <2>4, <2>5, EndKeepsShared
<1>5. ASSUME NEW p \in Processes, Deny(p) \/ Raise(p)
      PROVE  SharedInv'
  <2>1. /\ Done(p) /\ UNCHANGED <<now, asked, admitted>>
        /\ SetExpiry(p) \/ UNCHANGED bucket
    BY <1>5 DEF Deny, Raise
  <2> QED
    BY <2>1, EndKeepsShared DEF InWindow
<1>6. CASE UNCHANGED limitVars
  BY <1>6, QuietKeepsShared DEF limitVars, InWindow
<1> QED
  BY <1>1, <1>2, <1>3, <1>4, <1>5, <1>6, AskKeepsShared, IncrKeepsShared, TickKeepsShared
  DEF LimitNext, ProcessStep

-----------------------------------------------------------------------------
(* RateLimit: windows of a process *)

(* The marks of one process and key. *)
Own(history, p, k) == {c \in history : c.by = p /\ c.key = k}

(* A process whose entry and marks stay as they are. *)
LEMMA OwnStays ==
  ASSUME LimitTypeOK, LimitTypeOK', NEW p \in Processes, NEW k \in Keys,
         OwnInv(p, k), memory'[p][k] = memory[p][k], now <= now',
         Own(asked, p, k)' = Own(asked, p, k),
         Own(admitted, p, k)' = Own(admitted, p, k)
  PROVE  OwnInv(p, k)'
<1> DEFINE end == memory[p][k].resetAt
<1>1. \A first, last : /\ Between(admitted, p, k, first, last)'
                             = Between(admitted, p, k, first, last)
                       /\ Between(asked, p, k, first, last)'
                             = Between(asked, p, k, first, last)
  BY DEF Between, Own
<1>2. end' = end /\ end \in Nat
  <2>1. memory[p][k] \in [count : Nat, resetAt : Nat]
    BY DEF LimitTypeOK
  <2> QED
    BY <2>1
<1>3. end <= now + Window => end <= now' + Window
  <2>1. now \in Nat /\ now' \in Nat /\ Window \in Nat
    <3>1. now \in Times /\ now' \in Times
      BY DEF LimitTypeOK
    <3> QED
      BY <3>1, LimitAssumption DEF Times
  <2>2. \A e, s, t, w \in Nat : e <= s + w /\ s <= t => e <= t + w
    OBVIOUS
  <2> QED
    BY <1>2, <2>1, <2>2
<1>4. (\A c \in admitted : c.by = p /\ c.key = k => c.at < end)
        => \A c \in admitted' : c.by = p /\ c.key = k => c.at < end'
  BY <1>2 DEF Own
<1> QED
  BY <1>1, <1>2, <1>3, <1>4 DEF OwnInv, KeptBy

(* A process that has admitted nothing and has not counted yet. *)
FreshKeepsOwn ==
  \A p \in Processes, k \in Keys :
    memory[p][k] = Unused /\ (\A c \in admitted : c.by # p) => OwnInv(p, k)
LEMMA OwnBegins == LimitTypeOK /\ Numbered(asked) => FreshKeepsOwn
<1> SUFFICES ASSUME LimitTypeOK, Numbered(asked), NEW p \in Processes, NEW k \in Keys,
                    memory[p][k] = Unused, \A c \in admitted : c.by # p
             PROVE  OwnInv(p, k)
  BY DEF FreshKeepsOwn
<1>1. \A first, last : Cardinality(Between(admitted, p, k, first, last)) = 0
  <2>1. \A first, last : Between(admitted, p, k, first, last) = {}
    BY DEF Between
  <2> QED
    BY <2>1, FS_EmptySet
<1>2. \A first, last : Cardinality(Between(asked, p, k, first, last)) \in Nat
  <2>1. \A first, last : Between(asked, p, k, first, last) \subseteq asked
    BY DEF Between
  <2> QED
    BY <2>1, PartCounts DEF Numbered
<1>3. memory[p][k].count = 0 /\ memory[p][k].resetAt = 0
  BY DEF Unused
<1>4. now \in Nat /\ Window \in Nat /\ Limit[k] \in Nat
  BY LimitAssumption DEF LimitTypeOK, Times
<1>5. 0 <= now + Window /\ 0 <= Limit[k] /\ 0 <= 2 * Limit[k]
  BY <1>4
<1>6. \A first, last : 0 <= Cardinality(Between(asked, p, k, first, last))
  <2> SUFFICES ASSUME NEW first, NEW last
               PROVE  0 <= Cardinality(Between(asked, p, k, first, last))
    OBVIOUS
  <2>1. Cardinality(Between(asked, p, k, first, last)) \in Nat
    BY <1>2
  <2> QED
    BY <2>1
<1> QED
  BY <1>1, <1>3, <1>5, <1>6 DEF OwnInv, KeptBy

(* The same of the state after a step. *)
LEMMA OwnBeginsNext ==
  ASSUME LimitTypeOK', Numbered(asked)'
  PROVE  FreshKeepsOwn'
BY OwnBegins, PTL

(* A longer stretch holds the marks of a shorter one. *)
LEMMA Wider ==
  ASSUME NEW h \in SUBSET Mark, IsFiniteSet(h), NEW p, NEW k,
         NEW a \in Int, NEW b \in Int, NEW c \in Int, NEW d \in Int,
         \A m \in Between(h, p, k, a, b) : c <= m.at /\ m.at <= d
  PROVE  /\ IsFiniteSet(Between(h, p, k, a, b))
         /\ Cardinality(Between(h, p, k, a, b)) \in Nat
         /\ Cardinality(Between(h, p, k, c, d)) \in Nat
         /\ Cardinality(Between(h, p, k, a, b)) <= Cardinality(Between(h, p, k, c, d))
<1>1. Between(h, p, k, a, b) \subseteq Between(h, p, k, c, d)
  BY DEF Between
<1>2. Between(h, p, k, c, d) \subseteq h
  BY DEF Between
<1>3. IsFiniteSet(Between(h, p, k, c, d))
  BY <1>2, PartCounts
<1> QED
  BY <1>1, <1>3, PartCounts

(* Two stretches together hold no more marks than both. *)
LEMMA Joined ==
  ASSUME NEW h, IsFiniteSet(h), NEW p, NEW k, NEW S, S \subseteq h,
         NEW a, NEW b, NEW c, NEW d,
         S \subseteq Between(h, p, k, a, b) \cup Between(h, p, k, c, d)
  PROVE  /\ Cardinality(S) \in Nat
         /\ Cardinality(Between(h, p, k, a, b)) \in Nat
         /\ Cardinality(Between(h, p, k, c, d)) \in Nat
         /\ Cardinality(S) <= Cardinality(Between(h, p, k, a, b))
                                + Cardinality(Between(h, p, k, c, d))
<1> DEFINE A == Between(h, p, k, a, b)
           B == Between(h, p, k, c, d)
<1>1. A \subseteq h /\ B \subseteq h
  BY DEF Between
<1> HIDE DEF A, B
<1>2. /\ IsFiniteSet(A) /\ IsFiniteSet(B) /\ IsFiniteSet(A \cap B)
      /\ Cardinality(A) \in Nat /\ Cardinality(B) \in Nat /\ Cardinality(A \cap B) \in Nat
  BY <1>1, PartCounts
<1>3. /\ IsFiniteSet(A \cup B)
      /\ Cardinality(A \cup B) = Cardinality(A) + Cardinality(B) - Cardinality(A \cap B)
  BY <1>2, FS_Union
<1>4. Cardinality(S) <= Cardinality(A \cup B) /\ Cardinality(S) \in Nat
      /\ Cardinality(A \cup B) \in Nat
  BY <1>3, PartCounts DEF A, B
<1> QED
  BY <1>2, <1>3, <1>4 DEF A, B

(* How a process' count bounds what it admits, in any history of marks:    *)
(* the window that it counts in ends at E before and at F after a check at *)
(* time t, with counts n and n1.                                           *)
Added(h, g, p, k, t, n) ==
  g = h \/ (n <= Limit[k] /\ \E m : /\ m \notin h /\ g = h \cup {m}
                                    /\ m.by = p /\ m.key = k /\ m.at = t)
LEMMA OwnCounts ==
  ASSUME NEW h \in SUBSET Mark, IsFiniteSet(h), NEW g \in SUBSET Mark, IsFiniteSet(g),
         NEW p, NEW k \in Keys, NEW t \in Nat, NEW E \in Nat, NEW F \in Nat,
         NEW n \in Nat, NEW n1 \in Nat,
         Added(h, g, p, k, t, n1), KeptBy(h, p, k, E, n, t),
         t >= E => n1 = 1 /\ F = t + Window,
         t < E => n1 = n + 1 /\ F = E
  PROVE  KeptBy(g, p, k, F, n1, t)
<1> DEFINE L == Limit[k]
<1>0. /\ L \in Nat \ {0}
      /\ g = h \/ (n1 <= L /\ \E m : /\ m \notin h /\ g = h \cup {m}
                                     /\ m.by = p /\ m.key = k /\ m.at = t)
      /\ E <= t + Window
      /\ \A c \in h : c.by = p /\ c.key = k => c.at < E
      /\ Cardinality(Between(h, p, k, E - Window, E - 1)) <= n
      /\ Cardinality(Between(h, p, k, E - Window, E - 1)) <= L
      /\ Cardinality(Between(h, p, k, E - 2 * Window, E - Window - 1)) <= L
      /\ \A s \in Times : Cardinality(Between(h, p, k, s, s + Window - 1)) <= 2 * L
  BY LimitAssumption DEF Added, KeptBy
<1> HIDE DEF L
<1>1. Window \in Nat \ {0} /\ \A s \in Times : s \in Nat
  BY LimitAssumption DEF Times
<1>2. \A c \in h \cup g : c.at \in Nat
  BY <1>1 DEF Mark
<1>3. F <= t + Window /\ t < F /\ F - Window <= t
  BY <1>0, <1>1
<1>4. \A c \in g : c.by = p /\ c.key = k => c.at < F
  <2>1. E <= F
    BY <1>0, <1>1
  <2> QED
    BY <1>0, <1>2, <1>3, <2>1
<1>5. \A a \in Int, b \in Int : t < a \/ b < t =>
        Between(g, p, k, a, b) = Between(h, p, k, a, b)
  BY <1>0 DEF Between
<1>6. \A a \in Int, b \in Int :
        /\ IsFiniteSet(Between(h, p, k, a, b)) /\ Cardinality(Between(h, p, k, a, b)) \in Nat
        /\ IsFiniteSet(Between(g, p, k, a, b)) /\ Cardinality(Between(g, p, k, a, b)) \in Nat
  <2>1. \A a \in Int, b \in Int :
          Between(h, p, k, a, b) \subseteq h /\ Between(g, p, k, a, b) \subseteq g
    BY DEF Between
  <2> QED
    BY <2>1, PartCounts
<1>7. \A a \in Int, b \in Int :
        \/ Cardinality(Between(g, p, k, a, b)) = Cardinality(Between(h, p, k, a, b))
        \/ /\ n1 <= L
           /\ Cardinality(Between(g, p, k, a, b)) = Cardinality(Between(h, p, k, a, b)) + 1
  <2> SUFFICES ASSUME NEW a \in Int, NEW b \in Int
               PROVE  \/ Cardinality(Between(g, p, k, a, b))
                           = Cardinality(Between(h, p, k, a, b))
                      \/ /\ n1 <= L
                         /\ Cardinality(Between(g, p, k, a, b))
                              = Cardinality(Between(h, p, k, a, b)) + 1
    OBVIOUS
  <2>1. CASE g = h
    BY <2>1
  <2>2. CASE t < a \/ b < t
    BY <1>5, <2>2
  <2>3. CASE g # h /\ a <= t /\ t <= b
    <3>1. PICK m : /\ m \notin h /\ g = h \cup {m}
                   /\ m.by = p /\ m.key = k /\ m.at = t
      BY <1>0, <2>3
    <3>2. /\ Between(g, p, k, a, b) = Between(h, p, k, a, b) \cup {m}
          /\ m \notin Between(h, p, k, a, b)
      BY <2>3, <3>1 DEF Between
    <3>3. n1 <= L
      BY <1>0, <2>3
    <3> QED
      BY <1>6, <3>2, <3>3, FS_AddElement
  <2> QED
    BY <2>1, <2>2, <2>3
<1>8. /\ Cardinality(Between(g, p, k, F - Window, F - 1)) <= n1
      /\ Cardinality(Between(g, p, k, F - Window, F - 1)) <= L
  <2>1. CASE t >= E
    <3>1. Between(h, p, k, F - Window, F - 1) = {}
      BY <1>0, <1>1, <1>2, <2>1 DEF Between
    <3>2. Cardinality(Between(h, p, k, F - Window, F - 1)) = 0
      BY <3>1, FS_EmptySet
    <3>3. F - Window \in Int /\ F - 1 \in Int
      BY <1>1
    <3> QED
      BY <1>0, <1>7, <2>1, <3>2, <3>3
  <2>2. CASE t < E
    <3> DEFINE x == Cardinality(Between(h, p, k, E - Window, E - 1))
               y == Cardinality(Between(g, p, k, E - Window, E - 1))
    <3>1. E - Window \in Int /\ E - 1 \in Int
      BY <1>1
    <3>2. x \in Nat /\ x <= n /\ x <= L /\ n1 = n + 1 /\ F = E
          /\ (y = x \/ (n1 <= L /\ y = x + 1))
      BY <1>0, <1>6, <1>7, <2>2, <3>1
    <3> HIDE DEF x, y
    <3>3. y <= n1 /\ y <= L
      BY <1>0, <3>2
    <3> QED
      BY <3>2, <3>3 DEF y
  <2> QED
    BY <1>1, <2>1, <2>2
<1>9. Cardinality(Between(g, p, k, F - 2 * Window, F - Window - 1)) <= L
  <2>1. F - 2 * Window \in Int /\ F - Window - 1 \in Int /\ F - Window - 1 < t
    BY <1>1, <1>3
  <2>2. Between(g, p, k, F - 2 * Window, F - Window - 1)
          = Between(h, p, k, F - 2 * Window, F - Window - 1)
    BY <1>5, <2>1
  <2>3. CASE t >= E
    <3>1. \A m \in Between(h, p, k, F - 2 * Window, F - Window - 1) :
            E - Window <= m.at /\ m.at <= E - 1
      BY <1>0, <1>1, <1>2, <2>3 DEF Between
    <3>2. E - Window \in Int /\ E - 1 \in Int
      BY <1>1
    <3> DEFINE x == Cardinality(Between(h, p, k, F - 2 * Window, F - Window - 1))
               y == Cardinality(Between(h, p, k, E - Window, E - 1))
    <3>3. x \in Nat /\ y \in Nat /\ x <= y
      BY <2>1, <3>1, <3>2, Wider
    <3>4. y <= L
      BY <1>0
    <3> HIDE DEF x, y
    <3>5. x <= L
      BY <1>0, <3>3, <3>4
    <3> QED
      BY <2>2, <3>5 DEF x
  <2>4. CASE t < E
    BY <1>0, <2>2, <2>4
  <2> QED
    BY <1>1, <2>3, <2>4
<1>10. ASSUME NEW s \in Times
       PROVE  Cardinality(Between(g, p, k, s, s + Window - 1)) <= 2 * L
  <2>1. s \in Int /\ s + Window - 1 \in Int
    BY <1>1
  <2>2. CASE t < s \/ s + Window - 1 < t
    BY <1>0, <1>5, <2>1, <2>2
  <2>3. CASE s <= t /\ t <= s + Window - 1
    <3> DEFINE T == Between(g, p, k, s, s + Window - 1)
               x == Cardinality(Between(g, p, k, F - 2 * Window, F - Window - 1))
               y == Cardinality(Between(g, p, k, F - Window, F - 1))
    <3>1. F - 2 * Window <= s
      BY <1>1, <1>3, <2>3
    <3>2. T \subseteq g
      BY DEF Between
    <3>3. T \subseteq Between(g, p, k, F - 2 * Window, F - Window - 1)
                        \cup Between(g, p, k, F - Window, F - 1)
      <4> SUFFICES ASSUME NEW c \in T
                   PROVE  \/ F - 2 * Window <= c.at /\ c.at <= F - Window - 1
                          \/ F - Window <= c.at /\ c.at <= F - 1
        BY DEF Between
      <4>1. c \in g /\ s <= c.at /\ c.at < F /\ c.at \in Nat
        BY <1>2, <1>4 DEF Between
      <4> QED
        BY <1>1, <2>1, <3>1, <4>1
    <3>4. /\ Cardinality(T) \in Nat /\ x \in Nat /\ y \in Nat
          /\ Cardinality(T) <= x + y
      <4> DEFINE a0 == F - 2 * Window
                 b0 == F - Window - 1
                 c0 == F - Window
                 d0 == F - 1
      <4>1. T \subseteq Between(g, p, k, a0, b0) \cup Between(g, p, k, c0, d0)
        BY <3>3
      <4> HIDE DEF T, a0, b0, c0, d0
      <4>2. /\ Cardinality(T) \in Nat
            /\ Cardinality(Between(g, p, k, a0, b0)) \in Nat
            /\ Cardinality(Between(g, p, k, c0, d0)) \in Nat
            /\ Cardinality(T) <= Cardinality(Between(g, p, k, a0, b0))
                                   + Cardinality(Between(g, p, k, c0, d0))
        BY <3>2, <4>1, Joined
      <4> QED
        BY <4>2 DEF a0, b0, c0, d0
    <3>5. x <= L /\ y <= L
      BY <1>8, <1>9
    <3> HIDE DEF T, x, y
    <3>6. Cardinality(T) <= 2 * L
      BY <1>0, <3>4, <3>5
    <3> QED
      BY <3>6 DEF T
  <2> QED
    BY <1>1, <2>1, <2>2, <2>3
<1> QED
  BY <1>3, <1>4, <1>8, <1>9, <1>10 DEF KeptBy, L

(* A check in memory keeps the windows of its process and key. *)
LEMMA CheckKeepsOwn ==
  ASSUME LimitTypeOK, LimitInv, LimitTypeOK', Numbered(asked)', Numbered(admitted)',
         NEW p \in Processes, NEW k \in Keys, CheckMemory(p, k)
  PROVE  OwnInv(p, k)'
<1> DEFINE E == memory[p][k].resetAt
           F == memory'[p][k].resetAt
           n == memory[p][k].count
           n1 == memory'[p][k].count
<1>1. /\ backend[p] = "memory" /\ now \in Nat /\ now \in Times
      /\ E \in Nat /\ F \in Nat /\ n \in Nat /\ n1 \in Nat
      /\ now >= E => n1 = 1 /\ F = now + Window
      /\ now < E => n1 = n + 1 /\ F = E
      /\ asked' = Count(asked, p, k, now)
      /\ admitted' = IF n1 > Limit[k] THEN admitted ELSE Count(admitted, p, k, now)
      /\ now' = now
  BY MemoryEffect DEF LimitTypeOK, CheckMemory
<1>2. OwnInv(p, k)
  BY <1>1 DEF LimitInv, MemoryInv, MemoryKept
<1>3. Window \in Nat \ {0} /\ Limit[k] \in Nat \ {0}
  BY LimitAssumption
<1>4. /\ admitted \in SUBSET Mark /\ admitted' \in SUBSET Mark
      /\ IsFiniteSet(admitted) /\ IsFiniteSet(admitted') /\ IsFiniteSet(asked)
  BY DEF LimitTypeOK, LimitInv, Numbered
<1>5. Added(admitted, admitted', p, k, now, n1)
  <2>1. CASE n1 > Limit[k]
    BY <1>1, <2>1 DEF Added
  <2>2. CASE ~(n1 > Limit[k])
    <3>1. n1 <= Limit[k]
      BY <1>1, <1>3, <2>2
    <3>2. admitted' = Count(admitted, p, k, now)
      BY <1>1, <2>2
    <3>3. \E m : /\ m \notin admitted /\ Count(admitted, p, k, now) = admitted \cup {m}
                 /\ m.by = p /\ m.key = k /\ m.at = now
      BY <1>1, Marked DEF LimitInv
    <3> QED
      BY <3>1, <3>2, <3>3 DEF Added
  <2> QED
    BY <2>1, <2>2
<1>6. /\ KeptBy(admitted, p, k, E, n, now)
      /\ n <= Cardinality(Between(asked, p, k, E - Window, E - 1))
  BY <1>2 DEF OwnInv
<1> HIDE DEF E, F, n, n1
<1>7. KeptBy(admitted', p, k, F, n1, now)
  BY <1>1, <1>4, <1>5, <1>6, OwnCounts
<1>8. n1 <= Cardinality(Between(asked', p, k, F - Window, F - 1))
  <2>1. PICK m : /\ m \notin asked /\ asked' = asked \cup {m}
                 /\ m.by = p /\ m.key = k /\ m.at = now
    BY <1>1, Marked DEF LimitInv
  <2>2. F - Window <= now /\ now <= F - 1
    BY <1>1, <1>3, <1>6 DEF KeptBy
  <2>3. /\ Between(asked', p, k, F - Window, F - 1)
             = Between(asked, p, k, F - Window, F - 1) \cup {m}
        /\ m \notin Between(asked, p, k, F - Window, F - 1)
    BY <2>1, <2>2 DEF Between
  <2>4. Between(asked, p, k, F - Window, F - 1) \subseteq asked
    BY DEF Between
  <2>5. /\ IsFiniteSet(Between(asked, p, k, F - Window, F - 1))
        /\ Cardinality(Between(asked, p, k, F - Window, F - 1)) \in Nat
    BY <1>4, <2>4, PartCounts
  <2>6. Cardinality(Between(asked', p, k, F - Window, F - 1))
          = Cardinality(Between(asked, p, k, F - Window, F - 1)) + 1
    BY <2>3, <2>5, FS_AddElement
  <2>7. CASE now >= E
    BY <1>1, <2>5, <2>6, <2>7
  <2>8. CASE now < E
    BY <1>1, <1>6, <2>5, <2>6, <2>8
  <2> QED
    BY <1>1, <2>7, <2>8
<1> QED
  BY <1>1, <1>7, <1>8 DEF OwnInv, E, F, n, n1

(* A process that takes no part in a step. *)
LEMMA OtherMemoryKept ==
  ASSUME LimitTypeOK, LimitTypeOK', NEW q \in Processes, MemoryKept(q), now <= now',
         backend'[q] = backend[q], memory'[q] = memory[q],
         \A c : c \in asked' /\ c.by = q <=> c \in asked /\ c.by = q,
         \A c : c \in admitted' /\ c.by = q <=> c \in admitted /\ c.by = q
  PROVE  MemoryKept(q)'
<1>1. ASSUME backend[q] = "memory", NEW k \in Keys
      PROVE  OwnInv(q, k)'
  <2>1. Own(asked, q, k)' = Own(asked, q, k) /\ Own(admitted, q, k)' = Own(admitted, q, k)
    BY DEF Own
  <2>2. OwnInv(q, k) /\ memory'[q][k] = memory[q][k]
    BY <1>1 DEF MemoryKept
  <2> QED
    BY <2>1, <2>2, OwnStays
<1>2. backend[q] # "memory" => \A c \in admitted' : c.by # q
  BY DEF MemoryKept
<1> QED
  BY <1>1, <1>2 DEF MemoryKept

(* A step that counts in Redis, if anywhere, or lets time pass. *)
LEMMA QuietKeepsMemory ==
  ASSUME LimitTypeOK, LimitTypeOK', LimitInv, now <= now', UNCHANGED <<backend, memory>>,
         asked' = asked \/ \E c : asked' = asked \cup {c} /\ c.by = Shared,
         admitted' = admitted \/ \E c : admitted' = admitted \cup {c} /\ c.by = Shared
  PROVE  MemoryInv'
<1> SUFFICES ASSUME NEW q \in Processes
             PROVE  MemoryKept(q)'
  BY DEF MemoryInv
<1>1. q # Shared /\ MemoryKept(q)
  BY LimitAssumption DEF LimitInv, MemoryInv
<1>2. \A c : c \in asked' /\ c.by = q <=> c \in asked /\ c.by = q
  BY <1>1
<1>3. \A c : c \in admitted' /\ c.by = q <=> c \in admitted /\ c.by = q
  BY <1>1
<1> QED
  BY <1>1, <1>2, <1>3, OtherMemoryKept

(* Every step keeps the windows of the processes. *)
LEMMA StepKeepsMemory ==
  ASSUME LimitTypeOK, LimitInv, LimitTypeOK', Numbered(asked)', Numbered(admitted)',
         [LimitNext]_limitVars
  PROVE  MemoryInv'
<1>0. now \in Nat
  BY LimitAssumption DEF LimitTypeOK, Times
<1>1. ASSUME NEW p \in Processes, Start(p)
      PROVE  MemoryInv'
  <2>1. /\ backend[p] = "down" /\ UNCHANGED <<now, asked, admitted>>
        /\ \A q \in Processes \ {p} : backend'[q] = backend[q] /\ memory'[q] = memory[q]
        /\ \A k \in Keys : memory'[p][k] = Unused
    BY <1>1 DEF Start, Begin, LimitTypeOK
  <2>2. \A c \in admitted' : c.by # p
    BY <2>1 DEF LimitInv, MemoryInv, MemoryKept
  <2>3. \A k \in Keys : OwnInv(p, k)'
    BY <2>1, <2>2, OwnBeginsNext DEF FreshKeepsOwn
  <2>4. MemoryKept(p)'
    BY <2>2, <2>3 DEF MemoryKept
  <2>5. ASSUME NEW q \in Processes \ {p}
        PROVE  MemoryKept(q)'
    <3>1. now <= now' /\ MemoryKept(q)
      BY <1>0, <2>1 DEF LimitInv, MemoryInv
    <3> QED
      BY <2>1, <3>1, OtherMemoryKept
  <2> QED
    BY <2>4, <2>5 DEF MemoryInv
<1>2. ASSUME NEW p \in Processes, Stop(p)
      PROVE  MemoryInv'
  <2>1. /\ backend'[p] = "down" /\ UNCHANGED <<now, memory>>
        /\ \A q \in Processes \ {p} : backend'[q] = backend[q]
        /\ asked' = {c \in asked : c.by # p} /\ admitted' = {c \in admitted : c.by # p}
    BY <1>2 DEF Stop, LimitTypeOK
  <2>2. MemoryKept(p)'
    BY <2>1 DEF MemoryKept
  <2>3. ASSUME NEW q \in Processes \ {p}
        PROVE  MemoryKept(q)'
    <3>1. now <= now' /\ MemoryKept(q)
      BY <1>0, <2>1 DEF LimitInv, MemoryInv
    <3>2. \A c : c \in asked' /\ c.by = q <=> c \in asked /\ c.by = q
      BY <2>1
    <3>3. \A c : c \in admitted' /\ c.by = q <=> c \in admitted /\ c.by = q
      BY <2>1
    <3> QED
      BY <2>1, <3>1, <3>2, <3>3, OtherMemoryKept
  <2> QED
    BY <2>2, <2>3 DEF MemoryInv
<1>3. ASSUME NEW p \in Processes, NEW k \in Keys, CheckMemory(p, k)
      PROVE  MemoryInv'
  <2>1. /\ backend[p] = "memory" /\ UNCHANGED <<now, backend>> /\ p \in Tallies
        /\ \A q \in Processes, j \in Keys : q # p \/ j # k => memory'[q][j] = memory[q][j]
        /\ asked' = Count(asked, p, k, now)
        /\ admitted' = admitted \/ admitted' = Count(admitted, p, k, now)
    BY <1>3, MemoryEffect DEF CheckMemory, Tallies
  <2>2. PICK m : asked' = asked \cup {m} /\ m.by = p /\ m.key = k
    BY <1>0, <2>1, Marked DEF LimitInv
  <2>3. PICK c : Count(admitted, p, k, now) = admitted \cup {c} /\ c.by = p /\ c.key = k
    BY <1>0, Marked DEF LimitInv
  <2>4. ASSUME NEW q \in Processes, NEW j \in Keys, q # p \/ j # k, OwnInv(q, j)
        PROVE  OwnInv(q, j)'
    <3>1. Own(asked, q, j)' = Own(asked, q, j)
      BY <2>2, <2>4 DEF Own
    <3>2. Own(admitted, q, j)' = Own(admitted, q, j)
      BY <2>1, <2>3, <2>4 DEF Own
    <3>3. now <= now' /\ memory'[q][j] = memory[q][j]
      BY <1>0, <2>1, <2>4
    <3> QED
      BY <2>4, <3>1, <3>2, <3>3, OwnStays
  <2>5. OwnInv(p, k)'
    BY <1>3, CheckKeepsOwn
  <2>6. MemoryKept(p)'
    BY <2>1, <2>4, <2>5 DEF LimitInv, MemoryInv, MemoryKept
  <2>7. ASSUME NEW q \in Processes \ {p}
        PROVE  MemoryKept(q)'
    <3>1. MemoryKept(q)
      BY DEF LimitInv, MemoryInv
    <3>2. backend[q] # "memory" => \A d \in admitted' : d.by # q
      BY <2>1, <2>3, <3>1 DEF MemoryKept
    <3> QED
      BY <2>1, <2>4, <3>1, <3>2 DEF MemoryKept
  <2> QED
    BY <2>6, <2>7 DEF MemoryInv
<1>4. ASSUME NEW p \in Processes, NEW k \in Keys, Ask(p, k)
      PROVE  MemoryInv'
  <2>1. /\ UNCHANGED <<backend, memory, admitted>> /\ now <= now'
        /\ asked' = Count(asked, Shared, k, now)
    BY <1>0, <1>4 DEF Ask
  <2>2. \E c : Count(asked, Shared, k, now) = asked \cup {c} /\ c.by = Shared
    BY <1>0, Marked DEF LimitInv
  <2> QED
    BY <2>1, <2>2, QuietKeepsMemory
<1>5. ASSUME NEW p \in Processes, Expire(p) \/ AnswerAllowed(p)
      PROVE  MemoryInv'
  <2>1. /\ Allow(p) /\ UNCHANGED <<backend, memory, asked>> /\ now <= now'
        /\ check[p].count # 0
    BY <1>0, <1>5 DEF Expire, AnswerAllowed, Allow, SetExpiry, Counted, LimitTypeOK
  <2>2. check[p].key # NoKey
    BY <2>1, CountedHasKey DEF LimitInv
  <2> QED
    BY <2>1, <2>2, AllowEffect, QuietKeepsMemory
<1>6. CASE Tick
  <2>1. UNCHANGED <<backend, memory, asked, admitted>> /\ now <= now'
    BY <1>0, <1>6 DEF Tick
  <2> QED
    BY <2>1, QuietKeepsMemory
<1>7. ASSUME NEW p \in Processes, Incr(p) \/ Deny(p) \/ Raise(p)
      PROVE  MemoryInv'
  <2>1. UNCHANGED <<backend, memory, asked, admitted>> /\ now <= now'
    BY <1>0, <1>7 DEF Incr, Deny, Raise
  <2> QED
    BY <2>1, QuietKeepsMemory
<1>8. CASE UNCHANGED limitVars
  <2>1. UNCHANGED <<backend, memory, asked, admitted>> /\ now <= now'
    BY <1>0, <1>8 DEF limitVars
  <2> QED
    BY <2>1, QuietKeepsMemory
<1> QED
  BY <1>1, <1>2, <1>3, <1>4, <1>5, <1>6, <1>7, <1>8 DEF LimitNext, ProcessStep

-----------------------------------------------------------------------------
(* RateLimit: theorems *)

(* The invariant holds at first. *)
LEMMA LimitInitInv == LimitInit => LimitInv
<1> SUFFICES ASSUME LimitInit PROVE LimitInv
  OBVIOUS
<1>1. LimitTypeOK
  BY LimitInitTypes
<1>2. Numbered(asked) /\ Numbered(admitted)
  BY FS_EmptySet DEF LimitInit, Numbered
<1>3. InTime
  BY DEF LimitInit, InTime, Idle
<1>4. ASSUME NEW k \in Keys, NEW w \in Windows
      PROVE  WindowInv(k, w)
  <2>1. /\ InWindow(admitted, k, w) = {} /\ InWindow(asked, k, w) = {}
        /\ Accepted(k, w) = {} /\ Uncounted(k, w) = {}
    BY <1>4, LimitAssumption DEF LimitInit, InWindow, Accepted, Uncounted, UnderWay, Idle
  <2>2. Cardinality({}) = 0
    BY FS_EmptySet
  <2>3. bucket[k][w] = Missing /\ Limit[k] \in Nat
    BY LimitAssumption DEF LimitInit
  <2>4. Granted(k, w) = 0
    BY <2>1, <2>2 DEF Granted
  <2> QED
    BY <2>1, <2>2, <2>3, <2>4 DEF WindowInv, InFirstBucket, Missing
<1>5. ASSUME NEW p \in Processes
      PROVE  MemoryKept(p)
  BY DEF LimitInit, MemoryKept
<1> QED
  BY <1>2, <1>3, <1>4, <1>5 DEF LimitInv, SharedInv, MemoryInv

(* The invariant, with the types, holds in every state. *)
LEMMA LimitInvariance == LimitSpec => [](LimitTypeOK /\ LimitInv)
<1>1. LimitInit => LimitTypeOK /\ LimitInv
  BY LimitInitTypes, LimitInitInv
<1>2. LimitTypeOK /\ LimitInv /\ [LimitNext]_limitVars => (LimitTypeOK /\ LimitInv)'
  <2> SUFFICES ASSUME LimitTypeOK, LimitInv, [LimitNext]_limitVars
               PROVE  LimitTypeOK' /\ LimitInv'
    OBVIOUS
  <2>1. LimitTypeOK' /\ Numbered(asked)' /\ Numbered(admitted)' /\ InTime'
    BY LimitStepTypes
  <2>2. SharedInv'
    BY <2>1, StepKeepsShared
  <2>3. MemoryInv'
    BY <2>1, StepKeepsMemory
  <2> QED
    BY <2>1, <2>2, <2>3 DEF LimitInv
<1> QED
  BY <1>1, <1>2, PTL DEF LimitSpec

(* Types, and that a process which has chosen Redis counts nothing in its  *)
(* memory (__init__ of RateLimiter).                                       *)
THEOREM LimitTypeCorrect == LimitSpec => []LimitTypeOK
BY LimitInvariance, PTL

(* A window of Redis admits the limit, one more for each process at most   *)
(* and never twice the limit, and no process that counts by itself admits  *)
(* more than twice the limit in a window's length (check of RateLimiter).  *)
THEOREM LimitsAreKept == LimitSpec => []LimitIsKept
<1>1. LimitTypeOK /\ LimitInv => LimitIsKept
  <2> SUFFICES ASSUME LimitTypeOK, LimitInv, NEW k \in Keys
               PROVE  /\ \A w \in Windows :
                           LET n == Cardinality(InWindow(admitted, k, w))
                           IN  /\ n <= Limit[k] + Cardinality(Processes)
                               /\ n <= 2 * Limit[k]
                      /\ \A p \in Processes, t \in Times :
                           Cardinality(Between(admitted, p, k, t, t + Window - 1))
                             <= 2 * Limit[k]
    BY DEF LimitIsKept
  <2>1. ASSUME NEW w \in Windows
        PROVE  /\ Cardinality(InWindow(admitted, k, w)) <= Limit[k] + Cardinality(Processes)
               /\ Cardinality(InWindow(admitted, k, w)) <= 2 * Limit[k]
    <3> DEFINE n == Cardinality(InWindow(admitted, k, w))
               a == Cardinality(Accepted(k, w))
               u == Cardinality(Uncounted(k, w))
               g == Granted(k, w)
               L == Limit[k]
               P == Cardinality(Processes)
    <3>1. Numbers(k, w)
      BY NumbersHold DEF LimitInv, AllNumbers
    <3>2. n \in Nat /\ a \in Nat /\ u \in Nat /\ g = n + a
      BY <3>1 DEF Numbers, Granted
    <3>3. L \in Nat \ {0} /\ P \in Nat
      BY ConstantNumbers
    <3>4. g <= L \/ (g + u <= L + P /\ g <= 2 * L) \/ (g <= 2 * L /\ g <= L + P)
      <4>1. CASE InFirstBucket(k, w)
        BY <4>1 DEF InFirstBucket
      <4>2. CASE InSecondBucket(k, w)
        <5>1. u <= P
          BY <3>1 DEF Numbers
        <5>2. g <= 2 * L
          BY <4>2 DEF InSecondBucket
        <5>3. g + u <= L + P
          BY <4>2 DEF InSecondBucket
        <5> QED
          BY <5>2, <5>3
      <4>3. CASE AfterItsBuckets(k, w)
        BY <4>3 DEF AfterItsBuckets
      <4> QED
        BY <4>1, <4>2, <4>3 DEF LimitInv, SharedInv, WindowInv
    <3> HIDE DEF n, a, u, g, L, P
    <3>5. n <= L + P /\ n <= 2 * L
      BY <3>2, <3>3, <3>4
    <3> QED
      BY <3>5 DEF n, L, P
  <2>2. ASSUME NEW p \in Processes, NEW t \in Times
        PROVE  Cardinality(Between(admitted, p, k, t, t + Window - 1)) <= 2 * Limit[k]
    <3>1. CASE backend[p] = "memory"
      BY <3>1 DEF LimitInv, MemoryInv, MemoryKept, OwnInv, KeptBy
    <3>2. CASE backend[p] # "memory"
      <4>1. Between(admitted, p, k, t, t + Window - 1) = {}
        BY <3>2 DEF LimitInv, MemoryInv, MemoryKept, Between
      <4>2. Cardinality(Between(admitted, p, k, t, t + Window - 1)) = 0
        BY <4>1, FS_EmptySet
      <4>3. Limit[k] \in Nat
        BY LimitAssumption
      <4>4. 0 <= 2 * Limit[k]
        BY <4>3
      <4> QED
        BY <4>2, <4>4
    <3> QED
      BY <3>1, <3>2
  <2> QED
    BY <2>1, <2>2
<1> QED
  BY <1>1, LimitInvariance, PTL

(* A counter, in Redis or in memory, holds no more than was asked in its   *)
(* own window, whoever died before setting an expiry.                      *)
THEOREM PastStaysForgotten == LimitSpec => []PastIsForgotten
<1>1. LimitTypeOK /\ LimitInv => PastIsForgotten
  <2> SUFFICES ASSUME LimitTypeOK, LimitInv, NEW k \in Keys
               PROVE  /\ \A w \in Windows :
                           bucket[k][w].count <= Cardinality(InWindow(asked, k, w))
                      /\ \A p \in Processes :
                           backend[p] = "memory" =>
                             LET end == memory[p][k].resetAt
                             IN  memory[p][k].count
                                   <= Cardinality(Between(asked, p, k, end - Window, end - 1))
    BY DEF PastIsForgotten
  <2>1. ASSUME NEW w \in Windows
        PROVE  bucket[k][w].count <= Cardinality(InWindow(asked, k, w))
    <3> DEFINE b == bucket[k][w].count
               u == Cardinality(Uncounted(k, w))
               n == Cardinality(InWindow(asked, k, w))
    <3>1. Numbers(k, w)
      BY NumbersHold DEF LimitInv, AllNumbers
    <3>2. b \in Nat /\ u \in Nat /\ n \in Nat
      BY <3>1 DEF Numbers
    <3>3. b + u <= n
      BY DEF LimitInv, SharedInv, WindowInv
    <3> HIDE DEF b, u, n
    <3>4. b <= n
      BY <3>2, <3>3
    <3> QED
      BY <3>4 DEF b, n
  <2>2. ASSUME NEW p \in Processes, backend[p] = "memory"
        PROVE  LET end == memory[p][k].resetAt
               IN  memory[p][k].count
                     <= Cardinality(Between(asked, p, k, end - Window, end - 1))
    BY <2>2 DEF LimitInv, MemoryInv, MemoryKept, OwnInv
  <2> QED
    BY <2>1, <2>2
<1> QED
  BY <1>1, LimitInvariance, PTL
=============================================================================
