# A verification of the Audio Analysis Service

This directory holds TLA+ models of the concurrent core of the service, the TLC
runs that check them on small instances, and proofs of their main properties for
instances of every size, checked by TLAPS. It is written for a reader of the
repository; paths are relative to its root.

    PointBook        what the point system promises: an atomic statement of account
    Accounts         apply_points in sessions with row locks and an identity map
    AccountsProofs   theorems about Accounts
    Orders           point purchases, EXTENDS Accounts
    OrdersProofs     theorems about Orders
    Coupons          coupon redemption, EXTENDS Accounts
    CouponsProofs    theorems about Coupons
    Logins           registration, login and the daily bonus, EXTENDS Accounts
    LoginsProofs     theorems about Logins
    Analysis         song analysis, its file and its charge, API keys, EXTENDS Accounts
    AnalysisProofs   theorems about Analysis
    RefreshTokens    refresh tokens, rotation, reuse detection, logout
    WebClient        the browser's side of a session, EXTENDS RefreshTokens
    RefreshTokensProofs   theorems about both
    RateLimit        the rate limiter, in Redis or in memory
    MasterData       start-up: processes that seed; row locks, shared and exclusive
    Administration   status, role, settings, plans, the audit log, EXTENDS MasterData
    AdministrationProofs  theorems about both
    RequestPool      threads, connections and the counters of one process
    ServingProofs    theorems about RequestPool and RateLimit
    MC*              instances of each for TLC; *.cfg, one per run

## 1. The system

A FastAPI backend (`backend/app`) with a MySQL database, a Redis rate limiter, a
directory of uploads and a React client (`frontend/src`). Handlers are ordinary
functions: FastAPI runs each request on one of 40 worker threads with a
SQLAlchemy session of its own, and Compose may start several processes. Nothing
in the processes is shared but the rate limiter's memory fallback and the
counters of the observability module; requests meet in the database.

| component | code | state | operations | who it meets |
|---|---|---|---|---|
| point accounts | `services/points.py`, `models/entities.py` | `users.points_balance`, `point_transactions` | `apply_points` | called by every component below that moves points |
| point orders | `routes/commercial.py`, `routes/admin.py` | `payment_orders.status` | `create_order`, `mock_pay`, `order_status` | accounts |
| coupons | the same | `coupons`, `coupon_redemptions` | `create_coupon`, `redeem_coupon`, expiry | accounts |
| song analysis | `routes/songs.py`, `services/storage.py`, `services/analyzer.py` | `uploaded_files`, `song_analyses`, `analysis_jobs`, `api_usage_logs`, the upload directory | `analyze`, `delete_history` | accounts |
| refresh tokens | `services/auth.py`, `routes/auth.py` | `refresh_tokens` | login, refresh, logout, logout-all, reuse detection | the web client |
| registration, login, daily bonus | `services/auth.py` | `users`, `daily_login_rewards` | `register_user`, `login_user` | accounts, refresh tokens |
| API keys | `routes/commercial.py`, `dependencies.py` | `api_keys` | create, revoke, use | analysis |
| administration | `routes/admin.py` | `users.status`, `users.role`, `admin_audit_logs`, `system_settings`, `plans` | status, points, roles, orders, coupons, settings, plans | accounts, orders, tokens, start-up |
| subscriptions | `routes/commercial.py` | `subscriptions`, read by nobody | `subscribe` | administration, by row locks |
| web client session | `frontend/src/api.ts`, `App.tsx` | tokens in memory and localStorage | `request`, refresh on 401, logout | refresh tokens |
| rate limiter | `core/rate_limit.py`, `main.py` | windows in Redis or in memory | `check` | every request |
| threads and pool | `core/database.py`, `dependencies.py`, `main.py` | 40 threads, 15 connections | acquire, release, time-out, `ready_check` | every request |
| counters | `core/observability.py` | three counters per path | record, scrape | every request |
| start-up | `main.py`, `services/bootstrap.py` | packages, plans, settings | `seed_master_data` | itself, in another process; administration |
| feature extraction, report, schemas, migrations, UI | `services/analyzer.py`, `audio/`, `services/report.py`, `schemas/`, `alembic/`, `App.tsx` | none, or declarative | | |

What makes each of them correct, and what is hard about it:

- **Accounts.** Balance and newest ledger line agree; no balance leaves its
  column; an entry continues the one before it. Hard: authentication has loaded
  the caller's row before `SELECT ... FOR UPDATE` locks it, and SQLAlchemy does
  not overwrite an instance that the session already holds, so the balance that
  `apply_points` computes with may be older than the lock.
- **Orders.** An order grants its points when, and only when, it becomes `PAID`.
  Hard: several payments at once, administrators in between, two row locks in a
  fixed order, and a third that nobody wrote down: an administrator's audit line
  (`admin.py:155`) shares the administrator's own row of `users` through its foreign
  key, while the owner's row is held.
- **Coupons.** One reward per user and coupon; the limit. Hard: every check is a
  plain read, only the unique constraint is enforced at commit.
- **Analysis.** Charged once for a success and never otherwise; no file is left.
  Hard: seconds between admission and charge, failures at each of four commits and
  of the read that follows the second inside the same `try`, deletion meanwhile,
  crashes.
- **Refresh tokens.** A family has one live token, in one chain; a family that
  was revoked stays so. Hard: the same token sent twice, reuse detected while a
  refresh runs, `logout-all` in the middle, deadlocks between two revocations.
- **Logins.** One account per address with one registration bonus, one daily bonus
  per user and day. Hard: both look first and insert later, so two requests find
  the same gap; the unique constraints decide, and what follows their failure is
  code that tests do not reach; midnight falls between look and insert.
- **Web client.** The client has the live token of its session, and has none
  after logout. Hard: two requests that are answered 401 at the same time
  refresh with the same token; answers arrive late, or not, or when the page
  holds another session.
- **API keys.** What a key's owner is charged and what its usage log says agree.
  Hard: the key is looked up at admission and again, seconds later, when it may
  have been revoked.
- **Rate limiter.** No more than the limit passes in a window, and nobody is
  refused for an earlier one. Hard: a check in Redis is a clock that is read and
  two calls, each of which may fail or come late.
- **Administration.** The audit log explains the state. Hard: the target is read
  without a lock and written later, so a line can be about a request that
  changed nothing; the line's foreign key locks the administrator's own row, so
  two administrators who change each other deadlock.
- **Start-up.** The seed is there once and as a whole. Hard: two processes at
  start, of which nothing but the unique names of plans and keys of settings
  keeps one out; the packages have no such constraint.
- **Threads and pool.** Every request is answered. Hard: a session keeps its
  connection while the request queues for its next thread, and others keep a
  thread while they wait for a connection.
- **Counters.** What a scrape shows fits together. Hard: it is read in a thread
  while the event loop adds.

`PROJECT.json` lists the hazards one by one with the lines where they bite.

## 2. How the code became TLA+

**Granularity.** A step ends where a request can be interrupted in a way others
see: at a wait for a row lock, at a commit, at a file operation, and where a
crash makes a difference. Everything a session does between two such points
touches only its own memory and is one action.

**The database.** MySQL's InnoDB at its default level REPEATABLE READ (no code
or configuration of the repository sets another; the deployment diagram of the
root README names READ COMMITTED, line 104). Two models depend on the difference:
Coupons, whose count would be taken a little later and be no more locked, and
MasterData, where it decides. At REPEATABLE READ a process that misses the
packages misses the plans too, and its INSERT of the plans then fails if another
process was faster; at READ COMMITTED (`VisibleCommitted`) it may find the plans of
a seed that was committed between its two reads, insert only the packages, and
double them. A plain read sees committed rows; a locking read or an UPDATE waits for
the row lock and sees the latest commit; a lock goes at the end of the
transaction. A unique constraint is a guard of the commit, because `autoflush` is
off and handlers flush in `commit()`. An aborted transaction leaves nothing.

**The session.** `Accounts!seen` is the identity map of a request: what balance
its instance of a user has. `OpenSession` fills the caller's (`get_current_user`
in `dependencies.py`), `LockedRead` prefers it to the locked row
(`points.py:17-20`), commit keeps it where the handler goes on
(`expire_on_commit=False`) and closing drops it.

**Failure.** `EndSession`/`Abandon` is any exception, lost connection or dead
process before commit. In Analysis, where it leaves something behind, crashes
(of the requests in `Crashing`) and refused statements (of those in `DbTrouble`)
are actions of their own; in RefreshTokens `Crash` ends a request at any point
(if `MayCrash`). WebClient has no crash of the server, but answers that are lost
and pages that are left. In MasterData a process may stop before it serves, and
in Administration `Lose` ends a request before its commit.

**Three ways to lock.** The modules that EXTEND Accounts have one exclusive lock per
user row, as `SELECT ... FOR UPDATE` takes it. Orders adds the lock of the order row
and, for administrators, the shared lock that the audit line's foreign key takes on
their own user row in the flush of the commit (`InsertAudit`, the members of `audited`);
`WaitsFor` says who keeps whom waiting, and `Victim` is the request InnoDB rolls back when
requests wait for each other. MasterData and Administration add
the locks nobody wrote down: those an INSERT takes, shared on the rows its
foreign keys refer to and exclusive on its own keys. A flush is a list of such
statements (`todo`), taken one by one; `Deadlocked` is what InnoDB detects.

**Threads.** In RequestPool a stage is a function that FastAPI hands to a worker
thread (dependency, handler, check of the response) or that runs on the event
loop (closing, counting). Between two stages a request has no thread, but its
session still has its connection.

| module | its variables and the code's state | its actions and the code |
|---|---|---|
| Accounts | `balance`, `ledger`: the tables; `rowLock`: InnoDB; `seen`, `draft`: the session | `OpenSession` (dependencies), `ApplyPoints`/`RefusePoints` (points.py:16-37), `CommitPoints`, `EndSession` (database.py) |
| Orders | `status`, `orderLock`; `task`: what a request was sent to do; `audited`: who has inserted an audit line and shares its own user row | `CreateOrder`, `Begin`, `LockOrder`/`RejectOrder`, `GrantPoints`, `InsertAudit` (admin.py:155, in the flush), `CommitPayment`, `CommitStatus`, `Abandon` |
| Coupons | `coupon`, `redeemed`; `redeeming`: the request's coupon | `CreateCoupon`, `ExpireCoupon`, `StartRedeem` (all checks), `GrantReward`, `CommitRedemption`, `Abandon` |
| Analysis | `disk`, `upload`, `row`, `job`, `usage`, `key`: the directory and the tables; `stage`, `item`: the handler's place | one action per stretch of `analyze` between commits, and each way out of it (`Reread`/`RereadFails`: the `db.refresh` after the second commit); `usage`: the lines of an analysis; `DeleteHistory`; `IssueKey`, `RevokeKey` |
| Logins | `registered`, `active`: `users`; `rewards`: `daily_login_rewards`; `today`; `work`, `since`, `answer`: the request | `BeginRegister`, `InsertUser`/`DuplicateUser`, `CommitRegister`; `BeginLogin`, `GrantBonus`, `FinishBonus`/`LoseRace`, `RetryLogin`, `FinishLogin`; `SetStatus`, `Midnight`, `Abandon` |
| RefreshTokens | `owner`, `family`, `revoked`, `replacedBy`, `expired`: the table; `lock`; `phase`, `token`, `who`, `late`: the request | `BeginLogin`, `FinishLogin`, `BeginRefresh`, `LockToken`, `RevokeFamily`, `RefuseRefresh`, `Rotate`, `Logout`, `LogoutAll`, `SetStatus`, `Expire`, `DeadlockVictim`, `Crash` |
| WebClient | `memory`, `stored`: the token in the api module and in localStorage; `signedIn`, `booting`: what App shows; `parting`: a logout under way; `at`, `answer`: a call | `SignIn`, `Refresh`, `RefuseUnserved`; `SendTokens`/`SendError`: a step of RefreshTokens that ends a request; `TakeAnswer`, `LoseAnswer`; `Load`, `BootSucceeds`, `BootFails`; `AskLogout`, `ServeLogout`, `EndLogout`; `Elsewhere` |
| MasterData | `packages`, `value`: the tables; `exclusive`, `shared`, `todo`: InnoDB and the flush; `boot`, `snapshot`, `missing`: a process that starts | `BeginSeed` (packages), `Look` (plans, settings), `InsertMaster`, `FailSeed`, `CommitSeed`, `Stop` |
| Administration | `value`: also the columns of users; `audit`: the log; `task`, `form`, `read`: a request, its payload and the instance it loaded | `BeginChange` (`user_status`, `user_role`, `update_setting`, `update_plan`), `BeginSubscribe`, `Execute`, `CommitChange`, `CommitSubscribe`, `Lose`, `Victim` |
| RequestPool | `queue`, `busy`: worker threads; `idle`, `connected`: the pool and the sessions; `counter`, `page`: `observability.py` and a scrape under way; `stage` | `Arrive`, `GrantThread`, `Checkout`, `TimeOut`; `Authenticate`, `Refuse`, `Answer`, `Commit`, `Render`, `Close`; `Probe`; `Read`, `Scrape`, `Record` |
| RateLimit | `memory`: `_memory` of each process; `bucket`: the keys in Redis with their expiry; `backend`: whether a process has `_redis`; `check`: the check under way | `Start` (`__init__`), `Stop`; `CheckMemory`; `Ask` (the clock), `Incr`, `Expire`, `AnswerAllowed`, `Deny`, `Raise`: the calls of `_check_redis`, a raising one executed (`SetExpiry`) or not; `Tick` |

`Entry.reread`, `RefreshTokens!closed`, `WebClient!abandoned` and `RateLimit!asked`
and `admitted` and Administration's `since` are history: the
first says whether an entry's balance was read with the lock, the second which
families were revoked as a whole, the third of which families the newest token
was thrown away, the next two which checks began and were allowed (a mark for each, numbered where
they agree in all else), the last how long the log was when a request read its target. No action's
guard reads them, except for the bound on the number of checks.

Amounts, identifiers and statuses are small sets; texts, hashes, timestamps and
feature vectors are left out. An order's, coupon's or analysis' identifier is
also its `related_id` in the ledger.

## 3. The runs

| run | instance | what it shows |
|---|---|---|
| `accounts` | two requests of a user, one of them an administrator's, and another administrator, on two accounts with balances 0..2, three entries each, changes -2, 0, 1 | the balance is always the newest effective line's; locked reads continue the ledger; a stale entry starts from a balance that was committed before; the account of the user who is only a target implements `PointBook` |
| `accounts_stale` | as `accounts`, changes -1, 2 | **violated:** a change is lost when another commits between authentication and row lock, against "row locks keep balances consistent" (`backend/README.md:79`) |
| `orders` | two payments of a buyer and two administrators, who own an order themselves, or may approve the other's; two orders of two owners; one closed status, two entries each, balances 0..3 | points move exactly with `PAID`; owners change `PENDING` orders only; the only deadlocks are of administrators who approve each other's orders, and every request is answered; the whole implements `Accounts` |
| `coupons` | three users in four requests, a coupon for one and one without limit, two connections | one reward per user and coupon; overrun below the pool |
| `logins` | three requests that register or log in one address, two days, four entries | one registration, one bonus per rewarded day, also across midnight and after a lost race; a login that lost the race for the bonus is answered |
| `analysis` | two analyses, one of them by API key and with failures and crashes, and a request that moves points | charged once, in the step that makes it a success, and in no other, also when deleted meanwhile; who becomes failed without database trouble is uncharged; the usage log says what was charged, also for a key revoked meanwhile and for an analysis that fails after its success; the disk agrees with the rows; the request that meets neither failure nor crash settles its analysis and removes its file |
| `refresh_tokens` | three requests, four tokens, one user; symmetric | one live token per family, one chain, nothing revoked comes back |
| `web_client` | one tab, two calls at a time, three tokens | a session's live token is held, on the way, or gone for a named reason; every call returns; detected reuse ends the family in spite of deadlocks |
| `web_client_logout` | the same | **violated:** a refresh answer that arrives after logout puts a live token back (`auth.py:61` asks the client to throw its tokens away) |
| `rate_limit` | two processes, a limit of 2, two windows of two seconds, five checks; symmetric | in a window of Redis the limit and one more for each late call is admitted, by a process' own count at most twice the limit in any stretch of that length; no counter holds a check of an earlier window, also if its process died before EXPIRE |
| `administration` | two processes, two administrators in two requests (change each other's status or role, withdraw the plan, subscribe), two lines | the seed is there once and whole; each column is what the newest line says whose request could know the ones before; no transaction waits for ever, although flushes deadlock |
| `request_pool` | two handlers, a readiness probe and a scrape on two threads and one connection | everybody is answered; a stand-still takes as many requests as there are threads and connections together; a scrape's count is one behind its total and sum at most |

**Bounds.** Two concurrent requests of one user are the least that can conflict,
and the third request brings the actor from outside (an administrator, another
payment, a spender). `MaxEntries` bounds the ledger, so that a third line can be
wrong about the first two; `MaxBalance` is small so that the column's limit is
met. In Logins three requests are a registration race or two logins that race
while a third changes the day's outcome, and two days put midnight between them.
Two orders distinguish "this order" from "the user's orders". In Orders four
requests are two payments that race and two administrators who may approve each
other, which takes two owners, both administrators; `CANCELED`, `FAILED` and `REFUNDED`
are treated alike by both handlers, so one of them stands for all (`Closed`), and two
entries per user are a grant and a second one. In Coupons four
requests over two connections let the pool, and not the number of requests,
bound the overrun. Four tokens allow a family of three beside another one. In WebClient three
tokens are a rotated session and a new login, or two rotations, and two calls
are what it takes to refresh twice with one token or to let an old answer meet a
new session. Several tabs meet in `stored` only; this instance has one tab, which
reads `stored` when its page is loaded again and writes it otherwise. Its tokens
do not expire: a refused refresh is one of a disabled user, and answers alike. In
RateLimit five checks are one more than both bounds of `LimitIsKept` allow, and a
call waits for Redis for one second of a window of two (0.3 of 60 in the code), so
that it can arrive in the next window but not in the one after. In Administration
two processes and two requests are the smallest circles, a process that is late
meets one that serves, and two lines let the second be wrong about the first; of
the four plans and three settings of the seed one each is enough to fail on, and
`Orders` inserts them in either order. In RequestPool two threads and one
connection can be held by three of the four requests, and one handler can be
counted while the scrape is half-way. Where
a bound disables an action (the ledger is full, no token is left) the code would
go on; `RoomForToken`, `RoomForPayment` and `RoomForOthers` keep the bound from
blocking a request half-way, which would make a liveness run pass or fail for
the wrong reason. Three instances can end and are checked without deadlock
detection: in Coupons every coupon may be expired or redeemed, in RequestPool each
request is sent once, and in Administration the log may be full or no
administrator left (nothing in the code keeps the last one from being disabled).

**Fairness.** Weak for the steps a worker thread takes by itself; strong for the
steps that wait for a row lock, because InnoDB serves a lock's queue in order
(the models do not have the queue itself: a request that waits may be overtaken,
but not for ever); weak for the deadlock victim (`Victim` in Orders and Administration,
`DeadlockVictim` in RefreshTokens), because InnoDB detects every cycle. Steps of one
request that are never enabled together share a condition. No request is obliged
to arrive, no administrator to act and no request to crash. In `orders` and
`logins` a request may be lost at any step, and no conclusion rests on its being
lost, except that a payment whose balance does not fit the column fails and that one
of the requests that wait for each other is rolled back. Nothing in
the code resumes an analysis after a crash, so that one stays `PROCESSING` with
its file: in `analysis` the request `r1` meets crashes and failures, and the
liveness properties are about `r2`, which meets none. In `web_client` an answer
arrives or is lost, and a call ends with its page. In `administration` a process
goes on with its start and a request with its flush until it is done, refused or
the victim of a deadlock; `Stop` and `Lose` have no fairness. In `request_pool` worker
threads are granted in order, and a request that waits for a connection gets one
or times out: weakly fair together, because others may take every free connection
before it, and the pool's 30 seconds pass all the same.

Symmetry is used in `refresh_tokens` and `rate_limit`, which check no liveness, and
whose tokens, requests and processes are interchangeable. The clock and
the checks of `RateLimit` are bounded; its processes go on starting and stopping.

## 4. The proofs

All are about the modules of section 2 as they are, for every value of their
constants that satisfies the named assumptions (`CallerAssumption`,
`AmountAssumption`, `NullAssumption`, `OrderAssumption`, `CouponAssumption`,
`LoginAssumption`, `TokenAssumption`, `ClientAssumption`, `MasterAssumption`,
`AdminAssumption`, `AnalysisAssumption`, `PoolAssumption`, `LimitAssumption`). Where something is counted, the sets counted in are assumed
finite.

**AccountsProofs.** `AccountsTypeCorrect` is inductive by itself. The other
invariants are not: that a commit continues the ledger depends on where the
balance in the session came from. The strengthening says: a draft holds the row
lock of its user, the session is open, a draft that was read with the lock has
the current balance (nobody else can have written it since), and a copy in a
session is a balance that some prefix of the ledger settled. From it follow
`BalanceMatchesLedger`, `LockedReadsAreChained` and `EntriesStartFromCommitted`.
`RemoteAccountsImplementBook` is about users whose points only other users'
requests change (`Remote`: administrators adjusting them). No session holds their
row before it locks it, so every draft for them is fresh, and a commit is one
`Post` of PointBook; commits for others do not touch it. Of users whose own
requests move points the statement is false, which is what `accounts_stale` shows.
`LocksHaveDrafts` is a lemma for the modules built on this one: who holds an account's
row has drafted its line.

**OrdersProofs.** `OrdersImplementAccounts`: each order step is a step of
Accounts or leaves its variables alone, so that Accounts' theorems hold of the
handlers. The invariant `GrantInv` adds to the properties two facts about locks:
a draft is the grant of the order its request holds, and what was checked when an
order was locked stays true while it is held (only the holder changes the status).
It gives `UnpaidOrdersGrantNothing`, `PaidOrdersAreGranted`, `OrdersGrantOnce`
(its payment finds the order `PENDING`, so without a grant) and, as a property
of steps, `GrantsFollowPayments`. `OwnersPayPending` needs one fact more, that who is no
administrator holds an order to pay it, and found it `PENDING`; because it is held it
still is when the payment commits, whatever administrators wait to do.
`OrdersDeadlockInApprovals` says of any number of requests which deadlocks there are.
All in a circle of waits are waited for, so they hold an order (`WaitedForHolds`), and
what they wait for is an account row. It is held by somebody who has drafted a grant
(`LocksHaveDrafts`) or inserted an audit line, which comes later
(`AuditsFollowGrants`), so that all in the circle have drafted or audited
(`HoldersWaitForLate`). Who has audited waits for nobody. So all are administrators that
have granted the points of an order and are to insert their line, each waits for its own user
row, and that is the row of the owner whose order another of them approves.

**RefreshTokensProofs.** `TokensInv` adds: a family is named after an issued
token of the same owner; requests work on issued tokens; and a token found live
under its lock stays live until the lock goes. The last is the heart: every
statement that revokes tokens waits for their rows (`LocksExclude`), and from
it a rotation continues a family from its live end. Theorems:
`OneLiveTokenPerFamily`, `ClosedFamiliesStayClosed`, `DeadFamiliesStayDead`.
`ReplacementChain` counts predecessors and is not inductive: `ChainInv` says of links,
one by one, that they lead from a revoked token to another of its family, that no two
lead to the same token, that every token but the first has one, and that a family
has only one end. A rotation, the only step that makes a link, does so from a live token,
and that is the end. So `TokensFormChains`.

The same module is about WebClient. `ClientImplementsTokens`: a step of a browser is a
step of RefreshTokens or leaves the tables alone, so the theorems above hold with
browsers too. `BrowserKeepsLiveToken` is the claim that refreshes which race do
not lose a session. `HoldingInv` follows the token on its way: an answer that brings
a token brings the end of a family that nobody else has, an answer that brings
none means that the family is over, and a tab that has the newest token of the session in
localStorage finds that token there. `OverStaysOver` is what makes it inductive: a
family that is dead or alarmed never recovers, so what a late answer says of it
remains true.

**CouponsProofs.** `CouponsImplementAccounts` as for orders, and so Accounts' theorems
hold of redemptions. `CouponsRewardOnce` rests on `DraftsAreRewards` (what a request
drafted is the reward of the coupon it redeems) and on `RewardsPosted`, which
says of positions in the ledger what the property says of cardinalities; the
unique constraint in the guard of the commit is what makes the step. `CouponsOverrun`
needs no lock: redemptions done and under way grow only when one starts, below
the limit, with at most `PoolSize` under way.

**LoginsProofs.** `LoginsImplementAccounts` likewise, whence the row locks of Accounts:
of all requests that found no account at an address only one has a draft
(`OneDraftPerUser`), because the registration holds the row it inserted. `BonusInv` adds
to the two properties what a draft is: the welcome of a user without an account, or
the bonus of the day that the login computed before midnight came. `BonusOncePerDay`
and `WelcomeOnce` follow.

**AnalysisProofs.** `AnalysisImplementsAccounts`, also of a process that dies: a
session that has not loaded its caller holds nothing (`SessionInv`), so the end of
it is the end of a session of Accounts or no step. `Placed` and `RowsFollow` say which
stages have an analysis, one request each, and which rows it has by then;
`FileGoesFirst` gives `ClearedFilesAreGone`. For the charges, `DraftsAreCharges` says that a
draft of an analyzing request is about its analysis and is there only between the charge and
the commit, and `ChargesPosted` says of positions in the ledger that an analysis that is
`PROCESSING` has no line and one that is a `SUCCESS` has one; of `FAILED` it says nothing, for
a charged analysis can become so. The step is that the commit finds its row `PROCESSING`, so
uncharged: `ChargedBySuccess` and `DeletedIsFree`. `RoomInv` (the row lock keeps the last place
for the draft that found it) is there because the properties look no further than
`MaxEntries`. `FailedIsFree` needs `RowsInWork`: a request in the stages before its second commit
finds the analysis `PROCESSING` or deleted, and of the requests in the exception handlers
only one whose connection failed after that commit can find a `SUCCESS`.
`UsageTellsCharges` adds `UsageInv`: the lines of an analysis have a `BILLED` among them
if and only if the ledger has a line about it, and a request with a key that has settled its analysis
has left one.

**ServingProofs.** About RequestPool, `PoolInv` says stage by stage what a request has: a place in
the queue or a thread, never both, and a connection only in the stages that close
it. So nothing is lost by time-outs and refusals (`PoolTypeCorrect`), and in a
stand-still all threads are with requests that wait for a connection, all
connections with requests that wait for a thread, and these are different requests
(`StallsNeedCrowds`). `ScrapesLagByOne` needs two things: at every moment a path's total and
sum are at most one ahead of its duration count, which are recorded in that order by one
thread at a time (`CounterInv`); and each number on a page is no more than its counter is
now, and the duration count is read last of the three (`PageInv`), while counters only grow.

About RateLimit, nothing that `LimitIsKept` says is inductive: it counts what was
admitted, and what will be admitted depends on the checks under way. `Granted` counts
both. A window of Redis is then in one of three phases. In its first bucket
what is granted is at most the bucket's count and the limit. When that bucket has expired
under checks that are late, a second one may be made by them, and grants up to as much
again, but each check that is late grants one at most. By the time the second could
expire, `Patience <= Window` leaves no check that names the window (`AfterItsBuckets`);
without that assumption there could be a third. `InTime` says how late a check can be.
A bucket's count and the checks that INCR has yet to count are no more than what was
asked. For a process that counts by itself `KeptBy` bounds what it admits in the window it is
in, in the one before, and so, two windows covering it, in any stretch of that
length. Theorems: `LimitTypeCorrect`, `LimitsAreKept`, `PastStaysForgotten`. Marks
carry numbers so that histories are sets; that the numbers are those from one to how
many agree is part of the invariant (`Numbered`), else a mark might be lost in the set.

**AdministrationProofs.** That the packages are not doubled has nothing to do with
packages. `MasterInv` says that the tables hold all of the seed or nothing, that a
process in its flush inserts everything or nothing, and that one that inserts
everything has locked the key of each row it no longer has to insert; two such processes
cannot both be through, and after the commit of one the other meets a key that is
used. `Plans # {}` is all that is asked of the seed. Forms of
administrators enter because an update must not take a row away (`FormsOK`).
`AuditTellsState` adds `AuditInv`: whatever a request is about to assign, either the column
still is what the request has read, or a line that is newer than its snapshot tells what
has become of it. A change that writes nothing then leaves a line that older ones outweigh.
`AdminTypeCorrect` needs the number of changes under way to prove that the log, which
is bounded in the model, has room for the line of each (`LogHasRoom`).

**Only model-checked.** Liveness: `EveryRequestAnswered`, `EveryAnalysisSettles`,
`EveryLoginAnswered`, `ReuseEndsFamily`, `EveryCallReturns`, `EveryRequestServed` and
`EveryTransactionEnds` rest on fairness and ENABLED, which are out of the prover's reach.
Every safety property that a run expects to hold is a theorem. The type invariants of
Orders, Coupons, Logins, RequestPool, WebClient, RateLimit and Administration are theorems
and in no run. Of `EveryRequestAnswered` the part that is about safety is proved for
Orders, which circles its waits can form; that InnoDB breaks these and that a request which
can go on does go on is fairness.

## 5. What the models leave out

- Deadlocks through foreign keys are in Administration and Orders for the changes these
  model. `adjust_points` writes an audit line too (`admin.py:113`), with the same two
  locks; Accounts has one row lock per request, so two administrators who adjust each
  other's points, or one who adjusts and one who approves an order, meet their deadlock in
  no model. Nothing else of Accounts depends on it: the victim is one `EndSession`.
- The queue of a lock in InnoDB is left out: a waiting FOR UPDATE makes a shared request
  that comes later wait as well. In Orders such a wait is behind somebody who
  waits for the same row, so it lasts as long as that one's.
- In a circle of approvals `order_status` of the victim answers 500 and has changed
  nothing (`Orders!Victim` is an `Abandon`); the repository says nothing of it.
- `db.refresh(analysis)` stands in the `try` after the commit of the result and the charge
  (`songs.py:121-122`). That commit gives the connection back, so the read can fail for want
  of another one, or because the connection is lost; then `except Exception` makes
  the analysis `FAILED` although it is charged, and a key's usage log gets a line of status 422
  and no points after the one of 201 and the cost. This contradicts
  `backend/README.md:40` and `78`, by which only a success costs points. The model has it
  (`Analysis!RereadFails`, for requests in `DbTrouble`, then `MarkFailed`):
  `ChargedWhenItSucceeds` and `UsageMatchesLedger` are stated so that they hold of it,
  `FailureIsFree` holds of the requests that the database refuses nothing, and is false of
  the others.
- In Accounts, and so in Analysis, a charge is computed from the balance that
  authentication loaded: an analysis is charged even if the points were spent meanwhile, and
  the `INSUFFICIENT_POINTS` of `points.py:22` does not notice. It is the lost
  update of `accounts_stale`.
- A limit on redemptions is exceeded by concurrent requests (`commercial.py:155-159`):
  the count is taken without a lock on the coupon. The code's own message for it is
  `COUPON_LIMIT_REACHED`; `OverrunBounded` says how far it goes, and the instance of `coupons`
  goes so far: with two connections a coupon for one is redeemed twice.
- An INSERT of `songs.py:84-100` that fails leaves the uploaded file for ever
  (`Analysis!InsertFails`; a file name over 255 characters is enough), because the
  `try` whose `finally` unlinks it begins below; `backend/README.md:58` calls the
  directory one that is used only while analysing. `DbTrouble` requests may meet it; the
  liveness property is about the others.
- In the log, a line about a setting or a plan names the row but not the new value
  (`admin.py:198`, `245`); the model's lines have it, so that `AuditExplainsState` can be
  stated, and a reader of the real log knows less.
- A handler whose `db.refresh` after the commit finds no connection answers 500 for
  work that is done (`RequestPool!TimeOut` at `reread`); a client that repeats it does it
  twice. RequestPool leaves out what the work is, and that `analyze` catches the error
  and undoes its success (above).
- In RequestPool an analysis commits once and reads once like the other handlers;
  waits for row locks are part of `Working`.
- `RefreshTokens` reads a user's status when it is used and gives it no lock of
  its own; `refresh` locks that row, so its check cannot be overtaken, and a login
  re-checks nothing after its first read, which the model has.
- `RefreshTokens` leaves out that a registration issues a token family like a login
  does, and that a revoking UPDATE locks its rows one by one: it waits until all
  are free and takes them at once. A wait between two such statements with
  partial locks is `WaitsFor` for reuse detection only.
- In `Logins` a wait for the row of an uncommitted registration is a wait for its
  row lock, and the password check and the tokens' rows are left out; a changed
  password leaves existing tokens alone.
- In `WebClient` only the calls that meet a 401 are there; the access token is
  written and cleared together with the refresh token and may be out of date at
  any time. A logout whose access token is out of date is a logout that is not
  served. The page's own logout-all waits for later. `RefuseUnserved` is the 429 of the
  rate limiter and the time-out of the pool; it stands for itself, the limiter's counts
  are not in WebClient. It makes the browser throw a good token away (`api.ts:80-83`),
  which `LiveTokenIsHeld` allows: no text of the repository says otherwise.
- Of two registrations of one address that both find it free, one ends in
  `Logins!DuplicateUser`: `register_user` does not catch the IntegrityError, as
  `login_user` does, and the answer is 500 instead of the 409 of `auth.py:78`. The
  model has the behaviour; no run is about the wording of errors.
- In `RateLimit` a process checks one request at a time, because the middleware
  is a coroutine and `check` does not await; a crash of Redis that loses keys (its
  appendonly file is synced once a second) only makes a counter start anew.
- A request's wait for a lock never times out (50 s in InnoDB), except that
  `AnalyzeFails` covers it where it matters.
- The system setting `analysis_points_cost` is stored but `analyze` reads the
  configuration, so `Cost` is a constant.
- Silent audio has a loudness of minus infinity, which MySQL refuses: it is one
  of the reasons for `CommitFails`, and for `MarkFailed` after it.
- `create_admin.py`, a script that is run by hand; the change of a password; the
  row that `subscribe` inserts, which nothing reads.
- Read-only endpoints, feature extraction (floating-point signal processing), the
  report, configuration, schemas, migrations and rendering.

## 6. What could follow

In order of what it would tell:

1. **READ COMMITTED** as a parameter of MasterData and Coupons, for the deployment
   that the root README draws.
2. The audit lock of `adjust_points` in Accounts, as `Orders!InsertAudit` has it.
3. What `DeadlocksAreApprovals` says of Orders also of refresh tokens: that their only circles
   go through two uses of revoked tokens of one family (`RefreshTokens!WaitsFor`).
