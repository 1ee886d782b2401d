# Verification of the Instant Payment Gateway

TLA+ models of the gateway's Go code, TLC runs that check them on small
instances, and TLAPS proofs for every value of the constants. Paths below are
relative to the repository.

## 1. The system

| Component | Code | State | Operations |
|---|---|---|---|
| Payment lifecycle | `internal/service/payment.go` | none of its own; one database transaction per call | `InitiatePayment`, `AuthorizePayment`, `SettlePayment` |
| Repository | `internal/repository/postgres.go` | the pool | one method per SQL statement |
| Schema | `migrations/001_initial.sql` | accounts, transactions, ledger_entries, audit_log | unique key, foreign keys, CHECKs |
| HTTP handlers | `internal/handler/*.go` | none | bind, call the service, broadcast, answer |
| Outbound webhooks | `internal/service/webhook.go` | none | `Dispatch` starts a goroutine per event |
| Inbound webhooks | `internal/handler/webhook.go` | none | signature check, JSON binding |
| WebSocket hub | `internal/websocket/hub.go` | set of connections, an RWMutex | connect, read loop, `Broadcast` |
| Rate limiter | `internal/middleware/ratelimit.go` | map of token buckets, an RWMutex | `getLimiter`, `Allow` |
| Authentication, logging, CORS | `internal/middleware/{auth,logging}.go` | none | checks of headers, log lines |
| Server | `cmd/server/main.go` | listener | routes, graceful shutdown |
| Dashboard | `web/src` | list of transactions, analytics, socket | fetch, pushed updates, reconnect |
| Simulator | `scripts/simulator.go` | none | a load script: calls the three operations in order |

**How they interact.** Each HTTP request is a goroutine. It passes the
middleware, binds its input and calls the service, which runs one database
transaction on a connection of the pool; requests meet only in PostgreSQL (row
locks, the unique index, foreign keys) and at the pool. After the commit the
service writes an audit row on a connection of its own and starts a webhook
goroutine; the handler then broadcasts to the dashboards through the hub and
answers.

**What is hard.** Two requests on one payment or one account; two initiations
with one key, the first still uncommitted; locks that are taken by foreign-key
checks nobody wrote; a COMMIT whose acknowledgement is lost; a crash between
commit, audit row and webhook; waiting for rows and for connections at once;
a hub that writes to sockets under a read lock; a dashboard that merges fetched
and pushed data.

**What makes each part correct.**

* Payments: every operation is atomic; one transaction per key; a status moves
  only pending, authorized, settled; each settled payment has one debit and one
  credit; balances are never negative, money is conserved, the ledger replays
  to the balances; every request is answered; notifications are true and not
  repeated.
* Hub: the map agrees with the open connections, every live client gets every
  broadcast, no lock is held forever.
* Rate limiter: one bucket per client; never more than burst + rate x time.
* Middleware: a body that has arrived reaches each of its readers; every request
  is logged as it was answered, panics included.
* Inbound webhooks: a verified event is accepted.
* Outbound webhooks: no event is posted again but for redirects, a truthful log
  line, no goroutine that stays.
* Dashboard: it shows only what is committed, does not go back, and catches up
  with what is broadcast once the system is quiet; a lost connection is replaced.
* Shutdown: it ends, also when a handler does not.
* Queries: a client that pages through a changing table misses nothing.

`PROJECT.json` lists all components with their status and all hazards at their lines.

## 2. Modules

| Module | Models |
|---|---|
| `PaymentModel` | rows of the tables, constants and their assumptions |
| `AtomicPayments` | the abstract specification: each operation is one step on the committed tables; its properties |
| `Repository` | tables, row locks, SQL statements |
| `PaymentService` | requests, the pool, the three operations, failures; the properties |
| `MCPayments` | instances for TLC: symmetry, a warm start |
| `AtomicPaymentsProofs` | theorems about `AtomicPayments` |
| `PaymentServiceProofs` | theorems about `PaymentService`: its invariant, that it implements `AtomicPayments`, notifications, deadlocks, the sum of the money |
| `WebSocketHub` | the hub: RWMutex, broadcasts, connections and their read loops; its properties |
| `MCWebSocketHub` | instances for TLC |
| `HubProofs` | theorems about `WebSocketHub` |
| `TokenBucket` | one bucket of golang.org/x/time/rate (external) |
| `RateLimits` | the abstract specification of the limiter: one bucket per client |
| `RateLimiter` | `getLimiter` and `Middleware`, concurrently; shown to implement `RateLimits` |
| `MCRateLimiter` | symmetries for TLC |
| `RateLimiterProofs` | theorems about `RateLimiter` |
| `RequestPipeline` | one request, to any route, through logger, CORS, recovery, limiter, signature and handler, and back |
| `PipelineProofs` | theorems about `RequestPipeline` |
| `ServerShutdown` | requests, webhook goroutines and the end of the process |
| `ServerShutdownProofs` | theorems about `ServerShutdown` |
| `LiveFeed` | commits, broadcasts, sockets, fetches and the page of the dashboard, composed |
| `MCLiveFeed` | instances for TLC: observers of disturbances and of commits that are not broadcast, and what the page owes its user without them |
| `LiveFeedProofs` | theorems about `LiveFeed` and about its calm pages |
| `Queries` | paging through the transactions while others write |
| `QueriesProofs` | theorems about `Queries` |

The modules meet at steps that they name alike. `PaymentService` decides what a
request commits; `LiveFeed` takes such commits as given (`Commit`, `Retry`, and
`CommitUntold` for what is `AfterCommit` there) and follows their broadcast; `WebSocketHub` shows what `LiveFeed` takes for granted
of a broadcast, and when it fails. `RequestPipeline` takes the decision of the
limiter, the panic of a broadcast and the answers of the service from those
modules; `ServerShutdown` takes from them that a handler may hang.

### Correspondence

`currency`, `balance`, `payment`, `status`, `ledger`, `audit` are the tables.
The columns of a transaction that no statement updates are `payment`, the one
that changes is `status`. `xacct`, `sacct` and `xtxn` are the row locks of each
open database transaction: FOR UPDATE on accounts, FOR KEY SHARE on accounts
(the check of a foreign key) and FOR UPDATE on transactions.

A request is a process with a program counter `pc` that names the statement it
is about to run:

```
initiate:   accounts -> begin -> insert -> fk_sender -> fk_receiver -> commit -> audit -> dispatch -> reply
            duplicate:            insert -> dup_lock -> dup_rollback -> reply
authorize:              begin -> lock_txn -> lock_sender -> commit -> dispatch -> reply
settle:                 begin -> lock_txn -> lock_first -> lock_second -> debit -> credit -> commit -> audit -> dispatch -> reply
```

Every early return is `Refuse`: the answer and the deferred `Rollback` in one
step. A statement that can wait (for a row, a key, a connection) is a step of
its own. A statement that cannot wait and whose effect nobody can see before
the commit is part of the step that commits: the ledger entries and the status
update of `SettlePayment` are in `CommitSettle`. The two balance updates remain
steps, because each can be refused by the database.

At READ COMMITTED nobody sees uncommitted writes, so these stay with the
request: the inserted row in `tid` and `txn`, the new balances in
`senderBalance` and `receiverBalance`. The one thing others do notice is the
unique index: `Inserting` makes an INSERT wait for an uncommitted row with its
key.

Account ids are numbers because `SettlePayment` compares them. The two
`GetAccount` reads before an initiation are one step: an account is never
deleted and its currency never changes, so their order cannot be observed.
`Fail` is any error of a statement before or at the commit: the cancelled
context or lost connection (`Abort`), or PostgreSQL breaking a deadlock
(`BreakDeadlock`). `AfterCommit` includes the case in which the commit happened
and its caller sees an error. `Crash` ends all requests; PostgreSQL rolls back.

`Callers` are the account ids that the request context may hold. The deployed
routes install no middleware that sets one, so `{None}` is the deployed case;
the run `failures` also takes the branches for a named caller.

**The hub.** `clients` is `Hub.clients`. The RWMutex is `writer` (the goroutine
that is in `Lock()` or holds it: in Go an announced writer holds back every
later `RLock`), the broadcasts between `RLock` and `RUnlock` (`Readers`), and
`leaked` (a read lock whose goroutine is gone). A broadcast is a process with
its place `at` and the variables of the loop; a connection is a process whose
`stage` runs from the upgrade through the read loop to the deferred function.

```
Broadcast:     idle -> rlock -> range -> (copied -> checked -> writing -> written -> range)* -> idle | lock -> idle
HandleConnect: absent -> joining -> reading -> leaving -> closing -> absent
```

The steps inside the parentheses are those of gorilla/websocket's
`WriteMessage` (version 1.5.1 of `go.mod`, external): it copies the message to
the connection's one write buffer, checks `isWriting`, sets it, writes, and
checks that it is still set. The library checks without a lock, so check and
set are two steps. A write to a peer that does not read blocks, as nothing sets
a deadline; one to a peer that is gone fails or disappears in the kernel. A
panic ends the request (`gin.Recovery`) and leaves the read lock behind.
The message of a broadcast is named by its request; in `received` it is new
with every call. `ClientCount`, which `/health` calls under a read lock, changes
nothing and is left out. `shared` is an observer's: the connections that two
broadcasts had before them at the same time since they were registered. No
other variable depends on it.

**The rate limiter.** `clients` is the map, `limiter` the buckets behind its
pointers. A request is a process:

```
idle -> lookup -> allow -> take -> idle
        lookup -> create -> allow
```

A section under the lock is one step. `Allow()` is two: it reads the clock
(`stamp`) before it locks the bucket, so a request may be overtaken in between.
`TokenBucket` counts whole tokens at whole times (the library counts fractions;
with an integral rate nothing more is admitted at the times considered). A time
before `last` brings no refill, and an admitted request sets `last` to its own
time, also back. `from` and `admitted` are an observer's: a window of time that
starts anywhere, and what was admitted in it. So is `setback`: the sum of the
times by which requests that were overtaken set the bucket of each client back in
that window. No other variable depends on these.

**The pipeline.** `depth` is the position in gin's chain, `phase` whether the
functions are being entered, are returning or are being unwound by a panic.
The body is a stream: `socket`, the `copy` that `RequestLogger` puts in its
place, or `drained`. A body is abstracted to what the handlers tell apart: a
JSON object with all that is required, or not. `cut` is where the connection
breaks: inside of the object, or after it, in what follows (white space, say).
`ShouldBindJSON` decodes the first value and stops, so a body cut after its
object is as good as a whole one. A signature is right for the bytes that the
client wanted to send, and is compared with those that arrived. `Recorded` is
`c.Writer.Status()`, what gin has been told of the answer, or 200. An upgrade
(`UpgradeConnection`) takes the connection from gin and answers 101 on it, or
nothing when the connection fails; gin is told of a refusal only.

Two answers are not there. `VerifySignature` answers 400 when no raw body was
set, but the logger has always set one (a server's request has a body, be it
empty). And gin redirects a path that is known but for its last slash before any
middleware runs, so such a request does not enter the chain.

**The shutdown.** A request is a connection that brings one payment; `hook` is
the goroutine its operation starts. `Stop` is `Shutdown` returning because no
connection is active, `Kill` its deadline and `log.Fatal`. Both end the process
and everything in it (`Exit`). `received` is how often endpoints of the webhook
saw the event. `Redirect` is `http.Client` following a 307 or 308, for which it
posts the event again; `MaxHops` is how many of them it follows (ten, with other
redirects, which it follows with a GET; those are part of `awaiting`).

**The dashboard.** `status` is the committed table, `pending[r]` the row that a
request holds between its commit and its broadcast. A commit need not come to
that: `CommitUntold` is one whose request gets an error all the same (the
acknowledgement is lost, the client has gone), so that the handler answers 422
and returns before `Broadcast`, or after which the server dies. `inbox[s]` is everything
between the hub's write and the browser's event handler of socket s, in order,
`onopen` and `onclose` included. `Upgrade` and `Register` are the two halves of
`HandleConnect`; a broadcast between them passes the socket by. A socket that
is `gone` has failed or is refused, and what had arrived before may still be
handled. `fetch[x]` is a call of `axios.get`; `Selected` is the query's answer
(see `Queries` for more rows than a page). `timers` counts the calls of
`setTimeout`. A behaviour begins in one of `Starts`: "mounted" is the page of a
production build, "remounted" the page that React's StrictMode mounts twice in
development, which begins with a socket that the cleanup has just closed,
"loaded" a page that has had its first answer and is connected. `calm`, in
`MCLiveFeed`, is an observer's: from the first payment on the page has been
connected by one registered socket, nothing has been fetched, and one request at
a time has been between its commit and its broadcast. `untold`, also an
observer's, holds the payments whose last status no request has had to
broadcast; the next operation on such a payment, or a retry of its initiation,
takes it out.

**Queries.** `created_at` is set in Go before the INSERT (`Stamp`), the row is
visible from the commit on, so rows may appear out of the order of their times.
The client asks for the next page until a page is empty. Rows of equal
`created_at` may come in any order, in each query anew.

## 3. Runs

| Run | Bounds | Shows |
|---|---|---|
| `bookkeeping` | 2 requests, 2 accounts, 2 payments, 2 keys, amounts 0 and 2, openings -1 and 2, BIGINT up to 4 | `TypeOK`, `LedgerReplays`, `NoLostUpdate`, `MoneyConserved`, `ExplicitLocksDeadlockFree`; `ImplementsAtomicPayments` |
| `failures` | 2 requests, 2 accounts in 2 currencies, callers named or not, 1 key; every failure | `DoubleEntry`, `SameCurrency`, `LifecycleRespected` |
| `retries` | 3 requests, 2 connections, 1 account, 2 ids for 1 key; every failure | `OneTransactionPerKey`, `SuccessIsDurable`, `NotifiedOnceAndTruly` |
| `waits` | 2 requests, 2 connections, 2 payments, one already authorized; fair | `EveryRequestEnds` |
| `hub_broadcasts` | 2 broadcasts, 2 connections, both may stop reading | `HubTypeOK`, `OpenIsRegistered`, `ClientsAreServed`, `ReachesAll`, `MapStable` |
| `hub_waits` | 1 broadcast at a time, 2 connections, both may stop reading; fair | `BroadcastsEnd`, `DisconnectsHandled` |
| `limiter_clients` | 2 requests, 2 clients, 3 limiters, burst 2, rate 1, time up to 2 | `LimiterTypeOK`, `OneBucket`, `RateBound`, `ImplementsRateLimits` |
| `live_page` | 1 payment, 1 request at a time, 2 sockets, 2 fetches, 2 filters, 1 upset, every start; fair | `FeedTypeOK`, `ShowsCommitted`, `Reconnects`, `CatchesUp`, `NeverBackwards` |
| `pipeline_requests` | every request of the model, 1 of 2 secrets configured | `PipelineTypeOK`, `ValidIsHandled`, `LogIsTrue` |
| `pipeline_webhook` | the same | a counterexample to `VerifiedIsAccepted` |
| `shutdown_end` | 3 requests, handlers that may hang, 1 redirect of each event; fair | `ShutdownTypeOK`, `OnceAndTruly`, `WaitsEnd` |
| `queries_paging` | 3 payments with different times, pages of 1 to 2 rows, some cut off | `NothingMissed`, `RepeatsAreInserts` |

**Why the bounds are enough to be interesting.** Two requests and two payments
between the same two accounts, in either direction or to oneself, give every
pair of operations on shared rows. Opening balances of 2 and amounts of 2 give
success, insufficient funds at authorization and at settlement (two authorized
payments, money for one), and a credit that reaches the bound of BIGINT; amount
0 and opening -1 are refused. Three requests with one key give a third retry
while the first is uncommitted and the second waits, and more requests than
connections. TLC reports every action taken in these runs. The numbers of
requests, accounts and connections, the balances and the counters are bounded
by the constants alone: no guard of the model adds a bound, except `MaxBigint`,
which stands for 2^63-1. A transaction id is used once, so `TxnIds` bounds the
number of payments.

**Payments.** The comment in `SettlePayment` (`internal/service/payment.go:188`)
says "Order by ID to prevent deadlocks". Among the requests that lock rows
explicitly it is right: `ExplicitLocksDeadlockFree`. It leaves out one kind of
request. The INSERT of `InitiatePayment` also locks account rows: PostgreSQL
checks the foreign keys of the new row (`migrations/001_initial.sql:26-27`) by
locking sender, then receiver, FOR KEY SHARE, and that conflicts with FOR
UPDATE. With the sender's id larger than the receiver's, an initiation and a
settlement between the two accounts can wait for each other. PostgreSQL aborts
one of them after `deadlock_timeout`, and its client gets a 422 for a valid
request. Hence the exclusion of inserting requests in
`ExplicitLocksDeadlockFree` and the fairness of `BreakDeadlock` in `waits`,
where every request ends nevertheless.

**The hub.** The lock does its work on the map: however broadcasts, connects,
disconnects and failures interleave, the map is stable under iteration and
agrees with the open connections. Two broadcasts and two connections give every
pair of processes, two broadcasts the three steps in which one disturbs
another, two clients one that fails or blocks beside one that is well. The lock
does not do the work of the connection's single writer, and three conditions in
the properties say where that shows:

* `shared`, in `ReachesAll`: two broadcasts copy their messages to the one
  buffer of a connection; its client gets the second twice and the first never.
  "Sends a message to all connected WebSocket clients"
  (`internal/websocket/hub.go:98`) is true of the other connections.
* `leaked`, in `BroadcastsEnd` and `DisconnectsHandled`: when the library
  notices a second writer it panics, `RUnlock` (`hub.go:118`) is skipped, and
  the next `Lock` waits forever, and with it every later broadcast and the
  answer to its payment request. `LeakIsShared` proves that nothing else leaks
  the lock; in `hub_waits`, with one broadcast at a time, it does not happen.
* `Stuck`, in the same two: a client that stops reading blocks the broadcast
  with the read lock held, and the read loop of another client can no longer
  "handle disconnects" (`hub.go:81`).

So these three hazards are in the model, and no property would catch them: the
properties say what the hub does without them.

`hub_broadcasts` allows deadlock, because a hub whose lock is leaked really
stops. Every id of a broadcast or connection is used again and again; nothing
is bounded but their number.

**The limiter.** Two requests of each of two clients give every overlap of
first requests; a third limiter is there for one that would be created too
often. Creation on demand is sound. The bound "100 requests/second, burst of
200" (`cmd/server/main.go:60`) holds in every window in which requests take their
tokens in the order of their times. One that reads the clock, is overtaken and
then takes its token sets the bucket's time back, and the next one has the
interval refilled a second time. `RateBound` counts that too: what is admitted in
a window is at most the burst and the refill of its length and of all its
`setback`s, so overtaking costs as much and no more. Without the last term TLC
finds the bound violated, with two requests of one client. `MaxTime` bounds the
clock.

**The pipeline.** Every route of `main.go` is there, `/ws` and unknown paths
included (one route stands for the GET handlers of the API, which only read),
with every body, cut and signature that the model tells apart. Every request is
logged with the status of its answer, with one exception that `LogIsTrue` names:
an upgrade is logged as 200, though it was answered 101, or not at all. The copy
that the logger makes serves every handler but two: a webhook handler reads it to verify the signature
and then has nothing left to bind (`pipeline_webhook`), as the comment at
`internal/handler/webhook.go:64` fears.

**The shutdown.** The deadline works, also against handlers that hang in the
hub, and no goroutine waits for an endpoint for ever. Webhook goroutines are not
waited for: a server that stops in good order may cut off (`"cut"`) the event of
a committed payment, and nothing sends it again; the model shows it and no
property is about it, as nothing in the code guards against it. The same is true
of upgraded connections, which end like lost ones (`LiveFeed.Drop`). Three
requests give one that is answered, one that hangs and one that arrives after the
signal. One redirect shows what each further one does.

**The dashboard.** It never shows what is not committed and gets its connection
back. Fetches replace what was pushed meanwhile, a reconnection fetches nothing,
and a page under StrictMode has two sockets; what is broadcast between an upgrade
and its registration is missed; two requests may broadcast in the other order
than they committed. All this happens in the model, and nothing in the code
guards against it, so `CatchesUp` and `NeverBackwards` are promised of calm pages
only, and would not catch it. Nor does a page that stays calm learn of a commit
that was answered with an error, until something else happens to that payment:
`CatchesUp` speaks of the payments that are not `untold`, and says that such
commits keep the page from nothing else. (With one request at a time, as in
`live_page`, the last clause of `Calm` is always true; it is for larger
instances, where two requests may broadcast in the other order than they
committed.) `MaxUpsets` bounds the lost connections and choices of a filter
together, `MaxInbox` the messages under way to a socket before the hub waits.

**The queries.** The limits 0, 1 and 4 with a maximum of 3 and a default of 2
stand for those below, within and above 1 to 100. `NothingMissed` needs
different times of creation and no filter by status: with equal times the order
may change between two queries, and a row that leaves the filter moves the
others forward. It is promised of a client whose pages are whole: a database
connection that fails in the middle of an answer yields a short page with 200,
which looks like any other.

`live_page`, `shutdown_end`, `queries_paging` and the runs of the pipeline also
allow deadlock: a request and the server end, payments and times are finite.

**Fairness.** `SF(Proceed(r))`: the Go scheduler runs every goroutine again and
again, and PostgreSQL and pgxpool serve their waiters in order of arrival, so a
wait that can end infinitely often ends. (One idealisation: a stream of FOR KEY
SHARE lockers could starve a FOR UPDATE waiter in PostgreSQL; the strong
fairness excludes it.) `WF(BreakDeadlock(r))`: `deadlock_timeout` is not
disabled. No request has to arrive, and no failure has to happen. `waits` has no
failures, so liveness does not come from requests being aborted.
In the hub, `SF` of a broadcast's steps and of `Announce`: the scheduler runs
every goroutine, and `sync.RWMutex` lets the waiting readers in at each
`Unlock` and queues its writers. Nobody has to connect, leave, read on or
broadcast; a peer that is `gone` is one whose loss the kernel reports, one that
vanishes silently is `stalled`.
`ServerShutdown`: `WF(Kill)` and `WF(Fail(r))` are timers (the deadline of
`Shutdown`, the timeout of the HTTP client): they fire if nothing else has
happened. Handlers and endpoints need not do anything. `LiveFeed`: the browser
handles its events, timers fire, packets arrive, handlers answer, and a
broadcast that waits for a socket gets its turn. Nobody has to commit or to
choose a filter, and failures are bounded, so `Reconnects` says that the page is
connected again whenever it has been lost.

**Mutants.** Each property of each passing run has a mutant in `PROJECT.json`:
a changed definition, beside the original and marked `Mutant` in the module,
with which TLC finds that property violated.

## 4. Proofs

The proofs hold for any sets of requests, accounts, ids, keys, currencies and
amounts, any pool and any set of failures, under the assumptions in
`PaymentModel` (accounts are naturals and one of them is the largest, as a UUID
has 128 bits; amounts are integers; `None` is not an id, a currency, an account
or a key) and `PaymentService` (the types of its
constants).

`AtomicPaymentsProofs`: the conjunction of the properties with the types is
inductive. The step that needs the argument is `Settle`: no entry of the
payment exists yet since it is not settled, so the two new ones are its only
ones; the debit comes first and the credit continues from it, also when sender
and receiver are one account.

`PaymentServiceProofs`: the properties are not inductive here. Why is the
balance that was read before three other statements still the balance at the
commit? The invariant `IInv` says so stage by stage:

* `Exclusion`: a row held FOR UPDATE is locked by no other request.
* `InsertsDistinct`: uncommitted inserts have different ids and keys.
* `Local(r)`, what request r knows at its stage and is still true:
  `StageOfOp` (which operation can be where), `Initiating` (the accounts still
  have the payment's currency; the key still has no committed row), `Moving`
  (the payment is locked and still has the status that was checked), `Paying`
  (the accounts are locked, the funds are still there, the computed balances
  are those of the committed rows plus the payment's delta).
* `RowsArePayments` and `SameCurrency` about the committed rows.

There is one lemma per action (`...Step`). A step of r preserves what another
request q knows either because it leaves the tables alone (`QuietStep`) or
because it commits rows that it holds FOR UPDATE and q therefore does not
(`KnowledgeOfOthers`). Then:

* `Invariance`, `TypeCorrect`, `LocksExclude`, `BalancesStayTrue`
  (`NoLostUpdate`), `OneCurrency` follow from `IInv`;
* `Refinement`: with `IInv`, each commit is the step of `AtomicPayments` with
  the same name, account creation is `Open`, everything else stutters. The
  refinement mapping is the identity on the committed tables;
* `Idempotent`, `Balanced`, `Replays` carry the theorems of
  `AtomicPaymentsProofs` over to the service; `Lifecycle` follows from the
  refined steps.

*Notifications* (same module): why is an event told once, although the audit row and the
webhook come after the commit and outside of any lock? Before its commit a
payment has not reached the operation's status, so nobody has told the event
(`Told`) and nobody is about to (`Truthful`); after it, the one request that
committed is the only one that may (`OneTeller`), and has not (`Untold`). A
duplicate claims what another request committed. Statuses only go forward
(`Onward`, from the refinement), so what a request claims stays true until it
answers. Hence `Durable` (`SuccessIsDurable`) and `Notified`
(`NotifiedOnceAndTruly`).

*Deadlocks* (same module): `DInv` adds which locks a request can hold at each stage
(`HeldLocks`). In a circle without initiations that insert, a wait for a
transaction leads to a request that waits for an account, and that to one that
holds its first account and waits for its second. The second account it waits
for is the first one of the next such request, whose own second account is
larger (equal accounts are excluded: its holder would have to share the lock).
So the awaited accounts ascend without end, which the largest id forbids.

*Money* (same module): `MoneyConserved` speaks of a fold over the accounts of a
currency. The theorems of the library that do induction take an operator as a
parameter and cannot be used, so the induction is done by a least counterexample
(`Least`): there is a function that satisfies the fold's recursion on all subsets
of a finite set (`SumsExist`, by the size of the subsets), and two folds over one
set take the accounts in the same order, so an amount that moves between two
accounts of the set leaves the sum (`SumMoves`). The accounts are finite because
ids have a largest one; the two accounts of a settlement are both in the currency
or neither is, by `SameCurrency` (`Conserved`).

`HubProofs`, for any number of broadcasts and connections: `HInv` (types,
`Buffered`: a connection that is being written to has somebody's message in its
buffer, and the agreement of the map with the read loops) is inductive, because
every change of the map and the stage that goes with it happen under the lock.
`MapIsStable` follows from the guards alone. `OInv` adds what a broadcast may
rely on as long as no other one is at the same client (`Private(c)`): the
connection is marked as being written to by this one alone, the buffer still
holds its message, and every client the loop has left behind has it, has failed
or is gone (`Visited`, `Covered`). A registered client that is written to for
the first time is not shared (`Fresh`), and a lock is leaked only where two met.
Hence `UnsharedAreReached` (`ReachesAll`) and `LeakIsShared`, with any number of
broadcasts that overlap elsewhere and of clients that stall, fail, come and go.

`RateLimiterProofs`: the invariant says that a request beyond the lookup holds
the limiter of its client, that limiters in the map belong to one client each,
and that those outside of it are held by nobody. So a new limiter disturbs no
bucket, and under the mapping of `Promised` its creation is a stutter: an absent
client already had a full bucket (`Refinement`, the only place in which the
second check under the lock is needed). `WindowIsBounded` adds that the tokens
and what was admitted since the window opened are together at most the burst plus
the refill from the opening to the bucket's time and of every `setback`: a
request that sets the bucket back by d lowers that time by d and adds d to the
setbacks, so the sum stays.

`LiveFeedProofs`, for any number of payments, requests, sockets and fetches, has
three invariants.

* `TInv`: every row under way, in a request, in a socket's inbox, in the answer
  to a fetch or on the page, tells a status at most the committed one; no step
  lowers a committed status, so what is true stays true. Losses, late answers
  and reconnections only remove or repeat such rows (`Truthful`).
* `WInv`: the close of a connection is the last event of a socket that is gone,
  and there are at most as many timers as free sockets. A timer takes a free
  socket, a handled close frees one and sets one timer
  (`FeedTypeCorrect`). This is why `Sockets` is assumed to be finite.
* `CInv`, of a calm page: a row that waits for its broadcast tells no earlier
  status than the page or a row on its way to it (`Newest`); of two rows of one
  payment in the inbox the later one is not older (`InOrder`), and none is older
  than what is shown (`Behind`); the last status is shown or on its way, unless
  the payment is untold (`Informed`). One request at a time is what makes
  commits and broadcasts come in one order. Hence `Forward` (`NeverBackwards`),
  and `QuietPage`: a calm page to which nothing is under way shows what is
  committed of every payment that is not untold. This is the safety half of
  `CatchesUp`; that everything arrives in the end is left to TLC.

`PipelineProofs`, for every set of configured secrets: `PInv` says for each phase
at which function of the chain a request can be and with which status
(`WayIn`, `WayOut`, `Falling`, `Gone`), who has read the body, and on what
grounds the handler has acted. The chain has six functions under `/api/v1` and
four elsewhere (`PlacesOfTheChain`). `Handled` and `LogTrue` are its
consequences; `EventsRefused` is the general form of
`pipeline_webhook`: no event of a provider is answered with 200.

`QueriesProofs`: the argument for paging by offset is `Ahead`: of a row that the
client is owed and has not seen, at least `offset` rows are newer. Insertions
can only raise that number, and a page advances the offset by the rows it
brought. An empty whole page means that the offset has passed all rows, so
nothing is owed any more (`Complete`). What has been seen and what was inserted
since are counted against the offset in `RepeatsAreInserts`, which is inductive
with it (`RepeatsCounted`). Both have the hypotheses `Filter = "all"` and
`SameTime = FALSE`, which the run has as values of its constants: without them
the properties are false (section 3).

`ServerShutdownProofs`: the stage of a webhook agrees with how often it was
received and redirected, for any number of requests and redirects
(`HooksAreTrue`).

**Model-checked only.** The properties of liveness, which are outside of the
prover: `EveryRequestEnds`, `BroadcastsEnd`, `DisconnectsHandled`, `WaitsEnd`,
`Reconnects` and `CatchesUp`. Every other property of the passing runs is a
theorem.

## 5. Not modelled

* Names, e-mails, descriptions, metadata, the provider reference: no decision
  depends on them.
* The simulator (`scripts/simulator.go`): a script that loads the server through
  its API. On a second run the e-mails are taken and every account it holds has
  the empty id, so that its loop that draws a receiver (line 44) does not end; it
  panics at line 54 on a refused payment, whose answer has no id.
* Cryptography: API keys are a random string, a signature is right or wrong.
  `APIKeyAuth` is installed by no route; `Callers` stands for what it would set.
* The statuses `failed` and `refunded` exist in the schema and no code writes
  them.
* `ListAccounts`, `GetLedgerEntries`, `GetTransaction`, `GetAccount` and
  `GetDailyAnalytics` read and change nothing; the loop over rows that the first
  two share with `ListTransactions` is in `Queries`. Filters by account and date
  select rows by immutable columns.
* `CreateTransaction`, `GetTransactionByIdempotencyKey`, `GetAccountByAPIKey`,
  `Pool` and `buildPlaceholders` have no caller in the server.
* `ClientCount`, which `/health` calls under a read lock.
* Start-up: it succeeds or ends the process before any request.
* The growth of the limiter's map: memory is not modelled.
* Connections that die without a sign (no ping, no read deadline): there is no
  event in the code to model. Upgraded connections at shutdown end like lost
  ones (`Drop`).
* The analytics cards and charts, the table's layout, and the limit of 50 rows
  of the dashboard's query (pushed rows make the list longer than that).

## 6. Plan

Done: 1. `PaymentModel`, `AtomicPayments`, `Repository`, `PaymentService` with
their runs; 2. the invariant, its consequences, the refinement and the absence
of deadlocks among explicit locks; 3. `WebSocketHub`, its runs and proofs;
4. `LiveFeed`; 5. the limiter with its refinement and proofs; 6. the pipeline
with inbound webhooks; 7. webhook delivery and shutdown; 8. paging;
9. theorems for every safety property of the runs.

Next: the composition of `WebSocketHub` with `LiveFeed` in place of the promise
that a broadcast reaches every registered socket; the safety halves of the other
properties of liveness (what holds of a system in which no step is possible).
