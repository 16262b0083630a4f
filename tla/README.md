# TONpayment: specifications, model checking and proofs

TONpayment is a watch-only payment service in Go. A merchant creates an
invoice (receiving address, memo, amount, deadline); somebody pays it on the TON
chain; the service finds the payment through toncenter, marks the invoice `paid`
exactly once and calls the merchant's webhook, or marks it `expired`. This
directory holds TLA+ models of the parts that decide this, the TLC runs that
check them on small instances, and TLAPS proofs of the main results for all
instances.

## 1. Inventory

| Part | Source | State | Operations | Hard behaviour | What makes it correct |
|---|---|---|---|---|---|
| Invoice service | `internal/service/service.go` | per-invoice mutexes; locals of the goroutines | `CreateInvoice`, `CheckStatus` (`settle`, `expire`), `Get`, `ListPending` | status calls and poller workers race; the verdict is reached outside the lock; several processes share a database | each invoice leaves `pending` once, for a real payment, and is announced once |
| Store contract | `internal/store/store.go` | invoices | create, claim, expire, reads | claims race | one winner per transition; unique (PayTo, Memo) |
| In-memory store | `internal/store/memory.go` | map, memo index, `store.json` | the contract, load | a file system call fails half way; the process stops | memory, index and file agree |
| PostgreSQL store | `internal/store/postgres.go` | table, indexes, connection pool | the contract, as single statements with a 10 s limit | an error does not say whether the statement ran; a stalled database | guarded updates; at most one winner, who is told so; every call returns |
| toncenter verifier | `internal/wallet/ton.go` | none | `Verify` | a window of 30 transactions, several spellings of one account | credits only what pays the invoice |
| Poller | `internal/poller/poller.go` | semaphore, WaitGroup | `Run`, `tick` | slow sweeps, cancellation | every pending invoice is looked at again; sweeps do not overlap |
| Webhook sender | `internal/webhook/webhook.go` | semaphore, WaitGroup | `Fire`, `deliver`, `Wait` | lost replies, retries, shutdown | bounded attempts, nothing leaked, drained at exit |
| Process | `cmd/server/main.go` | signal, contexts | wiring, shutdown | poller, requests and deliveries outlive their owners; the pool's `Close` waits for calls under way | exit is bounded and loses nothing it need not lose |
| Rate limiter | `internal/httpx/middleware.go` | buckets, last sweep | `allow`, `sweep` | buckets forgotten while in use | bound on admitted requests |
| HTTP server, handlers | `internal/httpx` | none of its own | create, read, status, picture, health | width of the lifetime's multiplication; wrappers per route | key and limiter stand before every handler; what is shown is what is stored |
| Mock verifier | `internal/wallet/wallet.go` | polls per invoice | `Verify` | it confirms without a payment | never in production |
| Addresses | `internal/tonaddr` | none | parse, normalise | two forms, two alphabets, tags, checksum, network | one account in, the same account out; a bad text is refused |
| Configuration, start-up | `internal/config`, `cmd/server/validate.go`, `main.go` | the configuration | load, validate, wire | junk, negative and huge numbers; gates asked in several places | a server that starts can run, and a production server is gated |
| Money, links, ids | `internal/money`, `deeplink`, `idgen` | none | pure functions | padding and trimming | the amount shown is the amount wanted |

Interaction: handlers and poller workers call the service; the service calls the
store and the verifier synchronously and hands settled invoices to the webhook
sender, which works in goroutines of its own. Processes share only the database.

## 2. Modules

| Module | Models |
|---|---|
| `InvoiceStore` | the invoice record, the store's mutating calls as statements with their replies, and its reads; no behaviour of its own |
| `Verifier` | the toncenter window and the matching loop, as operators |
| `InvoiceService` | composes the two with the service's goroutines, the clock, the chain, crashes and late commits |
| `InvoiceLedger` | abstract: what the service promises its users |
| `StoreContract` | abstract: the Store interface called by concurrent goroutines |
| `MemoryStore` | `memory.go` step by step |
| `PostgresStore` | `postgres.go`: pool, context, statement and result as steps, with the database as environment |
| `Shutdown` | poller, requests, deliveries and main's shutdown sequence in one process |
| `TokenBucket` | abstract: what a rate limiter promises |
| `RateLimiter` | `allow` and `sweep` |
| `TonAddress`, `Config` | address texts; configuration and production gates: operators only |
| `Server` | composes these with main's start-up, the middleware, the handlers, the choice of verifier and `TokenBucket` |
| `MCInvoiceService`, `MCRateLimiter`, `MCServer` | values and symmetries for TLC |
| `InvoiceServiceProofs`, `InvoiceSafetyProofs` | theorems about `InvoiceService`: types, mutexes, notifications and caps; settlement and the refinement of `InvoiceLedger` |
| `StoreContractProofs` | what every implementation of `StoreContract` keeps |
| `MemoryStoreProofs`, `PostgresStoreProofs` | theorems about the two stores, that each implements `StoreContract`, and what it inherits from there |
| `ShutdownProofs`, `RateLimiterProofs`, `ServerProofs` | theorems about those modules |

Definitions named `...AnyStatus`, `Keep...`, `No...` and so on that carry the
comment "Mutant" are wrong versions of the definition that follows them. They are
used nowhere; replacing the definition by one of them must break a property.

### InvoiceService

`CreateInvoice` is `Draft` (caps, lifetime, draft) followed by turns of
`Allocate` (one id and memo each). `CheckStatus` is one step per shared access:

| Step | `service.go` |
|---|---|
| `Lookup` | first read, early returns (199-205) |
| `Verify` | the toncenter round trip (207) |
| `Lock`, `Reread` | the mutex, the second read and its early returns, `settle`'s clock (211-220, 234) |
| `Claim`, `Fire` | the store's claim; the webhook and the deferred unlock (235-252) |
| `CheckDeadline`, `Expire` | clock test and transition (224-225, 255-267) |
| `ReplyCurrent` | the answer after a lost transition (239-244, 260-265) |

A caller that is done keeps its reply, so properties can speak of answers.
`Backend` selects what a store error means. With `"memory"` a failed call had no
effect. With `"postgres"` the abandoned statement is kept in `orphans` and may
commit at any later moment or never, and a failed read looks like "not found".
The statement of a creator is treated in the same way, so an invoice may appear
whose creator was told of an error.

`Pay`, `Tick` and `Crash` are the environment. `Crash` forgets an instance's
goroutines and mutexes; the store survives (that `memory.go` provides this is
`MemoryStore`'s subject). There is one clock for all processes: hosts whose clocks
disagree are not modelled. `Pay` only makes transactions with a time and with a
destination that is some spelling of the receiving account, as toncenter reports them;
`Verifier`'s branches for a missing, unreadable or foreign destination and for a missing
time are translated, but no run takes them. `AccountOf` maps address strings to accounts: this is
all of `tonaddr` that matters here, and it lets two strings name one account.

Left out: request validation that rejects before any state is touched (amount and
address are in `Server`; metadata size), the currency and metadata fields (copied
unchanged), and the overwriting of an existing id by `memory.go`'s create, which
needs a repetition among 72 random bits.

### MemoryStore

Each of `persist`'s calls is a step that can fail, and `Restart` can happen
between any two. The file is a complete map, `NoFile` or `Torn`. The refinement
of `StoreContract` maps the contract's invoices to what a restart would load:
a call takes effect at the rename. Readers are not modelled as steps: they see
the map exactly when nobody holds the write lock, which is what
`MemoryIsDurable` speaks about. The model covers the end of the process, not a
power failure (nothing is synced before the rename).

### PostgresStore

A mutating method is `Acquire` (a connection), `Send`, `Receive` and `Return`; the
10 s context can run out in each of the first three (`Timeout`), and a process can
stop at any point (`Restart`). The database executes, refuses or sits on what it
was sent; a statement whose caller is gone may be executed at any later time
(`orphans`). Rows are not invoices: zero times become NULL and back. Instants are what
a `timestamptz` column can hold: the nanoseconds of Go's clock below its microseconds
are lost in the table, so that times "read back as written", here and in
`InvoiceService`, are equal up to a microsecond. That a call's connection leaves the
pool's count when it ends is pgxpool's doing; reads, which hold one until `rows.Close`,
are single steps of the modules that read. The
refinement of `StoreContract` maps the contract's invoices to the table read
through `scanInvoice`; a call is decided when the database executes it, and its
answer may then still be lost (`LoseReply`). That `InvoiceService` treats a failed
call as either without effect or as an orphan is this contract.

### Shutdown

`CheckStatus` is reduced to its first read (`Read`), the verdict (`Verify`), and an
`Expire`, or a `Claim` and then `Fire`. `Claim` has `settle`'s three ways on: it won, it
lost the race, or the store answered with an error, and with PostgreSQL an error may
hide a claim that committed. With PostgreSQL other processes and late statements also
change an invoice (`Elsewhere`). So paid is not the same as owed a webhook: `Owed` are
all paid invoices in memory, and with PostgreSQL those whose claim this process was told
it won (`won`, history); `OneNotifier` and `DrainLosesNothing` speak of these.

Durations are left out: each of main's two time limits may run out at any moment,
and `timedOut` records which did. Requests begin until `srv.Shutdown` has seen every
connection idle, and after its time limit on the connections that were left
(`Accepts`). `select` may choose the ticker over the cancellation, so `Tick` stays
possible after `Signal`. `quiet` is history: the poller had stopped when main began to
drain. `Listed` lets PostgreSQL's `ListPending` return any part of the pending invoices,
as a row stream that breaks off is not told from one that ends.

A goroutine inside a store call, and the poller inside `ListPending`, has a connection.
`ClosePool` lets no further call begin (`Begun`, `CallStore`, `Tick`); main then waits in
pgxpool's `Close` until the calls under way are over (`Released`), and only then exits.

### RateLimiter

Tokens are counted in parts of a token, so that the refill is whole; floating
point rounding is not modelled. `since` and `admitted` are history variables of
an observer that starts a new window at any moment (`Observe`).

### Server, Config, TonAddress

`main` is `LoadConfig`, `Validate`, `OpenStore`, `CheckAddress`, `Wire`, each with
its fatal exit. Afterwards a request is one step: the limiter (`Admitted` or
`Limited`), the key, the handler, the service call with the outcomes a handler can
tell apart. The races inside a service call are `InvoiceService`'s subject. An
environment variable is unset (or unreadable, which `atoiDef` and `boolDef` treat
alike) or set to a value. An address text is a record of what the parser
distinguishes: form, alphabet, tag byte, workchain, hash and checksum, the
checksum taken to be injective. Amounts are formatted digit by digit, since
`AmountReadsBack` is about that.

Durations are int64 nanoseconds. `Second` and `MaxInt` are constants, 4 and 15 in
the run, so that a few seconds already wrap around, to negative and to positive
values, as 2^63 / 10^9 seconds do in the code.

`invoices` keeps each invoice's request and `work` each peer's admitted requests
as history for the properties.

## 3. Runs

| Run | Instance | Shows |
|---|---|---|
| `settlement_memory` | 1 process, 2 creators, 1 caller, 3 invoices, 2 accounts, 2 memos, 2 amounts, 2 transactions with a window of 1, caps of 1 | payments are credited to the right invoice, memos keep invoices apart, concurrent creates exceed a cap by at most one invoice per other creator, and a mutex is created only for an invoice with a payment |
| `settlement_postgres` | 2 processes, 2 callers, 2 invoices, 1 statement of unknown fate at a time, crashes | safety of statuses, answers, webhooks and memos, `TerminalIsFinal`, and the refinement of `InvoiceLedger` |
| `liveness` | 1 process, a poller worker and a request, 2 transactions | each settlement has its notifier; no mutex leaks or is shared; every call returns (so every notifier notifies) and, if the verifier keeps answering, every invoice leaves `pending` |
| `memory_store` | 2 writers, 2 invoices, 2 memos | durability, index, refinement of `StoreContract`, every call returns |
| `postgres_store` | 2 writers of one process sharing 1 connection, 2 invoices, 1 memo, 1 late statement | refinement of `StoreContract` with lost replies and late statements; what the database acknowledged is in the table, with one winner; every call returns though the database may stall for ever |
| `shutdown` | PostgreSQL, 1 worker, 1 request, 2 invoices, 2 attempts, 1 delivery place | sweeps, deliveries and their progress; one goroutine per acknowledged claim that has to start its delivery; a shutdown within its time limits, after the last sweep, loses none of these webhooks; the exit waits for the pool and is never held up for ever |
| `rate_limiter` | 2 clients, a burst of 7/3 requests, 2/3 of a request earned per tick | window bound and refinement of `TokenBucket` |
| `server` | 41 environments, 12 request bodies, 1 peer with and without a forwarding header, with and without the key, 1 invoice, burst 2 | whatever starts can run; in production never the mock, and addresses well-formed and canonical; lifetimes within their cap, amounts that read back, the key before every invoice, no effect of a refused request, a bound on a peer's requests |

Violations, each of a statement in the repository:

| Run | Statement | What happens |
|---|---|---|
| `fail_closed` | `service.go:197` "Any verifier error leaves the invoice pending (fail closed)" | an error past the deadline expires the invoice, for good |
| `payment_beats_expiry` | `service.go:195` "Payment takes priority over expiry" | the verdict is from before the payment, the clock reading from after the deadline |
| `two_spellings` | `SECURITY.md:24-27` "a single on-chain payment can never be matched to two different invoices" | the uniqueness key is the address string, the verifier compares accounts; with a repeated memo the EQ and the UQ spelling of one account share a payment |
| `drain_with_poller` | `webhook.go:25-26` "tracked by an internal WaitGroup so shutdown can drain them" | main does not wait for the poller, whose worker settles behind the drain; shown for the in-memory store, where nothing else can lose a webhook |

More consequences of the model, not runs of their own: `PaidIsNotified` fails
for PostgreSQL, since a claim whose reply was lost leaves a paid invoice that
nobody announces (also in a shutdown that met no time limit, which is why
`DrainLosesNothing` is about `Owed`); and the pending caps (`README.md:186`) can be exceeded, by the
amount that `settlement_memory` bounds for the in-memory store and `OvershootBounded`
for both. A third: `ttlSeconds` whose nanoseconds wrap to
a value that is not positive gets the default lifetime, where `api/openapi.yaml:229`
says "capped at the server's max TTL"; `LifetimeWithinCap` bounds what comes out. A
fourth: on a testnet service a raw address is stored with a mainnet tag, so
`ProdAddressesCanonical` asks for a stable text on mainnet only.

### Bounds

Two invoices, callers or processes are enough for every race of the code, since
it only ever involves two parties on one invoice or one memo. Every deadline falls
one tick after creation, and `Draft` requires it to be before `MaxTime`, so a
deadline can always pass. `Ttls` contains a negative lifetime. `Attempts = 2` lets
a memo be retried. `Limit = 1` with two transactions makes one hide the other.
`MaxOrphans` bounds the statements in flight, not how late they commit.
`SYMMETRY` is used only in runs without liveness. `Skew` is 0 in the runs (an hour
against invoices that live minutes); the proofs cover every value.
`postgres_store` has one connection for two callers, so that one waits for the
other's time limit; one late statement at a time can already arrive after any
other one. `shutdown` has one worker, which races the request; that two workers never
have one invoice is left to `SweepsApart`, and a second worker was seen to keep the four
invariants with TLC (430,986 states) but is too much for the liveness properties in the
time of a run. The environments of `server` vary what each gate looks at, the addresses
with the network, and the numbers, each group around one good production
environment; one invoice is enough, as no property relates two. `shutdown`,
`drain_with_poller` and `server` do not check deadlock: the process is meant to
stop, or refuses to start.

### Fairness

`InvoiceService!Fairness`: goroutines run on (weak fairness per caller); Go's
mutexes do not starve a waiter (strong fairness of `Lock`); the clock advances;
poller workers come back to each pending invoice (`Run`'s ticker; strong, since a
worker is busy with others in between); the store does not fail a poller's
transition every time it is tried. Nothing is assumed of requests and payers, nor of the
verifier for `CallsReturn`; `PendingIsResolved` states the premise that the verifier
answers the poller again and again, since the documents leave an invoice `pending` for as
long as it fails (`VerifierAnswers`). `MemoryStore!FairSpec`: a goroutine inside a method
runs on and is not starved of the write lock; that file system calls succeed is
not assumed. `PostgresStore!FairSpec`: a caller runs, and its context runs out;
nothing is assumed of the database, nor that a connection ever becomes free.
`Shutdown!ExitFair`: main runs, its two timers fire, and store calls under way end,
which `opTimeout` sees to (`postgres.go:50`); this is all `ShutdownTerminates` has for the
pool's `Close`, a wait of main without a limit of its own. Nothing is assumed of the
verifier or the receiver. The two other liveness properties of `Shutdown` state their own premise:
`DeliveryFairness` (a delivery runs, its attempts have a time limit, a goroutine
blocked on a channel is served in turn) and `PollerFairness` (the poller's goroutines
run, and the lists of pending invoices are not always cut short before the same
row).

## 4. Proofs

`tlapm` checks all of the following for every value of the constants that
satisfies the named assumptions, which every passing run evaluates:
`StoreAssumption`, `NoInvoiceAssumption`, `VerifierAssumption`,
`ServiceAssumption` for the service; `MemoryAssumption`; `PostgresAssumption` and
that module's `NoInvoiceAssumption`; `ShutdownAssumption`; `LimiterAssumption`;
`ConfigAssumption`, `TextAssumption`, `ServerAssumption` and
`EnvironmentAssumption` for the server. They say that bounds are numbers, that
"no invoice" is not an invoice, that goroutines are finitely many where they are
counted, that defaults fit an int64, that amounts are positive (`CreateInvoice` and
the table's constraint refuse others), that an amount has one to nine decimals (the
code's `NanoPerTON` has nine), and that a variable of the environment holds what its
parser can return. None restricts an interleaving, a failure or a number
that is read.

| Module | Theorem | Statement |
|---|---|---|
| `InvoiceServiceProofs` | `TypeCorrect` | `Spec => []TypeOK` |
| | `MutexesMatchHolders` | `Spec => []LocksMatchHolders` |
| | `PaidAlwaysNotified` | in memory and without crashes, `Spec => []PaidIsNotified` |
| | `OvershootBounded` | `Spec => []PendingOvershootBounded` |
| `InvoiceSafetyProofs` | `PaymentsAreReal` | `Spec => []PaidByOwnPayment` |
| | `WebhookOnce` | `Spec => []FiredOnceWithStoredInvoice` |
| | `RepliesAreTrue` | `Spec => []TerminalRepliesTrue` |
| | `NoEarlyExpiry` | `Spec => []ExpiredAfterDeadline` |
| | `MemosStayUnique` | `Spec => []MemosUnique` |
| | `MutexesOnlyForPayments` | `Spec => []LocksOnlyForPayments` |
| | `FinalStatuses` | `Spec => TerminalIsFinal` |
| | `NoDoubleCredit` | `OneSpellingPerAccount` implies `Spec => []OnePaymentOneInvoice` |
| | `ServiceImplementsLedger` | `OneSpellingPerAccount` implies `Spec => LedgerSpec` |
| `StoreContractProofs` | `ContractKeepsWinners`, `ContractKeepsRows` | `Spec => []WinnersKept`, `Spec => RowsFinal` |
| `MemoryStoreProofs` | `MemoryTypeCorrect`, `MemoryStaysDurable`, `IndexStaysExact` | `Spec => []TypeOK`, `[]MemoryIsDurable`, `[]IndexMatchesMap` |
| | `MemoryImplementsContract` | `Spec => ContractSpec` |
| | `MemoryKeepsWinners`, `MemoryKeepsRows` | `Spec => []AcknowledgedIsDurable`, `Spec => DurableIsFinal` |
| `PostgresStoreProofs` | `PostgresTypeCorrect` | `Spec => []TypeOK` |
| | `PostgresImplementsContract` | `Spec => ContractSpec` |
| | `PostgresKeepsWinners`, `PostgresKeepsRows` | `Spec => []AcknowledgedIsDurable`, `Spec => DurableIsFinal` |
| `ShutdownProofs` | `ShutdownTypeCorrect`, `SweepsApart`, `DeliveriesAreAccounted`, `DrainIsComplete` | `Spec => []TypeOK`, `[]SweepsDoNotOverlap`, `[]DeliveriesAccounted`, `[]DrainLosesNothing` |
| | `OneNotifierPerPayment` | `Spec => []OneNotifier` |
| | `DeliveriesBounded` | `Spec => []SemBounded`: at most `MaxDeliveries` deliveries send at a time |
| `RateLimiterProofs` | `LimiterTypeCorrect`, `WindowBound`, `LimiterImplementsBucket` | `Spec => []TypeOK`, `[]AdmittedBounded`, `BucketSpec` |
| `ServerProofs` | `WiringAlwaysSane`, `ProdNeverMocks`, `KeyAlwaysGuards` | `Spec => []WiringSane`, `[]ProdPaidMeansPaid`, `[]KeyGuardsInvoices` |
| | `AddressesStayCanonical`, `LifetimesCapped`, `PeersBounded` | `Spec => []ProdAddressesCanonical`, `[]LifetimeWithinCap`, `[]WorkPerPeerBounded` |
| | `AmountsReadBack`, `RefusalsHaveNoEffect` | `Spec => []AmountReadsBack`, `Spec => RefusedHasNoEffect` |

Some theorems state what no run checks by itself: the type invariants of `MemoryStore`,
`Shutdown` and `RateLimiter`, and `DurableIsFinal` and, for `MemoryStore`,
`AcknowledgedIsDurable`, which follow from the `ContractSpec` that the stores' runs check.

`OneSpellingPerAccount` (different address strings in use name different accounts)
is the hypothesis that the run `two_spellings` shows to be needed. `PaidAlwaysNotified`
is false for PostgreSQL, where a claim whose reply was lost takes effect behind its
caller's back.

### Settlement

The invariant `IInv` of `InvoiceSafetyProofs` is the argument. The safety
properties are not inductive because a decision and its effect are steps apart: a
claim may commit long after its caller read the invoice, lost the lock or died.
So `IInv` says of every place a decision can be kept what the properties say of
the store. A caller's copy has the terms of the stored invoice. The transaction a
caller or an orphaned claim carries pays that invoice (the chain only grows, so
this cannot become false). A caller about to expire, and an orphaned expiry, know
that the deadline has passed (so does the clock). A caller about to fire holds
exactly the stored, paid invoice, and nobody has fired it; two callers are never
both about to fire one invoice, because a claim affects a pending invoice only.
Per-action lemmas show that each step keeps each part; the refinement then reads
off which abstract step an action is: `Allocate` issues, `Claim` settles, `Expire`
expires, `LateCommit` does one of these, `Fire` announces, everything else
stutters. That the settling transaction is unspent follows from `MemosUnique`, the
memo part of `Pays`, and one spelling per account. The same part of `IInv` that says
what a caller's transaction is worth also covers callers that still wait for the
mutex, which is `MutexesOnlyForPayments`: the map of mutexes never shrinks, and
asking for invoices does not make it grow.

### Mutexes, notifications and caps

`MutexMove` sorts every step of `CheckStatus` into staying where it is, taking its
own mutex, and giving it up; a crash gives up all mutexes of an instance together
with their holders. `PaidAlwaysNotified` needs that the in-memory store leaves no
orphan (`NoOrphans`): then only a claim whose caller was told "ok" makes an invoice
paid, and that caller leaves "fire" by firing. For the caps the strengthening is
`CapsOK`: pending invoices, drafts *and* inserts of unknown fate together (`Budget`)
are at most the cap, the other creators and the statements that can be in flight. It
becomes true with each draft, since the count was below the cap then and there are no
more drafts than creators and no more orphans than `MaxOrphans` (`OrphansBounded`). From
there one invoice passes between the three sets: an insert turns a draft into an
invoice, a lost reply turns it into an orphan, a late commit turns that into an
invoice, and nothing is counted twice (`BudgetMoves`). With the in-memory store the
third set is empty. That the extra term is needed was seen with TLC on four invoices,
two creators, caps of 1 and one late insert, where the bound is reached.

### Stores

For `MemoryStore` the invariant says who holds the lock, and for each point of
`persist` what the map, the index and the two files are relative to each other
(`LockOK`, `FileOK`), that an id being created is free and nobody else's (`FreshOK`), and that what a
restart would load has unique memos. The refinement follows the file, not the map:
the rename is the one step at which a call takes effect, every other step of a
call stutters, and a restart abandons the calls in progress. For `PostgresStore` the
invariant ties a caller's place to its call and its session (`CallsOK`, `SessionOK`); a time survives the nullable column (`TimeRoundTrip`), so reading the
table commutes with every statement. `Execute` is the step that takes effect, and
a lost reply, a time limit or a restart turns a call into an orphan of the
contract.

What the contract is worth is proved once, about `StoreContract` itself: a row changes
only when a statement wins on it (`RowsMove`), a winner leaves a row on which no second
one of its kind can win, and no executed statement takes back what an earlier winner
was told (`WinnersStep`). Each store's proofs instantiate these theorems along its
refinement mapping (`Promise`) and so inherit both results; nothing of the files, the
pool or the sessions is looked at again.

### Shutdown, rate limiter

`DrainLosesNothing` relates the end of the process to everything before it, so
`DrainOK` says what main's waits leave behind: a poller that has stopped, no handler
once `srv.Shutdown` has returned within its limit, and then no delivery, none of which
can come back. `FireOK` fills the gap between claim and delivery: an invoice that is owed
a webhook and has no delivery yet is with exactly one goroutine that is about to fire,
and nobody is about to fire for any other (`OneNotifierPerPayment`). This is inductive
because an acknowledged claim found its invoice pending, so that nobody else had won it,
and because every other change of a status - an expiry, a claim whose reply is lost, a
step of another process - leaves what is owed alone (`StatusMoves`, `OwedStays`). The
steps of `CheckStatus` without an acknowledged claim are one lemma (`CallStays`).

For the rate limiter the strengthening is `Budget`: what was admitted in the
window plus what could still be spent is paid for by the burst and the elapsed
time. The refinement rests on `SweepInvisible` (the sweep changes nobody's level)
and on lazy and continuous refill agreeing (`TickRefills`).

### Server

`IInv` of `ServerProofs` says that the configuration is the environment's except for
the receiving address (`ConfigOK`), that the latter is its text's normal form in
production (`AddressOK`), that nothing happens before the process serves (`StartOK`),
that every invoice still carries what its request asked for (`TermsOK`), and that
admitted requests plus remaining tokens are covered for each peer (`LimiterOK`). The
rest is about operators: `Int64Wraps` (wrapping around yields an int64 and leaves one
alone) gives wiring and lifetimes for every number, and `NormalForm` gives the
addresses: a text that normalizes is one of the well-formed ones, names the same
account, and on mainnet its normal form normalizes to itself.

`AmountInWords` is the argument about `NanoToTONString`. A reader's running total after
`k` digits is the amount divided by the places not yet read (`RunningTotal`), since
dividing once more by ten drops one digit (`DropDigit`); and the digits that are trimmed
are zeros, so the division is exact where reading stops (`TrailingZeros`). The induction
over the digits is the least-element principle for a set of counterexamples (`UpTo`),
which needs no operator as a parameter. Powers of ten are evaluated (`PowerOfTen`),
hence at most nine decimals; the amount itself is any positive number.

`RefusalsHaveNoEffect` is an action property: every step after which the response is a
429 or a 401 is one whose handler did not run, or the response is an old one that the
step leaves alone (`RefusedStep`).

### Only model-checked

Liveness under fairness is out of the prover's reach: `CallsReturn` (service and both
stores), `PendingIsResolved`, `ShutdownTerminates`, `DeliveriesEnd`, `PendingRechecked`.
The four violations are counterexamples and need no proof.

## 5. Not modelled

Header middlewares (request ids, logging, security headers, CORS): they keep no
state and decide nothing about an invoice. The text of payment links and the bytes
of pictures: formatting. `TONToNano`, `Valid` and `Address.Raw`: no caller in the
server. Identifiers and memos are members of a set; that 72 random bits do not
repeat is assumed for the in-memory store. Metadata and its size limits, the
signature of webhooks, listening addresses and the HTTP server's own time-outs. Clocks
that differ between hosts.
Power failure (the model covers the end of the process) and the growth of memory.
`PROJECT.json` gives the reason for each under `components` and `hazards`.

## 6. Plan

Done: the service on both stores, its abstract specification and proofs; both
stores against the contract; shutdown; the rate limiter; start-up, configuration,
addresses and handlers. Every invariant, action property and refinement that a
passing run checks is proved; liveness is model-checked.

What could follow: a model of the file system's ordering for power failures between
write and rename (`memory.go:86`), and proofs of the liveness properties once a prover
for them is at hand.
