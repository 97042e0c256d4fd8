# Verification of lib-common

TLA+ models of the stateful parts of `lib-common`, the library the services of
the platform share, with TLC runs on small instances and TLAPS proofs for every
value of the constants. `PROJECT.json` maps every definition to the source lines
it models.

## The system and its parts

`lib-common` has no process of its own. Services link it, so its correctness is
about what happens when several replicas of several services use the same
database, broker and Redis, and when goroutines of one service share one object.

| Part | Source | Model |
|---|---|---|
| Transactional outbox and its processor | `src/outbox/` | `Outbox`, abstract spec `AtLeastOnce` |
| JetStream client | `src/nats/jetstream.go` | publish and consume, as the two neighbours use them |
| Idempotency claims, dead-letter routing | `src/eventsourcing/idempotency.go`, `dlq.go` | `IdempotentConsumer` |
| Event store | `src/eventsourcing/postgres_store.go`, `store.go`, `event.go` | `EventStore` |
| Snapshot store | `src/eventsourcing/postgres_store.go` | `SnapshotStore` (on top of `EventStore`) |
| Redis lock | `src/lock/redis_lock.go` | `RedisLock` |
| Bulkhead | `src/resilience/bulkhead.go` | `Bulkhead` |
| Circuit breaker | `src/resilience/circuit_breaker.go` | `CircuitBreaker` |
| Retry, executor | `src/resilience/retry.go`, `executor.go` | `Executor` (composes the two above) |
| Rate limiters | `src/middleware/ratelimit.go` | `RateLimiter` |
| API keys and their cache | `src/auth/apikey*.go` | `APIKeys` |
| Money, quantity | `src/domain/money.go`, `quantity.go` | `Int64`, `Money`, `Quantity`, `Ledger` |
| Tokens, authentication | `src/auth/jwt.go`, `src/middleware/auth.go` | `JWT`, `Requests` |
| Internal token | `src/auth/internal_token*.go` | `InternalCalls` |
| Readiness | `src/middleware/health.go` | `Readiness` |
| Errors | `src/domain/errors.go`, `src/response/response.go` | `Errors` |
| Other middleware, business days, telemetry, logging, configuration, connections, payload types | the rest | not modelled, see the end |

The parts interact along two paths.

*Events.* A business transaction writes a row to the outbox; a `Processor`
publishes it to JetStream; a consumer receives it, claims the event in
`events.processed`, runs its handler, completes or releases the claim, and acks,
naks or dead-letters the message. `Outbox` shows that the stream gets every
committed event at least once. `IdempotentConsumer` starts from there: the same
event may be in the stream more than once (`Msgs`) and each message may be
delivered more than once.

*Requests.* A request passes the rate limiter, the API-key or the token and
role middlewares, and ends in a handler whose error is turned into a status.
Calls to other services go through an executor and carry the internal token.
The middlewares share no state with each other, so each has its own module;
`Service` puts the routes of one service together.

## The modules

Every module has one action per operation, or per statement where another actor
can come between two statements of an operation. Names follow the code.
Definitions that end in a suffix after an underscore (`Claimable_IgnoreLocks`,
...) are deliberately wrong variants. They are used only to confirm that the
property that should notice them does; no specification uses them.

**`AtLeastOnce`** is what the outbox promises: delivered only if committed,
settled only if delivered, and nothing is ever taken back.

**`Outbox`** has the table (`row`, `retryCount`, `processed`, `lock`), each
processor's goroutine (`pc`, `claimed`, `pubErr`, `tried`, `stopping`) and the
stream (`copies`, `window`). `PublishInTransaction`, `CommitTx`, `RollbackTx` and
`Publish` are the writers. `Claim` is the `SELECT ... FOR UPDATE SKIP LOCKED` of
`ProcessNext`; `PublishOk`, `PublishRefused` and `PublishAmbiguous` are the
publish callback; `MarkCommit`, `MarkCommitReplyLost`, `MarkRollback` and
`MarkOnLostSession` are the ways the transaction can end. `LoseSession` drops the
row lock while the publish still runs. `NatsMsgIds` is what `processEvent` sends
as `Nats-Msg-Id`, and `Store` what the broker makes of it: `window` is the set of
message IDs it still remembers. The cap and the batch size are per
processor, as in the code, and a configured value below one gets its default.

**`IdempotentConsumer`** follows one `(event_id, consumer_name)` pair. `Upsert`
and `Read` are the two statements of `Claim`, with `now` read once before them.
`Complete`, `Release`, `RouteToDLQ`/`Term` and `CheckAndMark` are the other
operations. The order in which a consumer calls them is the one the comments of
`idempotency.go` and `dlq.go` prescribe; the consumers are not in this
repository. `usesClaim` says which of the two APIs the consumer is written
against. `Abandon` is a crash or a failed call at any point.

**`EventStore`** takes `Append` apart: `CheckVersion`, one `Insert` per row,
`Commit`. An insert waits while its key is pending in another transaction and
fails when it is committed, as PostgreSQL does under READ COMMITTED.
`UniqueIndex` selects the schema. The struct tags that `AutoMigrate` reads give no
unique index on the version; the DDL of `CreateEventStoreTable`
(`postgres_store.go:298-311`) does, but has no `schema_version` column, which
`Append` writes (`postgres_store.go:79-97`). A table from the DDL alone therefore
refuses every insert, and `UniqueIndex = TRUE` is the DDL and `AutoMigrate`
together. The versions of a batch are the caller's: `Append` compares the latest
version with the expected one and never looks at `event.Version`. The writers
of the model number their events upwards from the version they loaded; for a
caller that does not, nothing here is claimed.

**`SnapshotStore`** extends it by `Save` (a `SELECT`, then an `INSERT` or an
`UPDATE`, no transaction), `Delete`, and a reader that loads the snapshot and
then the events after it.

**`RedisLock`** has one key with its TTL and callers of `WithLock`, `TryLock` and
`Extend`. `SetNX`, `DelIfOwned` and `PExpire` are the Redis commands and scripts.
A command may fail before or after Redis executed it.

**`Bulkhead`** keeps the semaphore and the counters apart, because the code
changes them in separate steps, and models `BulkheadGroup.Get` with its two
lookups. `waiting` says whether the bulkhead was made with a wait duration.

**`CircuitBreaker`** has one action per way of `beforeRequest` and `afterRequest`
through the mutex. Requests overlap, results come late, a panic skips
`afterRequest` because it is not deferred.

**`Executor`** extends `Bulkhead` and `CircuitBreaker` (`CallerSet` declares the
callers they share) and composes them in the order of `executor.go`: bulkhead,
breaker, `Retry`, function, each present or not (`parts`). `phase` is a caller's
step inside the bulkhead; `Attempt`, `FnReturns` and `Delay` are the loop of
`Retry`, with the two selects on the context. The ghost `overrun` counts the
attempts started since the breaker opened.

**`RateLimiter`** follows `EndpointRateLimiter` on one endpoint. `Lookup`,
`Configure`, `Reread`, `getLimiter` and `Allow` are the steps of `Limit` between
which the locks are free. A bucket is named by its limiter, the generation of the
limiter's map and the client, so a request may hold one that is in no map any
more. Time ticks every 10 seconds and tokens are counted in sixths, which makes
requests per minute a whole number of sixths per tick.

**`APIKeys`** keeps the history of a row, so that a copy is a version number and
the age of a copy can be stated. `Arrive` is the cache lookup, `GetByHash`,
`CacheSet` and `Validate` the rest of the middleware, `RequireScope` the check on
the route. Administrators `GetByID` and later `Update`, with the columns the code
writes. Scopes are sequences of parts.

**`Int64`** gives integers a width (`MaxInt`) and floats a precision
(`Precision`): `Wrap` for sums, `WrapProduct` for products. A float is a number of
quanta, of which 1 has `Scale`; the gap between neighbours (`Ulp`) grows with the
magnitude through the powers of two in `Ulps`, and `Float` rounds the exact result
of an operation to the nearest one, ties to even. `Round` is `math.Round`, and
`FromFloat` has both results platforms give out of range.
**`Money`** and **`Quantity`** are the value objects as pure operators on it, and
**`Ledger`** is a service computing with a list of them.

**`JWT`** has the three kinds of token and their checks. **`Requests`** adds the
users, whose roles change while their tokens live, and the middlewares in front
of a handler. **`InternalCalls`** has services that resolve the internal token
when they boot, and an operator who edits their environments. **`Readiness`** has
the goroutine of every check, the channel and the collecting loop. **`Errors`**
has one error as the chain `Unwrap` follows. **`Service`** is the union of these
four; they share no state, so a behaviour follows one of them (`route`).

The `MC*` modules give constants their values. The `*Proofs` modules hold the
theorems.

## What the runs check

| Run | Instance | Shows |
|---|---|---|
| `outbox` | 2 rows, 2 processors with caps 1 and 2, any 2 faults, no message IDs | `DuplicatesExplained`, `OncePerTick`, and that `Outbox` implements `AtLeastOnce` |
| `outbox_live` | the same, 1 fault, `Nats-Msg-Id` sent, fair | `EveryRowIsDrained`, `StopTerminates`, `DedupWithinWindow` |
| `consumer` | 1 message, 2 workers, lease 4 x AckWait, MaxDeliver 5 | `AckedWasHandled`, `LeaseExclusive`, `CompletedIsFinal`, `DeadLetterRecorded`, `MarkExcludes`, `OneCrashIsSurvived` |
| `event_store` | 2 writers, batches of 2, 2 versions, 1 fault, 2 savers, deletes, a reader, fair | `HistoryIsDense`, `CommitIsCurrent`, `RebuildIsComplete`, `AppendReturns` |
| `redis_lock` | 3 callers, TTL 2, extensions 0, 1, 3, 1 fault, fair | `LiveHoldersExclude`, `OnlyOwnerGivesUp`, `LockIsFreed` |
| `circuit_breaker` | 3 callers, fair | `ClosedIffBelowMax`, `ThreeConsecutiveToClose`, `Recovers` |
| `executor` | 3 callers, 2 slots, 2 attempts, breaker opening on 1 failure, every combination of parts, fair | `ConcurrencyLimit`, `NothingLeaks`, `OverrunIsBounded`, `CallReturns` |
| `rate_limiter` | 3 requests of 2 clients, configured or not, 1 cleanup per limiter, fair | `ClientBudget`, `RefusedSpentItsBurst`, `ShutdownStopsAll` |
| `api_keys` | 1 key, 2 requests, 1 administrator, with and without cache, 5 ticks | `RevocationIsBounded`, `ExpiredIsRefused` |
| `ledger` | lists of 3, integers of 4 bits, floats of 5 (whole numbers exact up to 32) | `SumsAreExact`, `StoredMoneyReturns`, `NonNegative` |
| `service` | 1 user and request slot, 2 services, 3 checks of which two share a name, chains of 2 errors, fair | `AuthorityIsBounded`, `PublishedIsRefused`, `SameSecretAgrees`, `ReadyMeansAllPassed`, `ProbeEnds`, `WrappingKeepsMeaning` |
| `event_store_fork` | 2 writers, the schema of `AutoMigrate` | a violation of `OneEventPerVersion`, see below |

What the less obvious ones say:

- `DuplicatesExplained`: a second copy in the stream needs an ambiguous publish
  or a mark that was not recorded; nothing else duplicates.
- `DedupWithinWindow`: all attempts at a row, of every processor and after every
  failure, are one message for the broker, and those at two rows are two. So the
  stream has no second copy within the duplicate window, and no row is marked
  because its message was taken for another one's.
- `OnlyOwnerGivesUp`: a key within its TTL leaves its holder only in the holder's
  own call. A late `Release`, `Extend` or `SETNX` of another caller never takes it.
- `OverrunIsBounded`: the breaker is asked once per call, so calls inside go on
  retrying after it opens. With a bulkhead at most
  `(MaxConcurrent - 1) * MaxAttempts` attempts still reach the service.
- `ClientBudget`: a client gets one budget per limiter that racing first requests
  put in the map and per cleanup, and no interleaving gives it another.
- `RevocationIsBounded`: a superseded copy of a key is accepted for at most
  `CacheTTL` and two stays in the middleware, since `cache.Set` may come late.
- `SumsAreExact`: `SumMoney` returns the exact total whenever that fits, although
  partial sums may wrap, and `SumQuantities` fails exactly when it must.
- `StoredMoneyReturns`: `Amount` divides the cents by 100 and `NewMoney` multiplies
  by 100, both rounded to a float64. Below a quarter of the precision, 2^51 cents,
  `math.Round` absorbs the two errors, in JSON and in a column.
- `ShutdownStopsAll`: after `Shutdown` no cleanup goroutine is left of an endpoint
  that was configured at start-up, whatever its requests do meanwhile, nor of one
  that a single request configured.
- `AuthorityIsBounded`: a role that was taken away can be used for less than the
  lifetime of an access token, whatever refresh and temporary tokens exist.

## Where a comment promises more than the code keeps

One disagreement has a run of its own. `postgres_store.go:52` says "Append
appends events to the store with optimistic locking"; under the schema that
`AutoMigrate` builds (`postgres_store.go:24`) two Appends based on the same
version both commit. TLC's counterexample to `OneEventPerVersion` is the evidence.

The others have no run. The first five are definitions of the modules. TLC
refutes them when they are put in the cfg: on the instances above, except that
`DeadLetteredIsFinished` needs two messages (lease 2, MaxDeliver 2, MaxClock 6
are enough) and `DeleteSticks` needs `MaxVersions = 3`. The rest follow directly
from an action:

- `DeadLetteredIsFinished`: `idempotency.go:89` says a dead-lettered event "is
  finished, and its claim is what stops it being picked up again". The claim that
  is kept is an uncompleted lease; another message with the event takes it over
  once the lease has run out.
- `FailureReachesDLQ`: `idempotency.go:103` says AckWait expiring while the
  handler runs is "CLOSED BY Claim". The redeliveries nak'd as in progress use up
  `MaxDeliver`; if the slow handler fails after the last of them, nothing
  redelivers the event and nothing is in `events.failed`.
- `ReleasedAfterFn`: `redis_lock.go:113` says the lock is "automatically released
  after the function completes". The deferred `Release` runs under the caller's
  context; when that is cancelled the key stays until its TTL.
- `DeleteSticks`: `apikey_store.go:109` says "Delete removes an API key (soft
  delete by deactivating)". `Update` writes `is_active` from the copy it was
  given, so an administrator who read the key before a Delete and saves it after
  makes it active again.
- `PerMinuteQuota`: `ratelimit.go:180` configures "3 per minute, burst 1";
  `Configure` raises every rate below six a minute to six (`ratelimit.go:114`).
- `idempotency.go:126`: `Release` deletes by key, whoever holds the claim. This
  is why `LeaseExclusive` and `CompletedIsFinal` have the proviso that no delivery
  came back after its lease (`overran`).
- `postgres_store.go:97`: an `Append` that loses the race to the unique index
  returns the database's error, not `ErrConcurrencyConflict` (`store.go:22`).
- `event.go:88`: event IDs are readings of the clock without the "random bytes"
  of the comment. The model lets IDs clash; `HistoryIsDense` holds all the same.
- `postgres_store.go:260`: `Save` may replace a newer snapshot by an older one.
  Rebuilding stays correct (`RebuildIsComplete`), only slower.
- `redis_lock.go:102`: an extension below a millisecond becomes `PEXPIRE 0`,
  which deletes the key. `redis_lock.go:112`: nothing stops `fn` at the TTL. So
  `LiveHoldersExclude` speaks of holders within their TTL.
- `bulkhead.go:136`: the slot is free before the counter goes down, so `active`
  may exceed `MaxConcurrent` for a moment and `AvailableSlots` be negative.
- `circuit_breaker.go:184`: a success of a request admitted before the breaker
  opened counts in half-open. `circuit_breaker.go:34`: `ResetTimeout` is never
  read.
- `executor.go:199`: `ExecutorGroup` reads and writes its map without a lock.
- `ratelimit.go:166`: "stops all endpoint limiters" does not reach a limiter that
  a racing `Configure` replaced, nor one a request configures later.
- `quantity.go:161`: `Multiply` does not check the product, so a quantity can
  become negative ("Returns an error if the result would be negative").
  `NonNegative` excepts this by the ghost `wrapped`.
- `quantity.go:320`: "All values must have the same unit as the first value".
  `Add` takes a quantity without a unit for one of any unit, so `SumQuantities`
  fails only when two units that are not empty differ. `SumsAreExact` says this
  and not what the comment says.
- `money.go:25`: cents are kept "to avoid floating-point precision issues", but
  JSON and columns carry float64 units. From about 2^51 cents on an amount may come
  back as another one (3518437208883202 cents as 3518437208883203).
- `errors.go:290`: `WrapError(nil, ...)` returns a nil `*DomainError`; a caller
  that returns it as an `error` returns one that is not nil. In the model wrapping
  no error leaves no error.
- `health.go:97`: checks that share a name overwrite each other's result.
- `response.go:226`: with two registered phrases in an error's text the order of
  a Go map decides the answer.

## Bounds, and why they are enough

- Every fault (crash, lost session, ambiguous publish, failed or unanswered
  commit, expired duplicate window) counts towards `MaxFaults`. Two in `outbox`
  let one fault hit the recovery from another; the liveness runs allow one.
- Two rows are the least for order, skipping and a second row overtaking a
  failing one. Two processors give the interleavings of claim, publish and mark.
  One is configured with cap and batch 1, the other with zeroes, for which
  `NewProcessor` puts in its defaults (2 in the run): a row may be at one cap and
  below the other.
- `consumer` keeps the proportions of the platform, because `OneCrashIsSurvived`
  is about them: four times AckWait for the lease, five deliveries. It needs a
  horizon (`MaxClock = 10`) beyond the lease and all redeliveries. One message
  already gives two concurrent deliveries through AckWait; the proofs are for any
  number. `Prompt` says that database calls take less than a time unit; only the
  proof of `OneCrashIsSurvived` needs it.
- `event_store`: batches of two are the least for a wait cycle; clock readings
  0..1 give clashing and distinct IDs. `SmallWhileSaving` keeps faults and
  batches of two apart from savers and readers; the proofs have them together.
- `RedisLock` and `CircuitBreaker` keep times as what is left or as age up to a
  cap, so their behaviours have no horizon. `FailureCap` only has to reach
  `MaxFailures`, the number the counter is compared with.
- `executor`: three callers on two slots give full, contended and empty states
  and two callers inside when one opens the breaker; two attempts give a backoff.
- `rate_limiter`: two requests of one client race for `Configure` and can exceed
  a burst of one; the third is another client's. `ConfiguredRPM = 3` is below the
  floor, `DefaultRPM = 7` above it.
- `api_keys`: with `CacheTTL` 1 and stays of one tick five ticks are enough for a
  change, a late `cache.Set`, an expired entry and an expired key. Two versions
  are one change; the proofs are for any number.
- `ledger`: in four bits every sum and product can wrap, and lists of three have
  partial sums. With `Precision = 32` every amount but the smallest integer is
  below the quarter that `StoredMoneyReturns` speaks of, and no hundredth but zero
  is a float, so both roundings happen. Factors are 0, 1.5, -0.25 and 24, beyond
  the integers. Integers beyond `Precision`, which `ToFloat` rounds, do not occur
  in the run; the proofs have them.
- `service`: access, temporary and refresh tokens live 1, 2 and 3 ticks, so that
  each outlives the shorter ones within `MaxTime`; two edits let one environment
  be changed twice or both once; chains of two links are every pair of layers.

`CHECK_DEADLOCK FALSE` is set where the system may come to rest: the consumer at
its horizon or when the message is settled, the event store at its version bound,
the lock and the executor when all callers have returned, the rate limiter when
all requests are answered, a probe when it is answered. Symmetry is used only in
runs without liveness.

## Fairness

- `outbox_live`: a goroutine that can take a step does (`WF` of `ProcStep`): the
  ticker keeps firing and a publish call returns, since the client has a timeout.
  `select` chooses at random among ready cases, so a closed `done` is not passed
  over for ever (`SF` of `Exit`). Nothing is assumed about writers, faults or
  `Start`.
- `event_store`: statements of an open transaction are executed. A waiting insert
  is woken when the transaction it waits for ends, before a later transaction
  takes the key (`SF` of `Insert`). Savers and readers may stop.
- `redis_lock`: time passes, and callers that can go on do.
- `circuit_breaker`: time passes, requests keep coming, the functions of admitted
  requests end. `Recovers` is about a service that has recovered for good.
- `executor`: goroutines run, functions end and timers fire (`WF` of `Step`).
- `rate_limiter`: a cleanup goroutine whose channel is closed leaves
  (`WF` of `CleanupExit`).
- `service`: the readiness timeout fires, the collecting loop runs and a check
  that has returned sends. That a check returns is not assumed.

## What is proved

TLAPS proves the theorems below for any number of rows, processors, messages,
workers, writers, locks, callers, keys, users, tokens, services and checks, for
any configuration that satisfies the `ASSUME`s of the modules, and for any bound
on faults and time. The `ASSUME`s give the constants their types, keep the sets of
callers, requests and checks finite, and ask for a positive TTL and AckWait. Each invariant is `Init => IInv`,
`IInv /\ [Next]_vars => IInv'`, `IInv => property`, then PTL.

**`OutboxProofs`**: `LockSafety`, `NoLoss`, `NoPhantomEvent`,
`DuplicatesAccounted`, `RetryCap`, `NoBurst`, `Dedup`, `MarkIsFinal`,
`Refinement`. The properties are not inductive alone. `InHand` says a goroutine
in `publish` or `mark` has a row in hand. `StreamInv` adds that such a row was
committed, that a mark without an error is preceded by a copy, and that an ID in
the duplicate window has a copy. `SessionInv` ties a processor without its lock
to an earlier fault. `TickInv` relates `tried`, `attempted` and the row in hand.
`DedupInv` counts the window: `copies <= expiries + (1 if in the window)`; the
other half of `DedupWithinWindow`, a copy behind every mark, is `StreamInv`. The
refinement maps committed to live or deleted rows, delivered to `copies >= 1` and
settled to `processed`, and every step to one abstract step or none. Some of
these (`LockedRowIsStable`, `ProcessedIsInStream`, `OnlyCommittedIsPublished`,
`RetryCapHolds`, `NoPublishAfterMark`) have no run of their own any more: the
proof covers every instance, and the refinement the safety that matters.

**`ConsumerProofs`**: `NoAckWithoutRun`, `OneLiveLease`, `CompletionIsFinal`,
`MarkIsExclusive`, `DeadLettersRecorded`, `OneCrashSurvived`. The key is
`LeaseInv`: while nobody has come back late, a delivery with a live lease is the
one the row records (`processedAt = now[w]`), so a second upsert sees a row that
is too young. `Numbered` says the delivery numbers
of one message are distinct and at most the broker's count, so only one delivery
can be the last and only it dead-letters.

`OneCrashSurvived` assumes `Prompt` and `MaxDeliver >= 4`, and nothing about the
proportion of the lease to AckWait. `CrashInv` follows an event until the first
run of its handler ends. `PromptInv` says that a worker which has not come to the
handler still has its delivery to itself at the time it received it. `Survives`
then tells how far the event has come: unclaimed, claimed by a running handler, or
abandoned once, and in that case which deliveries of a message are already spent
and when the next one is due. A redelivery that finds the lease alive naks with
the time the lease has left. The upsert takes over only a row older than the lease,
so the redelivery after it may come at the very end of the lease and nak once more,
for a second: the crashed delivery, one that comes early, one at the end and one
that takes over. With `MaxDeliver = 3`
TLC finds an event lost by one crash, so four cannot be lowered.

**`SnapshotStoreProofs`**: `HistoryIsDenseHolds`, `CommitIsCurrentHolds`,
`RebuildIsCompleteHolds`, `NoCircularWaitHolds`. The versions are compared before
the inserts, so the argument needs what the unique index adds in between.
`PrefixOK` says that an open transaction has inserted a prefix of a batch that
continues the version it was decided on, and that once it has inserted anything
this version is the latest: a row of that version in the table would have made the
first insert fail. `Apart` says two open transactions hold no common version.
Together, only one transaction can have inserted anything, and its commit extends
a dense history. `SnapInv` keeps snapshots within the history. Without the unique
index `IInv` claims nothing.

`NoCircularWaitHolds` is for both schemas, and is the safety half of
`AppendReturns`: among any writers one waits for none of the others. With the
unique index this is because only one transaction has rows. Without it Appends
wait for each other's event IDs, and the argument is the clock: the events of a
batch were made one after the other, so IDs within it never go down (`OrderOK`),
what a transaction has inserted is a prefix of its batch (`HeldOK`), and two open
transactions hold no common ID (`IDsApart`). Hence a writer that waits for one
that waits itself has an earlier next event than that one (`WaitChain`), and in a
circle somebody's would be the latest. The run does not list it (`AppendReturns`
would fail with it); TLC checked it, and `OrderInv`, with three writers in both
schemas.

**`ExecutorProofs`**: `StateMatchesCounter` and `ClosesOnThree` for the breaker
alone (in half-open the success counter is below three and at most the number of
successes in a row), and `ExecutorImplementsBreaker`: the executor uses its
breaker only in the ways `CircuitBreaker` allows, so both hold inside it too.
`ConcurrencyLimitHolds`, `NothingLeaksHolds` and `OverrunIsBoundedHolds` are for
any number of callers and every combination of parts. `Counts` says the semaphore
and the counters of a bulkhead are the numbers of callers at the steps that hold a
slot, are counted as active, or have started; `OneBulkhead`, that the second look
in `BulkheadGroup.Get` keeps it at one. `Budget` adds what makes the overrun
inductive: the attempts made since the breaker opened and those that the loops
inside may still make are together within the bound. The caller whose failure
opened the breaker holds a slot and has no attempt left, hence the
`MaxConcurrent - 1`.

**`LimitProofs`** is about the lock and the rate limiter. For `RedisLock`:
`MutualExclusion`, `OwnerOnly`. `KeyInv` says the key exists exactly while its TTL
runs, and that a caller within the TTL it was granted owns the key with that TTL.
`OwnerOnly` then goes through the commands that change the key.
For `RateLimiter`: `RefusedSpentItsBurstHolds`, `ClientBudgetHolds`. `Conserves`
is the invariant of a bucket: what it holds and what it has let through are together at least its burst and at most its burst and what has flowed
in. `InMaps` places every bucket in a map its limiter has or had, and a client has
at most one bucket per map; `ClientBudget` sums `Conserves` over the maps.
`HoldsOwn` lets a request spend only from a bucket of its own client, dropped or
not.

**`APIKeysProofs`**: `RevocationIsBoundedHolds`, `ExpiredIsRefusedHolds`.
`KeysInv` bounds when a copy was read, whoever holds it: an entry of the cache at
most one stay before it was set (`CacheOK`), a request's copy at most the time
since then (`RequestOK`). A version that was superseded later than the copy was
read cannot be older than that. `SameExpiry` says no operation changes the expiry
of a row, so that of any copy is the current one.

**`LedgerProofs`**: `NonNegativeHolds` and `SumsAreExactHolds` for integers of any
width, lists of any length and operands in any order; `PartialSumsMayWrap` and
`AddDetectsOverflow`, the single steps the sums rest on, `SubtractUndoesAdd`,
`QuantityJSONRoundTrip` and `StoredMoneyReturnsHolds`. The loops of `SumMoney` and
`SumQuantities` need induction over the list. `Induct` is that induction for sets of numbers, from the least
counterexample; `Iterates` makes a recursive function of it, and `SumMoneyIs` and
`SumQuantitiesIs` say after how many lines the loop stands for which partial total.
`OrderTotal` says that the total does not depend on the order. The invariant of
the ledger is `LedgerInv` and `MoneyInv`: every amount in the list is one the
program's integers can hold, and has a currency (`Priced`).

`StoredMoneyReturnsHolds` is for floats of any precision whose quantum is small
enough that a hundredth keeps its digits (`50 * Precision <= Scale`; for float64
the quantum can be any power of two from 2^-59 down). `FloatError` says that a
result is off by at most one part in `Precision`, `TwoRoundings` adds the errors of
the quotient and of the product: for amounts below a quarter of the precision they
are less than half a cent, and `CentsReturn` concludes that `math.Round` finds the
cents again. `FloatIsOdd` carries this to negative amounts.

**`ServiceProofs`**: `AuthorityIsBoundedHolds`,
`PublishedIsRefusedHolds`, `SameSecretAgreesHolds`, `ReadyMeansAllPassedHolds`,
`WrappingKeepsMeaningHolds`. `RequestsInv` says that a signed access token with an
admin role was minted while its user had the role, and expires at most `AccessTTL`
after the user lost it. `InternalInv` says a service holds what its boot value
resolves to. `ProbeInv` counts: the outcomes in the channel, those to come and
those collected are the checks, and a name is "ok" only by a check of that name
that passed. For the errors, `FirstLink` says which link `errors.As` finds and
`PrependedKeeps` what a link in front of a chain of any length leaves: an
annotation moves the first `DomainError` one place back, and `WrapError` puts one
with the same code and details before it, or nothing when there is no error.

The modules with a `TypeOK` also prove it.

Only model-checked: all liveness (`EveryRowIsDrained`, `StopTerminates`,
`AppendReturns`, `LockIsFreed`, `Recovers`, `CallReturns`, `ShutdownStopsAll`,
`ProbeEnds`), because the prover has no reasoning about fairness and `ENABLED`.
Every safety property of a passing run has a theorem.

## Abstractions

Payloads, event types, subjects, error texts, logging and metrics are left out.
PostgreSQL, JetStream, Redis, the token buckets and the JWT library are modelled
by what the code relies on: row locks end with the transaction, unique keys block
and then fail, a message is redelivered up to `MaxDeliver`, a script is atomic, a
key with a TTL expires, a bucket refills up to its burst, a signature verifies or
not. An ack counts whichever delivery it answers; whether a late nak counts is
left open. An API key and its hash are one value. The length of a backoff is the
scheduler's.

## Not modelled

- Deprecated outbox methods the processor does not call (`GetUnprocessedEvents`,
  `MarkProcessed`, `MarkFailed`) and `GetFailedEvents`; a second `Stop` of the
  processor and a second `Shutdown` of a rate limiter, which panic.
- Connecting, stream creation, health and close of the NATS client, database and
  Redis connections: calls to libraries, without state of their own.
- `calculateDelay` of `Retry`: floating point with jitter, on which no property
  depends. The map of `ExecutorGroup`: its unlocked use has no defined outcome.
- `ListByService`, `ServiceAuthClient`, `ExtractClaims`, `LoadByEventType`:
  they read or set a header, and change no state.
- `src/bizday`: day boundaries, computed by Go's `time` package and by the SQL
  it returns. `src/storage`, `src/validator`, `src/config`: checks of single
  values.
- The CSRF middlewares (`csrf.go`): they compare a cookie with a header of the
  same request and keep no state.
- Middleware that handles each request by configuration alone (CORS, security
  headers, compression, request IDs, logging, recovery, audit, trusted proxies,
  validation); telemetry and logging, which have no effect on the state; payload
  types and response bodies.
