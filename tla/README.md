# AlphaHub backend: a TLA+ model

AlphaHub is a NestJS backend (TypeScript, TypeORM on PostgreSQL, Redis, CCXT) for a
trading platform. At this commit most of the trading module is empty; the code that has
behaviour is the management of exchange accounts, authentication, a rate limiter, a Redis
cache and the scripts that prepare the database. There are no tests, and the repository's
README is empty, so the code and its comments are the only reference.

Paths below are relative to the repository's `src/` directory unless they begin with `scripts/`.

## 1. Inventory

Node runs one JavaScript thread. Requests interleave only at `await`: a handler's memory
between two awaits is its own, but what it READ before an await may be stale after it.
All shared state is in PostgreSQL, in Redis and in a few objects of the process (the
buckets). Nothing opens a transaction around more than one statement: `dataSource` is
injected into the account services and never used.

| Component | State | Operations | What is hard |
|---|---|---|---|
| CEX accounts service (`shared_module/services/cex_accounts.service.ts`) | table of accounts, soft-deleted rows included | create (with restore), update, soft delete, test connection, list, details | read, then await, then `save()` of the whole entity; restore path; retry loop against an exchange; unique key differs between entity and migration |
| DEX accounts service (`shared_module/services/dex_accounts.service.ts`) | table of wallets | create, update, soft delete, connection test, list, details | same, without a restore path; `softDelete()` by id alone |
| Token bucket (`modules/trade_center_module/infrastructure/exchange_adapters/rate_limiter/token_bucket.ts`) | tokens, time of the last refill, promise chain | consume, consumeOrWait, peek, getStats, reset | lazy refill, wall clock, rounding, peeks between chained calls |
| Exchange adapter base | - | retry wrapper around every exchange call | unfinished: `for ()` does not parse |
| Authentication (`user_auth_module/`) | `platform_user` table; JWTs held by clients | register, login, guard on every protected route | check-then-insert, stale `enabled`, tokens that outlive the user they name |
| Seed script (`scripts/seed.ts`) | same table, another process | insert a test user and, on request, an administrator | races the server; first failure ends it |
| Migrations (`scripts/database_migrate.ts`, `shared_module/database_migration/`) | schema | up, down | table name and unique key differ from the CEX entity |
| Encryption service | master key | encrypt, decrypt, hash | layout salt+IV+tag+data; a changed master key |
| Redis cache and sessions (`shared_module/services/cache.service.ts`) | keys with a TTL | get, set, delete, session helpers | read-modify-write of a session against its deletion |
| Queries and pagination (`getCexAccounts`, `getDexAccounts`, query DTOs, `pagination.dto.ts`) | none; a client walks through pages | filter, sort, page, count | offsets into a table that changes; rows and their number are two statements; defaults that fail their own validator |
| CEX accounts controller (`shared_module/controller/cex_accounts.controller.ts`) | none | routes behind the guard | which owner it hands to the service |
| Configuration | environment | parsing with defaults | none concurrent |
| Kernel, events, middleware, utilities, `app.ts`, `server.ts`, trading application layer | none | none | empty files |

How they interact: the controller of the CEX accounts sits behind the JWT guard and hands
`String(request.user.userId)` to the service; the service calls the encryption service,
the table and CCXT; the guard calls the authentication service, which reads the users;
the seed script writes the same users. Buckets are meant for the adapters, which call
nothing yet. No module uses the cache service.

What makes each correct, in a sentence: an account's slot (user, exchange, type, environment)
holds one account, users never reach each other's rows, what a row says of its key, its health and
its switches is what some request established; a bucket never exceeds its rate and tells a refused
caller, to the millisecond, how long to wait; pages put together are the list, as far as the table
held still; a request enters only with a token of the account it acts as, and every answer is
right for some moment of the request.

The hazards are listed in `PROJECT.json` with the line where each bites and the
properties aimed at it.

## 2. Modules

| Module | What it is |
|---|---|
| `CexAccounts` | the CEX accounts service, its table, TypeORM's `save()`, faults and restarts |
| `AccountRegistry` | abstract specification: a book of numbered accounts, and what clients ask and are told |
| `CexAccountsProofs` | theorems about it, for any number of concurrent requests |
| `CexSequentialProofs` | theorems about it, one request at a time, and the refinement of `AccountRegistry` |
| `MCCexAccounts` | model values and symmetry |
| `TokenBucket` | the rate limiter |
| `EagerBucket` | abstract specification: a bucket refilled every millisecond |
| `TokenBucketProofs` | theorems about both |
| `MCTokenBucket` | model values and symmetry |
| `DexAccounts` | the wallet service, its table, `save()`, faults and restarts |
| `DexAccountsProofs` | theorems about it |
| `MCDexAccounts` | model values and symmetry |
| `SessionCache` | sessions in Redis over one pipelined connection |
| `SessionCacheProofs` | theorems about it |
| `MCSessionCache` | model values and symmetry |
| `AccountListing` | a client walks through the pages of its accounts while others write |
| `AccountListingProofs` | theorems about it |
| `MCAccountListing` | tables and queries |
| `Auth` | registration, login, guard, seed script |
| `AuthProofs` | theorems about it |
| `MCAuth` | model values and symmetry |
| `AccountsApi` | composes `Auth` (the guard) and `CexAccounts` (the service) as the controller does |
| `MCAccountsApi` | model values |

Definitions marked `Slip` restate a definition with a plausible mistake (a dropped guard, a
forgotten reset). The specifications do not use them; `PROJECT.json` pairs each with the
property that must fail when the slip takes the definition's place, which shows that the
property depends on that code.

### CexAccounts

One action per step between awaits. `Find`, `FindLive`, `FindDeleted` are the lookups;
`Insert` is the INSERT of a new entity; `Load` and `Write` are the two statements of
`save(entity)` for an entity that has an id: TypeORM selects the row again (deleted or
not), compares it with the entity and updates the columns that differ. `held[p]` is the
entity, `dirty[p]` the columns found to differ, `outcome[p]` the answer the handler is
about to give. `ProbeSucceeds`, `ProbeSkipped`, `ProbeFails` and `ProbeImpossible` are one
turn of `testConnection`'s loop, its empty loop, a failing turn and a failure before the
loop. `DbFault` loses a statement or its acknowledgement, `Restart` loses all requests.

A body may leave fields out (`Undefined`), and JavaScript's `undefined` does what it does in
the code: a lookup drops the condition (`Selects`), so that a creation without an environment
finds an account of any; an INSERT gives the column its default, or fails if it has none
(`Insertable`); and `save()` skips the column (`Differing`), so that the restore path leaves
what the deleted account had. The entity's `@Unique` is the table's key (`IndexKey`): the
migration that names another one creates another table.

Three history variables. `overtaken[p]`: the row `p` works on was stored by another request after
`p` read it and before `p`'s `save()` compared it. `answered`: the accounts for which the exchange
has answered a test. `caught[id]`: how many tests of an account have ended in the catch block,
for whatever reason: the exchange, the decryption, or a `save()` that failed after a good probe.

Abstractions: the exchange is fixed (it plays the part of the account type in the slot);
`label` is the name, `rights` the three allow flags, and status goes with the switch `enabled`;
the JSON settings go with the rights but have no default, and a creation without permissions
stores `["read"]` on both paths, which the model leaves out; connectionStatus and healthStatus,
which are always set together, are `conn`; a ciphertext is the key inside, its owner and a salt
that no other encryption shares. Timestamps and error texts are left out, and so is a body
without an API key (hashing throws, and the request ends before it writes). The DTOs' validators
are left out too: no validation pipe is installed anywhere (`app.ts` and `server.ts` are empty).
`TransformsDto` keeps open what the repository leaves open: whether a future bootstrap builds DTO
instances, which brings the creation DTO's initial values into bodies, and `PartialType`'s
into updates.

`AccountRegistry` promises clients a book: what is asked is done in the step that tells. An account
is opened in a place never used, with all that the request says; a place whose accounts are closed
is reopened (switched on, with the key of the request, and otherwise with what the request says
or else the closed account's); an open account is amended or closed by its number. It knows no
statements, no entities, no second SELECT and no ciphers. A failing database may have done what
it says it has not; a restart tells nobody.

### AccountListing

A client asks for a page, the service selects the rows (`Select`), then counts them
(`Count`; TypeORM leaves this out when a page that is not full tells the number), and the
client asks for the next page by number or by offset (`TurnPage`). Between any two of these
steps `Add`, `Change`, `SoftDelete` and `Restore` stand for the other operations of the two
services, each at the moment its statement commits; while no walk is under way they are left
out, since they only lead to other tables to start from. `service` is the service asked
(CEX looks at `sortOrder`, ignores some filters, can restore and rename; DEX does not),
`bootstrap` what the process does to a query string: nothing, as in this repository
(`getOffset` does not exist on a plain object, and every listing throws), build DTO
instances, or validate them too. An order that ties is any order that fits. `throughout` and
`upset` are history variables: which accounts the query meant all along, and what happened
to those pages that were already listed.

`EnabledOf` and `Valid` are the DTOs' conversions and validators, each as it is written:
`@Type(() => Boolean)` makes every nonempty `enabled` true, `"false"` too;
`blockchainWebsiteId` is to be an integer but is never converted to one, so that a validating
pipe refuses every query with it; a limit above the maximum (`MaxLimit`) is refused as well.

Abstractions: of the filters on columns, `enabled` is one that is converted and `venue`
(exchange, blockchainWebsiteId) one that is not; of the filters the CEX service leaves out,
`createdAfter` stands for all; an empty `enabled=`, the one string that becomes false, is left
out; names are their ranks; ids stand for items.

### AccountsApi

Each part keeps its module, its variables (prefixed `gate` and `acc`) and its actions; no
definition is repeated. `Call` is a route: it needs a request the guard let in, and hands
the service `OwnerOf(p)`, read from the row the guard left there. `Work` is the service,
`Return` the answer. `maker` is a history variable.

### DexAccounts

The steps are those of CexAccounts, and so is `save()` (`Load`, `Write`), but the service
differs: there is no restore path, so an address that was deleted cannot be added again
(`FindWallet` does not see the deleted row, the unique index in `Clashes` does, and the
caller gets a database error). `SoftDelete` is a single UPDATE by id, after a lookup that
names the owner. An update assigns the columns of `Updated` and does not look at a wallet
address in its body, although the DTO inherits one. `NewAccount` drops the settings of a
creation: `create()` is given names that are no columns of the entity. A chain outside
`RPC_ENDPOINTS` is marked connected without a call (`ProbeSkipped`). A stale save brings
a deleted wallet back, as in CexAccounts.

Abstractions: the columns an update may set are `label` and `settings`; the two status
columns are `conn`. The table has the columns of the entity; the migration of this table
lacks some of them (configuration, tags, metadata), which is a matter of deployment and
not modelled. History variables: `evidence` records how each test ended, `overtaken` the
handlers whose row was deleted after they read it and before their `save()` selected it.

### SessionCache

`pipeline` holds the commands without a reply in the order issued; the first `executed` of them
have been executed. `Execute` is Redis, `Acknowledge` a reply. A call issues its first command
when it starts (`SetUserSession`, `DeleteUserSession`, `UpdateUserActivityTime`,
`GetActiveSessions`) and goes on when all its commands are answered (`WriteBack`, `NextBatch`,
`Finish`). When the connection breaks, ioredis sends the unanswered commands again (`Resend`: some
are executed twice) or, after `maxRetriesPerRequest`, rejects them (`GiveUp`); the catch blocks
then turn a read into null, an error of a deletion into 0, and let an error of a write through.
`Restart` loses the calls and what Redis has not executed. `Tick` is the clock and Redis' expiry.
`setUserSession` stores what the caller hands it, activity time included: any time so far
(`SetUserSession`); one older than what was answered lowers `stamped`. `stamped`, `ended`,
`touched`, `ever` and `always` are history variables.

Abstractions: user, address and names of a session are its `id`; `getUserSession` alone is
the read with which an update begins; the server's clock and that of Redis are one, and not set
back. The generic operations on other keys, `expire`
and `ttl` are left out. No module calls the service yet: any order of calls is allowed.
Two things the model shows and no property claims: `updateUserActivityTime` brings a
session back that was deleted, or switched off, after it was read, and a deletion that
was rejected looks to its caller like one that was done.

### TokenBucket

Tokens are counted in thousandths, so that one millisecond adds exactly `refillRate` of them. The
code adds doubles: 0.1 ten times is 0.9999999999999999, and a bucket that gains 10 tokens a
second, looked at every 10 ms, refuses at 100 ms the caller it told to wait 100 ms. The error
of a sum stays far below a thousandth (it would take some 10^11 refills of a bucket that never
fills up or resets to reach one), so it decides only between equals. `inexact` says whether
the content is a rounded sum; while it is, a call that costs exactly the content may be granted
or refused (`MayFallShort`), and a hint whose quotient is a whole number may be one more
(`Hints`: 31 ms for 0.30000000000000004 tokens at 10 a second). `wall` is
`Date.now()`, `real` is real time: `StepBack` separates them. `mutex` is the promise
chain; `Grant` and `Refuse` are its callback, `Peek` stands for `peek()` and `getStats()`,
which do not go through the chain. `since` and `granted` are an observer's window,
which `OpenWindow` starts anew at any moment, so that an invariant about one window
speaks of every window. `quiet` remembers the callers whose refusal nothing has overtaken.

`EagerBucket` promises that the allowance grows by a fixed gain every millisecond up to
a burst, and that calls are granted if the allowance covers them and refused if not; of a call
for exactly the allowance it promises neither. It knows nothing of refill times. The refinement
maps its allowance to `Refilled`, what a refill would make of the stored tokens now.

### Auth

`FindEmail`, `InsertUser` are `register`; `FindUser`, `Compare` are `login`; `Verify`
(expiry), `FindById` (`validateUser` and the comparison of the address) and `Serve` are a
request to a guarded route. `SeedStart`, `SeedFind` and `SeedInsert` are the seed script,
a process of its own. `Administer` is external: nobody in the repository disables, renames
or removes a user, but a message of `login` refers to an administrator who does. The ids of
removed users are never used again (a serial column): the table is a sequence in which
`Undefined` marks a removed row. `seen[p]` is a history variable: the answers a server would
have given request `p` at each moment since it arrived.

Abstractions: signatures are unforgeable (clients present only tokens that were signed);
a hash is represented by its password; addresses are compared as the strings that reach
the service (the lower-casing of the DTO runs only under a validation pipe). A request without
an address is one of them: `findOne` with `email: undefined` returns some row (`Selected`), so that
such a registration is a conflict as soon as there is a user, and such a login compares the
password with a row that no address chose. Without a nickname either there is nothing to split,
and `register` ends in a TypeError (`Nameless`). A body without a password makes bcrypt throw,
before anything is written, and is left out; so is the role, which no code reads.

## 3. Runs

| Run | Checks | Shows |
|---|---|---|
| `cex_sequential` | `OneLiveRowPerSlot`, `HashMatchesCipher`, `HealthMatchesCount`, `DisabledStaysDisabled`, `OmittedFieldsKeep`, `FailuresAreCounted`, `CreateNeedsFreeSlot`, `ImplementsRegistry`, `EveryRequestEnds` | one request at a time, the service is right and implements the registry, with fields left out and with retry counts 0 and 2 |
| `cex_concurrent` | `TypeOK`, `OwnersApart`, `StatusHasEvidence`, `OnlyOvertakenDisturb` | what two concurrent requests, a fault and restarts cannot break, and what a stale `save()` needs to do harm |
| `cex_stale_save` | `DeletedStaysDeleted` (violated) | a deleted account is brought back by a stale `save()` |
| `dex_accounts` | `TypeOK`, `StatusHasEvidence`, `DeletedByOwner`, `RevivedOnlyIfOvertaken`, `WalletsFixed` | two concurrent requests on wallets, a fault, restarts |
| `session_cache` | `TypeOK`, `ActivityIsKept`, `EndedStaysEnded`, `AbandonedExpires`, `ListingIsFair` | sessions under two concurrent calls, expiry and one broken connection or restart |
| `listing` | `TypeOK`, `NoneMissed`, `NoneRepeated`, `PagesFitTogether` | what paging by offset guarantees while two writes happen at any moment, and under which conditions |
| `bucket` | `TypeOK`, `RateBound`, `HintIsEnough`, `HintIsTight`, `ImplementsEager`, `EveryCallAnswered` | the bucket with a monotone clock |
| `bucket_clock` | `RateBound` | the rate when the clock is set back |
| `bucket_wait` | `WaitIsPaid` (violated) | `consumeOrWait` does not wait |
| `auth` | `TypeOK`, `HolderIsOwner`, `SeedIsComplete`, `AcceptedForCause`, `RefusedForCause` | users, requests with and without an address, the seed script, an administrator, expiring tokens, a fault, restarts |
| `auth_register` | `TakenEmailIsConflict` (violated) | a taken address may end in a database error |
| `accounts_api` | `OwnerIsUser` (violated) | the stored owner is "undefined" |

Every property of `cex_sequential` except `OmittedFieldsKeep` and `EveryRequestEnds` is
also a question about concurrency, and the answer is no. With two handlers, TLC refutes
`DisabledStaysDisabled`, `HashMatchesCipher`, `HealthMatchesCount` and
`FailuresAreCounted` (stale saves), `CreateNeedsFreeSlot` (two creations restore the same
row and both report success), `OneLiveRowPerSlot` (two creations with different keys both find
the slot free, and the entity's key lets both in) and `ImplementsRegistry`. Even one request at a
time, TLC refutes `FailuresAreCounted` with a database fault (a `save()` that fails after a good
probe has reset the count, and the catch block makes it 1), which is why the run has
`MaxFaults = 0`, and `OmittedFieldsKeep` with `TransformsDto = TRUE`. `cex_stale_save`
stands for this family as a run of its own; change `Handlers`, `MaxFaults` or
`TransformsDto` in a cfg to see the others. What bounds the harm is checked with two requests:
`OnlyOvertakenDisturb` says that a save changes columns its operation is not about only if the row
was stored by another request between this one's lookup and its comparison;
what is stored between the comparison and the UPDATE is safe.

The uniqueness that a database index alone decides (one user to an address and to a name, one row
to a wallet) is not a property of any run: it would restate `Clashes`.

### Bounds

- Two handlers: every race above is between two requests, and a third adds no new kind
  of step. One user in the sequential run, two in the concurrent one: enough for a wrong owner.
  Two keys in the sequential run are enough for a changed key. The concurrent run has one, so
  that two accounts in a slot clash; with two keys it passes as well (5,057,310 distinct states,
  three minutes).
- `MaxCreates` 2 is create, delete, restore; `MaxTests` 2 is a count that is raised,
  then raised again or reset; `MaxFaults` 1 because a fault ends its request.
- Two chains, one without an RPC endpoint, two wallets, two users for `dex_accounts`: enough
  for a clash of addresses, an address deleted and added again, a request for another's
  account. Two creations, one connection test, one fault.
- Two sessions listed one at a time are two batches; a lifetime of 1 tick and a clock that stops
  at 2 let a session expire, be set again and be used in between; one broken connection is enough
  to execute a command twice.
- The bucket holds 2 tokens and gains 0.5 or 1.5 a millisecond, so that refills are
  fractional, cut at the capacity, add up to exactly a price, and a cost (3) that the bucket can
  never hold occurs.
- Tables of three and four accounts under limits 1 and 2 are walks of up to five pages; two
  writes are the least that can undo each other's shift (an account enters and leaves).
  One walk: a second starts from another table.
- Two addresses and requests with none, two names, two passwords, two registrations, a login, two
  seeded accounts and one edit: enough for an address that passes from one user to another while a
  token for it is alive. Short and long token lifetimes are 1 and 2 ticks, and time stops after
  the short one.
- Updates, deletions and guarded requests are not bounded.

Distinct states: `cex_sequential` 607,992, about 1,881,000 in `cex_concurrent`, 3,770,000 in
`dex_accounts`, 5,290,000 in `auth` and 5,140,000 in `session_cache`; `listing` 1,258,705, `bucket` 700,767,
`bucket_clock` 324,816; each takes less than two minutes with two workers.

`auth`, `auth_register` and `accounts_api` switch deadlock checking off because the bounds
on registrations, logins and edits let the model stop; so does `listing`, where a client is
done.

### Fairness

`Proceed(p)` is weakly fair for every handler: an await resumes because PostgreSQL's
driver and CCXT resolve or reject their promises (CCXT has a timeout, testConnection sets
it) and Node's event loop runs the continuation. No fairness is assumed of clients,
faults, restarts, time, the administrator or the seed script. In the bucket, the callback
of a resolved promise runs: `WF(Grant \/ Refuse)`. `Auth`, `DexAccounts`, `SessionCache` and
`AccountListing` state no liveness: their handlers are straight lines without a loop that
could hang, apart from a walk, which may well be outrun by new accounts.

## 4. Proofs

tlapm checks these for all values of the constants (assumptions: the named ASSUME of each module,
which TLC also evaluates). An assumption beyond types: `Undefined` is no value that a column or a
request can have, `Absent` is no session, and there are finitely many sessions (a listing puts
their keys in an order); a clock's bound is not below its start. A theorem that needs more says so
itself. Each invariant below was an invariant of a TLC run before it was proved.

### CexAccountsProofs: any number of requests

`TypeCorrect`, `OwnersKeptApart`, `StatusSupported`, `DisturbersOvertaken`: the four properties of
`cex_concurrent`. A step of `Write` stores columns of an entity read long before, so the
inductive invariant `Inv` says of the entity what the invariants say of the table: its owner
is the requester (`Holds`), its status and count are backed by answers and caught tests
(`Supported`). Two tests that hold entities of one row count from the same number, and one of
them may be about to count a test that the other has counted too: that is why counts are bounded
by caught tests and not equal to them. `Inv` also bounds the attempt: with a retry count above 0
the loop cannot run out, so `ProbeSkipped` never marks an account connected. For
`DisturbersOvertaken` a second invariant, `Turns`, says that an entity not overtaken
agrees with its row outside its operation's columns until it is compared, and that the columns
found to differ are among those columns afterwards. The proofs have lemmas for the operators on
rows, for the three things that happen to the table (append, store, nothing), for the moves of a
handler (answer, save, catch, move on, stay), and then one step per action.

### CexSequentialProofs: one request at a time

The properties of `cex_sequential` are false of concurrent requests (section 3), so these
theorems assume `OneAtATime`: `Handlers` has at most one element. Number of accounts, faults
and restarts stay arbitrary. `SeqInv` adds to `Inv` that rows are sound (hash and cipher,
status and count, one live row to a slot) and what a handler may rely on at each of its steps
(`Serving`): the entity it holds is the row, but for the columns the operation has assigned;
after a failed lookup the slot is free; after a failed attempt the entity says so. Restarts
and faults end the request, and leave the table in a state that `SoundTable` allows.

- `HashesMatch`, `HealthConsistent`, `LiveSlotsUnique`: invariants, from `SeqInv`.
- `DisabledKept`, `OmittedKept` (also `TransformsDto = FALSE`), `FailuresCounted` (also
  `MaxFaults = 0`), `CreationNeedsFreeSlot`: action properties. Most steps leave the table
  alone; for `Insert` and `Write` the invariant says what is stored.
- `ServiceImplementsRegistry`: `Spec => ImplementsRegistry`, from `Inv`, `SeqInv` and
  `TellingInv`, which is about answers; `TransformsDto` may be either. The book of the registry
  shows every row, deleted ones as closed; what is asked is the meaning of the one request in
  flight, what is told its outcome. `Receive` is `Ask`; each step that answers is `Serve`
  (`Insert` opens, the `Write` that restores reopens, other writes amend or close, a failed lookup
  refuses); a fault is `Fail`, a restart `Forget`. The two lookups, the probes and the first
  statement of `save()` are steps the registry does not see, nor does it see statuses.

### DexAccountsProofs

`TypeCorrect`, `StatusSupported`, `DeletionsByOwner`, `RevivalsOvertaken`, `WalletsStay`: the
properties of `dex_accounts`, for any number of requests. The argument is that of
`CexAccountsProofs`; `softDelete(id)` is safe because the entity found for the owner keeps its
id, and the row of that id keeps its owner. For `RevivalsOvertaken` an invariant says that a
handler that has yet to compare holds a live entity of a live row, or is in `overtaken`, and that
one which will write `deletedAt` was overtaken before it compared.

### AuthProofs

`TypeCorrect`, `HolderOwnsToken`, `SeedCompletes`: invariants, from `IInv`.
A token names an id, and ids of removed users are not used again, so `IInv` says of every
token and of every request on its way through the guard which user it belongs to: one whose
password, which no step changes, is the one the token was given for, or one who is gone. Of
the seed script it says that each row it has passed is in the table as the seed wrote it, or was
found taken. That no two users share an address or a name is part of `IInv` (`TableOK`).

`SuccessDeserved` and `RefusalDeserved` are about the moments between arrival and answer: for
each step of each handler `IInv` is extended by what the lookups so far have shown, and that
`seen` holds the answer that was right when they ran.

### SessionCacheProofs

`TypeCorrect`, `ActivityKept`, `EndedStay`, `AbandonedExpire`, `ListingsFair`: all properties
of `session_cache`, for any number of requests, sessions and broken connections. All are about
what is stored, and that is decided by commands issued long before. `Inv` says what each
means for the commands in the pipeline, of which Redis has executed a beginning and may
execute it again:

- `Stamps`: activity times in the pipeline are not behind one already answered and not taken
  back by a caller, and what an executed one left in the store is what some write not before it
  writes. Executing the beginning a second time passes through older times, but none older than
  an answered one.
- `Deletions`, `EndedGone`: a deletion that is executed lasts until a write issued after it;
  a session that ended is in no write, no reply and no request that would write it back.
- `Expiries`: expiry is at most a lifetime after the last answer to a writer, or some writer is
  still waiting.
- `Listings`: each session active throughout a listing is found, still to be asked for, or
  asked for by a command whose reply, once executed, has it.

### AccountListingProofs

`TypeCorrect`, `NothingRepeated`, `NothingMissed`, `PagesFit`: all properties of `listing`, for
any table, page size, number of writes and query the service honours (`Honoured`). The argument
counts the accounts that come up to (sort no later than) another one. A statement puts what it
selects in a strict order as long as nothing ties, so k accounts come up to the k-th
(`CountUpto`), and behind an offset of o stands whatever more than o accounts come up to
(`PageLater`). Between two statements:

- `Placed`: no more accounts come up to a listed one than the next page skips, so what that
  page brings is not listed yet. Deletions only make fewer come up; an account that enters, or
  moves, breaks it, and sets a flag.
- `InOrder`, `StillMeant`: the next page therefore sorts behind what is listed, and what is
  listed is still meant unless it left.
- `Gapless`: no fewer accounts come up to the listed ones than the next page skips, and those
  of them that were meant all along are listed, so that the page skips nothing that is not;
  or all is listed. When something is not, the total exceeds offset plus limit, and the
  division that rounds up (`RoundedUp`) makes for one more page (`CountGapless`).

`NothingMissed` assumes that walks start at the first page (`FromTheFirst`: the offset of each
query a client starts with is 0): accounts on earlier pages are not missed by a walk that never
asked for them.

### TokenBucketProofs

- `TypeCorrect`: `Spec => []TypeOK`.
- `RateBounded`: `Spec => []RateBound`. The bound is not inductive, since it says nothing of
  the tokens left. `Covered` does: what was granted in the window plus what a refill would
  leave now is at most the capacity plus the gain of the window. A grant moves tokens from
  the second term to the first, a tick adds at most the gain to the second, and setting the
  clock back only makes `Refilled` smaller, because `lastRefillTime` never lies behind a
  refill already credited.
- `LazyIsEager`: with `BackSteps = {}`, `Spec => ImplementsEager`. Two more invariants carry
  it: callers in the chain are exactly the queued ones, and the last refill is not in the
  future. With a clock that is set back the statement is false: time that the clock repeats
  is not credited.
- `HintsSuffice` (with `BackSteps = {}`) and `HintsAreTight`: a millisecond after the wait a refusal
  names the bucket covers the call, and two milliseconds before it does not; between lies what
  the rounding of doubles may decide. `EnoughInv` and `TightInv` follow the bucket from the refusal
  on: at each moment it holds what the call lacked, less the gain of the milliseconds still
  to wait, up to one. They rest on bounds of the division that rounds up.

### Model-checked only

- Liveness under fairness (`EveryRequestEnds`, `EveryCallAnswered`): tlapm does not reason
  about fairness.
- The four properties that are violated.

## 5. What disagrees with the code's own comments

1. A stale `save()` undoes a soft delete (`cex_stale_save`).
2. `consumeOrWait` returns without waiting or consuming (`bucket_wait`).
3. A taken address may end in a database error, not a `ConflictException`
   (`auth_register`).
4. Every account is stored under the owner "undefined" (`accounts_api`): the controller reads
   `request.user.userId`, the guard leaves an entity whose column is `id`. With `id` in
   `OwnerOf` the run finds nothing.
5. The settings a wallet is created with are dropped (`NewAccount` of `DexAccounts`): the
   creation DTO offers them, the entity has other column names. A single step shows it, so
   there is no run.
6. Listings (`AccountListing`): a query string sorted "desc", as the DTO documents it, comes
   in ascending order; the default direction "DESC" is refused by the DTO's own validator;
   `dailyApiUseCount` and `totalTradeCounts` are offered for sorting and are no columns; the
   CEX service ignores the filters by health and date that its DTO documents; `enabled=false`
   lists the enabled accounts wherever a pipe builds DTO instances, because `@Type(() => Boolean)`
   makes the string true; a validating pipe refuses every `blockchainWebsiteId`; `page` of a
   response to an explicit offset is always 1. `Honoured` leaves the first, the fourth and the
   fifth out of the properties.
7. A restored account keeps the deleted one's allow flags and settings where the creation leaves
   them out, although the DTO and the columns say the flags default to false; a creation that finds
   no deleted account gets the defaults. `Restored`, and `Reopened` of the registry, say so.
8. The migration creates `cex_accounts_management` with a unique index on slots, the entity maps
   `cex_account_management` with a key that contains the API key's hash: under the entity's, two
   concurrent creations leave two live accounts in one slot.

## 6. Plan

Done: `CexAccounts` with `AccountRegistry`, `TokenBucket` with `EagerBucket`, `Auth`,
`DexAccounts`, `SessionCache`, `AccountListing`, `AccountsApi`, and proofs of every safety
property of their runs that holds. Next: what each run that finds a violation would satisfy if
the code did as its comments say (`accounts_api` with `id` in `OwnerOf` first), proved for the
composition.

## 7. Not modelled

- Configuration parsing and the entity declarations of the contract trading tables: data,
  read by no code that could go wrong with it.
- The exchange adapter base: its retry loop is unfinished (`for ()` does not parse), so
  there is no behaviour to translate; what the bucket would do under it is `TokenBucket`.
- AES-GCM, PBKDF2, bcrypt and JWT signatures: library code, represented by what they
  guarantee. Running the migrations: TypeORM's.
- Health checks, `exists`, `expire` and `ttl` of the cache, log messages, response mapping:
  single calls without state of their own.
- The kernel, events, middleware, utilities, `app.ts` and `server.ts`: empty files.
