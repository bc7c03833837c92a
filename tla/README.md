# RCProtocol: a verification project

RCProtocol gives luxury goods an NFC tag and a life recorded by a platform: an asset is minted,
activated, sold, transferred, possibly frozen by a moderator, and consumed or condemned. The core is
in Rust (`rust/`, an axum service over PostgreSQL and Redis), surrounded by Go services (`services/`)
and two front ends. Paths below are relative to `src/`.

This directory holds TLA+ modules translated from that code, TLC configurations that check them on
small instances, and proofs checked by TLAPS.

## 1. Inventory

| component | state | operations | interacts with |
|---|---|---|---|
| **rc-core**: `protocol.rs`, `state_machine.rs`, `permissions.rs` | none (pure) | `apply_action`, `next_state_for_action_with_previous`, `can_role_initiate` | called by every asset handler |
| **rc-api db** (`db/mod.rs`) | tables `assets`, `asset_state_events`, `idempotency_records` | `fetch_asset`, `load_idempotency_record`, `persist_action` (one transaction) | shared by all handlers and instances |
| **asset actions** (`routes/protocol.rs`) | one request each | `execute_asset_action` behind eleven routes; `activate` and `activate-entangle` of their own | rc-core, db |
| **verification** (`routes/verify.rs`, `cache/ctr_cache.rs`, `db/assets.rs`) | counter of the tag in the row (L3), in Redis (L2), in each process (L1) | `get_ctr`, replay check, `update_asset_ctr`, `update_ctr` | several instances over one row and one Redis |
| **transfer** (`routes/transfer.rs`, `db/transfers.rs`) | `asset_transfers`, and `assets` directly | create, confirm, reject | the same rows as asset actions, without `persist_action` |
| **activation and mother cards** | `asset_commitments`, attestations, `authority_devices`, `asset_entanglements` | `activate`, `activate-entangle`, physical registration | chains of single statements, then `persist_action` |
| **authority verification** (`auth/authorization.rs`) | `authority_devices.last_known_ctr` | virtual credential, physical tap (compare-and-set) | transfer |
| **wallet snapshot** (`cache/wallet_snapshot.rs`, CLI) | Redis sorted set and hash per user | add, remove, read-through, rebuild | `persist_action` computes its parameters and discards them |
| **counter calibration** (`cli/ctr_calibrate.rs`) | none | compares L2 and L3 and overwrites one of them | runs next to verifications |
| **brands, batches, API keys** (`routes/brand.rs`, `routes/batch.rs`, `db/brands.rs`, `db/batches.rs`) | their tables | registration, key rotation, batch open and close, lists | PostgreSQL only |
| **authentication** (`auth/`) | none; reads `api_keys` | API key or token to an `ActorContext` | in front of every route |
| **attestations, rc-crypto, rc-kms** | none | encodings, signatures, CMAC, key derivation | called by the above |
| **go-webhook** | `webhook_deliveries` | several workers poll, send, mark | subscribers over HTTP; nothing creates a delivery, and none could be sent (section 5) |
| **go-workorder** | `workorders` | create, assign, advance, close, cancel | executes conclusions in rc-api over HTTP |
| **go-gateway, go-bff, go-iam, archived go-approval, front ends** | sessions, organisations, rate limiters, views | routing, composition, administration | no protocol state |

What is hard: nearly every handler is *read, decide, write* over several awaits with no lock and no
condition in the final UPDATE; clients retry after lost answers under an idempotency key; processes
die between statements; three levels of cache answer without asking each other. `PROJECT.json` lists
these hazards line by line, with the property that covers each, or why there is none.

What makes each component correct: rc-core and the handlers, that terminal states are final, freezes
hold, one key is one execution, log, row and owner agree; verification, that a repeated counter is
flagged and a fresh one never; transfer, that the asset is with whom the record says; activation,
that evidence precedes the record of it, a failed attempt can be repeated and a reader sees it whole; the wallet
snapshot, that it shows nothing foreign and heals; brands, that no rotation locks a brand out and no actor
sees past his brand.

## 2. Modules

| module | what it is | code |
|---|---|---|
| `AssetProtocol` | operators only: states, roles, actions, `NextState`, `CanRoleInitiate`, `ApplyStatus` | rc-core, `rc-common/src/types.rs` |
| `AssetLifecycle` | the abstract specification: a set of assets, atomic steps, nobody refused | what rc-core and the documents promise |
| `AssetStore` | the tables and their statements; `PersistAction` is the transaction | `rc-api/src/db/mod.rs` |
| `ActionHandler` | one process per HTTP request over `AssetStore`; refines `AssetLifecycle` when requests do not overlap | `execute_asset_action` |
| `Transfer` | transfers and their settlement, composed with `ActionHandler` on the same rows | `routes/transfer.rs`, `db/transfers.rs`, `auth/authorization.rs`, `db/authority_devices.rs` |
| `CtrCache` | the counter buffer and the verifications that use it | `ctr_cache.rs`, `verify.rs`, `db/assets.rs` |
| `CtrCalibrate` | an operator's calibration composed with `CtrCache` | `cli/ctr_calibrate.rs` |
| `KeyDerivation` | operators only: which keys and messages go into which code | rc-kms, rc-crypto |
| `Activation` | both activation handlers over `AssetStore` and `KeyDerivation`, with retries and restarts | `routes/protocol.rs`, `asset_commitment.rs`, `attestation_*.rs`, their tables |
| `Verification` | verifications, the protocol view and the asset detail, composed with `Activation` | `routes/verify.rs`, `routes/assets.rs`, `db/assets.rs` |
| `WalletSnapshot` | the Redis wallets, their readers, reporters and repairers | `cache/wallet_snapshot.rs`, `cli/wallet_snapshot_cli.rs` |
| `Brands` | authentication, brands, API keys, batches and the brand boundary | `routes/brand.rs`, `routes/batch.rs`, `db/brands.rs`, `db/batches.rs`, `auth/` |
| `MC...` | the inputs and symmetry of the instances TLC checks | |
| `AssetLifecycleProofs`, `ActionHandlerProofs`, `SequentialProofs`, `TransferProofs`, `CtrCacheProofs`, `BrandsProofs`, `WalletProofs`, `VerificationProofs` | theorems | |

Operators named as mutants in a comment (`PreviousAfterKept`, `DecideStrict`, ...) are not part of any
specification: each is a plausible mistake in the definition after it, against which a property was
tried (`mutants` in `PROJECT.json`).

### ActionHandler

A request goes `idle -> load -> fetch -> persist -> done`, one action per database call, because
every await lets other requests run:

* `Receive`: the check for a buyer that precedes everything;
* `LoadMiss`, `LoadHit`: `load_idempotency_record`; a hit answers from the record or conflicts;
* `Fetch`: `fetch_asset`, the override by the body's `previous_state`, and `apply_action` on the result;
* `Persist`: the whole transaction of `persist_action`. It is one step: its first write takes the row
  lock and keeps it, nothing read before it in the transaction decides what it writes, and the key is
  inserted `ON CONFLICT DO NOTHING`. The commit may go unacknowledged: the answer is then `Database`
  though the event is there;
* `Fail`: an error, a dropped connection or a crash between two calls.

State: `assets`, `events`, `idempotency` are the tables; `pc`, `input`, `read`, `answer` the locals of
the handler. `origin`, `fresh` and the fields `by` and `at` of an event are ghosts: the rows at the
start, whether the key was unknown when the request came in, who wrote an event and how many events
were committed when its writer read the asset. A response snapshot is modelled as the number of the
event it describes. The request hash is the record of the fields `build_request_hash` formats; actor and
buyer are not among them. The policy version is left out (it is treated exactly as the trace id).

Three actions of the state machine have no route to `execute_asset_action` (`HandledActions`). The
initial rows are those that completed actions leave behind (`SoundRow`). The transfer route also leaves
`Transferred` rows with a remembered previous state; `Transfer` reaches those by its own steps.

### Transfer

`Transfer` extends `ActionHandler`: a request is an asset action, a transfer or a settlement, and all
of them work on the same `assets` and `events`. A transfer goes
`asset -> owner -> device -> tap -> give -> insert -> log -> done`, one action per statement of
`transfer_handler` and of the functions it calls; there is no transaction, so every prefix of the chain
may be all that happens (`Abandon`), and each write may be committed without the handler hearing of it.

* `ReadAsset`, `ReadOwner`: `fetch_asset` and the separate `SELECT owner_id`, with their refusals;
* `ReadDevice`: the mother card and the checks on it. A virtual credential is accepted here; the tap of a
  physical card passes the early counter check and goes on to `Tap`, the compare-and-set of `atomic_update_ctr`;
* `GiveAway`: the UPDATE of state, previous state and owner, with no condition but the asset;
* `InsertTransfer`, `LogTransfer`: the record, and the audit event at best effort;
* `StartSettlement`, `FindTransfer`, `Settle`: confirm and reject, which differ only in the status they write.

State: `devices` and `transfers` are the tables, `stage`, `move`, `local`, `verdict`, `reply` the
locals. Ghosts: `version` counts the UPDATEs of a row, `seen` is the version a request read, `moved` holds
the requests that gave an asset away, the field `by` of a record who inserted it. Left out: the child
tag (its counter is not recorded by this route, so its check has no state), the type of a card never changes, and a
record a client settles exists (an unknown one is a refusal without effect). The idempotency key reaches
the event and decides nothing, as in the code, and `asset_transfers` has no unique index on it.

`FreshStepsAreLegal` compares with `AssetLifecycle` through `Recorded`, which ignores `previous_state` unless
the asset is frozen: `GiveAway` leaves the old state there.

### CtrCache

A verification goes through `get_ctr` (map, Redis, row), the comparison, the unconditional UPDATE and
the two cache writes, one action per await. A reply carries the value of the moment it was read; the map is
filled later, when the reply is handled. `ExpireL1` and `ExpireL2` stand for time to live, eviction and
a Redis restart; `Crash` takes an instance's map and its verifications; `SetL2` may be lost when Redis
fails. A write in flight when its instance dies counts as done or as lost at that moment. `acked`,
`floor` and `committed` are ghosts. Tags do not interact (every key and WHERE is the uid or its asset),
so one tag is modelled. The CMAC is taken as valid: other taps are answered before the buffer is read.

### CtrCalibrate

The tool runs next to the verifications: `StartRun`, `ReadPg`, `ReadRedis`, then the list of writes its mode
has decided on (`Plan`), one `Write` each, with nothing checked again before it. `EndRun` stands for the
end of the tool and for an operator who interrupts it. A failed SELECT ends a batch and counts as no
value for a single tag, a failed GET always counts as no value, and a failed write is passed over.
`undisturbed` is a ghost: nobody else has written either level since the run began. `Threshold` is `AUTO_SKIP_THRESHOLD`.

### Activation and Verification

`activate` goes `load -> fetch -> map -> commit -> bind -> brand -> platform -> persist`,
`activate-entangle` `load -> fetch -> card -> entangle -> persist`, one action per statement. Only `Persist` is
a transaction (that of `AssetStore`), and the idempotency key is part of it alone: whatever comes before it stays
when a request fails. `Fail` drops a handler anywhere, `Restart` drops them all and may bring other
signing secrets (`config`), `Retry` sends a request again under its key. A commitment is the record of the
fields its id is a hash of, the uid in upper case, the product id trimmed; an attestation carries the secret it
was signed with; a card is numbered as it is drawn, and its credential is `Hmac` of a key derived from
the first seven bytes of its uid (`MotherKey`), as in `rc-kms`.

A scan reads the row first (`ReadTag`, `ReadView`, `ReadDetail`) and the commitment, the two attestations and the
card in later steps. The replay check is a choice here, because `CtrCache` is about it. Both modules share their state, so
that evidence can change between two reads of a scan. `overlap`, `rekeyed` and `expected` are ghosts.

`RetriesSettle` says exactly what can be stuck: an `activate-entangle` whose card was entangled before its
action was persisted meets the unique index on every retry. That is what the code does; no document of the repository
promises otherwise, so it is an exception in the property and a hazard in `PROJECT.json`.

### WalletSnapshot

A task is one call of `on_asset_state_change`, `get_assets` or `rebuild_from_pg`, or one purge, with one Redis command or
SELECT per step; a command may fail with or without having taken effect, and `OnError` says where the code
goes on. `get_assets` that misses answers from PostgreSQL and goes on as the rebuild it spawns. No handler calls
`on_asset_state_change` today (`persist_action` computes its parameters and discards them), so an owner
changes with a report (`Move`) or without (`MoveUnreported`). A read is of one page: `OnPage` is how many rows LIMIT and OFFSET leave,
`PageOf` which rows they may be, for the order by `created_at` is left open (PostgreSQL has it finer than the seconds in the scores). The rebuild
follows a page from PostgreSQL only if there is something on it. A page behind the last member of a set is empty and an answer (the comment at
`wallet_snapshot.rs:82` has it answered from PostgreSQL, the one at line 112 and the code do not). Left out: scores and `updated_at`, which nothing reads.

### Brands

A request is authenticated first, by an API key looked up in the table or by the claims of a token, and goes on as the
actor that gave; a key that is revoked later changes nothing for it. Reads answer in one step. A registration is
look-up, BEGIN, INSERT (which waits for an open transaction with the same address), COMMIT; a rotation is BEGIN, SELECT of
the newest active key, UPDATE (which waits for an open transaction that has revoked it, and then
writes whatever the status has become), COMMIT. The rows of a transaction appear with `Commit`, whose answer may be
lost. `clock`, `began` and `ended` order BEGINs and COMMITs; `ended` is a ghost, `began` is `created_at`. The unique brand name, limits of
pages and totals of lists are left out. Batches follow `deploy/postgres/init/001_init.sql`, which has the columns the
code uses; the table of the Rust migrations lacks some of them.

## 3. Runs

| run | instance | shows |
|---|---|---|
| `ActionConcurrent` | 1 asset, 2 users, 2 keys, 2 overlapping requests out of all duties, refusals, named recoveries and retries under another trace | what holds under every interleaving, failure and lost commit: `AuditExplainsSteps`, `RowMatchesAudit`, `FrozenIsRecoverable`, `RetryNeverReexecutes`, `AnswersAreTrue` |
| `ActionSerial` | 3 requests, one after the other, 2 keys | `TerminalIsFinal`, `FreezeBlocksBusiness`, `OneExecutionPerKey`, `OwnershipCoherent`, and that the handler implements `AssetLifecycle` |
| `ActionTerminal` | 2 overlapping requests | **violated**: an event after a terminal state |
| `ActionKeyTwice` | 2 overlapping requests | **violated**: one key, two executions |
| `ActionRecover` | 1 request | **violated**: a recovery led by the body and not by the database |
| `TransferRaces` | 1 asset, 2 users, 3 requests: transfers by tap or credential, settlements, at most 1 asset action; counters 0..1 | `TapMovesOnce`, `RecordsAreBacked`, `SettledAsAnswered`, and `FreshStepsAreLegal`: an UPDATE over a row unchanged since it was read is a lifecycle step |
| `CtrConcurrent` | 1 instance, 2 verifications, counters 0..2, Redis failing, crashes; one calibration in any mode, threshold 1 | `CachesHoldCommitted`, `FlagIsJustified`, `CalibrationKeepsMax` |
| `CtrSerial` | 1 instance, 3 verifications in sequence, counters 0..3 | `RepeatIsFlagged`, `BufferKeepsUp` |
| `CtrRepeat` | 1 instance, 3 overlapping verifications | **violated**: a verified counter is verified again |
| `ActivationRaces` | 2 assets (one without a tag), 2 requests out of rival activations, an entanglement, a foreign brand; the first is sent up to twice, 1 fault, 2 environments, 1 scan | `ActivationIsAttested`, `EntangledOnce`, `AnsweredCardWorks`, `ProductIsCommitted`, `RetriesSettle`, `AuthenticIsAttested`, `ActivationIsSeenWhole` |
| `WalletRaces` | 2 users, 2 assets, 2 tasks, pages 0 and 1 of one row each, 1 change of owner, 1 failing command | `NeverForeign`, `NothingSoldStays`, and under fairness `SnapshotHeals`: a last rebuild, or a last read that finds no set but rows on its page, mends set and count |
| `BrandKeys` | 1 seeded brand with or without a key, 2 spellings of an address, 3 requests, at most 1 of them a read | `AlwaysAKey`, `OldKeyDies`, `EmailOnce`, `BoundaryHolds`, `ClosedByOne` |

The four violated runs check sentences of the repository's documents and comments, quoted in
`PROJECT.json` under `findings`. The first two have one cause, the third a line of its own, the fourth the
missing condition in `update_asset_ctr`.

**Bounds.** Initial rows are arbitrary sound rows in every state, so a run need not walk the
business path to reach a state and two or three requests are enough for what can go wrong: a race needs
two, a repeat after a race three. One asset: rows of different assets share only the key table, and a
key used on two assets is a hash conflict just like a key used for two actions. `MaxCtr` bounds the
counter (24 bits in the code, never near overflow of the INTEGER column). `MaxActions` bounds how many of
the requests of `TransferRaces` are asset actions: races among asset actions are the business of
`ActionConcurrent`. Its asset actions are the end of use, a freeze and a recovery: each can take the asset from under a transfer, and the verdicts do it as the
end of use does. Its transfers go to another user. Nor does `ActionSerial` tell the three verdicts apart: one stands for them. `ActivationRaces` bounds
faults (`MaxFaults`) and, per request, tries (`MaxTries`): the request that arrives first is the one sent again, so it can be sent
more often than anything goes wrong, which is the premise of `RetriesSettle`. Its uid is stored as it is committed to,
because only then can a scan find a commitment that is not bound yet. `WalletRaces` has a change of owner and a failure
(`MaxMoves`, `MaxFaults`) to tear set, count and row apart and a second task to meet or to mend them; a page has one row (`Pages`, `PageSize`), so that
a user may have an asset and the page read lie behind it. `BrandKeys` needs three requests: two that race
and one that uses what they left; reads change nothing, so one (`MaxReads`) is enough; its batches are made by the key of a brand, which may be revoked on the way, and closed by it or, in vain, by the token of another brand. `CtrConcurrent` has one
calibration (`MaxRuns`) and one instance; more instances are covered by the theorems of `CtrCacheProofs`.
The theorems below remove the bounds of the modules they are about.

**What a precondition leaves out.** The properties of `ActionSerial` and `CtrSerial` are false of overlapping requests (with `Serial = FALSE` TLC
violates each of them), and these runs exclude the overlap. `ActionTerminal` shows the race behind `TerminalIsFinal`, and by the same unconditional UPDATE
behind `FreezeBlocksBusiness`, `OwnershipCoherent` and `ImplementsLifecycle`; `ActionKeyTwice` the one behind `OneExecutionPerKey`, `CtrRepeat` the
one behind `RepeatIsFlagged` and `BufferKeepsUp`. What the serial runs show is that no sequence of legal calls, with failures and
retries, breaks them. `CalibrationKeepsMax` speaks of runs no verification has overtaken: the tool writes the larger
of two values read before, and may put it over a newer one. `NothingSoldStays` speaks of the set while nothing fails and every change is reported; the
count, failures and unreported changes are the business of `SnapshotHeals`. That `PersistAction` is all or nothing is PostgreSQL's doing and
assumed; what is checked is that answers and retries fit it.

**Fairness.** `SnapshotHeals` assumes weak fairness of the steps of each task, `WF_vars(Run(t))`: Tokio polls a task that can go on, and
a Redis command or a SELECT ends, with a reply or with an error. Nobody is assumed to start a task. The property says what the last
task does once changes and failures are used up, so it does not ask for a repair nobody triggers. Nor does it ask for one of a read whose page is
empty: `fetch_assets_from_pg` spawns a rebuild only for a page with rows (`wallet_snapshot.rs:154`), so a wallet without a set, read behind its
last asset, stays without one. `docs/ops/wallet-snapshot-rebuild.md:134` promises the rebuild of any query that finds no snapshot; the code keeps less
than that, and the property claims what the code keeps. All other properties are safety properties, in which processes may stop anywhere.
Deadlock checking is off in every run because the system really stops: each request ends once.

## 4. Proofs

| theorem | says | under |
|---|---|---|
| `ActionHandlerProofs!Invariance` and the six that follow from it | the six properties of `ActionConcurrent` | the named constant assumptions only |
| `SequentialProofs!SequentialInvariance` and five that follow | the properties of `ActionSerial`, among them `Implements` | `SequentialClients`: `Serial`, and no request carries `previous_state` |
| `TransferProofs!TransferInvariance` and the five that follow from it | the properties of `TransferRaces` | the named constant assumptions only |
| `AssetLifecycleProofs!Lifecycle...` | the abstract lifecycle keeps owners coherent, terminal states final, freezes tight | None is no user |
| `CtrCacheProofs!Invariance` and three that follow | the verifications of `CtrConcurrent`, without the calibration tool | the named constant assumptions only |
| `CtrCacheProofs!CalInvariance` and four that follow | the properties of `CtrConcurrent`, the tool at work | the named constant assumptions only |
| `BrandsProofs!BrandsInvariance` and six that follow | the properties of `BrandKeys` | the named constant assumptions only |
| `WalletProofs!WalletInvariance` and three that follow | the safety properties of `WalletRaces` | the named constant assumptions only |
| `VerificationProofs!ActivationInvariance` and the five that follow from it, `ScanInvariance` and the three that follow from it | the properties of `ActivationRaces` | the named constant assumptions only |
| `VerificationProofs!ScansOnlyRead` | `Verification` implements `Activation` | the same |
| `CtrCacheProofs!CalmInvariance` and two that follow | the properties of `CtrSerial` | `Calm`: `Serial`, Redis does not fail, one instance |

*ActionHandler.* The properties are not inductive. The strengthening ties each request in flight to the
log: what a request read is the state of the asset when so many events were committed, its key
record exists or it may still insert it, and each key record points at the first event of its key. Then
`Persist` is the only step with work to do, and there `NextState` on a state the asset was really in gives a legal
step. `SequentialProofs` adds that with one request in flight nothing is committed between its `Fetch` and
its `Persist`, so the state read *is* the row: every handler step is then a step of
`AssetLifecycle` or a stutter.

*Transfer.* A request past `Tap` holds a counter that its card has reached and that no other request past
`Tap` holds: the compare-and-set is what keeps this, the early check is not used. Each record belongs to
one request past `insert`, and no later step of that request inserts again. For `FreshStepsAreLegal` the invariant says
what a request in flight knows *if* the version it read is still current: the row is as it read it and passed
its checks (`TransferReads`, `ActionReads`). Every UPDATE raises the version, so the premise is lost exactly
when somebody else has written. What remains false of the code, under overlap only, is what `ActionTerminal` shows.

*CtrCache.* Every value on its way (`seen` of a verification that is to fill a cache, `ctr` of one that
has committed) is a value the row has had. Under `Calm` every value present is the row's own, except
between a verification's UPDATE and its two cache writes, where the stale level is its own to mend.

*CtrCalibrate.* The tool only ever carries committed values, unless the operator has set one. `CalibrationKeepsMax` speaks of the
end of a run; the invariant (`ToolKeepsMax`) says what an undisturbed run has left at each point: one write, which puts the larger
value it has read into the other level, or none. That UseMax never plans two writes is a lemma (`MaxShape`).

*Brands.* A request keeps what its checks have shown although the key it came with may be revoked since: `Authorized` says what an
actor of a brand has passed at each stage, `NoTrace` that a transaction under way has shown and written nothing. For `AlwaysAKey` the
key a rotation revokes is one of the brand it makes a key for (`KeyHeld`), so the commit that takes one gives one. `OldKeyDies` needs
`Overtaken`: whoever still means to revoke a key that another rotation has revoked began before that one ended, because its SELECT saw
the key active. `EmailOnce` needs `AddressHeld`: the address of an open registration is in no row and in no other open
registration, which is what the unique index enforces by making the second INSERT wait.

*WalletSnapshot.* What a task carries from one command to the next (`Fit`) was owned by the user it carries it to: the rows of
its SELECT, or the asset of its report. That ownership is only ever gained in `ever` makes this stable against everybody else. `NothingSoldStays`
is about moments when nothing runs; the invariant (`Tidy`) says of every moment that the only member of a set which its user does not own is the one that
the open report is about to remove, and that rows and reports are current (`Current`).

*Activation and Verification.* No statement deletes evidence, a card or an entanglement, so a request at a stage after an INSERT finds what it has
inserted (`Evidence`, `CardHeld`), whoever else is writing and however often it failed before. `ActivationIsAttested` follows where `Persist`
makes the event. For `EntangledOnce` the invariant counts who may still make one: an asset is entangled before it has the event and with
the card of the event (`CardOfEvent`), and of the requests past the entanglement at most one is of that asset (`OneHolder`), because the second
INSERT meets the unique index. A replayed answer is true because each key record points at an event of a request with its hash
(`Recorded`, `Answered`), and a hash tells an activation from an entanglement. `ProductIsCommitted` needs what a request alone
on the platform has left so far (`Undisturbed`); with a second one open, `map` and `bind` may be of different requests, and the property says nothing.
`RetriesSettle` is a matter of accounts: each further try was paid for with a fault, or the asset is entangled (`Paid`). A scan
may rely on whatever it has read of the evidence, for it only grows (`EvidenceGrows`). What `Authentic` and `SeenWhole` say at the end
is collected read by read (`GenuineTap`, `RowStored`, `FoundStored`, `SeesWhole`), and signatures verify because every
attestation is of the brand of its commitment and, until a restart changes them, of the secrets in force (`Signed`). A tap with
a forged code does not get that far, because a forger's key is of no brand (`ForgerAssumption`).

**Only model-checked**: the four violations.
**Out of the provers' reach** and left to TLC: the liveness property `SnapshotHeals`, and ENABLED. No module has a recursive definition.

## 5. Not modelled

Per component in `PROJECT.json`. In short:

- the algorithms of rc-crypto and rc-kms and all encodings: `KeyDerivation` and `Activation` take codes, hashes and signatures as injective
  records of what goes into them. Honey keys, zeroing of keys and the loading of the root key have no protocol state;
- signature and expiry of a JWT, HTTP parsing, headers beyond their presence, pages and totals of lists, names and logos of brands;
- the registration of a physical mother card: its statements use columns of `authority_devices` and `asset_entanglements` that no
  migration defines, so there is no schema to model it against;
- `db/products.rs`, which no route calls;
- webhooks: `trigger_asset_webhook` of rc-api and `EnqueueWebhook` of go-webhook have no caller, so nothing creates a delivery. One put into the table by
  hand could not be sent: `events` is a `TEXT[]` (`deploy/postgres/init/001_init.sql:59`), `FetchWebhookConfig` parses it as JSON
  (`queue/db.go:112`), and the error comes before the request and before anything is written of the attempt;
- the Go services for work orders, sessions, organisations, routing and views: they reach the protocol's state through the routes of rc-api, which are
  modelled, with requests that the models allow in any order;
- the front ends and the deployment, except for the constraints of the schema.

## 6. Plan

Modelled, checked and proved: `AssetLifecycle`, `ActionHandler`, `Transfer`, `CtrCache` with `CtrCalibrate`, `WalletSnapshot`, `Brands`, `Activation` with
`Verification`. What is left: `Workorder` over the answers of rc-api. Webhooks would come after that, once something creates deliveries and
`FetchWebhookConfig` can read a configuration.

Also open: the key of a transfer, which `docs/engineering/technical-solution.md:566` wants idempotent and
the code never looks up.
