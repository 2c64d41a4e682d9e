# Verification of SoftConnect Hub

SoftConnect Hub (NestJS, PostgreSQL through Prisma, Redis, BullMQ) gives several products one API
over several Evolution servers, each of which runs WhatsApp sessions. Several replicas of the Hub
share one database. What is hard in it is not a computation but agreement between three parties
that fail on their own: the Hub's tables, the remote provider, and the products behind webhooks.

This directory models that agreement in TLA+, from the registry of providers down to one HTTP call,
checks it with TLC on small instances and proves its invariants and action properties with TLAPS for
every value of the constants. `PROJECT.json` maps every
definition to the lines it stands for and lists the runs, the theorems and the hazards.

## 1. Inventory

Paths are below `src/src/`. "Must hold" is what makes the component correct.

### Creation of an instance - `modules/instance/instance.service.ts`, `modules/provisioning/evolution-provisioning.service.ts`
- **State**: a ticket (`InstanceProvisioning`: `state`, `leaseOwner`, `leaseExpiresAt`,
  `instanceId`, `providerInstanceId`, `payload.webhookApplied`), the `Instance` row, and the session
  on the provider. Two partial unique indexes over the open tickets, two over the rows.
- **Operations**: `prepare` (three unlocked reads and a transaction that reserves), `markCreating`,
  the remote create, `recordCreated`, the defaults (webhook), `markWebhookApplied`, `finish`;
  compensation by `markCleanup`, remote delete, `removeConfirmed`; `abandon` in the `finally` block.
- **Interaction**: every transaction locks product and provider rows; every remote call is made
  outside of a transaction, under a time budget (`QrRequestContext`) 5 s shorter than the lease.
- **Hard**: the caller leaves, the process dies, or the answer is lost between any two steps; a call
  given up may still take effect.
- **Must hold**: no session is lost from sight; a name is never given to two creations; a committed
  instance has its required webhook; a row is dropped only when its session is gone; what ended
  stays ended.

### Recovery - `modules/provisioning/evolution-recovery.service.ts`
- **State**: a timer per replica; claims tickets by owner and lease.
- **Operations**: `scan`, `claim` (which releases unsent reservations), `recover`: look the session
  up, prove that it is the ticket's, resume or compensate.
- **Hard**: it races the request it replaces, other replicas, operators who create and delete
  sessions by hand, and its own deadline between a check and an effect.
- **Must hold**: it never adopts a foreign session, never repeats a create, and finishes what can
  be recognized.

### Deletion and import - `InstanceService.deleteInstance`, `prisma/evolution-links.ts`, `modules/admin/instances`
- **Operations**: the client's delete (row read, guard, remote delete by name, row removal); the
  import of an existing session into a product.
- **Must hold**: neither takes a row or a name from a creation in progress.

### Capacity and inventory - `evolution-inventory.service.ts`, `evolution-occupancy.ts`
- **State**: `EvolutionInventoryEntry` rows, `inventoryRevision`, `occupancyRevision`,
  `inventoryRefreshedAt`; a reconciliation with its own lease.
- **Operations**: refresh (lease, collect, write if the occupancy revision did not move), read,
  compute the occupancy of a provider, admit a creation under `maxInstances`.
- **Hard**: the snapshot is older than the decision; tickets open and close while it is collected.
- **Must hold**: reservations and sessions together never exceed the maximum; a stale snapshot is
  never taken for a fresh one.

### Webhook relay - `modules/queue/relay-ingress.service.ts`, `relay.worker.ts`
- **State**: `PendingRelayEvent` (state, payload, evidence), a scan cursor per replica, jobs of a
  BullMQ queue under the event's id.
- **Operations**: reception and attribution to an instance or to an open creation, persistence,
  publication, recovery scan, delivery with retries, marks.
- **Hard**: events precede their instance, or follow its deletion and the reuse of its name;
  publication, job and mark are three separate writes; several publishers and one worker mark the
  same row.
- **Must hold**: an event goes to the instance of the session that sent it; it is published as long
  as it is due; `delivered` is final and true.

### Administrative changes of Evolution links - `modules/admin/evolutions/*`, `evolution-reversal.ts`, `evolution-setup.ts`
- **State**: `EvolutionChange` (prepared, claimed, applied), configuration revisions, callback
  readiness and tokens.
- **Operations**: diagnose, prepare, execute (claim, checks, callback synchronization), activation,
  reversal (detach, restore, retire).
- **Hard**: a change is authorized on diagnostics that age; replicas claim the same change; a remote
  callback is synchronized before it is recorded.
- **Must hold**: nothing is applied on revisions other than those checked; a change is applied once.

### Registry of providers, products and links - `modules/admin/evolutions/evolutions.service.ts`, `modules/admin/vps/*`, `modules/admin/products`
- **State**: `VpsProvider` (address, canonical endpoint, identity, limit, flags, revision),
  `ProductEvolution` links, the product's mode, default and revision.
- **Operations**: register, edit, move, limit, pause and retire a provider; attach, edit and detach
  a link; change a product's mode; the views `allocation` and `candidates`.
- **Hard**: what an edit may do depends on rows, tickets, deliveries and other records of the same
  installation; the same question (may this provider take an instance?) is answered in four places.
- **Must hold**: nothing in use is unlinked; a limited provider is the only record of its
  installation; what is shown as possible is possible.

### Health - `modules/admin/health/health-check.service.ts`
- **State**: the shared flag; failures counted in each replica's memory. **Hard**: every replica
  decides on a copy of the row, and an inventory writes the same flag. **Must hold**: a provider that
  stays down is found out, one that stays up is believed.

### Sending - `modules/message`, `modules/media`, `common/interceptors/timeout.interceptor.ts`
- **State**: slots of media requests, the context of each (who releases the slot, why it must stop),
  a temporary file. **Hard**: clients leave, bodies and requests take too long, at any step. **Must
  hold**: work and slots match; media is sent once by each execution, and not after its client was
  seen to leave or its request reached its deadline (but see section 5 for uploads that take too long).

### Batch sending - `modules/queue/batch.*.ts`, `modules/message/message.service.ts`
- **State**: batch row, counters in Redis, jobs. **Hard**: stalled jobs are executed twice; counters
  and row are written one after the other by whoever comes last. **Must hold**: what a completed
  batch says adds up.

### Evolution HTTP client - `adapters/evolution/evolution.http.ts`
- **State**: circuit breaker per provider, attempts, deadlines. **Hard**: lost answers, calls that
  must not be repeated, optional calls that must harm nothing (the default proxy of a creation).
  **Must hold**: media is not repeated; an optional call stays within its budget, leaves the circuit
  alone, and confirms only what it has read.

### Caches - `auth/apikey.guard.ts`, `auth/rate-limit.guard.ts`, `cache/*`, `resolver/instance.resolver.ts`
- **State**: copies of products and instances in Redis with a time to live. **Hard**: a value read
  before a change is stored after its invalidation. **Must hold**: a revoked key or deleted instance
  is not served beyond the bound.

### Others
- `audit/*`: a bounded buffer and its flush. Chat, settings, proxy and webhook endpoints make one
  remote call per request; users, logs and dashboard are single-row reads and writes; configuration
  and wiring are declarations.

How they interact: creation and recovery share tickets and leases; deletion, import and admission
read the same tables under the same locks; the relay reads instances and open tickets without any
lock; administrative changes refuse while tickets are open; every remote call goes through the HTTP
client, whose lost answers are what makes all of this necessary.

## 2. Modules

| module | what it is |
|---|---|
| `Provisioning` | creation, recovery, deletion and import over a remote provider |
| `CreationPromise` | the abstract specification of a creation: reserved, sent, then committed, undone or forgotten |
| `MCProvisioning` | small instances of `Provisioning` |
| `ProvisioningProofs` | type correctness, the inductive invariant and three safety theorems |
| `SessionProofs` | names are never given twice; only the owner moves a ticket while its lease runs; committed instances have their required webhook |
| `PromiseProofs` | `Provisioning` implements `CreationPromise` |
| `Relay` | reception, publication, recovery and delivery of events, over creations that follow `CreationPromise` |
| `MCRelay` | small instances of `Relay` |
| `Occupancy` | how three accounts of a provider's sessions are merged and counted |
| `Evolutions` | the registry's state, readiness, admission, and the steps of creations upon them |
| `Catalog` | the administration of providers, products and links, and its views |
| `Inventory`, `MCInventory` | collections under leases and health checks, over `Catalog` |
| `Changes`, `MCChanges` | prepared changes of links, over `Catalog` |
| `Requests` | a client's request: caches, rate, slot, instance, provider, circuit |
| `DefaultProxy` | the optional calls at the end of a creation |
| `Batches`, `MCBatches` | batches and their executions, over `Requests` and `DefaultProxy` |
| `RelayProofs` | every safety property of the relay |
| `CatalogProofs` | occupancy counts names; creations and edits keep the types of the registry: what the next two share |
| `InventoryProofs` | absent rows have no session; nothing taken is offered for import; what is shown as eligible is admitted; limits are kept |
| `ChangesProofs` | the catalogue stays in order; changes are applied on what was seen, and leave their product usable |
| `RequestProofs` | slots, media sent once, the confirmed proxy and the counters of batches, over `Batches` |

`Provisioning` is shown to implement `CreationPromise`, and `Relay` and `Evolutions` run over
`CreationPromise`: the relay, admission, inventories and changes are checked against everything a
creation may do, with none of its detail. Each `EXTENDS` adds a component to the state of the ones
below it: `Occupancy`, `Evolutions`, `Catalog`, then `Inventory` or `Changes`; and `Requests`,
`DefaultProxy`, `Batches`.

### Provisioning

A ticket, the request that drives it and the row recorded from it share one identity (`Tickets`):
a row is named after the request that inserted it, a session after the create call that made it.
Sessions an operator creates are `Foreign`. `remote` says which session holds a name on a provider.

| code | model |
|---|---|
| `prepare`: reads | `CheckPending`, `FindExisting`, `CheckRow`, `RemoveRow` (for a left-over row) |
| `prepare`: transaction | `Reserve` |
| `markCreating`, then the POST | `MarkCreating`, `Send`, `PostCreates`, `PostVoid`, `PostReply`, `PostFails` |
| `recordCreated`, defaults, `markWebhookApplied`, `finish` | `RecordCreated`, `Configure`, `ConfigureFails`, `MarkWebhookApplied`, `MarkWebhookAppliedFails`, `Finish` |
| `markCleanup`, remote delete, `removeConfirmed` | `MarkCleanup`, `DeleteRemote`, `RemoveConfirmed` |
| an exception, then `abandon` | `GiveUp`, `Abandon` |
| process death, deadline, expiry of a lease | `Crash`, `Spend`, `Expire` |
| recovery | `ReleaseExpired`, `Claim`, `FetchFinds`, `FetchMisses`, `AssertStillOwned`, then the same executor steps |
| client's delete | `ReadRow`, `AssertDeletable`, `ClientDelete`, `ClientDeleteFails`, `RemoveRow` |
| import | `ReadRemote`, `Import` |

A transaction is one action, because it locks the product and the provider first; between two
actions anything may run. Deletes given up stay in `late` and may reach the provider at any time;
a create given up stays in `flight`.

What is abstracted: which provider admission picks is part of what a request asks (`Requests`), and
every reason for refusing it (activity, links, revisions, capacity) is the action `Refuse`, whose
conditions are `Admissible` of `Evolutions`; a lease
is "running" or "expired" and runs on while its executor may still start calls, as its length is
the executor's budget plus 5 s; tokens are what they prove (`Token`), not strings.
A late write of webhook settings is not modelled.

### Relay

| code | model |
|---|---|
| the provider posts an event | `Emit` (the body names the instance, or names it and carries its remote id) |
| `accept`: two reads, then the stored row | `ReadInstances`, `Accept` (which reads the open tickets) |
| `publish` | `Validate`, `Retain`, `Add`, `MarkQueued` |
| any call that throws, or a receiver that dies | `Throw` |
| `recoverPending` | `Scan`, `Begin`, `Promote`, then `publish` for each row of the page |
| a replica restarts | `Restart` |
| the worker's job | `Start`, `WorkValidate`, `Post`, `Mark`, `WorkThrow`, `MarkFailed` |
| the queue revives a stalled job | `Stall` |

The recovery's page is the rows it read, as it read them; between two of them everything may have
moved, which is why `Promote` looks at the event again. `Retain` and the worker's marks go through
`MarkEvent`, which spares delivered events. A mark whose answer is lost counts as made and as a
failure of the job. Not modelled: the authentication of the caller (only its result, the providers
an event may come from, `Hosts`), jobs of the old format, names of events (an event filtered out is
a relay that is "off"), products and instances that are deactivated, two workers that run one
stalled job at once.

### Evolutions, Catalog, Inventory

| code | model |
|---|---|
| `occupancy`, `sameSession` | `Groups`, `Occupancy`: a fold over inventory, rows and reservations |
| `evolutionReadiness`, `assertEndpointAvailable`, `isControlledEvolution` | `Readiness`, `EndpointAvailable`, `IsControlled` |
| `prepare`: `admission`, then the reservation | `Admissible`, `Reserve`; again in `markCreating`: `MarkCreating` |
| what moves the occupancy revision | `Advance`, `RowGone` in the steps of creations |
| edits of providers, hosts, products, links, modes | `CreateRecord`, `UpdateRecord`, `UpdateHost`, `Retire`, `Attach`, `UpdateLink`, `Detach`, `SetAllocation`, `UpdateProduct`, `DeactivateProduct`, `ConfirmSetup` |
| `allocationView`, `candidates` | `Eligible`, `Candidates` |
| `pendingProvisionings`, `pendingDeliveries`, `detachBlockers`, `legacyBlockers`, `removal` | operators of the same names |
| `refresh`: begin, collect, write or fail | `Begin`, `Collect`, `Write`, `Fail`, with `LeaseExpires` and `Crash` |
| the health check of a replica | `CheckBegins`, `Ping`, `CheckFails`, `CheckPasses` |

An administrative transaction takes the catalogue's lock, so it is one action, by an operator who
has seen the current revision; others are refused without effect and left out. The occupancy
revision is kept as the set of collectors that have seen its current value. A time is `never`,
`recent` or `old`. Rows written after a collection began are not taken for absent (`touched`).
Priorities and labels are left out: candidates may be tried in any order. Admission reads one
provider at a time in the code and in the model; the choice among providers is the client's `ask`.

### Changes

| code | model |
|---|---|
| `create`, `get`, `cancel`, `callbackCheck`, `apply`, `expire` | `Prepare`, `Get` and `SaveView`, `Cancel`, `CallbackCheck`, `Apply`, `Expire` |
| `processNext` | `Claim`, `Compare`, `RecordCallback`, `Sync`, `Refresh`, `Diagnose`, `Settle` |
| an exception in it, a death, a lease, a deadline | `Throw`, `Crash`, `LeaseLost`, `Deadline`, `RunsOut` |
| `evaluateChange`, `changeSnapshot` | `Evaluate`, `Snapshot` |

`Get` reads and evaluates in one step and saves in another, unless the change was revised in
between. `Sync`, the remote callback, is its outcome. A collection inside a change is one step
(`Refresh`), as `Inventory` checks collections themselves.

### Requests, DefaultProxy, Batches

| code | model |
|---|---|
| admission of media, guards, interceptor | `Arrive`, `Guard`, `ReadProduct`, `StoreProduct`, `CountRate`, `SetExpiry`, `Enter` |
| `InstanceResolver.lookup` | `Resolve`, `LoadInstance`, `KeepInstance` |
| preparation, the call, its end | `BeginFile`, `FillFile`, `Send`, `Await`, `CleanFile`, `Free` |
| a client leaves, an upload or a request takes too long | `Leave`, `UploadTimeout`, `RequestTimeout` |
| edits that invalidate caches | `Deactivate`, `RotateKey`, `MoveProvider`, `RemoveInstance`, `Logout`, each followed by `FinishEdit` |
| times to live, the circuit's rest | `ExpireAuth`, `ExpirePlace`, `ExpireRate`, `Rest` |
| `applyDefaultProxy` | `SetProxy`, `AwaitSet`, then `CheckProxy`, `AwaitCheck`, `CompareProxy` up to three times |
| `sendBatch`, `addJobs` | `CreateRow`, `SetTotal`, `AddJobs`, `NotQueued` |
| the worker | `Take`, the steps of a request, `CountOutcome`, `CountDone`, `ReadSent`, `SaveBatch`, `FinishFails` |
| BullMQ | `Crash`, `Stall`, `Ends` |

Every `await` that separates a read from a write, or two writes, separates two actions. Merged,
because nothing comes between that the properties can tell: the increment of `done` with the read of
the total, the read of `failed` with the update of the row, the validation of a body with `Enter`.
There is one product, one instance, one provider and one batch. The upload timer that fires while a
guard is awaited answers the request and frees its slot, and the guards go on: such a request is
marked `late`, and is the exception in `WorkHasSlot`. The interceptor drops it if its connection is
closed by then and lets it in otherwise, so `Enter` may do either; once in, it does not notice that
its client leaves, as its response has been written.

## 3. Runs

| run | instance | shows |
|---|---|---|
| `requests` | 2 requests for one name, one with a webhook and one with a client's token, 1 recovery | `TypeOK`, the inductive invariant `Accounting`, `CommittedConfigured`, `LeaseExclusive`, `KeepsPromise` |
| `intruders` | 1 request with a shared token, 2 recoveries, 1 import, 1 foreign session, operators who delete | `SessionAccounted`, `OwnEvidence`, `RecordNeverCollides` |
| `deletes` | 2 requests of 2 products on 2 providers, 1 recovery, 1 delete | `OpenRowKept`, `OneSessionPerName` |
| `liveness` | 1 request, 2 recoveries | `ReservationReleased`, `CreationResolved`, `CleanupCompleted` |
| `attribution` | 1 event of 1 of 2 namesakes, on one provider or on two behind one address; the receiver and 1 replica publish it; 2 tries, 1 revival; products that want the event | `RightInstance`, `OneJobPerEvent` |
| `publication` | 1 event, 1 creation, 2 replicas, 2 tries, no revival, pages of 1 row, products that want the event, do not, or have no address | `TypeOK`, `QueuedHasJob`, `DeliveredIsReceived`, `DeliveredForever`, `PublicationRecovered`, `EarlyEventSettled` |
| `capacity` | 2 creations of 2 products on 1 provider, 2 collectors, 2 replicas that check health, 1 edit, 1 session made by hand | `TypeOK`, `AbsentIsGone`, `EligibleIsAdmitted`, `OfferedIsFree`, `LimitKept`, `ReconciliationEnds`, `HealthFollows` |
| `changes` | 2 products, 2 providers behind 2 addresses, 1 creation, 2 changes, 2 replicas, edits, a delivery | `TypeOK`, `NothingUnlinked`, `LimitedIsAlone`, `CallbackSettled`, `AppliedAsPrepared`, `AppliedIsUsable`, `ChangeSettles` |
| `messaging` | 2 requests for 1 slot, edits and caches, a batch of 2 messages with 2 executions, the proxy of a creation | `WorkHasSlot`, `BatchAccounted`, `MediaSentOnce`, `ProxyConfirmedIsHeld`, `StaleEnds` |
| `pending`, `redelete`, `unavailable` | small | the disagreements of section 6 |

Bounds and why they are enough to be of use. Two requests for one name are what the unique indexes
and the promise are about: a third would only repeat the relation of the second to the first, and
the theorems hold for any number. One request against two recoveries is where leases and the proof
of identity can go wrong: two executors that both believe to own the ticket. Nothing in a run bounds
crashes, deadlines or lost answers. In the relay two creations of one name make every
misattribution possible, one after the other or side by side, and a page of one row makes the cursor
pass a due event. Two tries and one revival, in `attribution`, are the first values at which a job is
both tried again and revived, and at which the product receives an event three times; the receiver
and one replica are two publishers, either of which may come first. `publication` has two replicas,
which is what a scan that reads a row long before it acts on it can race, and liveness, which symmetry
does not help: a job is tried again there, so that a late failure mark can follow a delivery, but not
revived. `attribution` uses the symmetry of the tickets, and of the two products each with its
provider; no property of it tells them apart.
Requests that stop make the system stop, so deadlock is not checked.

`capacity`, `changes` and `messaging` start from several workloads, each a behaviour of interest
with its own bounds (edits, crashes, stalls, outages, sessions made by hand, faults of the cache):
two creations that race for the last place, one creation while its provider is edited, collectors
that stall and die, a provider that goes down twice; changes that race creations, other changes,
edits and inventories, that lose their replica during a callback, that leave no room; requests that
race for a slot, requests that fill caches while an operator edits, a batch with one stall, crash,
fault or deletion. One place, one slot, one entry per cache and two of whatever competes for it are
the smallest sizes at which each race exists; mixing all workloads in one run would only interleave
parts that share no state. A limit of one is the boundary itself, and admission adds one at a time.

For each property `PROJECT.json` names a mutated definition - a dropped guard, a lost check of the
remote id, an `add` that is not awaited - under which TLC finds the property violated, so none of
them holds whatever the code does.

### Fairness

`Provisioning`. Weak fairness of an executor's steps once a ticket is its own: every call has a
deadline, so it proceeds or fails. Weak fairness of `Expire`: a lease is a time. Strong fairness of
a ticket being scanned: the timer of `onApplicationBootstrap` fires for ever, due tickets are taken
in the order of `updatedAt`, and `abandon` moves a ticket to the end, so none is passed over for
ever, though every claim by another replica disables it for a while. Nothing is assumed of the
client's request before it reserves, of deletes, imports or operators.
`CreationResolved` and `CleanupCompleted` hold if from some time on no executor dies, exceeds its
budget or fails a call without a reason (`EventuallyCalm`); giving up on what the provider answered
is no such fault. `ReservationReleased` needs no such condition.

`Relay`. Weak fairness of each replica's scan (an interval of 15 s that never overlaps itself).
Nothing is assumed of the worker, as no property here needs a job to run, nor of receivers: one may
die with its event stored.
`EventuallyCalm` again says that from some time on replicas neither die nor fail a call: each of them
scans, or rests. Both properties are written `[]<>`: an event does not stay pending, or waiting for a
creation that is decided, for ever.

`Inventory`. Weak fairness of the scan that resumes wanted collections, of each collection's next
step (it has a deadline) and of the expiry of a lease; strong fairness of a replica's check of each
provider, as `runChecks` goes through all of them every minute. Deaths and stalls are bounded, so no
further assumption is made.

`Changes`. Weak fairness of the expiry of leases and deadlines; strong fairness of claiming a change,
as `processNext` takes the oldest first; weak fairness of a step's failure, as everything a replica
does for a change ends at its deadline. Nothing is assumed of operators.

`Batches`. Only that Redis lets keys expire, in the workloads that last long enough (`long`).

## 4. Proofs

Every invariant and every action property of a passing run is stated by a theorem, for any number
of requests, replicas, names, providers, events, changes and messages. What is counted is assumed
finite, and nothing else: creations and sessions made by hand (`Occupancy` lists them), requests
(slots), messages and executions of a batch (its counters). Every assumption is evaluated by TLC on
the runs of its module.

### Provisioning

Assumptions: `RequestsAssumption` (requests are records over the constants' sets) and
`DisjointAssumption` (requests, recoveries, deletes, imports and foreign sessions are different
things).

- `TypeCorrect`: `Spec => []TypeOK`.
- `AccountingHolds`: `Spec => []Accounting`. `SessionAccounted` is not inductive: whether a step of
  a recovery loses a session depends on what that recovery established steps ago. `Accounting` adds
  what each process knows at its program counter: `RemoteInv` (a session is where its ticket put
  it, and only after the ticket was marked as sent), `RowInv` (which tickets have a row, and what
  the row says), `RequestInv` and `ExecutorInv` (before the call nothing exists; a step after the
  record means a session was made; `removeConfirmed` is reached only when the session is gone for
  good), `DeleteInv` (a row about to be removed has lost its session). "Gone for good" is stable
  because a create call is made once per ticket: that is the heart of the argument.
- `SessionsAccounted`, `NoForeignAdoption`, `OpenRowsKept` follow from it.
- `RecordsNeverCollide`, `SessionsAreUnique`: from `NamesApart` (open tickets and rows are pairwise
  apart, but for a ticket and its own row), which holds because the three actions that take a name
  check in one transaction what the unique indexes check.
- `LeasesExclude`: an action property; each action is one of the owner's, or touches only tickets
  whose lease does not run or that are closed, or a row no open ticket refers to.
- `CommittedAreConfigured`: the webhook is sent to a name, and the flag written later, when the name
  may have lost the session. `WebhookInv` says that a ticket with the flag is `Settled`: its session
  was made and is configured or gone. That is stable because a session that is gone does not return.
- `PromiseKept`: `Spec => KeepsPromise`. Each action is shown to be a step of `CreationPromise` or
  none: `Reserve` is its `Hold` (with nothing left of earlier holders, by `Accounting`), `Send` its
  `Call`, every removal of a row its `Undone` or `Discard`, every vanishing session its `Vanish`.

### Relay

Assumptions: `EventsAssumption` (events are numbered in the order of their ids, and are not replicas), `QueueAssumption`
(pages, tries and stalls are numbers). `RelayInv` is `TypeOK /\ EventInv /\ ScanInv /\ SentInv`.
`EventInv` places each event: whether it is published, and that a publisher that is to mark it as
queued has added its job; what carries the remote id has, once attributed, the intent or the
instance of its source. `ScanInv` says what a scan may still rely on of a row it read long ago,
which is little: an event only moves forward (`Stays`), so what was published stays so. `SentInv`
bounds the posts of an event by the tries and revivals of its job, at each step of the worker, and
by the most there can be once the job has ended and its counts are forgotten.
`NeverMisdelivered`, `NoQueuedEventLost`, `DeliveredWasReceived`, `OneJob` and `RelayTypes` follow;
`NeverTakenBack` is the property of each step, as `MarkEvent` spares what was delivered.

### Occupancy

`Occupancy` merges three lists of accounts of sessions one account at a time, and `LimitKept`,
`EligibleIsAdmitted` and `AppliedIsUsable` rest on what that comes to. The merge is a recursive
function over positions, and TLAPS can instantiate no induction theorem with a predicate. But the
library's `WFMin` (a set of pairs of a well-founded relation has a minimal element) takes a set:
applied to the numbers a set misses, it gives `Numbers`, induction on sets of numbers. From it follow
that the recursive definition has its function (`RunExists`), and what has been merged at each
position (`RunKeeps`, by `AddKeeps`): groups with pairwise different names, each the name of
an account, and every account in one of them unless the merge was called ambiguous. `OccupancyCounts`
is the result: unless ambiguous, the number of groups is the number of distinct names. `UsedCounts`
says it of a provider's rows, reservations and last inventory.

### Inventory

Assumptions: `EvolutionsAssumption` (creations and foreign sessions are finitely many, and told apart
by their ids), `WorkloadsAssumption` (a workload is a registry in order: rows are linked and have
their types, limited providers alone in their installation, no inventory yet), `EditsAssumption` (an
edit gives columns values of their types, or leaves them), `InventoryAssumption`.
`InventoryInv` is `CreationsOK /\ RowsOK /\ CollectorsOK`. A collection reads the provider at one
moment and writes later. `ReadOK` says what its reading is worth: as long as the occupancy revision
it began with is current, every session alive whose row is recorded is among what it read, since
recording a row moves the revision. So a row missing from what is written has lost its session
(`MissingAreGone`), and a session that is gone does not return. `AbsentAreGone` and
`OffersWhatIsFree` follow.

`TypesInv` has the types of every row and lease; `InventoryTypes` follows. `EligibleAgrees` compares
the two computations: readiness lists reasons against a provider and admission asks for conditions,
and below a limit there is room for one more only because occupancy and limit are numbers
(`RoomUnlessFull`). `LimitIsKept` needs both invariants: whoever has a session, or is about to, is
open or has a row that counts, as the rows left out have no session (`LoadCounted`, by
`AbsentIsGone`); admission adds at most one name (`LoadGrows`); so the names that have or may get a
place are no more than the occupancy, or one more, which admission compared with the limit
(`LimitStep`).

### Changes

Assumptions: `WorkloadsAssumption`, `EditsAssumption`, `ChangesAssumption` (drafts are what
`evolutionChangeSchema` lets through). `ChangesInv` is `Registered /\ ChangesOK /\ Prepared`.
`Registered` is the catalogue in order: its columns, `NothingUnlinked` and `LimitedIsAlone`; each
edit, direct or applied, is shown to leave it so. `ChangesOK` relates status, owner, lease and
callback of a change. `Prepared` is the deep part: the snapshot keeps revisions in the place of most
of what was seen, and they are only worth it if nothing the snapshot omits changes without a new
revision. `SameRevision` says so of every step; hence a snapshot whose revisions are current still
recalls all that was seen (`Recalled`), and `AppliesWhatWasSeen` holds although `Apply` compares
revisions. `NeverUnlinked`, `LimitedAlone`, `NoCallbackHalfWay` and `ChangesTypes` follow.

`AppliesUsably`: what an application checks is a copy of the rows with the change's edits, what it
leaves are the rows it wrote, and other rows and revisions move in the same step. `RowsAsTyped` keeps
the rows typed; `WrittenAsChecked` says that the copies and the rows agree in all that readiness
reads, `OccupancyStays` that the step counts the same sessions, `LinksOpened` which links it leaves
accepting. So the provider found vacant admits the product afterwards (`VacantTakesOne`), and after a
change to a single destination no other provider accepts (`SingleAccepts`). `OnlyApplied`: no other
step applies a change.

### Requests, DefaultProxy, Batches

Assumptions: `RequestsAssumption` (requests and executions are different things, requests finitely
many, as slots count them) and `BatchesAssumption` (messages and executions are finitely many, and
the absent value is no number). `RequestInv` is `SlotsOK /\ ProxiesOK`. Every
step but the administration's and time's replaces one task by another, so the invariant speaks of
one task (`RequestOK`, `ExecutionOK`, `ProxyOK`), and of the cardinality of those that hold a slot.
What makes it inductive: after `Enter` only the work gives a slot back, before it only the response
does; and an adopted media request whose client is gone before its call has a reason to stop
(`adopted /\ gone /\ calls = 0 => reason # None`), which `Send` looks at. `WorkWithinSlots`,
`NotSentAgain` and `ConfirmedWasHeld` follow.

`BatchesAddUp` rests on `BatchInv`, which relates the counters in Redis to sets of messages and
executions: `Lower` says that what was counted as done, with who is about to say so (`Telling`), is
no more than what was counted as sent or failed or was lost to a fault of the cache; `Upper`, that
while nothing has stalled the counted and those still to be counted (`Uncounted`, `Undone`) are
within the number of messages. A completed batch was saved by an execution that saw `done` reach the
total (`SavedOK`). The sums are never formed: each step moves one message or execution from one set
to the next and one counter by one.

### What stays with TLC

Only liveness: `ReservationReleased`, `CreationResolved`, `CleanupCompleted`, `PublicationRecovered`,
`EarlyEventSettled`, `ReconciliationEnds`, `HealthFollows`, `ChangeSettles` and `StaleEnds`. Fairness
and `ENABLED` are out of the prover's reach. The violated properties of section 6 are TLC's too.

## 5. By design

- A creation with a client's own token whose answer was lost stays `uncertain` and keeps its name:
  nothing on the provider proves the session to be its own. `CreationResolved` speaks of sessions
  that can be recognized (`Evident`).
- An event without the remote id is attributed by its name, and after the end of its session that
  is a later namesake's. Behind an address that two providers share it may even be a namesake of
  another product: `accept` reads the instances and then the open tickets, and a creation that is
  recorded and committed in between is in neither. `RightInstance` speaks of events that carry the id.
- A job whose worker dies too often is given up by the queue without a mark, and its event stays
  `queued`. An early event whose creation was committed and whose instance was deleted before the
  next scan stays `waiting`: `recoverPending` passes over it on every scan. `EarlyEventSettled`
  leaves this case out.

- An operator who replaces a product's key invalidates the cache before the key is updated
  (`products.service.ts`, `RotateKey`): a request in between stores the old key again, which is
  accepted until its time to live ends. `StaleEnds` says that it does end.
- The first request counted sets the expiry of the count in a step of its own
  (`rate-limit.guard.ts` 32-36): a Hub that dies in between leaves a product limited for good. No
  property says otherwise.
- A text whose answer was lost is sent again, up to `MaxRetries` times, also after its request was
  answered with a timeout. `MediaSentOnce` speaks of media only.
- An upload that takes too long is answered (408) and gives its slot back, and nothing tells the
  guards (`media-http-admission.ts` 69). The interceptor drops the request if its connection is
  closed by then (`timeout.interceptor.ts` 165); if not, or if the timer fires between that and
  `takeAdmission`, the work is done without a slot, and the media is sent although its client was
  told of a timeout. `WorkHasSlot` exempts these requests (`late`), and `MediaSentOnce` forbids
  sending only after a client was seen to leave or a request reached its deadline, which is `gone`
  and not `late`: it says of a late request, too, that it is sent once and not after that deadline.
- The counters of a batch count executions, not messages: a message executed twice may complete the
  batch early, a day without its total leaves it open for ever, and when nothing could be queued the
  row stays "processing". `BatchAccounted` speaks of completed batches, and of exact counts only
  when nothing stalled.
- Optional calls do not tell the circuit of their failures, and see it when it is open.

## 6. Disagreements found

- `pending`: `abandon` releases an unsent reservation but gives it a lease that nothing clears, so
  `pendingProvisionings` counts it as unfinished for ever and reversals stay blocked.
- `redelete`: a delete addresses the session by name after reading the row; a second, delayed delete
  reaches the session of an instance created since, although deletes are said to be idempotent.
- `unavailable`: a product that is unavailable for three tries never receives the event, although
  the specification promises that the job waits "sem perda de eventos".

## 7. What is left, and not modelled

The plan of this project has been carried out: creations, their recovery and their promise; the
relay over it; admission, inventories and changes over a registry that is edited meanwhile; requests,
batches and the default proxy. Not modelled, and why:

- the audit buffer: `splice` empties it in one synchronous step before the insertion is awaited, so
  no entry can be flushed twice, and what a failed insertion loses, or how many entries are in
  flight, is bounded by nothing the code states;
- the age of an inventory that replaces another: a collector that lost its lease may not write, which
  `Write` requires, but if it did it would only replace a list by an older one, at an unchanged
  occupancy revision; absence would still be believed rightly, and no property tells the two apart;
- the blocker `provisioning_unresolved` of `evolutionReadiness`, which takes an open reservation that
  is not linked to its own product and provider: none is written so; and the refresh of a single-destination target that is not linked, which
  changes nothing that is then checked;
- notifications of batches (`batch-webhook.worker.ts`), delays and priorities: nothing reads their
  outcome;
- the download of media (redirects, addresses, sizes, types): an outcome of `FillFile`;
- the translation of bodies by the adapter, listings, masking of credentials, wording of blockers;
- endpoints that make one remote call per request (chat, settings, proxy, webhook), single-row
  administration (users, sessions, logs, activity), configuration and wiring: they have no protocol
  between actors for a model to say anything about.
