# StoneLB

StoneLB gives public IPs to Kubernetes objects. A `PublicIPPool` named
`default-public-ippool` lists addresses, CIDRs and ranges; every `Service` of
type LoadBalancer and every `FloatingIP` is allotted one of them, which is
written into the object's status. These modules model the whole of that
process, with the arithmetic of address ranges, and check and prove what it
should guarantee.

Paths below are relative to `src/`. `SC`, `FC` and `PC` stand for
`pkg/controller/service/service_controller.go`,
`pkg/controller/floatingip/floatingip_controller.go` and
`pkg/controller/publicippool/publicippool_controller.go`.

## The system

One process (`main.go`), with no leader election, runs three controllers around
one in-memory allocator.

| Part | State | Operations |
|---|---|---|
| Allocator, `pkg/allocator` | `nets` (the loaded pool), `usedIPs` (address → key), `allocatedServices`, `allocatedFloatingIPs` (key → address), one `RWMutex` | `UpdateIPPool`, `AllocateService`, `FreeService`, `AllocateFloatingIP`, `FreeFloatingIP` |
| Address lists, `parseCIDR` and vendored `ipaddr` | the prefixes an entry of the pool became; a cursor per allocation | split a range into prefixes (`Summarize`), walk them (`Cursor.Next`), test an address (`containsIP`) |
| PublicIPPool controller, `PC` | `observedGeneration`, a work queue with retry counters | loads the pool's spec into the allocator, then records the generation in the pool's status; empties the allocator when the pool is deleted |
| Service controller, `SC` | a work queue | one sync per key: keep the status IP if the allocator grants it again and the spec does not ask for another, else free and allocate anew, else clear the status; frees when the service is deleted or retyped |
| FloatingIP controller, `FC` | a work queue | the same, for an object whose empty status is `""` |
| Informers and queues, vendored client-go | caches, notifications in flight, keys queued, delayed, in progress | ordered delivery per object, relist after a lost watch, periodic resync, rate-limited retries |
| API server, users | the stored objects, resourceVersions, generations | create, edit, touch, delete; conditional status updates |

How they interact:

- the controllers call the allocator, each call under its mutex; only
  `AllocateX` with a desired IP takes the mutex twice (`containsIP`, then the
  allocation);
- the pool controller never calls the others. They hear of the pool through the
  same informer, and act on an update only if the version they see has
  `status.observedGeneration = metadata.generation`, that is, when the pool
  controller has announced its load; a deletion they act on at once;
- a controller hears of its own status writes through its informer.

What is hard here: four goroutines share the allocator; a load forgets every
lease while objects still show them; the caches lag behind the API server, so a
sync may work on a version that is out of date and its status update be
refused; requests may fail before or after they took effect; the allocator is
lost with the process and the statuses are not; an allocation that fails is no
error and nothing retries it but an event, at the latest the resync that comes
every half hour (`main.go:43`).

What makes each part correct:

- allocator: no address is leased twice, also not to a service and a floating IP
  with the same key; the index of used addresses agrees with the leases;
- address lists: a range becomes prefixes that cover it and nothing else; an
  allocation tries every address of an entry once; what it hands out is what
  `containsIP` accepts at the next sync;
- pool controller: what it announces is what the allocator serves; a deleted
  pool is released; a pool that parses ends up loaded and announced; it comes to
  rest;
- service and FloatingIP controllers: when all is done, an address shown is one
  leased to that object, in the pool, the one its spec asks for, and shown by
  nobody else; a deleted object holds nothing; nobody is refused who could be
  served; no sync takes an address from an object that is content with it; no
  address is lost; and in the end, whatever failed, every address shown is leased
  and every object that can be served is.

## The modules

| Module | Models | Composed from |
|---|---|---|
| `IPLeases` | what the allocator promises: grant an address nobody holds, release one, revoke all | – |
| `PublicIPAllocator` | `pkg/allocator` | implements `IPLeases` |
| `PublicIPAllocatorProofs` | theorems about it, and lemmas about the objects' version logs that the other proofs share | `PublicIPAllocator` |
| `AddressLists` | `parseCIDR`, `ipaddr.Summarize`, the cursor, `containsIP`: what `ParseCIDR` of the allocator expands to | – |
| `AddressListsProofs` | theorems about it | `AddressLists` |
| `PublicIPPoolController` | `PC`, the pool object, its informer | `PublicIPAllocator` |
| `ServiceController` | `SC`, the service objects, their informer | `PublicIPAllocator` |
| `FloatingIPController` | `FC`, the FloatingIP objects, their informer | `PublicIPAllocator` |
| `PublicIPPoolControllerProofs` | theorems about it | `PublicIPPoolController` |
| `ServiceControllerProofs`, `FloatingIPControllerProofs` | lemmas about them, for `StoneLBProofs` | the controllers |
| `StoneLB` | `main.go`: the process, pool notifications to the other two, restarts; system properties | the three controllers |
| `StoneLBProofs` | theorems about the process: types, exclusive leases, announcements, deleted pools | the proofs above |
| `LeaseProofs` | theorems about the process: when a lease is given up and when it must not be | `StoneLBProofs` |
| `StatusProofs` | theorems about the process: what the statuses show when all is done | `LeaseProofs` |
| `MC*` | small sets and initial states for TLC | one each |

Operators named `X_Y` beside an operator `X` are deliberately broken variants of
`X` (`AllocateIP_Unguarded` drops a guard, and so on). No specification uses
them; each stands for a plausible bug that the property listed with it in
`PROJECT.json` would notice.

### State and actions

**Allocator.** An owner is a pair `<<kind, key>>`, so that `allocated` is the two
maps at once; `usedIPs` keeps only the key, as in the code. `checked[o]` is the
stack of a call between its two critical sections: `CheckDesiredIP` is
`net.ParseIP` and `containsIP`, `AllocateIP` is what follows under the write
lock. `AllocateFromPool` takes the first unused address in order. `Free` and
`UpdateIPPool` are one critical section each. What an entry of the pool expands
to is the constant `ParseCIDR`, what a string parses to the constant
`Canonical`. `Next` lets anyone call anything, except that calls for one owner
do not overlap, which the work queues guarantee.

**Address lists.** The state is that of one entry on its way through the code: the
range, the integer `fi` and the host bits of the prefix that `Summarize` widens
(`Widen` is its inner loop, `Emit` the end of a turn of the outer one, with the
`break` at the last address of the family), then the prefixes and the cursor of
an allocation (`Take` finds the address free, `Skip` finds it used and is
`Cursor.Next`). An address is the integer of its 16 bytes, in which the IPv4
addresses are a block; a family has its own `Base` and `Width`, so the same
actions stand for `summarizeIPv4` and `summarizeIPv6`. The splitting of strings is
left out; what `UpdateIPPool` does with an entry that does not parse is in
`PublicIPAllocator`.

**Objects and informers.** `poolLog`, `svcLog[k]` and `fipLog[k]` are the versions
of an object from the one in the informer's cache (`Head`) to the one the API
server stores (`Last`); a user's request or a status write appends, `Deliver`
drops the head and runs the controller's handler. A `NoService`, `NoFloatingIP`
or `NoPool` in the log is a deletion. Writes of the status that change nothing
append nothing, as the API server emits no event for them. The worker's `fresh`
says whether the API server still stores the version it copied: it stands for
`resourceVersion`, and an update with a copy that is not fresh is refused.
`poolEvents[kind]` is the channel of another controller's listener on the shared
pool informer; versions its handler would ignore at once (`SC:138`) are not put
there.

**Queues.** `…Queued` and `…Delayed` are the keys in the queue and those waiting
for `AddRateLimited`'s timer, `…Requeues` is `NumRequeues`. `Failed` is
`handleErr`: requeue up to `maxRetries` times, then drop and forget the key. A
key may be queued again while it is being processed and is then handed out
afterwards, because there is one worker.

**Resync.** Both informer factories resend every cached object every 1800 s
(`main.go:43-44`). `SvcResync` and `FipResync` may happen whenever their
controller is at rest; before that, where they could come only by accident of
timing, each one costs one of the bounded operations. The pool's
(`PoolResync`) always costs one.

**Workers.** `svcWork`, `fipWork` and `poolWork` hold a program counter and the
copy of the object. Every call of the allocator is a step of its own, and so is
the status update. `Get` is `queue.Get`, the lister and the branch on what it
returned.

| Step | Code (service; the FloatingIP controller has the same shape) |
|---|---|
| `SvcGet` | `processNextWorkItem`, `syncService` up to the first allocator call, `SC:215-306` |
| `SvcFreeDeleted` | the object is gone, `SC:253-261` |
| `SvcStrip` | not a LoadBalancer any more, but with a status, `SC:287-295` |
| `SvcRecheck`, `SvcReclaim` | ask for the status IP again, `SC:308-330` |
| `SvcClear` | `clearServiceStatus` before a new allocation |
| `SvcAllocate`, `SvcCommit` | allocate from the spec or the pool |
| `SvcGiveUp` | no address: clear, and write an empty IP |
| `SvcUpdateStatus` | `UpdateStatus`: accepted, refused, failed before or after it took effect |
| `PoolGet` … `PoolUpdateStatus` | `syncHandler`, `PC:163-215`, generation comparison first |

**Process.** `Restart` is the end of the process at any point and the start of a
new one: the allocator, queues, caches and `observedGeneration` are lost, what
the API server stores is listed again.

**Other writers.** `SvcSetStatus` and `FipSetStatus` write any address, or none,
into a stored status: a user may, and so does the old process during a rolling
update, which runs beside the new one (`deploy/stonelb.yaml` sets no strategy, and
nothing elects a leader) with an allocator of its own.

### What is abstracted

- An address is a model value. A status is an address, `NoIP` (an ingress with
  IP `""`, which the controller itself writes) or `NoIngress`; one that is no
  address at all, or lists several ingresses, is left out.
- Of a second process the models have the statuses it writes, a bounded number,
  and not how the two answer each other's writes while both run.
- Pools of other names, which `syncHandler` ignores, are left out, and so is
  `spec.podName` of a FloatingIP, which the code does not use.
- The cache's update and the controller's own handler are one step: the handler
  only puts the key in the queue. For the pool notifications of the *other*
  controllers the delay between the two matters, and they are separate.
- Calls of `FreeService` that directly follow one another are one step; nobody
  else allocates for the key in between.
- A lost watch is an action for the pool only (`PoolRelist`); for the others see
  "What is not modelled".
- The model assumes the CRD in `deploy/crds/publicippool-v1alpha1-crd.yaml`. The
  pool's schema in `deploy/crds/network-v1alpha1-crds.yaml:90` has no
  `status.observedGeneration`; with that one, an API server that prunes unknown
  fields would never let a load be announced, and the other controllers never
  hear of it.

## What the runs check

All runs are finite. "When all is done" (`Settled`) means: nothing queued,
delayed, in flight, in a channel or in progress, with the API server and every
cache at the same version; the next thing to happen is a request or a resync. Most properties of the process are stated there,
because in between a status legitimately lags behind the allocator. Deadlock
checking is off in the controllers' runs: users stop after a bounded number of
requests, and the system is then meant to come to rest.

### Runs that pass

| Run | Instance | Shows |
|---|---|---|
| `allocator` | 3 addresses, 2 keys × 2 kinds, 5 pools (one does not parse, one is empty), respelled and malformed strings, crashes | `TypeOK`; the index agrees with the leases (`UsedByOwner`); no address is leased twice (`ExclusiveLease`); every step is one of the lease table (`ImplementsLeases`) |
| `pool_life` | the pool alone: 4 requests of users or resyncs, 2 failed requests or lost watches, 1 restart, `maxRetries` 2 | what the status announces is what the allocator serves; a deleted pool is released; a kept pool is loaded in the end and announced; the controller comes to rest |
| `address_lists` | every CIDR and every range of six-bit addresses, of which 16 … 31 are the IPv4 block (24 487 states) | no integer overflows (`TypeOK`); the prefixes cover the range without gap, overlap or excess (`Tiles`) and are few, also at the end of the address space (`FewPrefixes`); `containsIP` accepts exactly the listed addresses (`ContainsListed`); an allocation tries each of them once and in order (`ScansInOrder`) |
| `lb_service` | 1 service, 2 requests of any sort on it, status writes of others and early resyncs among them, the pool edited once | the shown address is leased to the service, in the pool, and the one asked for; a deleted service holds nothing; the worker never asks for a new address while it holds one (`AsksEmptyHanded`) |
| `lb_floatingip` | 1 FloatingIP, 1 request of any sort on it, malformed and respelled addresses, the pool edited once, 1 restart | the same, across a restart that forgets all leases |
| `lb_rivals` | a service and a FloatingIP with the same key, one change of the wanted address each, a pool of one address, loaded while they are synced | exclusive leases and statuses; no sync takes an address its object holds, shows and is content with (`KeepsLease`) |
| `lb_served` | a service and a FloatingIP; each may have one status request that fails or is lost, and no retries, so that the key is dropped; somebody writes the FloatingIP's status or deletes it; the pool is new, or announced already when the process starts | with the resync, both have an address in the end if there is one for each (`EventuallyServed`), and every address shown is leased (`EventuallyLeased`) |

### Runs that find a violation

Each is a behaviour of the code that disagrees with what its comments say; the
quotations are in `PROJECT.json`.

| Run | Property | What happens |
|---|---|---|
| `pool_recreated` | `EventuallyLoaded` | `PC:179-187`: deleting the pool empties the allocator and leaves `observedGeneration`. A pool created again at the same generation (1, if the first was never edited) counts as loaded and never is. |
| `lb_leak` | `NoLeak` | A service that shows one address asks for another. The sync frees the first and allocates the second; before it writes the status, the service withdraws its wish, so the update is refused. The next sync works on the version that has no wish and still shows the first address, and reclaims it for a key that holds the second: `allocateServiceIP` overwrites the lease. The overwritten address stays in `usedIPs` until the next load. |
| `lb_pool_deleted` | `StatusIsLeased` | The service controller hears of the pool's deletion before the pool controller has emptied the allocator. It renews the lease, which is then forgotten, and the service goes on showing the address. |
| `lb_restart` | `KeepsShown` | After a restart, a service synced before the pool's first load finds its address refused, because the allocator is still empty, and its status is cleared. The load writes a status equal to the stored one, so no event follows, and the service is without its address until the next resync. |
| `lb_reloaded` | `NoSharedIP` | A load is repeated because its status update conflicted. The second load forgets the leases granted after the first, and writes an unchanged status: nobody renews them, and the address is given to another service as well. |

All but the first heal: `lb_leak` at the next load, the others at the next resync, up
to half an hour later; `lb_served` checks that resyncs end such states where they
follow failed status updates or a pool announced early.

### Bounds

Two addresses are enough to make a pool too small, large enough, or changed
under a lease; three let a two-address block be dropped while another stays.
Two objects are enough for every conflict over an address, which always is
between one that has it and one that wants it. Two requests on an object allow
a change and a change back, or a creation and a deletion, at any two points of a
sync; one edit of the pool makes every lease be forgotten once after it was
granted, next to the first load. `maxRetries` is 5 in the code and 1 or 2 here;
the smaller number is what makes the drop of a key reachable. The bounds are
`MaxPoolOps`, `MaxPoolFaults`, `MaxRestarts`, `MaxRetries`, `MaxSvcOps`,
`MaxSvcFaults`, `MaxSvcRetries`, `MaxFipOps`, `MaxFipFaults`, `MaxFipRetries`.
`lb_served` sets `maxRetries` to 0, so that one failure drops the key and only the
resync is left to help.

Six bits of address and a block of sixteen IPv4 ones let a range start and end
at every alignment, end with the last address of either family, surround no
block or touch it, and be reversed or mixed; what `Summarize` does depends on
nothing else. The theorems hold for 128 and 32 bits.

### Fairness

`PoolFairness` and `Fairness` assume weak fairness of the informers' deliveries
(a reflector goroutine and a listener goroutine each, which run until the
process stops), of each worker (`wait.Until(runWorker, time.Second, stopCh)`),
of the queues' timers, and of the resync of services and FloatingIPs, whose
factories get a period of 1800 s. The resync is weakly fair when the controller
is at rest, which is when the model lets it happen for free; half an hour is long
compared with a sync. The pool's resync is not assumed: no liveness property
needs it. Nothing is assumed of users, failures, lost watches and restarts.
Within a worker one weak fairness condition covers all steps, as it is
sequential. That says less than the code does, whose queue hands out keys in
order of arrival; it is enough as long as keys are queued a bounded number of
times between two times at rest.

### Known limits of the code, without a run of their own

- `containsIP` releases its lock before the allocation takes it
  (`pkg/allocator/service.go:41`). If the pool is replaced in between, an
  address outside it is allocated. It does not last: the load is announced, and
  the sync that follows finds the address outside the pool.
- A load takes effect in the allocator before it is announced, and the announcement
  is refused if the pool was edited meanwhile (`PC:205`). If the edit does not parse,
  the load is repeated, forgets the leases granted since, and is never announced:
  the services are without their leases until the next resync. With `Entries <-
  TornEntries`, `ParseCIDR <- TornParseCIDR`, `Addresses <- TornAddresses` and
  `PoolOps = {"edit"}` in `LBPoolDeleted.cfg`, TLC finds `StatusIsLeased` violated.
- A service retyped before its first status was written keeps its lease: the
  branch for other types does nothing if the status is empty (`SC:290`).
- A spec that spells its address in another form than `net.IP.String()`
  (`2001:DB8::1`, `::ffff:192.0.2.1`) differs from the status at every sync
  (`SC:325`), so the address is freed and asked for again each time, and a rival
  may get it in between. `KeepsLease` fails for such specs; `lb_rivals` checks
  it for canonical ones, and the theorem assumes them (`PlainStrings`).
- `KeepsLease` speaks of the copy the worker has. A copy that does not show the
  lease yet may lose it to a rival, also without a restart; then the status, too,
  is withdrawn from an object that was content with it.
- An address that leaked is missing until the next load. `EventuallyServed` asks
  for service only if there are enough addresses besides the leaked ones, and of
  objects that leave the choice to the allocator.
- An address that is freed is not offered to an object refused before, and a key
  dropped after `maxRetries` failures is not queued again, until the next resync
  or event.
- A range with its ends reversed, or in two families, becomes an empty list of
  prefixes without an error (`pkg/allocator/publicip_allocator.go:56`): the pool
  loads, and lacks those addresses.
- A CIDR written `::ffff:a.b.c.d/n` gets a mask of 16 bytes, which the cursor's
  `lastIPv4MappedIPv6Int` takes for one of 4: the cursor runs past the prefix to the
  end of the IPv4 addresses, and hands out what `containsIP` then refuses. With
  `CIDRs <- MappedCIDRs` in `AddressLists.cfg`, TLC finds `ScansInOrder` violated; the
  theorems exclude such entries (`PlainCIDRs`).
- An IPv6 range that runs into the IPv4 block is split like any other, though
  `net.IP` would take some of its addresses for IPv4; such entries are left out
  (`EntryAssumption` of `AddressLists`).
- Objects that are synced before the pool's first load are refused, and shown no
  address until they are synced again.
- Failures are counted across versions of an object. A request that fails after
  conflicts may exhaust the retries, which is why `KeptIsAnnounced` excludes
  behaviours with a failed request, and why the runs on `StatusIsLeased` have no
  failing status updates: a dropped key waits for the next resync.

## What is proved

`PublicIPAllocatorProofs` holds four theorems that TLAPS checks, for any set of
addresses, keys and pools and with no bound:

- `TypeCorrect`: `Spec => []TypeOK`;
- `LeasesAreUsed`: `Spec => []UsedByOwner`;
- `LeasesAreExclusive`: `Spec => []ExclusiveLease`;
- `AllocatorImplementsLeases`: `Spec => ImplementsLeases`, the allocator is a lease
  table.

They assume what `IPAssumption`, `KeyAssumption` and `EntryAssumption` say:
canonical addresses parse to themselves, `NoIP` and `NoKey` are not values of
their kinds, and entries that parse list addresses.

The inductive invariant is `IInv == TypeOK /\ UsedByOwner /\ ExclusiveLease`.
`ExclusiveLease` is not inductive alone: the allocator takes an address for free
if `usedIPs` does not list it, so every lease must be listed (`UsedByOwner`). Nor
is `UsedByOwner` without it: `Free` removes the owner's address from the index,
which is right only if nobody else has it. And `UsedByOwner` speaks of keys, not
owners, since that is what the code stores: a service and a floating IP with the
same key are told apart by the two maps alone. There is one lemma per operation
(`AllocateIPPreserves`, …), and `LeasePreserves` is the fact the two allocating
ones share. The refinement uses the same invariant: a step that leases an address
is a `Grant` because, by `UsedByOwner`, nobody holds an address that is not used.

That covers the race between the two critical sections of an allocation with any
other call.

`PublicIPPoolControllerProofs` proves, for any pools, bounds and listeners:

- `PoolTypeCorrect`: `PoolSpec => []PoolTypeOK`. Generations are bounded because
  each one costs an operation; `PoolBudget` says so of every version in the log
  and of the worker's copy.
- `AnnouncedPoolIsLoaded`: `PoolSpec => []AnnouncedIsLoaded`, provided that the
  process does not find an announced pool when it starts. (It would, after a
  restart; what happens then is the subject of `lb_restart`.) The property itself
  stops at the first restart.

The strengthening is `AnnouncedInv`. `AnnouncedIsLoaded` alone would be broken by a
late load: nothing in it says that a worker with an older copy will not replace
what is announced. `AnnouncedIsAll` says that once a generation is announced, no
version with other addresses is on its way to the cache or in the worker's hands,
and no release is pending. That holds because an announcement is a write with a
fresh copy (`FreshCopy`: a fresh copy is the whole log), made after its load
(`LoadedCopy`), and because an edit is unannounced (`ObservedBound`). Here the
optimistic concurrency of `UpdateStatus` is what the correctness rests on: the
mutated `PoolLoad` that ignores a failed parse breaks `LoadedCopy`.

- `DeletedPoolIsReleased`: `PoolSpec => []ReleasedWhenGone`, with failed requests, lost
  watches and restarts. `ReleasedInv` says that while the cache has no pool, the key
  is queued, or being released, or the worker is idle *and* the allocator empty. A
  load that was under way when the deletion was delivered does its harm after it;
  it is undone because the delivery queued the key behind it, and a
  release, unlike a load, cannot fail. (What it does not
  clear is `observedGeneration`: see `pool_recreated`.)

`StoneLBProofs` composes these with one lemma per action of the two other
controllers, for any objects, addresses, strings and bounds:

- `SystemImplementsAllocator`: `SystemSpec => Spec`. Every step of every controller is
  one of the allocator's `Next` or leaves it alone, and the calls are for one
  owner at a time as `Spec` demands;
- `SystemLeasesAreExclusive`: `SystemSpec => []ExclusiveLease`, and
  `SystemImplementsLeases`: `SystemSpec => ImplementsLeases`, from it;
- `WorkersAskEmptyHanded`: `SystemSpec => []AsksEmptyHanded`. The allocator does
  not look whether the key it allocates for has an address already, so each
  controller must free first; and no load, restart or sync of another key gives
  it one in between. (A reclaim of the status address is another matter: see
  `lb_leak`.)
- `SystemTypeCorrect`: `SystemSpec => []SystemTypeOK`;
- `SystemAnnouncesWhatIsLoaded`: `AnnouncedIsLoaded` with the other controllers
  running, under the assumption above;
- `SystemReleasesDeletedPool`: `ReleasedWhenGone` with the other controllers running.

The inductive invariant is `SystemInv`, the allocator's `IInv` with the types of
each controller and, for each worker, what its program counter says of its copy
(`SvcInFlight`, `FipInFlight`, `PoolInFlight`).

`LeaseProofs` proves two properties of the life of a lease, for any objects,
pools, bounds, faults and restarts:

- `DeletedObjectsHoldNothing`: `SystemSpec => []DeletedHoldsNothing`. At rest nothing
  is queued, so the proof needs an invariant of the way there: `SvcReleased` says
  that the key of an object the cache does not have is queued, or is being
  released, or holds nothing *and is not in the worker's hands*. The last part is
  the point of it: a sync that began before the deletion can still allocate, and
  what saves the code is that the informer queued the key again while it was
  being processed. A restart forgets the queue, and all leases with it.
- `ContentObjectsKeepTheirLease`: `SystemSpec => KeepsLease`, assuming `PlainStrings`.
  `SvcGivesUp` says what each program counter knows when the worker is about to
  free: the object is gone, or no LoadBalancer, or asks for something else, or
  its address was refused because it is outside the pool or in other hands.
  Between the refusal and `FreeService` the pool may be loaded again, and the
  refused address be in it again; by then no lease is left to take
  (`SvcStillGivesUp`). Steps of the other workers cannot reach the lease, since
  every call is for the caller's own key (`SvcStepIsLocal`, `FipStepIsLocal`).

`StatusProofs` proves what a status is worth when all is done, for any objects,
addresses, strings and bounds:

- `ShownIsAsked`: `SystemSpec => [](StatusesWritten => StatusAsAsked)`. An object that
  shows an address shows the one its spec asks for, until a status request of a
  service or a FloatingIP fails (`StatusesWritten`). The pool may be edited, deleted
  and lost, its own requests may fail, others may write statuses, and the process
  may restart.
- `ShownIsLeased`: `SystemSpec => []((Unfailed /\ StoredParses) => StatusIsLeased)`. Each
  address shown is one of the pool and leased to its object, although every load
  forgets all leases, and syncs of old copies go on beside it.
- `ShownIsExclusive`: the same for `NoSharedIP`. It follows: what is shown is
  leased, and a lease has one owner.

The argument has two halves. The first is about one object. `SvcCopied` is what the
code relies on when it works with a cached copy: if the copy is not the stored
version any more, a newer one is in the log, or was delivered and queued the key
again. Hence a sync ends in one of two ways (`SvcEnds`): the key will be synced
again (`SvcComing`), or the copy is the only version of the object and shows
nothing or what the allocator has just granted (`SvcGranted`). In particular a
refused update never uses up the retries to anyone's harm, because a newer version is on
its way. `SvcNextOutcome` sums up a step of the controller so, and
`SvcAskedInv`, that an object that shows another address than it asks for is
coming, follows.

The second half is about the pool, whose load takes the leases away. `ToldInv` says
that no load goes unnoticed. A listener is to be told (`PoolTells`) if the stored
version is not announced yet (`Due`), or an announced one is in the log or in its
channel (`PoolNews`). Every step keeps that until the listener's handler runs,
every load brings it about (`PoolOutcome`), and at rest nothing is due
(`DueIsTaken`); the handler then queues every object. It rests on generations that
only grow (`PoolHistory`), a copy that is never of an older version than the one
observed (`PoolCopy`), and, for a version that was announced before a restart and
whose load is no news to anybody, on its being loaded once and before it any
address is refused (`ReloadedOnce`). Then `SvcLeasedInv` says of every object that
shows an address: it leases it and the pool has it, or the object is coming, or the
pool has something to tell; and `SvcLoadedInv` says so of the address the worker
found in the pool before it asked for it, which a load may have taken out of the
pool by then.

The hypotheses exclude what makes the properties false of the code:

- `Unfailed`, no request failed and no watch of the pool was lost: a key is dropped
  after `maxRetries` failures and waits for the resync, and a load whose status
  update took effect but was answered by an error is done again, unnoticed;
- `StoredParses`, the stored pool parses: a load is left unannounced if an edit
  conflicts with its status update and cannot be loaded itself (see the known
  limits);
- `PoolIsKept`: the pool is not deleted (`lb_pool_deleted`), and not touched where the
  process may find a version that is announced already: if that is loaded twice,
  as in `lb_reloaded`, the second load is no news;
- `Listening`: a controller that has objects listens to the pool, as `main.go` has it.

The instances of `lb_service`, `lb_floatingip` (with an edit and a restart) and
`lb_rivals` satisfy them.

TLC checked these strengthenings, and those of `LeaseProofs` and `ReleasedInv`, on
the instances of the runs before they were proved.

`AddressListsProofs` proves, for addresses of any width and any entries but
IPv4 CIDRs in the form of IPv6 (`PlainCIDRs`):

- `ListTypeCorrect`: no integer leaves its range, so `fi++` never wraps;
- `SummarizeTiles`: `Spec => []Tiles`;
- `ContainsWhatIsListed`: `Spec => []ContainsListed`;
- `AllocationScansInOrder`: `Spec => []ScansInOrder`;
- `SummarizeEndsSoon`: `Spec => []FewPrefixes`, a range becomes at most `2 * Width`
  prefixes, 256 of IPv6 and 64 of IPv4 addresses.

The inductive invariant is `ListInv`. `Tiles` needs to know that the prefix being
widened is aligned and ends by the last address (`Widening`); that every listed
address lies in a prefix (`Covers`) follows from the tiling one turn at a time;
and the cursor stays in its prefix (`Scanning`), since it compares for equality
with the end of it.

`FewPrefixes` has an invariant of its own, `FewInv`. While prefixes are ended by
their alignment (`Growing`), `fi` is a multiple of a power of two that doubles with
each of them, which can happen `Width` times; once one is ended by the last
address (`Shrinking`), less than its length is left, and every later prefix is
shorter than the one before it. Powers of two are the constant `Size`, of which only
the doubling is assumed, so the arithmetic comes down to `OddMultiple`: after an
odd multiple of `s` comes a multiple of `2 * s`.

The assumptions on constants are the named `ASSUME`s of the modules. Two are not
visible in the code: `NoPool`, which stands for an absent object, is no pool, and an
address has at least one bit (32 and 128 in the code).

Only model-checked: liveness (`EventuallyQuiet`, `KeptIsLoaded`, `KeptIsAnnounced`,
`EventuallyServed`, `EventuallyLeased`), which is out of the prover's reach, and the
runs that find a violation. Every invariant and every action property of a run
that passes is a theorem, `StatusIsLeased`, `StatusAsAsked` and `NoSharedIP` under the
hypotheses above.

## What is not modelled

- Two processes that answer each other: of the old process in a rolling update
  the models have the statuses it writes.
- Lost watches for services and FloatingIPs, as actions of their own. The relist
  skips versions, and since the handlers put only the key in the queue, where it
  is once, that is what several deliveries between two steps of the worker do in
  the model. (One difference is left: the key of an object created and deleted
  unseen is queued in the model and finds nothing there.) For the pool the
  versions themselves are passed on to the other controllers, and `PoolRelist`
  models it.
- The splitting of an entry at `-` and `/`, and statuses that are no address.
- Generated clients, listers and deep copies, type registration, flags, the CRDs
  and roles: no behaviour of their own. The `hello` function serves the CI
  pipeline only.

## Plan

Written, in this order: the allocator and its lease table, with proofs; the pool
controller; the service controller and the process around it; the FloatingIP
controller and rivalry between the two; the proofs about the pool controller and
the whole process; address lists, with proofs; the periodic resync, statuses
written by others and what they make of liveness; the proofs about leases; those
about deleted pools, about statuses and about the number of prefixes.

To come:

1. `ShownIsLeased` with failed requests, for keys that were not dropped: it needs a
   variable, or a view of the requeue counters, that tells a dropped key.
2. Two overlapping processes with one API server.
