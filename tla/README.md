# TLA+ models of the moqx relay

moqx is a Media over QUIC Transport (MoQT) relay. Publishers announce namespaces and publish
tracks, subscribers subscribe to tracks or to namespaces, and the relay joins the two: one
upstream subscription per track, one forwarder that copies it to every subscriber. This directory
holds TLA+ models of its control logic, the TLC configurations that check them, and TLAPS proofs
of the parts that matter most. `PROJECT.json` maps every definition to the source lines it models
and lists the runs, the hazards and the theorems. File names below are relative to `src/src/`.

To check a run, `tlc -config <run>.cfg <module>` with the module `PROJECT.json` gives; to check the
proofs, `tlapm <module>.tla`.

## 1. The system

**Executors.** The relay runs in one of three modes. In *SingleThread* mode everything, sessions
included, is on one executor. In *RelayExec* mode the relay state is on one executor and the
sessions on others, so calls between a session and the relay are posted. In *LocalForwarder* mode
(LF) every I/O thread has forwarders of its own, and a track crosses threads once per thread, over
a channel. Within one executor a handler is atomic up to its next `co_await`; the interleavings
are those of suspended coroutines with each other and with network events, and of tasks posted
across executors.

| part | state | operations | hard behaviour |
|---|---|---|---|
| `SubscriptionRegistry` | entries by track name, with epoch, promise, handle, upstream session | create, complete, fail, remove, `awaitSubsequent`, `onPublisherTerminated`, `removeIf` | a first subscriber resumes after its entry was replaced |
| `MoqxRelay`, tracks | the registry, forwarders, the tree's published tracks | SUBSCRIBE, PUBLISH, PUBLISH_DONE, `onEmpty`, `forwardChanged` | callbacks carry a name, not an identity |
| `LocalForwarderRegistry` and its users | per-thread forwarders, claims, promises, parked forwarders | join, claim, replace, park, redeem, remove | set-ups that fail, are abandoned or replaced while others wait |
| `UpstreamProvider` | one client and session, connect promise, backoff | connect, reconnect, GOAWAY, stop, requests | a session ends while its own hook is awaited |
| `NamespaceTree` and routes | nodes, counts of active children, routes, subscriptions, advertisements | PUBLISH_NAMESPACE, NAMESPACE(_DONE), SUBSCRIBE_NAMESPACE, pruning | route choice with loops and split horizon; counts that must match |
| `PropertyRanking` | ranked tracks, a group per N, a deselected queue | register, update, idle sweep, join, leave | selection kept step by step, self exclusion of publishers |
| `PendingRendezvousTree` | parked requests by namespace and name | park, wake, expire, cancel | a wake races a time-out |
| `CrossExecFilter` family | tasks posted, a reference to itself, deferred error, fetch window | data calls, terminal calls, destructors | lifetime across two executors |
| `MoqxCache` | tracks, groups, objects, gaps, LRU lists, bytes, fetches in progress | write back, fetch, evict, purge | coroutines that hold what eviction takes; two FETCHes that share upstream requests |
| configuration, service matching, auth, the context | the resolved configuration, the rule tables, the grants of a session | resolve, match, verify, ask | what is accepted must be able to run; grants that expire |
| control filters, servers, admin, stats, logging | see section 6 | | |

They interact as follows. `MoqxRelay` owns the registry, the namespace tree, the rankings and the
rendezvous tree, and calls them on its executor. A SUBSCRIBE without a publisher parks in the
rendezvous tree or goes to an `UpstreamProvider`; an upstream session's announcements enter the
namespace tree as routes. Data flows from a session through filters into the cache and the
forwarder; in LF mode it crosses executors through the `CrossExecFilter`s. A FETCH is answered by the
cache, which asks the upstream for what it lacks. Before any of this a session is routed to a service
and its tokens are verified, and every request passes the service's auth filters.

## 2. Modules

Objects that other code composes are modelled as records with one operator per method
(`SubscriptionRegistry`, `LocalForwarderRegistry`, `NamespaceTree`, `MoqxCache`); the module that uses
them is a state machine that EXTENDS them. A handler is one action; a coroutine is one action per
stretch between awaits. Definitions named `X_something` next to a definition `X` are deliberately
faulty forms of it. No specification uses them: they exist to show that the properties would notice.

- **SubscriptionRegistry, RelayTracks** (`SubscriptionRegistry.cpp`, `MoqxRelay.cpp` in the modes
  SingleThread and RelayExec). Every entry is made together with a forwarder and an upstream
  subscription, so all three are numbered by the entry's epoch. `reg` is `registry_`, `fwd` and
  `up` the forwarders and upstream subscriptions, `req` what each SUBSCRIBE is suspended on. `Hop`
  selects RelayExec mode, where `publishDone` and `unsubscribe` are some time under way.
- **LocalForwarderRegistry, LocalSetups** (`relay/LocalForwarderRegistry.h` and everything in
  `MoqxRelay.cpp` that runs on one I/O thread and uses it). `loc` is the registry, `claim` the
  claims, `ticket` the park tickets that are out, `req` the SUBSCRIBE coroutines. What other
  threads answer is left open.
- **UpstreamProvider** (`UpstreamProvider.cpp`). The members are the fields of one record, so a
  method that re-enters the object through the session's close callback is one operator applied to
  another. The hook and the notice of a disconnect run on the relay's executor: `posted` has the calls
  under way, and `Held` is what the relay keeps once it has run them.
- **NamespaceTree, NamespaceRoutes** (`NamespaceTree.cpp`, the namespace half of `MoqxRelay.cpp`).
  Nodes, counts and pruning, then the messages that change them and what each subscriber was told.
- **PropertyRanking** (`relay/PropertyRanking.cpp`). `ranked` is the ranked list, `groups` the groups, and
  `got` of a group what each of its sessions gets as a result of the callbacks. A method that goes through
  the groups treats each on its own, so what it does to one is an operator (`Joins`, `Moved`, `Leaves`).
- **PendingRendezvous** (`PendingRendezvousTree.cpp` and the coroutine that parks).
- **CrossExecFilter, FetchCrossExecFilter** (`relay/CrossExecFilter.cpp`). `queue` is the target
  executor; a task records what its lambda captures, and a filter is deleted in the step in which
  the last reference goes.
- **The cache** (`MoqxCache.cpp`), in layers. **CacheRanges**: locations, interval sets and the
  `FetchRangeIterator`. **MoqxCache**: the store; tracks and groups have identities because writers
  and fetches hold them by `shared_ptr` after they leave the cache. **CacheWriters**: the live
  subscription's writers, purges and expiry. **FetchWriteback**: what an upstream FETCH writes as it
  passes through. **CacheFetch**: `fetch`, `fetchImpl` and `fetchUpstream` as coroutines with the
  upstream that answers them. A run chooses at the start which kinds of events may happen
  (`Scenarios`). **FetchService** is the abstract specification: what a FETCH in ascending order
  promises, with no cache in it. CacheFetch implements it under the mapping `Promise`.
- **Admission**, on **ConfigResolver**, **ServiceMatcher** and **Auth** (`config/ConfigResolver.cpp`,
  `ServiceMatcher.cpp`, `auth/`, and the context and filters that use them). The last three are pure: a
  configuration is validated, merged and resolved, a client is matched, tokens grant scopes. Admission
  is the machine that goes from a configuration to answered requests while time passes. What the loader
  can yield (`config/loader/ParsedConfig.h`) is stated as the types of ConfigResolver's first section.
- **MC\*** instantiate these for TLC: names for model values, sets of namespaces and paths, symmetry.
  MCNamespaces and MCCrossExec each hold two machines that are about the same part of the relay and
  share no state; the variable `of` is chosen at the start and says which one a behaviour is about.

### What is assumed of code outside the repository

MoQForwarder, MoQSession and MoQClient are moxygen's, executors and promises folly's. The models
use them as the code here does:

- Dropping a handle sends nothing; after `unsubscribe()` the session calls the consumer no more.
- `onEmpty` fires when a drain or a removal leaves a forwarder without subscribers; `publishDone`
  with open subgroups puts the removal off (`LateDrain`, `late`); the default `onPublishDone` of a
  forwarder callback does nothing.
- Network events may be handled before callbacks already queued on the loop, so events of a new
  upstream subscription may come before the first subscriber's coroutine resumes.
- Executors run what is posted to them, first in first out.
- A promise destroyed unfulfilled fails its waiters; setting one twice throws. A baton's signal
  is sticky.
- Destroying a MoQ client closes its session, and the close callback runs within `close()`;
  a set-up ends, by its time-out at the latest.
- A session has one SUBSCRIBE_NAMESPACE per prefix at a time; a PUBLISH_NAMESPACE's request ID is
  fresh; NAMESPACE_DONE comes only for a namespace that was announced.
- A source makes no call after its terminal call, ends every subgroup it began or hears of its
  failure, and then lets go. Told BLOCKED, it waits before it sends more.
- The upstream of a FETCH sends the objects it has of the range asked for, in order, and its FETCH_OK
  may come before, between or after them. A live publisher, by contrast, may send anything.
- A token decodes to what its issuer encoded, and its signature verifies under the key it was made with
  and no other.

## 3. Runs

| run | shows | bounds |
|---|---|---|
| relay_replacement | promises are set once, a suspended subscriber has somebody who will wake it and is answered, a handle never ends up in another entry | RelayExec mode, 2 publishers, 2 subscribers, 2 entries, takeovers and late drains |
| relay_orderly | without takeovers a null handle means the publisher ended, nobody stays on a silent track, an upstream is released only by its last subscriber | SingleThread mode, 2 + 2 sessions and a namespace subscriber, 3 entries |
| local_setups | no waiter is stranded and each is released, whoever is served has the initial state, a forwarder vacates only its own entry | 3 forwarders, 1 subscriber, 1 channel |
| upstream | whoever asks for a session gets one, the current session is the live one and a stopped provider leaves nothing up; the session comes back and every request ends | 2 reconnect loops, 1 request, 3 connects, 2 mishaps |
| namespace | counts cover the active children, pruning takes nothing in use, what a subscriber was last told is what holds now; a parked SUBSCRIBE misses no wake-up and ends | 3 namespaces on a branch, a relay that announces and another that listens, nested prefixes, an allowed prefix below the root, paths that change and loop; 3 namespaces and 2 waiters for the rendezvous |
| ranking | until an idle sweep the shared selection is the N best and viewers get it | 3 tracks, a publisher and a viewer, N in {1, 2}, no deselected queue, 1 sweep |
| crossexec | no task finds its filter deleted or its forwarder gone, nothing is called after the end, every filter is deleted; the fetch window is exceeded by less than one object and a blocked source goes on | 1 subgroup beside the track, 2 calls, 3 tasks queued; sizes 0 to 2, window 3, 4 tasks queued for a FETCH |
| cache_store | byte totals, LRU lists and the record of what is cached agree with what is there; a FETCH that waits keeps the object it is about to send; a write evicts what may be evicted | 2 tracks, 3 groups, limits of 1 group, 1 idle track and 3 bytes; writers, or a FETCH with live objects, chunks and purges |
| cache_fetch | an ascending FETCH is a behaviour of FetchService, no gap is recorded where the publisher has an object, the cache refuses nothing of a well-formed upstream, every FETCH ends | 2 overlapping FETCHes, one of them perhaps newest first; 3 objects in 2 groups with a hole, one published later; a live writer, chunks, resets, errors, cancellation or a slow client |
| admission | a client is routed as the documented priority says, an accepted configuration can run, a request is let through exactly when a live grant covers it | 5 authorities, 5 paths, the configurations of MCAdmission, tokens of two keys; 3 readings of a clock that ends at 7, with 2 ticks to a second |

Two of a kind (two publishers, two subscribers, two waiters, two FETCHes) suffice for the races, which
are between two coroutines. Two entries let an entry be replaced while a coroutine of the first is
suspended. Three forwarders let a track be displaced twice before the first displacement is
collected; the one subscriber of that run waits behind other threads' set-ups, and the proofs
cover any number. The request and the loops use `getOrConnectSession` alike, so there are three
coroutines to race for a connect. Three connects let a session be lost, its successor be lost, and a third come back.
The ranking is checked without a deselected queue, the only setting `relay/PropertyRanking.h` calls
fully supported. The clock is short so that a token may expire between two requests and an `exp` may lie
beyond its end. The window needs to fill, to overshoot by the largest object, and to open again. The
limits of the cache are as small as they can be, so that nearly every write evicts. Deadlock checking
is off where a bound (entries, forwarders, connects, calls) or the end of the work stops the model.

Every module states its type invariant, and LocalSetups also `PendingIsClaimed`, `SettledOnce` and
`TicketsMatchParked`. They hold in these runs too but are not in the list of one: those of RelayTracks,
LocalSetups and NamespaceRoutes are proved.

### Fairness

The liveness properties assume weak fairness of the steps the program's own scheduling takes: executors
run what is queued, timers fire, a coroutine whose promise is settled resumes. Beyond that they assume
that a session answers or fails each upstream request (moxygen does so when the session closes),
that the peer answers what the connect hook asks, that a downstream's readiness resolves, that
the source of a filter ends what it began, and that the upstream of a FETCH sends what it has and ends
its stream. Nothing is assumed of what users do: new requests, publishes, cancellations and drops have
no fairness. `FetchFairSpec` says this per FETCH, as infinitely often not ready or infinitely often
moving, which is weak fairness of the union of that FETCH's steps written out.

## 4. Where the code departs from what it says

Two runs are expected to fail. Each checks one statement that a comment makes; `PROJECT.json` quotes it.

| run | what the code does |
|---|---|
| upstream_lost_session | a session that ends during its hook makes `getOrConnectSession` return null |
| cache_desc | a newest-first FETCH of a known track with nothing cached never asks for group 0, and ends as if it were complete |

The run `upstream` lets sessions end during their hook too: the ghost `early` records that it happened,
and the properties it invalidates (`EnsuresUnlessEarly`, `Reconnects`, `RequestsEnd`) are stated for
behaviours in which it did not. `Implements` is about ascending FETCHes; in `cache_fetch` a descending one
runs beside them.

Checking other properties or other instances, TLC also shows these. To see one, add the property to a
configuration, or change the constant that is named.

- The validations of the sampling rates (`config/ConfigResolver.cpp:1358` and `:1477`) and of Copa's and L4S's
  parameters (`:1069`, `:1075`) reject what is below or above the range, and so let NaN pass, though the message says
  "must be in [0.0, 1.0]". `AcceptedCanRun` allows a sampling rate to be NaN; it fails if it does not.
- "Short secrets undermine the MAC, so reject them at config load" (`config/ConfigResolver.cpp:531`): the
  constant `kMinHmacSecretBytes` defined there is not used, and no length is looked at. ConfigResolver has no
  such check either, and `AcceptedCanRun` does not ask for it.
- The `exp` of a token, in seconds, becomes a `time_point` without a check (`auth/Auth.cpp:86`). One past the
  clock's end wraps around and, up to twice the clock's range, the token counts as expired.
  `AnswersFollowGrants` is stated that way, with a token of this kind among those of MCAdmission.
- `NullHandleMeansEnded` of RelayTracks with `Hop`: a `publishDone` that is under way is applied by name
  (`MoqxRelay.cpp:773`) and clears the handle of a newer entry, though `onEmptyImpl` reads a null handle
  as "publisher terminated via FilterConsumer" (`MoqxRelay.cpp:3136`).
- `LastSubscriberLeft` of RelayTracks with `Takeover`: the forwarder of a dropped entry empties, and
  `onEmptyImpl` (`MoqxRelay.cpp:3129`), by name, releases the newer entry's publisher.
- `AttachedIsReady` of RelayTracks with three subscribers: a subscriber woken from `awaitSubsequent`
  (`SubscriptionRegistry.cpp:83`) attaches to a newer entry whose upstream answer is still out.
- `NoEmptyNodes` of NamespaceRoutes: a node that already counted as active gets content of its own,
  is counted twice (`NamespaceTree.cpp:71`), and its parent is never pruned.
- `GroupIsBounded` of PropertyRanking: after an idle sweep `demoteTrackAtRank`
  (`relay/PropertyRanking.cpp:540`) leaves a group with more than N tracks selected, though the header
  says "at most N + maxDeselected entries" (`relay/PropertyRanking.h:115`). `ViewersFollow` without its
  condition on `sweeps` fails for the same reason: a viewer that joins later gets the N best.
- `PersonalTopN` of PropertyRanking: `trimDeselectedQueue` (`relay/PropertyRanking.cpp:521`) takes a
  track from a publisher that should keep it.
- `ContentIsUnion` of CacheWriters with `Extensions` that carry a Prior Group ID Gap: an object that is
  rejected for a conflicting gap leaves `seenPriorGroupIdGap` set (`MoqxCache.cpp:565`), and the eviction
  of its group then forgets a range that belongs to the group before it (`MoqxCache.cpp:2579`).
- `HeldEntryLives` of CacheFetch with the scenario {"fetch", "live", "expire"}: another lookup that finds
  the object expired erases it while a FETCH waits for its client with a pointer to it. The pin protects
  the group from eviction (`MoqxCache.cpp:1660`), not the object from expiry.
- While a FETCH waits for its client, the group it was in may be evicted; it then goes on after that group.
  The objects of the group it had not sent are skipped. `cache_fetch` therefore has no limits on the cache.
- `objectPayload` with `finFetch` ends the upstream's stream without posting `complete_`
  (`MoqxCache.cpp:1190`), so the FETCH that waits for it does not go on and `FetchEnds` fails. It is the scenario "payloadFin",
  which no run includes; in "fin" the stream is ended by a whole object.
- `fetch` makes room after it has added its own track, when the count has reached the limit and not
  passed it (`MoqxCache.cpp:1527`), so a cache of one idle track keeps none; a group is made after the
  room for it (`MoqxCache.cpp:515`), when the count has passed the limit, so a track keeps one group more.
  `LimitIsKept` is about the limit in bytes.

## 5. Proofs

TLC checks small instances; these theorems hold for every number of tracks, sessions, entries,
forwarders, coroutines, namespaces and requests.

- **RelayTracksProofs** begins with lemmas on the methods of SubscriptionRegistry. Each keeps
  `RegistryOK` (epochs are drawn in order and name at most one entry, an entry's promise is pending or
  fulfilled, a handle is its entry's own and comes with the session, a pending promise has its entry)
  and says what it changes (`Fades`: entries and handles only go). Then `TypeCorrect`, `NeverAborts`,
  `WaitersAreServed` and `HandlesAreOwn`, from the inductive invariant `IInv`. The properties alone are not inductive: that a waiter has a first
  subscriber to wake it needs that every pending promise has one still in `subscribeImpl`, that no
  two have the same epoch, and that replacing an entry settles the promise. Steps that only take
  entries and leave the requests alone are covered by one lemma, `QuietStep`; the others have one
  lemma per action.
  The module goes on with what the comments of `onEmptyImpl` rely on, `NullHandleIsTheEnd`,
  `SubscribersStayFed` and the action property `ReleasedWhenEmpty`. All three have the hypotheses
  `~ Hop` and `~ Takeover`, without which the code does not keep them (section 4). Their invariant
  `OInv` relates, epoch by epoch, the entry, its forwarder and its upstream subscription: what each of the
  three may be while the others are as they are, and which request is on its way to change them.
  It is inductive together with `IInv`.
- **LocalSetupsProofs**: `LocalInvariance`, and from it `PendingAlwaysClaimed`, `NobodyStranded`,
  `PromisesSettledOnce`, `AlwaysServedWithState`, `TicketsAlwaysMatch`. The invariant says what the
  table owes to the coroutines (`LocalOK`: a pending entry has an open claim on the forwarder that
  holds it and a pending promise made for its track, a ready one has its state) and what each
  coroutine knows about its own forwarder. A replacement passes the promise on to a newer claim,
  which is why the invariant speaks of the claim of the forwarder that holds the entry now.
  It ends with `OlderNeverReaches`, the action property `OnlyItsOwn`. Every way to vacate an
  entry is traced to the forwarder in it (`VacatedBy`), and each action either vacates nothing or has the
  excuse the property names; the invariant gives the actions what they know of the entry.
- **UpstreamProviderProofs**: `SessionAlwaysCurrent` and `SessionIsEnsured`. The invariant `ProviderInv`
  adds to them that only the current client's session can be up, that promises of connects to come are
  unsettled, and that at most one coroutine connects unless a session ended early or the provider was
  stopped. The last is what makes the promise that a waiter awaits the one its connector settles.
- **NamespaceRoutesProofs**: `TreeTypes`, `CountsStayUp`, `PruningLosesNothing` and `ViewsStayTrue`. The
  invariant `NInv` says that the tree is well formed and that the book of what was told is kept.
  *Well formed* (`WellFormed`): the nodes are closed under prefixes, content is only at nodes, a node
  that must be kept is counted all the way up, and no count is less than the number of children to keep. That needs the argument how far
  `incrementActiveChildren` and `tryPruneChild` climb: the nodes they pass are consecutive, so each one
  that is skipped lies above one that was counted already, and the highest node removed has nothing
  below it. The nodes of a branch are compared by their lengths, with the least-number principle
  (`LeastNatural`). *Kept* (`BookInv`): the advertisements on a node belong to subscriptions at or above
  it, each subscription has at most one, it is the one that `told` has, and it is the route that
  `advertisableRoute` selects now; `BookReconciled` shows that one `reconcileAdvertisement` re-establishes
  this on its node whatever happened to the routes there.
  The last section is about the parked requests: `NoWakeIsLost`, which states `NoLostWake`. A waiter that is
  parked and not signalled is listed at its node (`ParkedIsListed`); a publish signals all that are listed
  below it, so none is missed.
- **CrossExecFilterProofs**: `TasksNeverDangle`, `ForwarderIsKept`, `SilentAfterTheEnd` and
  `NothingLeaks`, from an invariant that says of each filter who owns it and of each queued task what it
  points to. The properties are not inductive. A task finds its subgroup's filter because the filter still
  guards itself or a task further back in the queue holds it (`Guarded`); nothing is posted behind the
  task that deletes the track filter (`TrackOK`); and a consumer is silent after its end because the task
  that ends a subgroup is the last of its subgroup (`LastIsLast`) and the one that opens it the first.
  The last section is about the answer to a FETCH: `WindowIsKept`, which states `WindowHolds`. The filter does not count
  what waits; it counts what was ever queued and what had been queued when readiness was last heard. So the
  invariant `FetchInv` says that what waits is at most the difference (`CountOK`), and why hearing
  readiness may close that difference to nothing (`WaitOK`): the source is blocked from the moment it asks,
  so no data is behind the task that asks, and none is left when that task has run.
- **PropertyRankingProofs**: `SelectionIsExact` and `ViewersGetTheSelection`, for any number of tracks,
  sessions and groups and any N. The hypothesis is `maxDeselected = 0`, of which the header says
  "Currently only maxDeselected=0 is fully supported" (`relay/PropertyRanking.h:164`). First come facts about
  ranks: two rankings that differ in one track (`OneMore`), or in one track's value, differ in known ways in
  their N best (`TopAfterJoin`, `TopAfterMove`, `TopAfterLeave`), and a move that `crossesThreshold` does not
  see leaves the N best of every group alone (`FastPathKeepsTop`). Then each patch of a group is followed through
  its operators: `Shows(G, T, D)` says that group G has selected T, has nothing put aside and
  gives its watchers D, and for most of a handler T and D are not yet the N best. They are again at its end,
  which is the invariant `RInv` (`RankingInvariant`). It says so only until `sweepIdle` first puts a track
  aside, as the properties do.
- **AdmissionProofs**: `OnlyTheRunnableIsAccepted`, which states `AcceptedCanRun`. A validation looks at what
  the file says or at its merge with the defaults, and the resolution computes the merge again and fills in what is open; part
  by part (threads, logging, listeners, caches, keys and scopes) the lemmas show that what was validated is
  what comes out. That a handler never changes the configuration makes the invariant inductive.

The proofs use the named assumptions on constants (`RegistryAssumption`, `RelayAssumption`,
`LocalAssumption`, `SetupsAssumption`, `ProviderAssumption`, `TreeAssumption`, `RoutesAssumption`,
`CrossExecAssumption`, `FetchAssumption` of MCCrossExec, `RankingAssumption`, `ConfigsAssumption`), which TLC
evaluates in every run of the modules that extend them. `ConfigsAssumption` says that the configurations are
ones the loader can yield (`ParsedConfig`), and that the value of an empty optional is no number
and no action, and NaN no integer. The rendezvous needs none.

Only model-checked:

- All liveness properties: fairness and ENABLED are outside the prover.
- The properties of the cache, `Implements`, that CacheFetch implements FetchService, included. Its methods fold `evictGroup` and `evictTrack` over sets
  and LRU lists, its totals are sums and its answers sorted lists; what such a fold computes for every input
  needs induction over data.
- `RoutedAsDocumented`, for the same reason: the rule tables are a fold over the services and their entries,
  and the prefixes are sorted.
- `AnswersFollowGrants`, which is about the tokens and rules of MCAdmission. A token's rule is matched with the
  bytes of the encoded namespace (each field behind its length in four bytes, highest first), because its issuer
  chooses the bytes; the anonymous claim is read on the fields that the configuration names, and the
  code encodes them. The two readings agree for the rules of MCAdmission, not for every conceivable one.
  Where peering is on, a SUBSCRIBE_NAMESPACE or SUBSCRIBE_TRACKS that carries a relay ID needs no grant here
  (`relay/AuthFilters.cpp:57`), and the property says so.
- `PersonalTopN`, `GroupIsBounded` and the others that section 4 lists, which the code does not keep.

## 6. Not modelled

- In `MoqxRelay`: FETCH before it reaches the cache, TRACK_STATUS, REQUEST_UPDATE and GOAWAY of inbound
  sessions; the peering handshake; differences between protocol drafts; the tracks a
  SUBSCRIBE_NAMESPACE finds outside RelayTracks.
- The two halves of an LF channel together: LocalSetups leaves the relay executor's side open, and the
  control filters that hop between the two are left out with it.
- The forward flag of sessions in a ranking, and its sweep throttle.
- Of the cache, payload bytes (a payload is its length), the clock (whether an entry has expired is an
  input) and the statistics. Of auth, the issuer of tokens, CBOR and cryptography. Of the configuration, reading YAML, the
  warnings, and knobs that are only copied.
- The drain of executors at shutdown in the context; EgressGate; QLogCapture's budget.
- Servers, socket steering, the admin handlers, statistics, logging: start-up code, I/O, formatting and
  counters, on which no decision of the relay depends.

What would add most next is LF mode composed, with a publisher's and a subscriber's thread and the
registry between them, against a specification with one upstream and one set of subscribers that
RelayTracks should implement too.
