# A TLA+ model of pysnmp

This directory holds a formal model of pysnmp: of the parts where several things
happen at once, or in an order nobody controls (requests that are retried while
their answers are under way, connections that are lost while they are replaced,
SETs that fail in the middle, an agent that restarts while it is being asked,
modules that load each other in circles), and of the algorithms that are easy to
get almost right (walks over merged sources, framing, index conversion, access
decisions, conversions between versions).
The modules are TLA+ specifications translated from the code; TLC checks them on
small instances, and TLAPS proves the central results for instances of any size.

Paths below are relative to `pysnmp/` in the repository unless they start with
`tests/` or `docs/`. `PROJECT.json` maps every definition to the lines it models and
lists the runs, their mutants, the findings, the hazards and the theorems.

## 1. The system

### Components

| component | source | state it keeps | operations |
|---|---|---|---|
| identifier generator | `nextid.py` | a bank of identifiers, shared by the whole process | draw, refill, wrap |
| message processing cache | `proto/mpmod/cache.py` | requests sent by message ID and by PDU handle, requests served by state reference, an expiration queue | push, pop, release, expire |
| dispatcher | `proto/rfc3412.py`, `proto/cache.py` | outstanding requests with their timeouts, transport information of requests being served, registered applications | `sendPdu`, `receiveMessage`, `returnResponsePdu`, expiry, transport errors, deferral |
| message processing models | `proto/mpmod/rfc2576.py`, `rfc3412.py` | the cache above; for SNMPv3 the engine IDs discovered, by address | prepare and take apart requests, responses, reports |
| user-based security model | `proto/secmod/rfc3414/service.py` | timelines (boots and time of other engines), their expiry queue, cloned users | generate and process messages, synchronise, expire |
| its authentication and privacy services | `proto/secmod/*/auth`, `priv`, `localkey.py` | salt counters, shared by the process | authenticate, encrypt, derive keys |
| community security model | `proto/secmod/rfc2576.py`, `secmod/cache.py` | the community of each request being served, tables by community and by name | generate and process messages |
| access control | `proto/acmod/rfc3415.py` | copies of the VACM tables | `isAccessAllowed` |
| command generator | `entity/rfc3413/cmdgen.py` | pending requests with their retry counts | `sendPdu`, `processResponsePdu`, repeated requests |
| command responder | `entity/rfc3413/cmdrsp.py` | pending requests | `processPdu`, `sendVarBinds`, `releaseStateInformation` |
| notification originator | `entity/rfc3413/ntforg.py`, `config.py` | pending informs by notification and target, cached lookups of targets | send, count answers, filter |
| execution points | `entity/observer.py` | per context, the parameters of the message being processed | store, clear, read |
| transport dispatcher | `carrier/base.py`, `carrier/asyncio/dispatch.py` | transports, callbacks, jobs, deferred tasks, timers, the ticker task | register, route, send, tick, defer, close |
| stream carrier | `carrier/asyncio/stream/base.py` | connections, connect tasks, a write queue, octets of a message that is not complete | send, connect, accept, frame, lose, report, close |
| datagram carriers | `carrier/asyncio/dgram/` | a queue and options until the endpoint is there | open, send, receive, close |
| engine | `entity/engine.py` | boots and engine ID, persisted; registrations | start, timer callback, registration of the dispatcher |
| configuration | `entity/config.py`, `hlapi/lcd.py` | rows of the configuration tables, use counts of them | add, delete, configure, unconfigure |
| MIB instrumentation | `smi/instrum.py`, `smi/mibs/SNMPv2-SMI.py` | the tree of objects, rows and instances, and what a SET puts aside | read, readNext, write, each over all bindings; rebuild |
| textual conventions | `smi/mibs/SNMPv2-TC.py` | none (the value is the state) | `RowStatus`, `TestAndIncr` |
| MIB loading | `smi/builder.py`, `synthesis.py`, `compiler.py`, `corpus.py` | modules, their symbols, what is being loaded, sources and corpora | load, unload, import, compile, look up |
| MIB lookup | `smi/view.py`, `indices.py`, `smi/rfc1902.py` | sorted OID and label tables, OIDs that were asked for in vain | resolve identities, bindings, notifications |
| version conversion | `proto/proxy/rfc2576.py` | none | `v1ToV2`, `v2ToV1` |
| high-level API | `hlapi/` | none beyond the configuration | requests, walks, notifications, change of keys |
| type definitions, compiled MIBs, logging | `proto/api/`, `proto/rfc*.py`, `smi/mibs/`, `debug.py` | | |

### How they interact

A manager's request goes down from the command generator through the dispatcher
and a message processing model to a transport, and leaves three records behind:
the generator's (by handle), the dispatcher's (by handle, with a timeout) and the
message processing model's (by message ID, with an expiry of its own). The answer
comes back up by message ID, from there to the handle, from there to the request.
A timer that the transport dispatcher owns drives all expiries. A request that
fails is sent again under new identifiers, from within the sweep that found it
overdue. The high-level API writes the rows that say whom to ask, and shares them
between calls; a notification reads them to find its targets, and is one request
to each.

An agent's request comes up through a message processing model, which remembers
how to answer (by state reference), a security model, which remembers with whom,
and the dispatcher, which remembers where it came from, to the command responder.
If the instrumentation is asynchronous the rest happens in a task, between whose
steps other requests are served. Below the responder one state machine runs a
SET over all of its bindings; the access control decides each name from copies of
the tables; the tree is rebuilt in front of an operation if modules were loaded.

Everything in one engine runs on one event loop: code between two awaits or two
callbacks is atomic, with two exceptions: the identifier generators and the salt
counters are class attributes, shared with other engines on other threads.

### What is hard

* The three records of a request must stay in step through retries, late and
  repeated replies, sweeps that call applications back, and every early return.
* The lifetimes of the records differ, and each is ended by somebody else.
* A connection's loss may be reported after its successor was made.
* Tasks interleave while identity is kept in something like a global variable.
* An exception in one request's processing may end what serves all the others.
* Undoing a SET that was half committed, over objects, columns and whole rows.
* Two engines' notions of one clock, when one of them restarts.
* Rows shared by calls that know nothing of each other, and copies of rows that
  are renewed when one column of them changed.
* Modules that load each other while they are being loaded, and a tree that is
  rebuilt from what the last rebuild left.

What makes each component correct is stated as its properties; section 3 names them.
`PROJECT.json` lists the places where each of these can go wrong, under "hazards".

## 2. The modules

| module | models | extends |
|---|---|---|
| `PythonData` | Python dictionaries; tuples of numbers, object identifiers above all, in their order | |
| `MpCache` | the message processing cache as operators on a record | `PythonData` |
| `RequestService` | abstract: what an application may expect of its requests | |
| `RequestCycle` | generator, dispatcher, message processing, timer, network | `MpCache`, instance of `RequestService` |
| `Responder` | responder, dispatcher, community models, tasks, execution points | `MpCache` |
| `StreamTransport` | connections and queue of a stream carrier | `PythonData` |
| `UsmSync` | an SNMPv3 manager and an agent that restarts | `PythonData` |
| `FlipFlopFsm` | the state machine of reads and writes | |
| `MibInstrum`, `TableRow` | that machine over scalar instances, over the rows of a table | `FlipFlopFsm` |
| `EngineConfig` | the configuration tables and the functions that write them | `Vacm` |
| `Lcd` | the high-level API's configurators | `EngineConfig` |
| `Notification` | the originator and `send_notification` over that configuration | `Lcd`, instance of `RequestService` |
| `Vacm`, `AccessControl` | the access decision, and what a notification may carry and to whom; the tables, their copies and the decisions in between | `PythonData`, `EngineConfig` |
| `MibBuilder` | loading of modules, and the tree rebuilt of them | `PythonData` |
| `NextId`, `MessageProcessing`, `TransportDispatcher`, `DatagramTransport`, `TargetCache` (with the lock `TestAndIncr`), `DhKeyChange`, the asking of a corpus in `MibView` | components as operators from state to state, called in sequences | |
| `MibCorpus` (corpora, sources and the synthesis of types), `MibTree`, `MibView` (names and OIDs; identities, bindings and notifications), `Walk`, `Usm`, `Rfc2576` (communities, conversion between versions), `StreamFraming` | algorithms as operators | |
| `RequestCycleProofs`, `ResponderProofs`, `StreamTransportProofs`, `UsmSyncProofs`, `MibInstrumProofs`, `MibBuilderProofs`, `AccessControlProofs`, `NotificationProofs` | theorems | their modules, TLAPS |
| `MC...` | constants that need a definition, and the sets of inputs a run enumerates | their modules |

Definitions that begin with a comment "MUTANT of X" are X with a plausible mistake in it; nothing
uses them. Each shows that a property notices that mistake.

### Correspondence with the code

**MpCache.** One operator per method of `Cache`. The code keys its queue
with `expirationTimer + 600`; here keys are relative to the timer, so a tick shifts
the queue and nothing grows. `RequestCycle` and `Responder` make the calls, each of
one half of the cache.

**RequestCycle.** `pendingReqs` is `CommandGenerator.__pendingReqs`, `cache` the
dispatcher's `Cache` (timeouts as ticks left), `mp` the message processing model's,
`jobs` the dispatcher's job count, `timerAlive` whether the `handle_timeout` task
runs, `wire` every message sent: any of them may be answered any number of times
or never, which is a network that loses, repeats, delays and reorders.
`StartRequest` is `CommandGenerator.sendPdu`; the `Receive...` actions are
`receiveMessage` by what the reply turns out to be; `ProcessStatus` and
`ProcessAnswer` are `processResponsePdu` (retry, give up, report); `Tick`, `TransportError`
and `UnregisterTransport` are what they are named for. `Cache.expire` walks over a
snapshot and calls back for each entry, and a callback may start requests or
unregister transports: so a sweep is a sequence of steps (`ExpireRequest`), with the
application allowed to act after it was called (`sweep.reenter`).

**Responder.** A request is `Receive`d, served at once or deferred to a task
(`__deferRequest`), resumed (`RunTask`, `ResumeTask`: the steps of the coroutine between
awaits), answered, failed in any of five ways, or cancelled with the dispatcher. `execpoint`
is what `entity/observer.py` keeps per context; `consulted` records whom access control
took a request to be from.

**StreamTransport.** `conns` are the protocol objects, in the order they were made; `connections`, `connectTasks`
and `writeQ` the attributes of the transport. Messages are numbered as they are sent, so a set is enough
for the queue: it is flushed in the order of the numbers. `sent[m]` is what was written before `m`. `NestedConnect` says whether
`asyncio.wait_for` runs the connect in a task of its own, as it does before Python
3.12: then the task that dialled resumes only after the callbacks of the new
connection. `accepted` are the peers whose socket was accepted while its `connection_made` is only scheduled
(`call_soon`): `AcceptedMade` runs it and adopts the connection whether or not the transport was closed meanwhile, as
`_connectionMade` does. `closeTransport`, which empties `_connections` before that, does not reach such a
connection and nothing else closes it: `overtaken` remembers whose it is, and `ClosedHoldsNothing` promises
nothing of it. Octets are `StreamFraming`'s, with 8 values instead of 256.

**UsmSync.** The agent has an engine ID, boots (and the file they are kept in) and a start
time; the manager has the engine ID it discovered, a timeline and its expiry queue, and
the engines it cloned its user for. Messages are authentic: a message carries what its
sender put into it, however late it arrives. The initial state chooses the network, which
keeps messages for as long as it likes or delivers before the timeout, and the agent: pysnmp's
own never advances its engine time, one of another make does. **Usm** is the rest of the security
model, check by check: of any message against any engine.

**FlipFlopFsm, MibInstrum, TableRow.** `state`, `status`, `idx` and `failed` are the locals of
`flipFlopFsm`; the tables are `fsmReadVar` and `fsmWriteVar`. A step is one handler
applied to one binding, or the change of phase. `MibInstrum` gives the handlers of a scalar
instance; `syntax`, `newSyntax` and `oldSyntax` are its attributes, and an
instance of the application's own may fail in its commit. `TableRow` gives the handlers of a
row: the dictionaries of its columns (`vars`, `createdInstances`, `destroyedInstances`,
`rowOpWanted`), the wish for a row operation that a column raises, `manageColumns`, which
has the other columns follow, and RowStatus' state matrix. `createUndo` is not there because
nothing calls it: `writeUndo` turns every wish into one of destruction first.

**EngineConfig, Lcd, Notification.** `EngineConfig` has one operator per function of
`entity/config.py` on a record of tables. `Lcd` adds `cg` and `no`, the configurators' dictionaries
with their use counts. The code's `unconfigure` takes credentials one by one, and addresses, transports and users' clones
within; what it leaves does not depend on their order, so `UnconfigureKeys`, `DelV3Users` and `DelTransports` say what goes in all: the entries
with no more uses than are taken back (`Spent`). `Notification` is `send_notification` from its configuration to the
result of its future: `SendVarBinds` loops over the targets of the notification's tag
as the code does, filters and access included, and `Acknowledge`, `Report`, `TimeOut` are what
`processResponsePdu` does with what comes of one target. The call may be cancelled, the rows
may be removed and written again between any two of these, and so may each of the transports.

A user has a user name, by which the cache knows it, and a security name, which need not be the same. `addV3User` writes its row
under the security name (the row's own name is taken from its index, whatever the call sets), and so do the clones made of it for
other engines; `delV3User` is called with the user name (`hlapi/lcd.py:168`, `274`). `key` and `securityName` of a user keep the two
apart: where they differ, nothing is deleted, the own row is written over by the next keys, and clones stay as they are.
`spoiled` is a history variable: the users whose rows a refused call deleted or emptied. The cache then still has the
credentials it had (`hlapi/lcd.py:163-172`), so giving these again is taken for configured and writes nothing; a user is mended by
other credentials that are accepted, or by being taken back.

A request is `open` as long as the transport it went by is there: only then can an answer or a report come. A retry of one whose
transport is gone raises `CarrierError`, which the handler at `entity/rfc3413/ntforg.py:297` does not catch, after the request left
`pendingReqs` (`NoTransport`): its target stays in `pendingNotifications`, and the timer the exception came through ends. `orphaned` are the
notifications this happened to, and those that were outstanding when the last transport went.

**Vacm, AccessControl.** The decision is an operator of the tables; the state machine has
the tables, and the copies `isAccessAllowed` renews when a branch version changed.

**MibBuilder.** `loadModules` and what it calls is a stack of frames, one step per
import, fragment or failure, so that modules load others in the middle of their own
loading. A world says what imports what, what fails, and where copies are: in two sources, in a corpus,
at the compiler's. The second half has the instrumentation's tree and its rebuilding in front of an operation.

**Components as operators.** Where nothing of a component interleaves within a call, its
methods are operators from a state to a state, and `MCAlgorithms` has their histories: all
sequences of calls up to a length, `input.x` being the component's state with what was asked of it.

**Algorithms.** Names, values and keys are small numbers and short sequences; each module's
head says what stands for what. `Walk` knows agents as functions from names to names, honest ones
and any other. `Usm` leaves digests and ciphers free: a digest is the message it was made of.
`NextId` has a call as three steps of a thread, between which the others run.

## 3. What the runs show

`pass` runs finish without error; the `violation` run shows, by a counterexample, that the code does not do what
one of its own comments says; `PROJECT.json` quotes it under "findings".

| run | result | properties | shows |
|---|---|---|---|
| `cycle_safety` | pass | `TypeOK`, `GeneratorAndDispatcherAgree`, `KnownReplyHasRequest`, `KeptWhileAwaited`, `ExpiryIsScheduled`, `ImplementsServiceSafely` | the books of the three layers agree, a known reply has its request, a message awaited is not forgotten, one remembered will expire, each request completes at most once, by its own answer or an error |
| `cycle_live` | pass | `AcceptedIsPursued`, `ImplementsService` | every accepted request is awaited until reported, sent at most once per retry, and completed in the end |
| `stream` | pass | `QueueIsServed`, `NoSilentLoss`, `InOrder`, `ComesToRest` | the live connection stays known, losses are reported, order is kept, the queue drains, a closed transport ends without connections |
| `set` | pass | `SetIsAtomic`, `OperationEnds` | whatever fails, only tested values are stored, nothing is put aside for later and the machine stops; a SET the undo is enough for (`Undoable`) is all or nothing |
| `row_status` | pass | `RowIsWhole`, `RefusedLeavesNoTrace` | one row under all sequences of SETs of two bindings: whole or absent; refused means unchanged; done means as asked |
| `responder` | pass | `CachesAgree`, `OwnIdentity`, `DeferredEnds` | requests that interleave are decided with their own identities; caches and job counts agree through every failure; deferred requests end |
| `usm` | pass | `ManagerKeepsTrack`, `ServedInThisBoot`, `Recovers` | no request of an earlier boot is served, replies find their user, timelines expire; after restarts and replacements the manager gets answers again |
| `manager` | pass | `UsesAreCounted`, `CredentialsInEffect`, `BooksCloseTogether`, `ReportedOnce` | shared rows are there as long as they are counted, and no longer, whatever fails or is taken back; keys change, are refused, cloned and taken back, under one security name or another: those in effect are those given last; a notification to several targets, over transports that come and go, is reported once, when the last is over, and its call returns |
| `access` | pass | `DecidesAsConfigured` | every decision is the one RFC 3415 makes of the tables as they are now, and what a user was given it has |
| `access_missing_view` | violation | `NotGivenIsDenied` | a user configured without a write subtree may write |
| `builder` | pass | `LoadsAreWhole`, `ServesWhatIsLoaded`, `CallsReturn` | chains and circles of modules load, fail, unload and load again without leaving one half loaded or twice loaded; operations serve what is loaded; every call returns |
| `algorithms` | pass | ten, below | every algorithm against what it has to compute over all inputs of a bounded size, and the components of section 2 over all histories of a bounded length |

Many properties of the table are conjunctions of named parts, one per thing that can go wrong, and
each part but those of `CredentialsInEffect`, which share one, has a mutant of its own. Outside `algorithms` they are:

| property | parts |
|---|---|
| `AcceptedIsPursued` | `PendingIsAwaited`, `AttemptsBounded` |
| `QueueIsServed` | `TypeOK`, `OpenIsKnown`, `QueuedIsUnderWay` |
| `ComesToRest` | `QueueDrains`, `ClosedHoldsNothing` |
| `SetIsAtomic` | `TypeOK`, `NothingPutAside`, `AllOrNothing` |
| `RowIsWhole` | `RowWhole`, `DoneAsAsked` |
| `RefusedLeavesNoTrace` | `RowTypeOK`, `RefusedChangesNothing` |
| `CachesAgree` | `TypeOK`, `AnswerableHasSecurity`, `JobsCountTasks`, `PendingIsServed`, `TransportInfoIsLive` |
| `ManagerKeepsTrack` | `TypeOK`, `ReplyHasUser`, `TimelineIsQueued` |
| `LoadsAreWhole` | `TypeOK`, `RecordedCopyIsLoaded`, `LoadsAreTracked`, `NothingHalfLoaded` |
| `UsesAreCounted` | `AddressesResolve`, `RowsAreCounted`, `ParametersCovered` |
| `BooksCloseTogether` | `TypeOK`, `BooksAgree`, `ReportedWhenOver` |
| `ReportedOnce` | `Completes`, `ImplementsService` |
| `CredentialsInEffect` | `CachedInEffect`, `NoneTakenBack` |
| `DecidesAsConfigured` | `TypeOK`, `DecidesByTheTables`, `GivenIsAllowed` |

`TypeOK` of each module with variables is one of them. Those of `algorithms`:

| property | about | parts |
|---|---|---|
| `IdentifiersAreUnique` | identifiers, drawn by two threads | `IdsDiffer`, `IdsRefills`, `IdsNeverRunOut` |
| `CorporaAnswerAsOne` | corpora, sources and types of modules | `CorpusKeys`, `CorpusWalk`, `CorpusOrder`, `CorpusPrefix`, `SourceReads`, `SynthesisTypes` |
| `NamesResolve` | view, indices, identities, bindings, notifications | `ViewPrefix`, `ViewLabels`, `ViewNext`, `ViewNewest`, `ViewAsks`, `IndexNames`, `IndexAugments`, `IdentityForms`, `IdentityValues`, `IdentityNotification` |
| `WalksAreComplete` | tree of an agent; walks of a manager | `TreeNext`, `TreeGet`, `WalkShows`, `WalkBulk`, `WalkStops`, `WalkGenerates`, `WalkV1` |
| `UsersAreAuthenticated` | user-based security and its services | `UsmLevels`, `UsmLearns`, `UsmPair`, `DigestPlaced`, `CipherVectors`, `KeyMaterial` |
| `MessagesAreMatched` | message processing; communities | `MpAnswers`, `MpAnswered`, `MpSecurity`, `CommunitySender`, `CommunityTargets`, `CommunityExchange` |
| `VersionsTranslate` | conversion between versions | `ProxyResponse`, `ProxyTrap` |
| `TransportsDeliver` | framing, timers and transports, datagrams | `FramingCuts`, `FramingWhole`, `DispatcherTimers`, `DispatcherTicker`, `DatagramSends`, `DatagramClose` |
| `KeysAreAgreed` | change of keys | `DhRows`, `DhPairs`, `DhCandidates`, `DhKeys` |
| `ConfigurationIsCurrent` | configuration, lookups, locks, notifications | `ConfigInitial`, `ConfigShortcuts`, `TargetLookups`, `LockSets`, `NotificationOrder`, `NotificationFilter` |

### The finding

`isAccessAllowed` raises every refusal but one: for a view without families it returns it
(`proto/acmod/rfc3415.py:417`), and its callers look at exceptions only. `addVacmUser` writes no families for
an empty subtree, and says in a comment that this denies access. `access_missing_view` configures such a user, and it
may write. `setInitialVacmParameters` gives `None` as the unauthenticated user's write view, so it is concerned too.

### Conditions the passing runs depend on

Some properties hold of the code under a condition only. The condition is part of the property
or of the run's constants; outside it the model leads to these behaviours of the code.

Requests and transports:

* `IdsDiffer` excepts values that two threads refilled at once. At the wrap two consecutive values both refill, so
  two threads suffice, although the comment in `nextid.py` says it takes about `increment / 2` of them; so does one thread that is preempted in a
  refill while others draw half an increment. A refill just below the maximum also issues values above it.
* `KeptWhileAwaited` needs a timeout of at most the cache's lifetime (600 ticks in the code,
  whatever the tick is set to): with a longer one a response in time is dropped.
* `PendingIsAwaited` and `ImplementsService` are checked without SNMPv3 reports: for a report without
  bindings `processResponsePdu` drops the request from its books and then fails for want of an
  `errorIndication` (`cycle_safety` includes such reports; its properties tolerate them). They are
  checked without an outage too: a retry that finds no transport raises `CarrierError` through `handle_timeout`
  (`carrier/asyncio/dispatch.py:67`), whose task ends, and nobody's request times out any more.
* `AttemptsBounded` is checked without discovery: a timeout clears the discovery count and a
  discovery the retry count, so a peer that alternates is asked without bound.
* A failed connection costs a retry, as a timeout does; it does not fail the request outright.
* `stream` has `NestedConnect = FALSE` (Python 3.12 and later). Before, a message can be queued while a connect
  that has ended is still listed (`stream/base.py:352`), and nothing flushes it. A message queued for a connection being
  dialled is dropped, with a report, when an older connection to the peer is finally lost (`NoSilentLoss` counts
  the report). The framing does not hold short lengths against `maxMessageSize`.
* `DatagramSends` excepts a `connection_made` that failed: an option or a queued address that raises leaves the rest of the queue
  behind the open socket; later sends overtake it, and `transportsAreWorking` stays true, so `runDispatcher`
  does not return. A failure to bind in a running loop is reported to nobody. What is sent after the loss of a socket
  waits until the transport is opened again; the model opens one only when the old socket is gone.
* `DispatcherTimers`: a tick early by up to a twentieth of the resolution counts although a timer of the default interval is not yet due,
  so such a timer misses every other tick at most; a callback that unregisters its timer makes the tick skip the next one;
  `setTimerResolution` also moves timers that named the old default explicitly. `DispatcherTicker`: a first
  `registerTransport` that is refused starts the ticker all the same; `_cancel_timer` while another loop runs raises and
  leaves the task listed; closing the last transport of an automatic dispatcher closes the dispatcher with requests still in it.
* `MpSecurity` counts what stays: a security state is held for good after a refusal without a report, a report ended by
  `loopTerminated`, and a v1 `nonReportable`. A v1 or v2c PDU keeps the unique identifier when its message cannot be secured.

Objects and rows:

* `AllOrNothing` is about `Undoable` requests. When a commit fails before the last binding, `writeUndo`
  assigns `None` to the instances that had nothing put aside; when the read that follows a write is refused, the
  write stays and an error is answered.
* `row_status` has one row, and `RefusedChangesNothing` is about SETs refused in their test: one that destroys the row and
  names another column too is answered with an error later, when the row is gone (`smi/mibs/SNMPv2-SMI.py:1294`). What a failed SET on two rows leaves
  in `createdInstances` can make a later creation break off half way. createAndGo on an absent row activates it without the check for missing
  values, and destroy on an absent row creates it with status notExists; `DoneAsAsked` allows for both.
* `LockSets`: `TestAndIncr` wraps at 2147483646, so its largest value is never held; a repeated SET of the same value fails.
* `TreeNext`: a GETNEXT asks access control for the object, or the name that was searched from, rather than for the instance.
  A counted index that was cut off is silently shortened, an empty IMPLIED index raises, and an augmenting row's suffix
  leaves out indices of another table.
* `TransportInfoIsLive` excepts tasks cancelled before their first step, and
  `PendingIsServed` exceptions outside pysnmp's own hierarchy: both leave their entries behind.

Security and configuration:

* `Recovers` assumes an agent whose engine time advances and a prompt network; the manager takes over the boots and time of
  every authenticated message before it checks it against them. `ServedInThisBoot` has both kinds of agent on any network.
* `UsmLevels`: a message of level authNoPriv with boots and time 0 passes the level check of a user with privacy, and is
  refused by its time only. Keys of users of any engine are used as they are stored.
* `DigestPlaced` excepts messages with a run of zeros ahead of the digest's field as long as the field, in the engine ID or the user
  name: the digest is put there. `CipherVectors`: vectors come again when the counter comes round (2^32 for DES, 2^64 for AES);
  the services are shared by all engines of a process, so that two threads may take the same value; a
  restart begins at a random one.
* `CommunityExchange` is about names with rows of one model: `_sec2com` keeps the last row's model for a name.
* The copies of `AccessControl`, of the community model and of `TargetCache` watch the branch version of one column. A
  source address that changed alone, or a transport that was replaced, leaves a remembered target as it was.
* `DecidesByTheTables` is about names at least as long as the wildcards of the families they meet: a shorter one is
  an `IndexError`. Families of equal length are ordered by their subtree with wildcards as zeros.
* `ConfigShortcuts` is about users that share no group or context; deleting one deletes these, and adding a
  user again for reading leaves an earlier write view. `delTrapUser` on unconfiguring uses the default context.
* `CredentialsInEffect`: after a call that was refused (keys that do not fit, a protocol this build does not have) the user's rows are deleted or without
  keys, but the cache has the credentials from before. Giving those again is accepted and writes no row; requests fail until other
  keys are given. So a user in `spoiled` is promised
  no more than that no row of it has keys older than the cached ones. And of a user whose
  security name is not its user name only the own row is spoken of: `configure` and `unconfigure` delete rows by the user name
  (`hlapi/lcd.py:168`, `275`), but `addV3User` writes them under the security name (`entity/config.py:362`), so nothing is deleted. The own row
  is written over when the keys change; the clones for other engines keep the old ones, and requests there
  are signed with them, which is what the deletion is there to end (`hlapi/lcd.py:155`); taken back, the user leaves all its rows. `NoneTakenBack` is about
  rows under the user name.
* `BooksAgree` and `Completes` except notifications that were outstanding when the last transport went, and, for `Completes`, everything after the timer
  ended by that or by a `CarrierError`: their targets stay in `pendingNotifications`. `BooksAgree` still promises that no request is pending
  for a target that is not awaited.
* `RowsAreCounted` is about parameters and addresses: credentials have no count, so that one `unconfigure` removes them for all.
* `Completes` and `ReportedWhenOver`: the first target that cannot be sent to ends the loop over the targets; an inform
  that every target's filter suppresses completes without having been sent; a trap that failed sets the future, and the
  call scheduled for it then raises `InvalidStateError` into the loop.
* `DhRows`: a row is found by the end of its name, the user's with its length in front. `DhCandidates`: copies of the SET may
  arrive after the call ended, and an agent's `wrongValue` for a copy still carries the candidate.

Modules and names:

* `ServesWhatIsLoaded` is about histories that unload nothing that was indexed: unloading a module with instances or
  columns makes every later rebuild raise "not registered", for good; an instance without its object likewise.
* `NothingHalfLoaded` excepts a behaviour fragment that fails after the module exported itself, and a corpus
  module that augments a row of a module in a circle: both are exported and not marked as loaded. A circle between sources may find
  the corpus' copy of a module first. A module the application exported itself can be unloaded with a `KeyError` only.
* `ViewAsks`: an OID asked for in vain is remembered until the corpus changes: after `unloadModules` what was placed before is not
  placed again, and a module that failed to load is not tried again.
* `CorpusWalk` is about corpora in which a module's OIDs are its own: the composite `node` and `next_node` pass over an owned node
  when another module's node that is not comes first at the same OID.
* `ViewLabels` is about complete MIBs: labels are wrong when parents are not loaded.
* `SourceReads`: bytecode by hash has no time, so a module there is no text of is listed but not found.
* `IdentityForms`: an empty module name with a symbol and a sub-identifier that together are another node gets the sub-identifier twice;
  part of a column's indices is refused by symbol, but an OID that cannot be decoded gets one opaque index. `IdentityNotification`: one that
  fails half way keeps its bindings, and trying again repeats them; two objects of one OID are both there.
* `NotificationOrder`: of two uptimes of the caller the second replaces the first if that is in front, and otherwise stays.
* `WalkStops` and `WalkGenerates`: `BulkCommandGenerator` with non-repeaters never stops by itself, `bulk_walk_cmd` with them advances these columns
  too; GETBULK of more columns than `maxVarBinds` (64) is always answered with genErr; rows in the middle of an answer
  are not checked for names that increase; with `ignoreNonIncreasingOid` the application has to stop by itself.

### Bounds, and why they are enough

* **RequestCycle**: two requests (one peer for safety, so that they share a sweep; two
  peers for liveness, so that one's trouble can hurt the other), one retry and one
  discovery, `MaxSends` 5 for two requests: both are retried and one of them twice. `Timeout` 2 and
  `Lifetime` 2 let a tick pass without expiry, and keep the code's relation that a message outlives the
  request's timeout. One connection failure, one outage.
* **Responder**: three requests of two requesters, so that a requester has one request
  and the other two; all five ways the instrumentation ends; one close and reopening.
* **StreamTransport**: three messages, two connections, two peers, one that listens and one that
  calls: a connection and its successor, or one of the other peer's.
* **UsmSync**: two engine IDs, two restarts, boots that wrap, two messages in flight
  and one repeated. On the network that is not prompt no time passes, so that only boots can tell
  the agent's lives apart; where time matters it runs to 3 with a window of 1.
* **MibInstrum**: three objects with any values, set or not: one plain, one that cannot be read and whose commit fails
  before it puts anything aside, one whose commit fails after; all requests of up to two
  bindings out of these, a missing object and a bad value. One binding that
  fails and one that must be undone are the case that matters.
* **TableRow**: one row with an index, a data and a status column, all SETs of one or
  two bindings, in sequences of any length.
  Sequences matter more than width here: what one SET leaves behind is met by the next.
* **Manager**: two targets, each of a transport of its own that may fail to open, one notification with one retry, one discovery and one report.
  Two v1 communities with the same parameters and a user with two secrets, one that is refused, and a second security name; one engine to
  clone for. Two uses of parameters are counted at a time (`MaxUses`), of the same or of two, and calls that take them back are free, so that
  sequences have any length: a row's uses are taken by one credentials twice or by two once, any of them ends first, and a refusal
  comes before or after a use.
* **AccessControl**: one user, contexts and subtrees that are prefixes of each other, a wildcard, three rows of the access and view tables together.
* **MibBuilder**: three modules are the least with a chain, a circle and a failure at its end; four worlds that place them differently.
* **MCAlgorithms**: trees of depth three, two columns or two corpora or two threads, histories of four calls
  (six of timers; elsewhere as long as they lead anywhere new). What is a large number in the code (an octet, a block,
  the boots, the width of a key) is a small constant, so that the boundary is within reach. Section 2's algorithms treat
  elements one by one or in pairs.

Deadlock is checked except where the system may stop: a manager whose requests
are all done and whose bounds are spent, a stream transport with nothing to do, and an algorithm that was evaluated.

### Fairness

* `Tick` and `Sweep` (RequestCycle): the timer task runs as long as it lives and a sweep is a
  loop. Nothing is assumed of the network: no reply need ever come.
* `Tick` and `RunTask` (Responder): the loop runs its tasks, and what
  an asynchronous instrumentation waits for comes. Without that, a request may wait for ever, which the code allows.
* Connect tasks, the loss of broken or closing connections and scheduled reports (StreamTransport): a
  connect has a timeout (`connectTimeout`), the rest, `connection_made` of what was accepted
  included, are callbacks the loop has been given.
* `Send`, `GiveUp`, `Deliver` and strongly `TimerTick` (UsmSync): the application goes on
  asking, a timeout ends, messages arrive, and time passes however often other things happen in between.
* `TrapFun`, `Resume` and `TimeOut` (Notification): callbacks the loop has been given, and the dispatcher's expiry, which `cycle_live`
  shows. No answer need come.
* `Step` (MibInstrum) and `Loading` (MibBuilder): an operation, or a load, is one call.

## 4. What is proved

The modules `...Proofs` are checked by TLAPS down to every leaf. Each theorem is about every value of the
constants: any requests, peers, modules, objects, timeouts, and any bounds.

| module | theorem | says | where |
|---|---|---|---|
| `RequestCycleProofs` | `TypesHold`, `BooksAgree`, `RepliesFindRequests`, `ExpiryStaysScheduled` | `SafeSpec => []P` for `TypeOK`, `GeneratorAndDispatcherAgree`, `KnownReplyHasRequest`, `ExpiryIsScheduled` | |
| | `SafelyImplementsService` | `SafeSpec => Service!SafeSpec`: the request cycle implements the abstract request service | |
| | `AwaitedMessagesAreKept` | `SafeSpec => []KeptWhileAwaited` | `Timeout <= Lifetime` |
| | `RequestsArePursued` | `SafeSpec => []AcceptedIsPursued` | `Undisturbed` |
| `ResponderProofs` | `CachesAlwaysAgree`, `IdentitiesDoNotMix` | `Spec => []CachesAgree`, `Spec => []OwnIdentity` | |
| `StreamTransportProofs` | `LossIsReported`, `WrittenInOrder` | `Spec => []NoSilentLoss`, `Spec => []InOrder` | |
| | `QueueAlwaysServed` | `Spec => []QueueIsServed` | `Separate` |
| `UsmSyncProofs` | `ManagerAlwaysKeepsTrack` | `Spec => []ManagerKeepsTrack` | |
| | `DurableServesInThisBoot` | `Spec => []ServedInThisBoot` | `Durable`, `MaxRestarts < BootsMax` |
| `MibInstrumProofs` | `SetsAreAtomic` | `Spec => []SetIsAtomic` | |
| | `RefusedSetsLeaveNoTrace` | `RowSpec => []RefusedLeavesNoTrace` (`TableRow`): any columns, any number of rows and bindings | |
| `MibBuilderProofs` | `ModulesAreLoadedWhole`, `TreeIsThatOfTheModules` | `Spec => []LoadsAreWhole`, `Spec => []ServesWhatIsLoaded` | |
| `AccessControlProofs` | `Decided` | `Spec => []DecidesAsConfigured` | |
| | `BestIsSelected` | the maximum of the code's tuple is the row, and the only one, RFC 3415's narrowing leaves | finite tables |
| `NotificationProofs` | `ManagerCountsUses`, `ManagerKeepsCredentials`, `BooksAreClosedTogether` | `SafeSpec => []P` for `UsesAreCounted`, `CredentialsInEffect`, `BooksCloseTogether`, with what these two except (section 3) | |
| | `NotificationServes` | `SafeSpec => ImplementsService`: `send_notification` implements the abstract request service; with `Completes` it is `ReportedOnce` | |

Every module states what its proofs assume of its constants in one named ASSUME, which the runs evaluate: the
constants have their types, and what the code makes impossible does not occur (a timeout of zero ticks, a
requester that is nobody). The conditions in the last column are conditions of the code's behaviour, not of the proof; outside
them section 3 says what happens:

* `Timeout <= Lifetime`: a request times out no later than its message is forgotten;
* `Undisturbed`: no outage, no report without an error, no discovery. `AttemptsBounded` is false otherwise: a discovery
  starts the retries over and a retry the discoveries, so that a peer that answers with both alternately is asked for ever;
* `Separate`: connects are not nested (Python 3.12 and later) and no peer calls from the address it listens at;
* `Durable` and `MaxRestarts < BootsMax`: the agent's boots survive a restart, and it restarts fewer times than there
  are boots, 2^31 - 1 in the code. (`stored = 0 /\ boots = 2` of the invariant is an engine that came with a new engine ID:
  it has no file of its boots until it starts again with the same one.)

Handles and message IDs are assumed to be drawn once, as the model draws them in sequence. That is what `IdsDiffer` checks
of the generator within a window.

### The inductive invariants

None of the properties is inductive. Each invariant was checked by TLC on the run's constants before it was proved.

**RequestCycle.** Whether the books still
agree after `SendPdu` depends on the new handle not being in any of them, and a handle
may linger in the message processing model's handle index long after its message
expired. So `IInv` is

* `Books(cache, mp, pendingReqs, jobs, drawn, wire)`: the properties' content about
  the records, and that every handle and message ID in any of them, or on the wire, is below
  the next to be drawn, and that the message processing cache is sound (`CacheOK`: its
  queue names exactly its entries, each entry's handle leads back to it). It is a predicate on values rather than
  on the variables, because `processResponsePdu` works on caches its caller is in the
  middle of changing;
* `Told`, `Surroundings`: types of the rest;
* `Waiting`: a request in the books is one its application waits for, without which a
  callback could be a second one;
* `Sweeping`: a sweep's remaining entries are still in the cache. This is what makes a callback
  in the middle of a sweep harmless: starting a request adds an entry, and only the
  sweep itself removes any.

`DropMessages`, `DropRequest`, `DrawOnly`, `AddMessage` and `AddRequest` say what each kind of change to the
records does to `Books`; one lemma per action combines them; `PushByMsgIdOK`, `PopByMsgIdOK`, `PopBySendPduHandleOK` and
`ExpireCachesOK` say what the cache's operators keep. Refinement follows action by action: every action is a step
of the service (accept, refuse, complete) or leaves `phase` and `result` alone, and
`Waiting` gives the guard of the completing step. `KeptWhileAwaited` needs in addition that a message has at least as many
ticks left as its request, the sweep that is in between the two counted; `AcceptedIsPursued` that no
transport is missing, so that every retry is sent, and that the n-th retry follows at most n messages.

**Responder.** `IInv` adds that nothing is remembered of a request before it comes (`Fresh`: state references are not met twice), that
tasks are cancelled only by a close, and that a waiting task's execution point names its requester (`PointIsOwn`): access
control, consulted after the wait, reads it. `JobsCountTasks` needs that the tasks are finitely many.

**StreamTransport.** `MInv` is about messages: nothing is queued for a peer with an open connection, and what is queued for a peer was sent
after all that was written to it (`QueuedLast`), however connections came and went. `SInv` is about the queue being served:
a peer being dialled has no open connection (`DialledIsNotOpen`), so the connect under way is the one that flushes its queue, and a
connection whose task has not resumed has taken its peer's messages (`MadeIsServed`). An accepted connection that is about
to be made is its peer's only one (`AcceptedIsNotOpen`), and after a close only those it overtook are open (`ClosedIsQuiet`).

**UsmSync.** `TInv` adds that whoever has a request of the manager's under way is an engine its user was cloned for. `BInv`
says where boots come from: those in a message or in the timeline are the agent's of `j` starts ago, for a `j` at least the number of starts
since the message was sent, counted back over the wrap (`Earlier`). Boots recur after `BootsMax` starts, which is why the number of restarts is bounded by it.

**MibInstrum.** `Phases` relates the phase to how the operation goes; `Aside` says which instances still hold an old
value, and that the phase which clears it has yet to come to a binding of theirs; `HeldValues`, for the requests
`writeUndo` is enough for, what every instance holds at every binding of every phase. The two tables of the state machine enter by
`TableEntry`, `WriteTable` and `NextPhases`.

**TableRow.** It is in `MibInstrumProofs`, too, as it shares the state machine. What a phase did to earlier bindings
and to other columns is not undone after a refusal, so it must not show: `RowPhases` says that until the first commit every cell
reads as it did when the operation began, and that a refused SET goes through `writeTest`, the clean-up and the reads only. The handlers are
treated as what they make of a table: `TableOK` says it has its types, `Alike` that two tables read the same,
`Follows` that a phase keeps the first and, unless it commits or undoes, the second. Each `create*` and `destroy*` of a column has such
a lemma, and so has each `Column...` handler. That the columns of a row do so one after another (`manageColumns`) is shown without induction, by the
first column after which they would not (`OrderFollows`).

**MibBuilder.** `LInv` is about the calls that have not returned: a copy is on the stack once and is not recorded meanwhile; a
corpus module past its export has its own symbols there (`HasSymbols`); and symbols of a module that is not recorded belong to such a call, to the application
or to one of the failures the code does not undo (`Accounted`). `PushedCalls`, `PoppedCalls` and `ReplacedCalls` say what the three changes of
the stack do to it. `XInv` is about the tree: as long as nothing indexed was unloaded, what is attached is what was indexed last, and is still loaded.

**AccessControl.** `IInv` is about the tables: they are finite, their indices and views are those of configured users, and, as long
as only whole calls were made, each row names its own user's views, no family excludes and the rows of every call in force are there
(`Granted`). Beyond that the theorem is about the decision. The code takes a maximum, of a tuple of four numbers and of
sorted entries. `LastExists` has such a maximum in every finite set with a strict order (by the library's well-foundedness of the
strict subset order, without induction); `PrecedesIsStrict` and `BeforeIsStrict` say the orders are strict. `BestIsSelected` is
that comparing tuples equals narrowing candidate by candidate, `MatchesWhatItCovers` that blanking a name and comparing prefixes
equals agreeing wherever the mask has no 0.

**Lcd, Notification.** `LcdInv` is about the values of the tables and the caches, those a step reads and those it leaves: a cache
is a `Book`, whose entries are counted from 1, have names of their own among those drawn, and are exactly the table's rows. What makes
the counts add up is how the caches cover one another, which no property says by itself. `unconfigure` takes uses back per credentials,
although they were counted per call: so the uses of parameters must be at least as many as the credentials that have them
(`AuthOK`), and as the uses of each address of theirs (`AddrOK`, or an address would outlive its parameters), and the uses of a transport
as many as the addresses in its domain (`TransportsOK`, or a transport would go under an address). Two entries with one name would let the last use of
one take the row of the other. `UsersOK` has the rows of a user: its own and clones of it; `HoldsCached`, that they have the keys of the cached credentials, or none if it is spoiled;
`HoldsNone`, that rows under the name of a user that is not there or goes by another name have none. Each operation on a user writes under one security name and
deletes under one user name: `UserUndisturbed` and `OthersUndisturbed` say that this leaves what the two say of everybody else.
`NtfInv` has the books, that nothing is awaited before a notification is sent, and what the dispatcher counts (`Counted`): all of a notification's requests,
or none, if it was made after they were sent. Those went by transports that are gone, so no answer finds a job that was not counted.
The lemmas go by cache (`UsedBook`, `ReleasedBook`), then by what the caches say of one another (`AuthUsed`, `AddrUsed`, `TransportsUsed` and the same
`...Released`), then by call. The rows of a notification follow its target's tags one by one, by a recursive function; that its `Book`
holds after the last is shown by the least tag after which it would not. That an operation on credentials does not disturb another's rows
rests on `LcdAssumption`: keys of the cache tell communities from users and users from each other, which is so because the code makes
them of the community's index, or of the user's name and the engine's ID; and no user has the user name or a security name of another as its
security name, without which two users would be one row of the table.

### Only model-checked

* Liveness (`ImplementsService`, `ComesToRest`, `OperationEnds`, `DeferredEnds`, `Recovers`, `ReportedOnce`, `CallsReturn`) and
  everything with ENABLED are outside what TLAPS proves here.
* Induction over data is, too: what a fold or a recursive operator computes for every sequence. The modules of `algorithms`
  are recursive nearly all.
* `RowIsWhole` of `TableRow`: that a row is whole again after an undo rests on what the bindings before the failing one asked of which row, as
  the undo takes every wish for one of destruction. The run has one row; nothing is claimed of SETs on several.

## 5. What is not modelled, and the plan

Worth proving next: `RowIsWhole` for SETs that do not fail after their first commit, and of `algorithms` the components whose calls
are not recursive.

Left out:

* digests, ciphers and ASN.1: arithmetic and encoding out of a model checker's reach; a message is
  authentic or it is not, and has its parts;
* the type classes of `proto/rfc1902.py`, `rfc1155.py` and `proto/api/`: definitions and accessors over pyasn1, whose
  state is pyasn1's;
* formatting and parsing of values for people (`prettyPrint`, display hints, `smi/rfc1902.py`'s printing);
* the report of shadowed modules, the writing of bytecode, the corpus' file format: input and output;
* socket options, name resolution and address families of the carriers;
* compiled MIB modules (generated), the blocking front ends of `hlapi/` (one call of the asynchronous one each), the
  deprecated one-liner API, the code and corpus benchmarks under `tools/`, logging.
