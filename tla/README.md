# A TLA+ model of libhidl

libhidl is the runtime library behind Android's HIDL interfaces: the types that
generated proxies and stubs use, the transport helpers that turn interfaces into
binders and find services, and a few default services. This directory models the
parts of it that keep state shared by several threads or processes, that manage the
ownership of memory and handles, or that compute layouts and encodings, checks them with
TLC and proves the most important properties with TLAPS.

All paths below are relative to the repository (`src/`).

## Inventory

| Component | State | Operations | What is hard | What makes it correct |
|---|---|---|---|---|
| `SynchronizedQueue` (`base/include/hidl/SynchronizedQueue.h`) | `mQueue`, `mMutex`, `mCondition`, `mQueueLimit` | `push`, `wait_pop`, `size` | the notification comes after the unlock; spurious wake-ups; the limit | bounded, FIFO, nobody sleeps on while there are items |
| `TaskRunner` (`base/TaskRunner.cpp`) | `mQueue` (a `shared_ptr`), the detached worker | `start`, `push`, destructor, the worker's loop | the destructor races with pushes, with the worker and with tasks that push; lifetime of the queue | tasks run one at a time, in order, each once, all of them; the worker ends |
| Binder object map (`transport/include/hidl/HidlBinderSupport.h`, `ConcurrentMap.h`, `Static.cpp`) | `gBnMap`, `gBnConstructorMap`, reference counts | `toBinder`, `set`, `get`, `eraseIfEqual` | a binder may be dying while the map still names it | one live binder per interface; no entry outlives its binder |
| Service lookup (`transport/ServiceManagement.cpp`) | `gDefaultServiceManager` and its lock, a `Waiter` per call | `defaultServiceManager1_1`, `waitForHwService`, `onRegistration` | three processes; oneway notifications; restarts; waiting with a lock held | one proxy; a wait ends when and only when the service was registered; no subscription is left behind |
| `PassthroughServiceManager` (same file) | `dlopen` references, the clients registered | `get`, `preloadPassthroughService`, `registerReference`, `debugDump` | libraries that do not load or do not have the instance | the first library that has it serves, and only that one stays open |
| Token manager client (`transport/token/1.0/utils/HybridInterface.cpp`) | `gTokenManager` and its lock | `createHalToken`, `retrieveHalInterface`, `deleteHalToken`, `serviceDied` | deaths and late death notices; a result used after the unlock | no null dereference; a cached manager is observed; a dead one is dropped |
| Hybrid interface (`HybridInterface.h`) | `H2BConverter::mObituaries`; an `HpInterface`'s `mHal`, `mBase`; tokens in the manager | `linkToDeath`, `unlinkToDeath`, `Obituary::serviceDied`; the token transaction, `castFrom` | HAL, client and manager die; weak pointers; lost replies | linked recipients are told, unlinked ones are not; tokens are released |
| `hidl_vec` (`base/include/hidl/HidlSupport.h`) | `mBuffer`, `mSize`, `mOwnsBuffer` | constructors, assignments, `setToExternal`, `releaseData`, `resize`, destructor | aliases after moves, lent and released arrays | one owner per array, no leak, no read outside an array |
| `hidl_handle`, `hidl_string`, `hidl_memory` (`base/HidlSupport.cpp`) | pointer, size, ownership flag | constructors, assignments, `setTo`, `setToExternal`, destructors | an object assigned from its own contents; moved-from objects | each handle closed and each array freed once; a string keeps its value |
| `Status`, `return_status`, `Return` (`base/Status.cpp`, `Status.h`) | exception code, error, `mCheckedStatus` | `isOk`, `isDeadObject`, value, `StatusOf`, moves, destructor | every error must be looked at along a chain of moves | no error is swallowed; only an error nobody looked at aborts |
| Parcel support (`transport/HidlBinderSupport.cpp`, `.h`) | none | read and write of status, version, string, vector, memory, queue descriptor, references | failing reads and writes, other endpoints, reserved codes; shared, cyclic and interior references | what was written is read back, or an error is |
| `MQDescriptor` (`base/include/hidl/MQDescriptor.h`) | grantors, handle | layout, copy, destructor | integer widths, alignment | the regions are disjoint and aligned |
| Instrumentation (`base/HidlInternal.cpp`) | callbacks, `mEnableInstrumentation` | `configureInstrumentation`, `registerInstrumentationCallbacks` | directories and libraries that fail to open | callbacks of every library searched, once |
| Scheduling and thread pool (`transport/HidlTransportSupport.cpp`) | `gServicePrioMap` | `setMinSchedulerPolicy`, `castInterface` | boundaries of priorities | what the header allows is accepted |
| Ashmem allocator, mapper, `mapMemory` (`transport/allocator`, `transport/memory`, `libhidlmemory`) | mappers by name, mappings | `allocate`, `batchAllocate`, `mapMemory` | one allocation of several fails; memories without a handle | every descriptor is closed by somebody; what can be mapped is whole |
| `hidl_array`, `hidl_version` (`base/include/hidl/HidlSupport.h`) | elements; two numbers | `operator[]`, conversions; comparison, packing | products of dimensions; bit fields | row-major order; order kept when packed |
| HIDL interfaces (`*.hal`) | none | declarations | | they state the contracts used here |

How they interact: `TaskRunner` is built on `SynchronizedQueue` and serves the
oneway calls of passthrough HALs. `waitForHwService` talks to `hwservicemanager`
through the proxy of `defaultServiceManager1_1`; the call backs (`onRegistration`,
`serviceDied`) arrive on binder threads. `toBinder` is called by every generated
proxy that passes an interface, from any thread; the destructors of generated
`BnHw` classes call back into `gBnMap`. `HpInterface` obtains its HAL through the token
manager's client, and links to its death through `H2BConverter`. `hidl_memory` is a
`hidl_handle`, a `hidl_string` and a size; `mapMemory` finds its mapper through
`PassthroughServiceManager`, which registers itself with `hwservicemanager`. Values cross
processes through the parcel functions. The containers are used by all of them,
each object by one thread at a time.

One observation with no run behind it: `transport/Static.cpp:30` defines
`gDefaultServiceManager` with the type `sp<V1_0::IServiceManager>`, while
`ServiceManagement.cpp` uses it, through its header, as the 1.1 interface.

## Modules

| Module | Models | Extends / instantiates |
|---|---|---|
| `SynchronizedQueue` | the queue, its producers and consumers | |
| `SerialExecutor` | what `TaskRunner` promises: tasks begun and finished one at a time in order | |
| `TaskRunner` | runner and worker | instantiates `SynchronizedQueue` as `Q` and `SerialExecutor` as `Abs` |
| `BinderMap` | `toBinder`, `gBnMap`, strong and weak references | |
| `TokenManagerClient` | `HybridInterface.cpp` with a manager that dies and restarts | |
| `H2BConverter` | death links of a wrapped HAL | |
| `HpInterface` | a proxy getting its HAL by token, `castInterface`, `canCastInterface` | |
| `ServiceManagement` | `defaultServiceManager1_1`, `Waiter`, `waitForHwService` with `hwservicemanager` and a service around them | |
| `PassthroughManager` | `PassthroughServiceManager` and `preloadPassthroughService` | |
| `HidlVec`, `HidlHandle`, `HidlString` | ownership in `hidl_vec`; in `hidl_handle` and `MQDescriptor`; ownership and value of `hidl_string` | |
| `ReturnStatus` | the checked/unchecked protocol of `Return` | |
| `SharedMemory` | `AshmemAllocator`, `hidl_memory`, `mapMemory`, `AshmemMapper`, `AshmemMemory` | |
| `ParcelValues`, `ParcelReferences` | values, and references between buffers, through a parcel | |
| `MQDescriptor`, `HidlArray` | the layout of a message queue; element access | |
| `Instrumentor`, `HidlTransportSupport` | instrumentation callbacks; `setMinSchedulerPolicy` | |
| `MCValueTypes` | instances of the five value types | extends `HidlVec`, `HidlHandle`, `HidlString`, `ReturnStatus`, `SharedMemory` |
| `MCHybridInterface` | | extends `H2BConverter`, `HpInterface` |
| `MCAlgorithms` | instances of the sequential computations | extends the remaining seven |
| other `MC*` | instances for TLC | the module of the same name |
| `ValueTypes_proofs` | theorems about the value types | as `MCValueTypes`, and `TLAPS` |
| `HybridInterface_proofs` | theorems about both halves | as `MCHybridInterface`, and `TLAPS` |
| `Algorithms_proofs` | theorems about the sequential computations | as `MCAlgorithms` without `HidlTransportSupport`, and `TLAPS` |
| other `*_proofs` | theorems | the module of the same name, and `TLAPS` |

Each model has a section "Plausible bugs": altered copies of single actions. No
specification uses them. They exist to show, for each property, a change to the
code that would violate it.

### Steps and variables

*SynchronizedQueue.* A block under `mMutex` is one step. `push` is two steps,
`Push` and `NotifyOne`, because the notification comes after the unlock.
`wait_pop` is `WaitPop`, then any number of `Block` and wake-ups (`NotifyOne` of
somebody or `SpuriousWake`), then `Pop`. `accepted` and `taken` record what went
in and out and exist only for the properties.

*TaskRunner.* Steps of the queue are taken through `Q`, so the queue in the runner is
the one checked before. `Destroy` and `DestroyReturns` are the two halves of the
destructor around the notification. Any thread, the worker inside a task included,
may push or destroy. Clients follow C++'s rules of lifetime: no call is under way when
the destructor starts, and `start` is called once.

*BinderMap.* `toBinder` is `Lookup` (takes the lock), `Promote` or `PromoteFails`,
`Construct` or `NoConstructor` (release it). References are shared and dropped
without the lock (`Share`, `Release`). The thread that drops the last one runs the
destructor, `Destroy`, which erases the entry if it is still its own; the generated
destructor is outside the repository and is taken from what `eraseIfEqual` is for.

*TokenManagerClient.* A call is `Begin` (lock), `GetService`, `LinkToDeath` and their
failures, and `Transact` or a failure. For `get` and `unregister` a failure is handled
inside the lock; for `create` it is `CreateFails` (unlock), `UnlinkUnlocked`,
`ClearUnlocked`, each a step that others can precede. `NullDereference` is any use of
`gTokenManager` while it is null. The manager's deaths, restarts and death notices are
external. Tearing of the unsynchronised `sp<>` itself is not modelled: the null
dereference is found without it. `unlockedFailure` is a history variable: a failure has
been handled outside the lock.

*H2BConverter and HpInterface.* `linkToDeath` and `unlinkToDeath` hold `mObituariesLock`
throughout and are one step each. `unlinkToDeath` removes the first obituary that the
code's condition accepts, assignment of `flags` included. A notice is delivered at any time
after the HAL's death and finds the obituary only if `mObituaries` still holds it, since the
transport keeps a weak pointer. In `HpInterface` every call to another process is a step
that can fail before or after it took effect; the token manager can restart and the client
die between any two.

*ServiceManagement.* Threads call `waitForHwService`. `MakeManager` takes the lock and
`ManagerReady` releases it, since the code waits in between with the lock held.
`Subscribe` creates a new `Waiter`: notices for an old one cannot reach it. The condition
variable in `Waiter` is left out: the wait has a period of one second and looks at
`mRegistered` each time, so a lost wake-up costs time and nothing else. Calls to
`hwservicemanager` can fail before or after they took effect: `SubscribeFails` and
`SubscribeLosesReply` return from `waitForHwService` at once, as the code does, and the second
leaves a `Waiter` behind; so does `UnsubscribeFails`, whose error is only logged. `unsure` is a
history variable: the threads whose `Waiter` was left that way.

*PassthroughManager.* One step per library tried. The order within a directory is
arbitrary, that of the directories fixed; each library does not load, lacks the symbol,
lacks the instance or has it.

*HidlVec.* One step per member function. An array is an address with a length; addresses
are used again after a delete. `client` holds the arrays that calling code must delete. The
contract of `setToExternal` ("It is the caller's responsibility to ensure that the
underlying memory stays valid") is the guard of `SetToExternal` and `ClientDelete`.
A moved-from vector may be assigned or destroyed but not read.

*HidlHandle, HidlString, ReturnStatus, SharedMemory.* Also one step per member function, or
two where it calls client code in between: an allocator's call runs from `Request` over
`AllocateOne` to the callback (`Receive`) and `EndOfCall`. Raw pointers may be any open
handle, the one that the object owns included. `HidlString` carries the value its user
expects (`value`) next to the characters stored. `ReturnStatus` records which errors were
raised and which the client was told of.

*Sequential computations.* `MQDescriptor` keeps the widths of `size_t` and of a grantor's
offset as constants, so that the narrowing cast and the wrap-around happen in small
instances. `ParcelValues` writes a value as the sequence of objects the code writes, any of
which may fail (`SendValue`), and reads it with the code's sequence of reads, each with its
failure. A parcel may also come from an endpoint that does not run this code (`SendOther`): a
reply with a header, without its message, or cut short; an embedded value whose parent tells
other sizes. Messages become UTF-16, which leaves nothing of one that is not UTF-8.
`ParcelReferences` runs the code's recursion with the generated code's traversal as an explicit
stack. The sender's memory is a row of cells, each a reference to one or more neighbouring cells,
so that one target may lie within another (then it is sent as a handle and a `childOffset`) or
overlap its end (then `findBuffer` refuses it, and writing stops with an error).

## Runs

| Run | Instance | Result |
|---|---|---|
| `queue` | 2 producers, 2 consumers, 2 items, limit 2, 4 accepted pushes | `BoundedFifo`, `NoLostWakeup`, and under fairness `BlockedConsumerWakes` |
| `task_runner` | 2 clients and the worker, limit 2, 3 tasks and the empty one | `NoTaskStranded`, `QueueOutlivesCalls`, the refinement `RunsSerially`, and under fairness `RunsEveryTask` and `NotedWorkerExits` |
| `task_runner_full` | 1 client, limit 1 | `DestroyedWorkerExits` is violated (finding 1) |
| `binder_map` | 3 threads, 2 interfaces, 5 binders | `Canonical`, `Findable`, `NoStaleEntry`, `DestroyedOnce` |
| `token_client` | 3 threads, all calls, 3 incarnations of the manager | `CachedManagerObserved`, `CrashOnlyAfterUnlockedFailure`, and under fairness `DeadManagerForgotten` |
| `token_client_create` | 1 thread, `create`, 1 incarnation | `NoNullDereference` is violated (finding 2) |
| `service_wait` | 3 threads, 2 registrations, 1 restart of `hwservicemanager` | `OneProxy`, `WaitIsHonest`, `NoLeakedSubscription`, and under fairness `ManagerObtained` and `WaiterReturns` |
| `value_types` | 2 objects of each class (3 results, 2 more queue descriptors), 3 arrays or native handles, 5 file descriptors, batches of 2 | `OwnedOnce`, `NoLeak`, `ElementsReadable`; `HandleClosedOnce`, `HandleNoLeak`; `StringKeepsValue`, `StringBlockHasOneOwner`; `ErrorNotSwallowed`, `AbortsOnlyOnUnseen`; `MappableMemoryIsWhole`, `FdsAccountedFor` |
| `hybrid` | 2 recipients, 2 cookies, flags 0 and 1, 3 links; 2 proxies | `LinkedIffListed`, `TokenReleased`, and under fairness `DeathIsTold` |
| `hybrid_unlink` | 1 recipient, 2 links | `UnlinkedIsNotTold` is violated (finding 3) |
| `algorithms` | see below | `GrantorsDisjoint`, `ArrayIsRowMajor`, `CallbacksOnce`, `PassthroughGetExact`, `ReferencesRoundTrip`, `ParcelRoundTrip` |
| `scheduler_policy` | both sides of every limit | `DocumentedPrioritiesAccepted` is violated (finding 4) |

Some properties state a limit of the code rather than hide it: `GrantorsDisjoint` says that
the regions are disjoint *exactly* when the event flag's offset fits 32 bits;
`CallbacksOnce` that libraries behind the first missing directory are not searched;
`ParcelRoundTrip` that a status built with the reserved code `EX_HAS_REPLY_HEADER` is read as
success and its error lost, and that a string without terminator is refused; `ReferencesRoundTrip`
that a structure is refused only where one target begins inside another and reaches beyond it;
`NoLeakedSubscription` that a `Waiter` stays subscribed only when the reply to its registration
was lost or its unregistration failed.

Why the bounds are enough. The queue is empty, partly full and full, with more pushes
than places, and both threads of a kind can be at the same point. A runner needs a full
queue, a task that pushes and a destructor from either side. In the binder map three
threads allow one binder to be dying, one to be looked up and a third to be made; a
binder's identity is free again after its destruction, and five of them never run out.
Two incarnations of the token manager are what a late death notice needs to hit a new
manager, the third lets that happen while one thread works outside the lock, another inside
it and a third waits. Two threads in `ServiceManagement` make one wait for the other's lock
and a third finds the proxy made; two
registrations and one restart let the service come, go and come back on either side of a
subscription. A vector needs a partner and the client to share an array with, and a third
array for a new allocation; the other value types follow the same count. Five file
descriptors let a batch of two, two clients and one mapping each have one. Three links over
two recipients give unlinking something before, at and behind the entry it must remove.
`algorithms` covers every size of an 8-bit `size_t` with 6-bit offsets (the queue and the
offsets wrap within it), arrays of one to three dimensions, two directories with three
libraries, two processes making two lookups each, every content of a memory of four cells with
targets of one and two cells (equal, within each other, overlapping, apart), and every
exception code, message, header, failing write, length of a foreign parcel, version (of 2 bits
a half) and embedded value that the code tells apart.

`CHECK_DEADLOCK FALSE` stands where the system may stop: a destroyed runner whose worker
has exited, a crashed process, and threads that wait for a service nobody registers.

### Fairness

* Queue and runner: weak fairness of each thread inside `push`, `wait_pop` or the
  destructor, because the operating system schedules runnable threads, and of
  `TaskReturns`, because tasks are assumed to return. No fairness for calls to begin, and
  none for spurious wake-ups.
* Token client: weak fairness of a thread inside a call and of the delivery of death
  notices, which the binder driver guarantees. The manager need not die nor restart.
* Service lookup: weak fairness of threads inside a call, of the delivery of
  notifications, and of the start of `hwservicemanager`, which init starts and restarts.
  Nobody has to register the service.
* Hybrid interface: weak fairness of the delivery of each death notice. Nobody has to die.

## Findings

1. `base/TaskRunner.cpp:42`. The destructor pushes the empty task and ignores the result.
   When the queue is full the push is refused, and the worker runs the remaining tasks and
   then waits for ever. `TaskRunner.h:39` promises to "Notify the background thread to
   terminate". `NotedWorkerExits` shows the rest of the mechanism to be right: once the
   empty task is in the queue, the worker exits; and `RunnerReleasesWorker` proves that it is
   there whenever the runner was given fewer tasks than the limit.
2. `transport/token/1.0/utils/HybridInterface.cpp:102`. `createHalToken` calls
   `isBadTransaction` outside the lock that the other two calls hold there. If the manager
   dies and `serviceDied` has already cleared `gTokenManager`, the pointer dereferenced at
   line 69 is null. The caller is written for `false` (`HybridInterface.h:246-248`).
   `CrashOnlyAfterUnlockedFailure` shows that nothing else leads there.
3. `transport/token/1.0/utils/include/hidl/HybridInterface.h:289`. `unlinkToDeath` tests
   `(flags = (*i)->flags)`. A link made with flags 0, the default, is never found; the call
   returns `NAME_NOT_FOUND` and the recipient is told of the death all the same. `IBase.hal:90`
   has unlinking "Unregisters a previously registered death recipient." Two theorems say what
   is left: an obituary that the call did remove is never told (`RemovedIsNotTold`), and if all
   links are made with one value of flags other than 0, unlinking does what `IBase.hal` says
   (`UniformFlagsUnlink`).
4. `transport/HidlTransportSupport.cpp:46`. The `else` belongs to a condition that is also
   false for a valid `SCHED_NORMAL` priority, so -20..0 are refused; `HidlTransportSupport.h:60`
   documents "[-20..19] for SCHED_NORMAL".

Further limits of the code appear as conditions in properties rather than findings, since no
text of the repository promises more. Besides those named under "Runs", `WaiterReturns`
needs the Waiter to be subscribed, because a restart of `hwservicemanager` forgets it and
`Waiter::wait` never subscribes again; and `CachedManagerObserved` excludes the moments when
a failed `createHalToken` is working on `gTokenManager` without the lock.

## Proofs

The theorems hold for every value of the constants that satisfies the named assumptions of
the modules: limits and bounds are natural numbers, thread sets of the queue are finite
(for cardinalities), and special values differ from ordinary ones.

* `SynchronizedQueue_proofs`: `TypeCorrect` and the two halves of `QueueBoundedFifo`, the
  limit and the order, are inductive with the type invariant. `QueueNoLostWakeup` counts:
  while somebody waits, the items are at most the notifications to come plus the consumers
  on their way to the predicate. It is inductive as it stands given types; its proof rests
  on lemmas about the cardinality of the sets of notifying, checking and waiting threads
  when one member enters or leaves.
* `TaskRunner_proofs`: `RunnerUsesQueue` shows that every step of the runner is a step of the
  queue or leaves it alone, so `Q`'s theorems carry over. `RunnerStrandsNoTask` and
  `RunnerQueueOutlivesCalls` need that the empty task occurs at most once, as the last item
  accepted, and only after the runner has been destroyed; the inductive invariant says so
  and ties it to the phase of the worker. `RunnerRunsSerially` is the refinement: the abstract
  `submitted` is `accepted` without the empty task, the phase is read off the worker.
  `RunnerWakesWorker` follows from `NoLostWakeup` of the queue, since there is one consumer: a
  worker asleep over a task has a notification coming. `RunnerReleasesWorker` bounds finding 1:
  the destructor's push is refused only by a queue that holds as many tasks as the limit, and
  what it has pushed stays the last item until the worker takes it.
* `BinderMap_proofs`: `Inductive` proves one invariant from which the four properties follow.
  What it adds to them: the lock is held exactly by the thread inside `toBinder`, what that
  thread has read from the map is still there, and a binder being destroyed has one
  destroying thread and no strong reference.
* `ValueTypes_proofs`, one part per class:
  * `hidl_vec`: `OwnedOnce`, `NoLeak` and `ElementsReadable` are not inductive by themselves.
    The invariant adds that an array a vector owns is used by no other vector with a value,
    that the pointer of a vector with a value is null or allocated also when its size is 0,
    that the client's arrays are allocated, and that objects without a value own nothing. One
    lemma per member function shows that it is preserved.
  * `hidl_handle` and `MQDescriptor`: `HandleClosedOnce` and `HandleNoLeak` together with types
    and the fact that objects not constructed own nothing. Copies of all three kinds share one
    lemma (`CloneFromPreserves`), moves another.
  * `hidl_string`: `StringKeepsValue` needs to know that nobody frees or reuses the characters a
    string points to. The invariant says whose they are: owned by this string alone, or lent and
    not freed by the client; an allocated array that is not lent has an owner; and `Holds`, that
    the first `mSize` characters there are the value. Four lemmas, by what a member function does
    to the array: point elsewhere, copy, move, and the client's own steps.
  * `Return`: `ErrorNotSwallowed` and `AbortsOnlyOnUnseen` are proved together, with the fact that
    each error raised is held by one object at most and that one not constructed holds none. The
    move is the step that matters: the target's own error must be checked before it is overwritten
    (the code aborts otherwise), and the source's flag must move with its error, checked or not.
  * Shared memory: the invariant says `FdsAccountedFor` of one descriptor at a time, and that a
    client's memory is empty or an ashmem region; with it `MappableMemoryIsWhole` follows.
* `HybridInterface_proofs`: `LinkedIffListed` compares a set of links with a sequence of
  obituaries, so removing an entry must remove one link: the invariant adds that the obituaries
  are numbered by the calls that made them and have distinct numbers (`IdsDistinct`), and that an
  accepted link belongs to the recipient in its obituary. `DeathLinksNotLost` is the safety half
  of `DeathIsTold`: no interleaving of links, unlinks, deaths and notices loses the notice of a
  recipient that is linked; only its delivery is left to fairness. `RemovedIsNotTold` is an
  action property: a number is never listed again once withdrawn, and `serviceDied` tells only
  what is listed, so it holds also for a notice that is on its way when the obituary is removed.
  `UniformFlagsUnlink` assumes that `Flags` has one element, not 0: then the first obituary of
  the recipient is both the one asked for and the one found. `TokensAreReleased` needs
  that a token exists only between the steps of the constructor that asked for it.
* `Algorithms_proofs`, for every input:
  * `hidl_array`: the invariant of an accessor is that its base is the number of index tuples that
    come before every tuple with the indexes given so far, and that the sub-array it stands for
    fits behind the base. It rests on two counts: `product` satisfies the template's recursion
    (`ProductExists`, `ProductUnique`, `ProductIs`), and as many tuples agree with m given indexes
    as the sub-array has elements (`AgreeCount`).
    Both are inductions over data. They are carried out for a *set* of numbers, whose least
    element exists by `WFMin` on the well-founded order of finite sets (`LeastElement`,
    `IntervalInduction`), since an induction rule with a predicate as its parameter cannot be used.
  * `MQDescriptor`: a laid-out queue has the grantors of its size (`GrantorsOfSize`). Then
    `EventFlagPlace`: the sum `16 + size` may wrap around `size_t`, its alignment is refused when it
    would wrap, and the cast to an offset may wrap again; in each case where the place is lost, what
    is left is a word boundary below `16 + size`, so inside the counters or the data. That is the
    `only if` of `GrantorsDisjoint`. The assumptions are those of the C types: both widths are
    multiples of a word, an offset has no more values than a size and more than two words.
  * Instrumentation and passthrough: both search a finite set in an arbitrary order;
    `SetToSeqsComplete` says that such an order has every element. `PassthroughInv` counts: a
    library's `dlopen` references equal the calls it serves plus its preloads; and a search in
    progress has passed over no library that has the instance, and goes through the rest directory
    by directory (`SearchComplete`), which is why the one found first is in the first directory.
  * Values in a parcel: the invariant is that a parcel whose writes succeeded holds a beginning of
    what its `content` is written as, all of it if it is a status, and that the result is what the
    reads make of it. A reply goes by what is at the head of the parcel (`ReadsOfReply` lists the
    cases: nothing, a code alone, a code with a header size or a message behind it); quotient and
    remainder are unique, so a packed version is unpacked and ordered as it was; embedded values
    go by the objects their writer makes and their parent asks for.
  * References in a parcel: writer and reader never meet, yet the reader must find, for the
    reference on top of its stack, the very object the writer wrote for it. The invariant
    (`ReaderFollowsWriter`) has a history of the writer's stack as seen from the reader: a function
    `S` with `S[k]` the references still open behind the first `k` objects, which the parcel alone
    determines (`Replays`). The writer extends it by one stack per object; at the end it is empty,
    and the reader, who starts where the writer did, runs through the same stacks. Beside it:
    every object is what its reference leads to, and a reference into a buffer has the place there
    as its `childOffset`; no buffer begins inside one written before it; the writer meets nothing
    but what is in the sender's memory, so a refusal is due to two targets there; and what has been
    read leads where it led before. An error ends the writing, and what is sent was written whole.
* `TokenManagerClient_proofs`: only the holder of the lock is between lock and unlock; before
  the first unlocked failure nobody is outside it with the pointer in hand; managers are
  numbered in order and only dead ones have notices. `CachedManagerObserved` itself says
  nothing while the lock is held: there the manager is observed, or its holder has still to
  link to it, or will find its transaction failing. One lemma per action.
* `ServiceManagement_proofs`: who makes the proxy holds the lock, nobody else does, and there is
  none yet; what a `Waiter` was told or is being told is a registration seen by its own call. The
  converse, that what a waiting call could see it was told or is being told, is
  `RegistrationNotMissed`. `NoLeakedSubscription` is inductive: `SubscriptionsEnd` goes through
  every way out of a call, those that a failing call takes included.

Every invariant and the one action property (`RunsSerially`) that the passing runs check is
thus proved for all values of the constants. The strengthened invariants were checked by TLC on
the runs' instances first (all but `ReaderFollowsWriter`, which quantifies over functions).

Only model-checked: the liveness properties `BlockedConsumerWakes`, `RunsEveryTask`,
`NotedWorkerExits`, `DeadManagerForgotten`, `ManagerObtained`, `WaiterReturns` and `DeathIsTold`,
because fairness and `ENABLED` are out of TLAPS's reach; and the four findings, which are
counterexamples (the theorems named with findings 1 to 3 bound them). What each liveness
property needs besides fairness is an invariant, and that is proved: `QueueNoLostWakeup` for the
first, `RunnerWakesWorker` for the next two, `CachedIsObserved`, `LockHeldOnlyToMake`,
`RegistrationNotMissed` and `DeathLinksNotLost` for the others in this order.

## Not modelled

* Formatting, logging and the `toString` functions.
* `onRegistration` with `tryShortenProcessName`: it renames a thread and nothing depends on it.
* The thread pool, reference counts, parcels and the binder driver belong to other libraries
  and appear only as what this code relies on; `configureRpcThreadpool`, `joinRpcThreadpool`,
  `HidlPassthroughSupport.h` (`wrapPassthrough`) and `LegacySupport.h` forward to them or to
  generated code.
* `fromBinder` and the equality of interfaces: stateless, and they compare what `toBinder`
  made.
* The constructor maps (`gBnConstructorMap`, `gBsConstructorMap`) are written while libraries
  load; the reference that `ConcurrentMap::get` returns after its unlock is listed as a hazard
  without a property.
* The `.hal` files and the code generated from them.

## Plan

All components named in the plan are modelled: queue and runner, binder map, token client,
service lookup, value types, hybrid interface, passthrough lookup, shared memory, parcels and
the pure computations. Their safety properties are proved. What is left are the hazards without a
property, of which the reference that `ConcurrentMap::get` returns after its unlock is the one
that a model of `gBnConstructorMap` could reach.
