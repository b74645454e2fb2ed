# TLA+ verification of the ephemeral-memory workspace

Ephemeral memory is memory that a *donor* VM lends to a *consumer* VM on the
same host and may take back at any time. This directory models the programs
that move it, checks the models with TLC and proves the central results with
TLAPS.

## 1. Inventory of the system

| part | source | state it keeps | operations |
| --- | --- | --- | --- |
| allocation life cycle | `eph_orchestrator/src/main.rs` | `EphAllocation`: id, consumer and offset, four-valued `AllocState`, three `OnceLock`s (`donor_info`, `dcd_set`, `release_requested`) | `commit_allocation`, `try_claim_for_revoke`, `abandon_or_take_donor`, `return_eph_memory_from_consumer`, `remove_vms` |
| donor bookkeeping | `eph_orchestrator/src/donor.rs` | per region: `size`, `donated`, `revoked_owed`, map of allocations | `allocate_eph_memory`, `handle_reserved_alloc`, `return_eph_memory`, `bookkeep_returned_eph_memory`, `revoke_eph_memory`, `release_all_allocations` |
| consumer bookkeeping | `eph_orchestrator/src/consumer.rs` | `allocated_areas` (offset to allocation), the vsock connection | `handle_eph_mem_request`, `reserve_memory`, `release_reserved_memory`, `signal_add_dc`, `signal_release_dc`, the two waits with a timeout, `release_all_allocations`, `consumer_thread` |
| QMP connection and events | `eph_orchestrator/src/qmp.rs`, `qmp/` | one stream per VM, its read thread, a channel of events | commands (`eph-mem-donate-capacity`, `eph-mem-return-capacity`, `cxl-add-dynamic-capacity`, `cxl-release-dynamic-capacity`) and events |
| VM detection | `eph_orchestrator/src/vm_detection.rs` | the `VmList`, an inotify watch | initial scan, creation and removal of sockets |
| guest daemon | `ephemerald/src/` | client list by pid, one pending request per client, connections | register, replace, request, response, close |
| client library | `libephmem/libephmem.cpp` | the daemon socket, reservations, the attempt context | `libephmem_reserve` with drain and timeout, `libephmem_attempt` |
| cache example | `ubmks/libephmem_poc.cpp` | two-level block cache | get, put, loss of the second level |
| page-fault tracers | `bpf/*.c` | entries by thread, a ring buffer, the traced process | kprobe, kretprobe, reader |
| everything else | `runner/`, `scripts/`, the other `ubmks/`, `vms/`, `libephmem/json.hpp` | none of interest | experiment drivers, measurements, a vendored library |

**How the parts interact.** An application calls libephmem, which talks to
ephemerald over a Unix socket; ephemerald talks to the orchestrator on the host
over vsock. The orchestrator talks to each hypervisor over QMP: commands with
an answer, and events in the other direction. Inside the orchestrator there is
one thread per consumer connection, one per revoke event, one for VM detection,
one that handles events and one reader per QMP stream. They share the `VmList`
(a reader-writer lock), each donor's and consumer's state (a mutex each) and
the allocations (a mutex each).

**What is hard.** The orchestrator drops its locks around every exchange with a
hypervisor, so each request, revoke, release and removal is a sequence of small
critical sections, and any two of them can interleave at the same allocation.
The guest answers asynchronously and perhaps too late, donors grant less than
was asked, commands fail, and VMs disappear in the middle of everything.
`PROJECT.json` lists each hazard at its line.

**What makes each part correct.**

* Allocation: one thread returns it to its donor; its commit does not panic;
  while it is in use it can be found by a revoke.
* Donor: it is never given back more than it gave; when nothing is going on its
  account equals what is in use; a revoke is not forgotten; the unsigned
  counters do not wrap around.
* Consumer: slots are not handed out twice; a slot that backs nothing is free
  again; every request ends.
* Registry: the list of VMs catches up with the host; a guest is served by the
  Vm of its own hypervisor; a connection belongs to one thread.
* ephemerald and libephmem: a response reaches the client that made the
  request; nothing is reserved that was not granted; what ended is forgotten.
* Attempts and the cache: inside an attempt a revocation costs a retry and never
  the process; the maps stay right as slots vanish and indices move.
* Tracers: a report is about the fault that returned.

## 2. Modules

    DcdSpace     EphAllocation   DonorRegion          EphAttempt    Ephemerald
       |    \          |          /                       |             |
    ReserveLoop      Orchestrator                      PocCache     GuestStack
       |                  |                            /      \           \
    ReserveLoopProofs     |                    MCPocCache   PocCacheProofs  GuestStackProofs
                OrchestratorProperties
                   /             \      MemoryLoan           VmRegistry
                  /               \      /                  /        \
     OrchestratorProofs      OrchestratorRefinement   MCVmRegistry  VmRegistryProofs
               \              /           |
      OrchestratorRefinementProofs   MCOrchestrator          PfTrace
                    |                                        /      \
          OrchestratorAccounts                        MCPfTrace   PfTraceProofs

### The orchestrator

**EphAllocation** is `struct EphAllocation` as a record, with one operator per
method. **DonorRegion** is `struct DonatableRegion` and the arithmetic that the
`DonorState` methods do on it. **DcdSpace** states declaratively which slots of
its device a consumer gets; **ReserveLoop** is the code's scan, with its flags
and early exit, checked against that statement.

**Orchestrator** composes them: the shared state, the threads, and the
hypervisors and guests as far as the orchestrator can tell.

| variables | code |
| --- | --- |
| `alloc`, `nextId` | the `EphAllocation`s and `ALLOC_ID_COUNTER` |
| `region` | the `DonatableRegion`s of all donors |
| `areas` | `allocated_areas` of each consumer |
| `vms`, `exited` | the `VmList` and the `exited` flags |
| `pc`, `cont`, `todo`, `scan` | where a thread is, where a call returns to, the vectors it iterates over |
| `req` | locals of `handle_eph_mem_request` and `allocate_eph_memory` |
| `revoke`, `leaving` | locals of `revoke_eph_memory` and `remove_vms` |
| `rel` | the scoped threads that run `release_reserved_memory` |
| `duty`, `book` | the scoped threads that run `return_and_bookkeep_eph_memory` |
| `evt` | the event thread |
| `alive`, `held`, `asked`, `dcd`, `events` | external: running VMs, the donors' accounts, the guests' devices, queued QMP events |
| `budget` | what is left of the bounds of a run |

| actions | code |
| --- | --- |
| `RequestArrives`, `ReserveContig` | reading a request, `reserve_memory` |
| `InnerSkip`, `InnerTake`, `InnerNone` | `allocate_eph_memory_inner`, one donor at a time |
| `Donate`, `Confirm`, `GiveBack`, `CommitOne`, `CommitDone` | the body of the loop in `allocate_eph_memory` |
| `Unbacked` .. `Respond` | the rest of `handle_eph_mem_request` with its error paths |
| `OrganizeOne` .. `DonorsDone` | `return_eph_memory_from_consumer` |
| `RelClaim`, `RelQmp`, `RelWait`, `RelRemove` | `release_reserved_memory` |
| `DonQmp`, `DonBook` | `return_and_bookkeep_eph_memory` |
| `RevokeLock`, `RevokeSelect`, `RevokeReturn` | `revoke_eph_memory` |
| `DetRemove` .. `DetReturn` | `remove_vms` and both `release_all_allocations` |
| `EvtTake`, `EvtAdd`, `EvtGap`, `EvtRelease` | `handle_event`, `signal_add_dc`, `signal_release_dc` |
| `GuestAdds`, `GuestReleases`, `DonorRevokes`, `VmExits` | external |

A step is one critical section or one exchange with a VM. Where the code holds
a donor's mutex while it takes the mutex of one allocation after the other, the
model does the same, one allocation per step, and keeps the donor locked
(`DonorLocked`); the read lock of the `VmList` is kept between two donors
(`ListRead`).

**OrchestratorProperties** holds the type invariant, the inductive invariant
and the properties. **MCOrchestrator** gives the constants their values and
lets a finished run stutter (`Stopped`), so that deadlock checking means: the
system never stops while a thread has work left.

**MemoryLoan** is what the orchestrator promises for one granule, without
threads, slots or counters: it is asked for, lent by a donor, recalled or given
up, returned and settled, or lost with a donor that is gone. A granule is in
use only between `Lend` and `Recall`, is returned at most once, and is settled
only after its return. **OrchestratorRefinement** maps the orchestrator's state
to it: the phase of a loan is read off the allocation's `AllocState`, the
threads that have it in their vectors (`Returning`, `Booking`) and its
`donor_info`. The property `LoansAreHonoured` is the abstract specification.

### The list of VMs and the guests' connections

**VmRegistry** models `vm_detection.rs` and the vsock side of `consumer.rs`. The
detection thread registers its watch, scans the directory and then handles the
events (`Watch`, `Scan`, `NextFile`, `CheckFile`, `ConnectQmp`,
`ProbeAnswered`/`ProbeFails`, `Insert`, `RemoveVm`, `ReleaseAll`); the listener
looks a guest up by its CID and attaches its connection under the Vm's lock
(`FindConsumer`, `Attach`); the consumer thread takes it out again
(`ConsumerThreadEnds`). A Vm is an object of its own, because threads keep an
`Arc` of one that has left the list. Hypervisors start, exit, crash and use a
path again.

`RemoveVm` and `ReleaseAll` are `remove_vms`: out of the list, `exited`, and then
both `release_all_allocations`, which the detection thread runs before its next
event. What `Orchestrator` does step by step is here the question whether the
call for a consumer returns: `areas` holds the Vms whose consumer has areas that
nobody releases, which a thread that serves the guest adds (`ReserveAreas`) and
failing requests and returns take away (`ReleaseAreas`, without fairness), and
`ReleaseAll` waits until the Vm has none. The call for a donor returns
(`ExitCompletes` in `Progress`).

### The guest

**Ephemerald** models the daemon, one step per critical section or write:
the listener (`Register`, `Refuse`), a reader per connection (`ReadRequest`,
`CheckPending`, `Forward`, `Deny`, `SendDenial`, `Close`) and the reader of the
orchestrator's vsock (`DaxFails`, `FindClient`, `Deliver`, `SendGrant`,
`LoseOrchestrator`). **GuestStack** composes it with `libephmem_reserve` (`Drain`,
`Write`, `Receive`, `TimeOut`) in processes that end and whose pid is used
again, and with an orchestrator that answers in parts, or never. A granule is
known by its offset: the daemon's `allocations` of a client is a set of offsets,
as the code's `BTreeSet` is ordered by offset alone, and an offset may be granted
again, which happens after a revoke. The history variable `granted` remembers
which offsets were granted to which request.

**EphAttempt** models handles and `libephmem_attempt` with the SIGBUS handler,
the context of each thread and the protection key. **PocCache** is the cache of
`libephmem_poc.cpp` on top of it: two maps, two reverse maps, the loop with its
hits, misses and evictions, and `handle_revoked_ephmem`, which moves all
indices behind the lost slot; a second thread uses the library on a handle of
its own while memory is revoked at any point.

### Tracing

**PfTrace** models both page-fault tracers: the kprobe and the kretprobe around
the hash map, the choice of the process to trace, and the ring buffer, with
map and buffer full and with returns that go unnoticed. Several processes may
have the name to trace; a thread that read `trace_tgid` unset writes it later, so
that the trace can move from one process to the other in the middle of faults.

Operators called `Name_Fault` are wrong variants of `Name`. No specification
uses them; `PROJECT.json` names the property that fails when one replaces the
original, which shows that the property depends on that line of code.

### What is abstracted

* Sizes are counted in units of which `Granularity` make a granule, so that
  grants and revokes which are not a whole number of granules occur.
* The allocations of a request have consecutive ids, and a vector of them is a
  set in the order of ids (`Lowest`, `IsFirst`, `IsHead`).
* In `OrganizeOne` the reads of the `exited` flags and the abandonment are one
  step, in `CommitOne` the `donor_info` and the state change.
* A donor never grants more than was asked for. A size so large that aligning
  it overflows is not requested, and a revoke names a region of its donor.
* `cxl-add-dynamic-capacity` refuses an extent that the device already has; a
  forced release is carried out at some later time, or never. Both are
  assumptions about the hypervisor.
* In `Orchestrator` the list of VMs starts complete and only shrinks, and every
  consumer is connected; how they come and go is `VmRegistry`. The detection
  thread removes one VM per event.
* In `VmRegistry` a hypervisor listens within the retries of
  `connect_with_retry`, and serves one QMP connection at a time.
* In `GuestStack` one thread of a process reserves at a time (`ephmem_mutex`),
  and reading, rounding and drawing a request id are one step, because nothing
  else looks at them. The granules of one request are sent in the order of their
  offsets, which the daemon does not look at.
* In `EphAttempt` entering and leaving an attempt is one step each: what happens
  in between cannot fault.
* In `PfTrace` the number of a fault stands for its time.
* Contents of messages, logging and the formatting of responses are left out.

## 3. Runs

All bounds are constants: `MaxRequests` over all consumers, `MaxRequestSize`
in granules, `Revokers` (as many revokes as threads), `MaxFaults` failed
exchanges with running VMs, `MayExit` the VMs that may exit.

| run | instance | states | shows |
| --- | --- | --- | --- |
| `RevokeRace` | one consumer, one donor, granule of two units, two requests of up to two granules, one revoke of any size | 0.2 M | types; `donated` covers the map and stays below the region's size; the donor's account balances; a revoke that cannot be paid is recorded |
| `Exits` | one slot and granule, two requests, one revoke; consumer and donor may exit | 1.3 M | one thread returns an allocation; it is in its region's map while in use; the donor is never over-paid; the orchestrator implements `MemoryLoan` |
| `SharedDonor` | two consumers, one of which is the donor, one revoke | 0.4 M | the inductive invariant of the proofs; no commit panics |
| `SlowGuest` | two donors, guests that let waits time out, one failed exchange | 0.4 M | nothing leaks on either side; `MemoryLoan` is implemented under faults as well |
| `Progress` | slow guest, two concurrent revokes, the donor may exit, fairness | 94 K | requests end, claimed allocations are returned, the removal of a donor ends |
| `ReserveLoop` | devices of several sizes, every set of taken slots, every request, areas released between calls | 27 K | the scan equals the definition; no overlap; a short answer means a full device; termination |
| `VmRegistry` | two paths, three VMs of which two share a path, a guest in each of these two, two connections, fairness | 0.7 M | a connection has one thread; a guest is served by its own Vm; a running VM is not dropped; the list catches up; a closed connection is freed |
| `GuestStack` | two pids, two connections, two requests of three sizes (zero, one that is rounded, one that would overflow), two granules that may be granted again, fairness | 0.8 M | no overflow is sent; responses find their request; what is reserved was granted and its offset recorded; a live process stays registered; an answer is taken for its own request; pending requests complete; ended clients are forgotten |
| `PocCache` | four blocks, two slots per level, a second thread, revocation and stray signals at any point | 0.6 M | the maps agree and lead to the right data; "should not happen" does not; context and stack agree; an attempt is survived |
| `PfTrace` | three threads of two processes, none, one or both of which have the name, map and buffer of size one, five faults | 0.9 M | reports are about their own fault; entries end with it; both while the trace moves between processes |
| `ConsumerExitStuck` | violation | | see findings |
| `OffsetReuse` | violation | | see findings |

**Why the bounds are enough.** Each property is about one allocation, one
region or one slot and at most three threads that reach it. Two requests make
ids, slots and debts be used a second time; a granule of two units makes every
remainder occur; a request for two granules with two regions of one granule
visits both donors; one revoke already races with the request thread, the
detection thread and the event thread. Two revokes at once are in `Progress`.
Two VMs on one path, or two processes with one pid, are what a reuse needs, and
a third one shows that others are left alone. With two slots per level the cache
moves indices, refills them and runs empty. Sizes of one fill the tracer's map
and buffer at once. In `VmRegistry` the VM with a path of its own has no guest
(`Guests`): what guests and detection do to each other happens at one path.
The results that are proved do not depend on the bounds.

**Fairness.** `FairSpec` gives weak fairness to the request threads, the threads
that return memory, the revoke threads, the detection thread and the event
thread: the operating system schedules them, a QMP command is answered or fails
once the VM is gone, and both waits for a guest have a timeout in the code. No
fairness is assumed of guests, donors, revokes or requests. With
`SlowGuest = TRUE` a timer may fire before the guest answers; a guest may also
never answer, and then the timer is what makes the wait end.

In `VmRegistry` the detection thread, the listener and the consumer threads are
fair: they block on events, on a probe that the hypervisor answers or whose
connection breaks, and on locks that are held for a moment, all of which are
guards of their actions. The one other place where the detection thread can stay
is the loop over a consumer's areas, which `ReleaseAll` leaves only when there
are none; nothing is assumed to take them away (`ReleaseAreas` has no fairness). In
`GuestStack` the listener, the readers and the orchestrator's side are fair for
the same reason; processes are not. The liveness statements name the situations
in which the code really does not get on. `PendingCompletes`: a request that was
never answered, or whose last part could not be set up. `ListCatchesUp`: a probe of a
hypervisor whose one connection a consumer thread keeps (`Blocked`), and the
removal of a consumer that finds areas again and again (`[]<>Releasing`), which
is finding 1 seen from the list of VMs: from then on VMs that start are not found.

## 4. Findings

Two properties that the repository states are violated by the code, each shown
by a run:

1. **The removal of a consumer does not end** (`ConsumerExitStuck`).
   `remove_vms` sets `exited` before `release_all_allocations`;
   `return_eph_memory_from_consumer` leaves the consumer side of exited VMs
   alone, so the areas the loop looks for are never claimed and it finds them
   again for ever. The detection thread sees no other VM from then on.
2. **A slow release removes the next allocation at the same offset**
   (`OffsetReuse`). Waits and removals go by offset, not by allocation.

Behaviours met while modelling that a reader of the design may not expect. The
models have them and the properties are stated so that they hold beside them:

* A revoke between grant and commit is recorded as a debt that only the next
  donation from that region pays (`RevokeDebtRecorded`); design.md:297 has
  release commands sent until the amount has been returned.
* A revoke before the guest has confirmed an extent returns the memory to the
  donor without a release command (design.md:264-265).
* A donor removed between grant and commit passes over the allocation, which is
  then committed (main.rs:203-204 says what is left is returned). `MemoryLoan`
  allows a loan to be lost only because its lender is gone.
* A request that cannot be satisfied at all is not answered, nor is one
  completed whose last part could not be set up: ephemerald keeps it pending and
  refuses further ones of that client (the set `lost` in `PendingCompletes`).
  design.md:127-130 has it otherwise: "Communication with the orchestrator is
  guarded with timeouts", after which ephemerald "will report that 0 bytes have
  been reserved". The code has no such timeout; the one in libephmem ends the wait
  of the process and leaves the daemon's request pending.
* ephemerald is not told of revokes, and its set of allocations is ordered by
  offset. When an offset is granted to a client again, `extend` drops the second
  entry, while its bytes are reported to the process. The set can therefore have
  fewer entries than granules were returned; `ReservedIsBacked` counts grants, and
  asks that the offset of each is in the set.
* An answer that arrives after the timeout and after the next drain is taken for
  the answer to the next request (the exceptions in `AnswerIsOwn`); what is
  returned was still granted to this client, and once (`ReservedIsBacked`).
* A stray SIGBUS makes the handler restore the default action, after which a
  revocation inside an attempt kills the process (`AttemptSurvives` is stated
  for an installed handler).
* The detection thread can wait in its probe of a VM that it registered for an
  event of an earlier VM at that path, as long as a consumer thread keeps the
  QMP connection (`Blocked`).
* When two processes have the traced name, the trace may move from one to the
  other, once for each thread that read `trace_tgid` before it was set. A fault in
  progress at that time may be reported with an old start (`steady` in
  `ReportIsOwnFault`), and entries of the process that lost the trace stay in the
  map (`displaced` in `EntryEndsWithFault`).

## 5. Proofs

The theorems about the orchestrator hold for every set of consumers, donors, regions and revoking
threads, and every size, bound and granularity that satisfy the named
assumptions `AllocationAssumption`, `GranularityAssumption` and
`OrchestratorAssumption` (natural numbers, disjoint thread names, finitely many
revokes, regions numbered donor by donor). TLC evaluates them in every run.

* `OrchestratorProofs`: `WellFormedAlways` and `TypesAlways`. `TypeOK` is not
  inductive: an action that looks at `region[req[c].region]` needs to know that
  the request has a region, and the detection thread that `leaving` is a
  consumer. `RegionIsKnown` and `LeavingIsKnown` say so at the program points
  concerned. That `donated`, `revoked_owed` and `remaining` are naturals is the
  content of interest: no subtraction of the code goes below zero. Then
  `LifecycleAlways`, and from it `SingleReturnerAlways`,
  `CommittedIsTrackedAlways` and `CommitNeverPanicsAlways`; then
  `SlotsKeptAlways`, and from it `SlotsAreCommittedAlways`.
* `OrchestratorRefinementProofs`: `LoanKeptAlways` and `LoansAreHonouredAlways`,
  the refinement of `MemoryLoan`.
* `OrchestratorAccounts`: `AccountsKeptAlways`, and from it
  `DonatedCoversAllocationsAlways`, `NeverOverReturnedAlways` and
  `DonorAccountsBalanceAlways`; then `DebtKeptAlways`, and from it
  `RevokeDebtRecordedAlways`.
* `ReserveLoopProofs`: `LoopKeptAlways`, and from it `NeverOverlapsAlways`,
  `ShortOnlyIfFullAlways` and `ScanMatchesDefinitionAlways`, for any size of
  device and of granule, any aligned areas and any request
  (`GranularityAssumption`, `SizesAssumption`: natural numbers, the granularity
  positive).
* `PocCacheProofs`: `CacheKeptAlways`, and from it `LevelsConsistentAlways`,
  `HitReadsItsBlockAlways`, `NeverGivesUpAlways`, `ContextMatchesStackAlways` and
  `AttemptSurvivesAlways`, for any threads, handles, blocks and slots
  (`PocAssumption`: in particular the threads beside the cache have handles of
  their own, as the library asks of its users).
* `VmRegistryProofs`: `RegistryKeptAlways`, and from it `ThreadOwnsLinkAlways`,
  `ServedByItsVmAlways` and `RemovedIsGoneAlways`, for any VMs, paths and number
  of connections (`RegistryAssumption`).
* `GuestStackProofs`: `GuestKeptAlways`, and from it `GuestTypesAlways`,
  `StaysRegisteredAlways`, `ReservedIsBackedAlways`,
  `ResponseFindsRequestAlways` and the action property `AnswerIsOwnAlways`, for any
  processes, connections, requests, sizes
  granularity and finite set of offsets (`EphemeraldAssumption`,
  `GuestAssumption`: positive numbers, an offset of zero among the offsets, and a
  `SIZE_MAX` above the granularity).
* `PfTraceProofs`: `ReportsAlways` and `EntriesAlways` (with the types and the
  sizes of map and buffer), for any threads, processes of the traced name and
  sizes (`PfAssumption`).

**The argument.** That one thread returns an allocation follows from the state
machine in the allocation: a thread that takes the donor leaves the state
`Abandoned` behind, from which nobody takes it again (`DutyIsAbandoned`). The
one other way to a duty is a commit that finds the allocation abandoned; it
needs that no donor was known before (`PendingIsUncommitted`), which in turn
needs that what a request thread still has to commit belongs to its own
consumer, so that two request threads never share an allocation. That an
allocation in use is in the map of its region needs that the map holds it from
the reservation on (`ChunkIsTracked`) and that what is taken out of a map is
either unconfirmed or somebody's duty, hence abandoned. Lemma `Frame` proves
this once for the steps that change no allocation; each remaining action has a
lemma of its own.

The refinement needs what `Lifecycle` does not say about threads in the middle
of a return. `LoanKept` adds it: a booking under way has something to book
(`BookingIsDue`), what a thread has to return or to book is still in the map of
its region (`DutyIsTracked`), an allocation that is not committed knows no donor
(`PendingHasNoDonor`), and a request has no more left to reserve than it asked
for (`RequestIsBounded`). With it each action of the orchestrator is
shown to be one step of the loan of one granule, or a stutter for it; steps that
move many allocations at once (`Confirm`, `DonBook`) move each loan by one step.

The accounts are sums, and the prover has no induction to reason about sums.
They are written as cardinalities instead: an allocation counts as one granule,
and the units of a grant that are not yet matched with allocations as a set of
pairs (`Units`). `HeldCoversDue` then says that what the donor counts as given
away (`held`) covers the granules that back allocations in use, in return or
about to be committed, and the loose units (`Due`); as long as no command
failed, both are equal. Every action moves elements between these sets, or out
of them by what is subtracted from `held`. Grants that are no whole number of
granules are where this could go wrong: `GrantIsBounded` and `OwedIsWhole` are
what `Confirm` needs so that the part it keeps, the part it gives back and the
debt it pays add up to the grant. `MapIsAccounted` ties the map of a region to
the same sets, and `DutyIsTimely` makes them empty when the threads are idle,
from which the balance follows.

That a revoke is never forgotten (`RevokeDebtRecorded`) speaks of quiet states
only; `AskedIsCovered` says what holds in between. What a donor asked back is at
most what its region owes (`revoked_owed`), plus a granule for each allocation
that a revoke claimed or a thread has to return (`Owing`), the units that a
request is about to give back or a revoke has yet to claim (`Carried`), and those
in revoke events still in the queue (`Wanted`); the sum is again made of
cardinalities, and holds as long as no command failed and the donor runs. A
revoke moves units along this list and only a return takes some away. It is not
inductive by itself: a claimed allocation must really be one of the region
scanned, for which the map may not shrink during the scan (`ScanIsMapped`, from
the donor's mutex, with `MapIsAccounted`); an event may be dropped only when its
donor is gone (`AliveIsListed`); and a claimed allocation must be in the hands of
a thread that returns it, or it would be owed for ever (`ClaimedIsOrganized`).

On the consumer's side `SlotsKept` says for each taken slot of a listed VM who
will see to it (`Answered`): a request that still counts the allocation as
unbacked, a revoke that claimed it, a thread that abandoned it and has the slot
among the offsets to release, or a thread that is releasing the slot. The
invariant is about slots and not about allocations, because
`release_reserved_memory` removes by offset: that a thread may take out a later
allocation at the same offset (section 4) does no harm here. What it needs of the
rest is when a release is in progress (`ReleaseIsTimely`), when a request still
has unbacked allocations (`UnbackedIsTimely`), that an allocation is at the slot
it was reserved for (`AreasInPlace`), and that a consumer which has exited is no
longer in the list (`ExitedIsUnlisted`), since its releases are passed over.

For the scan of `reserve_memory_contig`, `LoopKept` says that the areas are
aligned, disjoint and within the device (`SpaceKept`), what the scan knows of the
areas behind it (`ScanKept`), and that reservations end short on a full device
only (`ShortKept`). The code counts in bytes; its offsets are multiples of the
granularity, and the argument about gaps is made with slot numbers, where the
arithmetic is linear. `Scanned` is the heart of it: what lies behind the scan ends
at `last_region_end`, `largest_gap` is the first of the longest gaps there, and
when it is empty every slot there is taken. Each area keeps it true, the first one
included, for which the code has a flag of its own. At the end of the scan, or at
its early exit, the gap found is the one `DcdSpace` chooses: a gap is known by its
start, so that there is one choice only (`FirstFits` for a gap in which the
request fits, `FirstLongest` otherwise). The last gap is compared in bytes, and is
longer than an earlier one of as many slots if the device is no whole number of
granules: then it may win a tie, and the theorem states that as many slots are
reserved as the definition says; on a whole number of granules they are the same
slots.

For the cache, `CacheKept` says that both levels are filled from below, so that
the size of a map is the next free index, except while a block is being put or
read, when one index is free below it (`LevelsKept`). The properties are stated
for states in which this exception holds as well, and it is what a revocation
in the middle of a put meets. `handle_revoked_ephmem` moves the indices behind
the lost slot; that the moved maps are again inverse and the slots filled from
below is a lemma about that operator alone. `DataKept` follows the contents of
the slots, including the evicted block that is still in main memory while it is
copied, and `AttemptsKept` and `MainKept` tie context, stack and program
counter, so that the handle that faults is the one the attempt is about.

For the registry, `RegistryKept` rests on one observation (`FirstIsListed`): as
long as the first VM at a path has its socket, the watch has no removal to
report for the path, and only one Vm was made for it, which is in the list. It
needs that the detection thread works on a path that is not in the list
(`DetectionKept`) and that running VMs own their socket. The listener's queue
holds the connections made last, in order, none of which has a thread
(`AcceptKept`): this is why the connection it attaches is nobody's, and a Vm and
the thread of its connection always point to each other. That a removal may stay
in its loop over areas makes no difference to these: they say what the steps that
are taken do.

For the guest there are five layers. `GuestKept`: connections are accepted in
the order in which they were made, and a process has the last one of its pid, so
that a close handler which compares the client with its own connection cannot
remove a later process (`ConnectionsKept`); and the requests read and those still
in a socket together are no more than were written (`RequestsKept`).
`RouteKept` follows a request id from its reader through the
vsock and the orchestrator to the responses: it is in one place at a time
(`OnePlace`), it is the pending request of the client it was attached to, with
nothing received before the first response (`Claims`), and once responses are in
flight there is room for all of them, and a last one has none behind it
(`Flights`). This is why the second check in `send_eph_mem_response` never
refuses a response, and why a reset of the pending request by a last part or by a
denial takes nothing away from another request. `OriginKept` says where recorded
memory comes from: a response, and an offset kept with a pending request, was
granted to that request, and no offset of one request comes twice, so that
`received` is a granule for each offset kept (`Counted`). `BackedKept` rests on
both: what a process got, what is in its socket and what the threads of the daemon
are about to write to it is covered by the grants to its completed requests whose
offsets are in its allocations (`Recorded`); the sum is again a cardinality. These
grants are never taken back (`Growing`), and the last part of a request turns all
of the request's grants that arrived into recorded ones at once. An offset that
was granted before is no new entry of the set, but a grant of its own. `TraceKept` follows the request of
a process that never timed out and is the first with its pid (`Prompt`): it is in
the socket, with the reader, pending, about to be answered or answered, in one of
these only, and each of them implies that the process still waits for this request.
It needs that the process has one open connection and that a reader works for
clients of its own pid only (`OwnersKept`): with an earlier connection of the same
pid a second reader could attach a request to this client, which is the exception
that `AnswerIsOwn` makes.

For the tracers, `ReportIsOwnFault` rests on what the map holds: the entry of a
traced thread inside the probed function is that of its fault, unless the trace
moved since the fault began (`EntryIsCurrent`). A traced thread overwrites its
entry at each fault, but one of a process that lost the trace keeps an old entry,
and a later fault of it does not replace it. That entry is reported only if the
trace comes back before the return, and then the fault is not `steady`.
`EntriesAreTraced` says that only processes that are or were traced have entries,
and `SettersHaveNone` that a thread about to write `trace_tgid` has none, since
its fault began before anything was traced. The conjunction `Tracing` of these
with the types and both properties is inductive.

**Only model-checked.** Liveness (`Progress`, `ReserveTerminates` and the
liveness properties of `VmRegistry` and `GuestStack`), which is out of the
prover's reach. Every other property of a passing run is stated by a theorem.

## 6. Not modelled

* `libephmem/json.hpp`: a vendored library. It is 25526 of the 27454 lines of
  C and C++ in the repository; libephmem uses it to build and parse messages of
  four fields. The repository's own C and C++ is some 1900 lines, of which
  libephmem, the cache example and the tracers are modelled; most of the
  modelled logic is in the Rust programs.
* The wire format: messages are records here. Framing and parsing are left out.
* The reader of a QMP stream, which pairs answers with commands: a command is
  one exchange, one at a time for each stream, that succeeds or fails.
* The DAX set-up of ephemerald, which runs external programs: it succeeds or
  fails (`DaxFails`).
* The set-up of the orchestrator and of libephmem (probing of regions, mounts).
* Microbenchmarks, the runner, scripts and VM definitions, which keep no shared
  state: they start programs and collect their output.

## 7. Plan

The safety properties of all passing runs are proved. Left are the liveness
properties, which stay with TLC, and keeping the proofs short as the code
changes: the lemmas that say what a step leaves alone (`Frame` and its like in
the other modules) are the first place to look when an action is added.
