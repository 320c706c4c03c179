# A verification of the Little Kernel boot loader (droidboot_device_volla_yggdrasil)

The repository is MediaTek's boot loader for the mt6763 and mt6735: a small
preemptive kernel (LK) on one CPU, fastboot on top of it, and the code that
verifies and starts Android. This directory holds TLA+ models of the parts
whose correctness depends on the order in which things happen, the TLC
configurations that check them on small instances, and proofs for every
instance of what matters most.

Everything below refers to sources relative to `src/`.

## 1. The system

`kmain` (kernel/main.c) runs on the bootstrap stack inside a critical section,
starts the DPC thread, the timers, the thread `bootstrap2` and the I/O thread,
turns interrupts on and becomes the idle thread. `bootstrap2` initialises
platform and target and starts the application `mt_boot`, which either boots
Android or starts fastboot. The I/O thread loads the images of the modem and
of the coprocessors meanwhile. In fastboot one thread runs the command loop; a
large download starts a second one, of the highest priority, that writes to
storage while the first reads from USB.

The builds of this repository (project/*.mk) set `DEBUG := 2`, so ASSERT is on;
`ENABLE_IO_THREAD`, which makes the quantum of a thread one tick of 10 ms; and
`MTK_ULTRA_FLASH` with eMMC, which selects transfer_parallel.c. `platform_irq`
(platform/mt6763/interrupts.c:105) asks to reschedule after every interrupt.

### Inventory

| component | state it keeps | operations | talks to | what is hard | correct when | where |
|---|---|---|---|---|---|---|
| kernel: threads, scheduler (kernel/thread.c) | state, priority and quantum of each thread; run queues and their bitmap; wait queues and their counts; the critical-section count, global, saved at a switch | create, resume, yield, preempt, block, sleep, exit; wait_queue_block, _wake_one, _wake_all; thread_unblock_from_wait_queue | timers call it from interrupts; events and mutexes are built on wait queues | every service may switch in the middle, every unmasked step may be interrupted, one list node per thread moves between all lists | a thread is on exactly the list its state names, switches go to the highest priority, sections balance, sleepers wake, the dead are freed | Sched, Kernel |
| events (kernel/event.c) | signalled flag, wait queue | wait with or without time-out, signal, unsignal, destroy | everything, interrupt handlers included | a signal between looking and waiting; a time-out racing the signal | no signal is missed | Kernel |
| mutexes (kernel/mutex.c) | holder, count of contenders, wait queue | acquire with or without time-out, release by handing over, destroy | block device drivers | the count is raised before the wait and lowered by the waiter itself after a time-out | exclusion; nobody waits for a free mutex | Kernel |
| DPC thread (kernel/dpc.c) | list of callbacks, event | queue, run | thread_exit | the stack of a dead thread is freed after the switch away from it | every dead thread is reaped, once | Kernel |
| timers (kernel/timer.c) | a sorted queue | set, cancel, tick | scheduler, sleep, time-outs | a clock that wraps, callbacks that set and cancel timers, their own included | timers are called in the order they are due, none early, none lost | TimerQueue |
| bring-up and I/O thread (kernel/main.c, app/mt_boot/iothread.c) | two events | start threads; wait, load, wake | bootstrap2 | the thread initialises events another one signals; interrupts come on early | the kernel is started; the memory map has one user | IoThread |
| parallel download (mtransfer/transfer_parallel.c, bulk_process.c) | two buffers with padding, six events, two indices, two status words; static status of both kinds of image | reader: wait, read, publish, stop, join; writer: wait, write, release, stop | fastboot, USB, storage, kernel events | both threads may fail at any step and stop each other by signalling everything; the engine is on the stack of the reader | buffers are never shared, the writer never outlives the engine, success means everything is stored | ParallelDownload |
| sparse image machine (mtransfer/sparse_state_machine.c) | phase, pointer and count, saved header, remaining length, offset | one package | download writer | headers, fill values and data end anywhere in a page | the partition is what the image means, however it is cut | SparseStream |
| fastboot transport and loop (app/mt_boot/fastboot.c) | state, one request, txn_done and txn_status, usb_online | read, write, with time-outs; info, okay, fail; command loop | USB interrupt, every command | a late completion after a time-out, cable pulled | each completion belongs to the transfer waited for; one final answer per command | FastbootUsb |
| USB controller, QMU build (mt_musb.c) | the request queued at each end point, whether it is online | queue, complete, suspend, reset, configure | fastboot | all in interrupts | requests are completed or errored out once | FastbootUsb |
| commands (dl_commands.c, sys_commands.c) | download buffer, variables | flash, erase, download, set_active, getvar, ... | transport, storage, boot control | variables published once | answers are true | parts of three modules |
| A/B boot control (bootctrl/2.0/bootctrl_api.c) | metadata in misc, a copy in memory, the boot region | get_suffix, set_active_slot, increase_tries_remaining, read and write | fastboot, partition lookup, A/B flow | three stores changed one after the other; a cached copy | OKAY means switched, the copy is current | AbSlots |
| A/B flow (libavb_ab/avb_ab_flow.c, load_vfy_boot_ab.c) | the same metadata, its own copies | load, normalise, verify, choose, count the try, save | preloader, Android, boot control | power loss, I/O errors, a slot that fails to verify | the best verified slot boots, a bad one is given up in time, a good one is not | AbSlots |
| heap (lib/heap/heap.c) | sorted list of free chunks | alloc with alignment, free | everyone | splitting, padding, merging | chunks tile the heap | Heap |
| memory map (lib/mblock/mblock_v2.c) | free blocks, records of what is reserved | reserve, create, resize, memory node | image loaders, device tree | blocks shrink to nothing, starts move | every page once; the kernel is told of all DRAM | Mblock |
| block device adapter (blkdev/combo_emmc_ufs_generic_inter.c) | a block buffer and a mutex all callers share | read and write of byte ranges | partition layer, driver, heap | ranges begin and end inside blocks; failures half way | every byte is the one last meant | BlockDev |
| eMMC driver (platform/mt6763: mmc_common_inter.c, mmc_core.c, msdc*.c) | request in progress, copy of EXT_CSD, event and status of the interrupt | read, write: switch, command, DMA, stop, status, tune, halve the clock | interrupts, kernel event with time-out | a transfer ends in four steps of which each may fail, and is repeated | success means every block moved | Emmc |
| environment (platform/common/partition/env.c) | the variables in memory and on flash | init, get, set | boot flow, storage | a write that fails or is cut off | memory and flash agree | Env |
| log store (platform/common/log_store) | sizes and index of the log in DRAM, settings in expdb | start, one character, set, read | every print of every thread | prints at once, a switch that several turn off and on, the wrap, reads that fail | the last characters in order, within the buffer, as long as no two print at once; the preloader's log stays; the log is left on; settings last | LogStore |
| verified boot, libavb, AVB HAL, root of trust, lock state | flags in partitions and in a binary library | verify, lock, unlock | boot flow | - | vendored or straight-line | section 7 |
| block I/O, block cache, circular buffer, publisher, file systems | reference counts, LRU lists | - | - | - | not linked | section 7 |
| arch, platform, display, power, crash dumps, zlib, libfdt, libufdt | registers, tables | - | - | - | - | section 7 |

PROJECT.json lists the components with their files and every hazard with its
line and the properties that would catch it going wrong.

## 2. Modules and the code they model

**Sched** (kernel/thread.c) has the state of the scheduler and the routines all
services are made of, as operators on the current state: `InsertHead`,
`InsertTail`, `Resched` (thread_resched with the context switch), `YieldAt`,
`Preempt`, `Enqueue` (wait_queue_block up to thread_block), `Wake`
(wait_queue_wake_one and _all), `Unblock`. A thread that is switched out inside
a routine has the routine's name in `pc`; the tail of the routine is a later
step of that thread, `Resume` in Kernel.

**Kernel** EXTENDS Sched with the services: `ThreadCreate` ... `ThreadExit`,
`EventWait`, `EventSignal`, `MutexAcquire`, `MutexRelease`, `Destroy`, the DPC
loop (`DpcWait`, `DpcTake`, `DpcCleanup`), the steps of kmain, and interrupts:
`IrqEnter`, the timers that fire inside it, `DeviceSignals`, `IrqExit` with
thread_preempt. One action is one call up to its return or to its switch. The
critical-section count, its saved copies and the interrupt mask are state, and
every enter and exit is counted, because one of the findings is a count that is
not restored. `wait_queue_block` is split where the code may be interrupted
once the count is wrong: after the thread is in the queue, before thread_block.
With a section too many in the count, enter_critical_section masks nothing
(thread.h:130-135), and an interrupt may come anywhere in a call: `IrqInside`.
What a call interrupted there leaves behind is not modelled: the machine stands
still (`Torn`, `Halted`), and every property and theorem of Kernel speaks of what
is before that step. Behind it nothing is claimed, and nothing holds: a signal can
be lost between event.c:120 and the wait queue, `m->count++` can be torn, a list
broken.
*MCKernel* gives the priorities of two or three threads.

**TimerQueue** (kernel/timer.c) is the queue behind Kernel's "a timer may fire at
any tick". The time is a word that wraps, timers are ordered by the sign of a
difference as TIME_GT does it. `ThreadSets` writes a timer's fields and
`ThreadInserts` enters the critical section, with time and ticks between them;
`TickBegins`, `TickFires`, `CallbackSets`, `CallbackCancels`, `TickGoesOn` and
`TickEnds` are the loop of timer_tick. `dueIn` and `armed` are history: the true
time until a timer is due, and whether anybody waits for it.

**IoThread** is the bring-up: the order in which kmain starts its threads, the
priorities, the two events between bootstrap2 and the I/O thread. Its threads run
by the scheduler's rule, highest priority first; while an image is loaded the
I/O thread may sleep.

**Download** is what download_data promises its caller: pages reach the
partition in order, and "ok" comes only when all of them have. **ParallelDownload**
is transfer_parallel.c with bulk_process.c: reader and writer as two processes
with a program counter each, the auto-unsignalling events as flags,
stop_engine's three signals one by one, the padding carried to the other
buffer, the static status words that outlive a download. A page is what one
usb_read brings into a buffer; what the sparse machine does with it is
reduced to its three results. `ImplementsDownload` states the refinement, with
`busy` and `written` computed from the engine's state. *MCParallelDownload* is
the instance.

**SparseStream** is what ParallelDownload leaves out: write_data's loop and
sparse_state_machine.c over the packages of a sparse image. Lengths are in units
of two bytes (every length of the format is a multiple of four, the fill value
and the CRC are four bytes long, `Seed`). An image is its layout; a byte is named by
its position in the stream, so that the package, the saved part of a header and
the partition hold positions and a property can say which byte belongs where
(`Meaning`). What one call of write_sparse_data_internal does in each phase and for
each way the package may end is an action: `FileHeader`, `SkipRest`, `SaveHeader`,
`ChunkStart`, `Fill`, `Crc`, `WriteRest`, `WritePart`, `CarryTail`; `WriteFails` is the
storage's part.

**FastbootUsb** is fastboot.c with the QMU build of mt_musb.c: the thread's
transfers (`Submit`, `QueueRequest`, `TransferDone`, `TransferTimesOut`), its command
loop and handlers (`ReadCommand`, `Info`, `Download`, `Answer`), the controller's
interrupts (completion, suspend, reset, configuration) and the host. The history
variable `upset` says that something put the two ends out of step, which the
protocol cannot mend: a time-out, a refused download, the bus going away under
a transfer.

**AbSlots** is bootctrl_api.c (version 2.0), avb_ab_flow.c and
load_vfy_boot_ab.c around one misc partition: `SetActiveSlot`, `RestoreV1`,
`SetBootRegion`, `SetActiveWrite` are the steps of fastboot's set_active;
`SetBootRegion` fails with a negative number, at which the command ends, or with the
positive one of an eMMC, which set_active_slot does not see (`unseen`);
`IncreaseTries` ... `PostProcess` and `PostFails` those of a boot; `saved` is the copy in memory
of bootctrl_api.c (metadata_saved, metadata_read); `metadata` and `orig` are the
local copies of the function that runs. `Preloader`, `MarkSuccessful`, `Update`
and `PowerOff` are the world around it: external, taken from what this code
says of them. The two slots are numbered 0 and 1 for _a and _b. A slot's image
is "good" when avb_ab_flow takes the result of verifying it under the flags in
force. The module is about builds with MTK_AB_OTA_UPDATER, MTK_PARTITION_COMMON
and avb20; the A/B code is in the repository, the four projects do not switch
it on. *MCAbSlots* is the instance.

**Heap** is heap.c: `HeapAlloc` takes the first chunk that is long enough, splits it,
and moves the pointer to align it; `HeapFree` inserts the chunk in order and merges it
with both neighbours; `HeapRealloc` is one of each.

**Mblock** is mblock_v2.c in units of pages: `Reserve` (mblock_reserve_ext with its
choice of a block and an address), `Create` (mblock_create, for what is given
back), `Resize`. `reserved` is the array with its stale entries, because one loop
looks behind reservedNum. *MCMblock* has two adjacent ranks.

**BlockDev** is the combo adapter: a request of a caller goes through head, whole
blocks and tail; a transfer of the driver may fail, a write that fails may have
written any part, memalign may not find the memory for a piece and halve it.
`meant` is history: what the requests done so far mean every byte to be.

**Emmc** stands below it: `MmcCall`, `SwitchPart`, `NextTransfer` are
mmc_wrap_bread/bwrite and mmc_block_read/write; `Command` ... `Finish` are
msdc_dma_transfer with the wait of msdc_irq.c, its interrupt handler, the abort
handler, CMD12 and CMD13; `Retry` is what mmc_dev_bread and mmc_dev_bwrite do after
an error, with the settings a tuning tries one after the other. The controller's
transfer (`DmaEnds`, `DmaHangs`) runs beside the thread. `moved` names each block
moved intact by its place in the buffer, the partition and its number.

**Env** is env.c with the partition behind it: `SetEnv`, `SetFails` and
`SetInterrupted` are a set_env that is stored, whose write fails, and that a power
cut tears; `EnvStart` reads the area again.

**LogStore** is log_store_lk.c: `LogBegins` ... `LogEnds` are lk_log_store, a load or a
store to a step, for each that prints, any number of them at once and as often as they
will; `LogStoreInit` is what the first character does. `ConfigBegins` ... `WriteEnds` are
read_emmc_config and set_emmc_config, cut at each assignment to log_store_enable, which
they share with those who print: a setting may be moved under any of them. A byte of
`pbuff` is the number of the character in it, the preloader's, or neither's.

**MCParts** composes the ten modules that share no variable, for one run:
`part` names the component that moves in a behaviour, `PartsInit` gives the others
one initial state, and `PartsSpec` has the fairness of each. That they stand side
by side says nothing of their interaction; where two components do meet, one
module has both (FastbootUsb has thread and controller, Emmc thread, interrupt
and card, IoThread the three threads of the bring-up).

| module | composes | modelled source |
|---|---|---|
| Sched | - | kernel/thread.c |
| Kernel | EXTENDS Sched | kernel/{thread,event,mutex,dpc,timer,main}.c, platform/mt6763/interrupts.c |
| TimerQueue | - | kernel/timer.c |
| IoThread | - | kernel/{main,dpc,thread}.c, app/mt_boot/{iothread,decompressor}.c |
| Download | - | the contract of download_data |
| ParallelDownload | INSTANCE Download | mtransfer/transfer_parallel.c, bulk_process.c |
| SparseStream | - | mtransfer/sparse_state_machine.c, write_data of transfer_parallel.c |
| FastbootUsb | - | app/mt_boot/fastboot.c, mt_musb.c, cmd_download of dl_commands.c |
| AbSlots | - | bootctrl_api.c, avb_ab_flow.c, load_vfy_boot_ab.c |
| Heap, Mblock | - | lib/heap/heap.c, lib/mblock/mblock_v2.c |
| LogStore | - | platform/common/log_store/log_store_lk.c |
| BlockDev, Env | - | combo_emmc_ufs_generic_inter.c, partition/env.c |
| Emmc | - | platform/mt6763/{mmc_common_inter,mmc_core,msdc,msdc_dma,msdc_irq,msdc_tune_async}.c |
| StorageProofs | EXTENDS AbSlots, Emmc, BlockDev, Env | section 5 |
| FastbootProofs | EXTENDS FastbootUsb, SparseStream | section 5 |
| ServicesProofs | EXTENDS TimerQueue, LogStore | section 5 |
| MemoryProofs | EXTENDS Heap, Mblock | section 5 |
| the other *Proofs | EXTENDS the module named | section 5 |

Kernel and ParallelDownload are not one state space: the download engine uses
of the kernel only that an event with EVENT_FLAG_AUTOUNSIGNAL lets one waiter
pass per signal and loses none, which is `NoSignalMissed` of Kernel with
`QueuesAgree`, and that two threads of which each runs while the other
waits get on, which is the fairness assumed below. In the same way
ParallelDownload takes from SparseStream that a package ends with one of three
results and consumes its whole pages, and BlockDev takes of Emmc that a transfer
that succeeds moved its blocks.

## 3. Runs

| run | instance | states | properties and what they show |
|---|---|---|---|
| kernel_sync | 3 threads of 2 priorities, auto event (also signalled by an interrupt), mutex, no time-outs | 55 k | `QueuesAgree`, `SectionsHold`, `MutualExclusion`, `WaitsOnlyForOwned`, `SwitchesToHighest`: lists and bitmap agree with the states, assertions hold and sections balance, one holder, nobody stranded, the highest runs |
| kernel_timeouts | 2 threads, auto and manual event, mutex, time-outs, destroy | 1.8 M | `QueuesAgree`, `NoSignalMissed`, `MutexCountsContenders`, `HolderKeepsMutex` survive any order of time-out, signal, release and destruction, up to an interrupt in the middle of a call (`Torn`) |
| kernel_threads | threads created, resumed, sleeping, exiting; fair | 2.7 k | `QueuesAgree`; `DeadAreReaped`, `SleepersWake` |
| kernel_leak | time-outs on an event | violation | `NoAssertFails`, finding 1 |
| kernel_stranded | time-outs on a mutex | violation | `WaitsOnlyForOwned`, finding 2 |
| download | sparse and bulk images of up to 4 pages, 2 downloads, every failure but that of a bulk write; fair | 45 k | `TypeOK`, `NoCacheRace`, `NoUseAfterReturn`, `FailureMeansFault`, `DownloadEnds`, and the refinement `ImplementsDownload` |
| download_bulk | bulk with failing storage | violation | `SuccessMeansStored`, finding 3 |
| slots | both slots, every fault, version 1 backup | 227 k | `TypeOK`, `BootsHighest`, `OkayMeansActive`, `CopyCurrent`, `AttemptsBounded`, `GoodSlotsStay` |
| slots_suffix | fall-back to the other slot | violation | `SuffixNamesSlot`, finding 4 |
| slots_read | misc cannot be read | violation | `UnreadIsUnwritten`, finding 5 |
| parts | ten components, one moving in each behaviour; fair | 129 k | see below |
| mblock_node | two ranks, reservations and what is given back | violation | `NodeIsDram`, finding 6 |

The run `parts`, component by component:

| component | states | properties |
|---|---|---|
| SparseStream | 13.7 k | `BuffersHold`: pointer and count stay in the package, a saved header in its buffer, a tail in the padding. `ImageArrives`: at each step the partition is what the image means up to the offset, and success means all of it. `PackagesEnd`: every package is done with |
| FastbootUsb | 4.2 k | `RequestOwned`: request and completion belong to the transfer waited for. `InStep`: host and device agree on what is transferred, at most one answer per command. `CommandEnds` |
| TimerQueue | 57 k | `TimersSound`: order by true time through the wrap, no callback early, a timer is queued just when somebody waits for it. `TimersFire` |
| Heap | 3.5 k | `HeapSound`: free chunks and blocks tile the heap, in order, merged; blocks fit their chunks |
| Mblock | 4 k | `MapSound`: blocks and records tile the DRAM; a reservation gets the highest address there is |
| BlockDev | 18 k | `BytesExact`: every byte is what the last successful write meant; reads return it; except behind a rest (`Sure`) |
| Emmc | 10 k | `SuccessIsMoved`: success means every block moved to or from its place in the right partition and the card at rest. `RequestsEnd` |
| Env | 2.9 k | `EnvKept`: set variables are found, in memory and on flash |
| LogStore | 15 k | `LogSound`: the buffer holds the last characters in order, as long as no two print at once; however many do, the preloader's log stays, and those who switch the log off leave it on; a setting outlives the others |
| IoThread | 38 | `PartsBoot`: the kernel is started, the memory map never has two users |

Several kernel properties are false once time-outs leak a critical section or
strand a waiter, so they are checked in kernel_sync, without time-outs, where
they hold, and their violation with time-outs is a run of its own. The same
holds of the bulk path and of reads that fail.

### Bounds

Kernel: two or three application threads, beside the bootstrap and the DPC
thread, are the smallest numbers with two threads of one priority and one
above, or a holder, a waiter and a newcomer. One object of each kind is enough
since no call touches two. Quantum is 1 as built. `CountBound` (3) stops the
leaked count from growing; it is met only after finding 1 has happened. Time is
not counted: a timer may fire at any tick, in any order, which covers every
choice of delays. Once a leaked count leaves interrupts on inside critical
sections they are followed only in the window of wait_queue_block; one that comes
anywhere else inside a call ends the behaviour (`IrqInside`), and the properties
say so. In kernel_timeouts both happen.

Downloads: `MaxPages` 4 takes both buffers round twice, with an odd and an even
number of pages, none included; `MaxDownloads` 2 is what static state needs to
be seen by a second one. The runs of the download engine have CHECK_DEADLOCK
FALSE because after the last download nothing happens.

Slots: `MaxPriority` is 2 where the code has 15 and `MaxTries` 3 where it has 7.
The code compares priorities, sets them to the maximum and to one below it, and
nothing else; it counts tries by one. The history variable `attempts` stops at
`MaxTries + 1`, where the property is violated already. The contents of
metadata that cannot be parsed are one value ("junk"): a torn write is not
modelled apart, the checksum makes junk of it.

Parts (CHECK_DEADLOCK FALSE: images, requests and the bring-up come to an end):

- SparseStream: `Page` 24, `StorageBlock` 8, `SparseHeader` 4, `ChunkHeader` 6 and
  `FillCache` 8 units keep the order of the real sizes. Images have up to three
  chunks, shorter and longer than a page, so that a page ends in every header,
  fill value and run of data; two lengths of the file's header shift all of it.
  Images cut off, and images with bytes behind the last chunk, are among them.
  `Wrap` (256) is the 2^32 of byte_to_process: large enough that only an underflow
  meets it. `Room` 40 lets a chunk exceed the partition.
- FastbootUsb: `MaxInfos` 1; sessions and commands are unbounded.
- TimerQueue: two timers, delays 0 and 2, a word of 10 (`Half` 5), which the clock
  goes round again and again; `MaxCalls` 2 is what cancelling and setting again
  takes. `TimersAssumption` is the condition under which the signed comparison is
  an order: no delay reaches half of the word less what two late ticks take, and once more how
  late one may be, because a timer is set by a clock the tick has not caught up with.
  With `MaxLate` 0 a tick comes on time.
- Heap: 40 bytes with headers of 6, minimal alignment 8 and sizes 0, 3 and 10: up
  to three blocks, so both neighbours of a block can be free. `HeapAssumption` asks that
  of an alignment and the least one the smaller divide the other: they are powers of two, others
  heap_alloc refuses. Mblock: two
  adjacent ranks of three pages, at most four records (`ReservedMax`) and six
  blocks (`BlockMax`), where the code has 128 of each; limits below, inside and
  above the DRAM.
- BlockDev: two callers, blocks of 3 bytes, requests that begin and end inside
  blocks, in one block, with five whole blocks between (which halving does not
  divide). Env: three variables, an area that two or three of them fill. LogStore: two
  writers, who meet as often as they print; 4 characters into 2, 1 or no bytes, so that the
  log goes around twice; two operations on the settings. While there is a log an
  operation counts as three characters and only switches on (`LogBudget`), so that one
  of them can come between any steps of two prints; without a log they are free.
- Emmc: transfers of at most 2 blocks, so that a request of 3 takes two, the last
  a single-block command; both partitions; `MaxFaults` 2 in a behaviour, which is an
  error and one while recovering from it; one further setting of a tuning and one
  halving of the clock, where the code tries dozens in the same way.

### Fairness

`FairSpec` of Kernel: the machine takes steps (WF of Next); the tick comes
again as long as interrupts are taken now and then, because lk_scheduler
re-arms the timer at each tick (SF of IrqEnter("tick")); due timers are served
(SF, any order); and the DPC thread, which has a high priority, executes an
instruction between two interrupts now and then. Strong fairness is needed
where a thread is interrupted and current again and again. Nothing is assumed
of the application threads.

`FairSpec` of ParallelDownload: both threads get the CPU while they can move.
The writer has HIGHEST_PRIORITY; the reader runs whenever the writer waits, and
usb_read and emmc_write return, with an error if need be.

`PartsSpec` takes each component's own assumption. The writer handles its package
(WF of StreamNext). The fastboot thread runs (WF of ThreadNext); of the host and the
cable nothing is assumed. Time goes on and the tick comes and runs to its end
(WF), and a thread inside timer_set gets through its critical section although
ticks interrupt it (SF). The current thread of the bring-up runs (WF), its sleep
ends (WF), and a load that may sleep again and again ends (SF). The thread of an
eMMC request runs, a transfer that does not hang ends, and its interrupt is taken
(WF each): the controller has a time-out of its own, and the wait for it one of 65
seconds.

AbSlots, Heap, Mblock, BlockDev, Env and LogStore claim no liveness: power may go at
any time, or each call simply returns.

## 4. Findings

1. `kernel_leak` (kernel/thread.c:902): thread_unblock_from_wait_queue returns
   ERR_NOT_BLOCKED inside the critical section it entered. A time-out that fires
   after its thread was woken leaves the count one too high; the next section
   does not mask interrupts.
2. `kernel_stranded` (kernel/mutex.c:163): a thread that timed out in
   mutex_acquire_timeout lowers the count only when it runs again. A release in
   between leaves a free mutex that looks taken, and the next mutex_acquire
   waits for nobody.
3. `download_bulk` (mtransfer/transfer_parallel.c:221): write_data returns the
   status of the sparse path whatever it wrote, so the host is told
   "Transmission OK" after a failed write of a bulk image. For the same reason a
   bulk download after a failed sparse one fails although nothing in it went
   wrong; `FailureMeansFault` is stated for sparse images only.
4. `slots_suffix` (load_vfy_boot_ab.c:339): avb_ab_flow changes misc underneath
   the copy of bootctrl_api.c; after a fall-back the kernel of one slot gets the
   suffix of the other.
5. `slots_read` (avb_ab_flow.c:379): the error path compares and may save
   metadata that were never read.
6. `mblock_node` (lib/mblock/mblock_v2.c:93): a block that is reserved whole stays in
   the list with size 0 and its start at its former end (line 313). When the memory
   is given back, mblock_create moves the start of a bigger block on its right
   down over it (line 771). The list is then out of order, and the memory property
   of the device tree, made from its first and last block, lacks DRAM.

Things met while modelling that no run is about:

- Kernel: thread_resume (kernel/thread.c:208) takes sleeping and blocked threads too,
  against its comment (line 199); no caller here does that. dpc_init
  (kernel/dpc.c:50) turns interrupts on from the DPC thread before kmain does and
  before the timer queue exists; IoThread shows that nothing depends on it. All
  threads share the static `buf` of _dprintf, and the index of the log store is
  raised without a section.
- A/B: set_active_slot looks for `ret < 0` (bootctrl_api.c:298), but
  mmc_set_boot_part returns the positive errors of the card
  (mmc_common_inter.c:207): a switch of the boot region that failed goes unseen, and
  OKAY is sent (excepted in `OkayMeansActive` by `unseen`). A FAIL of set_active may
  leave the boot region switched; the last of the
  tries of a slot is lost, because the preloader brings the count to 0, which
  increase_tries_remaining does not raise and the flow takes for unbootable; the
  version 1 restore, when interrupted, resets the metadata of both slots.
- Sparse images: for an image shorter than its header write_sparse_data never
  returns (`NoFileHeader`, excepted in `PackagesEnd`).
- USB: usb_read and usb_write wait without a time-out, and the QMU build's
  udc_request_queue drops a request while offline and returns 0 (mt_musb.c:1842):
  a transfer begun at that moment waits until the cable comes back.
- Memory map: by the precedence of its operators the check of mblock_v2.c:232-233
  never refuses a named reservation when the arrays are full; mblock_create does not
  look at mblock_num; mblock_resize to 0 would leave a stale record (491-502), and
  has no such caller; no function takes the lock the comment at line 49 asks for,
  which is safe because of `MapUsedByOne`.
- Block adapter: after a piece that memory did not suffice for, the last rest is
  counted with `blkcnt` already 0, so the buffer pointer stays where it was (153-155,
  263-265; excepted by `Sure`); when memalign fails down to one block, mt_part_buf is
  freed (71).
- Environment: a set_env after a failed write stores an environment without the
  variables that were wiped (env.c:239; excepted in `EnvKept`).
- Log store: two threads that print at once lose characters and may write behind the
  buffer (log_store_lk.c:172-178), by more than a byte if they meet again and again or are three; the settings switch the
  log off under those who print, and LOG_DEBUG switches it on under the settings; the
  log starts behind off_pl = 32 bytes, but current_buf_addr_get and
  current_buf_pl_lk_log_size_get leave them out, so `oem dump_pllk_log` and the final
  print of user builds ("print LK log in a whole here", mt_boot.c:1541) lack its last 32
  bytes, and after the wrap give it out of order; a read of expdb that fails wipes the
  settings, though only a boot wanted to read them (276; `unread`).
- Heap: heap_realloc copies more than the old block; no caller.
- eMMC: mmc_wrap_bread and mmc_wrap_bwrite ignore the result of mmc_switch_part, whose
  copy of EXT_CSD stays as it was when it cannot be read back (`astray`); an interrupt
  that comes after the 65 seconds leaves its event for the next transfer (`late`); a
  command of several blocks whose response is lost is not stopped ("high level will
  retry", msdc_dma.c:936), and the retries meet a card that is still sending, until
  the request fails; several loops that ask the card for its state have no bound.

## 5. Proofs

**KernelProofs**, **KernelMutexProofs** and **KernelSectionsProofs** are about the whole of
Kernel: every call, every interrupt, time-outs and destruction included, for every finite set
of threads, assignment of priorities, sets of events and mutexes and choice of `Calls`. What
they say ends where an interrupt comes into the middle of a call through the section that
thread.c:902 leaks: `QueueInv`, `CallInv` and the properties stand under ~`Torn`, which
those steps make false for good. Without time-outs there is no leak, and SectionsHold
says that it never is. KernelProofs proves

- `QueuesAgreeHolds`: Spec => []QueuesAgree
- `SwitchesToHighestHolds`: Spec => SwitchesToHighest
- `NoSignalMissedHolds`: Spec => []NoSignalMissed
- `QueueInvHolds`: Spec => [](~Torn => QueueInv), which they and the other two modules rest on.

`QueueInv == Lists /\ Sections /\ Rest`. *Lists* says that the run queue holds the ready
threads and each wait queue those that block on its object, each once (`RunQueue`,
`WaitQueues`), and that the boot thread never blocks, so that thread_resched always finds
somebody. It is about sets of threads, not their order; what the order matters for is only who
is first. *Sections* is needed because an interrupt is taken when the count allows it: no
thread leaves more critical sections than it has entered (`Held(t) <= Depth(t)`, where the
depth of a thread that is not current is in its saved count). An inequality is all there is:
a late time-out leaves one too many (finding 1). First each routine of Sched is shown to
keep the lists (`ReschedPicks`, `JoinKeeps`, `EnqueueKeeps`, `UnblockKeeps`, `WakeKeeps`), then
each service by the routines it calls (`QueueStep`). A wake-up of a whole wait queue is the
function `InsertAll`; what it does to any number of threads is proved with `LeastNatural`, the
least-number principle, which stands in for the induction theorem the provers
cannot instantiate: the first thread of which the claim fails would have a
predecessor of which it holds.

KernelMutexProofs proves

- `MutualExclusionHolds`: Spec => []MutualExclusion
- `MutexCountsContendersHolds`: Spec => []MutexCountsContenders
- `HolderKeepsMutexHolds`: Spec => HolderKeepsMutex
- `WaitsOnlyForOwnedHolds`: ASSUME "mutex_acquire_timeout" \notin Calls PROVE Spec => []WaitsOnlyForOwned

mutex_release writes nobody into `holder`: until the thread it woke runs, who owns the mutex is
recorded only in that thread's result. So *CallInv* says that what the scheduler knows of a
thread in a wait and what the wait recorded agree, with the window between joining a queue and
thread_block, in which a time-out may already have taken the thread off again. *MutexInv* says
that the count is the number of contenders and that there is at most one owner; neither is
inductive without the other, because it is the count that makes the second mutex_acquire wait.
`WaitsOnlyForOwnedHolds` has the hypothesis without which finding 2 is a counterexample
(`kernel_stranded`); waits for events may still have time-outs, and so tear a call.

KernelSectionsProofs proves `SectionsHoldHolds`: ASSUME Calls \cap Timeouts = {} PROVE
Spec => []SectionsHold, that no ASSERT fails and that a thread in its own code is in no
critical section and has interrupts on. The hypothesis is what finding 1 (`kernel_leak`)
takes away. `SectionsInv` makes the inequality of Sections an equality for every thread
(*Exact*), and adds that timers belong to sleepers (*Timers*) and that the threads handed to the
dpc thread are dead, each once (*Dead*), which is what the assertions of the timer and of the
clean-up look at.

Beside the constants' types ThreadsAssumption says that `Apps` is finite: thread structures
lie in memory, and the count of contenders is a number. TLC has checked QueueInv, CallInv,
MutexInv and SectionsInv on the instances of the kernel runs before.

**ParallelDownloadProofs** proves for every `Kinds`, `FaultyKinds`, `MaxPages` and
`MaxDownloads`:

- `TypeCorrect`: Spec => []TypeOK
- `CacheRaceFree`: Spec => []NoCacheRace
- `ContextOutlivesWriter`: Spec => []NoUseAfterReturn
- `Invariance`: Spec => []IInv, from which the three follow.

NoCacheRace and NoUseAfterReturn are not inductive: they say nothing of how the
events came to be up. `IInv == TypeOK /\ Tokens /\ Lifecycle` adds

- *Tokens*: as long as neither side stops, each cache is in one place: free,
  being filled, published, being written or being released, with the indices of
  the two sides as far apart as that requires. After one side has begun to stop,
  the signals of stop_engine put events up regardless, and what remains true is
  weaker: the side that has begun to stop touches no cache again, so a spurious
  event can let at most one thread in.
- *Lifecycle*: the reader cannot pass thrR_end_ev before the writer has given
  its third signal, after which the writer is at "exit"; the context lives from
  Begin to Return.

Each step of the proof of the invariant is one action; below it one step per
conjunct the action disturbs. TLC has checked IInv as an invariant before
(45 k states, the instance of `download`). The only assumption is
`DownloadAssumption`.

Its second half proves, for the same constants:

- `FailureIsFault`: Spec => []FailureMeansFault
- `Implements`: ASSUME Faultless PROVE Spec => ImplementsDownload
- `SuccessIsStored`: ASSUME Faultless PROVE Spec => []SuccessMeansStored
- `OrderInvariance`: ASSUME Faultless PROVE Spec => []OrderInv, from which the last two follow.

`Faultless`, that no write of a bulk image fails, is what finding 3 takes away. The
refinement needs to know which page is where. `OrderInv == IInv /\ Flow /\ Prefix /\ Ends`:
as long as the writer works, there is a number d of pages behind it (*Flow*) such that
the partition has them but for one tail that waits in the padding of the next cache
(`Behind`), and the reader has published d, d + 1 or d + 2 pages, each in the cache its
parity says (`Ahead`), or has sent the empty package after the last one (`Closing`).
Once either side stops, events are forged and the order is lost; what remains is
that the partition holds a beginning of the image (*Prefix*), and all of it if both
statuses are good (*Ends*). `FailureIsFault` needs none of this: the invariant `Blame`
says that in a sparse download a bad status has a fault behind it.

**FastbootProofs**, the sparse image: it proves `BuffersAreKept`: StreamSpec => []BuffersHold, for every set of
images and all sizes that satisfy `ImagesAssumption` and `SizesAssumption`. The fill value
is taken without a look at the count, so the invariant must exclude a package that
ends inside one. It is *Parity* that does: every length is a multiple of four bytes,
so every remainder is, through saved headers and carried tails. *Counts* says that
pointer and count end where the package ends, *FirstPackage* that the file's header
is only looked for in a package that has all of it or too little to be looked at.

It also proves `ArrivesWhole`: StreamSpec => []ImageArrives, from the same
assumptions. It has three parts:

- The layout. `HeaderAt` and `AddressAt` are recursive functions over the chunks. `HeadersLie`
  and `OutputsLie` prove that they obey their equations, are numbers and grow by each
  chunk's length, with `LeastNatural` in the place of the induction theorem the provers
  cannot instantiate. So no two chunks share an address or a place in the stream
  (`Apart`), `Meaning(a)` is what the one chunk over a says (`MeaningIs`), and nothing belongs
  behind the last (`NothingBeyond`).
- The invariant. `Here` is the position in the stream of the next unit not consumed, whether it is
  in the package or in the padding. *Stretch*: package and padding are the last
  stretch of the stream. *Place*: in each phase, Here and the offset are the two sides of one
  point of the image: at a header with as many units of it saved as unhandle_buf has, in raw
  data as far from the chunk's beginning as remain says, at a fill value or a CRC. *Right*: the
  output is what the image says, or at or behind the offset and as it was. It holds
  after a failed write as well, when Place is lost. BuffersHold's invariant is part of it: without
  the parity the machine could read past a package.
- One lemma per action. `HeaderFound` says that the header put together from two packages is the
  next chunk's and no other's; `WriteIsRight` is the one fact about writing that
  the fill and the three ways of writing raw data share; `AllDone` says that a
  stream with all chunks ends behind the last one.

What the proof needs that the code does not check: a page at least as long as a chunk's header
(`Page >= ChunkHeader + Seed`; the page has 2 MB, transfer_parallel.c:28). Of a header in three pieces
SaveHeader would lose the first. TLC has checked the invariant before (38 k states).

**FastbootProofs**, the transport: it proves `RequestsAreOwned`: FastbootSpec => []RequestOwned for every
`MaxInfos`. It is not inductive: `OneOrTheOther` adds that a request still queued and a
completion not yet seen never stand side by side. From it follows `EndsAreInStep`:
FastbootSpec => []InStep. Whatever has upset the two ends, the host is idle once no
command is at work and nothing is left over (*Settles*), so the next command begins in
step; as long as nothing is upset, the host has got as far as the thread (*Agreed*).

**StorageProofs** is about what the flash memory holds. Of the A/B slots it proves, for
every `MaxPriority` above 1 (the code has 15; with 1, demoting the other slot would make
it unbootable), every `MaxTries` above 0, every choice of `Legacy` and of `Faults`:

- `TypeCorrect`: Spec => []TypeOK
- `TriesBounded`: Spec => []AttemptsBounded
- `GoodSlotsAreKept`: Spec => GoodSlotsStay
- `BestSlotBoots`: Spec => []BootsHighest
- `OkayIsTrue`: Spec => []OkayMeansActive
- `CopyIsCurrent`: Spec => []CopyCurrent
- `SlotsInvariance`: Spec => []SlotsInv, from which they follow.

The difficulty is that at most steps two or three copies of the metadata are
alive, and that three programs count one slot's tries. SlotsInv says what each copy
is to misc at each step, and where the try is that a boot will use:

- *Counted*: a slot that has not succeeded has had n boots and has t tries left
  with n + t <= MaxTries; one that has succeeded has no tries left.
- *GivenBack*: when load_vfy_boot raises the tries of the top slot, the preloader
  has taken one before, so the sum stays below the bound; `saved` is empty then,
  so what is raised is what misc holds.
- *Activating*: from the read to the write of set_active the local copy is misc
  with one slot fresh and the other demoted.
- *Flowing*: during the flow misc is `orig`; a slot of the local copy is that of
  misc or was given up with a bad image, and from its verification on it is
  bootable only if good and verified; after the selection exactly the chosen slot
  differs by one try. At "post" the chosen slot has had that try taken, which is
  the boot that `attempts` counts next.
- *Choosing*: the chosen slot is good and the best of the copy, then of misc.
- *Answering*, *Copying*: what the boot region (if its switch did not fail unseen) and
  the copy in memory are between the commands of fastboot.

`GoodSlotsStay` is about steps: `GoodSlotsStep` goes through the actions that write
misc and uses Activating, GivenBack and Flowing for the copy each of them writes.
TLC has checked SlotsInv as an invariant of the instance of `slots` (227 k states).
The only assumption is `AbAssumption`.

Of the eMMC driver it proves `SuccessMeansMoved`: MmcSpec => []SuccessIsMoved, for every set of
requests and size of a transfer (`EmmcAssumption`) and any number of faults, tunings and
halvings: the bounds on those are in no guard the proof needs. `MmcIInv == MmcShape /\ MmcContents`.
*MmcShape* is what the thread, the interrupt and the transfer are to each other: a transfer
exists only while the thread waits for it or clears up after it (*InTransfer*), nothing of an
interrupt is left outside a transfer and exactly one tells of its end inside
(*Interrupts*), and where the request stands (*MmcPosition*). *MmcContents* says that a
transfer does not touch the blocks before it (*MmcKept*), and that wherever the driver
believes a transfer complete, it is (*Evidence*). TLC has checked it before (80 k states).

Of the block device adapter it proves `BytesAreExact`: BlockDevSpec => []BytesExact, for every size of a block and of the
device and all callers and requests that `BlockDevAssumption` allows. Between requests the
device is what the requests meant (*Kept*). While one is at work that is so outside its range, and
inside it a first part of the bytes has arrived (*Contents*): as many as *Moved* says, which is
not the position of the code in every step, because a rest of a piece does not advance it
(the code as it is; what follows is then written at the wrong place, which `Sure` says and
BytesExact allows for). *Progress* says that mt_part_buf holds a whole block as the device
has it, so that the bytes around a partial write go back unchanged, and that every piece begins at a
block's beginning. The lemmas before are the arithmetic of blocks: `AlignedFacts`, `SameBlock`,
`BlocksApart`. After `MiddleFrees` the invariant says nothing of the contents: mt_part_buf was
freed with the lock held, and nobody gets in again.

Of the environment it proves `EnvIsKept`: EnvSpec => []EnvKept, for all names and values, every
length of a name and every size of the area. `EnvInv` makes EnvKept inductive: the area has no
name twice either and leaves the room for the last zero (*AreaOk*), as a start will take it for
memory; memory in doubt is empty, which is why what set_env then writes is known; and what the
entries say is what was meant, of memory and of the area apart (*Tells*), since after an
overflow or a failed write the two differ. The entries' lengths are counted as a set of bytes,
so `TakenWithOne` and `TakenWithoutOne`, what set_env adds and deletes, are facts about the size of
finite sets and no induction is needed. `OthersFacts` says that deleting an entry leaves the values of
the others, `NewDataFacts` what set_env leaves in memory, `LeftIsRight` what a write that fails or
is interrupted may leave on the partition. TLC has checked the invariant before (2.9 k states).

**ServicesProofs** proves `TimersKept`: TimersSpec => []TimersSound, for every finite or infinite set of
timers and all delays that `TimersAssumption` allows. The code knows two times modulo the word and
takes the sign of their difference for their order, so everything rests on no two of them
being half a word apart. *TimersNear* bounds the true times from both sides: what waits is due soon,
and what was due is not further behind than the ticks may be late. *TimersTrue* ties the
fields of the structure to them, modulo the word; *TimersApart* says where a timer is that is
being set, or whose callback runs. Then `NearTimes` says that TIME_GT is the true order,
`InsertKeeps` that insert_timer_in_queue keeps the list sorted wherever the new timer belongs, and
`TickFacts` that what leaves the head of the list is the one that was due first. TLC
has checked the invariant, with ticks that are late, before (277 k states).

It also proves `LogKept`: LogSpec => []LogSound, for every set of writers, size of the buffer and of the
preloader's log and number of characters and operations on the settings. *LogStory* is the order: as long as
nobody has met, the counters and the bytes are those of what was printed before the one that is
printing, and at each of its steps with its character (`Kept`) or without; `Place` says which of
the characters a byte of the wrapped log is, and that the one who prints has room. *LogAlone*
says that until two meet no more than one writer is inside. There is a lemma for what each
step changes, one for what it does to the story, and `Wraps` and `StoryIsInOrder` turn the story into
the bytes a reader of the log counts. Once two have met, *LogBytes* is what is left: no counter is
below zero, so nobody writes before off_lk. `LogResumes` is inductive: whoever has switched the log off
is still on its way to switch it on. *LogSettingsInv* is about the settings, whose header in memory
must be the one of the block when it is written back (`Signed`). TLC has checked the
invariant before, with three writers (510 k states).

**MemoryProofs** proves `HeapKept`: HeapSpec => []HeapSound, for every place and length of the heap, all sizes of
the structures and of what is asked for, and all alignments. HeapSound is inductive once the types are
added, and that the chunks on the list begin at a multiple of the pointer's size. *ListOk* is
the order of the list, with no two chunks side by side, *SharedOut* says that the list and
the blocks share out the bytes of the heap. What the code does to the list is putting a
chunk in the place of a part of it (`Splice`) or taking a part out (`Cut`); `SpliceFacts`
and `CutFacts` say what is on the list then, `InsertChunkFacts` that heap_insert_free_chunk keeps its
order, in each of the four cases of neighbours to merge with, `BlockFacts` that heap_alloc takes the
bytes of its block and no others, and that pointer, header and bytes lie in it.
`TakeKeeps` and `GiveKeeps` are the sharing without the list; heap_realloc is one after the
other. TLC has checked the invariant before, also with an alignment below the least (125 k
states).

It also proves `MapKept`: MblockSpec => []MapSound, for all ranks of DRAM, any protected memory and any
sizes, alignments and limits that `DramAssumption` allows, without a bound on the calls, as long as the tables
have room: the guards of `Reserve`, `Create` and `Resize` say so, the code does not (section 4). The half
of MapSound that is about the present map alone, `AsHighAsPossible`, is no invariant of its own but
follows from the other: `AddressFacts` and `ServingFacts` say what a block can serve, `TargetFacts` that the
search ends at the block that serves highest, `HighestFacts` that there is no higher page anywhere.
*MapInv* is what is inductive. *BlocksOk*: each block lies in its rank and no two share a page; the order
of the blocks is not part of it, because the code loses it (finding 6). *RecordsOk*: the protected memory is the
first record for good, no two share a page, and behind the last they are empty. And the pages of
blocks and records are disjoint and together are Dram. Then each routine has a lemma of what it
does to the pages: `WithoutAreaFacts` for what mblock_reserve_ext takes out of a block; `RecordAdds`,
`RecordShrinks`, `RecordDrops` and `RecordSplits` for the array of records; `JoinGains` for giving pages
back to a neighbour on either side or as a block of their own; and `MoveKeeps`, that pages that leave
the one side and join the other leave the map whole. TLC has checked MapInv before (4.0 k states).

Only model-checked: all liveness properties (`DeadAreReaped`, `SleepersWake`, `DownloadEnds`, `PackagesEnd`, `CommandEnds`,
`TimersFire`, `RequestsEnd`, `PartsBoot`), which the prover does not do under fairness.

## 6. Mutants

Every property of a passing run has a mutant: an operator next to the definition
it replaces, marked "Mutant:" in its comment, that changes the model as a
plausible slip in the code would. PROJECT.json pairs them with the run and the
property that must fail.

## 7. Not modelled

- Vendored code: libavb's cryptography and parsing, zlib, libfdt, libufdt.
- Registers and tables, which are most of the repository's lines: display, power,
  keys, clocks, page tables, the generated register headers.
- Straight sequences of one thread without state of their own: boot flow, device
  tree, verified boot without A/B, dm-verity, crash dumps, modem loading,
  lock commands (the flag itself is kept by a binary library).
- Code that no project builds or links: aboot, NAND, UFS, mt_ssusb, version 1 of the
  boot control, circular buffer, block I/O, block cache (a block whose fill fails is on two lists,
  bcache.c:205), publisher, file systems, the eMMC-only block adapter (its write
  never releases g_part_lock when it succeeds).
- Of the kernel: thread_set_priority, statistics, thread-local storage. Of AbSlots:
  what fastboot publishes (getvar shows the state at the start of fastboot),
  preloader and Android beyond their changes to misc. Of fastboot: registration of
  commands, packets of one transfer, cmd_flash and cmd_erase. Of the memory map: the
  device tree nodes that copy the records. Of the log store:
  save_pllk_log, which nothing calls. Of the eMMC: initialisation, timing modes,
  erase, RPMB, write protection, commands by PIO.

## 8. Plan

Done: Sched, Kernel, Download, ParallelDownload, AbSlots (the core), then SparseStream,
FastbootUsb, TimerQueue, Heap, Mblock, BlockDev, Env, LogStore, IoThread, Emmc; proofs about
ParallelDownload with its refinement, AbSlots, SparseStream, FastbootUsb, Emmc, BlockDev, Kernel, TimerQueue,
LogStore, Heap, Mblock and Env, which covers every invariant a passing run checks (two of Kernel's
under the hypotheses of section 5).

Left, in the order of what they are worth:

1. The rest of the eMMC driver: erase and the change of timing modes.
2. cmd_flash and cmd_erase on top of the adapter; the block cache, if a project
   comes to link it.
