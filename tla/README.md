# A TLA+ model of chuj-elephant-OS

chuj-elephant-OS is a small 32-bit x86 kernel for one processor: threads and
processes under a round-robin scheduler, semaphores and reentrant locks, a page
allocator with a `malloc` on top, page directories, a keyboard driver with a bounded
queue, and a console on the text screen. This directory holds TLA+ models of it, TLC runs that check them on
small instances, and TLAPS proofs for the scheduler, the locks, the I/O queue, the page allocator, malloc, the
allocation of pids, the keyboard handler and the screen for every value of the constants. `PROJECT.json` relates
each definition to its lines.

## The system

There is one processor, so concurrency is interrupts. The timer interrupt
(`device/timer.c`) counts down the quantum of the current thread and calls
`ScheduleThread`; the keyboard interrupt puts a character in a queue. Code is
atomic when the interrupt flag is off. Every handler and every system call is
entered through an interrupt gate and so runs with the flag off. `switch_to` saves
registers and not the flags: what a thread restores of the interrupt status is
what it keeps in local variables (`old_int_statu`) or in its interrupt frame. The
models carry this as a state variable, since much goes wrong there in kernels.

A failed `ASSERT` (the build sets `DEBUG`) turns interrupts off and spins. It is
modelled as the state `"panic"` with no steps, so that "no ASSERT fails" is a
property and never an assumption.

| Part | State | Operations | What is hard |
|---|---|---|---|
| scheduler (`thread/`) | PCBs, `ready_thread_list`, `all_thread_list` | `ThreadStart`, `ScheduleThread`, `BlockThread`, `UnblockThread` | a thread is started with interrupts on; woken threads go first |
| timer | `cpu_ticks_left` | `IntTimerHandler` | preemption between any two instructions |
| locks (`thread/sync.c`) | semaphore value, waiting list, holder, counter | `SemaphoreDown`/`Up`, `sys_lock_lock`/`unlock` | holder and counter are written with interrupts on; lock barging; the saved interrupt status |
| I/O queue (`device/ioqueue.c`) | ring buffer, one sleeping producer and consumer | `ioqueue_putchar`, `ioqueue_getchar` | sleeping while holding the queue's lock |
| keyboard (`device/keyboard.c`) | modifier flags, prefix flag | the handler | two-byte codes, left and right keys |
| console, `KeyboardOutput` | console lock | `console_*` | a thread sleeps on the lock with interrupts off |
| lists (`lib/kernel/list.c`) | two pointers per element | push, append, pop, remove, find | a walk with interrupts on |
| bitmaps (`lib/kernel/bitmap.c`) | bits | test, set, scan | the scan tests one bit too many |
| page allocator (`kernel/memory.c`) | pools, bitmaps, page tables, TLB | `palloc`, `pfree`, `VirtualAddrMapping` | two locks over one pool; exhaustion; stale translations |
| malloc (`kernel/memory.c`) | free lists, arena headers | `sys_malloc`, `sys_free` | pages go back when their last block does |
| processes (`userprog/`, `SetupPage` of the loader) | page directories and tables, `cr3`, `esp0`, descriptor tables | `ExecProcess`, `CreatPDE`, `StartProcess`, `ActiveProcess` | tables are edited through the directory that is in use; directories are copies |
| interrupt entry, system calls, `switch_to` | kernel stacks | `VECTOR`, `IntExit`, `syscall_handler`, `switch_to` | five places that must agree on the order of words on a stack |
| screen (`print_asm.S`, `print.c`) | video memory, cursor registers | `sys_putchar`, `sys_setcursor`, `sys_putint`, `sys_puthex` | several port accesses per character; handlers print without the lock; 16-bit positions |
| strings (`lib/string.c`) | | `memcpy`, `strcmp` and the like | signed characters, overlap |
| boot sector, PIC, PIT, IDE | | | not modelled, see below |

How they interact: locks are built on the scheduler; the I/O queue on a lock and
on `BlockThread`; `KeyboardOutput` joins the keyboard interrupt, the queue and the
console lock; the page allocator uses bitmaps and locks; malloc uses the page
allocator and lists. Threads and processes are created with pages from the page
allocator, and printing goes through the console lock.

## The modules

| Module | Models | Notes |
|---|---|---|
| `Thread` | scheduler, timer, interrupt status, `ActiveProcess` | lists are sequences (see `List`); `resume[t]` is the interrupt status with which `t` goes on; `walk` is the element that the `elem_find` of `ThreadStart` is at, one step per element |
| `Sync` | semaphores and locks, EXTENDS `Thread` | one step per stretch that no interrupt can split; `MaxRepeat` bounds the nesting |
| `AbstractLock` | what a lock promises | `Sync` implements it; `PoolRace`, `Creation` and `Screen` build on it |
| `IoQueue` | the queue, EXTENDS `Sync` | `Polling` are the callers that test the queue first, as `KeyboardOutput` and the handler do; others sleep in `ioqueueBlock` |
| `AbstractQueue` | a bounded FIFO queue | `IoQueue` and `KeyboardOutput` implement it |
| `KeyboardOutput` | interrupt, queue, printing thread, console, EXTENDS `IoQueue` | the composition that the shipped kernel runs |
| `Keyboard` | the handler, byte by byte | keys are the environment: pressed, repeated, released in any order; `shifted` records what a shift key did last |
| `Screen` | `sys_putchar` port access by port access, its callers, `GeneralIntHandler` | positions are 16-bit numbers; `spoiled` records that a handler moved the cursor during a thread's `sys_putchar` |
| `Terminal` | rows of characters and a cursor | `Screen` implements it until it is spoiled |
| `Format`, `Strings` | `print.c` and `string.c` as operators | loops are recursive functions; ints and bytes have a width |
| `List` | `list.c`, pointer by pointer | justifies the sequences of the other modules; `strayed` records that an element was moved from under a walk |
| `Bitmap` | `bitmap.c` as functions | the bit behind the bitmap is part of the memory |
| `PageAlloc` | pools, address spaces, page tables, TLB | a call is one step, since it holds the lock of its pool; `PallocLimit` is the 3840 of `palloc`'s ASSERT |
| `AddressSpace` | directories and tables as words in memory, `SetupPage`, `PageMapping`, `CreatPDE`, `ActivePDE`, addresses in the GDT and IDT | every access goes through `Translate` with `cr3`, as on the processor |
| `Spaces` | one function from pages to frames per process | `AddressSpace` implements it |
| `Context` | interrupt entry and exit, system calls, `switch_to`, the stacks of `ThreadCreate` and `StartProcess` | a processor with registers and a stack, several threads; `due` records what a thread is to find when its own code goes on |
| `PoolRace` | accesses to the bitmap of the kernel pool, one by one | each thread under the lock that it really holds; `crossed` records that a kernel thread and a process have written across each other |
| `Creation` | `AllocatePid` by threads that create threads, EXTENDS `PoolRace` | the increment is a read and a write, and the return reads again |
| `Arena` | `sys_malloc`, `sys_free` | addresses are numbers, so that overlap can be stated |
| `SyncProofs`, `QueueProofs`, `CreationProofs`, `DeviceProofs` | | proofs about `Thread` and `Sync`, `IoQueue`, `Creation`, and `Screen` and `Keyboard` |
| `PageSteps`, `MemoryProofs` | | proofs about `PageAlloc` and `Bitmap` |
| `ArenaSteps`, `ArenaProofs` | | proofs about `Arena` |

`MC*` modules give the constants their values. Where one extends modules that share no state
(`MCDevices`, `MCLibrary`, `MCProcess`), a behaviour exercises one of them, which `part` says. An operator whose name ends in
an underscore and a word (`Requeue_Always`) is a mutant: the definition that follows
it with a plausible mistake, used to see that a property can fail.

Abstractions shared by all modules: a PCB is a thread name; stacks and registers
are in `Context` only, the canary is left out; a byte or character is a member of a small set;
`cpu_ticks_elapsed` and `ticks`, which nothing reads, are left out.

## The runs

Passing runs:

| Run | Instance | Shows |
|---|---|---|
| `scheduler` | `Main`, a kernel thread and two processes, started while ticks and blocking go on; fair | `PanicsOnlyInWalk`, `ReadyListOK`, `AddressSpaceOK`; `NoStarvation`, although `UnblockThread` puts threads in front |
| `locks` | `Main` and two threads, one lock nested up to twice; fair | `HolderOK`, `WaitingListOK`, `NoLostWakeup`, `IntStatusKept`, refinement of `AbstractLock`; `WaiterWoken` |
| `ioqueue` | two producers, a consumer that takes without looking first, three slots; fair | sleepers are recorded truly, refinement of `AbstractQueue`; `ProducerServed` unless producer and consumers wait for each other; an ASSERT fails only when a byte is put while a consumer sleeps |
| `keyboard_output` | the printing thread, a second writer, a two-character keyboard | `TypedInOrder`, and no ASSERT fails |
| `devices` | 3 rows of 3 columns, two printing threads; left and right shift, control and alt, caps lock, a letter and a digit | `ImplementsTerminal`; `KeepsToScreen`: the only way to stop the kernel by printing is a backspace at the origin; `CursorRecovers` from any position that the cursor registers can hold; `NotStuck`, `TypedAsShifted` |
| `library` | two lists and three elements that move, one list that grows; memories of 6 bytes; numbers of 9 bits | `PointersSpell`; a walk with interrupts on leaves its list only if its element was moved; `StringsRight`, `NumbersRight` |
| `pages` | bytes of 2 bits, 5 + 5 frames, one process | `FramesOwnedOnce`, `BitmapsTrue`, `PanicsOnlyWhenOut`; on every bitmap that is reached, `ScanIsFirstFit` |
| `processes` | directories of 5 entries, two processes; `Main`, a kernel thread and a program, clock and spurious interrupts; 3 pages of 8 bytes, blocks of 2 and 4 bytes | `ImplementsSpaces`, `DescriptorsReach`; `ContextKept`; `LiveIsolated`, `FreeListsOK`, `NothingLeaks` |
| `creation` | two kernel threads, a process, three frames, two pids | `GivenOnceUnlessCrossed`, `PidsIncrease` |

In three runs TLC finds the code to differ from what the repository says of it:

- `start_walk` (`NoPanic`): Main walks `ready_thread_list` in `ThreadStart` with interrupts on. It is
  preempted at the tag of a thread, that thread runs and goes to sleep on a semaphore, and Main goes on
  along the waiting list to NULL, where `ASSERT(elem != NULL)` (`list.c:77`) fails. In the shipped kernel this takes
  a process that blocks on the lock of the user pool, which the other process holds inside `StartProcess`.
- `stale_tlb` (`TlbFresh`): `PageUnmapping` is to "refresh the tlb" (`memory.c:161`), but its `invlpg` has the local
  variable as operand. The kernel uses a page, frees it and allocates it again; the page table has another frame for
  it, the processor still the old one.
- `pool_mixed` (`FrameGivenOnce`): a kernel thread in `kpalloc` has found a clear bit and read its byte; a process in
  `StartProcess`, under the lock of the other pool, finds the same bit clear; the first one writes the byte back, then the
  second one, and both have the frame. In the shipped kernel the kernel thread is `Main` in the `ThreadStart` that
  follows `EnableInt` (`main.c:31-34`). Once a process runs, its system calls have interrupts off and take their frames in one
  go, but can still fall between the scan and the write of `Main`.

Several properties say exactly when a promise is lost, by way of a history variable,
where the code does not keep it always:

- `PanicsOnlyInWalk` (`thread.c:126`): no other ASSERT of the scheduler fails, whatever threads do while Main
  starts others. `FindStaysOnList` (`list.c:82`) is the same hazard at the level of pointers: the walk leaves its list
  only if the element under it was moved.
- `PanicsOnlyWhenOut` (`bitmap.c:28`, `memory.c:244`): the kernel stops when a pool is exhausted, and, on a machine
  where a pool has 3840 pages or more, when nearly all of it is asked for at once, which `sys_malloc` lets through.
- `GivenOnceUnlessCrossed` (`memory.c:148`): frames are given once as long as no kernel thread and process
  write the bitmap across each other.
- `TypedAsShifted` (`keyboard.c:147`): both shift keys share one status, so that a character is shifted if the last
  thing any shift key did was to go down. With both down and one released, the other one no longer shifts.
- `ImplementsTerminal` (`keyboard.c:225`, `interrupt.c:45`): the keyboard handler prints without the lock,
  and a spurious interrupt sets the cursor from `si`.
- `PidsIncrease` (`thread.c:44`): creators that overlap may get equal pids, others may not.
- `ProducerServed` and `PanicsOnlyOnSleeper` (`ioqueue.c:51`, `ioqueue.c:87`): only consumers that do not
  look first, of which the shipped kernel has none, can hang or stop it.
- `DescriptorsReach` (`interrupt.c:195`, `tss.c:50`): the bases of IDT and TSS lose bits, which does no
  harm while both lie in the first 64 KB of the kernel.
- `NumbersRight` (`print.c:9`): the smallest number is not printed as digits. `StringsRight`: `strchr` finds no
  byte of 128 or more, and `strrchr` (`string.c:100`) returns the first match, not the last.

Smaller disagreements were met while modelling. The models that reach them have
them as the code does, and no run is kept for them:

- a round lasts priority + 1 ticks (`timer.c:46`), where `thread.h:67` says priority;
- with two shift keys down and one released, shift is taken for released
  (`keyboard.c:147`), where `keyboard.c:41` says the variables record whether the keys are pressed;
- the entries of the exceptions 8, 10 to 14 and 17 push a 0 although the processor has pushed an error code
  (`kernel.S:60`), where `kernel.S:16-19` says that all have the same stack; `IntExit` would return to the error code, but
  `GeneralIntHandler` never returns from an exception;
- an exhausted pool fails an ASSERT in `BitmapScan` (`bitmap.c:28`) before `palloc` can roll
  back as `memory.c:259` says; `PanicsOnlyWhenOut` bounds when this happens;
- `div` at the end of a line divides the position that was read and not the one in `bx`
  (`print_asm.S:94`); the two agree whenever it matters;
- the loader stores 65536 words more than the kernel file (`loader.S:233`: `loop` counts `ecx`), in
  memory that is free, and relies on memory being zero (`loader.S:139`, `loader.S:293`).

### Bounds

- Threads: two to four. Two already give every pair of interleaved operations,
  the third one the waiter that is overtaken.
- Priorities 1 and 2 in `scheduler` (0 ticks left, and some left, are the two cases of
  the handler), 1 in `locks`, 0 in `ioqueue`, where every tick then preempts.
- Nesting of a lock: 2 (`MaxRepeat`): the counter at 1, and above 1.
- Queue slots: 3, i.e. two bytes, so that indices wrap and full differs from empty
  by more than one step.
- `pages`: 5 frames with bytes of 2 bits, so that a pool does not end at a byte
  boundary and the bitmaps are rounded down; the process has room for more
  pages than there are frames, so that exhaustion, fragmentation and a second page table happen. `PallocLimit` is as large
  as a pool, as 3840 may be.
- `processes`, the heap: one desc with three blocks per page, one with a single block (its
  page goes back at once), and large requests of one and two pages.
- `library`: three elements are enough for a first, a middle and a last one. Six bytes hold
  two strings with a gap; bytes have four values, two of them negative as `char`. Numbers
  reach three digits in both bases.
- `devices`: at most five of the eleven keys are down at a time (`MaxDown`), enough for both shift keys with others.
  Positions have 6 bits instead of 16, in two registers of 3 bits, and the segment covers a
  quarter of them, as it does of 2^16; lines, the last line and both wrap-arounds are reached. States behind a
  spoiled one are not explored further.
- `processes`, the spaces: a process has pages in two tables, so that tables are missing, created and
  shared; freed frames come back dirty. One page stands for 64 KB and two for the low megabyte.
- `processes`, the registers: with three threads each can be in its own code, in an interrupt, in a system call or
  asleep while another one starts; the words of its registers change between interrupts, so that an old copy would show.
  Of the interrupts that return, the clock switches and the spurious one does not.
- `creation`: two creators can overlap each other and a process, or one call comes after another that is
  done (`MaxPid` is 2); frames are taken and given back without bound.

`scheduler`, `pages`, `creation`, `ioqueue` and `devices` do not check deadlock: the kernel stops in them when a
pool is exhausted, the bound on pids is reached, or after a failed ASSERT or a fault. All other passing runs do.

### Fairness

- The timer (`IntTimerHandler`) is strongly fair: the 8259A latches an interrupt
  that arrives with the flag off, so a flag that is on again and again lets it through.
- Turning interrupts back on is fair, because every critical section ends by restoring
  the status it found.
- A thread that is scheduled again and again takes the next step of the call that it is
  in, and leaves its critical section. No thread is assumed to make a call,
  except the consumer of `ioqueue`, which is `KeyboardOutput`'s loop.
- That a particular thread gets a lock is not claimed: a thread that is running may
  take the lock before the one that was woken. Only the wake-up is.

## The proofs

The proofs hold for any number of threads, locks, keys, processes, frames and bytes, any size of the
queue's buffer, of pools, address spaces, pages and blocks, and any size of the screen. They assume what the `ASSUME` of each module says of
its constants, which TLC evaluates in the runs.

| Module | Assumptions | Theorems |
|---|---|---|
| `SyncProofs`, on `Thread` | `Main` is a thread and no process, every other thread is created once, priorities are bytes | `OnlyTheWalkPanics` (`PanicsOnlyInWalk`), `ReadyListCorrect`, `AddressSpaceCorrect` |
| `SyncProofs`, on `Sync` | also: `NULL` is neither a thread nor a lock, the bound on the nesting is positive | `LocksExclude`, `LocksNeverPanic`, `WakeupsNotLost`, `LocksImplement` (`ImplementsLock`), `IntStatusRestored` (`IntStatusKept`) |
| `QueueProofs` | also: producers and consumers are different threads, none of them `Main`; at least two slots | `SleepersRecorded`, `SleepersHaveBytes`, `PanicsExplained`, `RingImplements` (`ImplementsQueue`) |
| `CreationProofs` | `pid_lock` is not the lock of a pool, `NULL` is no thread | `PidsAreNew` (`PidsIncrease`), `FramesGivenOnce` (`GivenOnceUnlessCrossed`) |
| `DeviceProofs`, on `Keyboard` | codes are those of scan code set 1 | `ModifiersNotStuck` (`NotStuck`), `TypedCharacters` (`TypedAsShifted`) |
| `DeviceProofs`, on `Screen` | the screen lies within the segment, the segment and one line in the lower half of the 16-bit range; CR, LF and BS are not among the other characters | `PrintingKeepsToScreen`, `CursorComesBack`, `ScreenImplements` (`ImplementsTerminal`) |
| `PageSteps`, `MemoryProofs` | the pools, an address space, a byte of a bitmap and a page table are not empty; pages whose TLB entry is tracked are pages of the kernel | `FramesNeverShared` (`FramesOwnedOnce`), `BitmapsStayTrue` (`BitmapsTrue`), `AssertsHold` (`PanicsOnlyWhenOut`), `ScansAreFirstFit` (`ScanIsFirstFit`) |
| `ArenaSteps`, `ArenaProofs` | pages, headers, blocks and the pool are not empty; the largest block fits into a page behind the header | `HeapCorrect` (`LiveIsolated`), `CountsCorrect` (`FreeListsOK`), `HeapDoesNotLeak` (`NothingLeaks`) |

A key with code 0x60 is excluded by the assumption on `Key`: its release would be the byte E0, which is the
prefix; scan code set 1 has no such key.

The callers of `Sync` are as they are in the source: none takes a second lock while it
holds one. (Two threads that took two locks in opposite orders would both block and
leave the ready list empty.)

Each argument is an inductive invariant, one lemma per action that preserves it, and
theorems that follow from it:

- `ThreadInv`: either the walk has failed its ASSERT and nothing moves any more (`PanicInv`), or `RunInv` holds. This
  adds to the properties that `Main` never blocks, that the threads yet to be started are on no list and have no status, and
  that the walk never gets to the tag of the new thread. `PanicsOnlyInWalk` needs all of them: the ready list is never
  empty when a thread blocks because `Main` is on it, and an append never meets its
  element because the thread is new.
- `SyncInv`: the types, the scheduler's part (`SchedInv`, which `ThreadInv` has too), `ControlInv`
  (where a thread is and which lock it is at), `SleepersListed`, `SemaphoreInv` (value 0 if and only if
  some thread owns the lock), `Mutex`, `LockInv` (holder and counter at each point of the two
  functions) and `NoLostWakeup`. Mutual exclusion is not inductive without `SemaphoreInv`, nor the
  ASSERT on the counter without `LockInv`. `SyncInv` allows a thread to block while it holds a lock, since
  `ioqueueBlock` does; that nobody does so in `Sync` itself is `LockSleepers`. In the refinement a lock
  changes hands with the semaphore; setting and clearing holder and counter does not show.
- `IoInv`: either an ASSERT has failed and nothing moves any more, or `UpInv` holds. This has `SyncInv`,
  `PlaceInv` (for each thread, its place in `ioqueue.c`, in `sync.c` and in the scheduler, and the field that
  records it as a sleeper), `TurnInv` and `ByteInv`. `TurnInv` is the heart of it: calls run with
  interrupts off, so a thread that was woken in a call stays at the head of the ready list until whoever
  woke it gives way, and there is at most one. This is why a producer that tested the queue
  before it had to wait for the lock still finds a byte in it when it goes to sleep (`ByteInv`).
- `CreationInv`: who is inside an allocator has its lock, what `next_pid++` has read is still its value, and `next_pid`
  is above everything that had been returned before the call from the store on, which is why reading it again without
  the lock does no harm to the order. `FrameInv`, while nothing has crossed: the bitmap is what has been given away, and a bit that a scan found clear or
  a byte that was read stays as it was until it is written back, because the lock keeps out the threads of the same kind
  and those of the other kind would have crossed.
- `KeyInv`: at most one key is on its way, and the statuses agree with the keys that are down but for what
  its code will change. Two-byte codes make this differ from `NotStuck` between the bytes.
- `ScreenInv`: what a thread knows at each port access, namely which register is selected and how `ax` and `bx`
  relate to the cursor, as long as nothing is spoiled; types and ownership of the console lock
  always. For the refinement, positions are split into row and column with lemmas on division; a character counts as
  printed when it is in the video memory, and rolling the screen and setting the two cursor registers
  are steps that do not show.
- `PageInv`: the frames behind the pages of the kernel and those of page tables are different ones of the kernel pool, the frames behind the
  pages of processes different ones of the user pool; the bit of a frame and the bit of an address are set if and only if the frame is in use
  and the page is mapped; an allocation is a range of mapped pages, and no page is in two. These need each other: a scan that finds clear bits
  finds pages that are not mapped only while the bits are true, and clearing the bits of the pages of one allocation keeps them true only while
  no frame is shared. `StacksKept` is what one would not expect: `ReturnOnePhysicPage` takes the first frame of the user pool for one of the kernel
  pool (`>` at the border), and would clear the bit of another frame. It never gets to do so: a process takes its stack before anything else, so the
  lowest frame of the user pool goes to the stack of the process that starts first, and stacks are never freed. The bit behind a bitmap that
  `BitmapScan` tests does no harm in the kernel's addresses, where there is a page for it, nor in those of a process, where the stack
  takes the last bit. `PageSteps` shows that mapping and unmapping keep the invariant, as facts about bitmaps and tables
  without any action, and that the loop of `BitmapScan` finds the first place; `MemoryProofs` that each operation is such a step.
- `HeapInv`: a page is unused, cut into blocks, or part of a large allocation whose header counts its pages; every block of a cut page is either
  with a caller or once on the free list of its desc, the header counts the latter, and some block of a cut page is with a caller. The last
  part fails in the middle of `sys_malloc`, between cutting a page and taking a block off it; so the steps are proved to keep the other parts
  (`Heap`, in `ArenaSteps`) and only the whole actions to keep the last one (`ArenaProofs`).

What loops compute is proved by induction, in the form of facts about sets (a set of
numbers that has 0 and with every number the next one has them all; a set of numbers has a
least one), as the provers cannot use the induction rules on formulas. The loop of `BitmapScan`,
the blocks of an arena and the lowest free frames are done this way.

Only model-checked:

- liveness (`NoStarvation`, `WaiterWoken`, `ProducerServed`): fairness is out of the prover's reach;
- `StringsRight` and `NumbersRight`: a proof would need one such induction for each function, on recursive definitions that
  compare strings and digits; the bytes and the widths of the run have every case that the functions tell apart;
- `PointersSpell` and `FindStaysOnList`: they are about chains of pointers, which are closures and not loops with a counter;
- `DescriptorsReach` and `ContextKept`: fixed layouts, of which an instance shows most of what there is to show;
- `TypedInOrder` of `KeyboardOutput` and `ImplementsSpaces`: no proof has been written.

`NoPanic` of `Thread`, `TlbFresh` and `FrameGivenOnce` do not hold, as the three runs show, and so have no theorem.

## Not modelled

- Boot sector and loader, except for `SetupPage`: BIOS calls, disk I/O and the copying of the
  kernel, straight-line code that runs once before there is a kernel.
- The programming of the PIC and the PIT, and `InitAll`: port writes in a fixed order with
  interrupts off; their effect is in the initial states.
- The entry and the message of an exception (`GeneralIntHandler` otherwise than for spurious interrupts): the
  kernel spins behind it, with interrupts off.
- The table of system calls (`SyscallInit`) and `sys_getpid`: constant tables and a field.
- A process that is preempted before `process.c:18` has read `self_kernel_stack`: where its first
  frame would lie depends on the frames of the compiler. It takes a whole quantum to pass within a
  few instructions.
- A thread function that returns: it returns to address 0 (`thread.c:36`).
- The test threads of `main.c` that `_start` does not run; `device/ide.c`, which is not part of the
  build; `lib/stdio.c`, which defines no function.

## Plan

1. Proofs: `ImplementsSpaces`, `PointersSpell`.
2. Malloc composed with the locks of the pools and with processes; an abstract
   allocator that `Arena` implements, and an abstract page allocator for `PageAlloc`.
