# A verification project for Einstein

Einstein emulates an Apple MessagePad: an ARM processor, its MMU and memory, the
interrupt controller and timers of the Voyager chip set, flash, PCMCIA slots, serial
ports, sound, a tablet and a screen.  This directory holds TLA+ models of the parts of
it whose correctness depends on an order of events, a cache, a wrap-around or a lock.

## Inventory

| component | state it keeps | operations | interacts with | what is hard |
|---|---|---|---|---|
| Interrupt manager (`TInterruptManager`) | timers, match registers, raised and enabled interrupts, GPIO pins, two condition variables | handshakes (init, resume, suspend, destroy), register writes, `RaiseInterrupt`, `RaiseGPIO`, `WaitUntilInterrupt`, the timer thread | emulator thread, host threads, processor | three threads, lost signals, a wrapping counter |
| Emulator loop (`TEmulator`) | `mRunning`, `mSignal`, `mInterrupted`, `mPaused` | `Run`, `Step`, `Stop`, `PauseSystem`, `BreakInMonitor` | interrupt manager, JIT, monitor | flags written by three threads without a lock |
| Processor (`TARMProcessor`) | registers, banks, CPSR/SPSRs, pending interrupts | `SetCPSR`, exceptions, `IRQ`/`FIQ` lines | JIT, MMU (privilege), emulator loop | register banking, interrupts that arrive on another thread |
| MMU (`TMMU`) and its TLB (`THashMapCache`) | translation table base, domains, privilege, fault registers, cache of sections and pages | translations, `InvalidateTLB`, register writes | memory, JIT cache | stale entries, an LRU list and a hash table kept in step |
| JIT cache (`TJITCache`) | translated pages by virtual page, chains of the same physical page | `GetPage`, `PageMiss`, `InvalidatePage`, `InvalidateTLB` | MMU, memory, JIT pages | several virtual pages of one physical page |
| Memory (`TMemory`) | RAM, ROM, flash, breakpoints and watchpoints | reads and writes by size, breakpoints | all devices | a breakpoint hides an instruction |
| Flash (`TFlash`) | the flash image | write, erase | memory, host file | writes only clear bits |
| DMA (`TDMAManager`) | channel registers | register accesses | serial ports, sound | registers read by device threads |
| Platform manager (`TPlatformManager`) | event queue, buffer queue, lock count, power | `SendAEvent`, `GetNextEvent`, lock and unlock, `PowerOn`/`Off` | screen, network, files, interrupt manager | events sent by the host while locked |
| PCMCIA (`TPCMCIAController`, cards) | card, interrupt registers | insert, remove, register accesses | interrupt manager, host UI | removal during an access |
| Sound (`TSoundManager` family), `TCircleBuffer` | circular buffers, output state | schedule, start, stop, host callback | interrupt manager | producer and consumer on two threads |
| Serial (`TSerialPorts`, managed Voyager port) | FIFO, DMA buffers | register accesses, DMA thread | DMA, interrupt manager | a thread per port |
| Network (`TNetworkManager`, `TUsermodeNetwork`) | packet queues, TCP and UDP handlers | send, receive, timer | NE2000 card, host sockets | a protocol state machine per connection |
| Screen, tablet (`TScreenManager` family) | pen sample queue, screen buffer, power | pen events, `GetSample`, blit | platform manager, interrupt manager | a ring buffer filled by the host UI |
| Scheduler, threads, condition variables (`Emulator/Scheduler`, `K/Threads`) | threads, suspend counts | create, suspend, resume, wait | everything | host differences |
| Monitor, logs (`Monitor`, `Emulator/Log`) | halted state, watches, ring of lines | commands, `Stop`, save and load | emulator loop | a console thread drives the emulator |
| Streams, host information, files, ROM images, native calls, front ends | - | input and output, host calls | host | not control logic |

For each part, what makes it correct:

- Interrupt manager: no interrupt or match is lost, whatever the order of the three
  threads; a wait ends when an interrupt it does not mask arrives; suspending and
  resuming the timers does not move the emulated time; handshakes end.
- Emulator loop: an interrupt that is signalled is looked at; a break is obeyed at the end of
  its page; `Stop` stops.
- Processor: the array of current registers and the backup copies are, at any moment,
  the banked registers of the architecture; the privilege follows the mode.
- MMU: a translation is that of the tables, or of a TLB entry since the last flush.
- JIT cache: what is executed is the present content of a page that may be executed.
- Memory and monitor: a breakpoint hides its own word and nothing else, and stays until it
  is cleared; `Stop` finds the loop of the monitor.
- Platform manager: every event is announced once the queue is unlocked, and taken once, in order.
- Circular buffer: bytes come out in the order they went in, and no others.
- Network: NewtonOS receives the peer's bytes once and in order; a connection ends for both
  sides.
- PCMCIA: no access reaches a removed card.

## Modules

| module | what it is | models |
|---|---|---|
| `TimerMatch` | operators | `FireTimersAndFindNext`, `GetNextTimer`, `GetTimer`'s arithmetic |
| `TimerCalls` | a machine of successive calls, each with what the last one left raised | the same, over every input |
| `InterruptManager` | three kinds of threads | `TInterruptManager`, the calls of `TEmulator::Run`, `Step`, `Stop` to it, devices that raise interrupts |
| `EmulatorLoop` | three threads, one action per shared read or write | `TEmulator::Run`, `Step`, `Stop`, `PauseSystem`, breakpoints, the loop of `TJITGeneric`, the pending interrupts of the processor |
| `ProcessorModes` | definitions | modes and banks of the processor |
| `BankedRegisters` | abstract specification | the register banks of the architecture: one file of banks, no copies |
| `RegisterBanks` | one action per exception, mode change and transfer | `TARMProcessor`'s array and backup copies, `LDM^`, `STM^`, `LDM` with the PC |
| `HashMapCache` | operators | `THashMapCache` |
| `CodeCache` | the cache, the MMU as it sees it, memory, the CPU's fetches | `TJITCache`, `TJIT::Invalidate`, `GetJITUnitForPC`, the branches that patch themselves |
| `TranslationTables` | one action per call of the MMU | `TMMU`: walk, domains, permissions, faults, TLB, registers |
| `EventQueue` | abstract specification | a queue from which every event is taken once, in order |
| `PlatformManager` | host threads beside the emulator thread | `TPlatformManager` and, from its use, the driver of NewtonOS |
| `SharedPins` | `PlatformManager` with the PCMCIA slots | the register of GPIO pins that they share |
| `CircleBuffer` | one action per call | `TCircleBuffer` |
| `UsermodeNetwork` | one action per packet, poll and move of the peer | `TUsermodeNetwork`, `TCPPacketHandler`, and, from their use, the two ends of a connection |
| `Monitor` | two threads, their shared flags, memory with breakpoints | `TMonitor` and the breakpoints of `TMemory` |
| `MC...` | instances for TLC | `MCMonitor` has `TimerCalls` and `Monitor` side by side, `MCDevices` the MMU, the ring buffer and the network |
| `...Proofs` | theorems: `InterruptProofs` (with `TimerCalls`), `RegisterBanksProofs`, `JITProofs` (`CodeCache` and `EmulatorLoop`), `TranslationTablesProofs`, `HashMapCacheProofs`, `PlatformProofs`, `StreamProofs` (`CircleBuffer` and `UsermodeNetwork`), `MonitorProofs` | |

`InterruptManager` EXTENDS `TimerMatch`; `RegisterBanks` instantiates `BankedRegisters`
and `PlatformManager` instantiates `EventQueue`, each with a refinement mapping;
`CodeCache` and `TranslationTables` EXTEND `HashMapCache`; `SharedPins` composes
`PlatformManager` with the removal of cards.

Components that share no state are checked in one run, *side by side*: in `MCMonitor` and
`MCDevices` a behaviour takes one component through its steps while the others stay in a
fixed initial state, so that the states of the run are the sum of those of its parts, and
not their product.  The definitions of the modules that meet in one run or in one module of
proofs have names of their own for that: `CallsInit`, `RingInit`, `NetInit`, `LoopInit`,
`LoopTypeOK` and so on.

### InterruptManager

State: every field of `TInterruptManager` that decides something, under its own name;
`timerPC` and `emuPC`, the places where the two threads may be; `timerSignalled` and
`emuSignalled`, set when a thread that sleeps on its condition variable has been
signalled and now waits for the mutex.  A signal sent to a thread that does not sleep
changes nothing, as with the condition variables of the host.

The mutex is not a variable: a critical section is one action, and the only section
that other threads can see in the middle is the timer thread's evaluation, because
`SetFIQMask` and `Stop` work without the mutex.  It is two actions: `Evaluate` (in
`TimerContinues` or `TimerRestarts`) up to the FIQ line, `TimerSleeps` from the IRQ line
to the wait.  `MutexFree` says that the timer thread is not between them.

The host clock is a counter modulo `Modulus`; `Tick` may happen at any moment, as long
as the timer thread evaluates once per turn of the counter (19 minutes of the program)
when it has a match to wait for.  A sleep with a deadline may end at any moment, for the
code converts ticks to nanoseconds rounding down.  `CtrlValues`, `FIQValues` and
`MatchValues` are what NewtonOS may write; `MaxStops` bounds the calls of `Stop`.

Left out: the alarm and the calendar (registers that only `WriteOtherRegister` stores
and that raise nothing), the state file, logging, and the split of `mGPIORaised |= x`,
which `PlatformManager` and `SharedPins` have.

### EmulatorLoop

`mSignal`, `mInterrupted`, `mRunning`, `mPaused` and the pending interrupts, with `emuPC`,
`timerPC` and `hostPC` for the places of the three threads.  Each read and each write of a
shared variable is an action, unless no other thread can tell it from the next one: `Stop`
is three writes and a wake-up, `SignalInterrupt` two writes, `AckInterrupt` a read of each
of two flags and a write of each of two others, the loop of `Run` a read of each flag it
tests.  `stepping` tells `Step` from `Run`.

`mSignal` is read before a page is entered (`EnterPage`, `TJITGeneric.cp:162`) and not before
each instruction: the instructions of a page call one another
(`TJITGeneric_Macros.h:58`) until one changes the program counter or the page ends.
`ahead` is the number that follows, chosen when the page is entered: `Continues` goes on to
the next or leaves the page.  `Breakpoint`, `PauseSystem` and the exceptions leave it;
`SetCPSR`, the writes to registers and all other instructions may do either.
`BreakInMonitor` is called in the middle of an instruction, by a watchpoint
(`TMemory.cp:1565`) or by an unknown mode (`TARMProcessor.cp:779`), and the instruction and
its page go on.

The pause is split at the moment when the wait begins (`WaitUntilInterrupt`), for the
wake-up of `Stop` is lost before it.  `PauseSystem` takes the masks as they are.

A reset is asked for by the host (`TAndroidApp.cp:319`) with `ResetInterrupt`, which sets a
pending bit and signals nothing: the reads of the pending interrupts find it or not
(`MayRead`), and when they do the processor masks all and forgets what was pending.  That
approximates two things: the request is not kept for the next reading, and the `|=` on
the host's thread, which has no lock, is not split.

The first values of `mSignal` and
`mInterrupted`, which no constructor sets, are arbitrary.  Of `TInterruptManager` only the
effect is kept: the raised lines, and a wait that a signal ends.

Three history variables: `signalled` (interrupts announced since the emulator thread last
read the pending ones), `overwritten` (the emulator thread wrote `mSignal` or
`mInterrupted` over such an announcement) and `broke` (an instruction asked for the
monitor).

### RegisterBanks

`mCurrentRegisters` is the array, `mBackup[bank][register]` the members `mR8_Bkup` to
`mR14fiq_Bkup`.  An exception is `EnterWith`: save the banks of the old mode, set R14 and
the SPSR of the new one, load its registers, raise the privilege.  `ChangeMode` is
`SetCPSR`, including its path for a mode that does not exist, which has already saved and
moved R8 to R12 when it gives up.  `LDM2Aborts` is a transfer of user registers of which
one word cannot be read: the registers below it are loaded, then the data abort enters
with that half-loaded array.

The refinement maps the array and the copies to one register file (`View`): the bank in
use is the array, the others are their copies.  `BankedRegisters` has the architecture:
what each instruction does to the file, with no copies.

### CodeCache

A page stands for its address.  `mVMap` is the map by virtual page (a hash table and a
list from most to least recently used, here the position of each entry), `mPMap` the
chains by physical page, as sets, for a chain never has two entries of the same key
(`ChainsAreMaps`).  A translation is the content it was made from.

`Branch(v)` is a fetch from a page, with all of `GetJITUnitForPC` and `GetPage`: hit,
rebinding of a page of which only the binding was dropped, miss with recycling of the
last entry, or fault, which enters abort mode (the privilege changes, so every binding is
dropped) and continues at the vectors.  `BranchWithinPageFindDelta` is the same for the
page being executed, followed by the patch.  `Write`, `SetPrivilege` and `SetMappings`
are the callers of the two invalidations; a write to the control register of the MMU ends
in `InvalidatePerms`, so that turning the MMU on or off is one more `SetMappings`.

`SetMappings` stands for what the tables and registers of the MMU say at the next flush:
that NewtonOS flushes after it changes a table in memory is its duty, not the cache's.
`misled` remembers the entries that have a branch whose distance was computed from units
that are no longer there.

### TranslationTables

A page is a number of kilobytes; a descriptor is a record with its type, its domain or
its permissions, and what it points to, read from the bits the code reads (the permission
of a large page in a fine table comes from the code's shift, `TMMU.cp:414`).  A translation
looks up the TLB, then walks both levels; each of the ways to fail writes the fault status
and leaves the TLB alone.  `mCache` is the `THashMapCache` of the TLB, `mEntries` the page,
the domain and the index of the permission that the code stores in an entry: domain and
permission are tested again at each hit.  The writes to the registers, the privilege, the
two invalidations and the load of a state are actions; `WriteTables` is NewtonOS's change
of a table in memory, and `stale` the pages it has then to invalidate.

### PlatformManager, EventQueue, SharedPins

`mEventQueue` is the array with its two cursors, `mBufferQueue` the array of buffers;
both grow by `realloc`, whose new cells are `Garbage`, and the queue of events shrinks when
it is found empty.  A section under `mMutex` is one action; what `SendAEvent` and
`UnlockEventQueue` do after they free it, the test of the lock count, the test of the
cursors and the two halves of `mGPIORaised |= pin`, are actions of their own.  The
driver's interrupt handler and its task run on the emulator thread as native calls of
NewtonOS: lock, take an event and send it, unlock when there is none or when the reply
comes.  More than one message may be in flight, for an announcement that was decided
before the lock may come after it.

The refinement maps the cells between the cursors to `EventQueue`'s sequence: every event
is taken once, in order, and, under fairness, taken.  `SharedPins` adds a host
thread that removes a card: `RemoveCard` raises the pin of its slot by the same unprotected
read and write.

### CircleBuffer

Each call is one action, under the mutex of `TPortAudioSoundManager`.  A byte is its place
in the stream.  Three calls break the code: a `Produce` that fills a buffer whose consumer
has moved (equal cursors mean empty), a `Produce` that meets the consumer from behind (the
free space of a wrapped buffer is the difference of two unsigned numbers, negative here, so
huge), a `Consume` of more than there is when the data wrap.  `exceeded` says that one of
them was made; the property is an equivalence, so that the list is exact, and nothing is
said after.

### UsermodeNetwork

One connection, from NewtonOS's SYN to the handler's end: `state`, `mySeqNr` and
`theirSeqNr` are the fields of the handler, `pipe` the list of packets that NewtonOS has
still to read, and the rest is external: a TCP of NewtonOS (`newton`) that acknowledges
what it received in order and repeats its SYN and FIN, a socket that may fail to connect,
a peer that sends and closes.  Every call is on the emulator thread: only the order
varies.  The history variables mark the calls after which the code loses data or leaves a
FIN unanswered.

### Monitor

`mMutex` is with the monitor thread except in its wait; the console thread takes it in
`Stop` only and signals its commands without it.  So a read or a write of a shared flag by
the monitor thread, and each step of `Stop`, is an action; another command of the console is
one action, but for the breakpoints.  A word is code or a breakpoint instruction;
`mBreakpoints` has the records by physical address.  The program (external) jumps, stores,
remaps and changes mode; `Run` and `Step` of the emulator, detailed in `EmulatorLoop`, execute
here until `mRunning` is clear.

The console's `SetBreakpoint` and `ClearBreakpoint` take no lock while the program runs, and
are sequences of steps with those of the program and of the monitor thread in between:

- `SetBegins`: the privilege is saved and raised, the address translated, the record looked
  for, the word read; then `SetWrites` (the instruction), `SetRecords` (the array),
  `RestoresPrivilege`.
- `ClearBegins`: the same up to the removal of the record; then `ClearWrites` (the word read
  when the breakpoint was set), `RestoresPrivilege`.
- `TraceOver` is the `run` that follows a temporary breakpoint.

What the first step joins is joined soundly: between the save, the raise, the translation and
the read, a step of the program can as well come before all or after all, with one effect of
its own, that the program takes the raised privilege away and the translation faults
(`TranslateR` may return `Fault` whenever the program runs).

The monitor thread's look at the instruction, its calls `Disables`, `Enables` and
`ClearsTemporary`, the step and the run are apart too, and each call has a step where it
begins (`Calls`).  The program waits for these calls, so they are one action unless the console
is in a call as well: then two threads move and free the array of records under one another.
`torn` says that it has happened, and nothing is said of the memory afterwards; the control of
the two threads goes on and `StopFindsTheLoop` is checked there too.

History: `meant`, the words the program wrote; `overwritten`, those it wrote over a
breakpoint or between the console's read and write of the word; `disabled` and `missed`, the
breakpoints out of place while one is stepped over, and those of them whose address was
remapped by the step; `raised`, a privilege that `EnableBreakpoint` left raised, or that a
call of the console will take from a mode entered meanwhile; `torn`; `early`, a read of
`mHalted` by `Stop` before `RunEmulator` cleared it.

## Runs

| run | expects | shows |
|---|---|---|
| `timer_calls` | pass | firing and choice of the next match, against the definition by distances on the ring; beside it, the monitor: breakpoints, set and cleared by steps while the program runs, hide nothing but themselves until two threads are in a call at once; `Stop` finds the loop |
| `signals` | pass | no lost signal, no sleep on an interrupt, with devices, GPIO and `Stop` |
| `timers` | pass | two timers on a wrapping counter: sleeps, handshakes, continuity of time |
| `liveness` | pass | handshakes end, interrupts end the wait |
| `loop` | pass | an unmasked interrupt is seen, no other page is entered after a break, `Stop` ends the loop when interrupts it listens for go on |
| `banks` | pass | the array and its copies implement the banked registers |
| `code_cache` | pass | current code, current bindings, one translation per address, the executed page is kept |
| `events` | pass | the arrays implement a queue, every event arrives and is announced, locks are balanced, buffers live as long as their events |
| `devices` | pass | the TLB grants what the tables grant; the ring keeps its bytes; a TCP connection delivers and closes |
| `load_state` | violation | translations of the old memory survive the load of a state |
| `branch_patch` | violation | a patch lands in the wrong translation |
| `lost_pin` | violation | the removal of a card, which raises the pin of its slot, takes back the platform's: an event waits unannounced |

### Bounds, and why they are enough

- Timers: a ring of a few ticks has every order of now, the last evaluation and the
  matches, wrapped or not; more ticks add distance, not order.  `timer_calls` has three
  timers on a ring of five, `timers` two and `signals` one.  The theorems cover every size.
- `signals` has one device (a second only repeats the first: a device has no state but
  its place in `RaiseGPIO`), interrupts enabled all at once and one `Stop`.  `timers` and
  `liveness` write and clear the enabled interrupts and have no `Stop`, whose signal
  answers the wrong wait (see below); `liveness` writes and clears the FIQ mask, which
  moves a pending interrupt from one line to the other whatever raised it.
- `loop` has pages of up to two instructions, so that one can follow the one that clears
  `mSignal`, in the same page or not; a longer page repeats the second.  The safety theorems
  cover every length.  No other bound: 838,000 states.
- Registers: R12 stands for the registers that only FIQ mode banks, R14 for those that
  every exception banks; two values tell a register from another.  The constraint
  `FewHandlers` lets aborts and FIQs nest in every way and takes the other exceptions one
  at a time: their actions differ by the bank alone, and the theorem covers them all.
- Code: three entries, of which one is executed, one is the next to recycle and one is
  neither; five virtual pages in three buckets, so that pages evict each other's
  bindings; one RAM page with two virtual addresses, one of them sometimes a page of the
  ROM, the other sometimes a fault; two contents.  The real numbers (128, 1024 buckets)
  add nothing but length.
- `events` has queues of one place that grow by one, so that every second event makes them
  grow, two host threads, three sends (one waits, one is taken, one is on its way), and
  four buffer identifiers, more than the buffers that can exist: 173,000 states.
- `devices`, 432,000 states.  The MMU: a TLB of two entries, three pages of which two share
  a bucket (so that entries are recycled and unbound), a small page, the second quarter of
  a large one and a section; a coarse and a fine table, two contents of each, external
  entries, two domains.  The ring: three bytes at first, calls of one to four, ten bytes in
  all, which wraps, fills, empties and grows it in every order; the theorem covers every
  size.  The network: two bytes each way, three packets in the pipe, two sockets.
- The monitor: two addresses of which one is remapped to a fault, a word of the ROM and one
  of the RAM, two codes; a permanent, a temporary and a watch breakpoint, for the other two
  watches only print more; one saved state, in user mode with a breakpoint; one `Stop`.
  Commands are not bounded: 1,722,000 states with the timers.  The `VIEW` of the run takes
  states for one that differ only in what no step reads before it is written: the last
  command when nobody will look at it, the flags of the emulator after a stop, and, once
  `torn`, the privilege and the histories.

### Fairness

`InterruptManager!FairSpec` asks weak fairness of the timer thread (the host schedules it,
and it needs the mutex only when nobody holds it for long) and strong fairness of the steps
of the emulator and host threads that wait for the mutex: the timer thread takes the mutex
again and again but frees it for the length of each sleep.  Nothing is asked of the clock,
of NewtonOS or of the host's calls.

`FairLoop` of `EmulatorLoop` asks weak fairness of what each of the three threads does by itself,
for the host schedules them; nobody has to call, to interrupt or to end a program's loop.
Fairness of the emulator thread includes its instructions: a page is executed to its end.
`StopEnds` supposes besides that interrupts the loop listens for go on (`Attention`), as those
of NewtonOS's timer do: `Stop` can be written over by the emulator thread, and it is the next
interrupt that makes the loop look again.  What the loop listens for depends on where it is.
While it executes it is an interrupt that the processor does not mask; in a pause it is one
that the processor masks, for `Run` hands the masks to the wait inverted.  This is a premise
of the property and not a fact of the code: a program that pauses with its interrupts
unmasked, and a `Stop` whose wake-up comes before the wait, leave the loop asleep for ever
while interrupts go on (see the disagreements).

`PlatformManager!FairSpec` asks that a call that began goes on, that NewtonOS takes the
interrupt of the platform and executes its handler, and that it answers its messages.
Nobody has to send.

The other modules have no fairness: their properties are of safety.

## Disagreements found

Three are runs (`load_state`, `branch_patch`, `lost_pin`).  The rest are in the models, as
what the code does, and are named here with the line and what the property of the model
excepts because of them.

Interrupts and the loop:

- `TInterruptManager.cp:507`: `mGPIORaised |= pin` without the mutex.  When
  a host thread removes a PCMCIA card, `RemoveCard` (`TPCMCIAController.cp:370`) raises the
  pin of its slot; with its two halves around the platform's it takes that one back
  (`lost_pin`).  With the platform's host threads alone nothing is lost, whatever
  the order (`events`): they all raise the same pin.
- `TInterruptManager.cp:703`: when `SuspendTimer` ended the loop, the time is saved
  without evaluating the interval since the last evaluation: a match reached in it is
  skipped.
- `TEmulator.cp:247`: the mask passed to `WaitUntilInterrupt` is the negation of what its
  field is said to be (`TInterruptManager.h:460`), so an interrupt that the processor does
  not mask may not end the wait, and one that it masks does.  `NoSleepOnInterrupt` and
  `InterruptEndsWait` are about the mask as it was passed.  `TEmulator.h:389`, "Pause system
  and wait for next interrupt.": with interrupts unmasked the pause waits for none of them,
  and if `Stop` comes between the test of `mPaused` and the wait its wake-up is lost and the
  loop sleeps for ever.  `StopEnds` excepts it by its premise (`Attention`).
- `TEmulator.h:196`, "Break in monitor": `BreakInMonitor` clears flags that are read only when
  the page is left, so that after a watchpoint, or a change to an unknown mode, the
  instructions that follow in the page are executed, up to the next branch or the end of the
  page, before the monitor has the processor.  `NoPageAfterBreak` says no more than the code
  does.
- `TInterruptManager.cp:237`: one condition variable serves `Init`, `ResumeTimer`,
  `SuspendTimer` and `WaitUntilInterrupt`, none of which tests a condition again after its
  wait; the signal of `Stop` ends any of them.  After a `Stop` during `SuspendTimer` the
  next `ResumeTimer` may wait forever; sent before the wait the signal is lost, and sent
  during `ResumeTimer` it lets NewtonOS run before the timer does.  So the handshakes are
  checked, and proved, without `Stop`.
- `SetFIQMask` neither takes the mutex nor signals: until the next evaluation the lines
  follow the old mask.  `LinesAgree` makes an exception of it, the only one.
- `TEmulator.h:126`: `AckInterrupt` and `Run` write `mInterrupted` and `mSignal` after they
  read the pending interrupts: an interrupt announced in between is pending, not masked,
  and nobody looks at it until the next.  `InterruptIsSeen` excepts it (`overwritten`).

Processor and JIT:

- `TJITGeneric_LDM2_template.h:155`: the mask 0x3000 tests R12 and R13 where R13 alone is meant:
  a list with R12 and without R13 is one word longer than the instruction says, and the
  words shift.  `banks` and the theorem take the other lists.
- `TMemory.cp:2899`: a loaded state leaves translations of the old memory in the cache by
  physical page (`load_state`).
- `TJITGeneric_Other.cp:352`: a pointer into a translation is used after the call that may
  have replaced the translation (`branch_patch`).

Memory and MMU:

- `TMMU.cp:414`: the subpage of a large page in a fine table is taken with a wrong shift;
  `PermissionsFollowTables` excepts these pages.
- `TMemory.h:603`: a write of the fault status changes the domain access control instead;
  the model has it so.
- `TMemory.cp:2848`: `EnableBreakpoint` ends with the privilege raised; called from user
  mode, the MMU then grants too much until the mode changes (`raised`).
- `TMemory.cp:2822`: it translates its address again after the step, which may have
  remapped it: the breakpoint is not put back (`missed`).

Monitor:

- `TMonitor.cp:518` "I have the mutex, so the loop is waiting.": before `Run`'s first wait
  the mutex is free as well, and the signal of `Stop` is lost; and `mHalted` is still set
  between the wake-up and `RunEmulator`'s `mHalted = false`, so `Stop` may read it and then
  wait for a mutex that the running thread keeps (`early`).
- A command that is signalled while the monitor thread is not in its wait is lost:
  `StepEmulator` leaves `mHalted` set, and `trace` does not ask for it.  A `stop` at the
  moment a watch is hit is lost too: the monitor runs again.
- A breakpoint set at the next instruction between the monitor's look and its step is
  skipped, and the program counter is not taken back.
- What the program stores over a breakpoint is undone when that breakpoint is cleared or
  disabled (`overwritten`).
- `TMemory.cp:2586` to `:2664` and `:2676` to `:2732`: the console's `SetBreakpoint` and
  `ClearBreakpoint` take no lock while the program runs.  A store between the read of the word
  and the write of the instruction is lost, and comes back as the old word when the breakpoint
  is cleared (`overwritten`).  A privilege that was that of user mode is given back to a mode
  that the program entered meanwhile: an SWI handler then runs without its privilege until the
  mode changes (`raised`).  And the monitor thread may be in a call of its own, after a hit or
  before a step, while the console reallocates or moves the records (`torn`).
  `BreakpointsAreTransparent` excepts each, and nothing else of these calls.
- Not in the model: what becomes of the array after two calls at once; the use that the
  console's calls make of the MMU's fault registers and TLB and of the JIT's cache from
  their own thread; `ClearBreakpoint`'s move of one record too many (`TMemory.cp:2705`); a
  `run` in the start-up script, which signals nobody, for the monitor thread itself executes
  it.

Platform, sound and network:

- `TPlatformManager.h:102`, "New events won't be sent to the Newton.": an event announced
  before the lock, or by a test of the lock that came before it, is taken while the queue is
  locked.  The lock count makes this harmless (`LockIsBalanced`).
- `TPlatformManager.h:190`, "Copy some buffer data (and remove the buffer).":
  `CopyBufferData` (`TPlatformManager.cp:214`) removes nothing.  The driver relies on that: it
  copies a package by pieces and then calls `DisposeBuffer` (`Drivers/NSRuntime/Handlers.f`).
  `BuffersFollowEvents` states what the code does: the record stays until `DisposeBuffer`.
- `TCircleBuffer.cp:79` and `:212`: the three calls above.  Not in the model:
  `TPortAudioSoundManager.cp:180` counts its frames down before it tests them, so that it
  does not convert the last one of a buffer.
- `TUsermodeNetwork.cp:641`: `theirSeqNr` moves with an acknowledgement that has no data
  only; two polls before one give two segments the same number, and NewtonOS drops the
  second.  `AckedSegmentsArrive` excepts it (`reused`).
- In the same file: any packet without a handler makes one and connects; a failed connect
  leaves its handler; the result of `write` is ignored; a FIN of NewtonOS in
  `kStateConnected` is taken for an ACK and answered only when the peer closes; data that
  come for the ACK of a FIN are dropped (`dropped`).  NewtonOS's FINs carry no data in the
  model; the handler would not count data that came with one (`TUsermodeNetwork.cp:684`), and
  its acknowledgement would be short by them.

## Proofs

TLAPS checks every theorem for all values of the constants that satisfy the named
assumptions; TLC checked the inductive invariants or their parts first.

- `InterruptProofs`, the calls: the code compares 32-bit numbers by cases (did the counter
  wrap, is the match behind it); the proof reduces each case to distances on the ring, for a
  ring of any size and up to four timers.  `FiresExactlyAlways`, `NextIsNearestAlways`.
- `InterruptProofs`, the threads: `TypeCorrect`; `LinesAgreeAlways` and `NoSleepAlways` from
  one inductive invariant (`SignalInv`), which adds to the two properties what the timer
  thread knows in the middle of an evaluation (`EvaluationInv`) and that `mWaiting` is the
  emulator's being in the wait (`WaitInv`).  Without the first, `TimerSleeps` would
  establish neither; without the second, an interrupt could find the flag clear.
  `NeverOversleeps` from `SleepInv`: from an evaluation, which holds the mutex, to the next
  signal, the deadline is no later than the match of any enabled timer; a match register is
  written without a signal only when its timer is disabled.  `TimeAlwaysContinuous` needs
  the types only, and the arithmetic of the counter.  `HandshakesAlwaysWait` and
  `GetTimerAlwaysSteady` have the hypothesis `MaxStops = 0`, and are false without it (see
  the disagreements); `HandshakeInv` says, for each step of the emulator thread, where the
  timer thread may be, and that a signal is pending only in a wait.
- `RegisterBanksProofs`: `BanksImplemented` is the refinement.  Each action maps to the
  action of the architecture of the same name; the lemmas say what `BackupBankRegisters`
  does to the view and how loading the new bank undoes it.  `PrivilegeAlwaysFollows` is
  the invariant the steps lean on; `StoresAlwaysUser` follows from the view.
  `LoadsWhatIsListed` assumes that no list has R12 without R13: for such a list it is false.
- `HashMapCacheProofs`: what the operations of the map with its list return and keep, for
  any number of entries and any hash function (`HashAssumption`); the next two rest on it.
- `JITProofs`, the cache: the invariant `IInv` adds to the properties that an entry is in the
  bucket of its own key (`BucketsAgree`: else recycling it could leave it bound under its
  new key's neighbour), and that the page executed, until written, is the first of the list
  (`UnitIsFirst`).  A fetch is proved once (`Fetched`), from any map that has the keys and
  the order of `mVMap` and sound bindings, so that it serves the fault path, where the map
  has just been cleared.  The assumptions: at least two entries, the first pages of the ROM
  do not collide in the hash table, the vectors can be executed under every mapping.
- `JITProofs`, the loop.  `InterruptAlwaysSeen` follows from two facts.  `AllAnnounced`: an
  interrupt that is pending and not masked was signalled, or the timer thread is between the
  pending bit and the signal, or the emulator thread is between the write of the CPSR and its
  look, or it has read the interrupt and is about to take it.  `SignalStands`: while a signal
  is not overwritten, `mSignal` is clear.  While pages are executed and the timer
  thread is idle only the first case is left; and if `mSignal` is set then, the signal was
  overwritten.  `NoPageAfterABreak` from `PastBreak`: after a break `mRunning` is clear,
  and at no point that the emulator thread can reach before its loop ends is `mSignal` or
  `mRunning` set, by the rest of the page or by the look at the interrupts.  The only
  parameter is the length of the pages.
- `TranslationTablesProofs`: `CachedAlwaysAsWalked`, a translation through the TLB is that
  of the tables, from `BucketsAgree` and `RemembersWalk` (a bound entry whose key is not
  stale has what the walk finds now).  The assumption `TablesAssumption` only types the
  constants.  `PermissionsAlwaysFollow` shows, mode by mode, that the packed masks of
  `TMMU.h` are its table of permissions.
- `PlatformProofs`: any number of host threads, any classes, sizes and growths of the two
  arrays.  `TypeCorrect` from `TInv`, which adds that the cells between the cursors, and those
  below the count of buffers, were written: only these are read.  `NoEventForgotten` and
  `LocksAreBalanced` from `PinInv`: the lock count is the number of messages in flight, of
  replies to come and of the handler's own lock (`LocksInHand`), and in every state, not only
  at rest, an event that waits has someone left who raises the pin or looks at the queue
  (`NoneForgotten`).  The second fact needs that the register holds the platform's pin or none
  (`OnlyThePlatform`): with the removal of a card it is false, which is `lost_pin`.
  `QueueImplemented` is the safety part of the refinement of `EventQueue`: `SendAEvent`, with
  its growth of the array, appends to the waiting events, `TakeEvent` takes the first, and
  every other action, `GetNextEvent`'s reset of the cursors and shrinking included, is a
  stutter.  `BuffersAlwaysFollow` from `BufferInv`: an event has one place on its way (a host
  thread, a cell of the queue, a message), and the places that hold a buffer and the records
  of buffers match one to one, by identifier and class (`Matched`).  A step either leaves the
  events where they are, moves one, adds one with its record or removes one with its record;
  a lemma for each says that the match survives, the last with the shift of the array that
  `DisposeBuffer` makes.  The theorem has the hypothesis `MaxSends < IDs`: identifiers wrap,
  and with fewer of them than sends a host thread that stops between its two calls meets a
  second event with its identifier (TLC finds it with three identifiers and four sends).  The
  program has 2^32.
- `StreamProofs`, the ring: for any capacity and sizes, `UnreadBytesAlwaysKept` and
  `BytesAlwaysInOrder`, up to and including the calls the code does not handle.
  `CircleAssumption` says that amounts stay far below the width of a pointer.  The invariant
  adds `Limits`: a wrapped buffer never grows, for its computed free space exceeds every
  amount.
- `StreamProofs`, the network: for any number of bytes, packets in the pipe and sockets
  (`BoundsAssumption` types them), from `NetInv`, whose parts are proved one on another.
  `Phases` says what NewtonOS and the handler know of each other by their states.  `Delivery`,
  while no number was reused: the numbers NewtonOS has received are those of its bytes
  (`Counted`), and if it waits for a number below the last that was sent, the pipe has one
  packet that carries exactly what is missing, before any FIN, while every other packet
  carries nothing new (`Filled`).  So a `Receives` either takes all that is missing or
  nothing.  `Acknowledgement`, while no data were dropped: the handler's count of NewtonOS's
  numbers is NewtonOS's own, less the FIN, which it counts when it forgets the connection,
  and that last acknowledgement stays in the pipe until it is received.
  `AckedSegmentsAlwaysArrive`, `FinAlwaysAcknowledged` and `AlwaysClosedByBoth` follow; the
  first two are about one socket, as the properties are, for a second connection starts the
  peer's stream anew.
- `MonitorProofs`: for any addresses, mappings, words and saved states.  `Types` holds whatever
  overlaps: the types, and what the place of each thread says of its locals (`ConsoleInv`,
  `StepsAtPC`).  `Sound` holds as long as `torn` is false, and adds to
  `BreakpointsAreTransparent` what the threads rely on between their steps: one record for each
  address (`OneRecord`), a record for each disabled breakpoint (`OnlyBreakpoints`), only the
  instruction being stepped over is disabled (`OneDisabled`), what the console is about to
  write is the record of a word that has none, over what the program meant unless it wrote
  meanwhile (`SettingKept`), and the privilege it will give back is that of the mode or
  `raised` (`PrivilegeKept`).  A step of one thread keeps the others' facts because no two are
  in a call at once.  `MonitorAssumption` types the constants and says that a saved
  state has its breakpoints in place (`InPlace`): the monitor thread saves memory and records
  together, between two steps.  A state that is saved after the program wrote over a
  breakpoint, while one is left disabled, or in a call of the console, is outside it.
  `StopAlwaysFindsTheLoop` needs no hypothesis; its invariant `StopInv` says what each
  thread knows of the other's flags at each step.

Model-checked only: the four liveness properties (`HandshakesEnd`, `InterruptEndsWait`,
`EventsArrive`, `StopEnds`), for fairness and ENABLED are out of the prover's reach, and the
three runs that expect a violation.  Every safety invariant and action property of the other
runs has its theorem.

## Not modelled, and why

Listed with reasons in `PROJECT.json`.  In short: the retargeted ROM and the libraries are
generated or vendored; front ends, files, native calls and drawing are calls to the host;
the instructions of the JIT other than those above are functions of the processor state,
with no order to get wrong; watchpoints only print; logging only shows; UDP is one answer
per question; the rest is planned.

## Plan

In this order:

1. `CardSlot` of the PCMCIA controller: removal of a card that an access has tested.
2. The ring of pen samples of the screen manager, filled by the host's thread.
3. The thread of the managed serial port with its DMA channels; the sound output of
   Windows, whose buffers are played by callbacks.
4. `BlockTransfer`: `LDM` and `STM` by pages against the one word at a time of the code
   that is disabled beside it; aborts in the middle.
5. The monitor's snapshots (`snap` and `revert`), which load a state on the console thread.
6. Proofs: `HashMapCache`'s list with its pointers, refining the order; `FiresExactly` carried
   into `InterruptManager`, so that what an evaluation raises there is stated by the distances
   on the ring.
