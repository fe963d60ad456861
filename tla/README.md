# f1c100s_rs in TLA+

`f1c100s_rs` is a bare-metal crate for the Allwinner F1C100s (one ARM926 core):
startup code, drivers, and a small preemptive kernel with threads and IPC
objects. This directory holds its formal models: TLA+ modules translated from
the Rust and assembly sources, TLC configurations that check them on small
instances, and TLAPS proofs of what can be shown for every instance.

Paths such as `thread.rs:219` are relative to `src/src/`; `docs/` is `src/docs/`.

- [The system](#the-system)
- [Modules](#modules) and how they correspond to the code
- [Runs](#runs): what is checked, on which instances, and why those
- [Fairness](#fairness)
- [Proofs](#proofs)
- [Where the code and its documentation disagree](#where-the-code-and-its-documentation-disagree)
- [Not modelled](#not-modelled)
- [Plan](#plan)

## The system

One core, interrupts as the only concurrency. A thread is preempted by the
timer's IRQ; an IRQ handler may wake threads; and every API call of the kernel
masks IRQs (`cpu::interrupt_disable`) from its first statement to its return
or to the context switch it makes. So a call is atomic, and what can go wrong
lies *between* calls: between the halves of a blocking call, between a wake-up
and the moment the woken thread runs, between the tick that times a waiter out
and the waiter's own clean-up.

### Kernel

| component | state | operations | interacts with | what is hard | what makes it correct |
|---|---|---|---|---|---|
| **Scheduler** `thread.rs` | table of thread slots (state, priority, slice, deadline, IPC result, IPC mark), ready bitmap, round-robin cursors, `tick_count`, `current_id`, `started` | create, start, yield, sleep, delete, suspend, resume, exit, `sched_tick`, `block_current`, `unblock_thread` | the timer's IRQ calls `sched_tick`; every IPC object calls `block_current` and `unblock_thread` | the bitmap is redundant with the thread states and kept up to date by hand in every call; the tick races the call that grants a wait; calls in orders nobody wrote | exactly one thread Running; every Ready thread visible; a switch goes to a best-priority thread; no starvation among peers; every wait ends for a reason and timed ones end; no index or unwrap fails; IRQs come back |
| **Context switch and IRQ entry** `asm/context.s`, `asm/startup.s` | banked registers, a frame for each thread, the deferred-switch request | `context_switch`, `context_switch_to`, `context_switch_interrupt`, the IRQ entry and exit | the scheduler | an ISR's switch is deferred to the IRQ exit; a handler may ask for several; each switch resumes with IRQs enabled | every context is on the CPU or in its own frame; what is saved is what was interrupted |
| **Semaphore** `ipc/semaphore.rs` | `count`, waiter bitmask | try_take, take, release, release_from_isr | scheduler; interrupt handlers release | a release between a taker's timeout and its return | tokens neither invented nor lost; nobody waits beside a token |
| **Mutex** `ipc/mutex.rs` | `locked`, `owner`, `nest`, waiter bitmask | try_lock, lock, unlock | scheduler | ownership is handed over while the new owner is not running | mutual exclusion, matched nesting, no lost waiter, progress |
| **Message queue** `ipc/msgqueue.rs` | ring (`head`, `tail`, `count`, slots), two waiter bitmasks | send, recv, try_send, try_recv | scheduler | a woken side does not test `count` again | bounded FIFO; nobody left waiting with a message or a slot there |
| **Event flags** `ipc/event.rs` | flag word, waiter bitmask, every waiter's condition | set, clear, wait (all/any, with or without clear) | scheduler; the I2C ISR sets flags | one pass satisfies several waiters, each consuming flags the next looks at | no lost wake-up, no lost flag, the result satisfies the condition |
| **Signals** `ipc/signal.rs` | pending word and mask in each thread, global tables by slot | install, uninstall, mask, send (thread or ISR), wait, check | scheduler; thread slots are reused | the tables outlive the thread | no lost signal, Ok means a signal, a signal reaches the thread it was sent to |
| **Critical sections** `ipc/spinlock.rs` | the saved CPSR of each guard | lock, drop, with, critical | every module | guards dropped out of order, or held across a switch | IRQs masked while a guard lives, restored after the last |
| **Heap** `allocator.rs` | address-ordered free list, block headers | alloc, dealloc, realloc, free_bytes | threads through `GlobalAlloc` | split and merge in an intrusive list; the header is found again from the payload | payloads disjoint and clear of list nodes, a freed block comes back |

### Drivers

| component | state | operations | what is hard | what makes it correct |
|---|---|---|---|---|
| **Interrupt controller** `interrupt.rs` | ISR table, mask, enable and pending words | init, mask, unmask, install, dispatch | read-modify-writes outside critical sections; the table changes under the dispatcher | no update lost, no enabled vector without a handler |
| **I2C master** `i2c.rs` | a channel for each controller (messages, indices, status, an event object), controller registers | write, read, write_read, probe, the ISR | the ISR finishes a transfer that the thread may be timing out; two threads on a channel; an adapter that never answers | the verdict is true, the ISR works on live buffers only, the channel comes back to Idle, every call returns |
| **Timers** `timer.rs` | three channels and their callbacks, the AVS counter | configure, start, stop, install_interrupt, systick_init, delay_us | an interrupt between any two steps of a call; a callback that restarts its channel; one counter for all delays | one shot is one, no interrupt lost in an installation, a delay lasts as long as asked |
| **GPIO** `gpio.rs` | port words, interrupt status | function, direction, value, pull, drive, irq type/enable/disable/ack, init_default | read-modify-write of shared words; write-one-to-clear status; the console's pins | one pin's call leaves the others alone, no glitch, no unseen edge lost |
| **SPI** `spi.rs` | two FIFOs, chip select | transfer, send, receive, the xfer calls | bursts against FIFO depth; a timeout in the middle | exactly the bytes of the call, chip released, FIFOs empty at rest |
| **SPI flash** `spi_flash.rs` | the external chip | erase, program, write, power-down | page wrap, write enable, busy wait, a transaction that fails | Ok means the span is done; the chip is never sent what it ignores |
| **Clock tree** `clock.rs` | PLL and divider registers, gates, resets | init_default, getters, gates and resets | encodings of factors and dividers; the CPU runs on the PLL being programmed | rates as asked, limits kept on the way, the CPU's PLL untouched while in use |
| **MMU, caches** `mmu.rs` | section table, data cache | init, set_mappings, clean, invalidate | lines that partly belong to somebody else; what the cache held before init | a later descriptor wins; a range is done whole; nothing lost unasked |
| **LCD** `lcd.rs` | timing controller, layers, blanking flag | init_all, output_enable, flip, wait_for_vsync, the blanking interrupt | flag and enable bit share a word; pollers and the handler share the flag | a buffer is shown or nothing; a wait ends on a fresh blanking |
| **PWM** `pwm.rs` | one control word for two channels | init, enable, disable, configure | the other channel's bits; the prescaler under a running clock; counts at the ends of their fields | a prescaler changes only while gated; a period comes out within a count |
| **Touch** `touch.rs`, `cst8xx.rs` | range, orientation, the pin | read_points, coord_transform, int_enable | a report that changes between two transactions; `u16` subtraction | no touch missed, points are fingers, coordinates not below zero |
| **UART** `uart.rs` | divisor, interrupt enable, FIFO | configure, write, enable_rx_interrupt | DLAB turns the data register into the divisor | divisor and interrupts as last asked for, no byte lost, one user at a time |
| **Soft SPI** `soft_spi.rs` | pins | transfer, send, receive, send_9bit, three-wire | edges and levels of four modes | the device takes the bits sent, the caller the bits answered |
| **DRAM** `dram.rs`, **panels** `panels.rs`, **crate root** `lib.rs` | - | boot-time training, constants | - | - |

The drivers keep no locks. Their shared state is the registers, and the actors
are the threads that call them, the interrupt handler, and the hardware, which
goes on between any two accesses. They meet the kernel in three places: I2C
waits on an event object that its ISR sets, the timers' interrupt is the tick,
and `critical` is what callers may put around a driver.

`PROJECT.json` lists every component with its status, and every hazard of the
code at its line, with the property that covers it or the reason none does.

## Modules

```
Scheduler ──┬── RoundRobin ── MCRoundRobin
            ├── MCScheduler
            └── Kernel ──┬── Semaphore ─────────────────┐
                         ├── Mutex     (AbstractLock)   │
                         ├── MsgQueue  (AbstractQueue)  ├── Ipc ── MCIpc
                         ├── EventFlags                 │
                         └── Signals ───────────────────┘
I2c ── MCI2c

Access ──┬── Gpio ── Pwm ──┐
         ├── Gates ────────┼── Registers ──┐
         └── Intc ─────────┘               │
Switch, Heap, Timers, Delay, Spi,          ├── Devices ── MCDevices
SpiFlash, Lcd, Clock, SoftSpi, Cache, ─────┘
PageTable, Touch, Uart, Rates
```

The proofs are beside the modules they are about, and build on one another:

```
SchedulerProofs ──┬── CoreProofs ── WaitProofs ── IpcProofs
                  └── RoundRobinProofs
I2cProofs
RegisterProofs ── DeviceProofs
```

**Scheduler** (`thread.rs`). The static `SCHEDULER` is the one variable
`sched`, a record with the code's fields; a field of `struct Thread` is a
function of the slot, and a slot that holds `None` is in state `"Dead"`. The
functions of `thread.rs` are operators from one record to the next
(`DoSchedule`, `SetReady`, `ClearReadyIfEmpty`, `PickNext`, `WakeDue`,
`TickAwake`, ...), and each public call is one action that applies them in the
code's order. This lets the IPC modules call `BlockCurrent` and `UnblockThread`
as the code does. The bitmap is a set of priorities, so `trailing_zeros` is
`Min`. Two fields stand for the CPU: `irq_masked` (CPSR.I between calls) and
`panicked` (an index or unwrap failed; nothing runs any more).

`DoSchedule` is both `do_schedule` and `do_schedule_from_isr`. They differ in
when the registers change hands: the second leaves that to the IRQ epilogue,
before any other instruction of a thread, so one step stands for both.
`thread_exit` is where the outgoing slot is empty, and where the `unwrap`
fails. A thread that suspended itself is not switched out and goes on
executing, which is why `Executing` looks at the slot of `current_id` and not
at its state.

What the application does is open: any thread may make any call of `Api` at
any time. `KeepIdle` says that it follows `docs/THREADING.md:263-279`: main
creates an idle thread first, and that thread never stops.

**RoundRobin** adds a history variable to the scheduler: for every Ready
thread, which peers got the CPU while it waited.

**Kernel** is the part of the IPC models that is not any one object: a system
already booted, a program counter for each thread (`"app"`, or the blocking
call it is inside), and the application's parameters. A blocking call is two
actions. The first is everything up to `block_current` (test, registration in
the bitmask, switch), the second everything after it (read `ipc_error`, finish
or clean up). `app` is chosen once, in the initial state: which objects are
used, which slots exist, which timeouts calls pass, and whether threads delete
and create one another; so one run looks at a whole family of applications.

**Semaphore, Mutex, MsgQueue, EventFlags, Signals** translate one file each of
`ipc/`. A bitmask is a set of thread ids or of flags, a message is a value, and
`usize` counters of the queue wrap at `UsizeModulus`. Each has one history
variable that records what the callers were *told*: `owed` (tokens released and
not returned by a take), `depth` (Ok results of lock less those of unlock),
`delivered`, `unseen` (flags nobody has cleared, been told, or been woken for),
`sent`. `EventFlags` has two more: `told`, the wait that has just returned Ok and
its word, and `gone`, the flags that went out while a wait lasted. The properties
compare the object's own state with them.

**AbstractLock** and **AbstractQueue** are what a lock and a queue promise
their users, with no scheduler. The mutex refines the first through `depth`; the
queue refines the second through the ring's contents from `head`.

**Ipc** composes the five objects with the scheduler: a step of one leaves the
others alone, and `SlotOp` is the deletion or creation of a thread, of which no
object is told. **MCScheduler**, **MCRoundRobin**, **MCIpc** hold instances.

**Switch** (`asm/context.s`, `asm/startup.s`, `ipc/spinlock.rs`). Where
`Scheduler` has one step for a switch, `Switch` has who is physically on the
CPU: a thread's registers are on it or in the frame its `sp` points to, and a
frame records whose registers it holds. `sched_start` is two steps with room for
an interrupt in between, an ISR's request stays in `switch_interrupt_flag` until
the exit of the interrupt, and every guard remembers the CPSR it will restore.
Which thread is next is open. `manner` says what the application does: whether
main masks IRQs before `sched_start`, whether guards are dropped in order, and
whether code under a guard calls the scheduler.

**I2c** (`i2c.rs`). A call of `xfer` is a walk through `at[t]`, from the status
check to the event and the verdict; the ISR is one action for each branch of
`twi_core_process`; the adapter is external, and may raise its flag with any
status that fits, a bus error among them, at any time or never. A byte is its position in its message
and its owner, so order, loss and mix-up show in `twi.wire` and in `buffer`.
`sharing` says whether the two threads exclude one another.

**Heap** (`allocator.rs`) has memory in words, the free list as a sequence in
the list's order, and for each payload the word below it, since `free_inner`
takes that word for the header.

**Timers** and **Delay** (`timer.rs`): a channel is driven by its one owner, an
interrupt comes between any two steps of a call and runs to its end, and the
callback may start the channel again (`rearms`). `Delay` has several callers on
the one AVS counter.

**Spi**, **SpiFlash**, **SoftSpi**, **Uart**: the buses. `Spi` has both FIFOs and
a controller that shifts on its own. `SpiFlash` sits above it, with a transaction
as one step that may fail with the command taken or not, and the chip as an
external part that ignores what it cannot take. `SoftSpi` is the pin operations
left of the bit under way and the bits after it, against a device that samples and
answers on the edges of its mode.
`Uart` is the accesses to registers that mean two things.

**Clock** (`clock.rs`) is `init_default` register by register, the fields as they
are encoded, the getters as functions of them; the ratio asked of the CPU's PLL
is any of `Ratios`, not only the one in the source. **Gates** is the rest of it,
see below. **Cache** and **PageTable** (`mmu.rs`) are the data cache, its
maintenance calls line by line beside other threads' accesses, and the section
table. **Lcd** (`lcd.rs`) is bring-up, with each of the
three blocks reset, clocked and released in a step of its own, flips, further
initialisations, and the blanking flag between pollers, the handler and the panel. **Touch** (`touch.rs`, `cst8xx.rs`) is the
pin, the two transactions of a reading, and the transform on `u16`.

**Rates** (`pwm.rs`, `spi.rs`) is arithmetic: the prescaler, period and duty that
`Pwm::configure` works out of a period and a pulse, and the divider that the SPI's
`set_clock` works out of a limit.

**Access**, **Gpio**, **Gates**, **Intc**, **Pwm**, **Registers**: the drivers that
only update registers. A call is written as the sequence of its volatile accesses
(`Access`: read a word, write it back with some fields changed, clear bits), one
operator for each function of the driver, so that a definition reads like the
function. `Registers` is the machine that runs such sequences: two threads and
the handler, one access at a time, with `asked` remembering what each field was
last given and `clash` which words were written under somebody's copy.

**Devices** puts the parts that share no state side by side. A behaviour is about
one of them, chosen in the initial state, and the others do not move; so the run
explores the sum of the parts and not their product. Nothing is lost by that,
since no action reads or writes another part's variables: the drivers that do
share words are all in `Registers`.

An operator whose name begins with `Mut` is the definition that follows it with
a plausible mistake in it. No specification uses one. They show, property by
property, that the property can fail.

`PROJECT.json` maps every definition to the lines it stands for.

## Runs

| run | configuration | question | states |
|---|---|---|---|
| `sched_core` | `SchedCore` | With an idle thread and the calls every application makes (create, yield, sleep, IPC waits), is exactly one thread Running, is every Ready thread visible, does no bit hide what is below it, does the CPU go to a best-priority thread at every switch and after every tick, does every wait end for a reason, does nothing panic or keep IRQs masked; and does nobody starve, and every timed wait end? | 9 thousand, with liveness |
| `round_robin` | `RoundRobin` | With delete, suspend and resume, but no yield: is nobody invisible, and is no peer given the CPU twice past a waiting thread? | 62 thousand |
| `sched_all` | `SchedAll` | With every call in every order, no idle thread, ticks before `sched_start`, up to a panic: what holds even then? | 1.3 million |
| `ipc` | `Ipc` | Every IPC object, alone and in pairs, with and without timeouts, with ISR-side releases and signals, signals also with reuse of slots: are tokens, ownership, messages, flags and signals accounted for, and is nobody left waiting? | 0.86 million |
| `ipc_live` | `IpcLive` | With the timer interrupting for ever: does a taker whose wait ended return, does the mutex keep changing hands, is a waiting sender let in? | 1 thousand, with liveness |
| `i2c` | `I2c` | Two threads on one channel, alone or racing, and an adapter that may answer anything, late or never: is an Ok a transfer that went through whole (unless the bus broke down, see `i2c_bus_error`), does the ISR touch only live buffers, is the channel usable afterwards, does every call return? | 0.90 million, with liveness |
| `devices` | `Devices` | The fifteen parts of `Devices`, each against its hardware and its other users; the table below says what is asked of each. | 1.8 million |
| `resume_orphans`, `mutex_late_owner`, `queue_barging`, `heap_leaks`, `i2c_bus_error` | same names | one documented promise each that the code breaks, see [below](#where-the-code-and-its-documentation-disagree) | small |

The properties of `ipc` and `devices` are conjunctions by subject; each conjunct
is stated and commented in its module.

| property | conjuncts | says |
|---|---|---|
| `SemaphoreKept` | `NoTokenInvented`, `TokensConservedUntimed`, `TakersExact` | tokens are neither made nor lost, and the bitmask lists exactly the takers |
| `MutexKept` | `NoLostWaiter`, `OwnerEnteredUntimed` | a free mutex has no waiter; an owner knows it |
| `QueueServes` | `NoReceiverLeft`, `NoSenderLeft` | nobody waits beside a message or a free slot |
| `EventsKept` | `NoEventLostUntimed`, `NoneLeftWaiting`, `RegisteredExactly`, `OkHasCause` | a flag goes out only if it is cleared, returned, or taken for a waiter that is woken; no satisfied wait sleeps on; everybody blocked is registered; an Ok has a cause, flags that the word still shows or that went out during the wait. Not that the word shows them: see [below](#where-the-code-and-its-documentation-disagree) |
| `SignalsKept` | `NoneWaitsSignalled`, `NoSignalLost`, `OkMeansSignal` | a signal reaches the thread it was sent to, and Ok means one did |
| `ThreadsIntact` | `ContextsIntact`, `CurrentIsOn`, `GuardExcludes`, `IrqsRestored` | each thread's registers are where the scheduler will look, sections exclude, IRQs come back |
| `MemoryKept` | `HeapKept`, `MapsLikeLast` | payloads, blocks and list nodes stay apart; the last descriptor decides an address |
| `RegistersKept` | `UpdatesSurvive`, `ConsoleKept`, `HandledIfEnabled` | short of a clash no update is undone; PE7 and PE8 stay with the console; an enabled vector has a handler |
| `AccessesKept` | `NoGlitch`, `UnseenEdgesKept`, `PrescalerChangesGated`, `ResetWhileClocked` | what no single access may do |
| `TimingKept` | `ClocksKept`, `TimersKept`, `RatesKept` | the clock tree stays in its limits and comes out as asked; a PWM period of 5 us to 327 ms and every SPI limit are met; one-shots are one, no interrupt is dropped in an installation. Nothing is said of other PWM periods, nor of how often a periodic channel interrupts: the code keeps neither, see [below](#where-the-code-and-its-documentation-disagree) |
| `BusesKept` | `SpiKept`, `SoftSpiKept`, `FlashKept`, `LineKept` | each bus carries its calls' bytes and is at rest between them; but for SPI calls that follow a timeout, three-wire modes 1 and 3, and a UART with several users or a divisor too large for its registers |
| `PanelKept` | `ShowsABuffer`, `TouchKept` | the panel shows a buffer or nothing, but for one step of a further `init` between the resets of DEBE and TCON; touches are neither missed nor invented, and lie at most one past the panel |
| `StepsKept` | `SpanIsDone`, `EdgeIsFresh`, `StaysArmed`, `DelayAtLeast`, `CpuPllStill`, `CpuOnLockedPll`, `LossesAsked`, `RangeIsDone` | what single steps of the parts may not do |

### Bounds

Every bound is a constant, or a set chosen in an MC module.

- **Threads** (`MAX_THREADS`, 2 to 4). A scheduling or hand-over mistake needs a
  thread that acts, one that is passed over, one that benefits, and the idle
  thread: four. `round_robin` has three peers over an idle thread, the least for
  which the cursor can wrap past somebody. The liveness run has three.
- **Priorities** (`MAX_PRIORITY`, 2 or 3): better, equal, idle.
- **Time** (`MaxTick`, 2 or 4; `Durations`, 0 to 2). `tick_count` stops at
  `MaxTick`; slices still count and ticks still preempt there, and no wait is
  begun whose deadline lies beyond it, so every deadline is still met. Two waits
  one after the other, with deadlines that coincide or cross, fit in four ticks.
  The wrap of the code's `u32` counter, after 49 days of milliseconds, is
  outside the bound.
- **Slices** (`Profiles`): one and two ticks, so that a slice both runs out and
  does not.
- **Objects**: one of each. `MaxTokens` 2 and `Initial` 1; `MaxNest` 2;
  `Capacity` 2, with two different messages, so that the ring wraps and order
  shows; two flags with conditions any-of, all-of, and one that does not clear;
  two signals. `UsizeModulus` is 8: enough for a count that goes below zero to
  be seen far outside `0..Capacity`.
- **Senders and receivers**. The `ipc` run has one of each, since with two
  receivers the queue breaks (`queue_barging`); its claims about the queue are
  for one sender and one receiver, with timeouts.
- **Applications**. `AllApplications` of `MCIpc` lists them: every object with
  two peers and, where order matters, a better thread; two pairs of objects at
  once; and threads that are deleted and created while others signal them.
- **I2C**. Two users, and transfers of every shape the API makes: nothing, a
  write of two bytes, a read of one (the last byte is acknowledged differently),
  and a register write followed by a read of two.
- **Devices**. Widths are as small as they can be with every case still there:
  a FIFO of two against calls of up to three bytes (a transfer needs a second
  chunk), flash pages of two bytes and two pages (a write may start in the middle
  and cross), cache lines of two bytes and two lines (a buffer may start or end
  inside one), three sections and two descriptors (they may overlap), a byte of
  two bits in soft SPI and two bytes in a call, an AVS counter of six for delays
  of up to three, so that a caller may come late and the counter wraps. `Ratios`
  is every ratio from 1/16 to 128 and is not reduced, nor are the fields of the
  PLLs and of the SPI's divider, whose limits lie on both sides of each border at
  the bus rates of 24 and 200 MHz. `MaxCount` is 8 and stands for the 65536 of a
  PWM period; the periods go from 0 to what a `u32` of nanoseconds is beside it. The heap has 32 words, four times the smallest heap, and payloads of 1, 3
  and 6 words: enough to split, to use a block up, and to free in every order.
  `Registers` has two threads, the handler, two calls and one edge: two calls are
  what it takes for one to come between the accesses of the other. Its pins 6, 7
  and 8 lie on both sides of a word boundary and include the console's, its
  vectors 13, 14 and 39 lie in both groups.
- **Faults**: one failing flash transaction, one SPI call after a timeout; an
  I2C adapter that may fail at every step.
- **Deadlock** is checked except in `sched_all`, where a panic or an idle system
  with every thread blocked really is the end, and in `devices`, where
  `init_default`, the boot of the cache and the list of descriptors end, and
  counted calls run out.

Some properties are stated for part of the applications: `TokensConservedUntimed`,
`OwnerEnteredUntimed` and `NoEventLostUntimed` hold when no wait times out, and
fail as soon as one does. The run that shows the failure, or the section below,
says how.

## Fairness

- `WF(Tick)`: the timer is a free-running peripheral, and each call of the
  kernel restores the CPSR before it returns to the application, so its
  interrupt is taken again and again. Masking for good is not assumed away:
  `Tick` is not enabled while `irq_masked`.
- `WF(Start)`: main has no other way to go after creating its threads.
- `CallReturns(t)` (strong): a thread inside a blocking call that is given the
  CPU again and again executes the rest of the call. It is strong because the
  tick can take the CPU away each time; it is justified by the ratio of a few
  instructions to a tick of a millisecond. Nothing is assumed about a thread
  that does not get the CPU: that it does is the scheduler's doing.
- `KeepsUsing(t)` (strong): the application's side of `WaitersProgress` and
  `SendersProgress`: a critical section ends, and a receiver receives again. It
  is an assumption about applications, not about this code.

- `WF(InCall(t))` and `WF(Expire(t))` of `I2c`: a thread inside `xfer` or `probe`
  that is not blocked executes its next step, since the call is straight code
  with counted polls; and a blocked one is timed out, since the wait passes a
  timeout of 10000 ticks (`i2c.rs:851`) and the tick goes on. Of the adapter and
  of its interrupt nothing is assumed: `CallsReturn` holds with an adapter that
  has gone silent.

The parts in `devices` are checked for safety only, and `Devices` states no
fairness. Several of their waits are unbounded in the code (`wait_busy` of the
flash, `delay_us` with other callers, the UART's `write_byte`), so their ending
is the hardware's doing and not a property of this code.

Every liveness property about threads exempts one case: that a better priority
has work again and again (`BetterWork`). Strict priorities are the scheduler's
documented policy, and the mutex lends no priority to its owner.

## Proofs

Eight modules, checked by TLAPS to the last leaf. A theorem holds for every value
of the constants that their `ASSUME`s admit: every number of slots, priorities,
users, sections, bytes, every size of queue, heap, FIFO, page, cache and panel,
every set of transfers, timeouts and requests, and without the bounds
(`MaxTick` and the like) being small.

| theorem | module | assumption | states |
|---|---|---|---|
| `TypeCorrect` | SchedulerProofs | - | `Spec => []TypeOK` |
| `BitsAreBacked` | SchedulerProofs | - | `BitHasRunnable`: a bit always has a Ready or Running thread behind it, on the CPU or orphaned there, whatever is called, even past a panic |
| `ReadyAreVisible` | SchedulerProofs | `"yield" \notin Api` | `ReadyHasBit` with any other calls |
| `OnlyCurrentRuns`, `NeverPanics`, `IrqsStayOn`, `ReadyAreVisibleInCore`, `BitsAreServed` | CoreProofs | `KeepIdle`, `Api \subseteq CoreCalls` | `OneRunning`, `NoPanic`, `IrqsComeBack`, `ReadyHasBit`, and `BitIsServed`: a bit with no Ready thread is the current thread's |
| `SwitchesToBest`, `TicksPreempt` | CoreProofs | the same | the action properties `SwitchToBest` and `TickPreempts` |
| `NobodyOversleeps`, `MarksAreOnBlocked`, `WaitsEndForAReason` | WaitProofs | - | `NoOversleep`, `IpcWaitIsBlocked`, and the action property `WaitEndsForAReason` |
| `WithoutExitNoPanic` | RoundRobinProofs | `KeepIdle`, no exit, no tick before the start | `NoPanic` with every other call |
| `NothingGetsHidden` | RoundRobinProofs | the same, and no yield | `NothingHidden` |
| `RoundRobinIsFair` | RoundRobinProofs | - | the action property `BoundedBypass` |
| `IpcTypes`, `SemaphoreIsKept`, `MutexIsKept`, `EventsAreKept`, `SignalsAreKept` | IpcProofs | `ReusesOnlySignals` | the type invariant of the IPC system and the invariant of each object |
| `MutexIsALock` | IpcProofs | `ReusesOnlySignals` | `ImplementsLock`: the mutex refines `AbstractLock` |
| `QueueDoesServe`, `QueueIsAFifo` | IpcProofs | `ReusesOnlySignals`, `OneEach` | `QueueServes`; the queue refines `AbstractQueue` |
| `I2cHasType`, `TransfersAreOwned`, `VerdictsAreTrue` | I2cProofs | - | `I2cTypeOK`, `TransfersOwned`, and the action property `VerdictIsTrue`, which leaves out transfers under which the bus broke down |
| `ContextsAndIrqsAreKept`, `MemoryIsKept`, `PanelIsKept` | DeviceProofs | - | `ThreadsIntact`, `MemoryKept`, `PanelKept` |
| `TimingIsKept` | DeviceProofs | - | `TimingKept`: the timers' shots and installations, the clock tree, PWM periods of 5 us to 327 ms, SPI limits |
| `RegistersSafe`, `AccessesSafe` | DeviceProofs, over the steps of RegisterProofs | - | `RegistersKept`, and the action properties `AccessesKept` |
| `BusesAreKept` | DeviceProofs | - | `BusesKept` |
| `DevicesHaveTypes` | DeviceProofs, over the steps of RegisterProofs | - | `DevicesTypeOK` |
| `StepsAreKept` | DeviceProofs | - | the action properties `StepsKept` |

The assumptions are not for convenience: outside them the property is false.
`resume_orphans` is a counterexample for the scheduler's, as are an exit and a
yield after a deletion (see the next section). `CoreCalls` is create, yield,
sleep and the IPC calls. `ReusesOnlySignals` says that threads delete one
another only in applications that use no object but the signals: the other
objects' bitmasks keep the slot of a deleted waiter. `OneEach` says that a queue
has one sending and one receiving thread: `queue_barging` shows what happens
with two receivers.

**Types and bits.** `TypeOK` is not inductive: a call indexes the table with
`current_id`, which is `NULL_ID` before the start. `HasCurrent` adds that a
started scheduler has a current thread. `Min` stands for `trailing_zeros`, and
its least element is a consequence of the well-foundedness of `<`
(`MinOfNats`); with it `NextAfterIn` and `PickNextReady` say that whatever
`pick_next` returns is Ready and of the best priority in the bitmap.

The two halves of "bit N = at least one thread at priority N is Ready" are
separate. `AllBacked` (a bit has a Ready or Running thread) is inductive with
`HasCurrent` alone. It does not keep a bit from hiding what is below it: the caller
that `thread_resume` orphans is Running and keeps its bit. `BitIsServed` says that
as well, and follows, for the core calls, from it and from `OneRunning`. The
other half is not: `thread_yield` makes its caller Ready without setting a bit,
counting on the bit the caller had when it was picked.
So the invariant of `CoreProofs`, `Sane`, speaks of Runnable threads: a *Running*
thread has its bit as well. It also says that exactly the current thread is Running,
and that an idle thread is always Runnable. In the middle of a call, when the
caller has given up the Running state, `Sane` does not hold and `Switching`
does: nobody is Running, every bit has a Ready thread, the idle priority among
them. `DoScheduleSane` takes `Switching` to `Sane`, and from it come both the
safety of every call and `BestRuns`, the fact the two action properties need.

**Waits.** `WaitsSound` is one statement about every slot: a mark of an IPC wait
is on a blocked thread only, and a thread blocked for a time has its deadline
ahead. It holds with no assumption about the calls, since a dead slot has
neither; the action property is that of each of the operators a call is made
of.

**Round robin.** The history says who passed whom. `ServedPassed` says that a
peer that has passed thread t lies, in the cyclic order of the slots, between
the last one picked at this priority and t; `pick_next` starts behind that one,
so it meets t before it meets a peer again. The order is arithmetic modulo
`MAX_THREADS` and is proved about `NextAfter` alone.

**IPC.** The scheduler's invariant under the objects is `Steady`, weaker than
`Sane` since deletion may hide a thread from `pick_next`, though never the idle
thread. What an object sees of the scheduler is, for each thread, the call it is
in, the mark of its wait and the wait's result: the lemmas of the first part say
how each step of the kernel moves these, so that an object's invariant is
disturbed by its own steps and by the clock only. Each object's invariant has a
part for waiters (whoever is blocked is in the bitmask) and one that counts. For
the semaphore, `count` and the grants not yet collected are together what is `owed`.
For the event flags, `WokenForCause`: the condition of a thread that has been woken is
met by the flags still set and those gone during its wait.
For the queue, `QueueFlow`: `tail` is `count` places after `head`; a receiver that waits
finds the ring empty, one that has been woken finds it not empty, and for a sender the
same with full; so the ring from `head` is what `Fifo` holds. The refinements follow step by step from
these: each step of the mutex is one of the lock or a stutter, and each of the
queue one of the FIFO or a stutter.

**I2C.** `Shape` and `Owned` (whoever has a message in the channel is in the
part of `xfer` between the loading of the messages and the return) hold however
the users race, and give `BuffersLive` and `ChannelRecovers`. When the calls exclude
one another, `AloneInv` follows the only user from place to place. While the
channel is Running, `Underway` says which of ten stages the transfer is in
(START asked for, address out, byte out, byte awaited, refused, broken down, ...), and in each
how much of `Carried(t)` is on the wire, how far the read buffer is filled, and what
the ACK bit is to be; when it is Idle, `Finished` says that the index tells the
truth. `BusCarries` takes one stage to another for each step of the adapter,
`IsrCarries` for each step of the ISR, and the verdict of `xfer` is read off
`Finished`. `Script` says what stands where in `Carried(t)`.

**Devices.** The parts share no state, so each has an invariant of its own,
disturbed by its own steps.

- *Switch*: `SwitchInv` and `StartedInv`: once main has masked IRQs before the start,
  each thread's context is on the CPU or in its own frame, and nowhere else. `MaskInv`
  and `ExcludeInv`: where guards are dropped in order and nobody switches under one,
  only the outermost guard has found IRQs enabled; these need no masked start.
- *Heap*: a block that is freed has size 0 (see `heap_leaks`), so only the last
  block of the list can ever serve a request. The invariant names that block and
  puts every payload below it, disjoint from the others.
- *Page table*: `TableInv` is, section by section, the last covering descriptor among
  those applied so far.
- *Display, touch*: `DisplayInv`, for each point of the bring-up which blocks are
  clocked, in reset and programmed; `PollInv`, a poller that sees the flag has seen a
  blanking begin; for touch, which reports are read.
- *Cache*: `CopyInv`, every copy is at least as new as memory; `RangeInv`, the loop over
  a range is at the start of a line, and what it has passed is done.
- *Flash*: `FlashShape` is where in which call the driver is, `ChipInv` says that the
  chip is at rest before each command, `CellsInv` that the pieces of the span before
  the current one are done.
- *Timers*: `SetUpInv`, a channel that is being set up is stopped; `ShotsInv`, a
  one-shot has at most the one interrupt it is armed for; `InstallInv`, an owner is told
  of every flag it clears.
- *UART, SPI*: `SoloInv`, the divisor and DLAB of the only caller at each point of its
  call; for SPI, each byte of the chunk under way is either in the TX FIFO or answered in
  the RX FIFO, and the bytes on the wire, and those stored, are beginnings of what
  the call asks for.
- *Software SPI*: a `Plan` says how many operations of a bit are left when each wire's
  turn comes, `Planned` that the list of operations the code does for a bit has one, in
  each mode and on three wires and four. From the plan and the number of operations
  left, `Wires` says where the wires are, `Counts` and `Faithful` what both ends have
  taken; one operation takes one left more to one left fewer (`OpDoes`), and with none
  left the bus is at rest with one more bit carried (`SoftAfter`).
- *Clock tree*: `TreeInv` is what each point of `init_default` has set up so far
  (peripheral PLL, video PLL, CPU's PLL with the ratio asked, buses), so that every later
  step meets the limits and the CPU's source is never the PLL being written. Under it
  is `EncodedExactly`: a ratio with an encoding at all is multiplied or divided
  exactly.
- *Rates*: lemmas about integer division (`QuotientBelow`, `DividerIs`), about the least
  prescaler that fits, and the sixteen powers of two one by one (`Powers`); from them
  a period in the range of the prescaler is within one count, and the SPI clock does not
  exceed its limit.
- *Registers*: half of it is static. Whatever sequence of accesses a call, or two
  calls one after the other, is made of, it is `WellOrdered`: each access keeps to its fields
  (`Lawful`), a copy goes back to the word it was read from, an acknowledgement is
  written once, a handler is installed before its vector is enabled, a clock runs
  before its reset is released, a channel is gated before its prescaler changes. The
  other half is `AccessInv`, over the interleaving of such sequences: a copy somebody
  holds is true or its word is marked in `clash` (`CopiesTrue`), and what is left of each
  call is still well ordered from where the machine is.
- *Types*: `PartInv` joins what the parts rest on. Most of a part's types follow from the
  invariant above it; what does not has an invariant of its own: the fields of each PLL
  have their widths (`FieldsFit`, from the factors the code picks for an encodable
  ratio), the chip select of the software SPI is low only under `send_9bit`
  (`Selected`), no more touches are handed on than there is room for (`Read`), a thread
  that polls the UART has something to write (`UartTypes`), and data bits and handlers'
  entries hold bits (`BitsOnly`).

**Only model-checked.**

- Liveness, and so `CallsReturn`, `WaitersProgress` and the others under
  [Fairness](#fairness): out of the prover's reach.

## Where the code and its documentation disagree

Each of these has a run whose counterexample shows it.

- `resume_orphans`: `thread_resume` calls `do_schedule` while its caller is
  Running (`thread.rs:466`). The caller is switched out still Running, is in no
  ready list, and is never picked again.
- `mutex_late_owner`: `unlock` hands the mutex to a waiter whose bit is still
  set although a tick has timed it out; its `lock` returns `Err(Timeout)`, and
  the mutex has an owner that never unlocks it.
- `queue_barging`: a receiver that comes while a woken one has yet to run takes
  its message, and the woken one decrements `count` below zero.
- `heap_leaks`: `alloc` hands out `align_up(block + ALLOC_HDR)`, two words above
  the block, and `free_inner` takes the word just below the payload for the header
  (`allocator.rs:104`). That word is the second one of the old free block, its
  `next`. The block goes back with size 0, and its memory is never allocated again.
- `i2c_bus_error`: the code of a failure is the negated status, and that of a bus
  error is 0x00 (`i2c.rs:468`). Code 0 is success (`i2c.rs:434`), so `xfer` returns Ok
  for a transfer that stopped wherever the bus broke down.

Others met while modelling, without a run of their own. In the kernel:

- `thread_exit_stub` empties the slot, then `do_schedule` unwraps it
  (`thread.rs:628`, `:246`): a thread that ends panics the system. `NoPanic` is
  checked and proved of the calls without an exit.
- With `clear_on_exit`, `set` clears the flags when it wakes the waiter
  (`event.rs:133`), and the wait returns the word it reads when it runs
  (`event.rs:108`): `Ok(0)`, or what has been set since, against `event.rs:72` and
  `docs/THREADING.md:178`. Without it another thread may clear or consume the flags
  in between. `NoEventLostUntimed` counts a flag that was taken for a woken waiter
  as noticed, and `OkHasCause` is what is left of the promise: the flags that
  caused the wake-up are in the word, or went out during the wait.
- Deleting (or suspending) the last Ready peer of the caller clears the bit of
  the caller's own priority (`thread.rs:433`, `:450`); its next `thread_yield`
  makes it Ready without a bit (`thread.rs:398`), invisible to `pick_next`, against
  `thread.rs:144`.
- `thread_delete` leaves the deleted thread's bit in `SIG_WAITERS` (`signal.rs:95`).
  A signal to the next occupant of the slot ends its wait on a semaphore, or on
  anything else, with Ok.
- `block_current` with nothing Ready returns at once, with the caller Blocked and
  IRQs masked (`thread.rs:578`), where its comment says they are re-enabled
  after the switch.
- A sleep or timeout of 0 begun before the first tick has deadline 0, which
  stands for "no deadline" (`thread.rs:416`, `:489`), and never ends.
- A tick before `sched_start` finds `current_id` at 0xFF and panics
  (`thread.rs:541`), and one in the middle of `sched_start` saves main over the
  first thread (`thread.rs:374`). `docs/THREADING.md:275` and
  `docs/examples/mt_demo.rs:349` enable IRQs before they call it. `ThreadsIntact`
  is stated for a main that does not.
- The semaphore wakes the lowest thread id, not the "highest-priority waiter" of
  the comment at `semaphore.rs:61`.
- The hazard of `mutex_late_owner` exists for the other objects too: a release,
  a `set` or a queue wake-up that meets a waiter just timed out is spent on it
  (`semaphore.rs:75`, `event.rs:133`, `msgqueue.rs:181`). With one sender and
  one receiver the queue survives it, as `ipc` shows.
- A signal handler stays installed for the next occupant of a slot
  (`signal.rs:48`, `:221`).

In the drivers:

- I2C: `xfer` tests `status` and sets it 80 lines further on (`i2c.rs:751`, `:835`).
  Two threads may both pass; the second then resets the adapter under the first
  and its transfer takes the first one's place. What survives that is
  `TransfersOwned`.
- Timers: `stop` waits for a counter it has just disabled (`timer.rs:205`);
  `systick_init` unmasks its vector but never sets its bit of `IRQ_EN` (`timer.rs:496`),
  so no tick is counted, against `timer.rs:487`; `install_interrupt` sets that bit but
  unmasks nothing (`timer.rs:325`), so neither alone brings an interrupt; the update of `IRQ_EN` is
  not protected; the `u64` millisecond counter is read in two halves
  (`timer.rs:469`); `delay_ms` overflows above 4,294,967 ms.
- Flash: `read_jedec_id` reads three of four bytes and returns the one that answers
  the command for the capacity (`spi_flash.rs:96`), `read_unique_id` takes its bytes
  one place early, `wait_busy` has no bound. A failed
  transaction leaves the chip in a state the driver does not ask for, and the next
  call assumes it at rest (`doubtful`).
- SPI: after a timeout the FIFOs keep bytes of the failed call, which the next call
  without a `configure` receives (`late`).
- Clock: an AHB divider of 4 is encoded as 8 and 3 is refused before the line that
  would map it (`clock.rs:531-540`); nobody looks at what `wait_pll_stable`
  returns, so after a timeout the CPU is moved to a PLL that has not locked
  (`gaveUp`).
- GPIO: `irq_ack` writes back every pending bit it has read, and so acknowledges
  pins nobody has handled (`gpio.rs:317`). `UnseenEdgesKept` is what is left: edges
  that came after the read.
- Read-modify-writes of one word by a thread and by a handler lose one of the two
  updates, in every driver of `Registers`: `clash` marks the word, and the
  properties speak of the others.
- PWM: an extra factor is searched for each prescaler and then forgotten (`pwm.rs:386`),
  so prescaler 120 is always taken: a period above 327 ms is reported Ok and comes out
  up to fourteen times too short, and the `PeriodTooLarge` of `pwm.rs:457` cannot
  happen. A period under 5 us comes out as 5 us, with a duty of 0 or 1, and a full
  pulse of the longest period wraps the duty to 0. `PwmAsAsked` leaves all of these out.
- SPI: a limit below the bus rate over 131072 is exceeded, and a limit of 0 divides
  by zero (`spi.rs:277`).
- LCD: `flip_framebuffer` shifts a word that has already lost the top bits of the
  address, so the buffer it returns is not the previous one above 512 MB, where
  the DRAM is (`lcd.rs:594`). `init` on a display that is on resets the DEBE before the
  TCON (`lcd.rs:640`), which drives the panel from a block in reset in between.
- Cache: invalidating a buffer that shares its first or last line with other data
  drops what was written there and not yet cleaned; a range of size 0 that does not start at a line
  invalidates a line; `init` invalidates once more after it has turned the cache on
  (`mmu.rs:299`). `LossesAsked` admits these and no others.
- Touch: a mirrored axis is `range - x` (`touch.rs:81`, `:88`), which for x = 0 is one
  past the panel of `touch.rs:69`; the bound of `TouchKept` is that one. Count and
  data are two transactions, between which the report may change.
- UART: `configure` writes the two halves of any divisor unchecked (`uart.rs:178`): one
  above 65535 is cut, and 0 stops the clock; `LineKept` speaks of those that fit.
  `rx_ready` reads and so clears the error flags that `line_errors` returns;
  `configure` leaves DLAB set for three writes, and another thread's byte goes to
  the divisor meanwhile; two writers that have both seen a free place overflow the
  FIFO.
- Soft SPI: on three wires modes 1 and 3 put a bit out only after the edge on which
  the device takes it, and `BitsArrive` leaves them out; with CPHA = 1 a bit has no set-up time.

## Not modelled

- The boot path of `startup.s`, the layout of a frame on the stack, and the stacks.
- The table of signal handlers: handlers are application code.
- The content of messages and the size check on their type.
- The bring-up of the I2C, SPI and UART controllers beyond what the calls rely on
  (pins, baud rates); the prescaler and clock-source codes of the timers, the audio,
  VE and DDR PLLs: pure arithmetic on one register each.
- The LCD's timings, colour modes, layer alpha and 8080 bus; the flash's id and data
  reads; identity registers of the touch controller; the UART's receive side. They
  are single accesses or a straight sequence with nothing to interleave with.
- Layouts aligned to more than 8 bytes: `alloc` moves the payload further from the
  header, and `free_inner` reads a word in between.
- DRAM training (`dram.rs`): it measures what the hardware answers, which the code
  does not describe. CP15 access apart from cache and IRQ mask. Panel tables.
- Weak memory: there is one core, and device memory is accessed in order.

## Plan

Done: every component above is modelled as far as `PROJECT.json` says, and each of
its safety invariants and action properties that a run checks is a theorem.

If room is made for it: slot reuse for every IPC object (by the `SlotOp` already in
`Ipc`), and the flash over the SPI master instead of over a transaction that is one
step.
