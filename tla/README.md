# Verification of the mini2440 drivers

The repository holds Linux 3.4.2 drivers for a mini2440 board (S3C2440), most
of them kernel modules of 100 to 400 lines, one directory each under
`src/drivers/`, with a small test program beside many of them. This directory
holds TLA+ models of the drivers, their TLC configurations, and proofs.

## Inventory

All modules are built for one CPU and a kernel without preemption (vermagic of
the `.ko` files: `3.4.2 mod_unload ARMv4 p2v8`). Interrupt handlers and timers run
between any two steps of a process; another process runs only where the code may
sleep. That is the concurrency all the models use.

| Component | State | Operations | Interacts with | Hard behaviour | Correct when |
|---|---|---|---|---|---|
| I2C bus adapter, `21th_i2c_drv/6th_i2c_bus/2th/i2c_bus_s3c2440.c` | `s3c2440_i2c_xfer_data`: messages, counters, pointer, state, err; IICSTAT, IICCON, IICDS | `s3c2440_i2c_xfer`, `s3c2440_i2c_xfer_irq`, start, stop | i2c core calls it; controller interrupts it; slave acknowledges | handler and `xfer` share every field; timeout while the handler is at work; later call on a busy controller | wires carry the messages; result tells what happened; buffers respected; bus released |
| AT24Cxx driver, `21th_i2c_drv/4th_drv_dev_test` | `at24cxx_client` | read, write | SMBus functions of the i2c core, adapter, EEPROM | concurrent callers, refused addresses while programming | calls look like single-byte reads and writes |
| Button driver with debouncing, `7th-chr_dev_drv_all/buttons_all.c` | `ev_press`, `g_save_key_val`, `irq_pd`, timer, semaphore, wait queue, fasync list, interrupt lines | open, release, read, poll, fasync, interrupt, timer | processes, timer, interrupt controller | timer between steps of read; signals; two openers; bouncing | one opener; no missed wakeup; stored key is the pin's level |
| Button driver with semaphore, `6th-synchronous/sixth_drv.c` | the same without timer and `irq_pd` | the same, interrupt reports | the same | every bounce is an event | as above |
| Button drivers `3th-interrupt`, `4th-poll`, `5th-asynchronous` | the same without semaphore | open, release, read, (poll, fasync), interrupt | the same | several openers share one set of handlers | an open device hears its keys |
| Input button driver, `8th-input_sub_sys/input_sub.c` | `irq_pd`, timer, input device | interrupt, timer, init, exit | input core | two keys within 10 ms; two keys with one code | reported key state is the pins' state |
| Touch screen, `11th-ts/touch.c` | ADC/TS registers, sample count and samples, timer | pen interrupt, ADC interrupt, timer, filter | ADC, input core | three handlers switch one ADC's mode | each stroke reported down, moved, up |
| USB mouse, `12th-usb/usbmouse.c` | urb, coherent buffer, last buttons | probe, completion, disconnect | USB core, input core | failed and killed urbs, refused submissions, a second mouse | reported buttons are the mouse's |
| RAM disk, `13th-ramblock/ramblock.c` | request queue, memory | request function, init, exit | block layer | requests of several segments | a store of sectors |
| Virtual net device, `16th-virt_net/virt_net.c` | queue state, counters, the transmitted buffer | `virt_net_send_packet`, receive emulation | network core | use of the buffer after it is freed | each packet answered once and counted |
| Frame buffer, `10th-lcd/lcd.c` | LCD registers, pseudo palette | set colour register, init, exit | fb core | register number at the limit | colour is the packed channels |
| NAND, NOR flash, `14th-nand`, `15th-nor` | chip, map, mtd | chip select, command, ready, init, exit | mtd core | one of several init steps fails | registered iff found; freed once |
| LED and polled keys, `led`, `2th-inquiry` | GPIO registers | open, write, read | none | none | pins follow the call |
| Other AT24Cxx drivers, `19th_i2c_drv`, `21th_i2c_drv/1th..3th` | client | probe, remove; 5th also read, write | i2c core | result of a transfer interpreted by the client | as for the AT24Cxx driver |
| Module loading, all of them | what init has obtained | init, exit | every callback above | callbacks between two steps of init or exit; init that fails half way | nothing used that is not there, given back twice, or left behind |
| Test programs, copied headers, earlier stages of drivers, build products | none | | | | |

`PROJECT.json` lists the same components with their status and every hazard at
its line. A hazard names the properties that would fail if the code went wrong there.
Where the code does go wrong and a property exempts the case by name (`Known...`),
by a premise (`overlap`, `stale`, `shared`, no foreign signals) or by what the
abstract specification allows, the hazard names none and its note says so; there
TLC finds the property violated once the exemption is taken away.

## Modules

| Module | What it models |
|---|---|
| `I2CMsg` | messages, transfers, what the wires can carry, result codes |
| `I2CMaster` | abstract specification: what an adapter promises the i2c core |
| `I2CBus` | `i2c_bus_s3c2440.c` with its controller and slave |
| `I2CBusProofs` | theorems about `I2CBus` |
| `MCI2CBus` | transfers and violated properties for TLC |
| `ByteStore` | abstract specification: what `/dev/at24cxx` promises its users |
| `At24cxx` | the two drivers with read and write, `21th_i2c_drv/4th` and `19th_i2c_drv/5th`, over the core's lock, `I2CMaster` and an EEPROM |
| `At24cxxProofs` | theorems about `At24cxx`, the refinement of `ByteStore` among them |
| `ButtonDev` | open, release, read, poll, fasync of the two semaphore drivers |
| `ButtonsAll` | `buttons_all.c`: `ButtonDev` with interrupt and timer |
| `EdgeDrv` | `third_drv.c`, `forth_drv.c`, `asyn.c` and `sixth_drv.c`: `ButtonDev` with an interrupt that reports, and with an open that asks nobody |
| `ButtonDevProofs` | what each operation of `ButtonDev` preserves: the lemmas that the next one needs |
| `ButtonsProofs` | theorems about `ButtonsAll` and `EdgeDrv` |
| `Touch`, `MCTouch` | `touch.c` with its controller and the pen |
| `TouchProofs` | theorems about `Touch` |
| `InputCore` | what the input layer does with key events (external) |
| `InputSub`, `UsbMouse` | `input_sub.c` and `usbmouse.c` |
| `Inputs` | loads one of the two, for TLC |
| `InputsProofs` | theorems about both |
| `DiskReq`, `Disk` | requests, and the abstract specification: what a block device promises |
| `RamBlock` | the request function of `ramblock.c` |
| `RamBlockProofs` | theorems about `RamBlock`, the refinement of `Disk` among them |
| `ModuleScripts` | what every module obtains and gives back, and what its callbacks need |
| `ModuleLife` | loading and unloading: runs those scripts with callbacks between the steps |
| `ModuleLifeProofs` | theorems about `ModuleLife`: when scripts are in order, and that each module's are |

Operators whose comment begins with "fault:" are plausible mistakes. They are in
no next-state relation; each one replaces the definition that follows it to show
that a property would notice.

### I2C: `I2CMsg`, `I2CMaster`, `I2CBus`

`s3c2440_i2c_xfer` sets up its fields one by one with the interrupt enabled, so
each assignment is an action (`Call`, `SetNum`, `SetCur`, `SetPtr`, `SetErr`,
`StartState`, `StartData`, `StartStat`), and an interrupt that is pending comes
before the next one. Then the process sleeps; `Finish` is the return after the
wake-up, `Timeout` the return when the wait ran out (`Timeouts` enables it).
`wait_event_timeout` answers 0 when its timer has run out even if the condition
has become true, so `Timeout` does not look at it.

The handler runs to its end on one CPU; it is one action per case of its
`switch` (`IrqStart`, `IrqWrite`, `IrqRead`, `IrqDefault`), with `IrqWild` for a
handler that dereferences what it must not. `AddrDone`, `WriteDone` and
`ReadDone` are the controller finishing a byte; the slave acknowledges or
refuses anything. A buffer is known by `<<message, index>>`, never by its bytes.

`I2CMaster` is a sequence of elements on the wires: START with address, bytes,
STOP; the return value is 0 exactly when all was sent. It is only stated for
transfers that meet an idle controller. `ImplementsMaster` is that refinement
with its liveness; `CleanTransfers` its step version, which also covers the
transfers before and after a timeout, as long as the controller was idle when
they began (`dirty` is false).

### EEPROM: `ByteStore`, `At24cxx`

`At24cxx` takes the adapter at the level of `I2CMaster`, which `I2CBus`
implements when nothing times out. A process enters a call, waits for the
adapter's lock, makes one transfer, and gets its result. The EEPROM is external:
it keeps an address counter that a write sets and a read moves on, programs the
latched byte at STOP, and may refuse anything; it does refuse its address while
it programs. In `ByteStore` each call takes effect at one moment or fails; the
refinement takes that moment to be the STOP of the transfer. A failed read of
the 21th driver returns 1 and a meaningless byte, because the driver cuts the
error code to a byte (`Junk`); the abstract specification says so instead of
hiding it. The 19th driver, for an older kernel, makes its own messages, takes
their number for success, and returns -1 for anything else, and for a buffer of
the wrong size (`WrongSize`), which is what the abstract specification asks of it.
The 21th driver looks at no size; its calls are made with the right one. `driver`, which never changes, says which of
the two a behaviour runs.

### Buttons: `ButtonDev`, `ButtonsAll`, `EdgeDrv`

A process is outside, in `down()`, requesting lines, has the device open, or is
in one of the steps of read, poll and release; `line` counts through
`pin_desc`. `MayRun` says that no other process is at a place where the code
cannot sleep: between the copy and the end of read (`clear`), and between
`up()` and the last `free_irq()` (`free`). Interrupts and the timer need no such
leave. The semaphore is a count and a queue, handed over in order. Waiting is
split into the check of the condition and the sleep, which a report or a signal
ends. A pin that changes leaves an edge in the interrupt controller, also while
the line has no handler. Bouncing is any sequence of changes; that the timer
expires during it stands for bouncing for longer than 10 ms. `fresh` is a history
variable: a key was stored that no read has copied.

One process uses one open file; two threads that share a file are not modelled.

`EdgeDrv` takes all of this for the sixth driver. The other three skip the
semaphore (`OpenAny`, `CloseAny`) and keep `count`, `waiters` and `nonblock` at
their initial values; what each of them offers of poll and fasync is in its
`..._fops`. `driver` says which one is loaded.

### Touch screen: `Touch`

The pen interrupt and the ADC interrupt are one action each (`pen_down_up_irq`,
`adc_irq`): interrupt handlers are not interrupted. The timer function runs with
interrupts enabled, so each of its accesses to the controller is an action
(`Timer`, `TimerUp`, `TimerWait`, `TimerXY`, `TimerStart`). `adctsc` is the mode
the register was last set to, `adc` that a conversion runs or its interrupt is
pending, `tc` that the pen interrupt is pending. `samples` is `x[0..cnt-1]` and
`y[0..cnt-1]`. Bit 15 of ADCDAT0 is the pen. A conversion that ends while the
controller is not in measuring mode gives any point. `input_report_*` sets what
the input core was told. Initialisation counts from the moment the timer is
started, since the timer may expire before `s3c_ts_init` sets the first mode.
The controller and the pen (`Measured`, `Detect`, `Pen`) are external.

### Input devices: `InputCore`, `InputSub`, `UsbMouse`, `Inputs`

An input device is the set of its keys that are down and the key that repeats.
In `InputSub` the interrupt of a button remembers it in the one global `irq_pd`
and starts the timer, which reports that button only; edges and pins are as in
`ButtonDev`. `overlap` is a history variable: a button moved while another one's
report was outstanding. Then a report may be lost, and a key whose release was
lost repeats for ever; `KeysAreTrue` and `KeysComeUp` say that this is the only
way to go wrong, and TLC finds them violated without that premise. Two buttons
have the code KEY_S; `last` says which of them moved last.

In `UsbMouse` every mouse has an urb, a buffer and an input device, and the
globals of the driver name those of the mouse that was plugged in last (`uk`).
The completion handler is one action; it is called by a report, by a failed
transfer, and once more by a kill. `usb_submit_urb`, whose result neither the
handler nor `probe` looks at, accepts the urb or refuses it (`Outcomes`): after a
refusal nothing submits it again, and the mouse is silent until it is plugged in
anew. The driver says nothing of this, and no text in the repository promises
otherwise; `refused` is a history variable for it, cleared by `probe`, and
`SilentOnlyIfRefused` and `ReportsArrive` say that there is no other way to go
silent. The properties are about one mouse at a time, plugged in and out in any
order: with two (`shared`) the first one's completions read and submit what belongs
to the second. Once both are out, the next one is well again. A mouse that was pulled out with a
button down leaves `pre_val` set (`stale`), and the next one's first report is
compared with it.

### RAM disk: `DiskReq`, `Disk`, `RamBlock`

`Disk` is the abstract specification: queued requests are carried out once, as a
whole, in some order. In `RamBlock` the elevator hands over any waiting request,
cut into segments (`Cuts`), and each turn of the loop copies the current segment
and ends it. The queue's lock is held from the first fetch until the queue is
empty, so that nothing is queued meanwhile. A request counts as carried out when
it is fetched; the refinement mapping therefore applies the request in hand to
the contents.

### Loading and unloading: `ModuleScripts`, `ModuleLife`

Each init and exit function is a sequence of steps: obtain something whose
result is not looked at, something that may fail, look at it and give back what
came before, use, give back. A callback has a door, the resource that lets it in
(the registered device, the requested interrupt, the pending timer, the open
file), and what it needs, obtains and gives back. `ModuleLife` runs init and exit
of one module step by step, with any callback whose door is open in between, and
records what is used while it is not held (`astray`) and given back while it is
not held (`twice`). A module whose file operations name it as owner is not
unloaded while a file is open; for interrupts, timers, network and I2C transfers,
and an mtd without an owner, nobody keeps it.

An allocation or registration whose result the code does not look at is taken to
succeed; the submission of an urb may fail. Setting up a timer is its own step (`set_timer`): an interrupt that starts a timer needs one that is set up,
and `add_timer` needs one that nobody has started. `touch.c` breaks both, since it
requests the ADC interrupt (236) before it sets up the timer (245-247).

The drivers do go wrong in some places. `KnownAstray`, `KnownTwice` and
`KnownLeft` name each one, by module, callback and resource, with its line; the
properties say that there are no others. None of the names is idle: TLC finds the
property violated when any single one is taken out of its set.

## Runs

| Run | Shows |
|---|---|
| `i2c_normal` | without timeouts the driver implements `I2CMaster` with its liveness, for every transfer of up to 3 messages of 0 to 2 bytes of either direction |
| `i2c_timeout` | with timeouts at any point: results, buffers, wires of every transfer that began on an idle controller, whose interrupts find the handler at the byte just carried, given up meanwhile or not (`HandlerInStep`); and the abandoned one ends by itself |
| `i2c_success_means_sent` | violated: a late interrupt is taken for the new transfer's, and 0 is returned for a byte that was not sent |
| `at24cxx` | concurrent reads and writes of two processes implement `ByteStore`, and return; a cell changes only by its writer |
| `buttons` | one opener, who hears all lines; poll's word holds; no old key without another signal; the stored key after bouncing; a sleeping reader hears the next key |
| `buttons_sleep` | violated: a key stored between the copy and `ev_press = 0` is forgotten |
| `edge` | the four drivers without debouncing, with other signals too: the stored key agrees with its pin once its edges are taken, though every bounce reports; a line with a handler has somebody who will free it; an opener that waits for the semaphore gets in |
| `asyn_pins` | violated: a process that opened while another had the device open keeps no interrupts when that one closes |
| `touch` | the controller never measures without a conversion on its way; a reported touch is looked at again; a pen that stays up is reported up, a pen that rests is reported where it is |
| `inputs` | the keys an input device shows are those that are held, and none repeats for ever, as long as no two buttons move within 10 ms; with one mouse at a time nothing freed is used, a report gets through in the end although transfers fail, and a mouse is silent only since a submission was refused |
| `ramblock` | requests of several segments implement a store of sectors, and none stays in the queue |
| `life` | 22 modules, loaded and unloaded twice: beyond the named cases nothing is used that is not there, given back twice or left behind |

Two more disagreements have no run of their own. `ReadMeansAction` is violated by
`ButtonsAll.cfg` with `Signals = TRUE`: the result of the wait is ignored
(`buttons_all.c:148`), and a read that a signal ends returns 1 and an old key.
And `s3c2440_i2c_xfer` returns 0 after a complete transfer (163), where a client
of `i2c_transfer` such as `19th_i2c_drv/5th/at24cxx.c:63` expects the number of
messages; in `At24cxx` that client runs on an adapter of its own kernel (`iRet`).

Bounds. I2C: three messages give a first, a middle and a last one, and two bytes
a byte that is the last of its message and one that is not; the timeout run makes
two calls, an abandoned one and the one that meets its remains. EEPROM: two
processes, two cells and two values, enough for a wrong cell, a wrong byte and
two messages split by another call. Buttons: two processes, so that one holds
what the other wants, and two keys for the one `irq_pd` (one key in
`buttons_sleep`). Touch: three points, two of them close enough to pass the filter together
and one far off. Input: three buttons, two of which share a code, and two mice of
one button, as the handler treats the bits of `data[0]` alike and the mice differ in
what the globals name; the theorems are for all three. RAM disk: two requests, three sectors and two values, enough for
requests that overlap and for a segment that is neither the whole request nor at
its start. Loading: twice, the second time with what the first has left. Nothing in the button, touch and EEPROM models is cut off by a
counter: their state spaces are finite as they are.

## Fairness

- `I2CBus`: the steps of `xfer`, the handler and the controller go on: a
  running process, a pending interrupt and a byte being shifted each end. New
  calls and, in the timeout run, the timeout itself are not forced.
- `At24cxx`: the wires go on because `I2CMaster` is implemented with its
  liveness; the adapter's lock is an `rt_mutex` that serves waiters of one
  priority in turn, which gives a waiter strong fairness.
- `ButtonDev`: a process inside a system call goes on, pending edges and the
  timer are handled, and no key bounces for ever (else the timer is put off for
  ever). Users are not forced to do anything; `WaitersGetIn` has as its
  premise that none of the other processes stays inside for ever.
- `Inputs`: edges and the timer are handled, and the host controller polls a mouse
  whose urb it has, so that a report that waits is fetched. Transfers may fail
  before it, and submissions be refused.
- `RamBlock`: the request function runs when something is queued, and goes on.
- `Touch`: pending interrupts and the timer are handled, a conversion ends, the
  controller reports the edge it waits for. The pen is not forced to do anything.
  `RestIsReported` has one premise more, `TimerIsQuick`: not for ever does a
  conversion end between the timer's two register writes, which are some
  instructions apart while a conversion takes microseconds. Without it, the
  conversion that the timer starts may every time find the controller in the
  mode that the ADC interrupt has just set.

## Proofs

Every invariant and action property that a run checks as holding is also proved,
for every value of the constants: any number of processes, keys, mice, requests,
messages, sectors, bytes and loads, within the named assumptions of the modules. Each
component has one inductive invariant `IInv`, which TLC checked on the instance
of its run before it was proved. The assumptions bind the constants to what the
code can mean: bounds are naturals (`BoundsAssumption`, `KeysAssumption`, `AddrsAssumption`,
`SectorsAssumption`), `input_sub.c` has six buttons and a mouse three
(`PinsAssumption`, `ButtonsAssumption`), and the values that stand for "none" are
none of the others (`JunkAssumption`, `SlotsAssumption`, `NoMouseAssumption`).

### The I2C adapter: `I2CBusProofs`

With timeouts unless said otherwise:

- `TypeCorrect`, `InsideBuffers`, `TrueResult`, `BusReleased`, `HandlerKnowsItsByte`,
  `ReadsInPlace`, `CleanTransfersHold`: the invariants and the action property of
  the TLC runs;
- `Implements`: without timeouts the driver implements the safety part of
  `I2CMaster`: initial states map to initial states and every step to a step or
  a stutter.

All rest on one inductive invariant, `IInv == TypeOK /\ Always /\ (~dirty =>
Clean)`. The safety properties alone are not inductive: the handler finds its
place from `state`, `cur_msg`, `cur_ptr` and the direction bit, and only their
agreement with what is on the wires keeps it there. `Clean` states that
agreement for each place of the process and each state of the handler;
`Always` is what holds even after a timeout. `Invariance` proves it one action
at a time, and the lemmas before it say what the handler's steps do to the
pointer and the direction. `Implements` and `CleanTransfersHold` then take the
invariant and show each action to be a step of the master: `ControllerSimulates`,
`IrqSimulates` and `FinishSimulates`. `ReadsInPlace` needs a second invariant
next to it, `Stored`: messages before `ptr` are read to their end, the current one
up to `cur_ptr`, and a transfer that stops with OK stands at the end of its last
message. It is inductive only together with `IInv`, which says that the byte in
IICDS is the one that `cur_ptr` counts.

### The EEPROM: `At24cxxProofs`

`TypeCorrect`, `CellsAreWritten`, and `StoreIsSafe`: both drivers implement the
safety part of `ByteStore`. `IInv` adds to the types that only the holder of the
adapter's lock is on the bus and with its own messages (`Locked`), that a process
in a call has asked for something (`Asked`), that a buffer holds nothing before
its transfer (`Unread`), and how the EEPROM's address counter and latch follow a
transfer of each kind (`OnTheWires`): after the cell address was acknowledged the
counter is that of the request, and what has been received is what that cell
holds. Nothing less shows that the byte programmed at STOP goes to the cell that
was asked for. For the refinement each action is mapped in a lemma of its own:
calls and returns to `Invoke` and `Return`, the STOP to `Apply` or `Fail`
(`StopMaps`), everything else to a stutter, because it decides nothing for its
own process (`TransferMaps`, `TransferredMaps`, `WireMaps`) and touches no other
(`Bystander`, `OnlyOwner`). The adapter is `I2CMaster`, which `Implements` shows
the adapter's driver to be.

### The buttons: `ButtonDevProofs`, `ButtonsProofs`

`ButtonDevProofs` takes the operations that the drivers share and shows what each
keeps: types, the semaphore, the lines, the poll result. `OpenHasInterrupts` is not
inductive: `release()` gives the semaphore back before it frees its lines, so a
last holder may be freeing them while the next one is in. `FreesAlone` adds that
there is one such process at most, and that whoever is in then stands before its
first `request_irq`; only so are lines requested by the next holder never freed by
the last one. `Hearing` and `Told` complete `OneUser`.

- For `ButtonsAll`: `TypeCorrect`, `Exclusive`, `AllLines`, `PollIsTrue`,
  `LastKey`, and `ReadsNewKeys`, which has the premise `~Signals`, under which
  the run checks it too: SIGIO is the only signal. With other signals it does not
  hold, because the result of the wait is ignored.
  It rests on a second invariant, `Fresh`: `ev_press`, a process about to
  copy and a pending signal each mean a key that nobody has copied.
- For `EdgeDrv`: `EdgeTypeCorrect`, `StoredLevel`, `NoHandlerLeft` for all four drivers;
  for the one with the semaphore also `SixthIsExclusive` and `SixthReadsNewKeys`,
  which carry the properties of `ButtonsAll` over to it.

### The input devices: `InputsProofs`

`TypeCorrect`, `ButtonKeys`, `MouseKeys`, `MouseReports` (which proves
`SilentOnlyIfRefused`). For `input_sub.c` the
invariant has to say which button's level the input layer has and which are still
to be reported: unless two moved within one debounce time, at most one has an edge or a
timer outstanding, and it is the one whose code was touched last (`OneMoves`). For `usbmouse.c`, which has one set of
static variables, it ties `uk`, the urb, the handler's previous buttons and the input device
to the one mouse that is bound (`OneMouse`), and says that its urb is submitted or has
been refused (`Submitted`); it says nothing from the moment a second one is plugged in
until both are out.

### The RAM disk: `RamBlockProofs`

`TypeCorrect` and `CarriesOutSafely`: the request function implements the safety
part of `Disk`, on which a request is carried out in one step, although the
driver copies it segment by segment and is called again in between. `Serving` is
the heart of the invariant: the segments that are left are the end of the request,
and the sectors before them agree with the device, whichever way they were copied.

### The touch screen: `TouchProofs`

For every set of points on the panel, `TypeCorrect`,
`NeverDeaf` and `TouchWatched`, from the invariant `IInv`. It adds
`TimerComesBack` to the properties: the timer's last step takes the timer away
from a touch that the ADC interrupt has reported in between, and only because
that interrupt has started the timer again is the touch still looked at.
`FilterBoundsTheError` and `RestPassesTheFilter` say of `s3c_filter_ts` and the
average what a user of the reports may rely on.

### Loading and unloading: `ModuleLifeProofs`

`TypeCorrect`, `FindsWhatItUses`, `GivesBackOnce` and `LeavesNothing`: the four
invariants of `ModuleLife`, for every module and any number of loads.

None of them is inductive: whether the next step of `init` or `exit` finds what it
needs depends on all steps before it and on the callbacks in between. The proof
therefore looks ahead. While a script is running, `todo` and `held` make promises
about each step that is left: `Sure`, a resource is held when that step comes; `Gone`,
it is not; `Ends`, it is not and no callback can bring it back, because the doors
of the callbacks that obtain it were closed when it was given back;
`Undisturbed`, no callback takes it away before that step, as an interrupt that starts
a timer takes away what `add_timer` needs. The lemmas
`...Step` show that carrying out the first step keeps what is promised of the others,
the lemmas `...Answer` that a callback does. `IInv` consists of the types, of `Linked`
(whatever is held has what it relies on: a requested interrupt has the registers and
the code that its handler uses, an open file the device), which is why a callback
finds what it needs, and of `Promises`, one list for each phase.

What the argument asks of a driver is `Orderly(m)`, a statement about its two scripts
and its callbacks alone. It says which order of obtaining and giving back is enough:

- `init` obtains a thing after all that it relies on (`Grounded`); a failing check
  finds what it gives back, gives it back once, and leaves no way in to the code
  (`Undoable`, `Failable`);
- `exit` gives a thing back when whatever relies on it has gone and cannot return
  (`Ordered`), once (`Single`), and in the end everything (`Clearing`);
- a callback uses what its door relies on, and takes nothing away from under others
  (`Answered`).

The known cases are exempt one by one, where `KnownAstray`, `KnownTwice` and `KnownLeft`
name them. `Orderly` is then proved of each of the 22 modules by going through its
steps (`FirstOrderly` to `ClientOrderly`; three button drivers with the same scripts
share `PlainOrderly`). A driver whose `exit` freed the video memory before the
controller is off would fail at `Ordered`, one whose failed probe leaves its mapping
at `Failable`.

### What TLC alone checks

- Liveness, which is out of the prover's reach: that transfers, calls and requests
  end, `AbandonedTransferEnds`, `ReaderHears`, `WaitersGetIn`, `UpIsReported`,
  `RestIsReported`, `KeysComeUp`, `ReportsArrive`, and the liveness parts of `ImplementsMaster`,
  `ImplementsByteStore` and `CarriesOut`.
- That `SuccessMeansSent`, `SleepsWithoutAction` and `OpenConfiguresPins` are
  violated.

## What is not modelled, and the plan

- `printk`, the bytes of I2C messages, `-EFAULT` of `copy_from_user`, and the
  values written to pin, clock and LCD registers. `chan_to_field` of `lcd.c` is
  arithmetic on one value. `regno > 16` (`lcd.c:69`) lets 16 pass, one more than
  `pseudo_pal` has entries; a model of one table write would only restate that.
- The contents of the reply that `virt_net.c` makes up: a fixed exchange of two
  addresses, in one step.
- `ramblock__getgeo`, which returns three numbers.
- What the mtd, block and network layers do themselves, and the memory allocations and
  registrations whose result the code does not look at, which are taken to succeed
  (`request_irq` in `EdgeDrv` and the buttons, and `usb_submit_urb`, are not).
- Earlier stages of drivers (`框架` files, `16th-virt_net/1th` and `2th`), user
  programs, copied headers and build products.
- The adapter below `At24cxx` does not time out: what a timeout leaves behind is
  examined in `I2CBus`. The comment above `at24cxx_read` says that the byte read
  is stored in `buf[1]`; it is in `buf[0]`.

Every invariant and every action property that a run checks is proved; what is left to
TLC is listed above.
