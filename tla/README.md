# A formal model of sdr_tcpip

TLA+ models of the concurrent and stateful core of this repository: the servers
`rtl_tcp` and `airspy_tcp`, the asynchronous read of `librtlsdr` over libusb, the
tuning state of a device, the driver of its tuner, the lock around the tuner's I2C bus and the response channel
that shares it, the threads of `rtl_fm`, `rtl_adsb` and `rtl_sdr`, and, below them,
how libusb shares its event handling and splits a transfer. TLC checks the models on
small instances; TLAPS proves what matters most for every value of the constants.

Paths below are relative to `rtl-sdr/src/` unless they say otherwise.

## 1. The system

| part | state | operations | interacts with |
|---|---|---|---|
| `rtl_tcp.c`: main | `do_exit`, the sample socket, `ll_buffers`, `global_numq` | accept a client, start two threads, read, join, drain | starts tcp_worker, command_worker, the control thread; blocks in `rtlsdr_read_async()` |
| `rtl_tcp.c`: `rtlsdr_callback` | one new buffer | copy, append to the list, drop the oldest, signal | runs on whichever thread handles libusb's events: main in its read, command_worker in a command, the control thread in a reading; shares `ll_buffers` under `ll_mutex` |
| `rtl_tcp.c`: `tcp_worker` | the list it took, an index | wait with timeout, take the list, send, free | `ll_mutex`/`cond`, the socket, `sighandler()` |
| `rtl_tcp.c`: `command_worker` | a partial command | receive, dispatch to a setter | the socket, the device, `sighandler()` |
| `librtlsdr.c`: asynchronous read | `async_status`, `async_cancel`, `dev_lost`, the transfers | `rtlsdr_read_async`, `_libusb_callback`, `rtlsdr_cancel_async` | libusb's transfers; cancelled from any thread without a lock; a thread inside a synchronous transfer may run the callbacks |
| `librtlsdr.c`: tuning | `freq`, `rate`, `bw`, `offs_freq`, `corr`, crystals, direct sampling; the IF, inversion, LO and filter that are programmed | the setters | setters call each other; the tuner drivers |
| `librtlsdr.c`: I2C repeater | one bit of a demodulator register, `cs_mutex` | open, transfer, close | every tuner operation of every thread |
| `controlThread.c` | the control socket, a partial report | accept, read the registers, send, end | main's `do_exit_thrd_ctrl`, command_worker's `report_i2c`, the device |
| `airspy_tcp.cpp` | as `rtl_tcp`, with a list that gives and drops single buffers, and a condition waited for without a timeout | the same server over an Airspy | the Airspy's library calls `rx_callback` on a thread of its own |
| `rtl_fm.c` | `lowpassed`, the demodulator's and the output's one buffer each, `mute`, `squelch_hits`, the current frequency, `exit_flag` | four threads: read, demodulate, write, retune | each wakes the next by a condition without a predicate; the read is cancelled by main, the handler and the controller's end |
| `rtl_adsb.c`, `rtl_sdr.c` | one buffer; `bytes_to_read`, a file | read, decode or write, cancel | the asynchronous read; a demodulator's thread that main cancels |
| libusb `io.c`, `sync.c`, `core.c` | the flying transfers and their flags, the events lock, its waiters, `device_close` | submit, handle events, wait for another handler, time out, close | every thread that transfers; the kernel |
| libusb `os/linux_usbfs.c` | a transfer's URBs, `num_retired`, `reap_action`, `reap_status` | split, submit, discard, reap | the kernel, which works on meanwhile |
| `tuner_r82xx.c` | a shadow of the chip's registers, the IF, the input and the sideband in use | initialise, tune, filter, sideband, standby | librtlsdr's setters, which know the IF and the sideband too; the chip, over transfers that may fail |
| `rtl_udp.c` | as `rtl_tcp`, over datagrams, one session; an infrared thread | | not modelled |
| other tuner drivers, EEPROM, infrared, option string, tools | registers, arithmetic, parsing | | see section 7 |

What makes it hard: five threads per session that share a list, three flags
(`do_exit`, `async_status`, `async_cancel`) that are read and written without a
lock, cancels that race completions, sends that take part of a buffer, clients
that leave at any time, timeouts as a normal way to end, setters that call one
another recursively, conditions waited for without a predicate, and an event handler
that is whichever thread comes first. `PROJECT.json` lists each hazard at its line, with the
properties that watch it or the reason why none does.

What makes each part correct:

* server: a buffer has one owner, a client gets the stream of its own session in
  whole buffers and in order, neither its threads nor, without the control thread, a
  callback outlives a session, and a request to end is answered;
* asynchronous read: whatever the cancelers and faults do, callers see the four
  transitions of `async_status` they rely on, and a cancelled read returns;
* tuning: after any sequence of setters, LO, IF, offset and sideband add up to the
  frequency the library reports, and a new clock reaches what is tuned by it;
* tuner driver: what the chip's registers hold receives the frequency that is reported,
  also after calls that failed half-way;
* I2C: every transfer to the tuner finds the repeater open, and it is closed at
  rest;
* response channel: reports are whole, sockets are closed, a reading does not wait for
  ever, the thread ends;
* pipelines (`rtl_fm`, `rtl_adsb`): what is handed on is used, or what overwrote it, a
  wake-up that matters is not lost for good, nothing is used after it was freed, and a
  signal ends the program;
* recording (`rtl_sdr`): the file is the stream, without a hole, as long as was asked;
* libusb's events: no thread waits for a handler that has gone, no transfer is touched
  after its owner may have freed it, a timeout is reported as one;
* libusb's URBs: a transfer is reported once, last, with all its data and the truth.

## 2. The modules

    AsyncReadAPI ----------- INSTANCEd by ------> RtlTcp ------> MCRtlTcp, RtlTcpProofs
      ^       |
      |       +------------- INSTANCEd by ------> StreamTools -> PipelineProofs
      | implemented by
    AsyncRead -------------> MCAsyncRead, AsyncReadProofs
    AirspyTcp -------------> MCAirspyTcp, AirspyTcpProofs
    RtlDevice -------------> MCRtlDevice, TunerProofs
    R82xx ---------------------- INSTANCEd by --> TunerProofs
    I2cRepeater -----------> ResponseChannel ---> MCResponseChannel, ResponseChannelProofs
    ControlThread -- INSTANCEd by ---^
    RtlFm ---------------------- INSTANCEd by --> PipelineProofs
    LibusbEvents ----------> MCLibusbEvents, LibusbEventsProofs
    UsbfsUrbs -------------> UsbfsUrbsProofs

**AsyncReadAPI** is the abstract specification of an asynchronous read: a reader
that begins, ends or fails, a device that may be lost, and cancelers that test the
status and store a new one in two steps. `RtlTcp` and `StreamTools` are built on its
actions (`Lib!BeginRead`, `Lib!EndRead`, ...), and `AsyncRead` is shown to implement it,
so they compose without a joint state space. `Handlers` are the threads that handle
libusb's events besides the reader: there are none in `rtl_adsb` and `rtl_sdr`; in
`rtl_tcp` there are two, and a device may be lost in a callback that one of them runs
(`HandlerLoses`), whether anybody reads or not.

**RtlTcp** has one action for each step of each thread between two accesses that
another thread can observe; a critical section of `ll_mutex` is one step. Buffers
are the numbers of their capture, so ownership and order are statements about
numbers: `rpt` is the callback's new buffer, `ll_buffers` and `curelem` are the
lists, `freed` what was given to `free()`, `overflow` what the full list dropped,
`last` the piece last sent. `sighandler()` is run by three callers (`worker`,
`command`, `ctrlc`); its two statements come in one order on Windows and in the
other on POSIX (`CancelFirst`): `system` is the one the server was built for, any of `Systems`,
and never changes. `MainRead` to `MainReturns` is the time inside
`rtlsdr_read_async()`.

Capture and Enqueue are `rtlsdr_callback()`, on the one thread (`runner`) that has
libusb's events lock: main in its read, command_worker in a command, or the control thread
(`Channel`), which reads the tuner's registers over synchronous transfers whatever main is
at. The last two find the stream's transfers while main reads, and after that for as long as
some are in flight (`leftover`). `CallbackLoses` to `CallbackStore` are the same thread in
`_libusb_callback()` when the device is lost. The session's end is in three steps, since the
drain takes no lock: `MainJoinCommand`, `MainDrain`, which takes the list, and
`MainEndSession`, when what it took has been freed; a buffer appended between the last two may
have been linked to an element that main frees (`LinkToDrained`). Nobody joins the control
thread at a session's end, so a callback may be about to append when main drains, or take a
buffer when no session is there for it. From then on `late` is set, a history variable, and
what is said of ownership and of the stream says no more: the memory is corrupt, or a
client gets another's buffer. `send()` is two steps, since it may block in between
(`WorkerSelect`, `WorkerSend`).

**AsyncRead** is the event loop. A transfer has a state in libusb (`flight`), a
request in the kernel (`urb`) and a status in its struct (`status`). `Poll` is the
snapshot a call of libusb's event handling works on: that is why the loop gets to
test the status however fast the device delivers. A thread of `Handlers` may hold libusb's
events lock instead (`holder`): then the reader's call handles nothing, and the thread takes
transfers one by one (`TakeXfer`), which are not in flight while it runs their callback, submits
them again or reports the device lost, also when the read has freed them and returned.
LibusbEvents is the rule by which that thread is chosen. `ErrorLimit` is the number of errors
in a row that loses the device: 1 on Windows, `xfer_buf_num` elsewhere, which each call of
`rtlsdr_read_async()` sets anew (`BufNums`). The order within one cancelling
pass, the events handled after each cancel, and the status with which the function
returns are those of lines 2188-2226 of `librtlsdr.c`.

**RtlDevice** keeps one device as a record. Because setters call one another, they
are operators from a device to a device and an action applies one. `SetCenterFreq`
and `SetDirectSampling` call each other in the code, at most three deep: that recursion is
written out level by level. Frequencies are
small numbers (MHz), a clock is the pair of a crystal and its correction; `Crystal` is
`rtlsdr_set_xtal_freq()` with any two crystals, 0 included: the RTL2832's stays, the tuner
shares the RTL2832's; `r82xx` in the
record tells the tuners with an IF from the zero-IF one.

**R82xx** keeps that device once more, with the registers of its tuner: `dev.regs` is the
driver's shadow, `dev.chip` what the chip holds, each register a record of the fields that
matter to the frequency and to the path before the mixer. RtlDevice has all of librtlsdr's
setters and lets the tuner do what it is told; R82xx has the setters that reach the driver
and takes each down to its transfers, at most one of which fails in a call and may have
arrived all the same, or the PLL does not lock. A call holds the bus from its first
transfer to its last (I2cRepeater), so it is one step: an operator from device to device,
as in RtlDevice. The PLL's arithmetic is done in kHz, with 16 for the 256 values of a byte of
`sdm` (`SdmBase`) and 2^32 Hz as `Width`. `half`, `halfInit` and `halfBw` are history
variables: a setter, an initialisation or the selection of a filter gave up before its end. Of the calibration of the image
rejection all is kept but the search for the best setting, whose registers are left out.

**I2cRepeater** has a program counter per thread. `Begin` starts a tuner operation,
or one nested in it; `Lock`, `Open`, `Transfer`, `Close` and `Unlock` are the steps of
`rtlsdr_set_i2c_repeater()` and of what it brackets. The nested calls of the code come
after the transfers of the operation that makes them, with more of them possible.
`SampleRateReset` is the pair of register writes in `rtlsdr_set_sample_rate()`, which do
not take the mutex.

**ControlThread** is `ctrl_thread_fn()` with its labels (`sleep:`, `close:`) as the
places `nap` and `close`, and the last lines of `main()`. Sockets are numbered in the
order they are accepted, and a report is told from the next one by its parity.

**ResponseChannel** composes the two: `Look` and `Fetch` of ControlThread are taken only
after a whole reading of I2cRepeater (`ReadRegisters`), in which the thread competes
with the threads that set up the tuner for the mutex; main closes the device when those
have ended. `EndsUnlessIdle` and `ReadReturns` hold of the composition, where a thread
that waits for the mutex is one more reason not to end.

**AirspyTcp** is RtlTcp's counterpart for `airspy_tcp.cpp`. It differs where the code
does: the worker takes one buffer at a time and waits with a predicate (`WorkerTests`,
`WorkerWaits` are the two sides of the loop around `pthread_cond_wait()`), the full list
drops the buffer that has just come, `global_numq` is an account of its own, and the
callback runs on a thread of the Airspy's library between `MainStartRx` and `MainStopRx`.
`sighandler()` sets `do_exit` and signals in two steps without the mutex; `missed`
records that tcp_worker was between its test and its wait then.

**RtlFm** keeps a place for each of the threads dongle, demod, output and controller.
`safe_cond_wait()` has no predicate, so a thread is in `towait`, then in `wait`, and a
signal that finds it elsewhere is lost; a spurious wake-up is an action. The two slots are
"new" from when something is put in until it is used. `mode` is one frequency, a scan over several with
squelch, or the commands file's lines with measurements (`numSummed`).

**StreamTools** is `main()`, `sighandler()` and the callbacks of `rtl_adsb` and `rtl_sdr`,
which are alike but for what they do with a block; `program` says which one runs, `rtl_sdr_S`
being rtl_sdr with -S, which reads synchronously. Cancelling the demodulator's thread is
`MainKill`; it acts at cancellation points (`DemodKilled`). rtl_sdr's callback is given a whole
block or, as `xfer->actual_length` may be short, any part of one. The bytes it writes are
numbered, so that the file shows what is missing. The demodulator looks at the buffer
(`DemodLook`) and is at work in it until `DemodWork`; what is copied in meanwhile stays
`fresh`, as the passes may be past it.

**LibusbEvents** is the rule by which threads share the event handling: who gets the
events lock (`Try`, `TryLock`, `Activate`) polls and reaps for all, the others look once
more under `event_waiters_lock` and wait. Mutexes that are held in a single place are
predicates over the places (`FlyingFree`, `XferFree`, `WaitersFree`); the events lock is a
variable. Timeouts are found by polling threads and by waiting ones, and by a timerfd where
there is one (`timerfd`). `Broadcast`'s waiters go on at once.

**UsbfsUrbs** is one bulk transfer below that: `submit_bulk_transfer()`,
`discard_urbs()` one URB at a time while the kernel goes on, and
`handle_bulk_completion()` with its ways out as four actions. Kernel actions are external;
bulk continuation (`mode`) decides what an URB that ends early does to those behind it, and
`StallModes` in which modes the endpoint may stall: in both, in all runs.

## 3. What is checked, and what it shows

| configuration | instance | what it shows |
|---|---|---|
| RtlTcpSafety | limit 1, two pieces per buffer, 5 buffers, 2 clients, 1 signal, callbacks on all three threads | TypeOK, QueueBound, OneOwner, SessionOver, StopsOnlyOnSignal, StreamIntact |
| RtlTcpLiveness | both systems, no control thread, one piece, 1 buffer, 2 clients, 1 signal, faults | ExitAnswered, ClientGoneEndsSession, LateByChannel |
| AsyncRead | 2 reads, of 2 transfers and of 1, a canceler that handles events too, 1 cancel, all faults | ImplementsAPI (safety and liveness of AsyncReadAPI) |
| RtlDevice | both tuner types, 3 frequencies, 2 rates, 2 crystals, direct sampling, a threshold | TunedToFreq, ClockCurrent |
| R82xx | an R828D, one frequency that the largest divider does not lift to the VCO's range and one at the edge between two dividers, a crystal on either side of 24 MHz, one failing call | Receives, PathFits |
| ResponseChannel | 3 threads, 2 transfers per operation, 2 clients, reports of 2 pieces, 1 toggle | HeardByTuner, Exclusive, ClosedAtRest, NoSocketLost, FramesWhole, ReadReturns, EndsUnlessIdle |
| AirspyTcp | limit 2, two pieces per buffer, 4 buffers, 2 clients, 2 signals | QueueCounted, OneOwner, StreamIntact, ExitAnswered |
| RtlFm | 3 modes, squelch after 1 block, 2 measurements, 2 muted blocks | SlotsServed, ExitCompletes, HopAnswered |
| StreamTools | 3 programs, blocks of up to 2 bytes, a count of 2, 3 or none, 6 bytes | FreedUnused, FileWhole, Ends, BlockSeen |
| LibusbEvents | 2 threads with a transfer each, a closer, with and without timerfd | NoneWaitsInVain, TimeoutReported, TransferAlive, Returns |
| UsbfsUrbs | 4 URBs of 2 packets, with and without continuation, stalls in both | ReportedLast, DataWhole, StatusTrue, Reported |

A run that finds the code to do something else than it says:

| configuration | what the source says | what happens |
|---|---|---|
| AsyncReadFree | "we just cancelled all transfers" (`librtlsdr.c:2216`) | transfers that complete just before their cancel are freed in flight |

Modules that have no TypeOK among their runs' properties state it all the same, for the
types of their variables.

### Known deviations without a run

The models show these too; a behaviour that reaches each is short, and the properties
name them as exceptions.

* `rtl_tcp`: a signal caught in a session ends the session only, as main takes `do_exit`
  back (738), although the handler says "Signal caught, exiting!". "-n max number of linked
  list buffers to keep" (125) is N, the list holds up to N + 3. When main takes the list
  without its lock, "all threads dead.." (727), the control thread may be in
  `rtlsdr_callback()`, past its test of `do_exit`. The buffer it appends is then in freed
  memory, or in the list of the next client: `late` of OneOwner, StreamIntact and SessionOver.
  The accepted socket blocks but on
  Windows, where it inherits the listening one's mode: a client that does not read keeps
  `send()` (251), tcp_worker and main's join for as long as it likes (`Stalled` of
  `ExitAnswered`).
* `librtlsdr`: a cancel that tested the status before a read returned stores CANCELING after
  it (2237), and `rtlsdr_close()`, which blocks "until all async operations have been
  completed (if any)" (1937), polls it for ever (`Hung` of StreamTools). A failed transfer is not submitted
  again (1996-2011), and the result of submitting is ignored (1994): where one error does not
  lose the device the stream may run dry with the status RUNNING, until somebody cancels. A
  read that returns while another thread handles libusb's events frees transfers whose
  callbacks run.
* `librtlsdr`: `rtlsdr_set_sample_rate()` closes the repeater (1296) without the
  "Concurrent lock for the periodic reading of I2C registers" (136); `HeardByTuner` excepts
  the transfers before which it did (`undone`, a history variable). It is said to select the
  baseband filter (`rtl-sdr.h:283`); the filter stays as it was.
  `rtlsdr_set_xtal_freq()` is to "update xtal-dependent settings" (876 and 894). With a new
  crystal for the RTL2832 and the old one for the tuner it sets no frequency, so that in
  direct sampling the IF stays that of the old clock until a frequency or an input is set:
  `NewRtlCrystal` of `ClockCurrent`.
  `rtlsdr_set_direct_sampling(dev, 0)` sets an IF and an inversion that are not those of the
  offset or the sideband in use: `LeftDirectSampling` of `TunedToFreq`. In the modes in
  which "direct sampling is used below this frequency" (`rtl-sdr.h:356`), a frequency that
  crosses the threshold switches (1022), which tunes the old frequency, which switches back.
* `tuner_r82xx`: the shadow is stored before the write (446), so that after a failed write of
  some fields the next one is left out as if it had been done: `Known` of `Receives`
  and `PathFits`. A setter that fails between the driver and the demodulator leaves the two with
  different IFs or sidebands and the reported frequency as it was: `Agreed` and `half`. When an
  initialisation fails `rtlsdr_set_direct_sampling()` goes on over the registers
  of the calibration: `halfInit`. When the selection of a filter fails between its two
  registers, and a later call that fails restores an IF both sides agree on, the registers
  can be of two rows of the table: `halfBw`. An initialisation resets the sideband in R7 (1337) and not in
  `priv->sideband`: `PathFits` speaks of the lower one.
* Response channel: a connected client without reports keeps the thread, and main's join,
  from ending (`controlThread.c:168`): the `nap` of `EndsUnlessIdle`. main frees the
  device before it tells the thread to end (`rtl_tcp.c:743`).
* `airspy_tcp`: a wake-up between tcp_worker's test and its wait is missed (189), and
  nothing but a further buffer wakes it: `missed` of `ExitAnswered`. When
  `airspy_start_rx()` fails the device is closed under the running threads (1083).
* `rtl_fm`: a signal in the second of sleep before the read begins is refused by
  `rtlsdr_cancel_async()`, and main waits for ever (`Hung`); so it does when a thread misses
  main's one wake-up (`missed`), and when the device is lost. A block is overwritten
  when its signal was lost, and the output may write its last one twice. The controller's
  transfers may run `rtlsdr_callback()` as the control thread's do; the model leaves it to the
  dongle's thread. `c->prevFreq != dongle.freq;` (1513) is no assignment.
* `rtl_sdr`: "-n number of samples to read (default: 0, infinite)" (`rtl_sdr.c:62`). A block
  that ends where -n does is not the last one to `bytes_to_read < len` (96), counts down to 0
  (112), and the recording goes on: `onEnd` of `FileWhole`. That happens to every number that is
  a multiple of the block, and to any after a short transfer.
* `rtl_adsb`, `rtl_sdr`: the same two ways to hang, `Hung` of StreamTools. After a short write
  the blocks that come before the cancel acts are written after the gap (`torn`).
* libusb: after a stall the code is to "cancel remaining urbs and wait for their completion before
  reporting results" (`os/linux_usbfs.c:2356`). Without bulk continuation it leaves
  `reap_action` NORMAL: of the URBs it discards, the last one is reaped first and reports the
  transfer (2338). The kernel holds no URB then, but the others are still to be reaped, into a
  transfer that may be freed: `PlainStall` of `ReportedLast`. With
  continuation a stall that makes the kernel refuse the rest with EREMOTEIO is reported as
  completed: `refused` of `StatusTrue`. An overflow reports at once (2319) and is not modelled.

`ExitAnswered` and `ClientGoneEndsSession` of RtlTcp end in `Hung`, the stream whose only
cancel came too early and which nothing can end but the device: it demands that
command_worker's cancel did come before the read (`early`).

### Bounds

Counters of buffers, sessions, signals, reads, cancels, clients and toggles are the
constants marked "bound" in each module and appear in guards only. Two sessions are
needed for anything to leak from one to the next; five buffers with a limit of one fill
the list (four), overflow it and leave one with the worker; two pieces make a send
partial. One buffer is enough for the run about ends, as what ends a session does not
depend on how many there are. That run has no control thread, for LateByChannel; with
one (`Channel`, 570 000 states) the other two properties hold just so. RtlTcpSafety runs the
Windows order, in which a thread still has its cancel to come when others see `do_exit`; the
theorems are for both. Two transfers are the least for which one can be cancelled while the other
completes, two reads for a status or a callback to outlive one. The second read has a single
transfer (`OneLater`), so that one error loses the device there, as on Windows, and two do in the
first. One cancel is enough to be between its test and its store when a read returns; several
at once are the theorem's. Three frequencies are one below the tuner and the threshold and two
above; rates 2 and 4 give two offsets and two filters. Three threads make the mutex
contended while one is nested. `frame`'s parity needs no bound. A list of two and four
buffers overflow AirspyTcp's list with one in the worker; two signals make the second
meet the answer to the first. In RtlFm everything but the two counters is finite. A
block of two and counts of two and three end rtl_sdr at the end of a block and in the middle
of one, both after short ones too. Two threads are a
handler and a waiter, who change roles as they finish; a closer makes a third. Four URBs
leave two in the middle, one before and one behind the one that ends early. R82xx's two
frequencies lie in different ranges of `freq_ranges`, use different inputs and dividers;
the filter is not the one of the initialisation; one failing call is enough, as the states it
leaves are followed by all sequences of calls.

Each passing run fires the actions of its module that its constants allow.
`LeftDirectSampling` is reached for both tuner types, `late` in RtlTcpSafety and `PlainStall` in
UsbfsUrbs, so that what they except does happen. `KeepRepeater`, `SentBeyond` and the
other operators commented "Mutant of" are plausible bugs: with one in its definition's
place the run that `PROJECT.json` names finds its property violated.

## 4. Fairness, and why the code justifies it

* Threads are scheduled and locks are released (`WF` of each thread's own steps).
  Calls with a timeout (`select`, `pthread_cond_timedwait`, libusb's events) return, so
  loops that poll get round to their tests.
* `WorkerTimeout` is strongly fair: there are finitely many captures in a behaviour, so
  a worker that waits again and again times out unless condition variables wake it
  without a cause for ever. `WorkerSendError` and `SendError` are strongly fair: TCP gives
  up on a connection that is gone, in the end. As long as the client is connected a `send()`
  that may block (`SendBlocks`: not on Windows) need not return, nor the socket take data, and
  nothing in the code bounds it: `ExitAnswered` says `<>[]Stalled` for that. With nothing
  taken `select()` times out, which is where a worker sees `do_exit` (`WorkerGivesUp`).
* In RtlTcp command_worker's `recv()` is fair once `do_exit` is set, when its `select()` times out
  each second. A command ends (`SF` of `CommandDispatch`: a callback on its thread may be in the
  way again and again, but there are finitely many), and so does a callback (`CallbackRuns`).
* `MainReturns` is strongly fair in RtlTcp because AsyncRead shows that a cancelled
  read returns. There it follows from weak fairness of the loop's steps; from each
  finished transfer being reaped; and from the leaving of one call of the event
  handling, which works on one snapshot. A discarded request finishes as cancelled
  unless it keeps completing just before its cancel for ever (`SF` of
  `FinishCancelled`). A thread of `Handlers` need not be scheduled: the reader, which does not
  wait for it, returns all the same.
* A tuner operation calls others finitely often (`SF` of the outer `Close`), and a mutex does
  not starve the control thread (`SF` of its `Lock`); nobody has to begin an operation.
* In AirspyTcp, RtlFm and StreamTools every thread goes on with the steps it can take; only
  the callback and the cancelled read's return rest on the device, as AsyncRead shows. No
  spurious wake-up and no signal is fair.
* In LibusbEvents mutexes are strongly fair. The kernel must answer a transfer that has no
  timeout; one that has may stay unanswered until its time is over. A wait is fair to end by
  itself only for the thread's own timeout: `Returns` does not rest on the 60 seconds after
  which `libusb_handle_events_completed()` looks again.
* In UsbfsUrbs only the library's own steps are fair: the device may never answer.
* Nothing makes the device deliver, a client connect, read or leave, a command come, or
  a fault happen.

`rtl_tcp.c` declares `LARGE_INTEGER`s at line 207 and so compiles on Windows only as it
stands; both orders of `sighandler()` and both rules for lost devices are modelled all
the same (`CancelFirst`, `ErrorLimit`), since the rest of the file and the library are
written for both.

## 5. What is proved

`RtlTcpProofs`, for every `LLBufNum`, either system and so either order of `sighandler()`, any lengths and
bounds:

* **TypeCorrect**, from `TypeInv`: TypeOK, a worker that sends has a buffer to send, and
  a callback that enqueues has one to enqueue.
* **QueueBounded**: N + 3 is inductive by itself once the list is a sequence, since the
  equality test is met before the limit is passed, whichever thread makes it.
* **SessionsDoNotOverlap**, from `SessionInv`, which says for each place of main which
  threads may be running and, until `late`, that the list is empty before they are.
* **AloneNeverLate**, from `RunnerInv`: a callback on main is inside the read, one on
  command_worker inside a command, so that both are over before the drain. Without the
  control thread nothing is ever late, and the three theorems that say "until a callback
  outlives its session" hold without exception.
* **StopsOnSignal**, from `SignalInv`: without a signal, `do_exit` is set only while a
  session's threads run or wait to be joined, and main takes it back after that.
* **OwnersDisjoint**, from `OwnerInv`, until `late`: besides the disjointness, the worker's
  buffers are older than the list's and the callback's new one is newer than both; without
  that order `Append` could not be shown to keep the list increasing.
* **StreamKept**, from `StreamInv`, until `late`: every buffer captured after the last one sent is
  with the callback, in the list, with the worker, or was dropped (`Covered`), and
  the next to be sent is ahead of it (`Ahead`).
* **CallsAsAPI**: until `rtlsdr_close()` has freed the device, every step of the server is a
  step of AsyncReadAPI or leaves it alone, `[][DevFreed \/ [Lib!Next]_(Lib!vars)]_vars`,
  callbacks on the other threads and after a read included (`HandlerLoses`). The
  exception is real: a handler that is still running then reads a status that is no longer
  the library's.

`AirspyTcpProofs`, for every `llbuf_num`, every length of a buffer and every bound:

* **TypeCorrect**, from `TypeInv`: TypeOK, and a worker that sends has a buffer.
* **QueueIsCounted**: count and limit are inductive together over the types; the count
  follows the list because appending, taking and draining change both under the mutex.
* **SessionsDoNotOverlap**, from `SessionInv`, as for RtlTcp, with one actor more: the
  Airspy's thread is inside the callback only while the device streams.
* **OwnersDisjoint**, from `OwnerInv`: the worker's buffer is older than the list's, and
  those are older than the callback's (`Ordered`, `Newest`); none was freed (`Alive`).
* **StreamKept**, from `StreamInv` (`Covered`, `Ahead`), as for RtlTcp: here a buffer that
  meets a full list is the newest one, and so the order needs `Newest` again.

`AsyncReadProofs`, for every number of transfers and of cancelers, any of which handle libusb's
events too, either system and every choice of faults. One invariant `IInv` gives both: the
status and the reader's place agree (`StatusInv`), and the reader has transfers left to reap
only while it handles events itself (`Polled`).

* **TypeCorrect**.
* **ImplementsAPISafely**: `Spec => API!Spec`. With **CallsAsAPI** it carries
  over to rtl_adsb and rtl_sdr, which make only steps of AsyncReadAPI, and to rtl_tcp for as
  long as its device is open. What is left to TLC
  of `ImplementsAPI` is its liveness.

`ResponseChannelProofs`, for every set of threads, every length of an operation and of a
report, and any number of clients. Of I2cRepeater by itself: **TypeCorrect**,
**MutualExclusion**, **RestsClosed** and **AlwaysHeard** (the transfers are heard, but for
those that a reset of the demodulator undid). The invariant `IInv` says that the mutex's depth
counts the operations its owner is inside of (`Counted`), how deep a thread can be at each
place (`Levels`), and that the repeater is open only for an owner that has not closed it
yet (`OpenFor`). Of the composition:

* **ImplementsRepeater** and **ImplementsControl**: each step of ResponseChannel is a step
  of I2cRepeater or leaves it alone, and likewise for ControlThread. So the four theorems
  hold with the response channel as one of the threads (**TunerShared**), and what follows
  need be proved of ControlThread only.
* **ControlTypeCorrect**; **SocketsClosed**, from `SocketInv`, which ties the open sockets to
  the thread's place; **ReportsWhole**, from `ReportInv`: between two pieces nothing but the
  rest of the same report is to be sent, and at the other places the last report is whole or
  belongs to a client that has gone.
* **ClosedUnderControlOnly**, from `LateInv`: what main frees while the control thread reads
  is touched by that thread alone: main closes the device (`rtl_tcp.c:743`) before it asks the
  thread to end and joins it (746-748), but after the workers are joined.

`LibusbEventsProofs`, for every set of threads and any number of transfers and closes:

* **TypeCorrect**, from `TypeInv`: the events lock is held by exactly the thread at a place
  of the event handling (`EventsOK`), which no part of the state says by itself.
* **WaitersAreWoken**, from `WaitInv`: `event_handler_active` is raised only while the
  events lock is held (`ActiveInv`), so a thread that saw it before it waits saw an owner who
  has still to wake the waiters.
* **TimeoutsAreReported** and **TransfersAlive**, from `XferInv`: a transfer flies from its
  submission to its callback (`Life`), whoever works on one finds it before its callback and
  the handler has reaped it (`Work`), a cancelled transfer is marked or about to be, under the
  lock (`Marked`), and is reported accordingly (`Reported`).

`UsbfsUrbsProofs`, for every number of URBs and packets, with and without bulk continuation, and
stalls in either:

* **TypeCorrect** and **LastUrbFirst**, from `UrbsInv`: URBs are filled one after the other
  (`UrbInv`), those that are queued are an interval, and retired, reaped and queued ones
  add up to all (`CountInv`); they come back in order until a discard disturbs it, and
  then the transfer is going to be reported as cancelled (`OrderInv`). After a stall without
  continuation the order is lost while `reap_action` is still NORMAL, and with it the count of
  what is still to be reaped, which `PlainStall` excepts. The halted endpoint keeps the rest of
  the argument: what is queued is discarded at once, and no URB that is left holds data
  (`StallInv`).
* **NothingIsLost**, from `DataInv`: what an URB holds that is not retired is one run of the
  stream (`Runs`), the runs follow what is in place without a gap (`NoGap`), and there is
  room for what comes (`Room`), so that a surplus is moved down over no other one.
* **StatusIsRight**, from `ResultInv` and `StatusInv`: each status has an URB as its reason
  (`Reasons`), and until the transfer is disturbed an URB is discarded only behind one that
  ended early (`Behind`).

`PipelineProofs`. Of rtl_adsb and rtl_sdr, for every length of a block and every count:

* **TypeCorrect**; **FreedLast**, from `ThreadInv`, which says for each program where there is
  a demodulator and that it is between test and store of a cancel only at that place.
* **RecordingWhole**, from `FileInv`: what is at hand follows what is in the file (`Filled`), and
  what is left of -n runs out only with `do_exit`, or with a block that ends where -n does
  (`Remaining`, `onEnd`). Blocks may be of any length up to the whole.
* **CallsAsAPI**: `Spec => Lib!Spec`, the safety of AsyncReadAPI.

Of rtl_fm: **FmTypeCorrect**, where the squelch's counter passes its limit only between a block
and the decision about it (`FmCountsOK`).

`TunerProofs`. Of RtlDevice, for all frequencies, rates, bandwidths and crystals, both kinds
of tuner and every threshold:

* **DeviceTypeCorrect**, **TunedAsReported** and **ClockIsCurrent**, from `Wired` and `Tuned`.
  `Wired` holds between any two calls, and inside them: in the tuner's mode the IF in the
  demodulator is the driver's, an R82xx has no offset, an E4000 no sideband, and the driver
  knows its clock. `Tuned` is what a setter that programs a frequency leaves: LO and offset
  add up to it, computed from the clock. Each setter preserves the first and re-establishes
  the second, or leaves alone what it reads; but for `NewRtlCrystal`, after which the IF's
  clock in direct sampling is not known to be the current one (`Tuned(d, FALSE)`) until one of
  the steps that `ClockCurrent` names. Two of the assumptions carry the argument:
  half a sample rate and every IF are below what a tuner tunes to. Where that fails, a
  change of the offset leaves `freq` behind what is tuned.

Of R82xx, for all frequencies below 2^32 Hz, all bandwidths, crystals from 8 to 68 MHz (in
which nint stays a byte), any width of `sdm`, with and without calibration, and any number of
calls in which a transfer fails:

* **ShadowTypeCorrect**, **FailuresReceive** (`Receives`) and **FailuresKeepPath** (`PathFits`),
  from `Ready`. Its parts are `Shadowed`, that the shadow holds what the driver's own fields say
  (input, filter, sideband), whether or not it reached the chip, and `Programmed`, that after
  a tuning that was reported the shadow is that frequency's and the registers which are
  written whole reached the chip. The shadow is what makes it inductive: a call that fails
  leaves the chip behind, and the next one writes only what differs from the shadow, so the
  chip by itself satisfies no invariant. The arithmetic is in lemmas: the divider that is
  chosen is the least that lifts the LO to the VCO's range, and no shift wraps before it
  (`LeastDivider`); splitting the rounded quotient into nint and `sdm` loses nothing, so
  the error is at most half a step (`Rounded`); frequency plus IF stays below 2^32 Hz
  whenever the PLL accepts it (`LoIs`).

The assumptions are the `ConstantsAssumption` of each module, which TLC evaluates in
each run. No theorem has a hypothesis besides.

## 6. What is only model-checked

* Liveness, which needs fairness and ENABLED, out of the proof system's reach: ExitAnswered
  (of both servers, and for rtl_tcp on both systems), ClientGoneEndsSession, the second half of
  ImplementsAPI, ReadReturns, EndsUnlessIdle, SlotsServed, ExitCompletes, HopAnswered, Ends,
  BlockSeen, Returns and Reported.

No safety property that a passing run checks is left to TLC alone.

## 7. What is not modelled, and why

Signal processing, decoding, parsing of options, printing, files: pure functions or
pure input and output. Gains, AGC, test mode, bias tee and the filter's coefficients:
setters of one register without a relation to another, and so are the R82xx's gains and
its measurement of the signal's strength. Failures of single transfers in the setters that do
not reach the R82xx, and the other tuners (E4000, FC0012, FC0013, FC2580): drivers of the
same kind. EEPROM and infrared: sequences of transfers of one
thread. What happens when a thread uses a device that was freed: the order that leads
there is in ResponseChannel, its outcome is not. The tools `rtl_power`, `rtl_test`,
`rtl_eeprom`, `rtl_ir` and `rtl_biast`: one thread each. `rtl_udp`: rtl_tcp's threads over
datagrams. Of libusb: hotplug, device discovery, descriptors, isochronous transfers and the
other systems' backends, which are most of its lines and none of this project's own.

## 8. Plan

Done: all modules of section 2; every safety property that a passing run checks is a theorem.

Theorems that could follow: that a step of R82xx in which nothing fails is one of RtlDevice, which
needs the two to agree on units and on what a failed call reports; AsyncReadAPI for rtl_fm.

A module that could follow: the dividers and filters of the E4000, in the manner of R82xx.
