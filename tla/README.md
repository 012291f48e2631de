# HorrorScope: a TLA+ development

HorrorScope is a five-euro oscilloscope and glitcher: XMEGA firmware that
samples a target's supply on a trigger (or pulls it down for a few clocks),
Python scripts that drive it over USB, and an Arduino target that runs AES.

`FW` below stands for `src/scope/lufa-LUFA-170418/Projects/HorrorScope`, `LUFA`
for `src/scope/lufa-LUFA-170418/LUFA/Drivers`.

## 1. The system

| part | state it keeps | operations | who it talks to |
|---|---|---|---|
| trigger wait (`FW/trigger.c`) | TCD0, DMA channel 1, the PORTA flag | `trigger_init`, `trigger_wait` | the main loop calls it; pin edges, DMA and timer run beside it |
| acquisition (`FW/dmaadc.c`, `FW/adc.c`) | DMA channel 0, ADC registers, `scopeBuf` | `dmaadc_init`, `dmaadc_read_buf_ch0`, `adc_*` | the main loop; the free-running ADC |
| glitcher (`FW/hires_glitch.c`) | TCC2 | `hires_*` | the main loop |
| command loop (`FW/HorrorScope.c`) | timeout, delay, numberOfSamples, glitch_length, bits12, pulses, power | one command character per iteration | all of the above, the host |
| USB serial (`FW/usb_serial.c`) | ring buffer, ok_to_send | get/put char, short, buf, string; DTR event | LUFA CDC driver |
| LUFA CDC and device core (`LUFA/USB`) | device state, line state, endpoint FIFOs, selected endpoint | control requests, ISR, SendByte, SendData, Flush, ReceiveByte | the USB host |
| ring buffer (`LUFA/Misc/RingBuffer.h`) | In, Out, Count | Insert, Remove, Peek, IsEmpty, IsFull | USB serial |
| scope driver (`src/acq/scope.py`, `src/fi/scope.py`, identical) | numSamples, twelveBit and the other settings, the port | reconnect, _testScope, set*, arm, waitForCompletion, getSamples, glitchArm, waitForGlitcher | the firmware, the scripts |
| acquisition script (`src/acq/runSetup.py`), GUI (`src/acq/gui.py`) | loop counters | arm, trigger the target, fetch, store | scope driver, target, trace file |
| glitch script (`src/fi/runSetup.py`) | mutesInARow | arm, trigger, classify, reset | scope driver, target |
| trace file (`src/acq/Trace.py`) | header fields, number of traces, the file | new, addTrace, getTrace, open, close | acquisition scripts |
| target (`src/toe-arduino`) | none between commands | `t`, `a` | the scripts, the trigger pin |
| AES (`src/toe-arduino/sketch_slowAes/aes.c`) | state array, key schedule | cipher, inv_cipher, key_expansion | target |

What makes the parts hard: the trigger wait shares the timer with a DMA channel
that any edge can set off; the sample DMA runs on after the function that
started it returns; the command loop is a byte stream protocol without framing,
so a late reply or a half-read command shifts everything after it; the USB
layer drops bytes silently whenever the host is not listening.

## 2. The modules

| module | models | built on |
|---|---|---|
| `TriggerWait` | what a caller of `trigger_wait` may rely on | |
| `Trigger` | `trigger.c` register by register, pin edge, DMA channel 1, timer TCD0 | implements `TriggerWait` |
| `Dmaadc` | `dmaadc.c`, DMA channel 0, the free-running ADC, `scopeBuf` | |
| `HiresGlitch` | `hires_glitch.c` and the pulse loop of command `h`, timer TCC2 | |
| `HorrorScope` | `main` of `HorrorScope.c`, with the serial line as queues | `TriggerWait`, `Dmaadc` |
| `Scope` | the driver `scope.py` and the loop of `acq/runSetup.py` | `HorrorScope` |
| `GuiScript` | the window `acq/gui.py` | `Scope` |
| `GlitchScript` | `fi/runSetup.py` and the glitch methods of the driver | `Scope` |
| `Scripts` | a device with one of the three programs | `GuiScript`, `GlitchScript` |
| `TraceSet` | `acq/Trace.py` | |
| `AES` | `aes.c` as operators, and FIPS 197's definitions beside them | |
| `Target` | `sketch_slowAes.ino` and the side of `acq/runSetup.py` that talks to it | `AES` |
| `ByteQueue` | what a user of the ring buffer may rely on | |
| `RingBuffer` | `RingBuffer.h`, an inserting and a removing thread | implements `ByteQueue` |
| `UsbControl` | LUFA's device core: `USB_DeviceTask`, standard and CDC requests, the bus event interrupt | |
| `UsbSerial` | `usb_serial.c` and the data path of LUFA's CDC driver | `UsbControl`, `RingBuffer` |
| `UsbLine` | the firmware's end of the line with a host on the bus | `UsbSerial` |
| `HorrorScopeInvariant`, `ScriptsInvariant` | the inductive invariants of the firmware, and of the firmware with a program | `HorrorScope`, `Scripts` |
| `TriggerProofs`, `DmaadcProofs`, `HiresGlitchProofs`, `TraceSetProofs`, `RingBufferProofs` | proofs of one component each | |
| `HorrorScopeProofs` | the firmware alone | `HorrorScopeInvariant` |
| `ScriptsHostProofs` | the steps of the programs preserve the invariant | `ScriptsInvariant` |
| `ScriptsProofs` | the steps of the device do, and what follows | `ScriptsHostProofs`, `HorrorScopeProofs` |

`MC*` modules give the constants their small values. Definitions whose comment
begins with "Variant:" are plausible mistakes in the definition that follows
them; each is there because a property notices it.

**Trigger.** `pc` is the register access of `trigger_wait` that comes next; one
action per access. `Edge` sets the pin flag and, if channel 1 is armed, requests
a transfer; `DmaTransfer` starts the timer and disables the channel; `Tick` is a
timer clock. `DmaReset` and `TriggerInit` are command `8`.

**Dmaadc.** `apc` is the place in `dmaadc_read_buf_ch0`. A byte of `scopeBuf` is
what the properties tell apart: start-up pattern, zero, a sample of this
acquisition, a sample of an earlier one. `Convert` moves one burst, and sets the
destination back with the last one of a block.

**HiresGlitch.** One action per access of TCC2; `Tick` counts down. `width`,
`ended` and `made` record the pulses.

**HorrorScope.** `GetCommand` and `GetArgument` read bytes, one action per
command executes it; `d`, `f` and `h` go through `Prepare`, `Ready`,
`WaitReturn` and `Reply`, `s` through `FetchByte`. Bytes from the host are
numbers, so a byte read in the wrong place is taken for what it is. Bytes to the
host are named; the two error messages are one byte, "text". The host opens and
closes the port at any time (`HostDtr`).

**Scope, GuiScript, GlitchScript, Scripts.** `hpc` is the place in the program.
`Expire` is a read that times out. A behaviour has `prompt` set or not: without
it a read may expire whenever nothing has arrived, so replies can be as late as
they like (a program with more than six samples is then outside what is shown of
the line); with it only while the device waits for a trigger or for the host, or
hangs. The device may start with a half-read command. `shot` in `GlitchScript`
records what the last glitch was made with.

**TraceSet.** The steps of `addTrace` with the file object's buffer, `Interrupt`
and `Kill` at any point, and `Open`. A file is a sequence of bytes that know which
trace and field they are of; `getTrace` reads at a trace's number times its size.

**AES, Target.** `AES` has one operator per function of `aes.c`, its tables
included. `Target` runs the sketch: `ReadCommand`, `ReadData`, `ReadNewline` and
one `CipherRound` per round. The script (`Test`, `Tested`, `Ask`, `Arm`,
`GetResponse`, `Save`) may raise at every place where the scope can fail.

**RingBuffer.** `Insert` and `Remove` are calls; the byte, the pointer and the
count are changed in steps of their own (`Store`, `AdvanceIn`, `CountUp`; `Load`,
`AdvanceOut`, `CountDown`), so that the two threads interleave. The count is
changed with interrupts off, in one step. `queue` is the refinement mapping to
`ByteQueue`. The firmware inserts and removes in one thread and its buffer never
holds two bytes, so there is no run with two threads: that the buffer is a queue
is proved (section 5).

**UsbControl, UsbSerial, UsbLine.** `pc` is the operation of the endpoint driver
that the main program does next. All code works on the selected endpoint `sel`,
and the interrupt for a bus reset leaves endpoint 0 selected, so what follows may
read, write and clear the wrong endpoint; the model lets it. A request is its
name, a packet its part in the transfer. `UsbLine` adds the host: it enumerates
the device, opens the port, moves packets and closes the port (`Script`), and
begins anew with an idle bus and a reset when a transfer fails (`GiveUp`,
`PortReset`). Faults are a request begun anew (`Abort`) or one that overtakes the
device, a reset (`BusReset`), a host that goes away (`GoIdle`) and a suspend with
its resume (`Sleep`, `Wake`). Bytes are numbered modulo `Mod`; `wants`, `stale`,
`hears` and `old` are the books of what each side should receive next.

## 3. The runs

| run | bounds | shows |
|---|---|---|
| `trigger` | timeouts 0-2, delays 0 and 2, timer modulo 4 | a caught trigger was an edge of this wait and the delay ran in full; the poll budget never passes zero; a caught wait leaves the hardware quiet; refinement of `TriggerWait`; every wait returns, unless an edge fell into lines 46-48 |
| `dmaadc` | buffer of 3 bytes, TRFCNT modulo 6 | a block of at least one byte, programmed on an idle channel, stays in the buffer and fills it exactly; the read returns unless the block ended first. Blocks of length 0, which the firmware accepts, and blocks that overlap the one before are states of the run and excluded from these claims |
| `hires_glitch` | counter modulo 4, up to 3 pulses | width and number of pulses; the train ends |
| `horrorscope` | buffer of 2 bytes, line of 1 byte, argument bytes 0 and 1; a host that sends d s n 8 f h and a wrong one, or all the others with two settings changed at most | settings keep their widths; a completed acquisition of at least one byte, armed on an idle channel, is fetched whole (length 0 and overlapping acquisitions are excluded as in `dmaadc`); the loop uses `Dmaadc` as specified; every command ends, unless it waits for a trigger or hangs in the spin loop of the acquisition |
| `scope` | buffer of 2 bytes, 2 bytes to the program and 4 from it on the way, three forms, two glitches | line and settings are in step between attempts, with a prompt device and, for six samples at most, however late replies come; with a prompt device reconnect always succeeds and the script survives, a counted glitch was one and the target has power when an attempt starts; every glitch attempt ends |
| `target` | keys of 16, 24 and 32 bytes, two inputs, a sketch that has just started, or has 0, 14 or 16 bytes of an earlier encryption | every saved trace has the published encryption of its own input; `sub_bytes` and `mix_columns` do what FIPS 197 says on every state met; `inv_cipher` undoes every round; `testTarget` gets the sketch back |
| `traceset` | 4 calls, 1 byte of title and data, 2 of samples, wrong titles and data included | `getTrace` returns every counted trace, and closed files open; traces and files behind a title that a refused trace left are excluded |
| `usb_serial` | three byte values, endpoints of 3 bytes, a ring of 1 (it never holds more), puts of up to 3 bytes, packets of up to 2, one fault | in an undisturbed session nothing is lost, repeated, overwritten or left behind in either direction; the device agrees with a host that has the port open; puts end; the host always gets to open the port |

The bounds are enough for the interesting cases: timeouts of zero, one and more;
delays shorter and longer than the set-up; odd and even lengths, zero and full
buffers in both modes; a block that overlaps the next command; several
outstanding `t`s; a refused number of samples; a refused trace between two good
ones; a put that needs two packets; a fault between any two operations of the
endpoint driver. Two faults in one behaviour are not in the run.
The host of `horrorscope` does not mix acquisitions with changes of the other
settings: at this level neither looks at the other (`trigger` and `hires_glitch`
have what the settings do, `scope` mixes them).

Deadlock is not checked where the system may stop: `dmaadc` (the spin loop can
hang), `scope` (a script can end, the device can hang) and `traceset` (the file
is read, and that is all).

Four runs are expected to fail; each states what a comment says.

| run | comment | what happens |
|---|---|---|
| `trigger_dma_started_timer` | `trigger.c:60` | an edge between lines 46 and 48 raises the flag without a transfer |
| `trigger_timer_off_after_timeout` | `trigger.c:56` | line 53 disarms channel 2, so channel 1 restarts the timer |
| `dmaadc_finished` | `dmaadc.c:56` | the loop waits for ENABLE to be set, and it is |
| `traceset_sizes` | `Trace.py:332` | the number of samples is not compared |

Without a run of their own:

- Command `f` answers `d` after a timeout and `e` after a trigger, the reverse of
  its comment (`HorrorScope.c:141`); `Result` has it so.
- `adc_ch_gain` ORs the new gain to the one before (`adc.c:239`; its comment,
  `adc.c:222`, says it sets it); `SetGain` has it so, and `SettingsAgree` leaves
  the gain out.
- `CountedIsGlitched` needs a device that answers in time: a reply later than the
  driver's timeout may acknowledge the next setting. It is stated for lengths up
  to 255, since `glitch_length` is a `uint8_t` that takes the low byte of what
  `setGlitchLength` sends. Once one reply behind, the glitch script takes every
  attempt for a timeout, and an exception inside its own handler ends it.
- `InStep` and `SettingsAgree` are stated for a device that answers in time, or
  for at most six samples (`Trusted`). A fetch that comes after its timeout is
  read by the reconnect that follows, and more samples than that, if each happens
  to look like the reply that is due, can answer all of it.
- `PoweredWhenStarted` needs a device that answers in time, too: one that is late
  again and again can be five commands behind, and the attempt then starts a
  target whose power is still to be switched off.
- A trace whose data has the wrong size is refused after its title was written
  (`Trace.py:336`). The title reaches the file with the next trace, and `getTrace`
  returns other bytes for that trace and all that follow; `open` takes what is
  left over at the end for tags. `acq/runSetup.py` has empty titles and does not
  meet it. `CountedIsReadable` and `ClosedFileOpens` exclude it.
- `getTrace` makes numbers of the data bytes with `ord` (`Trace.py:288`), as Python
  2 needs it. The model has one name for a byte and its number.
- `testTarget` compares with exactly `T\r\n`, but since it reads up to 100 bytes,
  any answer at all would leave sketch and line in step.
- A suspend in the middle of a put loses the rest of it silently: `SendByte` and
  `SendData` return an error that `usb_serial.c` does not look at. `ok_to_send`
  survives a bus reset, so a put may wait until the host opens the port again.

## 4. Fairness

Nothing makes an edge come, a user click or a fault happen.

- Firmware (`Trigger`, `Dmaadc`, `HiresGlitch`, `HorrorScope`): the CPU keeps
  running, timers and ADC are stopped only by the registers in the model, a
  granted DMA request is served. `HorrorScope` adds that an open host reads what
  it is sent, and does not assume that a trigger wait returns: `Trigger` shows
  that it may last for ever when an edge is lost between lines 46 and 48.
- `Scripts`: the Python program runs, the ADC converts, and the firmware runs
  except in a trigger wait, as in `HorrorScope`.
- `Target`: the sketch runs unless it waits for a byte, and the script runs.
- `UsbLine`: the main program moves unless it waits for the host. The host resets
  a bus it left idle, goes on with a transfer, gives up a failed one, reads the
  packets the device offers, wakes a sleeping device, and opens the port again.
  It need not send data or close the port.

## 5. The proofs

Checked by TLAPS for every value of the constants that satisfies the named
assumptions (counter moduli, a buffer that is not empty and is smaller than the
count register, at least one pulse).

`TriggerProofs`. `IInv` adds to the types: a pending transfer means the channel
is still armed (`PendingIsArmed`); PER holds the delay after line 38
(`PerIsDelay`); a wait entered with the channel disarmed keeps timer and flags
untouched until it arms (`SetupUndisturbed`); from then on the counter never
runs ahead of the clocks since the edge (`CountsFromEdge`); the flag means an
edge of this wait (`FlagMeansEdge`); until the transfer the channel is armed,
after it the timer runs (`ArmedOrRunning`); one transfer per wait
(`OneTransfer`). The delay property is not inductive because it speaks of the
end of the wait only; `CountsFromEdge` carries it through. Theorems:
`TypeCorrect`, `DelayIsHonoured`, `SpinningIsServed`, `CaughtIsQuiet` and the
refinement `TriggerImplements`.

`DmaadcProofs`. `IInv` adds that no byte is new before the channel is enabled
(`NothingNew`), that the registers hold the block while it is being programmed
(`Programmed`) and that bytes moved plus bytes left are the length
(`Progress`). The last two hold for blocks of at least one byte programmed on an
idle channel, and so do the theorems on the buffer. Theorems: `TypeCorrect`, `TransfersFit`, `BufferIsFilled`.

`HiresGlitchProofs`. `IInv` adds what the registers hold at each place
(`Registers`), that counter and width move together while a pulse lasts
(`Counting`) and that pulses made are rounds done (`Counted`). Theorems:
`TypeCorrect`, `PulseWidthAlways`, `PulseCountAlways`.

`HorrorScopeProofs`. `IInv` says that a command's bytes are read in place and
that the settings are in range: the number of samples above all, which is why
arming is always a step of `Dmaadc`. `FirmwareUsesDmaadc` is that refinement, and
`DmaadcProofs` applied through it gives `FirmwareStaysInBuffer` (every byte a
conversion writes is one of `scopeBuf`, under the two conditions of `DmaadcProofs`)
and `FirmwareFillsBuffer`. `FInv` adds what the fetch needs: bytes on the line are
bytes that are sent (`Line`), an acquisition is under way only inside command `d`
(`Places`), and a buffer recorded as intact was filled with the settings that
still hold (`Intact`).
Theorems: `FetchedAreSampled`, `FirmwareTypes`.

`ScriptsHostProofs`, `ScriptsProofs`. What the properties say of a driver that
rests depends on everything before it: which commands and replies are still
under way, and what the device will have made of them. `Inv` (in
`ScriptsInvariant`) says it for every place of the three programs, in terms of
one notion: `After(o, w)`, the replies `o` are on their way to the program and
the device has the bytes `w` to work through, wherever in its command loop it is.
A command that is owed its reply is `Owe1` (up to four of them `Owe4`), one that
waits for a trigger `Waits` and `Answers`. The parts of `Inv`:

- `Base`: types of both sides, with the invariants of the firmware.
- `Reconnection`: in `_testScope` the device is `Lost`, in one of four ways
  (it answers `t`s, swallows them as arguments, acquires, or sends samples); once
  exactly one `T` was read it is idle, or a further `T` comes before any other
  reply (`Behind`), which then makes the setters fail. With late replies samples
  may come before that `T`, fewer with every setter; hence `Trusted`.
- `Acquisition`: in an attempt the settings agree and the conversation of `d` or
  `s` is where the program is.
- `Glitches`: for every place of the glitch script, which replies it can be
  behind. With a prompt device it is one command behind at most when it
  arms, and the check of the `r` finds that out.

`ProgramKeeps` takes the steps of the programs, `DeviceKeeps` those of the device
(both are one case per action and place), `SameKeeps` the stuttering steps. The
proofs need no bound on the line, the settings, the forms or the attempts.
`ReconnectSurvives` assumes that the number of samples the object was made with
fits the buffer: the scripts use 2500, 1500 and 3500 of 3584.
Theorems: `LineIsInStep`,
`SettingsAlwaysAgree`, `ReconnectSurvives`, `CountedAreGlitched`,
`StartedArePowered`.

`TraceSetProofs`. `IInv` says what is on disk and in the buffer at each step of
`addTrace`, as offsets in units of the field sizes. Record number times size is
not linear, so the lemmas on `Cardinality` and on products come first. The theorems
`CountedTracesAreReadable` and `ClosedFilesOpen` assume `ExactSamples`, that
every trace has the declared number of samples; run `traceset_sizes` shows why.
Where a trace starts depends on the titles that refused traces left before it;
where there are none, that is where `getTrace` looks.

`RingBufferProofs`. `Inv` relates the two pointers to what the buffer holds, case
by case of where each thread is: `In` is `Out` plus the bytes held, one further
between moving the pointer and counting; a thread inside a call still has the
room or the byte it was called for. Theorems: `InvAlways`, `ImplementsQueue`. The
firmware inserts and removes from one thread; the header also promises two, and
that is what is proved, for every size.

Only model-checked: all liveness (the proof system does not do fairness), `AES`
and `Target` (recursive functions and bit operations, which the provers cannot
reason about), `UsbControl`, `UsbSerial` and `UsbLine`.

## 6. Limits

From outside the repository: how the XMEGA's peripherals, USB hosts, pyserial and
Python's files behave follows general knowledge of them, not a document here, and
the definitions that model them are marked external. In particular, a SETUP
undoes an IN packet that waits at the control endpoint. If it did not, the status
of an aborted request would be taken for that of the next, and `SessionAgrees`
would fail. The outputs of NIST SP 800-38A and the definitions of FIPS 197 were
written down without a copy at hand; `aes.c` and they agree.

Simplified:

- An operation of `Endpoint_XMEGA.c` is one step (the configuration of an
  endpoint, too), and so is the set-up of a
  trigger wait in `HorrorScope`, a few instructions after the `r` has left.
- `HorrorScope` has queues for the USB line; `UsbLine` shows what they are in an
  undisturbed session. That `UsbLine` implements them is not stated as a
  refinement: a bus reset loses bytes, and the queues lose them only when the
  port closes.
- The host of `UsbLine` sends the requests of an enumeration and of opening and
  closing the port. GetStatus, SetFeature, ClearFeature and SendBreak are not
  driven by it. A header that is misread matches no request. The host asks for no
  descriptor or configuration the device does not have (`DeviceStandardReq.c` lines
  145 and 257-266): refusing one would take the path of a misread header.
- `put_buf` leaves room in every bank, so a full one, and the empty packet that
  `Flush` sends after it, occur only after a suspend. No property is about them.
- In `Scripts` the line towards the device has room for four bytes. With less, a
  write of the program would block on a device that hangs.
- `GuiScript` leaves out widgets and plots. `TraceSet` leaves out the encoding of
  tags and the choice of a free name.

Not modelled: the one-time hardware set-up before the loop and the USART greeting
(a register access per call), descriptors (tables), `TraceView.py`, `plotLog.py`,
`parseLog.py` and `runTest.py` (nothing outlives a call), `sketch_oct23a`, LUFA
functions the firmware never calls, and the PCB files. Most of the lines under
`src/` are the rest of the LUFA distribution: other architectures, host mode,
other device classes, bootloaders and demos. None of it is compiled into the
firmware, so a model of it would say nothing about HorrorScope, and the modules
cover a small share of the lines for that reason.
