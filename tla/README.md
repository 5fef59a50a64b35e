# A TLA+ development of the Azure Sphere Altair 8800 emulator

This directory models the concurrent and storage parts of the emulator in
`src/`, checks them with TLC on small instances and proves the central results
with TLAPS for every size. The code is the reference: every definition names
the lines it stands for in `PROJECT.json` ("map").

## 1. The system

An Azure Sphere MT3620 runs an emulated Altair 8800. Its high-level core (A7)
runs the emulator, its two real-time cores (M4) serve a disk cache or an SD
card, and a Python program elsewhere serves a disk image over MQTT.

| Component | State it keeps | Operations | Talks to |
|---|---|---|---|
| Intel 8080 CPU (`Altair8800/intel8080.c`, `memory.c`) | registers, flags, 64 KB memory, buses | one instruction per `i8080_cycle`, examine, deposit | disk controller, terminal, sphere ports (function pointers) |
| 88-DCDD controller (`Altair8800/88dcdd.c` 158-397) | per drive: track, sector, status, one sector buffer and whether it is dirty or filled | `disk_select`, `disk_status`, `disk_function`, `sector`, `disk_read`, `disk_write` | file of drive 0, virtual disk, SD service |
| Virtual disk client (`88dcdd.c` 32-156) | `sector_requested`, `vdisk_sector`, a mutex and a condition variable | `read_virtual_sector`, `write_virtual_sector`, `vdisk_mqtt_response_cb` | M4 cache (mailbox), disk server (MQTT) |
| MQTT client (`comms_manager_wolf.c`) | `mqtt_connected`, `got_disconnected`, output buffer, `dirty_buffer`, `send_messages`, `send_ping` | connect, subscribe, wait for messages, publish, ping | broker; calls `handle_inbound_message` |
| Terminal, inbound messages (`main.c` 293-382, 526-587) | input message and index, pending control character, loaded program | take a message, hand characters to the CPU | MQTT thread waits for the CPU thread |
| Threads and control panel (`main.c` 589-767, `FrontPanels/`) | `cpu_operating_mode`, `cmd_switches`, `bus_switches`, `click_4x4_key_mode` | run, stop, single step, examine, deposit, Button A | event loop, MQTT thread, CPU thread |
| M4 disk cache (`AltairRT_disk_cache_server`) | hash table of sectors in insertion order, `blockDeqSema` | read, write, prune, mailbox interrupt | A7 mailbox |
| M4 SD service (`AltairRT_sd_card_service`) | callback list, mailbox rings, `num_retries`, card | open the card, read and write a block | A7 mailbox, SPI |
| SD formatters (`AltairHL_sd_card_format_drive_*`) | `sector_number`, whether the verification passed | write an image, verify it | SD service |
| Python disk server (`PyDiskSvr.py`) | image and dirty flag per channel | `on_message`, `save_disk` | broker, files |
| Lamps, telemetry, weather, storage | small | periodic I/O | - |

Three threads run on the A7: the event loop (timers, device twins, panel), the
CPU thread and the MQTT thread. They share plain globals; only the virtual
disk's `lock`/`cond1` and the terminal's `wait_message_processed_*` are
synchronised.

What is hard, and what each part should guarantee:

* *Virtual disk*: the CPU thread gives up after 1 ms on the cache and after 8 s
  on the server, and answers arrive late, twice removed from the request, or
  never. A read must return the sector asked for, with the content last
  written; it must end; the partly unlocked handshake must not race.
* *Disk controller*: one buffer per drive stands for the sector under the head.
  What is written must be flushed where it was written before the head moves;
  what is read must come from under the head.
* *M4 cache*: bounded by the heap, current, evicting the oldest; every message
  handled although its interrupt counter wraps.
* *MQTT connection*: the two flags that decide on reconnecting are written by
  two threads in several steps; a lost connection must never be forgotten, and
  what the guest prints must not stay in the buffer.
* *Terminal*: every character is delivered once, and the MQTT thread is always
  woken (`main.c:341` waits without a predicate).
* *Control panel*: three threads share the mode and the switches without a
  lock, and a command is several accesses to them; what is entered on a stopped
  CPU must be in memory, and Button A must start the disk loader.
* *SD service*: rings that wrap around never overwrite unread data; no message
  is lost between interrupt and callback; an answer belongs to its request, on a
  card that fails and with an application that is restarted; what a formatter
  has verified is on the card.
* *Disk server*: a saved image is one the memory held; nothing acknowledged is
  lost by a crash. (Its files are not modelled, see section 5.)
* *8080*: sums, comparisons and flags agree with integer arithmetic, the stack
  with a stack, also around address 0; every instruction goes on behind itself.

`PROJECT.json` lists every hazard found, with its line and the properties that
cover it.

## 2. Modules

| Module | Models |
|---|---|
| `DiskCache` | `find_in_cache` and `add_to_cache` as operators on a sequence of entries, oldest insertion first |
| `CacheServer` | the M4 program: mailbox ring, latched interrupt, `blockDeqSema`, polling loop, message handler |
| `SectorStore` | abstract: a store with one client in which a read returns the last write |
| `VirtualDisk` | the client on the CPU and MQTT threads, composed with the M4 cache (over two mailbox rings) and the server (over MQTT) |
| `DiskDrive` | the 88-DCDD controller above it |
| `TerminalInput` | `handle_inbound_message` and `load_application` on the MQTT thread, `altair_read_terminal` and the 2SIO ports on each of the three threads that run the guest's instructions |
| `Alu8080` | `i8080_genadd`, `i8080_gensub` and the adjustment of `i8080_daa` as operators |
| `Intel8080` | `i8080_cycle` with every instruction, memory, flags and ports |
| `IntercoreSocket` | one mailbox ring in shared memory as operators: indices, alignment, wrapping around |
| `SdCard` | the SD card driver: for each function the set of its outcomes |
| `SdCardService` | the M4 SD service with its interrupts and callback list, composed with two rings, the card and the application on the A7, emulator or formatter |
| `MqttConnection` | `waitMessage_task`, the disconnect callback on two threads, output batching, the timer |
| `ControlPanel` | mode, switches and panels on the event loop, the MQTT thread and the CPU thread |
| `MC*` | constants for TLC |
| `DiskCacheProofs`, `CacheServerProofs`, `VirtualDiskProofs`, `DiskDriveProofs`, `TerminalInputProofs`, `Intel8080Proofs` (with `Alu8080`), `SdCardServiceProofs` (with `IntercoreSocket`), `SharedFlagsProofs` (`MqttConnection` and `ControlPanel`) | theorems |

Each component is a specification of its own, and where components meet, the
other side is either in the same specification (`VirtualDisk`: CPU thread, MQTT
thread, M4 cache and server; `SdCardService`: both cores and the card) or one
that may do anything its own module allows (a medium that fails in `DiskDrive`,
a guest in `TerminalInput`, a terminal in `Intel8080`). A definition whose
comment calls it a mutant is not part of the specification: it is a plausible
mistake in the definition that follows it, which the property it is paired with
in `PROJECT.json` rejects.

### DiskCache, CacheServer

uthash iterates in insertion order, so the table is a sequence.
`FindInCache` moves a hit to the end (lines 57-58), `AddToCache` overwrites in
place or appends, then prunes the head when the count *reaches*
`MAX_CACHE_ITEMS` (line 78), so that the table never holds more than one less.
A message is `A7Publish`ed, announced by a latched software interrupt
(`Interrupt`, `mbox_swint_cb`), and taken by `ProcessInbound` while
`blockDeqSema > 0`. Nothing decrements that u8, so it is taken modulo
`SEMA_VALUES`: 256 in the code, 4 in the run. `touched`, `clock` and `written`
are ghosts.

### VirtualDisk

`cpuPc` is the place in `read_virtual_sector`: `idle`, `cacheWait` (line 68),
`request` (126), `wait` (137), `waiting` (138), `check` (141), `copyOut` (142).
`mqttPc` is the place in `vdisk_mqtt_response_cb`: `matched` (85), `locking`
(88), `copyIn` (91), `signal` (94). Every unlocked access is a step of its own;
the copy out of `vdisk_sector` while the callback copies in may give the old
content, the new one or a mixture (`CopiedOut`). A sector and its byte offset
are one to one, because `diskPointer` is always a multiple of 137 and the track
a uint8, so both are the sector number. A sector's content is a stamp: the
sector it was written for, and which write of that sector it was.

Faults are switched on by the constant `Faults`:

| Fault | Meaning |
|---|---|
| `slowM4` | the cache's answer needs more than 1 ms, and its ring may be full; a late answer stays in the ring |
| `loss` | MQTT messages (QoS 0) are lost, the connection comes and goes |
| `lateReply` | an answer may need more than 8 s |
| `spurious` | `pthread_cond_timedwait` returns without a signal |

Without `slowM4` the M4 has drained its ring before the CPU publishes again
(`MailboxReady`). Channels are first in, first out: one mailbox ring, and one
TCP connection to the broker on either side. The server's image is taken to
hold every sector. `overlapped` is a ghost: a read began while the answer to an
earlier one was still on its way.

### DiskDrive

One action per handler; a control byte is a set of bits, handled in the code's
order (step in, step out, head, write enable) in one action, and a flush is
part of the step or `sector()` that causes it. Both values of
`SD_CARD_ENABLED` are initial states. Positions are sector numbers, as above.
Three `disk_t` exist: `disk1`, `disk2`, and `nodisk` for every other drive.
A read of the medium may fail and a write may be lost, as `VirtualDisk` shows
them to; a failed read of the virtual disk still sets `haveSectorData`, one of
the card does not.

The guest is any program that keeps to the controller's protocol (ghost
`phase`): it transfers bytes only after `sector()`, enables writing right
after it, writes while ENWD is shown (138 bytes), reads at most a sector, and
may stop or select another drive at any point. `sectorData` is two bytes longer
than a sector; a guest that ignores ENWD writes behind it, which the model does
not describe.

### TerminalInput

A message is a line (with or without a carriage return), a control character, a
LOAD command or the key of the CPU monitor. `mqttPc` is the place in
`handle_inbound_message`: `line` (330-337), `lock` (340), `waiting` (341),
`ctrl` and `pending` (345-347, 371-372), `monitor` (361), `command` (351), and in
`load_application`: `loading` (168-188), `filled` (190), `rewound` (191-192).

Three threads run the guest's instructions, and so `altair_read_terminal`
(`Readers`): the CPU thread while the CPU runs; the MQTT thread, when a line that
arrives while the CPU is stopped is the CPU monitor's single step (`main.c:351`,
600); and the event loop, which single-steps for the physical panels. For each
of them, `at[t]` is its place: `port` in `i8080_in`, then `entry` (531), `ctrl`
(533), `lines` (544), `lineEnd` (549), `signal` (552), `appEnd` (562), `free`
(564), `rewind` (565); `idle` while it reads no terminal. Any thread may be
stopped anywhere in between: the CPU thread stays inside when the mode changes,
and finishes its instruction. Taking the lock and waiting is one step, and so is
locking, signalling and unlocking: neither section touches anything else.

Nothing excludes that two of these threads are inside at the same time, and then
little holds: a single step made while the CPU thread publishes the last
character of a program (560), between the increment of `appLoadPtr` and its
comparison with the length, reads behind the program and passes the test for its
end for good. The ghost `raced` records that two were inside at once. The
properties of the module are claimed until then, that is of all sequences of
runs, stops and single steps on the three threads in which one finishes before
the next begins.

A character carries the place it was taken from, so that the ghosts `gotLine`
and `gotApp` can say what the guest was given. A byte that is NUL is no
character: `i8080_in` drops it. Behind a program's buffer, and in one that was
freed, any byte may be read; the ghost `overlapped` records that a program was
loaded before the last one was read to its end, of which nothing is claimed.
A file has at least two bytes (with fewer, the line ends of `load_application`
fall on its front ones).

### Alu8080, Intel8080

One action per instruction, named after its function, with the opcodes that
`i8080_cycle` dispatches to it; the 13 opcodes without a case, HLT among them,
leave `pc` (`NoCase`). Registers are numbered as in `op_codes.h`, the flags
register is the set of its bits, memory the function of its non-zero cells.
The two buses follow `i8080_mread` and `i8080_mwrite`; `cpuStatus`, which only
the panel shows, is left out. Port 1 and the 2SIO ports 16 and 17 take the
next character typed or none (`altair_read_terminal`, in detail in
`TerminalInput`) and hold one in `character`; other ports give any byte of
`PortBytes` (the disk controller's answers are those of `DiskDrive`). A boot is a state of registers
and memory that a guest can reach with a few loads, and a number of
instructions. Ghosts: `stack`, the words pushed while the stack pointer moves
by pushing and popping only; `typed`, the number of characters given, `received`,
those the guest has read, and `overtaken`, that it read one at port 1 past the
one held for port 17; `summed`, the operands of an addition just made, and
`long`, a sum or difference of several bytes as far as it has come.

Two facts the model brought up, which no document of the repository denies, and
which `DecimalDigitsRight` therefore states as they are. `i8080_daa` decides on
the tens from an 8-bit sum, so that 75 + 85 gives 00 and not 60 (binary sums of
250 to 255); and it adds with `i8080_genadd`, which replaces the carry of the
addition before, so that 90 + 90 gives 80 without the hundred.

### IntercoreSocket, SdCard, SdCardService

A ring is a record of two indices and a function from its bytes to what they
hold: a byte is modelled by the message it belongs to and its place in it, so
that a byte overwritten or read out of place shows. `AvailData` and `AvailSpace`
are the code's index arithmetic; `CanWrite` and `CanRead` are the early returns
of `Socket_Write` and `Socket_Read`, `SocketWrite` and `SocketRead` what they do
behind those. All payloads are one C structure, so there is one size of message.

`SdCard` has no state but the chip select line, which outlives a call: a burst
of clocks that goes wrong leaves the card deselected, and a deselected card
answers nothing; only the initialisation selects it again, so that every later
read and write fails. A function
is the set of its outcomes (a frame that times out though it was sent, any
response, a block torn by a write cut short). Errors of the wire are left out:
the driver checks no checksum and could not notice them.

In `SdCardService`, `m4` is the place of the main loop of the M4 core: the
initialisation of the card (`burst` to `csd`), the negotiation of the rings
(`negotiate`), the setup of interrupts (`setup`, `setCallback`: between the two
an interrupt calls a null `rx_cb`, `Socket.c:134`), then `sleep`, `wfi`,
`invoke`, `handle`, `receive`, the message type, `reply`. Interrupts
(`MsgAvailable`, `TimerExpires`) come between any two of these. `enqueued` and
`callbacks` are the flag of the one callback node and the list. The application
may stop at any time and be started again, when the kernel gives it new rings:
`descriptors` says that the FIFO holds them, `attached` that the M4 core has
read them, and `stale` are the requests it still finds in the old ones. The
application is the emulator, which reads and writes any sector in any order,
or a formatter (`format`), which writes the image and then reads every sector
back. Ghosts: `qM4` and `qA7`, the messages sent and not read; `slipped`, that
the application gave up on an answer which may still come; `kept`, what each
sector should hold.

### MqttConnection

`pc["mqtt"]` is the place in `waitMessage_task` and in what it calls, `pc["cpu"]`
the place in the turn of `altair_thread`. Both threads use the one `MqttClient`,
and either may run the disconnect callback, whose two assignments
(`comms_manager_wolf.c` 224-228) are the steps `error` and `noted`; `after` is
where a call of the client returns to. `Tick` is the timer on the event loop,
which raises `send_messages` and `send_ping`. The network breaks, is down,
comes back, and the broker refuses, times out or does not acknowledge, at any
step and at most `MaxFailures` times. The MQTT thread also runs the CPU monitor's
single steps, which may print or ask for a sector, and it hands lines over to the
CPU, within the message callback (`HandLine`): it is then at `handing` until the
CPU has read the line (`LineProcessed`). Four exceptions are named, because they
are real:

* `unsubscribed`: a subscription that fails on a working network leaves both
  flags false, and neither branch of the loop ever connects again
  (`comms_manager_wolf.c:388`).
* `handing`: the thread that reconnects waits for a line to be read
  (`main.c:340`), which may last while the CPU is stopped or the guest does not
  read its terminal, and for ever after a lost signal (finding 2 below). A
  connection that is lost meanwhile is not made again until the wait is over.
* `raced`: the CPU monitor single-steps the guest on the MQTT thread while the
  CPU thread is in the output buffer; a character then stays there until the
  next one.
* `Overtaken`: the MQTT thread closes the client and connects again while the
  CPU thread is still inside a call on it. Its error ends the new connection,
  which may happen again and again.

### ControlPanel

`at[t]` is where the thread `t` is: inside `process_control_panel_commands`
(`process`, `perform`, `stop`, `reset`), inside an instruction (`fetch`,
`execute`), or in the steps of Button A. Commands are sets of switches, because
`cmd_switches` is a byte of bits and STOP is tested as one (`main.c:627`). The
panel is one of three builds: the kit, whose switches are polled as they are;
the click panel, whose keys are commands or address bits; or none. An
instruction loads or stores or jumps, anywhere. Ghosts: `cursor`, the address
the user has examined, and `entered`, the bytes deposited while the CPU stood
still; `booting`, that Button A was pressed last; `overlap`, that two threads
are inside at once. Of overlapping threads nothing is claimed: a command can
then be lost or carried out twice, since nothing excludes it. Some consequences
the model shows, which no document denies: the kit's poll overwrites
switches typed into the web terminal; the click panel ignores STOP while the
CPU runs in its input mode; Button A pressed while the CPU thread is inside an
instruction may start the CPU elsewhere than at the loader.

## 3. Runs

| Run | Shows | Bounds |
|---|---|---|
| `cache_server` | the table is bounded (`CacheBounded`), current (`CacheCoherent`) and evicts the entry unused for longest (`OldestFirst`); no message lies in the ring unannounced before the counter can have wrapped (`NoneLeftEarly`); messages are handled (`RequestsAreServed`) | 3 sectors, table pruned at 3, so that every third insertion evicts; 5 messages, counter of 4 values, so that it wraps |
| `vdisk_no_faults` | the chain implements `SectorStore` (`ReadsReturnLastWrite`), no read fails | 2 sectors, a cache of one entry, rings of 2, 6 operations |
| `vdisk_every_fault` | `RightSector`, `NoDataRace`, `RequestNotClobbered`, `ReadTerminates` under all faults | the same, 3 operations: a write, and two reads that can overlap |
| `vdisk_late_reply` | a violation, see below | 2 operations, `lateReply` only |
| `disk_drive` | `StaysInBuffer`, `FlushedWhereWritten`, `CompleteWritesSurvive`, `ReadsSectorUnderHead`, `Track0IsTrack0` | 2 drives, 2-byte sectors, 2 tracks of 2 sectors, 2 sector writes, 13 calls: enough to write a sector twice and read it back with other calls in between |
| `terminal_input` | `LinesArrive`, `CrAfterLine`, `ImageArrives`, `ReadsOwnedMemory`, `LineIsRead` under every interleaving of the threads, while the CPU is stopped, single-stepped by either thread and started | 3 of 6 messages: lines of 0, 1 and 2 characters, one without a carriage return, a control character, the monitor key, a program of 3 bytes; 1 single step; behaviours are followed until two threads read at once (`UntilRaced`) |
| `terminal_lost_signal` | a violation, see below | the same |
| `terminal_truncated_load` | a violation, see below | the same |
| `intel8080` | `ArithmeticAgrees`, `NextInstruction` for every opcode; `CarryCarriesOver`, `DecimalDigitsRight`, `StackKeepsWords`, `TerminalDelivers` for guest programs of several | all 256 opcodes with operands of {0, 1, 15, 127, 128, 255}, at the end of memory, with all or no flags set; two-byte sums and differences of 8 × 8 numbers in a loop over `ADC` or `SBB` with `INX` and `DCR` in between; 100 × 9 decimal operands; all sequences of four stack instructions with a stack around address 0, up to 9 instructions; all sequences of five `IN` from the ports 1, 16 and 17; each opcode behind an addition and a subtraction |
| `sd_service` | `RingsHoldMessages`, `AnswersAreRight`, `VerifiedMeansWritten`, `RequestIsHeard`, `AnsweredUnlessMissed` with a failing card, interrupts at any point and an application that stops and starts | rings of 10 bytes in which two messages fit and the third wraps; 2 drives of 2 sectors; 2 requests and 2 starts of the emulator, 4 requests and 1 start of the formatter, of which two write and two verify; card loops of 2 turns, 1 retry |
| `mqtt_connection` | `DisconnectIsNoticed`, `OutputIsFlagged`, `OutputFits`, `Recovers`, `OutputLeaves` for every interleaving of the threads with the network's failures | 2 failures, a buffer of 2 characters, a ping at the second idle tick |
| `control_panel` | `ButtonStartsCpm`, `ProgramIsEntered` for the three builds of the panel | memory of 2 bytes of one bit; every command switch alone, none, and STOP with another |

An instruction of the 8080 reads at most two operands, and where its result
depends on more than carries between bits, on the flags: the operands are those
where carries, signs, halves and ends of memory change. Longer programs are
there for what passes from one instruction to the next: the carry through a
loop, words on the stack, a held character. `NextInstruction` compares the
code with the sizes the disassembler prints (`utils.c:90`).

The single step of `terminal_input` may come anywhere between the CPU thread's own
instructions. The constraint `UntilRaced` cuts off only what follows once two
threads were inside at once: `raced` stays set then, and every property of the
run but the type invariant has it as its exception. The type invariant is proved
without that restriction (section 4).

Three messages are a line, whatever may be left over from it, and one more to be
disturbed by it; a line of two characters has one read that ends it and one that
does not. Two sectors are enough for one to be taken for the other, and a cache of one
entry makes every change of sector an eviction. The properties compare a
sector with itself or with one other, and no guard counts sectors. The theorems
below remove the bounds for most of the safety properties.

Two failures of the connection are one and another while the first is being
repaired. Two requests of the emulator and two starts are enough for an answer
or a request to outlive the application that sent it; the application is not
started again before the descriptors of its rings are read, and not before the
card's initialisation is over, which takes no notice of it. Two addresses tell
the examined one from the next, and one bit a byte entered from one that was
not; the address switch is also the byte that is deposited, as in the code.

Deadlock is checked in `mqtt_connection` and `control_panel`. In the others it
is not: the guest or application need not use its disk, and the bounded
counters stop it.

**Fairness.** `CacheServer` assumes that a latched interrupt is taken and that
the polling loop, which never sleeps, runs. `VirtualDisk` (`FairSpec`) assumes
that the two threads, the M4 loop and the server keep running, and that the
eight seconds pass; it assumes nothing of the guest and nothing of the network.
`ReadTerminates` needs only the CPU thread and the release of the mutex.
`TerminalInput` assumes that the threads run on and that the guest, while the CPU
is running, reads the data port of its terminal again and again, however often
the CPU is stopped in between (`SF`): `LineIsRead` is about such a guest, and
says nothing while the CPU is stopped. `SdCardService` assumes that
the M4 core's loop runs, that a latched interrupt and a started timer reach it,
and that the application takes an answer that has come; not that the application
asks, waits, stays or starts. `MqttConnection` assumes that the two threads run,
that the periodic timer fires, that a network that is down comes back and that
the channel id arrives; not that a line that was handed over is read
(`LineProcessed` has no fairness: finding 2 below), and not that the network ever
stops failing, which the bound on failures stands for. `ControlPanel` has no
liveness property: nobody need press anything.

**Three disagreements between code and comments** (`findings`):

1. `88dcdd.c:127` says the requested sector is saved "to be compared with
   inbound mqtt sector". The comparison happens once, before the lock. If the
   answer to a read that was given up has passed it when the next read begins,
   that read takes the old sector for its own and caches it under the wrong
   number (`vdisk_late_reply`). `RightSector` states exactly the condition
   under which this cannot happen.
2. `main.c:341` waits for the line to be read without testing whether it has
   been. A line read before the MQTT thread waits leaves that thread waiting for
   ever (`terminal_lost_signal`): no message and no sector is handled any more.
   `LineIsRead` holds because it starts from a wait for an unread line.
3. `main.c:176` says that a loaded program is wrapped in two leading and two
   trailing line ends. The trailing ones are written two bytes too early, over
   the end of the program (`terminal_truncated_load`): `TICTACTOE.BAS`, which
   ends in `GOTO 115`, is loaded with `GOTO 1`. `ImageArrives` shows that
   of the buffer as it is, without these two bytes, nothing is lost.

## 4. Proofs

Every invariant, action property and refinement that a passing run checks is also
a theorem. All hold for arbitrary
constants that satisfy the named assumptions: `CacheAssumption`,
`CacheServerAssumption`, `DiskAssumption` and `DriveAssumption` (types,
non-zero sizes, and a counter wider than the bytes of a sector);
`TerminalAssumption` (what messages look like, and that NUL is no character of
them); `GuestAssumption` (registers, memory and ports start with values of
their width); `SocketAssumption` (non-zero sizes, a capacity that is a multiple
of the alignment, and a message no larger than the receive buffer);
`SdAssumption` (drives and sectors are numbers, and an image, being a file, has
no gaps); `ConnectionAssumption` (non-zero bounds); `PanelAssumption` (addresses
hold a whole number of data bytes' values, and the loader's address exists).
Where a theorem has a hypothesis of its own, it is named below.

* `DiskCacheProofs`: what the table operations keep. `AddToCacheKeepsEntries`
  and `FindInCacheKeepsEntries` state it once for all users.
* `CacheServerProofs`: `CacheServerTyped`, `TableWithinLimit`, `TableCoherent`
  and `OldestIsPruned` (`[]TypeOK`, `[]CacheBounded`, `[]CacheCoherent`,
  `[]OldestFirst`). Coherence needs, beside itself, that keys are unique and
  typed; the order needs that no sector was used later than now
  (`TouchedByNow`), because the one that is touched goes to the end.
  `MessagesAreAnnounced` (`[]NoneLeftEarly`) counts what was raised so far, the
  latched interrupt included (`CounterInv`): never more than was sent, so that
  before `SEMA_VALUES` messages the counter cannot have come back to 0.
* `VirtualDiskProofs`: `VirtualDiskTyped`, then `ReadsReturnTheirSector`,
  `CopiesDoNotRace` and `RequestsAreNotClobbered` (`[]RightSector`,
  `[]NoDataRace`, `[]RequestNotClobbered`), under every set of faults.

The argument of the last three: none of the properties is inductive, because
whether the buffer is right depends on every message under way. The invariant
`Inv` adds, always, that contents towards and from the server carry their own
sector's number (`ServerSideRight`), and while reads have not overlapped, that
contents towards and from the cache do so too (`CacheSideRight`), that at most
one answer is on its way (`OneAnswer`), that it answers the CPU's read, that a
delivered sector is that read's and the callback is past its copy
(`Handshake`), and that the request is known until it is answered
(`RequestKnown`). `FlightStep` reduces the work: after any step but
`RequestSector`, what is under way was under way before. A read that begins
with no answer under way re-establishes `Handshake`; one that does not sets
`overlapped`.

`SlowAndLossyReadsAreRight` (`[]RightSectorEver`) drops the "while reads have not
overlapped" where `Faults` is at most a slow cache and lost messages
(`{"slowM4", "loss"}`): an answer on its way then has a CPU that waits for it, and a
CPU that was woken has no answer left on its way (`TimelyInv`), so that no read
begins early enough to be given another's sector. `vdisk_late_reply` shows that a
late answer alone is enough to break it.

The same module proves what the disk is without faults (`Faults = {}`):
`FaultlessReadsSucceed` (`[]NoReadFails`) and `VirtualDiskIsAStore`, the
refinement of `SectorStore` (`ReadsReturnLastWrite`). `ServedInv` adds that a
read is answered and its signal neither lost nor early. `FreshInv` adds where the
newest content of a sector is while it travels: in the cache or on its way to it,
if the cache holds the sector or will (`CacheFresh`); with the server, on its way
to it, or in the answer (`ServerFresh`, `AnswerFresh`). Each step then is a step
of the store or a stutter.

* `DiskDriveProofs`, for every size of sector and track and every sequence of
  calls: `BufferNeverOverrun` and `Track0Reported` (`[]StaysInBuffer`,
  `[]Track0IsTrack0`); `DirtyBufferStaysPut` (`[]FlushedWhereWritten`) if no two
  drives have the same `disk_t` (`OneDrivePerDisk`); `WrittenSectorsSurvive` and
  `ReadsUnderHead` (`[]CompleteWritesSurvive`, `[]ReadsSectorUnderHead`) if
  moreover no two use the same medium (`OneDrivePerMedium`). Both hypotheses
  say what the code needs: drives from 2 up share `nodisk`, and without the SD
  card all drives from 1 up share the virtual disk. `DriveInv` relates the
  pointers to the phase of the transfer (`Counted`, `BufferInUse`) and the
  position in drive 0's file to its head (`FileFollowsHead`).
* `TerminalInputProofs`: `TerminalTyped`, `LinesReachTheGuest`,
  `CarriageReturnsFollow`, `ProgramsAreReadInside` and `ImagesReachTheGuest`
  (`[]TypeOK`, `[]LinesArrive`, `[]CrAfterLine`, `[]ReadsOwnedMemory`,
  `[]ImageArrives`), for every set of messages and number of single steps, all but
  the first until two threads are inside at once. `ReadsOwnedMemory` covers the
  line handed over as well as the program; `ImageArrives` is about what
  `load_application` leaves in its buffer, which lacks the last two bytes of the
  program. While no two threads are inside (`Alone`), the three readers are one:
  what it holds and where it is are `Held` and `Place` (`ReadersAreOne`), and the
  invariants speak of these, so that it does not matter whose step it was. The flag
  `haveTerminalInputMessage` hands the line's variables over without a lock;
  `HandOver` says why that is safe: while it is raised the MQTT thread is between
  raising it and the end of its wait, and the length and index are the line's.
  With it only `TakeLineCharacter` changes what has been taken from the lines
  (`OthersDeliver`, `TakeDelivers`), which gives `LinesArrive` and, for the
  carriage return that is set when nothing is unread, `CrBehind`. `AppOwned` ties
  the length that was offered to the buffer's, and `AppAt` the buffer to the
  program; a program leaves no character behind it because its last byte is NUL.
  `NotNulFrom` is recursive in the number of bytes left. The library's induction
  theorem cannot be instantiated by the provers, so its equations are derived
  from the least number for which they would fail (`Least`, `Joined`).
* `Intel8080Proofs`: the operations on A first. `AdditionIsExact`,
  `SubtractionIsExact` and `ComparisonOrders` hold for every operand, 256 (255
  and a carry) included, and `DecimalDigits` says that DAA leaves the decimal
  digits and the carry for all operands outside the exceptions above, by cases on
  which of the two digits overflows (`WhatIsAdjusted`). Then every guest program:
  `InstructionsFollow`, `AluIsThatOfIntegers` and `StackIsKept`
  (`[]NextInstruction`, `[]ArithmeticAgrees`, `[]StackKeepsWords`). `GuestInv`
  says that registers, flags and memory keep their width and that memory holds
  the ghost stack (`StackHeld`): 32768 words at most, since one more would fill
  the memory and take the place of the oldest. That the code's table of odd
  nibbles gives the parity of a byte is counted out bit by bit.
  From the single instruction to several: `CarriesCarryOver`
  (`[]CarryCarriesOver`) is about sums and differences of any number of bytes.
  It needs that each of the other instructions leaves the carry alone unless it
  is one of those that should set it (`CarryKept`); then the integer sum of a byte
  (`AluAgrees`), times the weight of the byte, is added to both sides
  (`LongInv`, `NextByte`). `DaaIsDecimal` (`DecimalDigitsRight`) needs what an
  addition leaves in A, H and the carry until the next instruction (`SumLeft`).
  `CharactersArrive` (`[]TerminalDelivers`) is about every order of reads from the
  two ports of the terminal and its status: of the characters given, the held one is the last
  while none was overtaken, and what was read is numbered through (`InTurn`).
* `SdCardServiceProofs`: a ring is a queue. `WriteAppends` and `ReadRemoves`
  say that `SocketWrite` and `SocketRead` do to the bytes and the indices what
  `Append` and `Tail` do to the sequence of messages the ring holds
  (`RingHolds`), for every size of ring, alignment and message. The argument is
  about distances from the read index: `AvailData` is the number of unread bytes
  (`Indices`); `CanWrite` asks for an alignment more than the message takes, so
  that a full ring is never taken for an empty one; and two cells at different
  distances below the capacity are different. From the two follows
  `SpecRingsHoldMessages` (`[]RingsHoldMessages`), with the types of what is sent
  on (`SdInv`). `SpecAnswersAreRight` (`[]AnswersAreRight`) follows because at
  most one message of the running application is under way (`OneUnderWay`), a
  write whose answer was given up is remembered (`WritesGivenUp`), and a block
  with no such write holds what it should (`KeptOnCard`). `SpecVerifiedMeansWritten`
  (`[]VerifiedMeansWritten`) adds where the formatter is (`Formatting`) and that
  what it has verified stays (`Verified`). `SpecRequestIsHeard`
  (`[]RequestIsHeard`) is the safety behind `AnsweredUnlessMissed`: as long as no
  signal slipped, a descriptor block or request that was sent is signalled
  (`SentIsSignalled`), the callback is marked as listed exactly while it is
  (`enqueued = callbacks`), a message of one ring fits into the other (`OneFits`),
  and the application's message is in a ring or being handled (`NotLost`), so that
  no step from the mailbox to the answer forgets it (`HeardInv`). The last
  three assume `SectorsFit`: sectors
  have blocks of their drive on the card (77 tracks of 32 sectors are 2464, and a
  drive has 3000 blocks).
* `SharedFlagsProofs`: the two parts of `main.c` whose threads share plain flags
  without a lock. For the connection, `SpecDisconnectIsNoticed`
  (`[]DisconnectIsNoticed`): `IInv` adds `PcOK` (each thread is in its own code)
  and `GotWhileConnecting`: `got_disconnected` is set all the way from the
  decision to connect to the session, and nobody but `Accepted` clears it.
  Without the second, a connection that fails before its session would already
  leave both flags false. For its output buffer, `SpecOutputIsFlagged` and
  `SpecOutputFits` (`[]OutputIsFlagged`, `[]OutputFits`), for every size of the
  buffer: `BufferInv` says that one thread is inside it unless `raced` is set
  (`OneInBuffer`), what its length and its flag are at each point of the append,
  the publication and the reset (`BufferKept`), and that the
  disconnect callback, which a publication may end in, never returns into the
  middle of the append or the reset (`AfterOK`). For the panel, `ButtonAStartsCpm` and
  `EnteredProgramStays` (`[]ButtonStartsCpm`, `[]ProgramIsEntered`), for every
  build and memory size. `PanelInv` says that one thread is inside unless
  `overlap` is set (`Alone`); that while the command on the switches is still to
  be carried out, memory and buses are such that carrying it out will keep what
  was entered (`PromisesKept`), and at all other times it is there
  (`NothingLost`); and how far Button A has come (`BootOnItsWay`).

Only model-checked: liveness (`RequestsAreServed`, `ReadTerminates`,
`LineIsRead`, `AnsweredUnlessMissed`, `Recovers`, `OutputLeaves`), which is
beyond this prover.

## 5. Not modelled

* uthash, wolfMQTT, the Azure Sphere libraries: modelled as the code uses them.
* The panels' lamps, sensors, weather, location, logging, ROM images, storage:
  input and output without state that a property would relate.
* `TerminalInput` and `VirtualDisk` share the MQTT thread, and each is modelled
  with that thread free for it. While the MQTT thread waits for a line to be
  read, no sector is delivered; a CPU thread that then waits for one runs into
  the timeout that `VirtualDisk` allows for (`lateReply`), and `ReadTerminates`
  covers that. The two together are not composed.
* In `VirtualDisk`, several channels and the server's files. A server that is
  restarted has lost what was written since it last saved, and `save_disk` may
  run while a sector is written; nothing in the system notices either.
* In `DiskDrive`, guests outside the controller's protocol and drives from 2 up,
  which share `nodisk`. Each drive has an image of its own; on the SD card the
  images lie 3000 blocks apart, a drive of 77 tracks has 2464 sectors, and
  nothing limits the track (`88dcdd.c:190`): a guest that steps drive 0 on
  reaches drive 1's blocks on track 93. Two drives keep what was written to them
  only for guests that stay on the disk.
* In `TerminalInput`, the serial console (a build option), spurious wakeups of
  `pthread_cond_wait`, the increments of indices as separate reads and writes
  (only threads that are inside write them, and of two inside at once nothing is
  claimed), and how many of the guest's characters are held back as the echo of
  what was typed.
* In `Intel8080`, the devices behind the ports and the status word, which only
  the lamps show.
* In `SdCardService`, errors of the wire, the card's transfer speed,
  `SD_SetBlockLen`, `SD_Close` and `SpiSDTest` (never called).
* In `MqttConnection`, topics and payloads, and the mode of the CPU: the guest
  may print at any turn.
* In `ControlPanel`, the switches that the guest senses.
