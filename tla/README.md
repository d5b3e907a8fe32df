# 86Box-tool in TLA+

86Box-tool is a set of Python programs around the PC emulator 86Box: they start
and stop VMs, receive what a guest prints, read a guest's screen and type at its
keyboard. This directory holds TLA+ models of the parts whose state changes over
time, TLC runs that check them on small instances, and proofs that TLAPS checks.
`PROJECT.json` lists the runs, the source lines of every definition, a mutant for
every property, the hazards and the theorems. Line numbers below are those of the
repository's sources.

## The system

| part | state it keeps | operations | interacts with |
|---|---|---|---|
| process controller, `86boxctl.py` 563-936, 979-1036 | one record file per VM, its `.tmp` file | start, restart, stop, wait, forget; status, pid, port, logs and command only read | the kernel's process table, 86Box, other commands through the files |
| ROM set preparation, `86boxctl.py` 263-561 | a directory of ROMs per VM, stock tree and image; hidden directories while it is rebuilt | prepare-roms; start and restart before they launch | the stock ROM tree, other commands through the file system |
| FIFO printer, `fifo_printer.py` | page files, the open page, row counter and suffix flags | receive: read a byte, file it, show it, acknowledge it | 86Box's LPT port through two FIFOs, the terminal |
| LPT strobe test, `test_lpt_strobe.py` | none | strobes bytes and compares the answers | the printer, in 86Box's place |
| RSP client, `rsp.py` 93-259 | a TCP connection to 86Box's GDB stub | break, resume, interrupt, detach, memory and monitor commands | the stub, and so the guest's CPU and memory |
| BIOS keyboard ring, `rsp.py` 821-870, 1138-1184; `guest_console.py` 394-399, 604-711 | pending keys | `inject_bios_keys`, by `type --bios-buffer` and by the console in bios mode | the guest's BIOS through the ring in its data area |
| hardware keys, `rsp.py` 880-932, 1166-1179; `guest_console.py` 352-428 | scan bytes, pending breaks and their due time | make and break phases | the 8042 through monitor port writes |
| guest console, `guest_console.py` 575-711 | screen buffer, input queue | frames at 70 Hz, key injection, `--wait-change` with retries | the RSP client, the host's terminal |
| memory dump, `rsp.py` MemDump, `memdump/example.py`, the patch | a connection | one request, one reply | a thread in 86Box |
| diagnostics driver, `diagnostics_driver.py` | one thread per VM, its place in the menus | repeat keys until the screen is as expected | memory dump, RSP |
| ROM smoke test, `model80_rom_smoke.py` | `launched`, `verified` | patch, start, wait for a screen, stop | the controller and RSP as commands |
| screen monitor and renderers, `screenmon.py` | the last screen | format | RSP |
| graphics capture, `rsp.py` 404-766 | the adapter's registers while it reads them | reprogram, read, restore; encode an image, ask a vision model | RSP, the VGA adapter, external services |

What is hard in them:

- Commands of the controller interleave with each other, with processes that
  come and go by themselves and with a kernel that reuses PIDs. Identity is
  checked with one system call and used with the next. *Correct* means: no signal
  reaches anything but the recorded VM; no VM runs without a record; no VM
  directory is opened by two processes; stop returns.
- ROM sets are replaced by two renames with a rollback. Commands overlap, fail
  and are killed. *Correct* means: a finished set is never lost, failure changes
  nothing, foreign directories are left alone.
- The printer acknowledges bytes one by one while ports close and open, the
  program is interrupted, and other programs make files. *Correct* means:
  acknowledged bytes are on disk, pages are what was printed and are never
  overwritten, every byte is answered, the terminal shows the right bytes.
- The two keyboard tools write a ring that the guest reads and writes at the same
  time. *Correct* means: every key arrives once and in order; nothing outside the
  ring is written; the tool ends.
- Hardware keys have two phases, with a prefix byte and modifiers; the console
  leaves in the middle of them; `--wait-change` and the diagnostics driver send
  keys again that may already have worked. *Correct* means: keys are pressed in
  turn and come up; a driver's verdict is about the test it was asked for.
- A client of the GDB stub takes the next packet for the reply to its last command,
  while time-outs leave replies behind and breakpoints send packets of their own.
  *Correct* means: nothing that is reported comes from another command's reply; the
  guest stands still while a snapshot is read and runs afterwards; a capture leaves
  the adapter as it was; commands end.
- The smoke test composes all of this. *Correct* means: it stops what it launched
  and nothing else, whatever fails.

## Modules

| module | role |
|---|---|
| `Controller` | the controller's commands and the process table |
| `ControllerProofs` | theorems: types, signals, records and processes; what the smoke test signals and leaves |
| `MCController` | which command lines contain which path; symmetry |
| `RomSet`, `MCRomSet` | ROM set preparation; symmetry |
| `RomSetProofs` | theorems: types, foreign directories, a command that runs alone; a whole set survives, by counting |
| `SmokeTest`, `MCSmokeTest` | extends `Controller`: the ROM preparation in front of start, and the smoke test; two VMs and a user's commands on either |
| `FifoPrinter`, `MCFifoPrinter` | the printer, its two FIFOs, 86Box's end of them; a long job and a disturbed one |
| `FifoPrinterProofs` | theorems: types, pages, acknowledged bytes, what is printed and shown |
| `KeyQueue` | abstract: keys reach the guest once, in order |
| `KeyboardRing`, `MCKeyboardRing` | the ring, its two tools, the guest; the longer ring |
| `KeyboardRingProofs` | theorems: types, what is written; the ring implements `KeyQueue`; the console's keys arrive |
| `HardwareKeys`, `MCHardwareKeys` | keys as scan bytes in two phases, the console's loop and `--wait-change`; three keys |
| `HardwareKeysProofs` | theorems: types, keys pressed in turn |
| `RspSession` | commands and replies between a client and the GDB stub, one session after another |
| `GraphicsCapture`, `MCRspSession` | extends `RspSession`: the capture of mode 12h and the VGA adapter; two breakpoints, planes and palette registers |
| `RspSessionProofs` | theorems: readings, the guest afterwards, armed breakpoints |
| `GraphicsCaptureProofs` | theorems: the picture, the adapter afterwards |
| `Diagnostics` | the diagnostics driver, the keyboard and the guest's menus |
| `DiagnosticsProofs` | theorem: verdicts and tests |

### Controller

One member of `Invocations` is one slot for a running `86boxctl` command. `pc[c]`
is its place in the code, `held[c]` the PID of the `ProcessRecord` in its memory,
`child[c]` its unreaped `Popen` child, `arg[c]` its options. `rec` and `tmp` are
the record file and its `.tmp` file, which all commands on one VM share
(`_write_record`). `life` and `vmOf` are the kernel's side: state and command line.
`unrecorded` is a history: the processes whose start could not write their record.

Every file read, `ps`, signal, write, rename and unlink is a step, so a command
may be overtaken anywhere. `Verified(p, v)` is the code's identity test: a
substring search for `--vmpath <directory>` in the command line. `Covers` says
which command lines contain which directory: `ExactCovers` when no path continues
another, `PrefixCovers` when `.../Test` and `.../Test 2` both exist. The binary
and ROM path in the same test are taken as matching.

A dead process whose parent command still runs is a zombie: `ps` shows it, with a
command line that does not verify. A command that ends hands its child to init.
`Quit` lets any process exit at any time; `OtherStart` starts programs that have
nothing to do with the controller, and VMs in `Outside`; `LaunchServices` delivers
a `--background` process late or never (at most one is pending per VM).

Decisions: `--background`, `--gdb-stub` and a `--timeout` for wait are chosen where
the code first looks at them. Time is not modelled: a deadline may pass whenever
the code checks it, which includes `--timeout 0` and grace periods of any length.
What comes before and at `Popen` may fail (`SpawnFails`); so may the write of the record,
which then leaves a `.tmp` file as it was or `Torn` (`WriteFails`), its rename
(`ReplaceFails`) and `unlink` (`UnlinkFails`). The command ends with status 2; a VM that
it has launched goes on without a record, and the next `start` does not see it. A torn
record, which another `start` may rename into place, ends every command that loads it. That reads
of records, `ps`, `pgrep` and `kill` do not fail by themselves is an assumption.
Reading a record and testing that it exists is one step. A dead child's exit is seen at the
first `poll` after it, and a `start` whose grace is over goes on even if its child
dies right after.

Four constants state assumptions, and runs and theorems say which they use:

- `InstantReuse`: a PID may be given away between a `ps` and the `kill` that
  follows. The code cannot exclude it; everything about signals assumes it FALSE.
- `Exclusive`: commands on one VM do not overlap. The code takes no lock, so
  everything about records and processes assumes it TRUE.
- `Interrupts`: Ctrl-C or a kill ends a command anywhere. During the startup grace
  this leaves a VM without a record; tracking assumes it FALSE.
- `Background`: tracking assumes it FALSE, because a process that appears after
  the grace is not recorded.

### RomSet

All commands that prepare one set (one VM, stock tree and image) compete for one
name, `final`. `tmp[c]` and `old[c]` are the command's own hidden directories. A
directory is nothing, empty, bare (no manifest), torn (a recognised manifest that
does not validate), foreign, or a set with the version of the stock tree it was
copied from. One action per test or file operation of the code; `Raise` is any
operation of the `try` block failing, `CopyRaises` a copy that fails half-way, `EndsRaised`
an operation of the roll-back or of the clean-up that fails in its turn (`raised`), which
skips the rest of it; `Leave` is the end of a command at any step, since neither
KeyboardInterrupt nor a kill runs the rollback. `rmtree` of the shared name and of the old
set takes two steps, with a torn, bare or empty directory in between; that of the
command's own unfinished set is one. A rename fails on a directory that
is not empty. Left out: the bytes of the images; sets that somebody damages by
hand (a directory is torn only by a rollback, for good if that is killed).

### FifoPrinter

`files` is the output directory; a page that exists and is not the printer's is
`Foreign`. `current`, `nextNumber` and `para` are the fields of `PageWriter` and
`Paginator`; `pc` is the place in `receive`, one step per FIFO operation, per
`consume` and per display. `READ_SIZE` is 1, so a chunk is one byte.
`FormFeed`, `SuppressedByte` and `ShownByte` are the three ways through the loop of
`consume`. Creating a page and writing to it are one step, or the printer ends between
the two (`CutBeforeWrite`) and leaves an empty file, which `blank` remembers. `Ends` is the `finally`
of `main`, reached by Ctrl-C (`Interrupt`) or by a status FIFO that 86Box has
closed (`BrokenPipe`), which is not caught where it could be; `Start` is the next
run, with a fresh `Paginator` and a scan of the directory. `setup`, chosen once, bounds
what a behaviour may contain: how many bytes, whether Ctrl-C may come, which page
numbers other programs may take.

86Box's end is external and follows `lpt-8bit-strobe-mode.md`: the guest strobes
when it has seen READY, and waits for ACK_LOW and READY. With `Eager` it does what
`test_lpt_strobe.py` does. The VM opens its port only when the printer has noticed
that it was closed, as a VM takes longer to start than a FIFO read to return. Data that is in the
FIFO when both ends have closed it is lost.

`log`, `mine`, `blank`, `shown` and `confirmed` are histories. `EndsPage` and `PagesEnded`,
`Visible` and `BytesDue`, and `RowsShown` recompute from `log` alone, with no state
machine, which pages, terminal bytes and rows there should be; `PagesMatch` and
`ShownMatch` compare them with the files, the terminal and the counter.

### KeyQueue and KeyboardRing

`KeyQueue` has three sequences: keys the tool has, keys the guest may read, keys it
has read. `Put` moves any number of keys at once. `KeyboardRing` implements it with
`queue <- Queued`, the words from head to tail of the guest's ring, and
`pending <- pend`.

`inject_bios_keys` is four actions, one per kind of memory command:
`ReadPointers`, `ReadBounds`, `WriteKey` (one word) and `WriteTail`. Its callers are
`type --bios-buffer`, which holds the CPU between `BreakCpu` and `Resume` or
`Detach`, and the console in bios mode, which lets the guest run. The guest boots
(POST sets up the classic ring or a longer one and may leave the bounds at 480h
zero), reads keys, and stores keys typed at its own keyboard: INT 9 writes the key
and then the tail. `CutsInt9` says whether the stub may stop the CPU between the
two. A word is a model key; the encoding of text as key words is data. The sender
is one session, and keys are entered before or, in the console, between frames.
Keys of the guest's own keyboard (`MaxTyped`) are typed only under `type` in the
passing run, since the console lets them overwrite its own: that is the violation
`keyboard_console` shows. `KeyQueue` calls them `Own` and lets them into the queue at
any time.

### HardwareKeys

The queue of the console in hardware mode and the loop around it. `scans` and
`breaks` are the two parts of `GuestInputQueue`, `gap` is its `break_due` against
the clock; `again`, `stable`, `changed` and `exit` are the variables of
`stream_console`, `pc` its place in the loop. A scan byte is a make or a break of
a code. `BreakPhase`, `MakePhase` and `NoPhase` are the three ways through
`inject`; `Top` to `WaitUntilSample` the steps of the loop. Time is `GapEnds` and
`Settles`; `--duration` may end at each of its two tests. The guest's keyboard,
the monitor command `kb`, is external: `down` is the set of keys that are down.

Decisions:

- The prefix E0h has its high bit set, so `inject` takes it for a break, sends it
  as the break of a code that names no key, and lets a gap pass before the make it
  belongs to. The guest sees the key's twin on the keypad, whereas `README.md` 484-486 and
  540-541 speak of arrows that are translated and of extended scan bytes. `pressed` says
  of each key whether it went down as an extended one (none does), and
  `KeysPressedInTurn` makes the exception: a key that is not extended is the one pressed
  (`Meant`), an extended one leads to its `Twin`.
- Extended keys have no ASCII code and therefore no modifier (an assumption of the
  module, `rsp.py` 886-900), and no key has the scan code of Shift, Control or the
  prefix (`rsp.py` 691-763, 886-892).
- The interval of `--retry` is not looked at: a retry comes or does not. The first
  one always comes, since `last_retry` begins at zero.
- When the console ends between the phases, the pending breaks are dropped and the
  key stays down; `KeysComeUp` makes that exception.
- A frame is one number. The clock graphic and rendering are left out, and so are
  errors of the connection.

### SmokeTest

`SmokeTest` extends `Controller`. One invocation, `Tester`, runs the two controller
commands of the smoke test, `start` and `stop --kill-after-timeout`; the others are
commands of users. `preparing` holds the commands that are still preparing their ROM
set, which `start` and `restart` do before they read any record (`86boxctl.py` 979-987);
`Prepare` lets that succeed or fail, `RomSet` says what it does on disk. `smoke` is the
place in `main`, `pid` the PID that `start` has printed. `Watch` is `rsp.py wait-screen`
with the tests after it: it can find the text only while the VM is alive.
`LeavesNothing` speaks of the process that `start` reported.

Decisions and limits:

- `launched` is set when `start` has returned 0. A start that fails after it has
  launched, because the GDB port is not ready, leaves its VM: so the code, and so the
  model, and `LeavesNothing` says "launched".
- `README.md` 333, "stops only the PID recorded for that launch", is true as long as
  nobody else starts, restarts, stops or forgets the VM meanwhile: `stop` reads the
  record as it is then. `disturbed` records that a command other than `wait` worked on the
  tested VM (`Disturbs`); commands on other VMs disturb nothing.
- `Given` are the commands that users give in a run; the theorems hold for any.
- Ctrl-C reaches the smoke test and its command. A second one during the `stop` of the
  finally clause is left out. So is the construction of the patched image, which comes
  first and changes nothing if it fails.

### RspSession and GraphicsCapture

`requests` and `replies` are the two directions of the connection; `tool` and `pc` the
command and its place. A packet remembers which request it answers (`for`) and
whether that request has been given up (`late`): the client cannot see this, and
`foreign` becomes true where it uses such a packet's value. A command may time out at
any wait (`Timeout`), with its reply still to come; every exception leads to the
finally clause, `D` or in the console `03` and then `D`. Ctrl-C may come at any wait: `CtrlC`
before the finally clause, `CtrlCAgain` in it, where it closes the connection. In the console
it then escapes `except (ConnectionError, OSError)` around `interrupt` and skips `detach`
(`guest_console.py` 699-703); `cut` records that a connection was closed without `D`. `Misfits` is a packet that
the method does not accept. `Snapshot` (probe,
screen, wait-screen), `Tracing`, `Typing` and `Console` are the tools, `Close` and `Wait`
what they share at their end.

The stub is external and does what `README.md` 488-516 observes: it handles packets one
by one, runs the guest on `c` and `D`, refuses a breakpoint that is already set, keeps
breakpoints when a client leaves, and answers a `c` when the CPU stops. `Hit` lets the
guest run into a breakpoint at any time, with a client or without; `VmEnds` ends 86Box.

`GraphicsCapture` adds `screen` in mode 12h. `Then` is the order of its commands,
`Command` what each sends, `Loops` and `Times` its three loops, `OnRaise` the finally
clause that is entered when a step raises. `vga` is the adapter: the Graphics
Controller's index, Read Map and Mode registers, the attribute address with its
flip-flop, the palette registers, and the DAC's index and direction. Read Map Select
keeps two bits of what is written to it, and a write to the attribute port that comes at
the flip-flop's other turn is data for a palette register. `DacIndex` is the
computation of `read_mode_12_palette`. `CaptureFaithful` compares what was read with
what the adapter held when the connection was made; `CaptureRestores` compares the
adapter before and after.

Decisions and limits:

- One memory read stands for the chunks of a plane, and one read for the three
  components of a colour.
- The flip-flop of the attribute port is not restored and cannot be, since it cannot be
  read; `CaptureRestores` leaves it out.
- When the reply to a write of the attribute address is late, the read of the input
  status in the finally clause takes that reply for its own and raises, and the address
  is not written back. `CaptureRestores` makes this one exception, and none when faults
  strike inside a finally clause.
- `trace` leaves its breakpoints set. A guest that runs into one afterwards stops with
  nobody connected; `PausedOnlyWhileConnected` makes that exception, and another for a
  Ctrl-C in the finally clause that has kept `D` from being sent (`cut`): the guest then
  stands still until the next command.
- After a time-out of its stack read, the next `c` of `trace` takes the late reply for a
  stop packet, which raises ValueError, and the hits so far are not printed.
- `dump` and `video-mode` send what `screen` sends, and are not repeated. Checksums
  and damaged packets are left out (a local TCP connection), and so is the hardware
  path of `type`, which sends break bytes as makes.

### Diagnostics

One driver and one guest. `at` is the prompt the driver works on, or one of its
waits; `phase` the place in `_inject_until`; `Word` what it types there. The guest's
keys go through `keys`, where a word, its ENTER or both may be lost (`Lossy`) or a key
of a number be dropped (`Wrong`), at the test list and at the sub-test prompt (`Numbers`),
and are read one at a time whenever the guest gets to it. A prompt takes a line and shows
the next screen, after a blank one. What a line leads to is `Answers`: the word alone is
the answer; a number that has lost a key, or has been typed again behind one whose ENTER
was lost (1 and 1 is 11), is refused or begins something else; another word that stands
there twice is taken or refused (`Doubt`).
The driver may begin at any screen (`wait_for_menu`), and its memdump or GDB connection may
fail (`Unreachable`, `SendFails`).

`timely` says that the guest has dealt with its keys when the driver looks again after
`settle` seconds. It is chosen once: in half the behaviours the guest may be
arbitrarily late. `torn` is the set of prompts at which a word arrived in part or without
its ENTER, and `Whole` says that none of that has touched a number (for a late guest: that
no word is torn, since what is left on the line may then come to any prompt). `RequestedTest`
says that a verdict is about the requested test, and of timely guests that typing again
never starts another test, both as long as `Whole` holds. What it leaves out is what the
code does not notice: it looks at the screen after a number, and does not read back
what arrived. For a guest that is late typing again may start another test even so: the
second "0" for the checkout menu then arrives at the test list and selects option 0. One more
exception is in the property: a driver that begins at a hard copy prompt types no
sub-test and reports the verdict of the test that asks (`began`).

## Runs

| run | instance | shows |
|---|---|---|
| `controller_races` | 1 VM, an editor as the other program, 2 PIDs, 2 commands, interrupts, background, no exclusion | `TypeOK`, `SignalTargets` |
| `controller_exclusive` | 2 VMs, 2 PIDs, 2 commands, exact paths, `Exclusive` | `NoneLost`, `OnePerVm`, `SignalsOwnVm`, `RecordKeepsLive` |
| `controller_adoption` | background, prefix paths | a violation: `AdoptsOwnVm` |
| `smoke_test` | 2 VMs, 2 PIDs, the smoke test on one, a user who starts the other and stops the tested one, fair | `StopsOwnLaunch`, `LeavesNothing`, `KillAfterTimeoutStops`, `AllReturn` |
| `rom_set` | 2 commands, 2 versions of the stock tree | `TypeOK`, `SetSurvives`, `ReturnsCurrent`, `FailureUndone`, `ForeignKept` |
| `fifo_printer` | 2 rows per page, 2 openings; 5 bytes, or 2 bytes with Ctrl-C and foreign pages; fair | `TypeOK`, `PagesMatch`, `ShownMatch`, `AckedOnDisk`, `PagesKept`, `ByteAnswered` |
| `fifo_strobe_test` | the test tool in the place of 86Box | a violation: `FirstStatusIsAck` |
| `keyboard_ring` | both tools, 4 keys, rings of 3 and 4 words, 2 keys typed in the guest under `type`, `CutsInt9` FALSE, fair | `TypeOK`, `WritesInRing`, `SentKeysArrive`, `DeliversInOrder`, `TypeEnds`, `ConsoleDelivers` |
| `keyboard_console` | console, 2 keys typed in the guest | a violation: `SentKeysArrive` |
| `hardware_keys` | a key, its capital and an extended key, 3 keys queued, 2 screens, fair | `TypeOK`, `KeysPressedInTurn`, `KeysComeUp`, `ChangeEndsWait` |
| `rsp_session` | 2 sessions of any tool, 2 breakpoints, 2 hits, 2 planes, 2 palette registers, 1 fault per capture, fair | `TypeOK`, `SoundReading`, `PausedOnlyWhileConnected`, `TraceArmed`, `CaptureFaithful`, `CaptureRestores`, `CommandEnds` |
| `diagnostics` | 3 attempts per prompt, 2 disturbed injections, fair | `RequestedTest`, `DriverEnds` |

Why the bounds are enough:

- *Controller.* Two PIDs suffice for a PID to be reused by another program while
  the old one is still named in a record; two commands for every pairwise race on
  a record and on the `.tmp` file. `controller_exclusive` tells states apart without `tmp`
  (the view `ButTmp`): under `Exclusive` a `.tmp` file is only read by the command that
  has just written it. The theorems below hold for any number.
- *Smoke test.* Two VMs and two PIDs: the other VM's process has a PID that the
  smoke test must not signal, and takes the tested one's when that is gone. The user's `stop`
  of the tested VM runs into the smoke test's own; `OwnLaunchOnly` proves
  `StopsOwnLaunch` for any commands of any number of users.
- *ROM set.* Two commands, each repeated without bound, any number of kills and
  failures. `RomSetProofs` proves `SetSurvives` for any number of commands.
- *Printer.* Five bytes are two more than the longest history that matters to a
  form feed (page end, CR, LF) with two rows per page, so each row count meets each
  suffix. Two openings and two bytes let one close fall into every step of a
  handshake and a byte follow it. `StatusRoom` 2 fills the status FIFO once with a
  whole acknowledgement. `MaxPage` is large enough that page numbers never run out
  (an assumption in the module).
- *Ring.* Four keys overfill a ring of three words by two (one slot stays empty),
  so the tail wraps with the ring full, and the longer ring has another end.
- *Hardware keys.* A phase depends on what the queue begins with, and three keys
  give every kind of key a neighbour of every kind on both sides. One change of the
  screen is what `--wait-change` waits for; with three screens and a fourth key, Ctrl
  with a letter, the properties hold as well (421 thousand states).
- *RSP.* Two sessions, since what one leaves behind (breakpoints, a guest that stands
  still, late replies on a connection) meets the next. Two breakpoints let one of them
  be stale and the other not. Two planes and two palette registers are one turn of
  each loop and one end of it; the adapter's registers all differ from what the
  capture sets, with the DAC and the flip-flop in both directions.
- *Diagnostics.* Three attempts are a first, a middle and a last one. Two disturbed
  injections let one follow the other at a prompt or at two.

Deadlock is checked except where a program really stops: the printer (no more bytes, no
more openings), the keyboard runs (the tool has ended, or with `hardware_keys` the
console), the smoke test, the sessions of `rsp_session` and the diagnostics driver, which
end.

### Fairness

- `SmokeTest!SmokeFairSpec`: weak fairness of each command's steps and of the smoke
  test's. A polling loop's `AwaitDeadline` is such a step and stays enabled, because
  `time.monotonic` passes the deadline, and so has `wait-screen` a deadline. Nothing is
  assumed of 86Box, which may ignore SIGTERM for ever, nor of users.
- `FifoPrinter!FairSpec`: weak fairness of the printer's steps and of 86Box's
  reading of the status FIFO, which it polls. Nothing is assumed about the guest.
- `KeyboardRing!FairSpec`: weak fairness of the tool's steps; strong fairness of
  `Deadline`, because of the checks of the clock that come round again and again one
  is after the deadline. `ConsoleDelivers` has an assumption of its own: the guest
  goes on reading keys. The console leaves when it is told to, so it may also end.
- `HardwareKeys!FairSpec`: weak fairness of the console's loop, which never blocks
  without a time limit, and of the clock (`GapEnds`, `Settles`). The guest's
  screen and the user owe nothing. `ChangeEndsWait` is about a screen that changes
  finitely often, which `MaxScreens` provides: each difference starts the settling
  again.
- `GraphicsCapture!FairSpec`: weak fairness of the client, whose waits all end by a
  packet or by the socket's time-out, and of the stub; strong fairness of the two
  deadlines that are looked at once in each round of a loop. `trace` without
  `--count` ends when breakpoints are no longer hit, which `MaxStops` provides.
- `Diagnostics!FairSpec`: weak fairness of the driver, whose sleeps and deadlines are
  clock time, and of the end of its capture; and, in the timely behaviours only, of
  the guest.

## What the code does not do

Three runs show that the code does something else than its documents say:

- `controller_adoption`. `README.md` 20-21 promises that no arbitrary `pgrep` result
  is used; `launch --background` takes `pids[0]` of a pattern that matches any VM
  whose path continues this VM's path, and the check that follows has the same
  weakness. A `start` then records another VM's process, which `stop` will signal.
- `fifo_strobe_test`. `test_lpt_strobe.py` expects ACK_LOW as the first status byte
  after its first data byte; the printer has written READY on connection.
- `keyboard_console`. `README.md` 534-538 calls the bios path reliable; the console
  lets the guest run between reading the tail and writing it back, so a key typed in
  the guest meanwhile overwrites a key that counts as sent.

Where the code falls short of a property in a known way, the property names the exception:
`unrecorded` (a VM whose record could not be written), `blank` (an empty page), `cut` (a
console interrupted in its finally clause), `Twin` (extended keys), `Whole` and `began` (the
diagnostics driver), `disturbed` (a user at work on the smoke test's VM).

## Theorems

`ControllerProofs` (assumptions: those of the module; any sets of VMs, PIDs and
commands, `Exclusive` or not, with or without interrupts and background):

- `TypeCorrect`: types, and `HoldsPid`: wherever a command is about to observe or
  signal, it holds a PID. `HoldsPid` is what the type invariant lacks: without it
  `life[held[c]]` could be applied to no process. `IInv` is their conjunction, with
  one lemma per group of actions (`StopStepInd`, `LaunchStepInd`, ...).
- `SignalSafety`: `~InstantReuse => (Spec => []SignalTargets)`. The argument: a PID
  in the hands of a command that has verified it can only lose its process, never
  get another one, until the signal is sent. `ProcessTableKeeps` states that of
  every step; `SignalInHand` that a command enters the states before a signal only
  with a verified PID.
- `SignalsReachOwnVm`: if also no command line contains another VM's directory, a
  signal can only reach the VM of the command.

Its second part assumes `Orderly` (`Exclusive`, no interrupts, no background launches,
no VM started by hand):

- `NoProcessLost`, `OneProcessPerVm`, `RecordOfLiveKept`. `NoneLost`, every live VM
  process is in its record, the child of the `start` in flight, or left without a record
  by a `start` whose write failed (`unrecorded`), is not
  inductive: a command that replaces or removes a record must know that the
  recorded process is dead. `Knows(c)` says, per place in the code, what a command
  has learned and may still rely on; `OneCommand` that a VM has one command at a
  time, so that nobody invalidates it. `TrackInv` is the conjunction with `IInv`.
  `OneProcessPerVm` follows from it, since both processes, neither of them unrecorded,
  would be the one that the record or the start in flight names; `RecordOfLiveKept` is its step version.

`RomSetProofs` (assumption: at least one version; any set of commands):

- `TypeCorrect`: the type invariant with `Built`, that a copied tree has a version.
- `ForeignNeverTouched`: `Spec => ForeignKept`. `ForeignInv` says that while a foreign
  directory has the name no command is past the tests that refuse it, and that no
  command holds one in its hidden directories, from which it could come back.
- `FailureChangesNothing` and `SuccessIsCurrent`: `FailureUndone` and `ReturnsCurrent`,
  from `AloneInv`. For a command that runs alone `KnowsAlone(c)` gives, per step, where
  it is in its two renames (`NotMoved`, `MovedAway`, `PutNew`) relative to what it found, and
  what a second failure, in the roll-back or the clean-up, still leaves whole.

Its second part (assumption `PreparersAssumption`: finitely many commands, since the
argument counts them):

- `SetNeverLost`: `Spec => []SetSurvives`, with overlapping commands that fail, roll back
  over each other and are killed. A roll-back takes the directory under the name apart,
  and that may be the only whole set that anybody else knows of; what saves it is that
  the command that does so holds a whole set itself. But it may hold a torn directory,
  which it has met while another roll-back was at work. `Counted` settles this: the torn
  directories that are under the name, or held by a command that may put them there,
  are at most as many as the commands that have taken one apart and hold a whole set.
  `StepCounted` shows that every step keeps the balance (`Balance` lists the five ways),
  `StepSafe` that a step that takes a whole set away leaves another (`Safe`). The count
  no longer holds when a killed command leaves a whole set behind, and is then no
  longer needed (`Whole`).

`FifoPrinterProofs` (assumptions: those of the module, which name what the bounds mean
and that page numbers never run out; any page length, jobs, FIFO size and number of
openings, `Eager` or not):

- `TypeCorrect`, with `Open` (the open page is one the printer has made) and `SentMore`
  (an unanswered byte has been sent).
- `PagesOnlyGrow`: `Spec => PagesKept`. Every step is shown to be `Kept`, which uses that
  `FindNextNumber` is a number from which on all are unused, and `Open`.
- `AcknowledgedIsOnDisk`: `Spec => []AckedOnDisk`. The property compares two numbers
  that no step changes together; `AckInv` adds what is in between: ACK_LOW bytes in the
  status FIFO, the one the guest has read without finishing its handshake, and the one
  the printer is about to write.
- `FilesArePages`: `Spec => []PagesMatch`. The property's operators are restated for any
  history (`LastIn`, `EndsIn`, `EndedIn`), and the lemmas say what one more entry
  changes in each (`LastAppend`, `EndsAppend`, `EndedAppend`). `PageInv`: a page is
  open while the history has bytes after its last mark, it is the last one made, and
  the pages made hold what the history says (`Holds`). A file left empty between its creation
  and its first byte is no page, stays empty, and its number is not used again.
- `TerminalShowsPages`: `Spec => []ShownMatch`, in the same way. `RunningInv` says what each
  field of `Paginator` means in terms of the history: `rows` are the line feeds shown
  since the last mark, modulo the page length, `auto` that the last byte completed
  a page's rows, `suppress` that only a CR or an LF has come since a page end, and `cr`
  and `lf` which. `ByteShown` is the heart: with this, `consume` lets the terminal show a byte
  exactly if the history calls for it.

`KeyboardRingProofs` (assumptions: those of the module; any rings with valid bounds,
keys, tools, with `CutsInt9` TRUE or FALSE):

- `TypeCorrect` and `OnlyTheRingIsWritten`, from `RingInv`. A tool knows only what it has
  read, and the guest may boot between its two reads. `ToolInv` says that pointers read
  before POST are zero, which no ring contains, so that they fail the test; `GuestInv`
  that what is recorded at 480h, or the default, leads to the ring in use.

Its second part (assumption `Undisturbed`: the stub does not stop the guest between
the two stores of INT 9, and nobody types at the guest's keyboard under the console; these
are the conditions of run `keyboard_ring`, and `keyboard_console` shows what happens
without the second):

- `RingImplementsQueue`: `Spec => DeliversInOrder`, the refinement. Three groups of lemmas:
  the ring as a circle (`Dist`, `Nth`), the keys between two of its slots as a sequence
  (`Content`: what a key at the end adds, what a read at the head takes, what a write
  elsewhere leaves alone), and one lemma per action. `WriteInv` is the heart: the keys
  from the guest's head to the tool's private tail are those queued plus those already
  written, and the head that the tool has read, old as it may be, is still behind the
  guest's (`Behind`), so that the tool's test for a full ring errs on the safe side.
- `SentKeysReachGuest`: `Spec => []SentKeysArrive`. The property walks through the keys
  that the guest has taken and those in the ring; `SentBy` is that walk as a function on
  numbers, which exists (`SentUnfold`) and depends only on what it has passed
  (`SentAgrees`). `SentInv` claims it at every place of the tool, and the refinement's
  lemmas say what each step does to the ring.

The last part of `ControllerProofs` is about `SmokeTest`, which is why the module extends
that one (any VMs, PIDs and commands of users):

- `OwnLaunchOnly`: `SmokeSpec => []StopsOwnLaunch`, without any further assumption, so
  with overlapping commands, `--background`, prefix paths and PIDs reused at once. The
  property speaks of behaviours that nobody disturbs; `Undisturbed` says what that
  means at each place: the other commands on the VM are `wait`s, and the record names
  the process that `start` has reported, or is about to. `TestInv` ties the place of
  the smoke test to that of the command it runs.
- `NothingLeft`: if there is no `--background` and the tested VM is not started by
  hand, `SmokeSpec => []LeavesNothing`. A process that is gone does not come back
  (`GoneInv`): every step that could make one, or give its PID away to the same VM, is
  shown to be a user's `start`, which disturbs.

`HardwareKeysProofs` (assumptions: those of the module; any keys, any number of them):

- `KeysInTurn`: `Spec => []KeysPressedInTurn`. What is left to press is in the queue, in
  `Rest`'s order, but `scans` need not hold all the bytes of it: `inject` sends the prefix
  of an extended key together with the breaks before it. `Left` says so, and `KeyInv` is
  the invariant that follows: the keys pressed are the twins of the first of those given, `scans` is
  `Left` of the rest, `down` is what `breaks` will let go. A make phase then takes one
  key, and with it the next key's prefix if there is one, or that prefix alone at the
  beginning (`PhaseTakes`, `KeyPress`, `Ahead`, `KeyPhase`). That it cannot run on into
  the next key, and the count of keys left (`KeysLeft`), rests on `KeysAssumption`: no
  key's scan code is that of a modifier or of the prefix. The tables of `rsp.py` 691-763
  have no key 2Ah, 1Dh or 60h.
- `TypeCorrect`: `Spec => []TypeOK`. It needs `KeyInv` too: only with the keys in order is
  what goes down the code of a key or a modifier.

`RspSessionProofs` (assumptions: those of the modules; any tools, addresses, traces, number
of sessions, hits and faults). The theorems are about the specification with the
capture in it:

- `ReportsOwnReading`: `Spec => []SoundReading`. `IInv` says at each place of each tool
  what can be on the way between client and stub (`ChannelInv`): one command or its
  reply (`Awaits`), the ways in which `03` and a `c` that is still owed a stop packet
  can mix (`Breaking`, `Pausing`, `Interrupting`), and for `trace` that a late reply to
  a stack read stays in front of everything (`TraceRuns`), where it does not fit and
  ends the trace. `Still` is that the guest stands and owes no stop packet; with it a
  breakpoint cannot put a packet in between. `ResultInv` is about `foreign`: only a
  capture that is in a finally clause may have used a late reply, and that one ends in
  an error.
- `RunsAfterwards`: `Spec => []PausedOnlyWhileConnected`, by `ReleaseInv`: without a
  connection, either the last request under way is `D`, or it has been dealt with.
  `Leaves` shows it once for the many ways in which a session ends. The exception for `cut`
  is used by one action only, `CtrlCAgain`.
- `ArmsAll`: `Spec => []TraceArmed`, by `BreakpointInv`, also when a trace is given the
  same address twice.

`GraphicsCaptureProofs` builds on `RspSessionProofs` (further assumptions: `CaptureBounds`, at
most four planes, since Map Select has two bits, and any number of colours;
`AdapterAssumption`, the size of the adapter's fields; `NoneAssumption`, that the mark for
"no argument" is not the mark of a plane read):

- `TakesGuestsPicture`: `Spec => []CaptureFaithful`, for any `MaxFaults`. `CInv` relates
  the place in the capture to the adapter as it will be when everything in flight is done
  (`Due`): `Exact` gives each register's value at each step as the code means it, as long
  as nothing has failed, and `Rough` what is left of that when a command was rejected and
  the news of it is still to be read (`FlowInv`). `SavedInv` and `PictureInv` say what has been
  read by then, `RoundInv` how far the loops are, `QuietInv` that outside the capture nothing
  is sent that reprograms. With `IInv` there is one request or one reply under way in a
  capture that has not failed, so that a reply is the value of `Value`: that of the register
  the step asks for, when the guest left it.
- `RestoresAfterOneFault`: `MaxFaults <= 1` and `Spec` imply `[]CaptureRestores`. `RInv` follows
  the fault through the finally clauses: the late reply of the failed step may still be in
  front (`FinallyInv`: one or two packets under way, all of them good replies, `Exact` holds of
  `Due` again), and the way out of the capture may leave at most one command that
  reprograms (`BackInv`). `SafeInv` is about the attribute port, where a write that comes at the
  wrong turn of the flip-flop goes to a palette register: no request under way will.
  The assumption is needed. TLC shows that with two faults a capture loses registers, for
  example when the write of a register index is answered late and the `D` at the end, or a
  command of the finally clause, is rejected after that; the code makes no attempt to repair
  its own finally clauses.
- `TypeCorrect`: `Spec => []TypeOK`, for any `MaxFaults`. The types need the invariants:
  that no more planes or colours are read than there are is `RoundInv` and `PictureInv`, that
  the adapter's fields keep their size is that every request under way fits the register it
  goes to (`ShapeInv`, from `SavedInv`: what is put back is what was read), that `latest` is
  a screen is that a session outside the capture gets no reply of a port (`QuietInv`), and
  that the hits counted are no more than the stops is `HitsOK`: a stop packet on its
  way to `trace`, or a hit whose stack is being read, is a stop not yet counted.

`DiagnosticsProofs` (assumptions: those of the module; any number of attempts):

- `OnlyRequestedTest`: `Spec => []RequestedTest`. `VerdictInv`: past the tests, or with a
  hard copy prompt on the screen, the test has been asked for. `KeysInv`, for timely
  guests whose numbers are whole: keys that are still under way are the answer to the prompt
  the guest shows, which is the one the driver is at; `Coming` lists the screens that may
  follow. `LateInv`, for late guests to whom no word has come in part: every word under way
  is followed by its ENTER, so that at most one stands on the line, and no number is made of two.

The library's induction theorems take an operator as a parameter, which the provers
cannot instantiate. Where a proof needs an induction over numbers, it takes a least
counterexample instead (`NatLessThanWellFounded` and `WFMin` of `WellFoundedInduction`).

Only model-checked: liveness, which is beyond the prover, as are ENABLED and RECURSIVE
operators. None of the modules has a RECURSIVE operator. Every safety property of a
passing run is a theorem.

## Not modelled

- Parsing of configurations and command lines, wording and layout of output, JSON.
- The bytes of packets and their checksums, and the hardware path of `rsp.py type`: it
  sends every break as a make (`rsp.py` 1170), on every run, which needs no search; what
  86Box makes of such a code is not in this repository.
- Packing of planes, PNG encoding, the vision model; the images of ROMs and their
  checksums: data conversion.
- The memory dump client and the server's patch: one request and one reply on a
  connection of its own, without state that outlives them.
- Screen rendering: no state that another part relies on.
- `status`, `pid`, `port`, `logs` and `command`, which only read.

## Plan

1. Done: `Controller` with its proofs, `FifoPrinter`, `KeyQueue` and `KeyboardRing`,
   `RomSet`, `HardwareKeys`, `RspSession` with `GraphicsCapture`, `SmokeTest`,
   `Diagnostics`, and the proofs about the controller, the ROM sets, the printer, the
   ring, the hardware keys, the sessions, the capture, the smoke test and the diagnostics
   driver.
2. The hardware path of `_type_keys` as a second user of `HardwareKeys`' keyboard, once
   it is decided what `kb` does with a make whose high bit is set.
3. Several sessions at once on `RspSession`: a second client that connects while the
   first is served.
