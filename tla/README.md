# Verification of the LC-3 computer

This directory holds TLA+ models of the LC-3 computer in this repository, the
TLC configurations that check them on small instances, and proofs of their
central invariants that TLAPS checks for every value of the constants.

## 1. The system

The repository describes a small computer in SystemVerilog (`rtl/`), built for
a Tang Nano 20K board and for simulation, together with a tool chain in Rust
(`sw/`): an assembler, a memory image library, a Verilator-based simulator, a
command line tool and a desktop shell.

```
            rx ->  uart_rx --> lc3_keyboard --+
                                              |          lc3_timer
                                              v              |
  reset_button --> lc3_core <--bus--> lc3_memory_controller --+
                      ^    irq, mpr, halt     |     |
                      +-----------------------+     |  framebuffer
                                              |     v
            tx <-- uart_tx <--- display ------+   lc3_framebuffer_reader --> LCD
                                   |              lcd_timing
                                   +--> lc3_display_bridge --> lc3_text_console
                                         (two clocks)            |
                                                          lc3_text_renderer --> LCD
```

### Components, state, operations

| component | state | operations | properties that make it correct |
|---|---|---|---|
| processor core (`lc3_core.sv`) | 22-state controller, registers, PC, IR, PSR, saved stack pointers, `pc_loaded`, the bus registers | one state per clock; reset; freeze by `machine_halt` | implements the instruction set; consumes only fresh read data; one write per store; no access without privilege; interrupts nest and return |
| synchronous memory (`lc3_memory.sv`) | words, `rdata` | read and write on every edge, one clock late | a read returns the old word |
| memory controller (`lc3_memory_controller.sv`) | RAM, framebuffer, MCR, MPR, KBSR enable bit, one-clock pulses, read register | decode the address that stands on the bus at each clock | pulses happen once per access; a halted machine changes nothing; protection cannot be widened by a user |
| timer (`lc3_timer.sv`) | prescaler, tick counter, interval, ready bit | load, count, expire, read | exact period; ready bit set by every tick |
| keyboard register (`lc3_keyboard.sv`) | one character, ready bit | latch, read | no character read twice or lost unread |
| top level (`lc3_top.sv`) | wires | composition, reset button | the above end to end |
| serial receiver, transmitter (`uart_rx.sv`, `uart_tx.sv`) | bit and baud counters, synchroniser | frames of 10 bits | what is sent is received |
| display bridge (`lc3_display_bridge.sv`) | toggles and synchronisers in two clock domains | hand one character from the system clock to the LCD clock | each character exactly once, in order |
| text console (`lc3_text_console.sv`) | cells, cursor, top row, clearing | print, backspace, newline, scroll | behaves as a terminal |
| video (`lcd_timing.sv`, `lc3_framebuffer_reader.sv`, `lc3_text_renderer.sv`) | beam counters, pipeline registers | fetch the word or the cell for a pixel | the right pixel at the right place |
| simulator (`sw/verilator`, `lc3-sim`) | the compiled design, reset, loader port | new, load, run, step, drop | a load is whole although it clocks the core; runs in pieces are one run |
| assembler (`lc3-asm`) | symbol table, location counter, listing | two passes | addresses of both passes agree; the listing covers the image |
| memory images (`lc3-image`) | occupied words | overlay, compose, object file, symbol file | no overlap; what is written is read back |
| desktop (`sw/apps/desktop`) | open assemblies, memory, errors | open, select a tab, show | memory and view are of the sources that were opened |
| command line tool (`lc3-cli`) | the files | `asm`, `sim run` | files of a success are whole; what is simulated was assembled |

Everything in the computer runs on the system clock, except the display side
of the bridge, the console and the video blocks, which run on the LCD clock.
On one clock edge every block reads what the others held before the edge, so a
composition of blocks is a conjunction of their clock actions.  What is hard
about the design lies in values that are looked at in one clock and used in a
later one: the memory answers a clock late, privilege is checked a clock before
the write, the device pulses reach the devices a clock after the bus access,
and the address of an access stays on the bus after it.  Interrupts may come
between any two instructions, characters and timer ticks in any clock, the
reset button at any time.

The other hard place is the border between the two clocks.  The display bridge
hands a character over with a toggle, an answering toggle and eight data wires
without synchronisers; the reset button goes into both clocks; and the same
character goes to the serial transmitter, which becomes free at another time.

The tool chain is sequential.  What is hard about it is that one part relies on
what another has computed separately: the second pass of the assembler on the
addresses of the first, the listing on the words, the processor on the fields
that the encoder filled; and that a list of files is opened one by one, each of
them edited, missing, wrong or in the way of another.  The command line tool
writes two files in several steps, any of which may fail or be the last; the
simulator clocks a running core while it loads.

`PROJECT.json` lists each of these hazards at its line, with the properties
that are there for it.

## 2. Plan

The order is that of importance: first the processor, on which everything
else depends, then the computer around it, then its input and output, then the
tool chain.

| step | modules | state |
|---|---|---|
| 1 | `LC3Words`, `LC3Core`, `LC3ISA`, `LC3Machine`, `LC3MachineRun`, `LC3Programs` | done |
| 2 | `LC3Timer` with `IntervalTimer`, `LC3Keyboard`, `LC3MemoryController`, `LC3System`, `LC3SystemRun` | done |
| 3 | `LC3DisplayBridge`, `LC3TextConsole` with `TextTerminal`, `LC3TextDisplay` | done |
| 4 | `LC3SerialFrame`, `LC3UartRx`, `LC3UartTx`, `LC3SerialSender`, `LC3SerialLine`, `LC3SerialEcho` | done |
| 5 | `LC3DisplayPort` with `DisplayPort`: the display that step 2 assumes | done |
| 6 | `LC3LcdTiming`, `LC3Video` | done |
| 7 | `LC3Parser`, `LC3Encoder`: both passes of the assembler, that they agree on every address, also at the top of memory; `LC3Images`, `LC3Desktop`: overlay of images, what is left of one that is refused, opening several files into one program | done |
| 8 | `LC3Simulator`: new, load, run, step and drop in any order, around the core of `LC3Machine` | done |
| 9 | object and symbol files in `LC3Images`; `LC3CommandLine`: both commands with failures and kills | done |
| 10 | proofs for the timer inside the computer, the simulator and the files of the command line tool | done |
| 11 | proofs that the machine implements the instruction set and that handlers nest and restore; of the histories of the computer (keys, characters, interrupts, intervals); that the text display is a terminal; of the decoder, of the memory of the desktop application and of what `sim run` hands over; of the serial receiver and the video pipelines | done |
| 12 | proofs that the echo probe brings every character back in order, and of the safety half of the liveness properties: what goes down at each clock until an instruction ends, until the display is ready, until every character has been reported or echoed | done |

Abstract specifications: the instruction set (`LC3ISA`) for the processor, one
countdown (`IntervalTimer`) for the timer, a terminal that is a queue and a
scrolling screen (`TextTerminal`) for bridge and console, a two-state port
(`DisplayPort`) for the whole output side, and the machine (`LC3Machine`) for
the simulator: `OneMachine` says that an object is one from its first load on.

Timer and port promise something of every clock, so that a step which changes
nothing is as much to be justified as one that does.  `IntervalTimer` and
`DisplayPort` therefore are clock edges with inputs, and not specifications that
admit stutters: `Edge(read, load, word)` is what an edge does for what is then
on the three wires of the timer, `Edge(reset)` what an edge of the system clock
does to the port.  `KeepsPeriod` ties each edge of the computer to the edge of
the timer with `tmr_read`, `tmi_we` and `mem_wdata` as they then are;
`ImplementsPort` ties each edge of the system clock to the edge of the port, and
lets no other edge change it.

## 3. Modules and code

A variable is the register of the same name in the SystemVerilog source, an
action the branch of an `always_ff` block or the `case` label that carries its
name in capitals or in mixed case.  Wires are operators.  The value 16'hFE00 is
the number 65024; arithmetic wraps in `LC3Words`.  Operators of the form
`Name_What` are mutants: deliberately wrong versions of the operator `Name`
after them, with which a property is shown to fail.  `PROJECT.json` maps
each definition to its lines.

- `LC3Words`: 16-bit words, sign extension, instruction fields, memories as
  functions of the addresses that are not zero.
- `LC3Core`: `rtl/lc3_core.sv`, one action for each of its 22 reachable states,
  the tasks `issue_read` and `issue_write`, freeze and reset.  The input ports
  come as a record, so that `LC3Machine` and `LC3System` can wire them
  differently.
- `LC3Machine`: the core on `lc3_memory.sv`, with interrupt inputs that may
  change before any fetch.  `LC3MachineRun` adds history variables and the
  properties that need them.  `LC3ISA` is the instruction set as one step per
  instruction, fault or interrupt.
- `LC3MemoryController`: decoder, RAM and framebuffer, device registers,
  one-clock pulses.  It contains `LC3Timer` and `LC3Keyboard`, as in the code.
- `LC3System`: `lc3_top.sv` on its system clock, core and controller with the
  reset button; serial receiver and display are seen through the characters
  the one delivers and the ready flag of the other.  `LC3SystemRun` adds a
  keyboard that sends at the speed of the line, and history variables: among
  them the last answers the program has got from KBSR and DSR (`key_told`,
  `dsr_told`), in which the contracts of a program with its devices are stated.
- `LC3DisplayBridge`, `LC3TextConsole`, `LC3TextDisplay`: the text display.  An
  action is one edge of one clock.  `LC3TextDisplay` lets the edges come in
  any order or together and has the reset button, which each clock sees only
  at its own edge.
- `LC3DisplayPort`: controller port, transmitter, bridge and console together:
  what in `LC3System` is the single variable `display_ready`.
- `LC3SerialFrame`, `LC3UartRx`, `LC3UartTx`, `LC3SerialSender`,
  `LC3SerialLine`: the serial ports and a sender with a clock of its own.
  `LC3SerialEcho`: the probe of `uart_echo_top.sv` between a sender and a
  second receiver.
- `LC3LcdTiming`, `LC3Video`: the beam and the two pixel pipelines.
- `LC3Parser`: tokens of a line to a statement (`lexer.rs`, `parser.rs`).  Names
  are values with an upper case form, a string literal is its length.
- `LC3Encoder`: `encoder.rs`.  One action is one turn of a loop: `ReadOrigin`,
  `CountStatement` for the first pass, and one action for each `encode_...`
  function of the second.  `placed` keeps all values of the first pass's
  location counter.
- `LC3Images`: `lc3-image`.  `Loaded` is `load_memory_images`, which writes the
  part of an image before the word that clashes; `IsObject` and `TryFrom` read an
  object file, byte for byte.
- `LC3Desktop`: `open_paths`, `open_program_path` and `assemble` around the
  encoder, with files that change on disk between two openings; `SelectTab` and
  the rows that the source view cuts out of the image (`SourceRows`).
- `LC3Simulator`: `lc3-sim` and `sw/verilator`.  It extends `LC3Machine` and
  ties off the inputs that `lc3_verilator_top.sv` ties off; `Bus` is the
  multiplexer of the loader.  One turn of the loop of `load_dense_image` or of
  `run_cycles` is one action; the calls that only set wires or answer are one
  action each.  `new` may fail (`CreateFails`), with no object as its result.
- `LC3CommandLine`: `lc3-cli`.  `asm` is an action for each access to a file,
  with one for each way in which that fails; a write may take any part of
  the bytes.  `Kill` may come between any two of them.  `sim run` reads
  its files one by one, puts their images into one memory with one turn of the
  loader's loop each (`FitImage`) and hands over.

The memory, the keyboard register and the serial frame are shared by these
compositions; no module models a part twice.

## 4. What is checked

| run | instance | what it shows |
|---|---|---|
| `machine_programs` | every pair of the 21 instructions in `Choices` after a prologue that ends in user or supervisor mode, three protection words | `ImplementsISA`; fresh read data |
| `machine_interrupts` | every single instruction of `Choices`, two interrupt sources of priority 4 and 6 that ask before any fetch, three protection words, nine instructions or entries | no unauthorised access; privilege rises only through vectors; handlers nest by priority and restore their context; the controller returns to FETCH or HALT; `ImplementsISA` with interrupts |
| `machine_os_interrupt` | the protection word x0FF8 of the operating system, one interrupt | a violation, see section 7 |
| `system` | the program `lc3_uart_echo.asm` word for word, and a monitor with interrupt handler, timer and four user programs, left by RET or RTT; two characters, one reset at any clock, a display of any speed | no character is read or interrupts twice, and the handler finds the one it is called for; each one that waits in KBDR is loaded in the end; each one that is sent to the display is shown once; the timer gets the stored word, and each clock edge is one of the promised countdown; halt freezes; protection holds |
| `system_key` | the echo program, four characters | a violation, see section 7 |
| `display_port` | 3 by 2 screen, a letter and the three control characters, one clock per serial bit, both clocks in any order, reset at any time | both sinks take each character; the screen is a terminal; the data wires are still when sampled; each edge is the one that `LC3System` assumes of its display, which becomes ready again |
| `serial_line` | 28 clocks per bit, senders of 27, 28 and 29, two characters, disturbances of up to half a bit, resets inside a frame | each character is received once and unchanged; after a reset from the next pause on |
| `serial_echo` | 8 clocks per bit, a sender up to two characters ahead | characters come back in order and do come back |
| `video` | the real panel of 560 by 297 clocks, four power-on values of each counter, two of them beyond the frame | the beam comes round to the start of a frame and begins one every 560 times 297 clocks; each framebuffer word and text point is at its place on the panel |
| `desktop` | every program of up to three lines after its first over 24 lines with every kind of operand, labels just within and just out of reach, and collections of files that fit, overlap, are missing or are edited | both passes agree; only a label one past xFFFF panics; the listing covers the image; the processor's decoder reads back what was written; every occupied word of memory belongs to an assembly or to an image that was refused, and the source view shows each word in its place |
| `simulator` | objects that are made or refused, a memory of 16 words, three programs that store while they run, two loads, runs of 1, 7, 40 and unlimited cycles that add up to 40 clocks, with and without the Verilator back end | a load leaves exactly its image; runs are one machine |
| `command_line` | two object and two symbol paths, a wrong source and two programs that overlap, four commands, every failure and a kill between any two steps | files of a success are whole until the next run begins to write one; the simulator is given what was assembled |

Why the bounds are enough:

- *Programs.*  The controller carries nothing from one instruction to the next
  but the registers, `pc_loaded` and the bus, so pairs of instructions reach
  every transition between states, including an RTI after an RTI.  The
  addresses in `Choices` touch pages that each protection word opens and
  closes.  `MaxRetired` cuts a run after the prologue, the two instructions and
  the deepest nest of handlers, not before.
- *Timer.*  Inside the computer it is set to an interval of 2 milliseconds of 2
  clocks, so that both counters reload; the proof has no bound.
- *Computer.*  `KEY_GAP` is the least number of clocks between characters.  It
  is 20 or 40 in the runs and 2340 on the board, so that a program gets less
  time per character than it really has.  The programs are loops that treat
  each character alike; with two characters one is read or shown while the
  other waits.  `RAM_WORDS` is 12800, enough for the programs; addresses
  above it read as 0, as unmapped ones do.
- *Display.*  With three columns a row takes longer to clear than a character
  to cross the bridge, which is the case in which the console's readiness
  matters; two rows are the shortest ring that scrolls.  The real numbers,
  60 by 34 and 234 clocks per bit, only make the same phases longer.
- *Serial line.*  One clock in 28 is the largest difference that a receiver of
  28 clocks per bit stands: with 26 or 30 the run fails.  Two characters show
  all eight bits with both values of their neighbours that matter to the
  receiver, which looks at one bit at a time.
- *Echo probe.*  A sender three characters ahead loses one: a third character
  replaces a waiting one.  The probe's only use is at the terminal of a person.
- *Video.*  Nothing is scaled down.  Each counter starts at 0, at its last value
  in the frame, just beyond and at the end of its width; all other values are
  on the way from one of these.
- *Desktop.*  Addresses, offsets and counts have their real widths.  A program
  begins at xFFFD, so that three statements go past the top of memory, or at
  x3000.  Three statements are enough for a label before, at and after its use
  with a statement in between; the labels at distances 255 to 257 and 1023 to
  1025 are on both sides of what an offset field can hold.  Two files and three
  batches show a file that is opened twice, one that is in the way of another,
  and an edit in between.
- *Simulator.*  The loop of the loader is the same for each word; 16 words are
  enough for programs that store while a second load passes over them, in every
  phase of the core.  40 clocks are several instructions of each program.  The
  proofs have no bound.
- *Command line.*  Four commands are two runs of `asm` that share a file, a
  third in the way of one of them, and a run of the result.  Two words and one
  word are an object file that is cut at a byte, at a word and before its
  first word; `high` lies over the end of `low`.

### Fairness

Weak fairness is asked only of clocks and of a finger: the oscillator does not
stop (`FairMachineSpec`, `FairRunSpec`, `FairLineSpec`, `FairEchoSpec`), each of the two clocks goes on (`FairOutputSpec`), and the
reset button is not held for ever.  `system` also assumes `[]<>display_ready`, that the display
becomes ready again; `display_port` shows exactly that of the output side
(`DisplayComesReady`), from the fairness of the two clocks alone.  No program,
sender or user is assumed to do anything.  The tool chain promises nothing that
needs fairness: a program without a limit may run in the simulator for ever.

## 5. What is proved

The proofs hold for every value of the constants that the named assumptions
admit: every program, memory size, protection word and interrupt source; every
clock frequency; every screen size, character set and serial speed.  Every
safety property of the runs that pass is a theorem.  For each liveness
property but one there is a theorem with the part of it that is not about fairness: a
measure that clock edges lower until the awaited moment, or that nothing is
left to wait for when everything has come to rest.

| liveness property | theorem | what it says |
|---|---|---|
| `ReturnsToFetch` | `InstructionsTerminate` | `EdgesLeft`, never more than 9, falls at every clock until the next instruction; in the whole computer only a cleared run bit interrupts that (`OnlyHaltDelays`) |
| `DisplayComesReady` | `DisplayOnItsWay` | `FrameLeft` and `BridgeLeft` never rise while the display is busy, and fall at the edges of the clock whose turn it is |
| `AllReceived` | `ReportsInTime` | when the sender may begin the next frame, the last one has been reported |
| `EchoComes` | `EchoLosesNothing` | when sender, probe and line are at rest, no character is owed |

`KeyAnswered` depends on the program that is to load the character.  It is about
characters that wait with no read of the one before still under way: one that
the late pulses of that read clear (section 7) is never waiting in this sense
and is not loaded.

- `LC3CoreProofs`: arithmetic of words, and one clock of the core for any inputs, for use in both
  compositions.  `CoreFlow` says what the controller may assume in each state:
  the state to return to belongs to the instruction in `ir`, an RTI is half
  done exactly when `pc_loaded` is set, the address of a vector read is in the
  vector table, the write strobe is up only in the state after a store or push.
  `Remaining` counts for each state the clocks to the next instruction; the
  state to which a read returns counts one less than the wait (`StepCountsDown`),
  and an RTI comes through `FETCH_MEM` a second time, but nearer to its end.
- `LC3MachineProofs`: `MachineInv` is the conjunction of `MachineTypeOK`,
  `CoreFlow` and `ReadDataFresh`.  None of the three is inductive alone: fresh
  data depend on which state follows a read, and that on `CoreFlow`.  From it
  follow `StrobeDrops`, `RtiComplete`, `BusAuthorised` and, as an action
  property, `PrivilegeOnlyThroughVectors`.
  - `RunInv` is for the refinement.  It says for each state of the controller
    how the registers, the bus and memory follow from `arch`, the state of the
    instruction set at the last boundary: nothing of an instruction can be seen
    before it is decoded (`InstructionHidden`), then what it has read and
    computed so far is what the instruction set says (`InstructionDecoded`,
    `InstructionOnBus`); an entry has pushed the words of the interrupted
    program (`FramePushed`).  So the last clock of each instruction, fault or
    entry is one step of `LC3ISA`, and every other clock a stutter
    (`CoreImplementsISA`).
  - The handlers are programs, and what they return to the interrupted program
    is up to them.  `HandlersTidy` (in `LC3MachineRun`) is their contract: a handler stays a
    supervisor, and at its RTI the registers, the stack pointer and the two
    words of its frame are as the entry left them.  Under it the controller
    gives back the PC, the PSR, the registers and both stack pointers, through
    any nest (`TidyHandlersRestore`), and no more handlers are nested than
    there are priorities (`TidyHandlersNest`).  Without it neither is true: a
    handler may return to a lower priority than it came from.  `RestoreInv` is
    the invariant: all waiting frames were entered with the same saved
    supervisor stack, only the outermost can have interrupted a user, and what
    an RTI has popped so far is the innermost frame.
- `LC3SystemProofs`: `SystemInv` adds to types and `CoreFlow` that a write on
  the bus was allowed by the present privilege and protection (`WriteChecked`:
  the write that could change MPR is itself the one on the bus), and what may
  still be on the bus of a frozen machine (`FrozenWrite`).  From it follow
  the four properties of halt and protection.  `TicksInRange` bounds the two
  counters of the timer; with it each branch of the timer is the edge of
  `IntervalTimer` for the wires of that clock, so that the computer neither
  loses nor shifts a tick (`PeriodKept`).
- The properties with histories are about devices and the programs that use
  them.  A program that stores to DDR without asking DSR loses characters, in
  the code as in the model, so these theorems start from a contract of the
  program with one device, stated in `LC3SystemRun`.

  | theorem | contract of the program |
  |---|---|
  | `CharactersAreDisplayed` | `DisplayAsked`: it stores to DDR after DSR was ready |
  | `KeysAreReadOnce`, `HandlersHaveTheirKey` | `KeysAsked`: it loads KBDR when it was told of a character, by KBSR or by an interrupt, and uses the address for nothing else |
  | `InterruptsPerKey` | `KeysAsked`, and `HandlersAnswer`: a handler that opens itself again has loaded the character |
  | `IntervalsAsWritten` | `TimerOffStack`: no interrupt pushes the PSR onto TMI |

  What is proved is that the contract is enough in spite of what the hardware
  does late: the pulses reach a device a clock after the access, are repeated
  while the address stands on the bus, and clear the ready bit two clocks after
  the read.  `KeyInv` says of all these clocks that what the core has been told
  of is still waiting (`ToldWaits`), that the late pulses find nothing that
  anybody has been promised (`KeyGone`), and that the bus of a halted machine
  shows no read of KBDR (`HaltedAway`).  `KeyCounted` adds that a waiting character has either not
  been counted as an interrupt, or cannot be counted again before it is loaded.
  `DisplayInv` is the same for DSR and DDR.
- `LC3DisplayPortProofs`: `HandshakeInv`.  The six toggles and their copies are
  a ring around which at most one difference travels; where it is decides
  whether a character is waiting, crossing, or answered, and the console is
  ready whenever one is delivered.  It holds through a reset that the two
  clocks see at different edges.
  - `TerminalInv` adds where each character is (`AtConsole`, `Crossing`) and
    that the console's cells, read through the ring of rows, are the screen
    (`ConsoleInv`), also while a new row is being cleared cell by cell
    (`ClearingUnseen`): the row counts as empty from the newline on.  So each
    edge of either clock is a step of `TextTerminal` or a stutter
    (`TerminalImplemented`).
  - `OutputInv` adds that an offered character finds both
    sinks free.  So the output side is a use of the text display that the latter
    allows (`DisplayUsedWell`), and it implements both the terminal
    (`ScreenIsTerminal`) and the port that `LC3System`
    assumes (`PortImplemented`).  This joins the two halves of the computer.
  - `DelayInv` adds the ranges of the counters.  `RingLeft` is where in the
    ring the difference is; `BridgeLeft` puts it before the cells that are
    still to clear, since a row may begin to be cleared while the next request
    is on its way, but not when it has arrived (`LcdShortens`).
- `LC3TimingProofs`: devices that are right because they count their clocks
  right.
  - The serial receiver.  `LineInv` ties every register of the receiver to the
    `Age` of the frame that the sender is in (`RxAt`), and both stages of the
    synchroniser to what the line was one and two clocks ago (`LineWas`).
    `SampleInBit` is the arithmetic: the sample of each bit is taken while the
    sender sends that bit, for every sender that is within the tolerance of the
    receiver (`WithinTolerance`).  A disturbance of up to half a bit ends
    before the receiver looks again (`NoiseAt`), and after a reset inside a
    frame nothing is expected before the next pause.  `ReceivesWhatWasSent`
    holds for every bit time, sequence of characters, pauses and resets.
  - The echo probe.  The argument of the receiver is about any receiver and any
    line (`RxStep`, `Tracks`), so it holds for the probe's and for the one at
    the far end, whose sender is the transmitter (`TxAge`).  `EchoInv`: the
    characters that are owed stand in four places, on the line back, in the input of
    the transmitter, in the waiting place and on the line to the probe, and
    move on in that order.  One waiting place is enough (`WaitsInTime`): if a
    character waits and another is on its way, that one was begun after the last one
    had come back, hence later than the frame that the transmitter is sending
    as it waits.  This is where `Ahead <= 2` is needed, which is a hypothesis
    of both theorems; with three ahead the probe does lose characters.
  - The beam.  `FrameLeft` counts the clocks to the next frame, from wherever the
    counters stand; each clock takes one away (`FrameAlwaysComesRound`), so it
    is reached although nothing initialises them.
  - The pictures.  `VideoInv`: what is in the first stage of a pipeline belongs
    to the position at which the beam was one clock ago, what is in the second
    to that of two clocks ago.  `PrefetchFits` is the arithmetic of the
    addresses that are asked for early, at the left edge of a line too.
- `LC3DesktopProofs`: `EncoderInv`, for every program.  `Counted` is what the
  first pass knows of each statement that it is past: its label's address, and
  that the next address is its own plus the words it takes.  `SecondPass` says
  that the words made so far end where the first pass placed the present
  statement; it is inductive because each `encode_...` function makes as many
  words as were counted, or complains (`StatementEmits`).  There is one place
  where this is not obvious: an instruction that is relative to the PC is
  dropped without a complaint when it lies past the top of memory, but then
  the first pass has complained.  From the invariant follow `PassesAgree`,
  `PanicsOnlyAtTop` and `ListingCoversImage`.
  - `Decoded` is the invariant for `DecodesAsWritten`: each word made so far
    stands in the slot of its row, and the decoder of the processor finds in it
    the opcode and the operands of its statement; an offset, sign extended and
    added to the PC as the processor does it, reaches the label.
  - `MemoryInv` is for `MemoryAccounted`: the rows of a listing share out its
    words (`RowsShare`), each opened image lies in memory as it is, and what
    else is in memory belongs to an image that was refused.
- `LC3SimulatorProofs`: `SimulatorInv`, for every memory size, image and order of
  calls.  `Loading` says that the words below `addr` are those of the image:
  the loader owns the bus in each clock of a load, so that no store of the
  core can pass.  `Fresh` says that up to the end of the first load the core is
  in its reset state and memory is a prefix of the image; so the load ends in
  an initial state of `LC3Machine`.  `WiresDown` says that the loader is off
  the bus outside a load, so that each clock of a run is one of `LC3Machine`.
- `LC3CommandLineProofs`: `CommandLineInv`.  `Writing` says that what the object
  file holds and what is still to be written make the object of the image; and
  that no successful run is remembered of a file from the moment a later run
  has created it.  From it follows `FilesOfLastSuccess`, for any number of
  paths, programs and commands.
  - `RunsWhatWasAssembled` goes through the bytes.  `FilesBegun`: each file is
    the beginning of the object of some image.  `ReadBack`: what `TryFrom` makes
    of such a beginning is the beginning of that image, or it is refused.
    `InPlace`: after `n` turns of the loop the memory consists of the first `n`
    images and nothing else.

Assumptions are those in the `ASSUME`s of the modules: constants have the
widths the code declares, the RAM ends below the framebuffer, sources consist of
tokens, the images to load have the size of the simulator's memory, an
assembled image fits into memory (`ListingCoversImage` of the assembler), and
a sender's stop bit begins before the receiver samples it and ends after the
receiver has reported the character (`WithinTolerance`, of the serial line and of
the sender of the echo probe).  For 28 clocks per bit this admits the
senders of 27, 28 and 29 clocks and no others, which are also the only ones
with which the run succeeds.

The type invariants are proved and not run: `MachineTypeOK`, `SystemTypeOK`;
likewise `StrobeDrops` and `RtiComplete`, which the proofs of the properties
above rest on, and `OnlyResetRestarts`: the case that matters, the push of an
interrupt entry left on the bus of a halted machine, does not meet MCR in the
programs of `system`, so that a run would not show more than that MCR keeps
its value.

## 6. What is only model-checked

Liveness (`ReturnsToFetch`, `KeyAnswered`, `DisplayComesReady`, `AllReceived`,
`EchoComes`) is beyond the prover: that the measures of section 5 reach zero
under the fairness of the clocks is checked by TLC.  The two runs that end in a violation
(`InterruptsReachHandler`, `KeyClearedByItsRead`) are counterexamples and need
no proof.

No configuration lists the contracts of section 5 (`HandlersTidy`,
`DisplayAsked`, `KeysAsked`, `HandlersAnswer`, `TimerOffStack`).  They are
conditions on the programs, not promises of the code, so that a program which
breaks one refutes nothing.  To see that a theorem applies to a program, add its
contract to the INVARIANTS of the run: `HandlersTidy` to
`MCMachineInterrupts.cfg`, the others to `MCSystem.cfg`.  The programs of these
two runs keep all of them.

## 7. Where code and documents differ

- `machine_os_interrupt`: an interrupt entry checks its pushes and its vector
  read with the privilege of the interrupted program.  Under the protection the
  operating system sets up, an interrupt of a user program stops the machine
  half way (`lc3_core.sv:361`), while `docs/os-compatibility.md` lets the handler
  be entered.
- `system_key`: the pulse that clears the keyboard's ready bit is raised in
  every clock in which the address of KBDR stands on the bus, also after the
  load.  A character that arrives in those few clocks disappears unread
  (`lc3_memory_controller.sv:173`), while the test bench and the road map say
  that reading clears the bit.  TMR has the same pulse
  (`lc3_memory_controller.sv:189`).

Remarks on the tool chain, which no run of its own shows:

- `.FILL` of a label that stands one past xFFFF ends the assembler with a panic
  instead of a diagnostic: the `expect("address fits in u16")` of
  `encoder.rs:310`.  Such a label is accepted by the first pass.  The action is
  `FillPanics`, and `PanicsOnlyAtTop` that nothing else leads there.
- The doc comment of `open_program_path` (`lib.rs:113` of the desktop
  application) names a source that cannot be assembled among the errors; the
  code opens such a source for the sake of its diagnostics (`OpenWithoutImage`).
- `lc3_load_image` and `lc3_sim_run` return a C `int`, which `ffi` of `lc3-sim`
  declares as `usize`.  The model takes the three values that are returned
  (`lc3_sim_ffi.cpp`), as they arrive when the compiler clears the upper half
  of the register; `UnknownStatus` is therefore never answered.
- An object file that was cut at a word by a kill is a whole object for
  `sim run` (`MemoryImage::try_from` has no length to compare with).
  `RunsWhatWasAssembled` therefore counts such a file as far as it goes.

## 8. What is not modelled

Of the assembler the characters of the source text are left out (which of them
make a token), and the wording of diagnostics; of the desktop application the
layout of its window, the speeds, which nothing uses yet, and the fixed data of
its other panes.  Of the command line tool the parsing of arguments is left out,
and `lc3_sim.cpp`, a second front end of the simulator.  It is assumed that
commands are given one after another, that an object file and a symbol file
have different names, and that what a process has written survives its end.
Left out for good: the bring-up tops, which are fixed demonstrations with LEDs;
the font table, the PLL, and a framebuffer reader that no top uses; the scripts,
which convert files.  Of
modelled components the colour conversion of the framebuffer reader, the LEDs
of the echo probe and the output `text_pixel_on`, which is not connected, are
left out.  Metastability is modelled by the order of the edges: a register
that samples a changing bit settles on the old or on the new value.  That the
registers of one clock might leave an asynchronous reset in different cycles is
a matter of timing constraints and is not modelled.
