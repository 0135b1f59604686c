# A Bomberman on an FPGA, in TLA+

The game runs on a DE2-115 board. A Nios II processor inside the FPGA runs a C
program that enumerates a USB keyboard through a CY7C67200 host chip and puts
the code of the pressed key on an output port. Circuits in SystemVerilog move
the avatars of two players once per video frame, and a VGA controller and a
colour mapper draw the result. What the program prints goes through the file
descriptors of its board support package to a JTAG UART.

This directory holds TLA+ modules for the parts of the system that keep state,
the configurations with which TLC checks them, and proofs that TLAPS checks.
Source paths are relative to `src/`.

## The system's parts

| part | source | state | operations | modelled in |
|---|---|---|---|---|
| avatars | `Avatar_1.sv`, `Avatar_2.sv` | position, motion, step count, ready, direction, bomb request, dead | one frame: reset, burn, turn, drop a bomb, idle, stride | `Avatar`, `CellAvatar` |
| colour mapper | `Color_Mapper_Final.sv` | none | which texel or layer a pixel shows | `ColorMapper`, `Picture` (avatars and board) |
| video timing | `VGA_controller.sv` (`VGA_controller_Final.sv` is a copy) | pixel clock, two counters, three registered signals | an edge of the 50 MHz clock, the reset button | `VgaTiming` |
| HPI access path | `io_handler.c`, `hpi_io_intf.sv`, ports of `nios_system` | output ports, interface registers, the bus | `IO_init`, `IO_write`, `IO_read`, statement by statement | `HpiBus`, `HpiPort` |
| keyboard program | `main.c`, `usb.c` | where it is, the last message, toggle, report size, `KEYCODE`; the chip's memory | nine enumeration steps, the polling loop, retries, hot plug | `UsbHost`, `TdLists` |
| JTAG UART and driver | `altera_avalon_jtag_uart_*.c`, `nios_system_jtag_uart_0.v` | two rings, interrupt enables, idle seconds; two FIFOs | init, read, write, close, ioctl, the interrupt routine, the alarm | `JtagUart`, `ByteStream` |
| file descriptors | `HAL/src/alt_open.c`, `alt_fd_lock.c`, `alt_io_redirect.c`, ... | device list, descriptor table, high-water mark | start-up, open, close, lock, ioctl, fcntl, read, write, ... | `HalFiles` |
| game hub, top level | `Game_Hub.sv`, `Bomberman.sv` | none at this commit | wiring; constants for avatars, maps and score | `Maps` (the wall map) |
| bombs, trees, ball | `Bomb.sv`, `Tree.sv`, `ball.sv` | | | not part of the game at this commit |
| sprites, fonts, displays, processor, rest of the support package | the rest | none, or not used | | not modelled |

How they interact:

* `main.c` calls `usb.c`, which reaches the chip only through `IO_write` and
  `IO_read`. Those are six stores or loads to ports of the Nios system each;
  `hpi_io_intf.sv` copies the ports to the pins of the chip, one clock later.
  `HpiBus` shows that the calls then behave like accesses to a memory behind
  four registers (`HpiPort`); `UsbHost` takes such an access as one step.
* `main.c` and `usb.c` print what they do. A `printf` is a `write` on
  descriptor 1, which start-up has put on the UART (`HalFiles`); the driver
  puts the characters in a ring, and its interrupt routine moves them on
  (`JtagUart`). So a program that waits in `printf` does not poll the
  keyboard.
* `main.c` writes the key code to a port that both avatars read. The port
  holds one byte, so of two players at most one acts in a frame.
* `VGA_VS`, made by the VGA controller, is `Frame_Clk`, the clock of every
  game register. `VgaTiming` says when it ticks and that it goes on ticking;
  `Avatar` takes one tick as one step.
* The colour mapper draws an avatar from its position and step count, pixel by
  pixel, while those registers change between frames (`Picture`).
* At this commit `Game_Hub.sv` drives constants where the avatars and maps
  will go, and its WELCOME / GAME / SCORE / END machine is commented out.
  `Avatar` models the circuit as it is written, for every input it can be
  given.

What makes the system hard is listed, line by line, under `hazards` in
`PROJECT.json`. In short: arithmetic on unsigned registers that nothing
bounds; resets and flames in the middle of a step; an asynchronous button; two
register chains between a C statement and the chip; a chip that changes its
memory while the program reads or writes it; messages that are read and then
cleared; lists spelled out word by word; rings shared with an interrupt
routine without a lock; a time-out that this build does not have.

## The modules

### Avatar, CellAvatar, AvatarProofs

`Avatar` is one player's circuit. A variable is a register, an action is one
rising edge of `Frame_Clk` in one branch of the `always_ff` process:
`ResetFrame` (lines 54-65), `Burn` (68-75), `Turn` (the four direction keys),
`DropBomb`, `Idle` (other keys), `Stride` (152-164). Positions and motions are
10-bit unsigned: a motion of minus one is 1023, and sums wrap. The comparisons
`Avatar_Y_Motion >= 0` and `Avatar_X_Motion < 0` are unsigned as well, hence
always true and always false, so a key sets the motion whatever it was before.

The keys, the reset and the bomb, tree and flame maps are inputs, and a bomb
or flame may be anywhere at any frame: the model chooses what is read. Only
the wall map is fixed. What is abstracted is which player it is (the key
codes).

`CellAvatar` is the specification without pixels and frames: an avatar stands
in a cell or is on its way to a neighbouring one that is no wall, arrives
where it set out for, and once dead is nowhere until it is put back at its
start.

* `OnTheGrid`: a living avatar is always exactly between the centres of two
  neighbouring cells that are no walls, along the way it faces.
* `ReadsOnBoard`: the map bits read for it exist. Nothing in the code checks
  it.
* `BombWhereItStands`: a bomb is asked for in the avatar's own cell only, and
  never in cell 0, the value for "no bomb".
* `ImplementsCellAvatar`: the refinement, with the cell last left and the cell
  headed for as functions of the registers. It implies `DeathLastsUntilReset`
  (only a reset revives), which is stated and proved but not run by itself.
* `StepEnds`: a step ends, whatever flames come, unless resets keep coming.

A dead avatar sits at position (0, 0), where the wrapped subtraction gives a
cell number far outside the map, and its registers go on moving when keys are
pressed (`Ready` is not cleared by a death): it can walk back into the
picture. Nothing in the repository says who should look at `Is_Dead`. The
properties are about living avatars; the refinement says that a dead one stays
dead.

### ColorMapper, Picture, Maps, MCAvatar, PictureProofs

`ColorMapper` is the part of `Color_Mapper_Final.sv` that decides what a pixel
of the game shows: whether it is on an avatar (`av_on`), which row and column
of the sprite sheet (`Pose`, `Row`, `Column`), and which layer of the board
(`cell_at`, `Layer`, a coin only in the middle of its cell). Screen coordinates are unsigned and are compared with
differences that may be negative, which makes those huge; `Unsigned` wraps
them at 2^16 in the place of 2^32, both far beyond any coordinate.

`Picture` puts an avatar and the colour mapper together, which compute the
same cells from different numbers.

* `DrawnWhereItIs`: a living avatar is drawn whole, inside the board, from one
  pose of its sheet; its body covers only the two cells it is between, never a
  wall; and while it stands, the cell it burns and drops bombs in is the one
  it is drawn in.

Run `avatar` uses the game's own numbers: cells of 40 pixels, 12 by 12 cells,
10 bits, the wall map of `Game_Hub.sv` (`Maps`), so no bound is smaller than
the real thing. The start cell is (1, 1), as in the commented-out code of the
hub.

### VgaTiming, VgaProofs

An action is an edge of `Clk` (`RunningEdge`, `HeldEdge`) or a movement of the
reset button between two edges (`Press`, `Release`): the button is not
synchronised, and the raster is reset asynchronously while `VGA_CLK` is not.

* `SignalsMatchPixel`: sync and blanking belong to the pixel the counters
  show; nothing is displayed in a sync pulse.
* `OnePixelAtATime`: pixels are visited one by one, modulo 800 x 525.
* `TickOffScreen`: `Frame_Clk` rises at the start of line 492, off the screen,
  or at the first pixel after a reset. So a reset makes an extra frame.
* `FrameClockRuns`: it goes on ticking unless the button is held or pressed
  again and again.
* `FrozenUnderReset`, part of the inductive invariant and only proved: a
  pressed button holds the first pixel and the frame clock low.

Run `vga` has the real raster.

### HpiBus, HpiPort, HpiBusProofs

`HpiPort` is what `usb.c` relies on: `HPI_ADDR` sets a pointer, `HPI_DATA` is
the word it points to and moves it on, a write happens once, a read returns a
value the register had during the call. `HpiBus` is how that is done: the
statements of `IO_init`, `IO_write` and `IO_read`, the output and input ports
of the Nios system, every register of `hpi_io_intf.sv`, the shared data lines,
and the chip's end of the bus, which is external. Every step but `Own` (the
chip changes its memory) and `Call` is one clock edge.

`Gap` is the fewest clocks between two statements, `Access` the clocks the
chip takes to drive the bus. `Gap >= Access + 3` is what the register chains
need, and is tight: with one clock less TLC finds reads of old data. The
processor is the "tiny" Nios II, which takes at least six clocks for an
instruction and two instructions for a store, so the code has room.
`hpi_io_intf.sv` lets go of the data lines one clock before the write strobe
rises at the pin; the model lets undriven lines keep their level (`held`), and
the write depends on it.

* `ImplementsHpiPort`: the refinement.
* `StrobeFramed`: chip select and address are steady around a strobe.
* `NoContention`: after `IO_init`, the two ends never drive the bus together.
* `HighZUnlessWriting` (expected violation): the output ports come up as 0,
  which is chip select and both strobes active, so the FPGA drives the bus
  before `IO_init`, and `hpi_io_intf.sv:16` says it should not. `HpiPort`
  admits this as the action `Glitch`.

Two words of two values are enough to tell a word from its neighbour and a new
value from an old one; the control does not depend on either, and the proofs
are for any number.

### UsbHost, TdLists, MCUsbHost, UsbHostProofs

`TdLists` is every list of transfer descriptors `usb.c` spells out: for each
of the nine steps the SETUP packet's length, and for each descriptor its
buffer, size, packet identifier, device, toggle and link, as addresses of the
chip's memory.

`UsbHost` is the program's control flow: soft reset, two commands with an
acknowledgement, device detection, nine steps that each write and submit a
list and wait for the chip's message, the endpoint descriptor that is
submitted as if it were a list, and the polling loop. An action is one or
several accesses between which the chip's actions commute with them; in
particular writing a list is two actions (its first descriptor, the rest), and
`UsbWaitTDListDone` is two (read the message, clear it).

The chip (firmware and bus) and the keyboard are external. The chip takes up a
submitted list when it is idle and goes through it descriptor by descriptor as
it then stands in memory (`SetupDone`, `DataDone`, `StatusDone`, `PollDone`),
following the links; the outcome of the first one goes to the control word at
0x0508, and the end is reported. A list submitted meanwhile survives or is
overwritten, and the chip may be led to descriptors it has done or to what is
none (`PassOver`). The keyboard's descriptors have the sizes the program's buffers
are made for (device 18, configuration 34, HID 9, report 59 bytes), and it
sends them in packets of 8 with alternating toggles.

An environment says what may go wrong. `faults`: transfers fail, keyboards
come and go; the keyboard's counts of packets and polls are not followed then,
any data packet may be the right one. `prompt`: the chip is done with a list
within the 10 ms the program sleeps, and leaves it alone in the far less than
1 ms in which it is written. `MCUsb.cfg` checks a faulty chip that is not
prompt and a quiet one that is.

* `StepsAcknowledged`: the program is past a step only if a keyboard
  acknowledged its request, although every list is written again while the
  chip may be working on it.
* `RequestsInOrder`: requests are acknowledged in the order of the steps.
* `NoPhantomGameKey`: what is exported is never a key of the game unless a
  keyboard sent it since the last reset: the word read also holds a link of
  the descriptor lists (its low byte 0x20 or 0, which are no keys of the
  game).
* `ListsInStep`: in a calm environment the chip is never led off a list; each
  packet has the toggle and the room the keyboard's data needs, no data is put
  over a descriptor still to come, and the confirmation goes the right way.
* `WholeReports`: the size of the polls, read out of memory that the fifth
  list has written to as well, is 8.
* `TogglesAgreeWhenEven`: program and keyboard agree on DATA0 or DATA1 exactly
  while the number of polls without a report is even. The program turns its
  toggle with every poll that is done, answered or not, and never resets it on
  a hot plug, so this is all that can be said.
* `KeepsPolling`: in a calm environment, the program polls again and again.
* `FailedStepIsRepeated` (expected violation): `main.c:210` says so, but
  `UsbGetRetryCnt` only reads the control word again, for ever.

Assumed throughout: an idle chip takes a list up within the 10 ms (ten USB
frames) the program sleeps. Without `prompt`, even if nothing fails, the done
message of a repeated list can arrive during `UsbGetRetryCnt`, which consumes
it and waits for one that never comes (`usb.c:569`; TLC reports the deadlock
in an environment with both fields FALSE), and a late fifth list can put a
zero where the size of the reports is read. So the calm properties need it.

One key is enough: a key is only compared with keys, and 4 is one of the
game's.

### JtagUart, ByteStream, MCJtagUart, JtagUartProofs, JtagStreamProofs

The driver that is compiled (the interrupt driven one) and the UART it drives.
An action of a call is a statement with at most one access to what an
interrupt can change: `WriteSpace` computes the room in the ring from
`tx_out`, `WriteCopy` and `WritePublish` fill it and move `tx_in`, `WriteKick`
enables the interrupt, `WriteWait` and `WriteActive` are the loop and the test
behind it; reads likewise. The interrupt routine (`ReadControl`,
`ReceiveChar`, ..., `SendDone`) is entered between any two of these and runs
to its end before the call goes on, while the host takes and sends characters,
pauses, comes and goes at every moment. `Tick` is the alarm that counts the
seconds without activity. The host (`alt_jtag_atlantic`) is external. Calls of
length 0 are among the calls; they return what a failed call does.

The routine reads a character and the number of those left in one access, but
the UART does not sample both at once: `RVALID` is registered one clock before
`RAVAIL` is the level of the FIFO (`nios_system_jtag_uart_0.v:511`, `:520`).
`ReceiveMissed` is the outcome in which a character arrives in between: none
was handed over, one is counted, and the routine turns its interrupt off as if
the ring were full.

`ByteStream` is one direction of a serial line: characters are accepted from
an offer, kept in order, delivered in order.

* `NoLostKick`: whatever is in the transmit ring has the interrupt enabled, or
  a write on its way to enable it. The routine turns the interrupt off when it
  finds the ring empty, which a write may be filling.
* `ReceiveResumes`: the receive interrupt is off only while there is something
  in the ring to read, or a read that took it is on its way to enable it. It
  may be off with room in the ring, but never with nobody to turn it on again.
* `SnapshotsHold`: a room or a count computed earlier still holds when it is
  acted on; the routine never overfills the FIFO, which would drop characters.
* `UnlimitedPatience`: the count of idle seconds never reaches the time-outs
  that stand for "for ever".
* `TransmitsStream`, `ReceivesStream`: each direction implements `ByteStream`.
* `RoutineEnds`: the routine does not go round for ever on an interrupt it
  neither serves nor turns off.
* `RingDrains`, `ReaderServed`: with a host, what is written leaves the ring,
  and a waiting read gets what has arrived.
* `OffMeansFull` (expected violation): `altera_avalon_jtag_uart_init.c:158`
  says that the routine turns the interrupt off because the buffer is full;
  `ReceiveMissed` turns it off with the ring not full. `ReceiveResumes` and
  `ReaderServed` say that this does no harm: the routine has put a character
  into the ring before, whose read turns the interrupt on again.
* `EioMeansNoHost` (expected violation, in a system with a clock): after its
  wait a write gives up if the host was idle for a single second, whatever the
  time-out.

A write waits for ever if the ring is full and no host is connected: there is
no system clock (`ALT_SYS_CLK none`), so the alarm cannot be started and the
time-out is `INT_MAX`. The driver documents this
(`altera_avalon_jtag_uart_init.c:92`), so no property says otherwise;
`RingDrains` is about a connected host.

Bounds. A ring of 3 is the least in which it holds a character and room at the
same time while a FIFO of 1 is full; both runs have it. `jtag_uart` has one
character, one-character calls, a ticking clock and every order of calls,
ticks and host moves. What several characters add is their order and partial
writes: `jtag_host` has two, writes of two into a ring with room for one, no
clock (as in this build) and a connected host. Its specification `OneWaySpec`
restricts only when callers call and what the callers and the host send, of
whom no fairness is asked: characters are under way in one direction at a
time, while the other is empty and at its start, and at most one of all
characters differs from the rest, which is enough to see one lost, doubled or
out of order, wherever in a stream it is. `jtag_uart` has both directions at
once, and the theorems have any characters. `IntMax` is 5, so that the count
reaches its end.

### HalFiles, MCHalFiles, HalFilesProofs

The table of descriptors: `alt_sys_init` and the three steps of
`alt_io_redirect`, then every call a program may make (`Open`, `Close`,
`Lock`, `Unlock`, `Ioctl`, `Fcntl`, `Read`, `Write`, `Isatty`, `Fstat`,
`Lseek`). There is no operating system and interrupts do not use descriptors,
so a call is one step. The descriptors passed are in use, or negative
(`BadDescriptor`): the code does not check for more. No filesystem is
registered in this program, so those branches are left out. What a device does
with data is `JtagUart`'s; here it returns a count or an error.

* `HighWaterMark`: no descriptor lies above the mark up to which the check for
  a lock looks, but for the streams before the first open.
* `OneLockHolder`: a device is never locked by two descriptors, although a
  lock can be granted that should not be.
* `NoOpenWhileLocked`: while a device is locked, no further descriptor for it
  comes into being.
* `NoLeak`: a descriptor comes into use only by being returned to a caller of
  `open`: failed calls and the redirection leave none behind.
* `StdioWorks`: once `main` runs the streams are on the UART, open the right
  way, and nobody has the UART for himself.
* `ExclusiveLock` (expected violation): the loop of `alt_fd_lock` stops one
  descriptor early (`alt_fd_lock.c:61`), so a device that is also open as the
  highest descriptor is locked all the same.

Five descriptors, three of them the streams, leave two to hold, to lock and to
run out of; redirection needs the fourth.

## The runs

| run | module, configuration | question | distinct states |
|---|---|---|---|
| `avatar` | `MCAvatar` | safety, picture, refinement and the end of every step, at full size | 461 thousand |
| `vga` | `VgaTiming`, `MCVgaTiming.cfg` | safety and a running frame clock, at full size | 840 thousand |
| `hpi_bus` | `HpiBus`, `MCHpiBus.cfg` | safety and refinement | 113 thousand |
| `hpi_high_z` | `HpiBus`, `MCHpiBusHighZ.cfg` | is the bus let go before `IO_init` (no) | |
| `usb` | `MCUsbHost`, `MCUsb.cfg` | safety with every fault; lists, toggles and polling without | 499 thousand |
| `usb_retry` | `MCUsbHost`, `MCUsbRetry.cfg` | is a failed request repeated (no) | |
| `jtag_uart` | `MCJtagUart` | interrupts, rings and time-outs, with a host that comes and goes | 6.6 million |
| `jtag_host` | `MCJtagUart`, `MCJtagUartHost.cfg` | the two streams, and that they move, with a connected host | 93 thousand |
| `jtag_off` | `MCJtagUart`, `MCJtagUartOff.cfg` | does the receive interrupt go off only when the ring is full (no) | |
| `jtag_eio` | `MCJtagUart`, `MCJtagUartEio.cfg` | does -EIO mean that no host is there (no) | |
| `hal_files` | `MCHalFiles` | every sequence of calls | 140 thousand |
| `hal_lock` | `MCHalFiles`, `MCHalFilesLock.cfg` | does a lock exclude others (no) | |

Deadlock is checked in every run. What each violation means is under
`findings` in `PROJECT.json`.

## Fairness

* `Avatar`: weak fairness of `Stride`. `Frame_Clk` ticks for ever
  (`FrameClockRuns`), and a frame without reset and flame in the middle of a
  step is a stride.
* `VgaTiming`: weak fairness of `RunningEdge`; the board's oscillator never
  stops. Nothing is assumed of the button.
* `UsbHost`: weak fairness of the program, which never gives up the processor,
  and of the chip. Nothing is assumed of the keyboard; `KeepsPolling` is about
  calm environments.
* `JtagUart`: weak fairness of `Interrupt`, `Routine` and `Tick`, which
  nothing masks for long; strong fairness of `CallStep`, because the processor
  is faster than the JTAG cable, so that interrupts stop a call for a while
  and not for ever; strong fairness of `HostTakes` and `HostPauses`, because a
  connected host polls. Nobody need call or send.

## What is proved

Each `...Proofs` module proves its theorems for every value of the constants
that satisfies the named assumptions; the runs evaluate these for their own.

`AvatarProofs` (`SizeAssumption`, `WallAssumption`: the border is wall,
`StartAssumption`):

* `GridInvariant`: `GridInv` is inductive. `OnTheGrid` alone is not: it does
  not say that the count is 0 when the avatar is ready, nor that the bomb
  request is that of the cell the avatar left. `GridInv` says both and names
  the cell by its coordinates, so that no division is left in it.
* `TypeCorrect`, `AlwaysOnTheGrid`, `MapReadsInRange`, `BombsWhereTheyStand`,
  `DeathIsFinal`: the properties above, from it.
* `Refinement`: every step of `Avatar` is a step of `CellAvatar` or none. A
  stride that ends the step arrives; a turn departs; the cell left is read off
  the position less the way come.

`PictureProofs` (the same, and `PictureAssumption`: cells of 40 pixels, 12 by
12 of them, which `Color_Mapper_Final.sv` has as literals), for every wall map
and start cell:

* `DrawnInItsCells`: the picture property. From `GridInv`, a living avatar is
  some pixels right of or below the centre of a cell (`Over`), and that cell
  and the next one are those it is between. There the unsigned comparisons of
  the colour mapper are the ordinary ones (`BetweenIs`) and its division gives
  the cells (`CellAtPixel`); away from the border is what keeps the
  differences from wrapping.

`VgaProofs` (`TimingAssumption`: the regions of a raster are in order):
`VgaTypeCorrect`, `SignalsFollowPixel` and `ResetFreezes`, inductive together;
from them `PixelsInOrder` and `TicksOffScreen`.

* `EvenFrames`: `EdgesToTick`, a function of the registers, is never more than
  two edges for each pixel of a frame; while nobody touches the button every
  edge of `Clk` lowers it by one, the frame clock ticks exactly where it is
  one, and after a tick of a running raster it is the whole frame again. So
  all frames are equally long, which is the 60 Hz the game counts on, and a
  raster that runs cannot go on without ticking.

`HpiBusProofs` (`TimingAssumption`: `Gap >= Access + 3`):

* `BusInvariant`: after each statement, and each number of clocks since, it is
  known which registers of the chain already have what was stored: `Copied`
  says that one clock is enough for the pins, `FetchInv` counts the clocks of
  a read until the input port holds what the chip has shown. The assumption is
  used there.
* `HpiTypeCorrect`, `BusNeverContended`, `StrobesFramed` from it.
* `PortImplemented`: the refinement, for any number of words. A write takes
  effect at the edge at which the write strobe rises at the pin, a read at the
  edge at which the read strobe does; every other step maps to a step of the
  chip or none.

`UsbHostProofs` (`UsbAssumption`: environments and key codes), for every
environment:

* `UsbInvariant`. What makes it hard is that a message does not say which list
  it is about. `DoneInv` does: a done message is the end of all that was
  submitted before it, so that a list which still waits when the program has
  noticed one was submitted since and nothing of it is done. `FreshInv` says
  that nothing of a step is under way before its list is submitted for the
  first time. So a good control word is that of the request of this very step
  (`AckInv`).
* `UsbTypeCorrect`, `NoStepSkipped`, `OnlySentKeys`, `RequestsKeepOrder` from
  it.

and, where the environment is calm:

* `CalmInvariant`: `InStep` says at each point of the program how far chip and
  keyboard are. `TurnInv` says that the program waits for the chip and the
  chip for the program, so that no list is written over one under way;
  `WorkInv` and `ModeInv` relate the descriptor the chip is at to the packets
  the keyboard has sent; `SizeInv` says that the word in which the fifth list
  left its mark has been written by the endpoint descriptor before the size is
  read from it; `ToggleInv` follows the toggles and the parity of the
  unanswered polls through the steps that change one and not yet the other.
* `ListsAgree`: what the lists must be for that is one lemma
  (`ListsWellMade`), a walk through the words of the nine lists: each data
  descriptor takes the packet the keyboard sends next and puts it behind the
  end of the list (`BringsPacket`), each status descriptor goes the way the
  request is confirmed (`Confirms`).
* `ReportsAreWhole`, `TogglesAgree` from it.
* `PollsComeSoon`: `Way` counts the steps behind, 30 for each request; every
  step of program and chip raises it until the next poll is exported, and it
  is at most 327. So the program cannot go round without polling.

`JtagUartProofs` (`SizesAssumption`), for every ring, FIFO, threshold and
time-out:

* `DriverInvariant`: the two interrupt properties, with what a call or the
  routine holds between computing and using it. The room behind `tx_in` only
  grows when the routine moves `tx_out` (`SpaceGrows`, `AvailGrows`), which is
  why no lock is needed. `ReceiveResumes` needs `IrqInv`: the host's pause is
  an interrupt only with a character in the FIFO, so a routine that receives
  either still has one to take or has put one into the ring, also when a
  character is counted that was not handed over.
* `JtagTypeCorrect`, `TransmitInterruptKept`, `ReceiveInterruptKept`,
  `StaleCopiesHold`, `PatienceNeverEnds` from it.
* `RoutineIsBounded`: `Effort` is the room in the receive ring, the characters
  in the transmit ring and the interrupts enabled, ten for each, and the way
  to the next of them. Every step of the interrupt routine lowers it and no
  step of the host raises it, so the routine returns after at most
  `20 * BufLen + 6` steps however the host sends and takes meanwhile.
  An interrupt has a reason, and where the routine looks at a FIFO for the
  first time it finds something to do: `IrqInv` says so of receiving and
  `RoutineInv` of sending. A character that the routine missed turns the
  interrupt off, which lowers `Effort` too.

`JtagStreamProofs` (`SizesAssumption`), for the same:

* `TransmitStream`, `ReceiveStream`: each direction of the driver implements
  `ByteStream`. What a ring holds is a sequence of `Count` characters
  (`HeldIs`, where the remainder of an index becomes one subtraction);
  publishing appends to it (`HeldPublished`), taking out drops the first piece
  (`HeldTaken`), and a copy into the room that was found leaves it alone
  (`HeldBesideCopy`). `CopyInv` says that until a write publishes its copy,
  the copy is what the caller gave. `DriverInvariant` gives the room in ring
  and FIFO.

`HalFilesProofs` (`TableAssumption`), for every size of the table, name and
flag:

* `FilesInvariant`: with `LowestHolds`, that a device is locked by its lowest
  descriptor, which is what remains true although a lock may overlook the
  highest. It is why two can never hold it.
* `FilesTypeCorrect`, `MarkAboveAll`, `LockedOnce`, `StreamsStay`,
  `LockKeepsOthersOut`, `NothingLeaks` from it.

So every safety property the passing runs check is a theorem as well. Only
model-checked are the liveness properties (`StepEnds`, `FrameClockRuns`,
`KeepsPolling`, `RoutineEnds`, `RingDrains`, `ReaderServed`), because fairness
and ENABLED are out of the prover's reach. Of three of them the half that is
safety is proved: `EvenFrames`, `PollsComeSoon` and `RoutineIsBounded` bound
the steps until what is to happen has happened, and TLC adds that the steps
are taken. The expected violations are of course not theorems.

## Not modelled

* `Bomb.sv`, `Tree.sv` and `ball.sv`: no circuit of this commit instantiates
  them (`ball` is commented out in `Bomberman.sv`), so they are not part of
  the game.
* Of the colour mapper the colours, the score and the texts of the start and
  end screens: layout of constant data. The sprites of bombs and flames are
  read beyond their edge (`Color_Mapper_Final.sv:453`), which needs no model
  to be seen.
* Sprites, fonts, colour tables, the seven-segment display, and the maps that
  are 0: constants.
* The generated Nios II system but for the ports and the UART.
* Of the board support package everything that this program never runs or that
  keeps no state: alarms and time of day need a system clock, and
  `ALT_SYS_CLK` is none (`usleep` is a busy loop); `alt_log_printf.c` and
  `alt_gmon.c` are not compiled in; filesystems, DMA and flash have no device;
  semaphores are empty without an operating system; cache and exception entry
  are processor internals. `cy7c67200.h` is 3,300 lines of register constants,
  of which `usb.c` uses a few by value.
* `Avatar.sv`, `enemy.sv`, `testbench.sv`, `lab8.sv`: earlier or unfinished, not
  reached from `Bomberman.sv`.
