------------------------------ MODULE HpiBus -------------------------------
(***************************************************************************)
(* One access to the USB chip: the stores IO_write and IO_read make to the *)
(* output ports of the Nios system (io_handler.c), the registers           *)
(* hpi_io_intf.sv puts between those ports and the pins, and the chip's    *)
(* end of the bus.  Every step is one rising edge of Clk, at which the     *)
(* processor executes at most one load or store; but for Own and Call.     *)
(***************************************************************************)
EXTENDS Integers, Sequences

CONSTANTS
  Words,                    \* as in HpiPort
  Gap,                      \* fewest clocks from one load or store to the next
  Access                    \* clocks the chip takes to drive the bus for a read

(***************************************************************************)
(* The slowest path: a strobe store is at the pin one clock later, the     *)
(* chip answers after Access, hpi_io_intf takes one clock to register the  *)
(* bus and the input port another.  The "tiny" Nios needs more than ten    *)
(* clocks for the two instructions of a store.                             *)
(***************************************************************************)
ASSUME TimingAssumption ==
  /\ Words \in Nat \ {0} /\ Access \in Nat \ {0}
  /\ Gap \in Nat /\ Gap >= Access + 3

VARIABLES
  mem, ptr, regs,           \* the chip, as in HpiPort
  call, at,                 \* the routine that runs, its next statement
  wait,                     \* clocks since the last one, up to Gap
  temp, seen,               \* the result; history: what the chip showed for it
  pio,                      \* the output ports: from_sw_...
  readdata,                 \* the input port of otg_hpi_data
  from_sw_data_out_buffer, from_sw_data_in,
  OTG_ADDR, OTG_CS_N, OTG_RD_N, OTG_WR_N,
  held,                     \* the level undriven data lines keep
  reading                   \* clocks the chip has seen the read strobe

chip == <<mem, ptr, regs>>
program == <<call, at, wait, temp, seen, pio>>
pins == <<readdata, from_sw_data_out_buffer, from_sw_data_in,
          OTG_ADDR, OTG_CS_N, OTG_RD_N, OTG_WR_N, held, reading>>
vars == <<chip, program, pins>>

(* The abstract interface; its helpers describe the chip's end as well. *)
Port == INSTANCE HpiPort WITH
  phase <- CASE call.kind = "write" /\ at = 6 /\ OTG_WR_N = 1 -> "done"
             [] call.kind = "read" /\ at = 6 /\ OTG_RD_N = 1  -> "done"
             [] call.kind = "read" /\ (at = 5 \/ (at = 6 /\ OTG_RD_N = 0)) -> "fetched"
             [] OTHER                                         -> "pending"

Values == 0 .. Words - 1
Bit == {0, 1}

TypeOK ==
  /\ mem \in [Values -> Values] /\ ptr \in Values
  /\ regs \in [{Port!HPI_MAILBOX, Port!HPI_STATUS} -> Values]
  /\ call \in Port!Calls \cup {Port!Boot, Port!None} /\ at \in 1 .. 6
  /\ wait \in 0 .. Gap /\ temp \in Values /\ seen \subseteq Values
  /\ pio \in [address : 0 .. 3, cs : Bit, r : Bit, w : Bit, data : Values]
  /\ {readdata, from_sw_data_out_buffer, from_sw_data_in, held} \subseteq Values
  /\ OTG_ADDR \in 0 .. 3 /\ {OTG_CS_N, OTG_RD_N, OTG_WR_N} \subseteq Bit
  /\ reading \in 0 .. Access

-----------------------------------------------------------------------------
(* The routines, one load or store after the other *)

Statements_StrobeFirst(kind) ==
  CASE kind = "boot"  -> <<"cs1", "r1", "w1", "address", "data">>
    [] kind = "write" -> <<"cs0", "w0", "address", "data", "w1", "cs1">>
    [] kind = "read"  -> <<"address", "cs0", "r0", "load", "r1", "cs1">>

Statements_DataAfterStrobe(kind) ==
  CASE kind = "boot"  -> <<"cs1", "r1", "w1", "address", "data">>
    [] kind = "write" -> <<"address", "cs0", "w0", "w1", "data", "cs1">>
    [] kind = "read"  -> <<"address", "cs0", "r0", "load", "r1", "cs1">>

Statements_InitForgetsW(kind) ==
  CASE kind = "boot"  -> <<"cs1", "r1", "address", "data">>
    [] kind = "write" -> <<"address", "cs0", "w0", "data", "w1", "cs1">>
    [] kind = "read"  -> <<"address", "cs0", "r0", "load", "r1", "cs1">>

Statements(kind) ==
  CASE kind = "boot"  -> <<"cs1", "r1", "w1", "address", "data">>
    [] kind = "write" -> <<"address", "cs0", "w0", "data", "w1", "cs1">>
    [] kind = "read"  -> <<"address", "cs0", "r0", "load", "r1", "cs1">>

(* The output ports after a statement. *)
Ports(s) ==
  CASE s = "address" -> [pio EXCEPT !.address = call.port]
    [] s = "data"    -> [pio EXCEPT !.data = call.data]
    [] s = "cs0"     -> [pio EXCEPT !.cs = 0]
    [] s = "cs1"     -> [pio EXCEPT !.cs = 1]
    [] s = "r0"      -> [pio EXCEPT !.r = 0]
    [] s = "r1"      -> [pio EXCEPT !.r = 1]
    [] s = "w0"      -> [pio EXCEPT !.w = 0]
    [] s = "w1"      -> [pio EXCEPT !.w = 1]
    [] OTHER         -> pio

-----------------------------------------------------------------------------
(* The bus *)

InterfaceDrives == pio.w = 0
ChipDrives == OTG_CS_N = 0 /\ OTG_RD_N = 0 /\ reading = Access

(* What can be read from OTG_DATA: whatever wins if both drive it, and if  *)
(* neither does what it carried last, held by the capacity of the lines.   *)
OTG_DATA ==
  CASE InterfaceDrives /\ ChipDrives -> Values
    [] InterfaceDrives /\ ~ChipDrives -> {from_sw_data_out_buffer}
    [] ~InterfaceDrives /\ ChipDrives -> {Port!PortValue(OTG_ADDR)}
    [] OTHER -> {held}

(* hpi_io_intf copies ports to pins, and the bus towards the processor. *)
InterfaceEdge(b) ==
  /\ from_sw_data_out_buffer' = pio.data /\ from_sw_data_in' = b
  /\ OTG_ADDR' = pio.address
  /\ OTG_CS_N' = pio.cs /\ OTG_RD_N' = pio.r /\ OTG_WR_N' = pio.w
  /\ readdata' = from_sw_data_in
  /\ held' = b

(***************************************************************************)
(* The chip takes the data, or moves its pointer, when a strobe ends: when *)
(* the strobe or the chip select goes up.  Both strobes at once are none   *)
(* of the accesses it has, so it may store anything in the word it is at.  *)
(***************************************************************************)
Ends(strobe) == OTG_CS_N = 0 /\ strobe = 0 /\ (OTG_CS_N' = 1 \/ strobe' = 1)

ChipEdge(b) ==
  /\ reading' = IF OTG_CS_N = 0 /\ OTG_RD_N = 0 /\ OTG_CS_N' = 0 /\ OTG_RD_N' = 0
                THEN IF reading < Access THEN reading + 1 ELSE Access
                ELSE 0
  /\ CASE Ends(OTG_WR_N) /\ Ends(OTG_RD_N) ->
            /\ \E v \in Values : mem' = [mem EXCEPT ![ptr] = v]
            /\ ptr' \in Values /\ UNCHANGED regs
       [] Ends(OTG_WR_N) /\ ~Ends(OTG_RD_N) -> Port!PortWrite(OTG_ADDR, b)
       [] Ends(OTG_RD_N) /\ ~Ends(OTG_WR_N) -> Port!PortRead(OTG_ADDR)
       [] OTHER -> UNCHANGED chip

Edge == \E b \in OTG_DATA : InterfaceEdge(b) /\ ChipEdge(b)

-----------------------------------------------------------------------------
(***************************************************************************)
(* The output ports of the Nios system come up as 0, which is an active    *)
(* chip select and two active strobes; hpi_io_intf's registers come up     *)
(* inactive.                                                               *)
(***************************************************************************)
PortsCleared == [address |-> 0, cs |-> 0, r |-> 0, w |-> 0, data |-> 0]

Init ==
  /\ Port!Init
  /\ at = 1 /\ wait = 0 /\ pio = PortsCleared
  /\ readdata = 0 /\ from_sw_data_out_buffer = 0 /\ from_sw_data_in = 0
  /\ OTG_ADDR = 0 /\ OTG_CS_N = 1 /\ OTG_RD_N = 1 /\ OTG_WR_N = 1
  /\ held = 0 /\ reading = 0

(* The reset button, at an edge; OTG_RST_N resets the chip at once. *)
Reset ==
  /\ ptr' = 0 /\ regs' = [p \in DOMAIN regs |-> 0] /\ UNCHANGED mem
  /\ call' = Port!Boot /\ at' = 1 /\ wait' = 0 /\ temp' = 0 /\ seen' = {}
  /\ pio' = PortsCleared
  /\ readdata' = 0 /\ from_sw_data_out_buffer' = 0 /\ from_sw_data_in' = 0
  /\ OTG_ADDR' = 0 /\ OTG_CS_N' = 1 /\ OTG_RD_N' = 1 /\ OTG_WR_N' = 1
  /\ held' = 0 /\ reading' = 0

(* main.c or usb.c calls IO_write or IO_read. *)
Call(c) ==
  /\ call = Port!None
  /\ call' = c /\ at' = 1 /\ seen' = {}
  /\ UNCHANGED <<chip, wait, temp, pio, pins>>

Last == at = Len(Statements(call.kind))

(* An edge at which the processor executes the next statement. *)
Execute ==
  /\ call # Port!None /\ wait = Gap
  /\ pio' = Ports(Statements(call.kind)[at])
  /\ temp' = IF Statements(call.kind)[at] = "load" THEN readdata ELSE temp
  /\ \/ /\ ~Last
        /\ at' = at + 1 /\ UNCHANGED <<call, seen>>
     \/ /\ Last
        /\ call' = Port!None /\ at' = 1 /\ seen' = {}
  /\ wait' = 0
  /\ Edge

(* An edge at which it does not. *)
Wait ==
  /\ wait' = IF wait < Gap THEN wait + 1 ELSE Gap
  /\ seen' = IF call.kind = "read" /\ at = 4 /\ ChipDrives
             THEN seen \cup {Port!PortValue(OTG_ADDR)} ELSE seen
  /\ UNCHANGED <<call, at, temp, pio>>
  /\ Edge

Own ==
  /\ Port!ChipChange
  /\ UNCHANGED <<program, pins>>

Next ==
  \/ Reset \/ Own \/ Execute \/ Wait
  \/ \E c \in Port!Calls : Call(c)

Spec == Init /\ [][Next]_vars

-----------------------------------------------------------------------------
(* Properties *)

(* IO_write and IO_read, through two chains of registers, are accesses to  *)
(* the memory behind four registers that HpiPort describes: every write is *)
(* stored once, where it was meant to go; every read returns what the      *)
(* register showed during the call, and moves the pointer once.            *)
ImplementsHpiPort == Port!Spec

(* After IO_init has run, the FPGA and the chip never drive the data lines *)
(* against each other.                                                     *)
NoContention == call.kind # "boot" => ~(InterfaceDrives /\ ChipDrives)

(* From one clock before a strobe until one clock after it the chip select *)
(* is active and the address does not change, so that no access goes to a  *)
(* register it passes by.                                                  *)
StrobeFramed ==
  [][call.kind # "boot" /\ call'.kind # "boot" /\ 0 \in {OTG_RD_N, OTG_WR_N, OTG_RD_N', OTG_WR_N'} =>
       OTG_CS_N = 0 /\ OTG_CS_N' = 0 /\ OTG_ADDR' = OTG_ADDR]_vars

(* hpi_io_intf.sv:16: "OTG_DATA should be high Z (tristated) when NIOS is  *)
(* not writing to OTG_DATA inout bus."                                     *)
HighZUnlessWriting == InterfaceDrives => call.kind = "write"
=============================================================================
