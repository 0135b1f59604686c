---------------------------- MODULE HpiBusProofs ----------------------------
(***************************************************************************)
(* Theorems about the accesses to the USB chip for every number of words,  *)
(* every access time of the chip and every processor that leaves the       *)
(* register chains their time.                                             *)
(***************************************************************************)
EXTENDS HpiBus, TLAPS

(* Once a clock has passed since the last statement the pins show what the *)
(* output ports do.                                                        *)
Copied ==
  wait >= 1 =>
    /\ OTG_ADDR = pio.address /\ from_sw_data_out_buffer = pio.data
    /\ OTG_CS_N = pio.cs /\ OTG_RD_N = pio.r /\ OTG_WR_N = pio.w

(* IO_init: chip select goes up while both strobes are active.             *)
BootInv ==
  call.kind = "boot" =>
    /\ at <= 5 /\ pio.address = 0 /\ OTG_ADDR = 0
    /\ at = 1 => pio.cs = 0 /\ pio.r = 0 /\ pio.w = 0
    /\ at = 2 => pio.r = 0 /\ pio.w = 0 /\ OTG_RD_N = 0 /\ OTG_WR_N = 0
    /\ at >= 2 => pio.cs = 1
    /\ at >= 3 => pio.r = 1 /\ OTG_CS_N = 1
    /\ at >= 4 => pio.w = 1 /\ OTG_RD_N = 1
    /\ at >= 5 => OTG_WR_N = 1

IdleInv ==
  call.kind = "none" =>
    at = 1 /\ pio.cs = 1 /\ pio.r = 1 /\ pio.w = 1 /\ OTG_RD_N = 1 /\ OTG_WR_N = 1

(* Address and chip select are at the pins before a strobe and after it.   *)
FrameInv ==
  call.kind \in {"read", "write"} =>
    /\ pio.cs = IF at >= 3 THEN 0 ELSE 1
    /\ at >= 2 => pio.address = call.port
    /\ at >= 3 => OTG_ADDR = call.port
    /\ at >= 4 => OTG_CS_N = 0

(* The strobe, which reaches the pin a clock late, and the data, which the *)
(* lines hold until it has.                                                *)
WriteInv ==
  call.kind = "write" =>
    /\ pio.r = 1 /\ OTG_RD_N = 1
    /\ pio.w = IF at \in {4, 5} THEN 0 ELSE 1
    /\ at <= 3 \/ (at = 4 /\ wait = 0) => OTG_WR_N = 1
    /\ at = 5 \/ (at = 6 /\ wait = 0) => OTG_WR_N = 0
    /\ at >= 5 => pio.data = call.data
    /\ at = 6 /\ wait = 0 => held = call.data

ReadInv ==
  call.kind = "read" =>
    /\ pio.w = 1 /\ OTG_WR_N = 1
    /\ pio.r = IF at \in {4, 5} THEN 0 ELSE 1
    /\ at <= 3 \/ (at = 4 /\ wait = 0) => OTG_RD_N = 1
    /\ at = 5 \/ (at = 6 /\ wait = 0) => OTG_RD_N = 0

(* What the chip drives takes two clocks from the bus to the input port.   *)
FetchInv ==
  call.kind = "read" /\ at = 4 =>
    /\ wait \in 1 .. Access => reading = wait - 1
    /\ wait >= Access + 1 => reading = Access
    /\ wait >= Access + 2 => from_sw_data_in \in seen
    /\ wait >= Access + 3 => readdata \in seen

BusInv == TypeOK /\ Copied /\ BootInv /\ IdleInv /\ FrameInv /\ WriteInv /\ ReadInv /\ FetchInv

-----------------------------------------------------------------------------
(* The constants, which every leaf may need.                               *)
USE TimingAssumption DEF TimingAssumption, Values, Bit, Port!Values,
    Port!HPI_DATA, Port!HPI_MAILBOX, Port!HPI_ADDR, Port!HPI_STATUS

CallType == Port!Calls \cup {Port!Boot, Port!None}
PioType == [address : 0 .. 3, cs : Bit, r : Bit, w : Bit, data : Values]

LEMMA CallKinds ==
  ASSUME NEW c \in CallType
  PROVE  /\ c.kind \in {"boot", "none", "read", "write"}
         /\ c.port \in 0 .. 3 /\ c.data \in Values
         /\ c.kind = "boot" <=> c = Port!Boot
         /\ c.kind = "none" <=> c = Port!None
         /\ c.kind = "boot" => c.port = 0 /\ c.data = 0
         /\ c.kind = "read" => c.port # 2
         /\ c.kind \in {"read", "write"} <=> c \in Port!Calls
  BY DEF CallType, Port!Calls, Port!Boot, Port!None

LEMMA BusInvInit == Init => BusInv
<1> SUFFICES ASSUME Init PROVE BusInv
  OBVIOUS
<1>1. call = Port!Boot /\ call.kind = "boot"
  BY DEF Init, Port!Init, Port!Boot
<1>2. TypeOK
  BY <1>1 DEF Init, Port!Init, TypeOK, PortsCleared
<1> QED
  BY <1>1, <1>2 DEF Init, BusInv, Copied, BootInv, IdleInv, FrameInv, WriteInv, ReadInv, FetchInv, PortsCleared

(* The chip never drives the bus from the register that cannot be read.    *)
LEMMA ShownInValues ==
  ASSUME BusInv, ChipDrives
  PROVE  Port!PortValue(OTG_ADDR) \in Values
<1>1. OTG_ADDR \in {0, 1, 3}
  <2>1. call \in CallType /\ OTG_ADDR \in 0 .. 3 /\ at \in 1 .. 6
    BY DEF BusInv, TypeOK, CallType
  <2>2. OTG_RD_N = 0 /\ OTG_RD_N # 1
    BY DEF ChipDrives
  <2>3. call.kind \in {"boot", "read"}
    BY <2>1, <2>2, CallKinds DEF BusInv, IdleInv, WriteInv
  <2> QED
    BY <2>1, <2>2, <2>3, CallKinds DEF BusInv, BootInv, FrameInv, ReadInv
<1> QED
  BY <1>1 DEF BusInv, TypeOK, Port!PortValue

LEMMA BusInValues ==
  ASSUME BusInv
  PROVE  OTG_DATA \subseteq Values
  BY ShownInValues DEF OTG_DATA, BusInv, TypeOK

(* The registers of hpi_io_intf.sv and the input port after an edge.       *)
LEMMA EdgePins ==
  ASSUME BusInv, Edge
  PROVE  /\ OTG_ADDR' = pio.address /\ from_sw_data_out_buffer' = pio.data
         /\ OTG_CS_N' = pio.cs /\ OTG_RD_N' = pio.r /\ OTG_WR_N' = pio.w
         /\ readdata' = from_sw_data_in
         /\ held' \in OTG_DATA /\ from_sw_data_in' = held'
         /\ reading' = IF OTG_CS_N = 0 /\ OTG_RD_N = 0 /\ pio.cs = 0 /\ pio.r = 0
                       THEN IF reading < Access THEN reading + 1 ELSE Access
                       ELSE 0
         /\ held' \in Values /\ from_sw_data_in' \in Values
  BY BusInValues DEF Edge, InterfaceEdge, ChipEdge

LEMMA EdgeChip ==
  ASSUME BusInv, Edge
  PROVE  /\ mem' \in [Values -> Values] /\ ptr' \in Values
         /\ regs' \in [{Port!HPI_MAILBOX, Port!HPI_STATUS} -> Values]
<1>1. PICK b \in Values : ChipEdge(b)
  BY BusInValues DEF Edge
<1>2. \A v \in Values : [mem EXCEPT ![ptr] = v] \in [Values -> Values]
  BY DEF BusInv, TypeOK
<1>3. (ptr + 1) % Words \in Values
  <2>1. ptr \in Nat
    BY DEF BusInv, TypeOK
  <2> QED
    BY <2>1
<1>4. mem \in [Values -> Values] /\ ptr \in Values /\ regs \in [{1, 3} -> Values]
  BY DEF BusInv, TypeOK
<1>5. CASE Ends(OTG_WR_N) /\ Ends(OTG_RD_N)
  BY <1>1, <1>2, <1>4, <1>5 DEF ChipEdge
<1>6. CASE Ends(OTG_WR_N) /\ ~Ends(OTG_RD_N)
  <2>1. Port!PortWrite(OTG_ADDR, b)
    BY <1>1, <1>6 DEF ChipEdge
  <2> QED
    BY <1>1, <1>2, <1>3, <1>4, <2>1 DEF Port!PortWrite
<1>7. CASE Ends(OTG_RD_N) /\ ~Ends(OTG_WR_N)
  BY <1>1, <1>3, <1>4, <1>7 DEF ChipEdge, Port!PortRead
<1>8. CASE ~Ends(OTG_RD_N) /\ ~Ends(OTG_WR_N)
  BY <1>1, <1>4, <1>8 DEF ChipEdge, chip
<1> QED
  BY <1>5, <1>6, <1>7, <1>8

-----------------------------------------------------------------------------
(* A statement changes one output port, or none.                           *)
Stores == {"address", "data", "cs0", "cs1", "r0", "r1", "w0", "w1", "load"}

LEMMA PortsAfter ==
  ASSUME pio \in PioType, NEW c \in CallType, c = call, NEW s \in Stores
  PROVE  /\ Ports(s) \in PioType
         /\ Ports(s).address = IF s = "address" THEN call.port ELSE pio.address
         /\ Ports(s).data = IF s = "data" THEN call.data ELSE pio.data
         /\ Ports(s).cs = IF s = "cs0" THEN 0 ELSE IF s = "cs1" THEN 1 ELSE pio.cs
         /\ Ports(s).r = IF s = "r0" THEN 0 ELSE IF s = "r1" THEN 1 ELSE pio.r
         /\ Ports(s).w = IF s = "w0" THEN 0 ELSE IF s = "w1" THEN 1 ELSE pio.w
<1>1. call.port \in 0 .. 3 /\ call.data \in Values
  BY CallKinds
<1>2. CASE s = "address"
  BY <1>1, <1>2 DEF Ports, PioType
<1>3. CASE s = "data"
  BY <1>1, <1>3 DEF Ports, PioType
<1>4. CASE s \in {"cs0", "cs1"}
  BY <1>4 DEF Ports, PioType
<1>5. CASE s \in {"r0", "r1"}
  BY <1>5 DEF Ports, PioType
<1>6. CASE s \in {"w0", "w1"}
  BY <1>6 DEF Ports, PioType
<1>7. CASE s = "load"
  BY <1>7 DEF Ports, PioType
<1> QED
  BY <1>2, <1>3, <1>4, <1>5, <1>6, <1>7 DEF Stores

(* The statement that is executed next. *)
This == Statements(call.kind)[at]

LEMMA Executed ==
  ASSUME BusInv, Execute, This \in Stores
  PROVE  /\ pio' \in PioType
         /\ pio'.address = IF This = "address" THEN call.port ELSE pio.address
         /\ pio'.data = IF This = "data" THEN call.data ELSE pio.data
         /\ pio'.cs = IF This = "cs0" THEN 0 ELSE IF This = "cs1" THEN 1 ELSE pio.cs
         /\ pio'.r = IF This = "r0" THEN 0 ELSE IF This = "r1" THEN 1 ELSE pio.r
         /\ pio'.w = IF This = "w0" THEN 0 ELSE IF This = "w1" THEN 1 ELSE pio.w
         /\ temp' = IF This = "load" THEN readdata ELSE temp
         /\ IF at = Len(Statements(call.kind))
            THEN call' = Port!None /\ at' = 1 /\ seen' = {}
            ELSE call' = call /\ at' = at + 1 /\ seen' = seen
<1>1. pio \in PioType /\ call \in CallType
  BY DEF BusInv, TypeOK, PioType, CallType
<1>2. pio' = Ports(This) /\ temp' = IF This = "load" THEN readdata ELSE temp
  BY DEF Execute, This
<1>3. IF at = Len(Statements(call.kind))
      THEN call' = Port!None /\ at' = 1 /\ seen' = {}
      ELSE call' = call /\ at' = at + 1 /\ seen' = seen
  BY DEF Execute, Last
<1> QED
  BY <1>1, <1>2, <1>3, PortsAfter

(* The statements of the routines, one by one.                             *)
LEMMA BootStatements ==
  ASSUME BusInv, Execute, call.kind = "boot"
  PROVE  /\ pio' \in PioType /\ temp' = temp
         /\ pio'.address = 0
         /\ pio'.cs = IF at = 1 THEN 1 ELSE pio.cs
         /\ pio'.r = IF at = 2 THEN 1 ELSE pio.r
         /\ pio'.w = IF at = 3 THEN 1 ELSE pio.w
         /\ IF at = 5 THEN call' = Port!None /\ at' = 1 /\ seen' = {}
                      ELSE call' = call /\ at' = at + 1 /\ seen' = seen
<1>1. at \in 1 .. 5 /\ pio.address = 0 /\ call.port = 0
  <2>1. call \in CallType /\ at \in 1 .. 6
    BY DEF BusInv, TypeOK, CallType
  <2> QED
    BY <2>1, CallKinds DEF BusInv, BootInv
<1>2. Statements(call.kind) = <<"cs1", "r1", "w1", "address", "data">>
  BY DEF Statements
<1>3. Len(Statements(call.kind)) = 5
  BY <1>2
<1>4. /\ This \in Stores
      /\ This = "cs1" <=> at = 1
      /\ This = "r1" <=> at = 2
      /\ This = "w1" <=> at = 3
      /\ This \notin {"cs0", "r0", "w0", "load"}
  BY <1>1, <1>2 DEF Stores, This
<1> QED
  BY <1>1, <1>3, <1>4, Executed

LEMMA WriteStatements ==
  ASSUME BusInv, Execute, call.kind = "write"
  PROVE  /\ pio' \in PioType /\ temp' = temp
         /\ pio'.address = IF at = 1 THEN call.port ELSE pio.address
         /\ pio'.cs = IF at = 2 THEN 0 ELSE IF at = 6 THEN 1 ELSE pio.cs
         /\ pio'.r = pio.r
         /\ pio'.w = IF at = 3 THEN 0 ELSE IF at = 5 THEN 1 ELSE pio.w
         /\ pio'.data = IF at = 4 THEN call.data ELSE pio.data
         /\ IF at = 6 THEN call' = Port!None /\ at' = 1 /\ seen' = {}
                      ELSE call' = call /\ at' = at + 1 /\ seen' = seen
<1>1. at \in 1 .. 6
  BY DEF BusInv, TypeOK
<1>2. Statements(call.kind) = <<"address", "cs0", "w0", "data", "w1", "cs1">>
  BY DEF Statements
<1>3. Len(Statements(call.kind)) = 6
  BY <1>2
<1>4. /\ This \in Stores
      /\ This = "address" <=> at = 1
      /\ This = "cs0" <=> at = 2
      /\ This = "w0" <=> at = 3
      /\ This = "data" <=> at = 4
      /\ This = "w1" <=> at = 5
      /\ This = "cs1" <=> at = 6
      /\ This \notin {"r0", "r1", "load"}
  BY <1>1, <1>2 DEF Stores, This
<1> QED
  BY <1>3, <1>4, Executed

LEMMA ReadStatements ==
  ASSUME BusInv, Execute, call.kind = "read"
  PROVE  /\ pio' \in PioType /\ temp' = IF at = 4 THEN readdata ELSE temp
         /\ pio'.address = IF at = 1 THEN call.port ELSE pio.address
         /\ pio'.cs = IF at = 2 THEN 0 ELSE IF at = 6 THEN 1 ELSE pio.cs
         /\ pio'.r = IF at = 3 THEN 0 ELSE IF at = 5 THEN 1 ELSE pio.r
         /\ pio'.w = pio.w
         /\ IF at = 6 THEN call' = Port!None /\ at' = 1 /\ seen' = {}
                      ELSE call' = call /\ at' = at + 1 /\ seen' = seen
<1>1. at \in 1 .. 6
  BY DEF BusInv, TypeOK
<1>2. Statements(call.kind) = <<"address", "cs0", "r0", "load", "r1", "cs1">>
  BY DEF Statements
<1>3. Len(Statements(call.kind)) = 6
  BY <1>2
<1>4. /\ This \in Stores
      /\ This = "address" <=> at = 1
      /\ This = "cs0" <=> at = 2
      /\ This = "r0" <=> at = 3
      /\ This = "load" <=> at = 4
      /\ This = "r1" <=> at = 5
      /\ This = "cs1" <=> at = 6
      /\ This \notin {"w0", "w1"}
  BY <1>1, <1>2 DEF Stores, This
<1> QED
  BY <1>3, <1>4, Executed

-----------------------------------------------------------------------------
(* What the invariant says of a type, one by one.                          *)
LEMMA Typed ==
  ASSUME BusInv
  PROVE  /\ call \in CallType /\ at \in 1 .. 6 /\ wait \in 0 .. Gap
         /\ pio \in PioType /\ temp \in Values /\ seen \subseteq Values
         /\ pio.address \in 0 .. 3 /\ pio.cs \in Bit /\ pio.r \in Bit /\ pio.w \in Bit
         /\ pio.data \in Values
         /\ readdata \in Values /\ from_sw_data_in \in Values /\ held \in Values
         /\ from_sw_data_out_buffer \in Values
         /\ OTG_ADDR \in 0 .. 3 /\ OTG_CS_N \in Bit /\ OTG_RD_N \in Bit /\ OTG_WR_N \in Bit
         /\ reading \in 0 .. Access
  BY DEF BusInv, TypeOK, CallType, PioType

LEMMA ResetKeeps == ASSUME BusInv, Reset PROVE BusInv'
<1>1. call' = Port!Boot /\ call'.kind = "boot"
  BY DEF Reset, Port!Boot
<1>2. TypeOK'
  BY <1>1 DEF Reset, BusInv, TypeOK, PortsCleared
<1> QED
  BY <1>1, <1>2 DEF Reset, BusInv, Copied, BootInv, IdleInv, FrameInv, WriteInv, ReadInv, FetchInv, PortsCleared

LEMMA ChipAlone ==
  ASSUME BusInv, UNCHANGED <<program, pins>>,
         mem' \in [Values -> Values], ptr' \in Values,
         regs' \in [{Port!HPI_MAILBOX, Port!HPI_STATUS} -> Values]
  PROVE  BusInv'
<1>1. TypeOK'
  BY DEF BusInv, TypeOK, program, pins
<1> QED
  BY <1>1 DEF BusInv, Copied, BootInv, IdleInv, FrameInv, WriteInv, ReadInv, FetchInv, program, pins

LEMMA ChipTyped ==
  ASSUME BusInv
  PROVE  mem \in [Values -> Values] /\ ptr \in Values /\ regs \in [{1, 3} -> Values]
  BY DEF BusInv, TypeOK

LEMMA OwnKeeps == ASSUME BusInv, Own PROVE BusInv'
<1>1. UNCHANGED <<program, pins>> /\ UNCHANGED ptr
  BY DEF Own, Port!ChipChange
<1>2. CASE \E w, v \in Values : mem' = [mem EXCEPT ![w] = v] /\ UNCHANGED regs
  BY <1>1, <1>2, ChipTyped, ChipAlone
<1>3. CASE \E p \in {1, 3}, v \in Values : regs' = [regs EXCEPT ![p] = v] /\ UNCHANGED mem
  BY <1>1, <1>3, ChipTyped, ChipAlone
<1> QED
  BY <1>2, <1>3 DEF Own, Port!ChipChange

LEMMA CallKeeps ==
  ASSUME BusInv, NEW c \in Port!Calls, Call(c)
  PROVE  BusInv'
<1>1. /\ call = Port!None /\ call' = c /\ at' = 1 /\ seen' = {}
      /\ UNCHANGED <<chip, wait, temp, pio, pins>>
  BY DEF Call
<1>2. c \in CallType /\ call \in CallType /\ c.kind \in {"read", "write"} /\ call.kind = "none"
  BY <1>1, CallKinds, Typed DEF CallType
<1>3. /\ UNCHANGED <<mem, ptr, regs, readdata, from_sw_data_out_buffer, from_sw_data_in>>
      /\ UNCHANGED <<OTG_ADDR, OTG_CS_N, OTG_RD_N, OTG_WR_N, held, reading>>
  BY <1>1 DEF chip, pins
<1>4. TypeOK'
  <2>1. /\ call' \in CallType /\ at' \in 1 .. 6 /\ wait' \in 0 .. Gap
        /\ pio' \in PioType /\ temp' \in Values /\ seen' \subseteq Values
        /\ OTG_ADDR' \in 0 .. 3 /\ reading' \in 0 .. Access
    BY <1>1, <1>2, <1>3, Typed
  <2>2. /\ OTG_CS_N' \in Bit /\ OTG_RD_N' \in Bit /\ OTG_WR_N' \in Bit
        /\ readdata' \in Values /\ from_sw_data_out_buffer' \in Values
        /\ from_sw_data_in' \in Values /\ held' \in Values
    BY <1>3, Typed
  <2>3. mem' \in [Values -> Values] /\ ptr' \in Values /\ regs' \in [{1, 3} -> Values]
    BY <1>3, ChipTyped
  <2> QED
    BY <2>1, <2>2, <2>3 DEF TypeOK, CallType, PioType
<1> QED
  BY <1>1, <1>2, <1>3, <1>4 DEF BusInv, Copied, BootInv, IdleInv, FrameInv, WriteInv, ReadInv, FetchInv

(* Which statement is next says nothing of the types. *)
LEMMA EdgeTypes ==
  ASSUME BusInv, Edge, pio' \in PioType, temp' \in Values, wait' \in 0 .. Gap,
         call' \in CallType, at' \in 1 .. 6, seen' \subseteq Values
  PROVE  TypeOK'
<1>1. /\ OTG_ADDR' \in 0 .. 3 /\ OTG_CS_N' \in Bit /\ OTG_RD_N' \in Bit /\ OTG_WR_N' \in Bit
      /\ readdata' \in Values /\ from_sw_data_out_buffer' \in Values
      /\ from_sw_data_in' \in Values /\ held' \in Values
  BY EdgePins, Typed
<1>2. reading' \in 0 .. Access
  BY EdgePins, Typed
<1> QED
  BY <1>1, <1>2, EdgeChip DEF TypeOK, CallType, PioType

(* An edge without a statement: the strobe comes to the pin, and what the  *)
(* chip drives one register nearer.                                        *)
LEMMA WaitKeeps == ASSUME BusInv, Wait PROVE BusInv'
<1>1. /\ wait' = (IF wait < Gap THEN wait + 1 ELSE Gap) /\ Edge
      /\ UNCHANGED <<call, at, temp, pio>>
      /\ seen' = IF call.kind = "read" /\ at = 4 /\ ChipDrives
                 THEN seen \cup {Port!PortValue(OTG_ADDR)} ELSE seen
  BY DEF Wait
<1>2. wait' \in 1 .. Gap /\ seen \subseteq seen' /\ seen' \subseteq Values
  BY <1>1, Typed, ShownInValues
<1>3. TypeOK'
  BY <1>1, <1>2, EdgeTypes, Typed
<1>4. Copied'
  BY <1>1, EdgePins DEF Copied
<1>5. BootInv' /\ IdleInv' /\ FrameInv'
  BY <1>1, EdgePins, Typed DEF BusInv, BootInv, IdleInv, FrameInv, PioType
<1>6. WriteInv' /\ ReadInv'
  BY <1>1, <1>2, EdgePins, Typed DEF BusInv, WriteInv, ReadInv
<1>7. FetchInv'
  <2> SUFFICES ASSUME call.kind = "read", at = 4
               PROVE  FetchInv'
    BY <1>1 DEF FetchInv
  <2>1. /\ pio.cs = 0 /\ pio.r = 0 /\ pio.w = 1 /\ OTG_CS_N = 0
        /\ wait = 0 => OTG_RD_N = 1
        /\ wait >= 1 => OTG_RD_N = 0
    BY Typed DEF BusInv, FrameInv, ReadInv, Copied
  <2>2. wait' \in 1 .. Access => reading' = wait' - 1
    BY <1>1, <2>1, EdgePins, Typed DEF BusInv, FetchInv
  <2>3. wait' >= Access + 1 => reading' = Access
    BY <1>1, <2>1, EdgePins, Typed DEF BusInv, FetchInv
  <2>4. ASSUME wait >= Access + 1
        PROVE  from_sw_data_in' \in seen'
    <3>1. ChipDrives /\ ~InterfaceDrives
      BY <2>1, <2>4, Typed DEF BusInv, FetchInv, ChipDrives, InterfaceDrives
    <3>2. OTG_DATA = {Port!PortValue(OTG_ADDR)}
      BY <3>1 DEF OTG_DATA
    <3> QED
      BY <1>1, <3>1, <3>2, EdgePins
  <2>5. ASSUME wait >= Access + 2
        PROVE  readdata' \in seen'
    <3>1. from_sw_data_in \in seen
      BY <2>5 DEF BusInv, FetchInv
    <3> QED
      BY <1>1, <1>2, <3>1, EdgePins
  <2> QED
    BY <1>1, <2>2, <2>3, <2>4, <2>5, Typed DEF FetchInv
<1> QED
  BY <1>3, <1>4, <1>5, <1>6, <1>7 DEF BusInv

LEMMA ExecuteWait ==
  ASSUME BusInv, Execute
  PROVE  /\ wait = Gap /\ wait >= 1 /\ wait >= Access + 3 /\ wait' = 0 /\ Edge
         /\ call.kind \in {"boot", "read", "write"}
         /\ OTG_CS_N = pio.cs /\ OTG_RD_N = pio.r /\ OTG_WR_N = pio.w
         /\ OTG_ADDR = pio.address /\ from_sw_data_out_buffer = pio.data
<1>1. wait = Gap /\ wait' = 0 /\ Edge /\ call # Port!None
  BY DEF Execute
<1>2. wait >= 1 /\ wait >= Access + 3
  BY <1>1
<1> QED
  BY <1>1, <1>2, CallKinds, Typed DEF BusInv, Copied

LEMMA NoneKind == Port!None \in CallType /\ Port!None.kind = "none"
  BY DEF Port!None, CallType

LEMMA ExecuteBootKeeps == ASSUME BusInv, Execute, call.kind = "boot" PROVE BusInv'
<1>1. TypeOK'
  BY ExecuteWait, BootStatements, NoneKind, EdgeTypes, Typed DEF BusInv, BootInv
<1>2. Copied' /\ WriteInv' /\ ReadInv' /\ FrameInv' /\ FetchInv'
  BY ExecuteWait, BootStatements, NoneKind
     DEF Copied, WriteInv, ReadInv, FrameInv, FetchInv
<1>3. BootInv'
  BY ExecuteWait, BootStatements, NoneKind, EdgePins, Typed DEF BusInv, BootInv
<1>4. IdleInv'
  BY ExecuteWait, BootStatements, NoneKind, EdgePins, Typed DEF BusInv, BootInv, IdleInv
<1> QED
  BY <1>1, <1>2, <1>3, <1>4 DEF BusInv

LEMMA ExecuteWriteKeeps == ASSUME BusInv, Execute, call.kind = "write" PROVE BusInv'
<1>1. TypeOK'
  BY ExecuteWait, WriteStatements, NoneKind, EdgeTypes, Typed
<1>2. Copied' /\ BootInv' /\ ReadInv' /\ FetchInv'
  BY ExecuteWait, WriteStatements, NoneKind DEF Copied, BootInv, ReadInv, FetchInv
<1>3. IdleInv'
  BY ExecuteWait, WriteStatements, NoneKind, EdgePins, Typed DEF BusInv, IdleInv, WriteInv
<1>4. FrameInv'
  BY ExecuteWait, WriteStatements, NoneKind, EdgePins, Typed DEF BusInv, FrameInv
<1>5. WriteInv'
  <2>1. at = 5 => held' = call.data
    BY ExecuteWait, EdgePins DEF BusInv, WriteInv, OTG_DATA, InterfaceDrives, ChipDrives
  <2> QED
    BY <2>1, ExecuteWait, WriteStatements, NoneKind, EdgePins, Typed DEF BusInv, WriteInv
<1> QED
  BY <1>1, <1>2, <1>3, <1>4, <1>5 DEF BusInv

LEMMA ExecuteReadKeeps == ASSUME BusInv, Execute, call.kind = "read" PROVE BusInv'
<1>1. TypeOK'
  BY ExecuteWait, ReadStatements, NoneKind, EdgeTypes, Typed
<1>2. Copied' /\ BootInv' /\ WriteInv' /\ FetchInv'
  BY ExecuteWait, ReadStatements, NoneKind DEF Copied, BootInv, WriteInv, FetchInv
<1>3. IdleInv'
  BY ExecuteWait, ReadStatements, NoneKind, EdgePins, Typed DEF BusInv, IdleInv, ReadInv
<1>4. FrameInv'
  BY ExecuteWait, ReadStatements, NoneKind, EdgePins, Typed DEF BusInv, FrameInv
<1>5. ReadInv'
  BY ExecuteWait, ReadStatements, NoneKind, EdgePins, Typed DEF BusInv, ReadInv
<1> QED
  BY <1>1, <1>2, <1>3, <1>4, <1>5 DEF BusInv

LEMMA BusInvNext == BusInv /\ [Next]_vars => BusInv'
<1> SUFFICES ASSUME BusInv, [Next]_vars PROVE BusInv'
  OBVIOUS
<1>1. CASE Reset
  BY <1>1, ResetKeeps
<1>2. CASE Own
  BY <1>2, OwnKeeps
<1>3. CASE Execute
  BY <1>3, ExecuteWait, ExecuteBootKeeps, ExecuteWriteKeeps, ExecuteReadKeeps
<1>4. CASE Wait
  BY <1>4, WaitKeeps
<1>5. CASE \E c \in Port!Calls : Call(c)
  BY <1>5, CallKeeps
<1>6. CASE UNCHANGED vars
  BY <1>6, ChipTyped, ChipAlone DEF vars, chip
<1> QED
  BY <1>1, <1>2, <1>3, <1>4, <1>5, <1>6 DEF Next

(* The invariant of an access: where the strobe, the address and the data  *)
(* are after each statement and each clock.                                *)
THEOREM BusInvariant == Spec => []BusInv
  BY BusInvInit, BusInvNext, PTL DEF Spec

(* Every register keeps its type; no read is answered from HPI_ADDR.       *)
THEOREM HpiTypeCorrect == Spec => []TypeOK
<1>1. BusInv => TypeOK
  BY DEF BusInv
<1> QED
  BY <1>1, BusInvariant, PTL

(* The two ends of the bus are never driven against each other, although   *)
(* the FPGA drives on the port and the chip on the pin.                    *)
THEOREM BusNeverContended == Spec => []NoContention
<1>1. BusInv => NoContention
  BY CallKinds, Typed DEF BusInv, NoContention, InterfaceDrives, ChipDrives, IdleInv, WriteInv, ReadInv
<1> QED
  BY <1>1, BusInvariant, PTL

-----------------------------------------------------------------------------
(* What is at the pins of an active strobe stays there for the next step.  *)
LEMMA FrameStep ==
  ASSUME BusInv, Edge, call.kind # "boot",
         0 \in {OTG_RD_N, OTG_WR_N, OTG_RD_N', OTG_WR_N'}
  PROVE  OTG_CS_N = 0 /\ OTG_CS_N' = 0 /\ OTG_ADDR' = OTG_ADDR
<1>1. call.kind \in {"none", "read", "write"} /\ call.kind # "none"
  BY CallKinds, EdgePins, Typed DEF BusInv, IdleInv
<1>2. at \in 4 .. 6
  <2>1. CASE call.kind = "write"
    BY <2>1, EdgePins, Typed DEF BusInv, WriteInv
  <2>2. CASE call.kind = "read"
    BY <2>2, EdgePins, Typed DEF BusInv, ReadInv
  <2> QED
    BY <1>1, <2>1, <2>2
<1> QED
  BY <1>1, <1>2, EdgePins DEF BusInv, FrameInv

LEMMA PinsKept ==
  ASSUME BusInv, UNCHANGED pins, call.kind # "boot", 0 \in {OTG_RD_N, OTG_WR_N}
  PROVE  OTG_CS_N = 0 /\ OTG_CS_N' = 0 /\ OTG_ADDR' = OTG_ADDR
<1>1. call.kind \in {"none", "read", "write"} /\ call.kind # "none"
  BY CallKinds, Typed DEF BusInv, IdleInv
<1>2. at \in 4 .. 6
  <2>1. CASE call.kind = "write"
    BY <2>1, Typed DEF BusInv, WriteInv
  <2>2. CASE call.kind = "read"
    BY <2>2, Typed DEF BusInv, ReadInv
  <2> QED
    BY <1>1, <2>1, <2>2
<1>3. OTG_CS_N' = OTG_CS_N /\ OTG_ADDR' = OTG_ADDR
  BY DEF pins
<1> QED
  BY <1>1, <1>2, <1>3 DEF BusInv, FrameInv

(* Chip select and address are steady around every strobe.                 *)
THEOREM StrobesFramed == Spec => StrobeFramed
<1> DEFINE Framed ==
      call.kind # "boot" /\ call'.kind # "boot" /\ 0 \in {OTG_RD_N, OTG_WR_N, OTG_RD_N', OTG_WR_N'} =>
        OTG_CS_N = 0 /\ OTG_CS_N' = 0 /\ OTG_ADDR' = OTG_ADDR
<1>1. BusInv /\ [Next]_vars => [Framed]_vars
  <2> SUFFICES ASSUME BusInv, [Next]_vars, call.kind # "boot", call'.kind # "boot",
                      0 \in {OTG_RD_N, OTG_WR_N, OTG_RD_N', OTG_WR_N'}
               PROVE  OTG_CS_N = 0 /\ OTG_CS_N' = 0 /\ OTG_ADDR' = OTG_ADDR
    OBVIOUS
  <2>1. CASE Edge
    BY <2>1, FrameStep
  <2>2. CASE UNCHANGED pins
    <3>1. OTG_RD_N' = OTG_RD_N /\ OTG_WR_N' = OTG_WR_N
      BY <2>2 DEF pins
    <3> QED
      BY <2>2, <3>1, PinsKept
  <2>3. ~Reset
    BY DEF Reset, Port!Boot
  <2> QED
    BY <2>1, <2>2, <2>3 DEF Next, Execute, Wait, Own, Call, vars
<1> QED
  BY <1>1, BusInvariant, PTL DEF Spec, StrobeFramed

-----------------------------------------------------------------------------
(* The refinement: how far a call is, as HpiPort sees it.                  *)
Phase ==
  CASE call.kind = "write" /\ at = 6 /\ OTG_WR_N = 1 -> "done"
    [] call.kind = "read" /\ at = 6 /\ OTG_RD_N = 1  -> "done"
    [] call.kind = "read" /\ (at = 5 \/ (at = 6 /\ OTG_RD_N = 0)) -> "fetched"
    [] OTHER                                         -> "pending"

(* At an edge that ends no strobe the chip does nothing.                   *)
LEMMA QuietEdge ==
  ASSUME BusInv, Edge,
         OTG_WR_N = 1 \/ (pio.cs = 0 /\ pio.w = 0),
         OTG_RD_N = 1 \/ (pio.cs = 0 /\ pio.r = 0)
  PROVE  UNCHANGED chip
<1>1. ~Ends(OTG_WR_N) /\ ~Ends(OTG_RD_N)
  <2>1. OTG_WR_N = 1 \/ (OTG_CS_N' = 0 /\ OTG_WR_N' = 0)
    BY EdgePins
  <2>2. OTG_RD_N = 1 \/ (OTG_CS_N' = 0 /\ OTG_RD_N' = 0)
    BY EdgePins
  <2> QED
    BY <2>1, <2>2 DEF Ends
<1> QED
  BY <1>1 DEF Edge, ChipEdge

(* Before IO_init is through: whatever the chip makes of both strobes.     *)
LEMMA BootEdge ==
  ASSUME BusInv, Edge, call.kind = "boot"
  PROVE  \/ UNCHANGED chip
         \/ /\ \E v \in Values : mem' = [mem EXCEPT ![ptr] = v]
            /\ ptr' \in Values /\ UNCHANGED regs
<1>1. CASE OTG_CS_N = 1
  BY <1>1 DEF Edge, ChipEdge, Ends
<1>2. CASE OTG_CS_N = 0 /\ at = 1
  <2>1. OTG_CS_N' = 0 /\ OTG_RD_N' = 0 /\ OTG_WR_N' = 0
    BY <1>2, EdgePins DEF BusInv, BootInv
  <2> QED
    BY <2>1 DEF Edge, ChipEdge, Ends
<1>3. CASE OTG_CS_N = 0 /\ at = 2
  <2>1. OTG_CS_N' = 1 /\ OTG_RD_N = 0 /\ OTG_WR_N = 0
    BY <1>3, EdgePins DEF BusInv, BootInv
  <2>2. Ends(OTG_WR_N) /\ Ends(OTG_RD_N)
    BY <1>3, <2>1 DEF Ends
  <2> QED
    BY <2>2 DEF Edge, ChipEdge
<1> QED
  BY <1>1, <1>2, <1>3, Typed DEF BusInv, BootInv

LEMMA RefineBoot ==
  ASSUME BusInv, call.kind = "boot", Execute \/ Wait
  PROVE  [Port!Next]_(Port!vars)
<1>1. call = Port!Boot /\ Edge
  BY CallKinds, Typed DEF Execute, Wait
<1>2. Phase = "pending" /\ (call'.kind \in {"boot", "none"} => Phase' = "pending")
  BY DEF Phase
<1>3. CASE Execute /\ at = 5
  <2>1. call' = Port!None /\ seen' = {} /\ temp' = temp
    BY <1>3, BootStatements
  <2>2. UNCHANGED chip
    BY <1>1, <1>3, QuietEdge, ExecuteWait, Typed DEF BusInv, BootInv
  <2>3. Phase' = "pending"
    BY <1>2, <2>1, NoneKind
  <2> QED
    BY <1>1, <2>1, <2>2, <2>3 DEF Phase, Port!Next, Port!Return, Port!chip, chip
<1>4. CASE (Execute /\ at # 5) \/ Wait
  <2>1. UNCHANGED <<call, seen, temp>>
    BY <1>4, BootStatements DEF Wait
  <2>2. Phase' = Phase
    BY <1>2, <2>1
  <2> QED
    BY <1>1, <2>1, <2>2, BootEdge
       DEF Phase, Port!Next, Port!Glitch, Port!vars, Port!chip, chip
<1> QED
  BY <1>3, <1>4

LEMMA RefineIdle ==
  ASSUME BusInv, call.kind = "none", Wait
  PROVE  [Port!Next]_(Port!vars)
<1>1. UNCHANGED <<call, temp, seen>> /\ Edge
  BY DEF Wait
<1>2. UNCHANGED chip
  BY <1>1, QuietEdge DEF BusInv, IdleInv
<1>3. Phase = "pending" /\ Phase' = "pending"
  BY <1>1 DEF Phase
<1> QED
  BY <1>1, <1>2, <1>3 DEF Phase, Port!vars, Port!chip, chip

(* IO_write: the chip takes the data at the clock after the strobe has     *)
(* gone up at the port, when the lines still hold it.                      *)
LEMMA RefineWrite ==
  ASSUME BusInv, call.kind = "write", Execute \/ Wait
  PROVE  [Port!Next]_(Port!vars)
<1>1. Edge /\ at \in 1 .. 6
  BY Typed DEF Execute, Wait
<1>2. CASE Execute /\ at = 6
  <2>1. call' = Port!None /\ seen' = {} /\ temp' = temp
    BY <1>2, WriteStatements
  <2>2. OTG_WR_N = 1 /\ OTG_RD_N = 1
    BY <1>2, ExecuteWait DEF BusInv, WriteInv
  <2>3. UNCHANGED chip
    BY <1>1, <2>2, QuietEdge
  <2>4. Phase = "done" /\ Phase' = "pending"
    BY <1>2, <2>1, <2>2, NoneKind DEF Phase
  <2> QED
    BY <2>1, <2>3, <2>4 DEF Phase, Port!Next, Port!Return, Port!chip, chip
<1>3. CASE Execute /\ at # 6
  <2>1. UNCHANGED <<call, temp, seen>> /\ at' = at + 1
    BY <1>3, WriteStatements
  <2>2. /\ OTG_RD_N = 1
        /\ OTG_WR_N = 1 \/ (pio.cs = 0 /\ pio.w = 0)
    BY <1>1, <1>3, ExecuteWait DEF BusInv, WriteInv, FrameInv
  <2>3. UNCHANGED chip
    BY <1>1, <2>2, QuietEdge
  <2>4. at = 5 => OTG_WR_N' = 0
    BY <1>1, EdgePins DEF BusInv, WriteInv
  <2>5. Phase = "pending" /\ Phase' = "pending"
    BY <1>1, <1>3, <2>1, <2>4 DEF Phase
  <2> QED
    BY <2>1, <2>3, <2>5 DEF Phase, Port!vars, Port!chip, chip
<1>4. CASE Wait /\ ~(at = 6 /\ wait = 0)
  <2>1. UNCHANGED <<call, temp, seen, at>>
    BY <1>4 DEF Wait
  <2>2. /\ OTG_RD_N = 1
        /\ OTG_WR_N = 1 \/ (pio.cs = 0 /\ pio.w = 0)
    BY <1>1, <1>4, Typed DEF BusInv, WriteInv, FrameInv, Copied
  <2>3. UNCHANGED chip
    BY <1>1, <2>2, QuietEdge
  <2>4. at = 6 => OTG_WR_N = 1 /\ OTG_WR_N' = 1
    BY <1>1, <1>4, EdgePins, Typed DEF BusInv, WriteInv, Copied
  <2>5. Phase = Phase'
    BY <2>1, <2>4 DEF Phase
  <2> QED
    BY <2>1, <2>3, <2>5 DEF Phase, Port!vars, Port!chip, chip
<1>5. CASE Wait /\ at = 6 /\ wait = 0
  <2>1. UNCHANGED <<call, temp, seen, at>>
    BY <1>5 DEF Wait
  <2>2. /\ OTG_RD_N = 1 /\ OTG_WR_N = 0 /\ OTG_CS_N = 0 /\ OTG_ADDR = call.port
        /\ held = call.data /\ pio.w = 1 /\ OTG_WR_N' = 1
    BY <1>1, <1>5, EdgePins DEF BusInv, WriteInv, FrameInv
  <2>3. OTG_DATA = {call.data}
    BY <2>2 DEF OTG_DATA, InterfaceDrives, ChipDrives
  <2>4. Ends(OTG_WR_N) /\ ~Ends(OTG_RD_N)
    BY <2>2 DEF Ends
  <2>5. Port!PortWrite(call.port, call.data)
    BY <1>1, <2>2, <2>3, <2>4 DEF Edge, ChipEdge
  <2>6. Phase = "pending" /\ Phase' = "done"
    BY <1>5, <2>1, <2>2 DEF Phase
  <2> QED
    BY <2>1, <2>5, <2>6 DEF Phase, Port!Next, Port!Store
<1> QED
  BY <1>2, <1>3, <1>4, <1>5

(* IO_read: what is loaded is one of the values the register showed since  *)
(* the strobe arrived, and the pointer moves on when the strobe ends.      *)
LEMMA RefineRead ==
  ASSUME BusInv, call.kind = "read", Execute \/ Wait
  PROVE  [Port!Next]_(Port!vars)
<1>1. Edge /\ at \in 1 .. 6 /\ OTG_WR_N = 1
  BY Typed DEF Execute, Wait, BusInv, ReadInv
<1>2. CASE Execute /\ at = 6
  <2>1. call' = Port!None /\ seen' = {} /\ temp' = temp
    BY <1>2, ReadStatements
  <2>2. OTG_RD_N = 1
    BY <1>2, ExecuteWait DEF BusInv, ReadInv
  <2>3. UNCHANGED chip
    BY <1>1, <2>2, QuietEdge
  <2>4. Phase = "done"
    BY <1>2, <2>2 DEF Phase
  <2>5. Phase' = "pending"
    BY <2>1, NoneKind DEF Phase
  <2> QED
    BY <2>1, <2>3, <2>4, <2>5 DEF Phase, Port!Next, Port!Return, Port!chip, chip
<1>3. CASE Execute /\ at # 6
  <2>1. /\ UNCHANGED <<call, seen>> /\ at' = at + 1
        /\ temp' = IF at = 4 THEN readdata ELSE temp
    BY <1>3, ReadStatements
  <2>2. OTG_RD_N = 1 \/ (pio.cs = 0 /\ pio.r = 0)
    BY <1>1, <1>3, ExecuteWait DEF BusInv, ReadInv, FrameInv
  <2>3. UNCHANGED chip
    BY <1>1, <2>2, QuietEdge
  <2>4. at = 5 => OTG_RD_N' = 0
    BY <1>1, EdgePins DEF BusInv, ReadInv
  <2>5. CASE at = 4
    <3>1. readdata \in seen
      BY <1>3, <2>5, ExecuteWait DEF BusInv, FetchInv
    <3>2. Phase = "pending" /\ Phase' = "fetched"
      BY <2>1, <2>5 DEF Phase
    <3> QED
      BY <2>1, <2>3, <2>5, <3>1, <3>2 DEF Phase, Port!Next, Port!Fetch, Port!chip, chip
  <2>6. CASE at # 4
    <3>1. Phase' = Phase
      BY <1>1, <1>3, <2>1, <2>4, <2>6 DEF Phase
    <3> QED
      BY <2>1, <2>3, <2>6, <3>1 DEF Phase, Port!vars, Port!chip, chip
  <2> QED
    BY <2>5, <2>6
<1>4. CASE Wait /\ ~(at = 6 /\ wait = 0)
  <2>1. UNCHANGED <<call, temp, at>>
    BY <1>4 DEF Wait
  <2>2. OTG_RD_N = 1 \/ (pio.cs = 0 /\ pio.r = 0)
    BY <1>1, <1>4, Typed DEF BusInv, ReadInv, FrameInv, Copied
  <2>3. UNCHANGED chip
    BY <1>1, <2>2, QuietEdge
  <2>4. at = 6 => OTG_RD_N = 1 /\ OTG_RD_N' = 1
    BY <1>1, <1>4, EdgePins, Typed DEF BusInv, ReadInv, Copied
  <2>5. Phase = Phase'
    BY <2>1, <2>4 DEF Phase
  <2>6. CASE at = 4 /\ ChipDrives
    <3>1. seen' = seen \cup {Port!PortValue(call.port)}
      BY <1>4, <2>6 DEF Wait, BusInv, FrameInv
    <3>2. Phase = "pending"
      BY <2>6 DEF Phase
    <3> QED
      BY <2>1, <2>3, <2>5, <3>1, <3>2 DEF Phase, Port!Next, Port!Look, Port!chip, chip
  <2>7. CASE ~(at = 4 /\ ChipDrives)
    <3>1. seen' = seen
      BY <1>4, <2>7 DEF Wait
    <3> QED
      BY <2>1, <2>3, <2>5, <3>1 DEF Phase, Port!vars, Port!chip, chip
  <2> QED
    BY <2>6, <2>7
<1>5. CASE Wait /\ at = 6 /\ wait = 0
  <2>1. UNCHANGED <<call, temp, seen, at>>
    BY <1>5 DEF Wait
  <2>2. OTG_RD_N = 0 /\ OTG_CS_N = 0 /\ OTG_ADDR = call.port /\ OTG_RD_N' = 1
    BY <1>1, <1>5, EdgePins DEF BusInv, ReadInv, FrameInv
  <2>3. Ends(OTG_RD_N) /\ ~Ends(OTG_WR_N)
    BY <1>1, <2>2 DEF Ends
  <2>4. Port!PortRead(call.port)
    BY <1>1, <2>2, <2>3 DEF Edge, ChipEdge
  <2>5. Phase = "fetched"
    BY <1>5, <2>2 DEF Phase
  <2>6. Phase' = "done"
    BY <1>5, <2>1, <2>2 DEF Phase
  <2> QED
    BY <2>1, <2>4, <2>5, <2>6 DEF Phase, Port!Next, Port!Advance
<1> QED
  BY <1>2, <1>3, <1>4, <1>5

(* Every clock and statement of an access is a step of HpiPort or none.    *)
THEOREM PortImplemented == Spec => ImplementsHpiPort
<1>1. Init => Port!Init
  BY DEF Init
<1>2. BusInv /\ [Next]_vars => [Port!Next]_(Port!vars)
  <2> SUFFICES ASSUME BusInv, [Next]_vars PROVE [Port!Next]_(Port!vars)
    OBVIOUS
  <2>1. CASE Reset
    <3>1. Phase' = "pending"
      BY <2>1 DEF Reset, Phase, Port!Boot
    <3>2. DOMAIN regs = {1, 3}
      BY ChipTyped
    <3>3. Port!Reset
      BY <2>1, <3>1, <3>2 DEF Reset, Phase, Port!Reset
    <3> QED
      BY <3>3 DEF Port!Next
  <2>2. CASE Own
    <3>1. UNCHANGED <<call, temp, seen>> /\ Phase' = Phase
      BY <2>2 DEF Own, program, pins, Phase
    <3> QED
      BY <2>2, <3>1 DEF Own, Phase, Port!Next, Port!Own
  <2>3. CASE Execute \/ Wait
    BY <2>3, ExecuteWait, CallKinds, Typed, RefineBoot, RefineIdle, RefineWrite, RefineRead
  <2>4. CASE \E c \in Port!Calls : Call(c)
    <3>1. PICK c \in Port!Calls : Call(c)
      BY <2>4
    <3>2. Phase' = "pending"
      BY <3>1 DEF Call, Phase
    <3> QED
      BY <3>1, <3>2 DEF Call, Phase, Port!Next, Port!Begin, Port!chip, chip
  <2>5. CASE UNCHANGED vars
    <3>1. Phase' = Phase
      BY <2>5 DEF vars, program, pins, Phase
    <3> QED
      BY <2>5, <3>1 DEF vars, program, pins, chip, Phase, Port!vars, Port!chip
  <2> QED
    BY <2>1, <2>2, <2>3, <2>4, <2>5 DEF Next
<1> QED
  BY <1>1, <1>2, BusInvariant, PTL DEF Spec, ImplementsHpiPort, Port!Spec
=============================================================================
