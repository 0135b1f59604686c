--------------------------- MODULE JtagUartProofs ---------------------------
(***************************************************************************)
(* Theorems about the JTAG UART driver for every ring and FIFO that        *)
(* fulfils SizesAssumption.                                                *)
(***************************************************************************)
EXTENDS JtagUart, SequenceTheorems, TLAPS

USE SizesAssumption DEF SizesAssumption

(* The type invariant in parts, one for each group of variables.           *)
TxType == tx_in \in Index /\ tx_out \in Index /\ tx_buf \in [Index -> Char]
RxType == rx_in \in Index /\ rx_out \in Index /\ rx_buf \in [Index -> Char]
PresenceType == host_inactive \in Nat /\ timeout \in Nat
CallType ==
  /\ pc \in {"reset", "idle", "close"} \cup Writing \cup Reading
  /\ src \in Seq(Char) /\ put \in Nat /\ dst \in Seq(Char) /\ room \in Nat
  /\ n \in 0 .. BufLen /\ seen \in Index /\ ret \in Int
IrqType == isr \in {"off", "control", "rx", "tx"} /\ space \in 0 .. FifoDepth
UartType ==
  /\ wfifo \in Seq(Char) /\ Len(wfifo) <= FifoDepth
  /\ rfifo \in Seq(Char) /\ Len(rfifo) <= FifoDepth
  /\ printed \in Seq(Char)
FlagType ==
  /\ re \in BOOLEAN /\ we \in BOOLEAN /\ nonblock \in BOOLEAN
  /\ wi \in BOOLEAN /\ avail \in BOOLEAN
  /\ pause_irq \in BOOLEAN /\ ac \in BOOLEAN /\ host \in BOOLEAN

Typing == TxType /\ RxType /\ PresenceType /\ CallType /\ IrqType /\ UartType

(* What a call holds between the statements that compute and use it.       *)
WriteInv == pc \in {"wCopy", "wPublish"} => n \in 1 .. Len(src) /\ n <= Space(tx_in, tx_out)
ReadInv ==
  /\ pc \in {"rCopy", "rPublish"} => n \in 1 .. room /\ n <= Avail(rx_in, rx_out)
  /\ pc \in Reading \ {"rEnable", "rAvail"} => room > 0
  /\ pc = "rAvail" /\ room = 0 => dst = <<>>
  /\ pc \notin Reading \/ pc \in {"rWait", "rActive"} => dst = <<>>
  /\ pc = "rPublish" => dst # <<>>
(* While the routine receives, either it has not looked at the FIFO yet,    *)
(* which is why it was called, or it has put a character into the ring.     *)
IrqInv ==
  /\ isr = "rx" => re /\ (IF avail THEN rfifo # <<>> ELSE rx_in # rx_out)
  /\ pause_irq => rfifo # <<>>
  /\ space <= FifoDepth - Len(wfifo)
  /\ pc = "reset" => tx_in = tx_out /\ isr = "off"
PatienceInv == host_inactive <= IntMax - 2

DriverInv ==
  /\ Typing /\ WriteInv /\ ReadInv /\ IrqInv /\ PatienceInv
  /\ NoLostKick /\ ReceiveResumes

-----------------------------------------------------------------------------
(* Rings *)

(* Moving an index on by no more than is left up to the end of the ring.   *)
LEMMA Advance ==
  ASSUME NEW i \in Index, NEW k \in Nat, i + k <= BufLen
  PROVE  /\ (i + k) % BufLen = IF i + k = BufLen THEN 0 ELSE i + k
         /\ (i + k) % BufLen \in Index
<1>1. BufLen \in Nat /\ BufLen > 1 /\ i \in Nat /\ i + k \in Nat
  BY DEF Index
<1>2. CASE i + k = BufLen
  BY <1>1, <1>2 DEF Index
<1>3. CASE i + k < BufLen
  BY <1>1, <1>3 DEF Index
<1> QED
  BY <1>1, <1>2, <1>3

LEMMA AdvanceOne ==
  ASSUME NEW i \in Index
  PROVE  /\ (i + 1) % BufLen = IF i + 1 = BufLen THEN 0 ELSE i + 1
         /\ (i + 1) % BufLen \in Index
  BY Advance DEF Index

LEMMA SpaceUpToTheEnd ==
  ASSUME NEW in \in Index, NEW out \in Index
  PROVE  Space(in, out) \in 0 .. BufLen /\ in + Space(in, out) <= BufLen
  BY DEF Index, Space

LEMMA AvailUpToTheEnd ==
  ASSUME NEW in \in Index, NEW out \in Index
  PROVE  Avail(in, out) \in 0 .. BufLen /\ out + Avail(in, out) <= BufLen
  BY DEF Index, Avail

(* Taking a character out makes room; putting one in leaves what is there. *)
LEMMA SpaceGrows ==
  ASSUME NEW in \in Index, NEW out \in Index, out # in
  PROVE  Space(in, out) <= Space(in, (out + 1) % BufLen)
  BY AdvanceOne DEF Index, Space

LEMMA AvailGrows ==
  ASSUME NEW in \in Index, NEW out \in Index, (in + 1) % BufLen # out
  PROVE  Avail(in, out) <= Avail((in + 1) % BufLen, out)
  BY AdvanceOne DEF Index, Avail

-----------------------------------------------------------------------------
(* Who changes what. *)
LEMMA Frames ==
  ASSUME Next
  PROVE  /\ WriteCopy \/ WritePublish \/ SendChar \/ UNCHANGED txRing
         /\ ReadPublish \/ ReceiveChar \/ UNCHANGED rxRing
         /\ \/ altera_avalon_jtag_uart_init \/ ReadEnable \/ ReceiveLater
            \/ (\E c \in FromHost : ReceiveMissed(c)) \/ UNCHANGED re
         /\ altera_avalon_jtag_uart_init \/ WriteKick \/ SendDone \/ UNCHANGED we
         /\ \/ altera_avalon_jtag_uart_init \/ (\E t \in Timeouts : SetTimeout(t)) 
            \/ Tick \/ UNCHANGED presence
         /\ ((NewCall \/ CallStep) /\ isr = "off") \/ UNCHANGED call
         /\ Interrupt \/ Routine \/ UNCHANGED irq
         /\ Routine \/ Tick \/ Host \/ UNCHANGED uart
<1>1. CASE NewCall
  BY <1>1 DEF NewCall, WriteCall, ReadCall, CloseCall, SetTimeout, GetConnected, At, presence, call, enables
<1>2. CASE CallStep
  BY <1>2 DEF CallStep, altera_avalon_jtag_uart_init, WriteSpace, WriteCopy, WritePublish, WriteKick,
     WriteWait, WriteActive, ReadAvail, ReadCopy, ReadPublish, ReadWait, ReadActive, ReadEnable,
     altera_avalon_jtag_uart_close, At, presence, call, enables
<1>3. CASE Interrupt \/ Routine
  BY <1>3 DEF Interrupt, Routine, ReadControl, ReceiveChar, ReceiveNothing, ReceiveMissed, ReceiveLater, SendChar, SendDone, enables
<1>4. CASE Tick \/ Host
  BY <1>4 DEF Tick, Host, HostTakes, HostPauses, HostComesOrGoes, HostSends, enables
<1> QED
  BY <1>1, <1>2, <1>3, <1>4 DEF Next

LEMMA CallsUninterrupted ==
  ASSUME NewCall \/ CallStep
  PROVE  isr = "off" /\ UNCHANGED irq
  BY DEF NewCall, WriteCall, ReadCall, CloseCall, SetTimeout, GetConnected, CallStep,
     altera_avalon_jtag_uart_init, WriteSpace, WriteCopy, WritePublish, WriteKick, WriteWait, WriteActive,
     ReadAvail, ReadCopy, ReadPublish, ReadWait, ReadActive, ReadEnable, altera_avalon_jtag_uart_close, At

-----------------------------------------------------------------------------
LEMMA DriverInvInit == Init => DriverInv
<1> SUFFICES ASSUME Init PROVE DriverInv
  OBVIOUS
<1>1. TxType /\ RxType
  BY DEF Init, TxType, RxType, Index
<1>2. PresenceType /\ CallType /\ IrqType /\ UartType
  BY DEF Init, PresenceType, CallType, IrqType, UartType, Index
<1>3. WriteInv /\ ReadInv /\ IrqInv /\ PatienceInv /\ NoLostKick /\ ReceiveResumes
  BY DEF Init, WriteInv, ReadInv, IrqInv, PatienceInv, NoLostKick, ReceiveResumes, Reading
<1> QED
  BY <1>1, <1>2, <1>3 DEF DriverInv, Typing

LEMMA TxTypeNext == DriverInv /\ Next => TxType'
<1> SUFFICES ASSUME DriverInv, Next PROVE TxType'
  OBVIOUS
<1> USE DEF DriverInv, Typing, TxType
<1>1. CASE WriteCopy
  <2>1. \A i \in tx_in .. tx_in + n - 1 : src[i - tx_in + 1] \in Char
    BY <1>1 DEF WriteCopy, At, WriteInv, CallType, Index
  <2> QED
    BY <1>1, <2>1 DEF WriteCopy
<1>2. CASE WritePublish
  <2>1. n \in Nat /\ tx_in + n <= BufLen
    <3>1. tx_in + Space(tx_in, tx_out) <= BufLen /\ Space(tx_in, tx_out) \in Nat
      BY SpaceUpToTheEnd
    <3>2. n \in Nat /\ n <= Space(tx_in, tx_out) /\ tx_in \in Nat
      BY <1>2 DEF WritePublish, At, WriteInv, CallType, Index
    <3> QED
      BY <3>1, <3>2
  <2> QED
    BY <1>2, <2>1, Advance DEF WritePublish
<1>3. CASE SendChar
  BY <1>3, AdvanceOne DEF SendChar
<1>4. CASE UNCHANGED txRing
  BY <1>4 DEF txRing
<1> QED
  BY <1>1, <1>2, <1>3, <1>4, Frames

LEMMA RxTypeNext == DriverInv /\ Next => RxType'
<1> SUFFICES ASSUME DriverInv, Next PROVE RxType'
  OBVIOUS
<1> USE DEF DriverInv, Typing, RxType
<1>1. CASE ReadPublish
  <2>1. n \in Nat /\ rx_out + n <= BufLen
    <3>1. rx_out + Avail(rx_in, rx_out) <= BufLen /\ Avail(rx_in, rx_out) \in Nat
      BY AvailUpToTheEnd
    <3>2. n \in Nat /\ n <= Avail(rx_in, rx_out) /\ rx_out \in Nat
      BY <1>1 DEF ReadPublish, At, ReadInv, CallType, Index
    <3> QED
      BY <3>1, <3>2
  <2> QED
    BY <1>1, <2>1, Advance DEF ReadPublish
<1>2. CASE ReceiveChar
  <2>1. Head(rfifo) \in Char
    BY <1>2 DEF ReceiveChar, UartType
  <2> QED
    BY <1>2, <2>1, AdvanceOne DEF ReceiveChar
<1>3. CASE UNCHANGED rxRing
  BY <1>3 DEF rxRing
<1> QED
  BY <1>1, <1>2, <1>3, Frames

LEMMA PresenceNext == DriverInv /\ Next => PresenceType' /\ PatienceInv'
<1> SUFFICES ASSUME DriverInv, Next PROVE PresenceType' /\ PatienceInv'
  OBVIOUS
<1> USE DEF DriverInv, Typing, PresenceType, PatienceInv
<1>1. CASE altera_avalon_jtag_uart_init
  BY <1>1 DEF altera_avalon_jtag_uart_init
<1>2. CASE \E t \in Timeouts : SetTimeout(t)
  BY <1>2 DEF SetTimeout
<1>3. CASE Tick
  BY <1>3 DEF Tick
<1>4. CASE UNCHANGED presence
  BY <1>4 DEF presence
<1> QED
  BY <1>1, <1>2, <1>3, <1>4, Frames

LEMMA UartNext == DriverInv /\ Next => UartType'
<1> SUFFICES ASSUME DriverInv, Next PROVE UartType'
  OBVIOUS
<1> USE DEF DriverInv, Typing, UartType
<1>1. CASE Routine
  <2>1. CASE ReceiveChar
    BY <2>1 DEF ReceiveChar
  <2>2. CASE SendChar
    <3>1. tx_buf[tx_out] \in Char
      BY DEF TxType
    <3> QED
      BY <2>2, <3>1 DEF SendChar, Push
  <2>3. ASSUME NEW c \in FromHost, ReceiveMissed(c) PROVE UartType'
    BY <2>3 DEF ReceiveMissed
  <2> QED
    BY <1>1, <2>1, <2>2, <2>3 DEF Routine, ReadControl, ReceiveNothing, ReceiveLater, SendDone, uart
<1>2. CASE Host
  <2>1. CASE HostTakes
    BY <2>1 DEF HostTakes
  <2>2. ASSUME NEW c \in FromHost, HostSends(c) PROVE UartType'
    BY <2>2 DEF HostSends
  <2> QED
    BY <1>2, <2>1, <2>2 DEF Host, HostPauses, HostComesOrGoes
<1>3. CASE Tick
  BY <1>3 DEF Tick
<1>4. CASE UNCHANGED uart
  BY <1>4 DEF uart
<1> QED
  BY <1>1, <1>2, <1>3, <1>4, Frames
(* The statements of the calls, by what they do to the locals.             *)
LEMMA CallTypeNext == DriverInv /\ Next => CallType'
<1> SUFFICES ASSUME DriverInv, Next PROVE CallType'
  OBVIOUS
<1> USE DEF DriverInv, Typing, CallType, At, Goto, Locals
<1>1. ASSUME NEW value \in Int, Return(value) PROVE CallType'
  BY <1>1 DEF Return, Index
<1>2. Outcome(put) \in Int /\ Outcome(0) \in Int /\ Outcome(Len(dst)) \in Int
  BY DEF Outcome, EIO, EWOULDBLOCK
<1>3. CASE NewCall
  <2>1. ASSUME NEW nb \in BOOLEAN, NEW k \in 0 .. WriteMax, NEW chars \in [1 .. k -> Char],
               WriteCall(chars, nb)
        PROVE  CallType'
    <3>1. chars \in Seq(Char)
      BY <2>1 
    <3> QED
      BY <2>1, <3>1 DEF WriteCall, Writing
  <2>2. ASSUME NEW nb \in BOOLEAN, NEW count \in 0 .. ReadMax, ReadCall(count, nb) PROVE CallType'
    BY <2>2 DEF ReadCall, Reading
  <2>3. ASSUME NEW nb \in BOOLEAN, CloseCall(nb) PROVE CallType'
    BY <2>3 DEF CloseCall
  <2>4. ASSUME NEW t \in Timeouts, SetTimeout(t) PROVE CallType'
    BY <2>4, <1>1 DEF SetTimeout, ENOTTY
  <2>5. CASE GetConnected
    BY <2>5, <1>1 DEF GetConnected, ENOTTY
  <2> QED
    BY <1>3, <2>1, <2>2, <2>3, <2>4, <2>5 DEF NewCall
<1>4. CASE CallStep
  <2>1. CASE altera_avalon_jtag_uart_init
    BY <2>1 DEF altera_avalon_jtag_uart_init
  <2>2. CASE WriteSpace
    <3>1. Space(tx_in, tx_out) \in 0 .. BufLen /\ tx_out \in Index
      BY SpaceUpToTheEnd DEF TxType
    <3>2. Lesser(Space(tx_in, tx_out), Len(src)) \in 0 .. BufLen
      BY <3>1 DEF Lesser
    <3> QED
      BY <2>2, <3>1, <3>2 DEF WriteSpace, Writing
  <2>3. CASE WriteCopy
    BY <2>3 DEF WriteCopy, Writing
  <2>4. CASE WritePublish
    <3>1. SubSeq(src, n + 1, Len(src)) \in Seq(Char)
      BY <2>4 DEF WritePublish, WriteInv
    <3> QED
      BY <2>4, <3>1 DEF WritePublish, Writing
  <2>5. CASE WriteKick
    BY <2>5, <1>1, <1>2 DEF WriteKick, Writing
  <2>6. CASE WriteWait \/ WriteActive
    BY <2>6, <1>1, <1>2 DEF WriteWait, WriteActive, Writing
  <2>7. CASE ReadAvail
    <3>1. Avail(rx_in, rx_out) \in 0 .. BufLen /\ rx_in \in Index
      BY AvailUpToTheEnd DEF RxType
    <3>2. Lesser(Avail(rx_in, rx_out), room) \in 0 .. BufLen
      BY <3>1 DEF Lesser
    <3>3. CASE Return(0 - EWOULDBLOCK) \/ Return(Outcome(0))
      BY <1>1, <1>2, <3>3 DEF EWOULDBLOCK
    <3> QED
      BY <2>7, <3>1, <3>2, <3>3 DEF ReadAvail, Reading
  <2>8. CASE ReadCopy
    <3>1. dst' = dst \o [i \in 1 .. n |-> rx_buf[rx_out + i - 1]] /\ n \in Nat
      BY <2>8 DEF ReadCopy
    <3>2. rx_out + Avail(rx_in, rx_out) <= BufLen /\ Avail(rx_in, rx_out) \in Nat
      BY AvailUpToTheEnd DEF RxType
    <3>3. n <= Avail(rx_in, rx_out) /\ rx_out \in Nat
      BY <2>8 DEF ReadCopy, ReadInv, RxType, Index
    <3>4. \A i \in 1 .. n : rx_out + i - 1 \in Index
      BY <3>1, <3>2, <3>3 DEF Index
    <3>5. [i \in 1 .. n |-> rx_buf[rx_out + i - 1]] \in Seq(Char)
      BY <3>1, <3>4 DEF RxType
    <3>6. dst' \in Seq(Char)
      BY <3>1, <3>5
    <3> QED
      BY <2>8, <3>6 DEF ReadCopy, Reading
  <2>9. CASE ReadPublish
    BY <2>9 DEF ReadPublish, ReadInv, Reading
  <2>10. CASE ReadWait \/ ReadActive \/ ReadEnable
    BY <2>10, <1>1, <1>2 DEF ReadWait, ReadActive, ReadEnable, Reading
  <2>11. CASE altera_avalon_jtag_uart_close
    BY <2>11, <1>1 DEF altera_avalon_jtag_uart_close, EWOULDBLOCK
  <2> QED
    BY <1>4, <2>1, <2>2, <2>3, <2>4, <2>5, <2>6, <2>7, <2>8, <2>9, <2>10, <2>11 DEF CallStep
<1>5. CASE UNCHANGED call
  BY <1>5 DEF call
<1> QED
  BY <1>3, <1>4, <1>5, Frames
(* What a call computed from a ring still holds when it acts on it.        *)
LEMMA WriteInvNext == DriverInv /\ Next => WriteInv'
<1> SUFFICES ASSUME DriverInv, Next, pc' \in {"wCopy", "wPublish"}
             PROVE  n' \in 1 .. Len(src') /\ n' <= Space(tx_in', tx_out')
  BY DEF WriteInv
<1> USE DEF DriverInv, Typing, At
<1>1. CASE WriteSpace
  <2>1. pc' = "wCopy" /\ src # <<>> /\ Space(tx_in, tx_out) # 0
    BY <1>1 DEF WriteSpace, Goto
  <2>2. Space(tx_in, tx_out) \in Nat \ {0} /\ Len(src) \in Nat \ {0}
    BY <2>1, SpaceUpToTheEnd DEF CallType, TxType
  <2>3. n' = Lesser(Space(tx_in, tx_out), Len(src)) /\ UNCHANGED <<src, tx_in, tx_out>>
    BY <1>1, <2>1 DEF WriteSpace, txRing, Locals
  <2> QED
    BY <2>2, <2>3 DEF Lesser
<1>2. CASE WriteCopy
  BY <1>2 DEF WriteCopy, Goto, Locals, WriteInv
<1>3. CASE SendChar
  <2>1. n <= Space(tx_in, tx_out) /\ n \in 1 .. Len(src)
    BY <1>3 DEF SendChar, call, WriteInv
  <2>2. Space(tx_in, tx_out) <= Space(tx_in, tx_out')
    BY <1>3, SpaceGrows DEF SendChar, TxType
  <2>3. UNCHANGED <<tx_in, n, src>> /\ tx_out' \in Index
    BY <1>3, TxTypeNext DEF SendChar, call, TxType
  <2>4. Space(tx_in, tx_out) \in Nat /\ Space(tx_in, tx_out') \in Nat
    BY <2>3, SpaceUpToTheEnd DEF TxType
  <2> QED
    BY <2>1, <2>2, <2>3, <2>4 DEF CallType
<1>4. CASE UNCHANGED txRing /\ UNCHANGED call
  BY <1>4 DEF txRing, call, WriteInv
<1>5. CASE NewCall
  BY <1>5 DEF NewCall, WriteCall, ReadCall, CloseCall, SetTimeout, GetConnected, Return
<1>6. CASE CallStep
  BY <1>1, <1>2, <1>6 DEF CallStep, altera_avalon_jtag_uart_init, WritePublish, WriteKick, WriteWait,
     WriteActive, ReadAvail, ReadCopy, ReadPublish, ReadWait, ReadActive, ReadEnable,
     altera_avalon_jtag_uart_close, Goto, Return
<1> QED
  BY <1>1, <1>2, <1>3, <1>4, <1>5, <1>6, Frames DEF CallStep

LEMMA ReadInvNext == DriverInv /\ Next => ReadInv'
<1> SUFFICES ASSUME DriverInv, Next PROVE ReadInv'
  OBVIOUS
<1> USE DEF DriverInv, Typing, At
<1>1. CASE ReadAvail
  <2>1. CASE pc' = "rCopy"
    <3>1. /\ Avail(rx_in, rx_out) > 0 /\ n' = Lesser(Avail(rx_in, rx_out), room)
          /\ UNCHANGED <<room, rx_in, rx_out>>
      BY <1>1, <2>1 DEF ReadAvail, Goto, Return, rxRing
    <3>2. Avail(rx_in, rx_out) \in Nat /\ room \in Nat /\ room > 0
      BY <1>1, <2>1, AvailUpToTheEnd DEF ReadAvail, Goto, Return, RxType, CallType
    <3> QED
      BY <2>1, <3>1, <3>2 DEF Lesser, ReadInv, Reading
  <2>2. CASE pc' # "rCopy"
    BY <1>1, <2>2 DEF ReadAvail, Goto, Locals, Return, ReadInv, Reading
  <2> QED
    BY <2>1, <2>2
<1>2. CASE ReadCopy
  <2>1. n \in 1 .. room /\ n <= Avail(rx_in, rx_out) /\ room > 0
    BY <1>2 DEF ReadCopy, ReadInv, Reading
  <2>2. dst' = dst \o [i \in 1 .. n |-> rx_buf[rx_out + i - 1]] /\ n \in Nat \ {0}
    BY <1>2, <2>1 DEF ReadCopy, CallType
  <2>3. Len(dst') = Len(dst) + n
    BY <2>2, CallTypeNext DEF CallType
  <2>4. Len(dst') # 0
    <3>1. Len(dst) \in Nat /\ n \in Nat \ {0}
      BY <2>2 DEF CallType
    <3> QED
      BY <2>3, <3>1
  <2> QED
    BY <1>2, <2>1, <2>4 DEF ReadCopy, ReadInv, Reading, rxRing
<1>3. CASE ReadPublish
  BY <1>3 DEF ReadPublish, ReadInv, CallType, Reading
<1>4. CASE ReadWait \/ ReadActive \/ ReadEnable
  BY <1>4 DEF ReadWait, ReadActive, ReadEnable, Goto, Locals, Return, ReadInv, Reading
<1>5. CASE ReceiveChar
  <2>1. Avail(rx_in, rx_out) <= Avail(rx_in', rx_out) /\ rx_in' \in Index
    BY <1>5, AvailGrows, RxTypeNext DEF ReceiveChar, RxFull, RxType
  <2>2. UNCHANGED <<pc, n, room, dst, rx_out>>
    BY <1>5 DEF ReceiveChar, call
  <2>3. Avail(rx_in, rx_out) \in Nat /\ Avail(rx_in', rx_out) \in Nat
    BY <2>1, AvailUpToTheEnd DEF RxType
  <2> QED
    BY <2>1, <2>2, <2>3 DEF ReadInv, CallType
<1>6. CASE UNCHANGED rxRing /\ UNCHANGED call
  BY <1>6 DEF rxRing, call, ReadInv
<1>7. CASE NewCall
  BY <1>7 DEF NewCall, WriteCall, ReadCall, CloseCall, SetTimeout, GetConnected, Return, ReadInv, Reading
<1>8. CASE CallStep
  <2>1. CASE WriteSpace \/ WriteCopy \/ WritePublish \/ WriteKick \/ WriteWait \/ WriteActive
    BY <2>1 DEF WriteSpace, WriteCopy, WritePublish, WriteKick, WriteWait, WriteActive, Goto, Locals, Return,
       ReadInv, Reading
  <2>2. CASE altera_avalon_jtag_uart_init \/ altera_avalon_jtag_uart_close
    BY <2>2 DEF altera_avalon_jtag_uart_init, altera_avalon_jtag_uart_close, Goto, Locals, Return, ReadInv, Reading
  <2> QED
    BY <1>1, <1>2, <1>3, <1>4, <1>8, <2>1, <2>2 DEF CallStep
<1> QED
  BY <1>1, <1>2, <1>3, <1>4, <1>5, <1>6, <1>7, <1>8, Frames
(* Each of the UART's interrupts has a reason. *)
LEMMA Reasons ==
  ASSUME DriverInv
  PROVE  (ipen_AF => re /\ rfifo # <<>>) /\ (ipen_AE => we /\ FifoDepth - Len(wfifo) > 0)
<1>1. Len(rfifo) \in Nat /\ Len(wfifo) \in Nat /\ (rfifo = <<>> => Len(rfifo) = 0)
  BY DEF DriverInv, Typing, UartType
<1> QED
  BY <1>1 DEF DriverInv, IrqInv, ipen_AF, ipen_AE, fifo_AF, fifo_AE

(* The host's pause is forgotten when the FIFO is read. *)
LEMMA PauseNext == DriverInv /\ Next => (pause_irq' => rfifo' # <<>>)
<1> SUFFICES ASSUME DriverInv, Next, pause_irq' PROVE rfifo' # <<>>
  OBVIOUS
<1> USE DEF DriverInv, Typing, IrqInv
<1>1. CASE Routine
  BY <1>1, Zenon DEF Routine, ReadControl, ReceiveChar, ReceiveNothing, ReceiveMissed, ReceiveLater, SendChar,
     SendDone, uart
<1>2. CASE Tick
  BY <1>2, Zenon DEF Tick
<1>3. CASE HostTakes \/ HostPauses \/ HostComesOrGoes
  BY <1>3, Zenon DEF HostTakes, HostPauses, HostComesOrGoes
<1>4. ASSUME NEW c \in FromHost, HostSends(c) PROVE rfifo' # <<>>
  BY <1>4 DEF HostSends, UartType
<1>5. CASE UNCHANGED uart
  BY <1>5, Zenon DEF uart
<1> QED
  BY <1>1, <1>2, <1>3, <1>4, <1>5, Frames DEF Host

(* The routine is called to look at a FIFO that has something; what it     *)
(* finds is in the ring, and no read takes it while the routine runs.      *)
LEMMA LookNext ==
  DriverInv /\ Next => (isr' = "rx" => IF avail' THEN rfifo' # <<>> ELSE rx_in' # rx_out')
<1> SUFFICES ASSUME DriverInv, Next, isr' = "rx"
             PROVE  IF avail' THEN rfifo' # <<>> ELSE rx_in' # rx_out'
  OBVIOUS
<1> USE DEF DriverInv, Typing, IrqInv
<1>1. CASE ReadControl
  <2>1. ipen_AF /\ avail' /\ UNCHANGED rfifo
    BY <1>1 DEF ReadControl, uart
  <2> QED
    BY <2>1, Reasons, Zenon
<1>2. CASE ReceiveChar
  <2>1. (avail' <=> rfifo' # <<>>) /\ rx_out' = rx_out /\ rx_in' = (rx_in + 1) % BufLen
    BY <1>2, Zenon DEF ReceiveChar
  <2>2. rx_in' # rx_out'
    BY <1>2, <2>1 DEF ReceiveChar, RxFull
  <2> QED
    BY <2>1, <2>2, Zenon
<1>3. CASE Routine
  BY <1>1, <1>2, <1>3 DEF Routine, ReceiveNothing, ReceiveMissed, ReceiveLater, SendChar, SendDone, AfterRx
<1>4. CASE Interrupt
  BY <1>4 DEF Interrupt
<1>5. CASE NewCall \/ CallStep
  <2>1. isr = "off" /\ isr' = isr
    BY <1>5, CallsUninterrupted DEF irq
  <2> QED
    BY <2>1
<1>6. CASE Tick \/ Host
  <2>1. UNCHANGED <<isr, avail, rx_in, rx_out>>
    BY <1>6 DEF Tick, Host, HostTakes, HostPauses, HostComesOrGoes, HostSends, irq, rxRing
  <2>2. rfifo # <<>> => rfifo' # <<>>
    BY <1>6 DEF Tick, Host, HostTakes, HostPauses, HostComesOrGoes, HostSends, UartType
  <2> QED
    BY <2>1, <2>2, Zenon
<1> QED
  BY <1>3, <1>4, <1>5, <1>6, Frames DEF Next

(* The transmit interrupt is on when it is needed, the receive interrupt   *)
(* is off only when there is something to read, and the routine knows how  *)
(* much room the FIFO has.                                                 *)
LEMMA IrqTypeNext == DriverInv /\ Next => IrqType'
<1> SUFFICES ASSUME DriverInv, Next PROVE IrqType'
  OBVIOUS
<1> USE DEF DriverInv, Typing, IrqType
<1>1. CASE Interrupt
  BY <1>1 DEF Interrupt
<1>2. CASE ReadControl
  <2>1. FifoDepth - Len(wfifo) \in 0 .. FifoDepth
    BY DEF UartType
  <2> QED
    BY <1>2, <2>1 DEF ReadControl
<1>3. CASE Routine
  BY <1>2, <1>3 DEF Routine, ReceiveChar, ReceiveNothing, ReceiveMissed, ReceiveLater, SendChar, SendDone, AfterRx
<1>4. CASE UNCHANGED irq
  BY <1>4 DEF irq
<1> QED
  BY <1>1, <1>3, <1>4, Frames

LEMMA IrqInvNext == DriverInv /\ Next => IrqInv'
<1> SUFFICES ASSUME DriverInv, Next PROVE IrqInv'
  OBVIOUS
<1> USE DEF DriverInv, Typing, At
<1>1. isr' = "rx" => re'
  <2>1. CASE ReadControl
    BY <2>1 DEF ReadControl, ipen_AF, enables
  <2>2. CASE ReceiveChar
    BY <2>2 DEF ReceiveChar, IrqInv, enables
  <2>3. CASE Routine
    BY <2>1, <2>2, <2>3 DEF Routine, ReceiveNothing, ReceiveMissed, ReceiveLater, SendChar, SendDone, AfterRx
  <2>4. CASE Interrupt
    BY <2>4 DEF Interrupt
  <2>5. CASE UNCHANGED irq
    BY <2>5, Frames DEF irq, altera_avalon_jtag_uart_init, ReadEnable, ReceiveMissed, ReceiveLater, AfterRx, IrqInv
  <2> QED
    BY <2>3, <2>4, <2>5, Frames
<1>2. space' <= FifoDepth - Len(wfifo')
  <2>1. CASE ReadControl
    BY <2>1 DEF ReadControl, uart, UartType
  <2>2. CASE SendChar
    <3>1. space > 0 /\ space' = space - 1 /\ space <= FifoDepth - Len(wfifo)
      BY <2>2 DEF SendChar, IrqInv
    <3>2. wfifo' = Append(wfifo, tx_buf[tx_out])
      BY <2>2, <3>1 DEF SendChar, Push, IrqType, UartType
    <3>3. Len(wfifo') = Len(wfifo) + 1 /\ Len(wfifo) \in Nat /\ space \in Nat
      BY <3>2 DEF UartType, TxType, IrqType
    <3> QED
      BY <3>1, <3>3
  <2>3. CASE HostTakes
    <3>1. Len(wfifo') = Len(wfifo) - 1 /\ Len(wfifo) \in Nat /\ space' = space
      BY <2>3 DEF HostTakes, UartType, irq
    <3> QED
      BY <3>1 DEF IrqInv, IrqType
  <2>4. CASE UNCHANGED wfifo /\ UNCHANGED space
    BY <2>4 DEF IrqInv
  <2>5. CASE Interrupt
    BY <2>5 DEF Interrupt, IrqInv, uart
  <2>6. CASE Routine
    BY <2>1, <2>2, <2>6 DEF Routine, ReceiveChar, ReceiveNothing, ReceiveMissed, ReceiveLater, SendDone, AfterRx, uart, IrqInv
  <2>7. CASE Host \/ Tick
    BY <2>3, <2>4, <2>7 DEF Host, HostSends, HostPauses, HostComesOrGoes, Tick, irq
  <2> QED
    BY <2>4, <2>5, <2>6, <2>7, Frames DEF uart, irq
<1>3. pc' = "reset" => tx_in' = tx_out' /\ isr' = "off"
  <2>1. CASE UNCHANGED call /\ ~Interrupt /\ pc = "reset"
    BY <2>1, Frames DEF IrqInv, call, Routine, ReadControl, ReceiveChar, ReceiveNothing, ReceiveMissed, ReceiveLater,
       SendChar, SendDone, WriteCopy, WritePublish, txRing, irq
  <2>2. CASE Interrupt
    BY <2>2 DEF Interrupt, call
  <2>3. CASE NewCall
    BY <2>3 DEF NewCall, WriteCall, ReadCall, CloseCall, SetTimeout, GetConnected, Return
  <2>4. CASE CallStep
    BY <2>4 DEF CallStep, altera_avalon_jtag_uart_init, WriteSpace, WriteCopy, WritePublish, WriteKick,
       WriteWait, WriteActive, ReadAvail, ReadCopy, ReadPublish, ReadWait, ReadActive, ReadEnable,
       altera_avalon_jtag_uart_close, Goto, Return
  <2> QED
    BY <2>1, <2>2, <2>3, <2>4, Frames DEF call
<1>4. pause_irq' => rfifo' # <<>>
  BY PauseNext
<1>5. isr' = "rx" => IF avail' THEN rfifo' # <<>> ELSE rx_in' # rx_out'
  BY LookNext
<1> QED
  BY <1>1, <1>2, <1>3, <1>4, <1>5 DEF IrqInv

LEMMA NoLostKickNext == DriverInv /\ Next => NoLostKick'
<1> SUFFICES ASSUME DriverInv, Next, tx_in' # tx_out', ~we'
             PROVE  pc' \in {"wSpace", "wCopy", "wPublish", "wKick"}
  BY DEF NoLostKick
<1> USE DEF DriverInv, Typing, At, NoLostKick
<1>1. CASE NewCall
  BY <1>1 DEF NewCall, WriteCall, ReadCall, CloseCall, SetTimeout, GetConnected, Return, txRing, enables
<1>2. CASE altera_avalon_jtag_uart_init
  BY <1>2 DEF altera_avalon_jtag_uart_init, IrqInv, txRing
<1>3. CASE WriteKick
  BY <1>3 DEF WriteKick
<1>4. CASE CallStep
  BY <1>2, <1>3, <1>4 DEF CallStep, WriteSpace, WriteCopy, WritePublish, WriteWait, WriteActive, ReadAvail,
     ReadCopy, ReadPublish, ReadWait, ReadActive, ReadEnable, altera_avalon_jtag_uart_close, Goto, Return,
     txRing, enables
<1>5. CASE SendDone
  BY <1>5 DEF SendDone, txRing, call
<1>6. CASE SendChar
  BY <1>6 DEF SendChar, enables, call
<1>7. CASE Interrupt \/ Routine
  BY <1>5, <1>6, <1>7 DEF Interrupt, Routine, ReadControl, ReceiveChar, ReceiveNothing, ReceiveMissed, ReceiveLater,
     txRing, enables, call
<1>8. CASE Tick \/ Host
  BY <1>8 DEF Tick, Host, HostTakes, HostPauses, HostComesOrGoes, HostSends, txRing, enables, call
<1> QED
  BY <1>1, <1>4, <1>7, <1>8 DEF Next

LEMMA ReceiveResumesNext == DriverInv /\ Next => ReceiveResumes'
<1> SUFFICES ASSUME DriverInv, Next, pc' # "reset", ~re'
             PROVE  rx_in' # rx_out' \/ (pc' \in Reading /\ dst' # <<>>)
  BY DEF ReceiveResumes
<1> USE DEF DriverInv, Typing, At, ReceiveResumes
<1>1. CASE NewCall
  BY <1>1 DEF NewCall, WriteCall, ReadCall, CloseCall, SetTimeout, GetConnected, Return, rxRing, enables,
     Reading
<1>2. CASE ReadAvail
  <2>1. ~re /\ pc # "reset" /\ UNCHANGED <<rx_in, rx_out>>
    BY <1>2 DEF ReadAvail, rxRing, enables
  <2>2. rx_in = rx_out => Avail(rx_in, rx_out) = 0
    BY DEF Avail, RxType, Index
  <2> QED
    BY <1>2, <2>1, <2>2 DEF ReadAvail, Goto, Locals, Return, Reading, ReadInv
<1>3. CASE ReadCopy
  BY <1>3, ReadInvNext DEF ReadCopy, ReadInv, Reading
<1>4. CASE ReadPublish
  BY <1>4 DEF ReadPublish, ReadInv, Reading
<1>5. CASE altera_avalon_jtag_uart_init \/ ReadEnable
  BY <1>5 DEF altera_avalon_jtag_uart_init, ReadEnable
<1>6. CASE ReadWait \/ ReadActive
  BY <1>6 DEF ReadWait, ReadActive, Goto, Locals, Return, rxRing, enables, Reading, ReadInv
<1>7. CASE CallStep
  BY <1>2, <1>3, <1>4, <1>5, <1>6, <1>7 DEF CallStep, WriteSpace, WriteCopy, WritePublish, WriteKick,
     WriteWait, WriteActive, altera_avalon_jtag_uart_close, Goto, Return, rxRing, enables, Reading
<1>8. CASE ReceiveChar
  BY <1>8 DEF ReceiveChar, IrqInv, enables
<1>9. CASE ReceiveLater
  <2>1. (rx_in + 1) % BufLen # rx_in
    BY AdvanceOne DEF RxType, Index
  <2> QED
    BY <1>9, <2>1, Zenon DEF ReceiveLater, RxFull, rxRing
<1>10. ASSUME NEW c \in FromHost, ReceiveMissed(c) PROVE rx_in' # rx_out'
  BY <1>10, Zenon DEF ReceiveMissed, IrqInv, rxRing
<1>11. CASE Interrupt \/ Routine
  BY <1>8, <1>9, <1>10, <1>11 DEF Interrupt, Routine, ReadControl, ReceiveNothing, SendChar, SendDone,
     rxRing, enables, call
<1>12. CASE Tick \/ Host
  BY <1>12 DEF Tick, Host, HostTakes, HostPauses, HostComesOrGoes, HostSends, rxRing, enables, call
<1> QED
  BY <1>1, <1>7, <1>11, <1>12 DEF Next

-----------------------------------------------------------------------------
LEMMA DriverInvNext == DriverInv /\ [Next]_vars => DriverInv'
<1>1. DriverInv /\ Next => DriverInv'
  BY TxTypeNext, RxTypeNext, PresenceNext, UartNext, CallTypeNext, WriteInvNext, ReadInvNext, IrqTypeNext,
     IrqInvNext, NoLostKickNext, ReceiveResumesNext DEF DriverInv, Typing
<1>2. DriverInv /\ UNCHANGED vars => DriverInv'
  <2> SUFFICES ASSUME DriverInv, UNCHANGED vars PROVE DriverInv'
    OBVIOUS
  <2> USE DEF vars, txRing, rxRing, enables, presence, call, irq, uart, DriverInv
  <2>1. Typing'
    BY DEF Typing, TxType, RxType, PresenceType, CallType, IrqType, UartType
  <2>2. (WriteInv /\ ReadInv /\ IrqInv /\ PatienceInv)'
    BY DEF WriteInv, ReadInv, IrqInv, PatienceInv
  <2>3. (NoLostKick /\ ReceiveResumes)'
    BY DEF NoLostKick, ReceiveResumes, RxFull
  <2> QED
    BY <2>1, <2>2, <2>3
<1> QED
  BY <1>1, <1>2

(* The invariant of the driver, with its interrupt routine anywhere: what  *)
(* each side knows of the rings, and who keeps which interrupt on.         *)
THEOREM DriverInvariant == Spec => []DriverInv
  BY DriverInvInit, DriverInvNext, PTL DEF Spec

(* An interrupt that is needed is not off for good: transmit.              *)
THEOREM TransmitInterruptKept == Spec => []NoLostKick
  BY DriverInvariant, PTL DEF DriverInv

(* An interrupt that is needed is not off for good: receive.               *)
THEOREM ReceiveInterruptKept == Spec => []ReceiveResumes
  BY DriverInvariant, PTL DEF DriverInv

(* Stale copies of indices and counts are good enough to act on.           *)
THEOREM StaleCopiesHold == Spec => []SnapshotsHold
<1>1. DriverInv => SnapshotsHold
  BY DEF DriverInv, WriteInv, ReadInv, IrqInv, SnapshotsHold
<1> QED
  BY <1>1, DriverInvariant, PTL

(* A driver that does not know whether there is a host never gives up.     *)
THEOREM PatienceNeverEnds == Spec => []UnlimitedPatience
<1>1. DriverInv => UnlimitedPatience
  BY DEF DriverInv, Typing, PresenceType, PatienceInv, UnlimitedPatience
<1> QED
  BY <1>1, DriverInvariant, PTL

-----------------------------------------------------------------------------
(* The flags, apart from the rest. *)
LEMMA FlagTypeInit == Init => FlagType
  BY Zenon DEF Init, FlagType

LEMMA FlagTypeNext == FlagType /\ [Next]_vars => FlagType'
<1> SUFFICES ASSUME FlagType, [Next]_vars PROVE FlagType'
  OBVIOUS
<1> USE DEF FlagType
<1>1. CASE NewCall
  <2>1. UNCHANGED <<re, we, wi, avail, pause_irq, ac, host>>
    BY <1>1, Zenon DEF NewCall, WriteCall, ReadCall, CloseCall, SetTimeout, GetConnected, enables, irq, uart
  <2>2. \/ \E nb \in BOOLEAN : nonblock' = nb
        \/ nonblock' = FALSE
    BY <1>1 DEF NewCall, WriteCall, ReadCall, CloseCall, SetTimeout, GetConnected, Return
  <2> QED
    BY <2>1, <2>2, Zenon
<1>2. CASE CallStep
  <2>1. UNCHANGED <<wi, avail, pause_irq, ac, host>>
    BY <1>2, Zenon DEF CallStep, altera_avalon_jtag_uart_init, WriteSpace, WriteCopy, WritePublish, WriteKick,
       WriteWait, WriteActive, ReadAvail, ReadCopy, ReadPublish, ReadWait, ReadActive, ReadEnable,
       altera_avalon_jtag_uart_close, irq, uart
  <2>2. re' \in {re, TRUE} /\ we' \in {we, TRUE, FALSE}
    BY <1>2 DEF CallStep, altera_avalon_jtag_uart_init, WriteSpace, WriteCopy, WritePublish, WriteKick,
       WriteWait, WriteActive, ReadAvail, ReadCopy, ReadPublish, ReadWait, ReadActive, ReadEnable,
       altera_avalon_jtag_uart_close, enables
  <2>3. nonblock' \in {nonblock, FALSE}
    BY <1>2 DEF CallStep, altera_avalon_jtag_uart_init, WriteSpace, WriteCopy, WritePublish, WriteKick,
       WriteWait, WriteActive, ReadAvail, ReadCopy, ReadPublish, ReadWait, ReadActive, ReadEnable,
       altera_avalon_jtag_uart_close, Goto, Locals, Return
  <2> QED
    BY <2>1, <2>2, <2>3, Zenon
<1>3. CASE Interrupt
  BY <1>3, Zenon DEF Interrupt, enables, call, uart
<1>4. CASE Routine
  BY <1>4, Zenon DEF Routine, ReadControl, ReceiveChar, ReceiveNothing, ReceiveMissed, ReceiveLater, SendChar, SendDone, AfterRx,
     ipen_AE, ipen_AF, fifo_AE, enables, call, uart
<1>5. CASE Tick
  BY <1>5, Zenon DEF Tick, enables, call, irq
<1>6. CASE Host
  BY <1>6, Zenon DEF Host, HostTakes, HostPauses, HostComesOrGoes, HostSends, enables, call, irq
<1>7. CASE UNCHANGED vars
  BY <1>7, Zenon DEF vars, enables, call, irq, uart
<1> QED
  BY <1>1, <1>2, <1>3, <1>4, <1>5, <1>6, <1>7 DEF Next

(* Every variable keeps its type, whatever interrupts what.                *)
THEOREM JtagTypeCorrect == Spec => []TypeOK
<1>1. Spec => []FlagType
  BY FlagTypeInit, FlagTypeNext, PTL DEF Spec
<1>2. DriverInv /\ FlagType => TypeOK
  BY DEF DriverInv, Typing, TxType, RxType, PresenceType, CallType, IrqType, UartType, FlagType, TypeOK
<1> QED
  BY <1>1, <1>2, DriverInvariant, PTL
-----------------------------------------------------------------------------
(***************************************************************************)
(* The interrupt routine is not kept going, not even by a host that sends  *)
(* and takes while it runs: it goes round only if it has moved a character *)
(* or turned an interrupt off.  What a host adds to the UART is no more    *)
(* work than the receive ring has room for.                                *)
(***************************************************************************)
Filled(in, out) == IF in >= out THEN in - out ELSE in + BufLen - out
Work ==
  (BufLen - 1 - Filled(rx_in, rx_out)) + Filled(tx_in, tx_out)
  + (IF re THEN 1 ELSE 0) + (IF we THEN 1 ELSE 0)

(* The way to the end of the routine, or to where some of the work gets    *)
(* done: a look at a FIFO that is not empty, or that has room, is the best *)
(* place to be.                                                            *)
Turn ==
  CASE isr = "off" -> 0
    [] isr = "control" -> 4
    [] isr = "rx" -> IF avail THEN 3 ELSE 6
    [] isr = "tx" -> IF space > 0 THEN 2 ELSE 5
Effort == 10 * Work + Turn

(* Where the routine has just begun to serve a FIFO there is something to  *)
(* do, and the interrupt that called it is still enabled.                  *)
RoutineInv ==
  /\ isr = "rx" /\ wi => we /\ space > 0
  /\ isr = "tx" => we

ServedInv == DriverInv /\ FlagType /\ RoutineInv

(* The two hold of the start, and every step keeps them. *)
LEMMA RoutineInvInit == Init => RoutineInv
  BY DEF Init, RoutineInv

LEMMA RoutineInvNext == DriverInv /\ RoutineInv /\ [Next]_vars => RoutineInv'
<1> SUFFICES ASSUME DriverInv, RoutineInv, [Next]_vars PROVE RoutineInv'
  OBVIOUS
<1>1. CASE NewCall \/ CallStep
  BY <1>1, CallsUninterrupted DEF irq, RoutineInv
<1>2. CASE Interrupt
  BY <1>2 DEF Interrupt, RoutineInv
<1>3. CASE ReadControl
  BY <1>3, Reasons DEF ReadControl, enables, RoutineInv
<1>4. CASE ReceiveChar
  BY <1>4 DEF ReceiveChar, enables, RoutineInv
<1>5. ASSUME ReceiveNothing \/ ReceiveLater \/ \E c \in FromHost : ReceiveMissed(c) PROVE RoutineInv'
  BY <1>5 DEF ReceiveNothing, ReceiveMissed, ReceiveLater, AfterRx, enables, RoutineInv
<1>6. CASE SendChar \/ SendDone
  BY <1>6 DEF SendChar, SendDone, enables, RoutineInv
<1>7. CASE Tick \/ Host
  BY <1>7 DEF Tick, Host, HostTakes, HostPauses, HostComesOrGoes, HostSends, enables, irq, RoutineInv
<1>8. CASE UNCHANGED vars
  BY <1>8 DEF vars, enables, irq, RoutineInv
<1> QED
  BY <1>1, <1>2, <1>3, <1>4, <1>5, <1>6, <1>7, <1>8 DEF Next, Routine

(* Putting a character into a ring, and taking one out. *)
LEMMA FilledMoves ==
  ASSUME NEW in \in Index, NEW out \in Index
  PROVE  /\ Filled(in, out) \in 0 .. BufLen - 1
         /\ (in + 1) % BufLen # out => Filled((in + 1) % BufLen, out) = Filled(in, out) + 1
         /\ out # in => Filled(in, (out + 1) % BufLen) = Filled(in, out) - 1
<1> DEFINE Past(i) == (i + 1) % BufLen
<1>1. \A i \in Index : Past(i) = IF i + 1 = BufLen THEN 0 ELSE i + 1
  BY AdvanceOne
<1> HIDE DEF Past
<1>2. Filled(in, out) \in 0 .. BufLen - 1
  BY DEF Filled, Index
<1>3. Past(in) # out => Filled(Past(in), out) = Filled(in, out) + 1
  <2>1. CASE in + 1 = BufLen
    BY <1>1, <2>1 DEF Filled, Index
  <2>2. CASE in + 1 # BufLen
    BY <1>1, <2>2 DEF Filled, Index
  <2> QED
    BY <2>1, <2>2
<1>4. out # in => Filled(in, Past(out)) = Filled(in, out) - 1
  <2>1. CASE out + 1 = BufLen
    BY <1>1, <2>1 DEF Filled, Index
  <2>2. CASE out + 1 # BufLen
    BY <1>1, <2>2 DEF Filled, Index
  <2> QED
    BY <2>1, <2>2
<1> QED
  BY <1>2, <1>3, <1>4 DEF Past

(* Work counts before the way to it. *)
LEMMA TensFirst ==
  ASSUME NEW w \in Nat, NEW v \in Nat, NEW t \in 0 .. 6, NEW u \in 0 .. 6,
         (v = w /\ u < t) \/ v = w - 1
  PROVE  10 * v + u < 10 * w + t
  OBVIOUS

(* Every step of the routine leaves less to do. *)
LEMMA RoutineWorks == ASSUME ServedInv, Routine PROVE Effort' < Effort
<1> USE DEF ServedInv, DriverInv, Typing, TxType, RxType, IrqType, IrqInv, RoutineInv, FlagType
<1> DEFINE F == Filled(rx_in, rx_out)
           G == Filled(tx_in, tx_out)
<1>1. F \in 0 .. BufLen - 1 /\ G \in 0 .. BufLen - 1 /\ Work \in Nat
  <2>1. F \in 0 .. BufLen - 1 /\ G \in 0 .. BufLen - 1
    BY FilledMoves
  <2> QED
    BY <2>1 DEF Work
<1>0. Work' \in Nat
  <2>1. DriverInv'
    BY DriverInvNext DEF Next
  <2>2. Filled(rx_in, rx_out)' \in 0 .. BufLen - 1 /\ Filled(tx_in, tx_out)' \in 0 .. BufLen - 1
    BY <2>1, FilledMoves
  <2> QED
    BY <2>2 DEF Work
<1>2. ASSUME Work' = Work, Turn \in 0 .. 6, Turn' \in 0 .. 6, Turn' < Turn PROVE Effort' < Effort
  BY ONLY <1>1, <1>2, TensFirst DEF Effort
<1>3. ASSUME Work' = Work - 1, Work' \in Nat, Turn \in 0 .. 6, Turn' \in 0 .. 6 PROVE Effort' < Effort
  BY ONLY <1>1, <1>3, TensFirst DEF Effort
<1>4. Turn \in 0 .. 6
  BY DEF Turn
<1>5. CASE ReadControl
  <2>1. Work' = Work
    BY <1>5 DEF ReadControl, Work, txRing, rxRing, enables
  <2>2. Turn = 4
    BY <1>5 DEF ReadControl, Turn
  <2>3. Turn' \in 0 .. 3
    BY <1>5, Reasons DEF ReadControl, Turn
  <2> QED
    BY <1>2, <2>1, <2>2, <2>3
<1>6. CASE ReceiveChar
  <2>1. Filled(rx_in', rx_out') = F + 1 /\ UNCHANGED <<tx_in, tx_out, re, we>>
    BY <1>6, FilledMoves DEF ReceiveChar, RxFull, txRing, enables
  <2>2. Work' = Work - 1
    BY <1>1, <2>1 DEF Work
  <2>3. Turn' \in 0 .. 6
    BY <1>6 DEF ReceiveChar, Turn
  <2> QED
    BY <1>0, <1>3, <1>4, <2>2, <2>3
<1>7. CASE ReceiveNothing
  <2>1. Work' = Work
    BY <1>7 DEF ReceiveNothing, Work, txRing, rxRing, enables
  <2>2. Turn = 6
    BY <1>7 DEF ReceiveNothing, Turn
  <2>3. Turn' \in 0 .. 4
    BY <1>7 DEF ReceiveNothing, AfterRx, Turn
  <2> QED
    BY <1>2, <2>1, <2>2, <2>3
<1>8. CASE ReceiveLater
  <2>1. Turn' \in 0 .. 4
    BY <1>8 DEF ReceiveLater, AfterRx, Turn
  <2>2. CASE avail
    <3>1. re /\ ~re' /\ UNCHANGED <<txRing, rxRing, we>>
      BY <1>8, <2>2 DEF ReceiveLater
    <3>2. Work' = Work - 1
      BY <1>1, <3>1 DEF Work, txRing, rxRing
    <3> QED
      BY <1>0, <1>3, <1>4, <2>1, <3>2
  <2>3. CASE ~avail
    <3>1. (re' <=> re) /\ UNCHANGED <<txRing, rxRing, we>>
      BY <1>8, <2>3 DEF ReceiveLater
    <3>2. Work' = Work
      BY <3>1 DEF Work, txRing, rxRing
    <3>3. Turn = 6
      BY <1>8, <2>3 DEF ReceiveLater, Turn
    <3> QED
      BY <1>2, <2>1, <3>2, <3>3
  <2> QED
    BY <2>2, <2>3
<1>11. ASSUME NEW c \in FromHost, ReceiveMissed(c) PROVE Effort' < Effort
  <2>1. Turn' \in 0 .. 4
    BY <1>11 DEF ReceiveMissed, AfterRx, Turn
  <2>2. re /\ ~re' /\ UNCHANGED <<txRing, rxRing, we>>
    BY <1>11, Zenon DEF ReceiveMissed
  <2>3. Work' = Work - 1
    BY <1>1, <2>2 DEF Work, txRing, rxRing
  <2> QED
    BY <1>0, <1>3, <1>4, <2>1, <2>3
<1>9. CASE SendChar
  <2>1. Filled(tx_in', tx_out') = G - 1 /\ UNCHANGED <<rx_in, rx_out, re, we>>
    BY <1>9, FilledMoves DEF SendChar, rxRing, enables
  <2>2. Work' = Work - 1
    BY <1>1, <2>1 DEF Work
  <2>3. Turn' \in 0 .. 6
    BY <1>9 DEF SendChar, Turn
  <2> QED
    BY <1>0, <1>3, <1>4, <2>2, <2>3
<1>10. CASE SendDone
  <2>1. Turn' = 4
    BY <1>10 DEF SendDone, Turn
  <2>2. CASE space = 0
    <3>1. (we' <=> we) /\ UNCHANGED <<txRing, rxRing, re>>
      BY <1>10, <2>2 DEF SendDone
    <3>2. Work' = Work
      BY <3>1 DEF Work, txRing, rxRing
    <3>3. Turn = 5
      BY <1>10, <2>2 DEF SendDone, Turn
    <3> QED
      BY <1>2, <2>1, <3>2, <3>3
  <2>3. CASE space # 0
    <3>1. we /\ ~we' /\ UNCHANGED <<txRing, rxRing, re>>
      BY <1>10, <2>3 DEF SendDone
    <3>2. Work' = Work - 1
      BY <1>1, <3>1 DEF Work, txRing, rxRing
    <3> QED
      BY <1>0, <1>3, <1>4, <2>1, <3>2
  <2> QED
    BY <2>2, <2>3
<1> QED
  BY <1>5, <1>6, <1>7, <1>8, <1>9, <1>10, <1>11 DEF Routine

(* While the routine runs, every step of it leaves less to do, and no      *)
(* other step changes what it has to do.                                   *)
BoundedEffort == Effort \in 0 .. 20 * BufLen + 6
EffortGoesDown ==
  [][isr # "off" => Effort' < Effort \/ UNCHANGED <<txRing, rxRing, enables, presence, call, irq>>]_vars

(* The routine returns after at most 20 * BufLen + 6 steps, whatever the   *)
(* host does meanwhile.                                                    *)
THEOREM RoutineIsBounded == Spec => []BoundedEffort /\ EffortGoesDown
<1>1. Init => ServedInv
  BY DriverInvInit, FlagTypeInit, RoutineInvInit DEF ServedInv
<1>2. ServedInv /\ [Next]_vars => ServedInv'
  BY DriverInvNext, FlagTypeNext, RoutineInvNext DEF ServedInv
<1>3. ServedInv => BoundedEffort
  <2> SUFFICES ASSUME ServedInv PROVE Effort \in 0 .. 20 * BufLen + 6
    BY DEF BoundedEffort
  <2>1. Filled(rx_in, rx_out) \in 0 .. BufLen - 1 /\ Filled(tx_in, tx_out) \in 0 .. BufLen - 1
    BY FilledMoves DEF ServedInv, DriverInv, Typing, TxType, RxType
  <2>2. Work \in 0 .. 2 * BufLen
    BY <2>1 DEF Work
  <2>3. Turn \in 0 .. 6
    BY DEF ServedInv, DriverInv, Typing, IrqType, Turn
  <2> QED
    BY <2>2, <2>3 DEF Effort
<1>4. ServedInv /\ [Next]_vars =>
        [isr # "off" => Effort' < Effort \/ UNCHANGED <<txRing, rxRing, enables, presence, call, irq>>]_vars
  <2> SUFFICES ASSUME ServedInv, Next, isr # "off", ~Routine
               PROVE  UNCHANGED <<txRing, rxRing, enables, presence, call, irq>>
    BY RoutineWorks
  <2>1. CASE NewCall \/ CallStep
    BY <2>1 DEF NewCall, WriteCall, ReadCall, CloseCall, SetTimeout, GetConnected, CallStep,
       altera_avalon_jtag_uart_init, WriteSpace, WriteCopy, WritePublish, WriteKick, WriteWait, WriteActive,
       ReadAvail, ReadCopy, ReadPublish, ReadWait, ReadActive, ReadEnable, altera_avalon_jtag_uart_close, At
  <2>2. CASE Interrupt \/ Tick
    BY <2>2 DEF Interrupt, Tick
  <2>3. CASE Host
    BY <2>3 DEF Host, HostTakes, HostPauses, HostComesOrGoes, HostSends
  <2> QED
    BY <2>1, <2>2, <2>3 DEF Next
<1> QED
  BY <1>1, <1>2, <1>3, <1>4, PTL DEF Spec, EffortGoesDown

=============================================================================
