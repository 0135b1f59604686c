------------------------------ MODULE JtagUart ------------------------------
(***************************************************************************)
(* The serial line every printf of the keyboard program goes to: the       *)
(* interrupt driven driver of the JTAG UART (altera_avalon_jtag_uart_*.c)  *)
(* and the UART itself (nios_system_jtag_uart_0.v), with a host at its     *)
(* other end that may or may not be there.                                 *)
(*                                                                         *)
(* Driver calls run on the one processor and are interrupted anywhere by   *)
(* the interrupt routine and the alarm; those two run to their end before  *)
(* the call goes on.  An action of a call is a statement, or statements,   *)
(* with at most one access to what an interrupt changes.  The host is      *)
(* never stopped.                                                          *)
(***************************************************************************)
EXTENDS Integers, Sequences, FiniteSets

CONSTANTS
  Char,             \* the characters
  BufLen,           \* ALTERA_AVALON_JTAG_UART_BUF_LEN, 2048
  FifoDepth,        \* of both FIFOs of the UART, 64
  Threshold,        \* of the UART's interrupts, 8
  TickRate,         \* alt_ticks_per_second(); 0 if there is no system clock
  DefaultTimeout,   \* seconds without a host, 10
  IntMax,           \* INT_MAX
  WriteMax,         \* longest write (a bound of the model)
  ReadMax,          \* longest read (a bound of the model)
  FromHost,         \* what the host may send (a bound of the model)
  HostMoves,        \* whether the host is connected and disconnected
  Timeouts          \* what TIOCSTIMEOUT is called with (a bound of the model)

ASSUME SizesAssumption ==
  /\ BufLen \in Nat /\ BufLen > 1
  /\ FifoDepth \in Nat /\ Threshold \in Nat /\ Threshold < FifoDepth
  /\ TickRate \in Nat /\ DefaultTimeout \in Nat /\ IntMax \in Nat
  /\ 1 < DefaultTimeout /\ DefaultTimeout < IntMax - 2
  /\ WriteMax \in Nat /\ ReadMax \in Nat /\ Timeouts \subseteq Nat 
  /\ FromHost \subseteq Char /\ HostMoves \in BOOLEAN

VARIABLES
  tx_in, tx_out, tx_buf,          \* the transmit ring
  rx_in, rx_out, rx_buf,          \* the receive ring
  re, we,                         \* irq_enable, as the control register has it
  host_inactive, timeout,
  pc,                             \* where the call is
  src, put, dst, room,            \* left to write, written; read, left to read
  n, seen, nonblock,              \* locals of a call: n; out or in; the flag
  ret,                            \* what the last call returned
  isr, space, wi, avail,          \* where the interrupt routine is; its locals
  wfifo, rfifo,                   \* the UART's FIFOs
  pause_irq, ac,                  \* the UART: host has paused; activity
  host,                           \* a host is connected
  printed                         \* what the host took last

txRing == <<tx_in, tx_out, tx_buf>>
rxRing == <<rx_in, rx_out, rx_buf>>
enables == <<re, we>>
presence == <<host_inactive, timeout>>
call == <<pc, src, put, dst, room, n, seen, nonblock, ret>>
irq == <<isr, space, wi, avail>>
uart == <<wfifo, rfifo, pause_irq, ac, host, printed>>
vars == <<txRing, rxRing, enables, presence, call, irq, uart>>

Index == 0 .. BufLen - 1
EIO == 5
EWOULDBLOCK == 11
ENOTTY == 25
Writing == {"wSpace", "wCopy", "wPublish", "wKick", "wWait", "wActive"}
Reading == {"rAvail", "rCopy", "rPublish", "rWait", "rActive", "rEnable"}

TypeOK ==
  /\ tx_in \in Index /\ tx_out \in Index /\ tx_buf \in [Index -> Char]
  /\ rx_in \in Index /\ rx_out \in Index /\ rx_buf \in [Index -> Char]
  /\ re \in BOOLEAN /\ we \in BOOLEAN
  /\ host_inactive \in Nat /\ timeout \in Nat
  /\ pc \in {"reset", "idle", "close"} \cup Writing \cup Reading
  /\ src \in Seq(Char) /\ put \in Nat /\ dst \in Seq(Char) /\ room \in Nat
  /\ n \in 0 .. BufLen /\ seen \in Index /\ nonblock \in BOOLEAN
  /\ ret \in Int
  /\ isr \in {"off", "control", "rx", "tx"} /\ space \in 0 .. FifoDepth
  /\ wi \in BOOLEAN /\ avail \in BOOLEAN
  /\ wfifo \in Seq(Char) /\ Len(wfifo) <= FifoDepth
  /\ rfifo \in Seq(Char) /\ Len(rfifo) <= FifoDepth
  /\ pause_irq \in BOOLEAN /\ ac \in BOOLEAN
  /\ host \in BOOLEAN /\ printed \in Seq(Char)

Init ==
  /\ tx_in = 0 /\ tx_out = 0 /\ rx_in = 0 /\ rx_out = 0
  /\ \E c \in Char : tx_buf = [i \in Index |-> c] /\ rx_buf = [i \in Index |-> c]
  /\ re = FALSE /\ we = FALSE /\ host_inactive = 0 /\ timeout = DefaultTimeout
  /\ pc = "reset" /\ src = <<>> /\ put = 0 /\ dst = <<>> /\ room = 0
  /\ n = 0 /\ seen = 0 /\ nonblock = FALSE /\ ret = 0
  /\ isr = "off" /\ space = 0 /\ wi = FALSE /\ avail = FALSE
  /\ wfifo = <<>> /\ rfifo = <<>> /\ pause_irq = FALSE /\ ac = FALSE /\ printed = <<>>
  /\ host \in IF HostMoves THEN BOOLEAN ELSE {TRUE}

Lesser(a, b) == IF a < b THEN a ELSE b

(* What can be written, or read, in one piece from an index on. *)
Space_FillsUp(in, out) ==
  IF in < out THEN out - in ELSE BufLen - in

Space(in, out) ==
  IF in < out THEN out - 1 - in
  ELSE IF out > 0 THEN BufLen - in
  ELSE BufLen - 1 - in

Avail(in, out) == IF in >= out THEN in - out ELSE BufLen - out

-----------------------------------------------------------------------------
(* Calls.  Nothing of a call moves while the interrupt routine runs.       *)

At(label) == pc = label /\ isr = "off"

Locals == <<src, put, dst, room, n, seen, nonblock, ret>>
Goto(label) == pc' = label /\ UNCHANGED Locals

Return(value) ==
  /\ pc' = "idle" /\ ret' = value
  /\ src' = <<>> /\ put' = 0 /\ dst' = <<>> /\ room' = 0
  /\ n' = 0 /\ seen' = 0 /\ nonblock' = FALSE

(* A call that moved characters says how many, whatever stopped it. *)
Outcome(moved) ==
  IF moved > 0 THEN moved ELSE IF nonblock THEN 0 - EWOULDBLOCK ELSE 0 - EIO

(* Without a system clock alt_alarm_start fails, and a host is assumed.    *)
altera_avalon_jtag_uart_init ==
  /\ At("reset") /\ Goto("idle")
  /\ re' = TRUE /\ we' = FALSE /\ host_inactive' = 0
  /\ timeout' = IF TickRate = 0 THEN IntMax ELSE timeout
  /\ UNCHANGED <<txRing, rxRing, irq, uart>>

WriteCall(chars, nb) ==
  /\ At("idle") /\ pc' = "wSpace"
  /\ src' = chars /\ nonblock' = nb /\ ret' = 0
  /\ UNCHANGED <<put, dst, room, n, seen>>
  /\ UNCHANGED <<txRing, rxRing, enables, presence, irq, uart>>

(* The interrupt routine may move tx_out on meanwhile: that only adds room. *)
WriteSpace ==
  /\ At("wSpace")
  /\ IF src = <<>> THEN Goto("wKick")
     ELSE LET free == Space(tx_in, tx_out) IN
          /\ seen' = tx_out /\ n' = Lesser(free, Len(src))
          /\ pc' = IF free = 0 THEN "wKick" ELSE "wCopy"
          /\ UNCHANGED <<src, put, dst, room, nonblock, ret>>
  /\ UNCHANGED <<txRing, rxRing, enables, presence, irq, uart>>

WriteCopy ==
  /\ At("wCopy") /\ Goto("wPublish")
  /\ tx_buf' = [i \in Index |-> IF i \in tx_in .. tx_in + n - 1 THEN src[i - tx_in + 1] ELSE tx_buf[i]]
  /\ UNCHANGED <<tx_in, tx_out, rxRing, enables, presence, irq, uart>>

WritePublish_NoWrap ==
  /\ At("wPublish") /\ pc' = "wSpace"
  /\ tx_in' = tx_in + n
  /\ src' = SubSeq(src, n + 1, Len(src)) /\ put' = put + n
  /\ UNCHANGED <<dst, room, n, seen, nonblock, ret>>
  /\ UNCHANGED <<tx_out, tx_buf, rxRing, enables, presence, irq, uart>>

WritePublish ==
  /\ At("wPublish") /\ pc' = "wSpace"
  /\ tx_in' = (tx_in + n) % BufLen
  /\ src' = SubSeq(src, n + 1, Len(src)) /\ put' = put + n
  /\ UNCHANGED <<dst, room, n, seen, nonblock, ret>>
  /\ UNCHANGED <<tx_out, tx_buf, rxRing, enables, presence, irq, uart>>

WriteKick_OnlyWhenFull ==
  /\ At("wKick") /\ we' = (we \/ src # <<>>)
  /\ IF src = <<>> \/ nonblock THEN Return(Outcome(put)) ELSE Goto("wWait")
  /\ UNCHANGED <<txRing, rxRing, re, presence, irq, uart>>

(* With interrupts disabled: both halves of irq_enable and its register.   *)
WriteKick ==
  /\ At("wKick") /\ we' = TRUE
  /\ IF src = <<>> \/ nonblock THEN Return(Outcome(put)) ELSE Goto("wWait")
  /\ UNCHANGED <<txRing, rxRing, re, presence, irq, uart>>

WriteWait ==
  /\ At("wWait") /\ Goto("wActive")
  /\ seen # tx_out \/ host_inactive >= timeout
  /\ UNCHANGED <<txRing, rxRing, enables, presence, irq, uart>>

WriteActive ==
  /\ At("wActive")
  /\ IF host_inactive # 0 THEN Return(Outcome(put)) ELSE Goto("wSpace")
  /\ UNCHANGED <<txRing, rxRing, enables, presence, irq, uart>>

ReadCall(count, nb) ==
  /\ At("idle") /\ pc' = "rAvail"
  /\ room' = count /\ nonblock' = nb /\ ret' = 0
  /\ UNCHANGED <<src, put, dst, n, seen>>
  /\ UNCHANGED <<txRing, rxRing, enables, presence, irq, uart>>

(* A read of no characters comes here with nothing read. *)
ReadAvail ==
  /\ At("rAvail")
  /\ LET there == Avail(rx_in, rx_out) IN
     \/ room = 0 /\ Return(Outcome(0))
     \/ /\ room > 0 /\ there > 0 /\ pc' = "rCopy"
        /\ seen' = rx_in /\ n' = Lesser(there, room)
        /\ UNCHANGED <<src, put, dst, room, nonblock, ret>>
     \/ room > 0 /\ there = 0 /\ dst # <<>> /\ Goto("rEnable")
     \/ room > 0 /\ there = 0 /\ dst = <<>> /\ nonblock /\ Return(0 - EWOULDBLOCK)
     \/ /\ room > 0 /\ there = 0 /\ dst = <<>> /\ ~nonblock /\ pc' = "rWait"
        /\ seen' = rx_in /\ n' = 0
        /\ UNCHANGED <<src, put, dst, room, nonblock, ret>>
  /\ UNCHANGED <<txRing, rxRing, enables, presence, irq, uart>>

ReadCopy ==
  /\ At("rCopy") /\ pc' = "rPublish"
  /\ dst' = dst \o [i \in 1 .. n |-> rx_buf[rx_out + i - 1]]
  /\ UNCHANGED <<src, put, room, n, seen, nonblock, ret>>
  /\ UNCHANGED <<txRing, rxRing, enables, presence, irq, uart>>

ReadPublish ==
  /\ At("rPublish") /\ pc' = (IF room > n THEN "rAvail" ELSE "rEnable")
  /\ rx_out' = (rx_out + n) % BufLen /\ room' = room - n
  /\ UNCHANGED <<src, put, dst, n, seen, nonblock, ret>>
  /\ UNCHANGED <<txRing, rx_in, rx_buf, enables, presence, irq, uart>>

ReadWait ==
  /\ At("rWait") /\ Goto("rActive")
  /\ seen # rx_in \/ host_inactive >= timeout
  /\ UNCHANGED <<txRing, rxRing, enables, presence, irq, uart>>

ReadActive ==
  /\ At("rActive")
  /\ IF seen = rx_in THEN Return(Outcome(0)) ELSE Goto("rAvail")
  /\ UNCHANGED <<txRing, rxRing, enables, presence, irq, uart>>

ReadEnable_Forgets ==
  /\ At("rEnable") /\ Return(Outcome(Len(dst)))
  /\ UNCHANGED <<txRing, rxRing, enables, presence, irq, uart>>

(* There is room in the ring again: with interrupts disabled, as above.    *)
ReadEnable ==
  /\ At("rEnable") /\ re' = TRUE /\ Return(Outcome(Len(dst)))
  /\ UNCHANGED <<txRing, rxRing, we, presence, irq, uart>>

CloseCall(nb) ==
  /\ At("idle") /\ pc' = "close" /\ nonblock' = nb /\ ret' = 0
  /\ UNCHANGED <<src, put, dst, room, n, seen>>
  /\ UNCHANGED <<txRing, rxRing, enables, presence, irq, uart>>

altera_avalon_jtag_uart_close ==
  /\ At("close")
  /\ \/ (tx_out = tx_in \/ host_inactive >= timeout) /\ Return(0)
     \/ tx_out # tx_in /\ host_inactive < timeout /\ nonblock /\ Return(0 - EWOULDBLOCK)
  /\ UNCHANGED <<txRing, rxRing, enables, presence, irq, uart>>

(* TIOCSTIMEOUT; TIOCGCONNECTED answers 1 or 0. *)
SetTimeout(t) ==
  /\ At("idle")
  /\ IF timeout = IntMax THEN Return(0 - ENOTTY) /\ UNCHANGED timeout
     ELSE Return(0) /\ timeout' = IF 2 <= t /\ t < IntMax THEN t ELSE IntMax - 1
  /\ UNCHANGED <<txRing, rxRing, enables, host_inactive, irq, uart>>

GetConnected ==
  /\ At("idle")
  /\ Return(IF timeout = IntMax THEN 0 - ENOTTY ELSE IF host_inactive < timeout THEN 1 ELSE 0)
  /\ UNCHANGED <<txRing, rxRing, enables, presence, irq, uart>>

NewCall ==
  \/ \E nb \in BOOLEAN :
       \/ \E k \in 0 .. WriteMax : \E chars \in [1 .. k -> Char] : WriteCall(chars, nb)
       \/ \E count \in 0 .. ReadMax : ReadCall(count, nb)
       \/ CloseCall(nb)
  \/ \E t \in Timeouts : SetTimeout(t)
  \/ GetConnected

CallStep ==
  \/ altera_avalon_jtag_uart_init
  \/ WriteSpace \/ WriteCopy \/ WritePublish \/ WriteKick \/ WriteWait \/ WriteActive
  \/ ReadAvail \/ ReadCopy \/ ReadPublish \/ ReadWait \/ ReadActive \/ ReadEnable
  \/ altera_avalon_jtag_uart_close

-----------------------------------------------------------------------------
(* The UART *)

fifo_AE == Len(wfifo) <= Threshold
fifo_AF == FifoDepth - Len(rfifo) <= Threshold
ipen_AE == we /\ fifo_AE
ipen_AF == re /\ (pause_irq \/ fifo_AF)

(* A character written while the FIFO is full is dropped. *)
Push(c) == IF Len(wfifo) < FifoDepth THEN Append(wfifo, c) ELSE wfifo

(* The host takes a character; sends one if there is room; pauses. *)
HostTakes ==
  /\ host /\ wfifo # <<>> /\ printed' = <<Head(wfifo)>> /\ wfifo' = Tail(wfifo)
  /\ UNCHANGED <<txRing, rxRing, enables, presence, call, irq, rfifo, pause_irq, ac, host>>

HostSends(c) ==
  /\ host /\ Len(rfifo) < FifoDepth /\ rfifo' = Append(rfifo, c) /\ ac' = TRUE
  /\ UNCHANGED <<txRing, rxRing, enables, presence, call, irq, wfifo, pause_irq, host, printed>>

HostPauses ==
  /\ host /\ ac' = TRUE /\ pause_irq' = (pause_irq \/ rfifo # <<>>)
  /\ UNCHANGED <<txRing, rxRing, enables, presence, call, irq, wfifo, rfifo, host, printed>>

HostComesOrGoes ==
  /\ HostMoves /\ host' = ~host
  /\ UNCHANGED <<txRing, rxRing, enables, presence, call, irq, wfifo, rfifo, pause_irq, ac, printed>>

-----------------------------------------------------------------------------
(* The interrupt routine *)

Interrupt ==
  /\ isr = "off" /\ pc # "reset" /\ (ipen_AE \/ ipen_AF)
  /\ isr' = "control" /\ UNCHANGED <<space, wi, avail>>
  /\ UNCHANGED <<txRing, rxRing, enables, presence, call, uart>>

ReadControl ==
  /\ isr = "control"
  /\ isr' = (IF ipen_AF THEN "rx" ELSE IF ipen_AE THEN "tx" ELSE "off")
  /\ IF ipen_AE \/ ipen_AF
     THEN wi' = ipen_AE /\ avail' = TRUE /\ space' = FifoDepth - Len(wfifo)
     ELSE wi' = FALSE /\ avail' = FALSE /\ space' = 0
  /\ UNCHANGED <<txRing, rxRing, enables, presence, call, uart>>

AfterRx == isr' = (IF wi THEN "tx" ELSE "control") /\ UNCHANGED <<space, wi, avail>>

RxFull_Unchecked == FALSE

RxFull == (rx_in + 1) % BufLen = rx_out

ReceiveChar ==
  /\ isr = "rx" /\ ~RxFull /\ rfifo # <<>>
  /\ rx_buf' = [rx_buf EXCEPT ![rx_in] = Head(rfifo)] /\ rx_in' = (rx_in + 1) % BufLen
  /\ rfifo' = Tail(rfifo) /\ avail' = (Tail(rfifo) # <<>>) /\ pause_irq' = FALSE
  /\ UNCHANGED <<rx_out, isr, space, wi>>
  /\ UNCHANGED <<txRing, enables, presence, call, wfifo, ac, host, printed>>

ReceiveNothing ==
  /\ isr = "rx" /\ ~RxFull /\ rfifo = <<>>
  /\ pause_irq' = FALSE /\ AfterRx
  /\ UNCHANGED <<txRing, rxRing, enables, presence, call, wfifo, rfifo, ac, host, printed>>

(* RVALID is registered a clock before RAVAIL is read: a character that the *)
(* host sends in between is counted but was not handed over, and the        *)
(* routine turns its interrupt off as if the ring were full.                *)
ReceiveMissed(c) ==
  /\ isr = "rx" /\ ~RxFull /\ rfifo = <<>>
  /\ host /\ rfifo' = <<c>> /\ ac' = TRUE
  /\ re' = FALSE /\ pause_irq' = FALSE /\ AfterRx
  /\ UNCHANGED <<txRing, rxRing, we, presence, call, wfifo, host, printed>>

ReceiveLater_KeepsOn ==
  /\ isr = "rx" /\ RxFull
  /\ AfterRx
  /\ UNCHANGED <<txRing, rxRing, enables, presence, call, uart>>

(* The ring is full: no more receive interrupts until it is read. *)
ReceiveLater ==
  /\ isr = "rx" /\ RxFull
  /\ re' = (re /\ ~avail) /\ AfterRx
  /\ UNCHANGED <<txRing, rxRing, we, presence, call, uart>>

SendChar ==
  /\ isr = "tx" /\ space > 0 /\ tx_out # tx_in
  /\ wfifo' = Push(tx_buf[tx_out]) /\ tx_out' = (tx_out + 1) % BufLen /\ space' = space - 1
  /\ UNCHANGED <<tx_in, tx_buf, isr, wi, avail>>
  /\ UNCHANGED <<rxRing, enables, presence, call, rfifo, pause_irq, ac, host, printed>>

SendDone ==
  /\ isr = "tx" /\ (space = 0 \/ tx_out = tx_in)
  /\ isr' = "control" /\ we' = (we /\ space = 0) /\ UNCHANGED <<space, wi, avail>>
  /\ UNCHANGED <<txRing, rxRing, re, presence, call, uart>>

Routine ==
  \/ ReadControl \/ SendChar \/ SendDone
  \/ ReceiveChar \/ ReceiveNothing \/ ReceiveLater \/ \E c \in FromHost : ReceiveMissed(c)

Tick_CountsOn ==
  /\ TickRate > 0 /\ pc # "reset" /\ isr = "off"
  /\ ac' = FALSE
  /\ host_inactive' = IF ac THEN 0 ELSE host_inactive + 1
  /\ UNCHANGED <<txRing, rxRing, enables, timeout, call, irq, wfifo, rfifo, pause_irq, host, printed>>

(* altera_avalon_jtag_uart_timeout, once a second.  Interrupts do not nest. *)
Tick ==
  /\ TickRate > 0 /\ pc # "reset" /\ isr = "off"
  /\ ac' = FALSE
  /\ host_inactive' = IF ac THEN 0
                      ELSE IF host_inactive < IntMax - 2 THEN host_inactive + 1
                      ELSE host_inactive
  /\ UNCHANGED <<txRing, rxRing, enables, timeout, call, irq, wfifo, rfifo, pause_irq, host, printed>>

Host == HostTakes \/ HostPauses \/ HostComesOrGoes \/ \E c \in FromHost : HostSends(c)

Next == NewCall \/ CallStep \/ Interrupt \/ Routine \/ Tick \/ Host

Spec == Init /\ [][Next]_vars

(* One processor, faster than the JTAG cable: interrupts do not keep a call *)
(* from going on for ever.  The caller need not call.                      *)
Processor == WF_vars(Interrupt) /\ WF_vars(Routine) /\ SF_vars(CallStep) /\ WF_vars(Tick)

(* A connected host polls the UART and takes what it finds. *)
HostThere == SF_vars(HostTakes) /\ SF_vars(HostPauses)

FairSpec == Spec /\ Processor /\ HostThere

-----------------------------------------------------------------------------
(* Properties *)

(***************************************************************************)
(* Whatever is in the transmit ring has the transmit interrupt enabled, or *)
(* a write on its way to enable it: the routine turns the interrupt off    *)
(* when it finds the ring empty, which a write may be filling.             *)
(***************************************************************************)
NoLostKick ==
  tx_in # tx_out /\ ~we => pc \in {"wSpace", "wCopy", "wPublish", "wKick"}

(***************************************************************************)
(* The receive interrupt is off only while there is something to read, or  *)
(* a read that took it is on its way to enable the interrupt again: else   *)
(* no read could ever end, and nothing would enable it.                    *)
(***************************************************************************)
ReceiveResumes ==
  pc # "reset" /\ ~re => rx_in # rx_out \/ (pc \in Reading /\ dst # <<>>)

(***************************************************************************)
(* What a call or the routine computed from a ring or a FIFO still holds    *)
(* when it acts on it, however stale: a write overwrites only characters    *)
(* that are sent, a read takes only characters that are there, and the      *)
(* routine never puts a character into a full FIFO, which would drop it.    *)
(***************************************************************************)
SnapshotsHold ==
  /\ pc \in {"wCopy", "wPublish"} => n <= Space(tx_in, tx_out)
  /\ pc \in {"rCopy", "rPublish"} => n <= Avail(rx_in, rx_out)
  /\ isr # "off" => space <= FifoDepth - Len(wfifo)

(* What is in a ring, from the next character out to the last one in. *)
Held(buf, out, in) ==
  LET count == (in + BufLen - out) % BufLen
  IN  [i \in 1 .. count |-> buf[(out + i - 1) % BufLen]]

(* What a write has accepted reaches the host once, in order and complete, *)
(* through the ring and the FIFO, with the interrupt routine anywhere.     *)
Transmit == INSTANCE ByteStream
  WITH offered <- src, transit <- wfifo \o Held(tx_buf, tx_out, tx_in), received <- printed
TransmitsStream == Transmit!Spec

(* What the host sends reaches the reads in order and complete; a read has *)
(* what it copied, also before it moved rx_out on.                         *)
ReadOut == IF pc = "rPublish" THEN (rx_out + n) % BufLen ELSE rx_out
Receive == INSTANCE ByteStream
  WITH offered <- <<>>, transit <- Held(rx_buf, ReadOut, rx_in) \o rfifo, received <- dst
ReceivesStream == Receive!OpenSpec

(* init.c:92-93: without an alarm the driver behaves "as though the host   *)
(* is present"; the count of idle seconds must never get there.            *)
UnlimitedPatience == timeout >= IntMax - 1 => host_inactive < timeout

(* The interrupt routine ends: it never goes round for ever on an          *)
(* interrupt that it neither serves nor turns off.                         *)
RoutineEnds == isr # "off" ~> isr = "off"

(* Nothing stays in the transmit ring while there is a host. *)
RingDrains == \A i \in Index : (tx_out = i /\ tx_in # i) ~> (tx_out # i)

(* A read that waits while a character is in the UART gets it. *)
ReaderServed == (pc = "rWait" /\ rfifo # <<>>) ~> (pc # "rWait")

(* jtag_uart_init.c:158: where the routine turns the receive interrupt off *)
(* "the buffer is full".                                                   *)
OffMeansFull == [][re /\ ~re' => RxFull]_vars

(* jtag_uart_write.c:214: a write that returns -EIO means "Host not         *)
(* connected"; it is not returned to a write that waited and saw its ring   *)
(* move, with a host there that has been idle for less than the time-out.   *)
EioMeansNoHost ==
  [][(pc = "wActive" /\ pc' = "idle" /\ ret' = 0 - EIO)
       => ~host \/ host_inactive >= timeout \/ seen = tx_out]_vars
=============================================================================
