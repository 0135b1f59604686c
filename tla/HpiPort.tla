------------------------------ MODULE HpiPort ------------------------------
(***************************************************************************)
(* What usb.c and main.c rely on when they call IO_write and IO_read: the  *)
(* USB chip is a memory behind four registers.  A write to HPI_ADDR sets a *)
(* pointer, every access to HPI_DATA goes to the word it points to and     *)
(* moves it on, HPI_MAILBOX and HPI_STATUS are plain registers.  A write   *)
(* takes effect exactly once, and a read gives a value the register had    *)
(* during the call, although the chip changes its memory and registers on  *)
(* its own at any moment.                                                  *)
(***************************************************************************)
EXTENDS Integers

CONSTANT Words              \* words of memory, and values of a word: at least 1

Values == 0 .. Words - 1

HPI_DATA == 0
HPI_MAILBOX == 1
HPI_ADDR == 2
HPI_STATUS == 3

(* The calls the software makes: it never writes HPI_STATUS nor reads      *)
(* HPI_ADDR.                                                               *)
Calls == [kind : {"write"}, port : {HPI_DATA, HPI_MAILBOX, HPI_ADDR}, data : Values]
         \cup [kind : {"read"}, port : {HPI_DATA, HPI_MAILBOX, HPI_STATUS}, data : {0}]
Boot == [kind |-> "boot", port |-> HPI_DATA, data |-> 0]
None == [kind |-> "none", port |-> HPI_DATA, data |-> 0]

VARIABLES
  mem, ptr,                 \* the chip's memory, the word HPI_DATA stands for
  regs,                     \* HPI_MAILBOX and HPI_STATUS
  call, phase,              \* the call under way, and how far it is
  seen,                     \* values a read may return
  temp                      \* the value the last read returned

chip == <<mem, ptr, regs>>
vars == <<chip, call, phase, seen, temp>>

(* What a register gives when it is read. *)
PortValue(p) == IF p = HPI_DATA THEN mem[ptr] ELSE regs[p]

PortWrite_NoEnd(p, d) ==
  /\ mem' = IF p = HPI_DATA THEN [mem EXCEPT ![ptr] = d] ELSE mem
  /\ ptr' = CASE p = HPI_DATA -> ptr + 1
              [] p = HPI_ADDR -> d
              [] OTHER        -> ptr
  /\ regs' = IF p = HPI_MAILBOX THEN [regs EXCEPT ![HPI_MAILBOX] = d] ELSE regs

PortWrite(p, d) ==
  /\ mem' = IF p = HPI_DATA THEN [mem EXCEPT ![ptr] = d] ELSE mem
  /\ ptr' = CASE p = HPI_DATA -> (ptr + 1) % Words
              [] p = HPI_ADDR -> d
              [] OTHER        -> ptr
  /\ regs' = IF p = HPI_MAILBOX THEN [regs EXCEPT ![HPI_MAILBOX] = d] ELSE regs

PortRead(p) ==
  /\ ptr' = IF p = HPI_DATA THEN (ptr + 1) % Words ELSE ptr
  /\ UNCHANGED <<mem, regs>>

Init ==
  /\ mem = [w \in Values |-> 0] /\ ptr = 0
  /\ regs = [p \in {HPI_MAILBOX, HPI_STATUS} |-> 0]
  /\ call = Boot /\ phase = "pending" /\ seen = {} /\ temp = 0

(* The reset button stops a call wherever it is. *)
Reset ==
  /\ ptr' = 0 /\ regs' = [p \in {HPI_MAILBOX, HPI_STATUS} |-> 0]
  /\ call' = Boot /\ phase' = "pending" /\ seen' = {} /\ temp' = 0
  /\ UNCHANGED mem

(* Until the software has initialised the interface anything may be        *)
(* written to the word the pointer stands at.                              *)
Glitch ==
  /\ call = Boot
  /\ \E v \in Values : mem' = [mem EXCEPT ![ptr] = v]
  /\ ptr' \in Values
  /\ UNCHANGED <<regs, call, phase, seen, temp>>

Begin(c) ==
  /\ call = None
  /\ call' = c /\ phase' = "pending" /\ seen' = {}
  /\ UNCHANGED <<chip, temp>>

Store ==
  /\ call.kind = "write" /\ phase = "pending"
  /\ phase' = "done" /\ PortWrite(call.port, call.data)
  /\ UNCHANGED <<call, seen, temp>>

Look ==
  /\ call.kind = "read" /\ phase = "pending"
  /\ seen' = seen \cup {PortValue(call.port)}
  /\ UNCHANGED <<chip, call, phase, temp>>

Fetch ==
  /\ call.kind = "read" /\ phase = "pending"
  /\ temp' \in seen /\ phase' = "fetched"
  /\ UNCHANGED <<chip, call, seen>>

Advance ==
  /\ call.kind = "read" /\ phase = "fetched"
  /\ phase' = "done" /\ PortRead(call.port)
  /\ UNCHANGED <<call, seen, temp>>

Return ==
  /\ call = Boot \/ phase = "done"
  /\ call' = None /\ phase' = "pending" /\ seen' = {}
  /\ UNCHANGED <<chip, temp>>

(* The chip changes a word or a register on its own. *)
ChipChange ==
  /\ \/ \E w, v \in Values : mem' = [mem EXCEPT ![w] = v] /\ UNCHANGED regs
     \/ \E p \in {HPI_MAILBOX, HPI_STATUS}, v \in Values :
          regs' = [regs EXCEPT ![p] = v] /\ UNCHANGED mem
  /\ UNCHANGED ptr

Own == ChipChange /\ UNCHANGED <<call, phase, seen, temp>>

Next ==
  \/ Reset \/ Glitch \/ Own
  \/ \E c \in Calls : Begin(c)
  \/ Store \/ Look \/ Fetch \/ Advance \/ Return

Spec == Init /\ [][Next]_vars
=============================================================================
