------------------------------ MODULE UsbHost ------------------------------
(***************************************************************************)
(* The keyboard program (main.c with the helpers of usb.c) and the USB     *)
(* chip it drives.  The program enumerates the keyboard in nine steps,     *)
(* each a list of transfer descriptors (TDs) that it writes to the chip's  *)
(* memory at 0x0500 and submits by writing the chip's TD pointer, and then *)
(* polls the keyboard for ever with a list of one TD.                      *)
(*                                                                         *)
(* An action of the program is one or several accesses to the chip between *)
(* which the chip's own actions commute with them; wherever the chip can   *)
(* make a difference the program is interrupted.  The chip (firmware and   *)
(* bus) is external: it is what the program takes it to be.                *)
(***************************************************************************)
EXTENDS TdLists

CONSTANTS
  Keys,             \* key codes the keyboard may report
  Environments      \* what may go wrong: records of two Booleans,
                    \* faults: transfers fail, the keyboard comes and goes;
                    \* prompt: the chip does all it has to do while the program
                    \* sleeps, and leaves lists alone while one is written

ASSUME UsbAssumption ==
  Keys \subseteq 1 .. 255 /\ Environments \subseteq [faults : BOOLEAN, prompt : BOOLEAN]

(* w, a, s, d and space; the arrows and enter. *)
Avatar_1Keys == {26, 4, 22, 7, 44}
Avatar_2Keys == {82, 80, 81, 79, 40}
GameKeys == Avatar_1Keys \cup Avatar_2Keys

VARIABLES
  env,              \* what may go wrong in this behavior
  pc, step, again,  \* where the program is; whether it repeats the list of the step
  got,              \* usb_ctl_val: the message or control word read last
  toggle,           \* toggle % 2
  data_size,        \* the low half of it, all that is used
  KEYCODE,          \* the output port the game reads
  head, tail,       \* which list TD 1, and which list everything behind it, is of
  ctl,              \* the word at 0x0508, retry count and active bit of TD 1:
                    \* as written (0x13), good (0x03), or retried, failed or
                    \* of a poll, where nobody looks at it
  w51e, w57c,       \* the low bytes of the words at 0x051e and 0x057c
  td,               \* the list submitted and not taken up yet
  at, req,          \* the address of the TD the chip works on, 0 if it is idle;
                    \* the request it sent last
  msg, flag,        \* the SIE1 message word, and its bit in HPI_STATUS
  present,          \* a keyboard is plugged in
  mode,             \* how far it is: at address 0, at address 2, configured
  packets,          \* data packets it has sent of the current request
  ktoggle,          \* DATA0 or DATA1 of its next report
  odd,              \* whether it left an odd number of polls unanswered since
                    \* it was configured (says nothing to keyboard or program)
  acked,            \* the last request a keyboard acknowledged since soft reset
  sent              \* the key codes a keyboard sent since soft reset

prog == <<pc, step, again, got, toggle, data_size, KEYCODE>>
memory == <<head, tail, ctl, w51e, w57c>>
chip == <<td, at, req, msg, flag>>
keyboard == <<present, mode, packets, ktoggle, odd, acked, sent>>
vars == <<env, prog, memory, chip, keyboard>>

Addresses == {First} \cup {AddressBehind(k) : k \in 1 .. 9}

TypeOK ==
  /\ env \in Environments
  /\ pc \in {"softReset", "sieInit", "busReset", "detect", "noDevice",
             "head", "tail", "submit", "sleep", "check", "readMsg", "clearMsg", "readCtl",
             "retryRead", "retryClear", "retryFlag", "retryCtl",
             "endpoint", "size", "export", "plugCheck", "removed"}
  /\ step \in Steps \cup {Poll} /\ again \in BOOLEAN /\ head \in 0 .. Poll /\ tail \in 0 .. 9
  /\ ctl \in {"fresh", "ok", "other"}
  /\ toggle \in 0 .. 1 /\ data_size \in {0, 8, 19} /\ w57c \in {0, 8, 19}
  /\ w51e \in Keys \cup {0, 32} /\ KEYCODE \in Keys \cup {0, 32}
  /\ td \in {"none", "list", "endpoint"} /\ at \in Addresses \cup {0}
  /\ req \in 0 .. Poll
  /\ msg \in {"none", "done", "change"} /\ got \in {"none", "done", "change"}
  /\ flag \in BOOLEAN /\ present \in BOOLEAN
  /\ mode \in {"default", "addressed", "configured"} /\ packets \in 0 .. 8
  /\ ktoggle \in 0 .. 1 /\ odd \in BOOLEAN
  /\ acked \in 0 .. 9 /\ sent \subseteq Keys

Init ==
  /\ env \in Environments
  /\ pc = "softReset" /\ step = 1 /\ again = FALSE /\ got = "none"
  /\ toggle = 0 /\ data_size = 0 /\ KEYCODE = 0
  /\ head = 0 /\ tail = 0 /\ ctl = "other" /\ w51e = 0 /\ w57c = 0
  /\ td = "none" /\ at = 0 /\ req = 0 /\ msg = "none" /\ flag = FALSE
  /\ present \in IF env.faults THEN BOOLEAN ELSE {TRUE}
  /\ mode = "default" /\ packets = 0 /\ ktoggle = 0 /\ odd = FALSE
  /\ acked = 0 /\ sent = {}

-----------------------------------------------------------------------------
(* The program *)

Goto(label) == pc' = label /\ UNCHANGED <<env, step, again, got, toggle, data_size, KEYCODE>>

(* USB_HOT_PLUG: UsbSoftReset and step 1a; the chip forgets its lists, and *)
(* a keyboard its address, by the bus reset at the latest.                 *)
SoftReset ==
  /\ pc = "softReset" /\ Goto("sieInit")
  /\ td' = "none" /\ at' = 0 /\ msg' = "none" /\ flag' = FALSE /\ UNCHANGED req
  /\ mode' = "default" /\ acked' = 0 /\ sent' = {}
  /\ UNCHANGED <<present, packets, ktoggle, odd>>
  /\ UNCHANGED memory

(* Steps 1b and 2: a command to the chip, which answers in the mailbox.    *)
(* Step 1b waits for the answer (main.c:96), which always comes, if not    *)
(* always as COMM_ACK.                                                     *)
Command(label, next) ==
  /\ pc = label
  /\ \/ Goto(next)
     \/ env.faults /\ Goto("softReset")
  /\ UNCHANGED <<memory, chip, keyboard>>

(* Is there a keyboard?  It may turn up within five more looks.            *)
Detect ==
  /\ pc = "detect"
  /\ \/ present /\ pc' = "head" /\ step' = SetAddress
        /\ UNCHANGED <<env, again, got, toggle, data_size, KEYCODE>>
     \/ ~present /\ Goto("noDevice")
  /\ UNCHANGED <<memory, chip, keyboard>>

WaitForDevice ==
  /\ pc \in {"noDevice", "removed"} /\ present /\ Goto("softReset")
  /\ UNCHANGED <<memory, chip, keyboard>>

WriteHead_TogglesAgain ==
  /\ pc = "head" /\ pc' = (IF step = Poll THEN "submit" ELSE "tail")
  /\ toggle' = IF step = Poll THEN 1 - toggle ELSE toggle
  /\ head' = step /\ ctl' = "fresh"
  /\ UNCHANGED <<env, step, again, got, data_size, KEYCODE, tail, w51e, w57c, chip, keyboard>>

(* TD 1, the words 0x0500 to 0x050a.  A poll that is written again has the *)
(* toggle it had.                                                          *)
WriteHead ==
  /\ pc = "head" /\ pc' = (IF step = Poll THEN "submit" ELSE "tail")
  /\ toggle' = IF step = Poll /\ ~again THEN 1 - toggle ELSE toggle
  /\ head' = step /\ ctl' = "fresh"
  /\ UNCHANGED <<env, step, again, got, data_size, KEYCODE, tail, w51e, w57c, chip, keyboard>>

(***************************************************************************)
(* The SETUP packet and the other TDs.  The word at 0x051e is the link of  *)
(* the second of them: 0x0520 if there is a third, 0 if there is none; the *)
(* word at 0x057c is written by the longest list only, as the control word *)
(* 0x13 of its last TD (that the chip changes it when it gets there is not *)
(* followed: it is not read again before it is written).                   *)
(***************************************************************************)
LinkAt51e_OfTheThird(s) == IF Requested(s) = 0 THEN 0 ELSE \h052C % 256

LinkAt51e(s) == ListBehind(s)[1].next % 256

WriteTail ==
  /\ pc = "tail" /\ Goto("submit")
  /\ tail' = step /\ w51e' = LinkAt51e(step)
  /\ w57c' = IF step = GetReportDesc THEN \h13 ELSE w57c
  /\ UNCHANGED <<head, ctl, chip, keyboard>>

(***************************************************************************)
(* The program sleeps 10 ms (ten USB frames) each time it has repeated a   *)
(* list, not when it has submitted one for the first time; only the fifth  *)
(* step has a sleep, of 100 ms, there as well.  An idle chip takes a list   *)
(* up within the next frame.                                               *)
(***************************************************************************)
Submit ==
  /\ pc = "submit" /\ Goto(IF again \/ step = GetConfigDesc2 THEN "sleep" ELSE "check")
  /\ td' = "list"
  /\ UNCHANGED <<memory, at, req, msg, flag, keyboard>>

Sleep ==
  /\ pc = "sleep" /\ Goto("check")
  /\ td = "none" \/ (at # 0 /\ ~env.prompt)
  /\ env.prompt => at = 0
  /\ UNCHANGED <<memory, chip, keyboard>>

(* No message in HPI_STATUS: the list is written and submitted again.      *)
CheckFlag ==
  /\ pc = "check" /\ pc' = (IF flag THEN "readMsg" ELSE "head") /\ again' = ~flag
  /\ UNCHANGED <<env, step, got, toggle, data_size, KEYCODE, memory, chip, keyboard>>

(* UsbWaitTDListDone, which reads the message word and then clears it.     *)
ReadMsg_AfterClear ==
  /\ pc = "readMsg" /\ pc' = "clearMsg" /\ got' = "none" /\ flag' = FALSE
  /\ msg' = "none"
  /\ UNCHANGED <<env, step, again, toggle, data_size, KEYCODE, memory, td, at, req, keyboard>>

ReadMsg ==
  /\ pc = "readMsg" /\ pc' = "clearMsg" /\ got' = msg /\ flag' = FALSE
  /\ UNCHANGED <<env, step, again, toggle, data_size, KEYCODE, memory, td, at, req, msg, keyboard>>

ClearMsg ==
  /\ pc = "clearMsg"
  /\ msg' = "none"
  /\ Goto(CASE got # "done" -> "readMsg"
            [] got = "done" /\ step = Poll -> "export"
            [] OTHER -> "readCtl")
  /\ UNCHANGED <<memory, td, at, req, flag, keyboard>>

(* The step is over: on to the next, by way of the endpoint descriptor     *)
(* behind the fifth.                                                       *)
NextStep ==
  /\ pc' = IF step = GetConfigDesc2 THEN "endpoint" ELSE "head"
  /\ step' = step + 1
  /\ UNCHANGED <<env, again, got, toggle, data_size, KEYCODE>>

ReadCtl_AnyDone ==
  /\ pc = "readCtl" /\ NextStep
  /\ UNCHANGED <<memory, chip, keyboard>>

ReadCtl ==
  /\ pc = "readCtl"
  /\ IF ctl = "ok" THEN NextStep ELSE Goto("retryRead")
  /\ UNCHANGED <<memory, chip, keyboard>>

(***************************************************************************)
(* UsbGetRetryCnt, called until the control word is 0x03; the first step   *)
(* calls it once and starts all over whatever it returns.                  *)
(***************************************************************************)
RetryRead ==
  /\ pc = "retryRead" /\ flag' = FALSE
  /\ Goto(IF msg = "done" THEN "retryClear" ELSE "retryCtl")
  /\ UNCHANGED <<memory, td, at, req, msg, keyboard>>

RetryClear ==
  /\ pc = "retryClear" /\ Goto("retryFlag") /\ msg' = "none"
  /\ UNCHANGED <<memory, td, at, req, flag, keyboard>>

RetryFlag ==
  /\ pc = "retryFlag" /\ flag /\ Goto("retryCtl")
  /\ UNCHANGED <<memory, chip, keyboard>>

RetryCtl_OnlyOnce ==
  /\ pc = "retryCtl"
  /\ IF step = SetAddress THEN Goto("softReset") ELSE NextStep
  /\ UNCHANGED <<memory, chip, keyboard>>

RetryCtl ==
  /\ pc = "retryCtl"
  /\ CASE step = SetAddress -> Goto("softReset")
       [] step # SetAddress /\ ctl = "ok" -> NextStep
       [] OTHER -> Goto("retryRead")
  /\ UNCHANGED <<memory, chip, keyboard>>

SubmitEndpoint_NotWritten ==
  /\ pc = "endpoint" /\ Goto("size")
  /\ td' = "endpoint"
  /\ UNCHANGED <<memory, at, req, msg, flag, keyboard>>

(* An endpoint descriptor is written to 0x0576 and submitted as a list;    *)
(* the size of the reports is then read out of it.                         *)
SubmitEndpoint ==
  /\ pc = "endpoint" /\ Goto("size")
  /\ w57c' = 8 /\ td' = "endpoint"
  /\ UNCHANGED <<head, tail, ctl, w51e, at, req, msg, flag, keyboard>>

ReadSize ==
  /\ pc = "size" /\ pc' = "head" /\ data_size' = w57c
  /\ UNCHANGED <<env, step, again, got, toggle, KEYCODE, memory, chip, keyboard>>

(* Byte 3 of the report goes to the game. *)
Export ==
  /\ pc = "export"
  /\ KEYCODE' = w51e /\ pc' = "plugCheck"
  /\ UNCHANGED <<env, step, again, got, toggle, data_size, memory, chip, keyboard>>

(* Is the keyboard still there?  It has seven more looks to come back.     *)
PlugCheck ==
  /\ pc = "plugCheck" /\ Goto(IF present THEN "head" ELSE "removed")
  /\ UNCHANGED <<memory, chip, keyboard>>

Program ==
  \/ SoftReset \/ Command("sieInit", "busReset") \/ Command("busReset", "detect")
  \/ Detect \/ WaitForDevice
  \/ WriteHead \/ WriteTail \/ Submit \/ Sleep \/ CheckFlag
  \/ ReadMsg \/ ClearMsg \/ ReadCtl
  \/ RetryRead \/ RetryClear \/ RetryFlag \/ RetryCtl
  \/ SubmitEndpoint \/ ReadSize \/ Export \/ PlugCheck

-----------------------------------------------------------------------------
(* The chip *)

Message(m) == msg' = m /\ flag' = TRUE
NoMessage == UNCHANGED <<msg, flag>>

(* The TD the chip works on; a list written meanwhile may end before it.   *)
Here == (at - Behind) \div 12 + 1
OnTheList == at = First \/ Here \in 1 .. Len(ListBehind(tail))
TdHere ==
  CASE at # First -> ListBehind(tail)[Here]
    [] at = First /\ head = Poll -> PollTd(data_size, 1 - toggle)
    [] at = First /\ head # Poll -> Setup(IF head = SetAddress THEN 0 ELSE 2)

(* The chip takes a list up; TD 1 is passed over once it is not active any *)
(* more.  The endpoint descriptor, read as a TD, is not active either.     *)
TakeUp ==
  /\ td # "none" /\ at = 0 /\ td' = "none"
  /\ \/ /\ td = "list" /\ ctl = "fresh"
        /\ at' = First /\ req' = (IF head = Poll THEN Poll ELSE tail) /\ NoMessage
     \/ /\ td = "list" /\ ctl # "fresh" /\ head # Poll
        /\ at' = Behind /\ UNCHANGED req /\ NoMessage
     \/ /\ td = "endpoint" \/ (ctl # "fresh" /\ head = Poll)
        /\ UNCHANGED <<at, req>> /\ (Message("done") \/ NoMessage)
  /\ UNCHANGED <<env, prog, memory, keyboard>>

(***************************************************************************)
(* The TD pointer after a TD is done with; the end of a list is reported.  *)
(* If a list was submitted meanwhile, the pointer to it either survives or *)
(* is overwritten by the link of the TD.                                   *)
(***************************************************************************)
Follow(next) ==
  \/ /\ at' = next /\ td' = "none"
     /\ IF next = 0 THEN Message("done") ELSE NoMessage
  \/ td # "none" /\ at' = 0 /\ UNCHANGED td /\ NoMessage

(* A keyboard answers to its address.  A TD without an answer may end the  *)
(* list.                                                                   *)
Reached == present /\ (TdHere.device = 0 <=> mode = "default")
Failed == (env.faults \/ ~Reached) /\ (Follow(0) \/ Follow(TdHere.next))

SetupDone ==
  /\ at = First /\ req # Poll
  /\ \/ /\ Reached /\ Follow(Behind)
        /\ ctl' \in (IF env.faults THEN {"ok", "other"} ELSE {"ok"})
        /\ acked' = req /\ packets' = 0
     \/ Failed /\ ctl' = "other" /\ UNCHANGED <<acked, packets>>
  /\ UNCHANGED <<env, prog, head, tail, w51e, w57c, req, present, mode, ktoggle, odd, sent>>

(***************************************************************************)
(* What the keyboard has for a request, in packets of eight bytes that are *)
(* DATA1 and DATA0 in turn: 18 bytes of device descriptor, 34 of           *)
(* configuration, 9 of HID descriptor, 59 of report descriptor.            *)
(* Where packets or their acknowledgements get lost the keyboard's counts  *)
(* of packets and polls are not followed (they stay as they are) and a     *)
(* packet may be the right one or a repetition.                            *)
(***************************************************************************)
Held(r) ==
  CASE r \in {GetDeviceDesc1, GetDeviceDesc2} -> 18
    [] r \in {GetConfigDesc1, GetConfigDesc2} -> 34
    [] r = GetHidDesc -> 9
    [] r = GetReportDesc -> 59
    [] OTHER -> 0
Lesser(a, b) == IF a < b THEN a ELSE b
Left == Lesser(Requested(req), Held(req)) - 8 * packets

(* A data packet.  The last two bytes of the configuration go to 0x057c.   *)
DataDone ==
  /\ at > First /\ OnTheList /\ TdHere.len > 0 /\ req # Poll
  /\ \/ /\ Reached /\ Follow(TdHere.next)
        /\ packets' = (IF Left > 0 /\ ~env.faults THEN packets + 1 ELSE packets)
        /\ w57c' \in (IF TdHere.buf = \h057C THEN {0} ELSE {w57c}) \cup (IF env.faults THEN {w57c} ELSE {})
     \/ Failed /\ UNCHANGED <<packets, w57c>>
  /\ UNCHANGED <<env, prog, head, tail, ctl, w51e, req, present, mode, ktoggle, odd, acked, sent>>

(* What was asked for is carried out when it is confirmed. *)
StatusDone ==
  /\ at > First /\ OnTheList /\ TdHere.len = 0
  /\ \/ /\ Reached /\ Follow(TdHere.next)
        /\ mode' = (CASE req = SetAddress -> "addressed" [] req = SetConfig -> "configured" [] OTHER -> mode)
        /\ IF req = SetConfig THEN ktoggle' = 0 /\ odd' = FALSE ELSE UNCHANGED <<ktoggle, odd>>
     \/ Failed /\ UNCHANGED <<mode, ktoggle, odd>>
  /\ UNCHANGED <<env, prog, memory, req, present, packets, acked, sent>>

(* When lists are written while the chip works on them it comes to TDs     *)
(* that it has done already, or to what is no TD.                          *)
PassOver ==
  /\ at > First /\ ~env.prompt
  /\ IF OnTheList THEN Follow(TdHere.next) ELSE Follow(0)
  /\ UNCHANGED <<env, prog, memory, req, keyboard>>

(***************************************************************************)
(* A poll brings a report, or nothing because no key has changed.  A       *)
(* report that is not DATA0 or DATA1 as the TD says is taken for a         *)
(* repetition; what the chip does with its bytes is not known.             *)
(***************************************************************************)
Report(k) ==
  /\ present /\ mode = "configured"
  /\ sent' = sent \cup ({k} \ {0}) /\ UNCHANGED odd
  /\ IF TdHere.len = 8
     THEN /\ w51e' \in (IF TdHere.data = ktoggle /\ ~env.faults THEN {k} ELSE {k, w51e})
          /\ ktoggle' = (IF env.faults THEN ktoggle ELSE 1 - ktoggle)
     ELSE UNCHANGED <<w51e, ktoggle>>

NoReport == odd' = (odd # ~env.faults) /\ UNCHANGED <<w51e, ktoggle, sent>>

PollDone ==
  /\ at = First /\ req = Poll
  /\ NoReport \/ \E k \in Keys \cup {0} : Report(k)
  /\ ctl' = "other"
  /\ Follow(0)
  /\ UNCHANGED <<env, prog, head, tail, w57c, req, present, mode, packets, acked>>

(* A keyboard comes or goes, which the chip may report as a message, or    *)
(* bounces, or is replaced, so fast that only the message is seen.         *)
PlugChange ==
  /\ env.faults
  /\ present' \in BOOLEAN /\ mode' = "default"
  /\ Message("change") \/ NoMessage
  /\ UNCHANGED <<env, prog, memory, td, at, req, packets, ktoggle, odd, acked, sent>>

(* Between two sleeps, unless it waits for a message, the program needs    *)
(* far less than a USB frame.                                              *)
Hurrying == pc \in {"head", "tail", "submit", "check", "endpoint", "size"}

Chip == TakeUp \/ SetupDone \/ DataDone \/ StatusDone \/ PassOver \/ PollDone

Next ==
  \/ Program
  \/ (env.prompt => ~Hurrying) /\ Chip
  \/ PlugChange

Spec == Init /\ [][Next]_vars

(* The program never stops, and the chip goes on whenever it can.          *)
FairSpec == Spec /\ WF_vars(Program) /\ WF_vars((env.prompt => ~Hurrying) /\ Chip)

-----------------------------------------------------------------------------
(* Properties *)

(* The program is beyond a step, as its messages say ("set address done!", *)
(* ...), only if a keyboard has acknowledged the request of that step.     *)
Enumerating == pc \notin {"softReset", "sieInit", "busReset", "detect", "noDevice"}
StepsAcknowledged == Enumerating => acked >= step - 1

(* A keyboard sees the requests of the steps in their order.               *)
RequestsInOrder == [][acked' \in {0, acked, acked + 1}]_vars

(* No key the game reacts to is ever read out of memory that no keyboard   *)
(* report was written to: what the lists of the enumeration leave at       *)
(* 0x051e, or what a keyboard that is gone sent.                           *)
NoPhantomGameKey == pc = "export" /\ w51e \in GameKeys => w51e \in sent

(* Nothing fails, and the chip leaves lists alone while they are written. *)
Calm == env.prompt /\ ~env.faults

(***************************************************************************)
(* The lists that usb.c spells out word by word are in step with the       *)
(* keyboard: the chip is never led where no TD is, every packet is DATA0   *)
(* or DATA1 as the keyboard has it and fits in its TD, no data is put      *)
(* where a TD is that the chip has still to come to, and a request is      *)
(* confirmed the right way, by the device that got it.                     *)
(***************************************************************************)
ListsInStep ==
  Calm /\ at # 0 /\ req # Poll =>
    /\ OnTheList /\ Reached
    /\ at > First /\ TdHere.len > 0 =>
         /\ Left > 0 /\ TdHere.data = (packets + 1) % 2 /\ Lesser(8, Left) <= TdHere.len
         /\ \A k \in Here + 1 .. Len(ListBehind(tail)) :
              Buffer(TdHere) \cap Words(AddressBehind(k)) = {}
    /\ at > First /\ TdHere.len = 0 =>
         TdHere.data = 1 /\ (TdHere.pid = "IN" <=> Requested(req) = 0)

(* The polls ask for a whole report: the size was not read out of what a   *)
(* late list left there.                                                   *)
WholeReports == Calm /\ step = Poll => data_size = 8

(* The program turns the toggle with every poll that is done, the keyboard *)
(* with every report: they agree, and a report is taken for what it is, as *)
(* long as the number of polls without a report is even.                   *)
TogglesAgreeWhenEven ==
  Calm /\ at = First /\ req = Poll => (TdHere.data = ktoggle <=> ~odd)

(* In such an environment the program gets to poll, again and again.       *)
KeepsPolling == Calm => []<>(pc = "export")

(* main.c:210: "Call the appropriate function again if it wasn't processed *)
(* successfully."                                                          *)
FailedStepIsRepeated ==
  (pc = "readCtl" /\ ctl # "ok" /\ acked < step) ~> (pc \in {"head", "softReset"})
=============================================================================
