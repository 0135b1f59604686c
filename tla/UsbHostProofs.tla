--------------------------- MODULE UsbHostProofs ---------------------------
(***************************************************************************)
(* Theorems about the keyboard program and the USB chip for every set of   *)
(* keys and everything that may go wrong: transfers that fail, keyboards   *)
(* that come and go, a chip that is late and works on lists that are being *)
(* written.                                                                *)
(***************************************************************************)
EXTENDS UsbHost, TLAPS

Quiet == {"sieInit", "busReset", "detect", "noDevice"}
Retrying == {"retryRead", "retryClear", "retryFlag", "retryCtl"}
Waiting == {"check", "readMsg", "clearMsg"}
Noticed == {"readCtl"} \cup Retrying

(* A list that has not been submitted yet for the first time.              *)
Fresh == ~again /\ pc \in {"endpoint", "size", "head", "tail", "submit"}

HeadIsWritten == pc \in {"tail", "submit", "sleep"} \cup Waiting \cup Noticed \/ (pc = "head" /\ again)
TailIsWritten == pc \in {"submit", "sleep"} \cup Waiting \cup Noticed \/ (pc \in {"head", "tail"} /\ again)

(* Where the program can be in which step. *)
PcInv ==
  /\ again => pc \in {"head", "tail", "submit", "sleep", "check"}
  /\ pc \in Noticed \cup {"tail"} => step <= 9
  /\ pc \in {"endpoint", "size"} => step = SetConfig
  /\ pc \in {"export", "plugCheck", "removed"} => step = Poll

(* What a reset leaves. *)
QuietInv == pc \in Quiet => at = 0 /\ td = "none" /\ acked = 0 /\ msg # "done"

(* What is submitted, and what the chip works on, is the list of the step, *)
(* and was as it should be when it was taken up.                           *)
ListInv ==
  /\ at # 0 => req >= 1 /\ tail >= 1
  /\ td = "list" => tail >= 1 /\ head = step
  /\ ctl # "fresh" /\ head # 0 => req >= 1
  /\ td = "list" /\ step <= 9 => tail = step
  /\ at = First => req = step
  /\ at = First /\ step <= 9 => ctl = "fresh"
  /\ HeadIsWritten => head = step
  /\ TailIsWritten /\ step <= 9 => tail = step
  /\ Enumerating /\ (step > 1 \/ TailIsWritten) => tail >= 1

(* Nothing of the step is under way before its list is submitted. *)
FreshInv ==
  Fresh /\ step <= 9 =>
    td # "list" /\ at # First /\ (pc \in {"tail", "submit"} => ctl = "fresh")

AckInv ==
  /\ (Enumerating \/ at # 0 \/ td = "list") /\ step <= 9 => acked \in {step - 1, step}
  /\ Enumerating /\ step = Poll => acked = 9
  /\ HeadIsWritten /\ step <= 9 /\ ctl = "ok" => acked = step

(***************************************************************************)
(* A done message is the end of all that was submitted before it: if the   *)
(* program has noticed one, a list that waits has been submitted since and *)
(* nothing of it has been done.                                            *)
(***************************************************************************)
DoneInv ==
  /\ msg = "done" /\ ~flag => pc \in {"clearMsg", "retryClear"}
  /\ step <= 9 /\ msg = "done" /\ pc \in {"head", "tail", "submit", "endpoint", "size"} \cup Noticed =>
       at = 0 /\ td # "list"
  /\ step <= 9 /\ msg = "done" /\ td = "list" /\ pc = "sleep" => at = 0
  /\ step <= 9 /\ td = "list" /\ pc \in Waiting \cup Noticed
     /\ (msg = "done" \/ (pc = "clearMsg" /\ got = "done") \/ pc \in Noticed) =>
       at = 0 /\ ctl = "fresh"

(* What is at 0x051e: a link of a list, or a key that was sent. *)
KeyInv ==
  Enumerating /\ ~(step = 1 /\ pc \in {"head", "tail"}) => w51e \in sent \cup {0, 32}

UsbInv == TypeOK /\ PcInv /\ QuietInv /\ ListInv /\ FreshInv /\ AckInv /\ DoneInv /\ KeyInv

ProgramInv == PcInv /\ QuietInv /\ ListInv /\ FreshInv /\ AckInv /\ DoneInv /\ KeyInv

-----------------------------------------------------------------------------
USE UsbAssumption DEF UsbAssumption, SetAddress, GetDeviceDesc1, GetDeviceDesc2, GetConfigDesc1,
    GetConfigDesc2, SetConfig, ClassRequest, GetHidDesc, GetReportDesc, Poll, Steps,
    First, Behind

(* Addresses behind the first descriptor. *)
Later == {AddressBehind(k) : k \in 1 .. 9}

LEMMA LaterAddresses ==
  /\ Addresses = {First} \cup Later
  /\ 0 \notin Later /\ First \notin Later /\ First # 0 /\ Behind \in Later
  /\ \A a \in Later : a > First
<1>1. \A k \in 1 .. 9 : AddressBehind(k) \in Nat /\ AddressBehind(k) >= 1300
  BY DEF AddressBehind
<1>2. AddressBehind(1) = Behind
  BY DEF AddressBehind
<1> QED
  BY <1>1, <1>2 DEF Addresses, Later

(* Every link of a list leads to a descriptor or ends the list.            *)
LEMMA Links ==
  ASSUME NEW s \in Steps, NEW i \in 1 .. Len(ListBehind(s))
  PROVE  ListBehind(s)[i].next \in Later \cup {0}
<1>1. {\h0520, \h052C, \h0538, \h0544, \h0550, \h055C, \h0568, \h0574} \subseteq Later
  <2>1. /\ \h0520 = AddressBehind(2) /\ \h052C = AddressBehind(3) /\ \h0538 = AddressBehind(4)
        /\ \h0544 = AddressBehind(5) /\ \h0550 = AddressBehind(6) /\ \h055C = AddressBehind(7)
        /\ \h0568 = AddressBehind(8) /\ \h0574 = AddressBehind(9)
    BY DEF AddressBehind
  <2> QED
    BY <2>1 DEF Later
<1>2. CASE s = 1
  <2>1. ListBehind(1) = << StatusIn(0) >>
    BY DEF ListBehind
  <2> QED
    BY <1>1, <1>2, <2>1 DEF StatusIn, Td
<1>3. CASE s = 2
  <2>1. ListBehind(2) = << In(\h052C, 8, 1, \h0520), StatusOut >>
    BY DEF ListBehind
  <2> QED
    BY <1>1, <1>3, <2>1 DEF In, StatusOut, Td
<1>4. CASE s = 3
  <2>1. ListBehind(3) = << In(\h0544, 8, 1, \h0520), In(\h054C, 8, 0, \h052C), In(\h0554, 2, 1, \h0538), StatusOut >>
    BY DEF ListBehind
  <2> QED
    BY <1>1, <1>4, <2>1 DEF In, StatusOut, Td
<1>5. CASE s = 4
  <2>1. ListBehind(4) = << In(\h0544, 8, 1, \h0520), In(\h054C, 1, 0, \h052C), StatusOut >>
    BY DEF ListBehind
  <2> QED
    BY <1>1, <1>5, <2>1 DEF In, StatusOut, Td
<1>6. CASE s = 5
  <2>1. ListBehind(5) = << In(\h055C, 8, 1, \h0520), In(\h0564, 8, 0, \h052C), In(\h056C, 8, 1, \h0538),
                           In(\h0574, 8, 0, \h0544), In(\h057C, 2, 1, \h0550), StatusOut >>
    BY DEF ListBehind
  <2> QED
    BY <1>1, <1>6, <2>1 DEF In, StatusOut, Td
<1>7. CASE s = 6
  <2>1. ListBehind(6) = << StatusIn(2) >>
    BY DEF ListBehind
  <2> QED
    BY <1>1, <1>7, <2>1 DEF StatusIn, Td
<1>8. CASE s = 7
  <2>1. ListBehind(7) = << StatusIn(2) >>
    BY DEF ListBehind
  <2> QED
    BY <1>1, <1>8, <2>1 DEF StatusIn, Td
<1>9. CASE s = 8
  <2>1. ListBehind(8) = << In(\h0544, 8, 1, \h0520), StatusOut >>
    BY DEF ListBehind
  <2> QED
    BY <1>1, <1>9, <2>1 DEF In, StatusOut, Td
<1>10. CASE s = 9
  <2>1. ListBehind(9) = << In(\h0580, 8, 1, \h0520), In(\h0588, 8, 0, \h052C), In(\h0590, 8, 1, \h0538),
                           In(\h0598, 8, 0, \h0544), In(\h05A0, 8, 1, \h0550), In(\h05A8, 8, 0, \h055C),
                           In(\h05B0, 8, 1, \h0568), In(\h05B8, 3, 0, \h0574), StatusOut >>
    BY DEF ListBehind
  <2> QED
    BY <1>1, <1>10, <2>1, SMTT(40) DEF In, StatusOut, Td
<1> QED
  BY <1>2, <1>3, <1>4, <1>5, <1>6, <1>7, <1>8, <1>9, <1>10

LEMMA LinkOfTheSecond == \A s \in Steps : LinkAt51e(s) \in {0, 32}
<1> SUFFICES ASSUME NEW s \in Steps PROVE LinkAt51e(s) \in {0, 32}
  OBVIOUS
<1>1. ListBehind(s)[1].next \in {0, \h0520}
  BY DEF ListBehind, StatusIn, In, Td
<1> QED
  BY <1>1 DEF LinkAt51e

LEMMA NextHere ==
  ASSUME UsbInv, at # 0, OnTheList
  PROVE  TdHere.next \in Later \cup {0}
<1>1. CASE at = First
  BY <1>1, LaterAddresses DEF TdHere, PollTd, Setup, Td
<1>2. CASE at # First
  <2>1. tail \in Steps /\ Here \in 1 .. Len(ListBehind(tail))
    BY <1>2 DEF UsbInv, TypeOK, ListInv, OnTheList
  <2> QED
    BY <1>2, <2>1, Links DEF TdHere
<1> QED
  BY <1>1, <1>2

-----------------------------------------------------------------------------
(* The type invariant, by who keeps what. *)
ProgType ==
  /\ env \in Environments
  /\ pc \in {"softReset", "sieInit", "busReset", "detect", "noDevice",
             "head", "tail", "submit", "sleep", "check", "readMsg", "clearMsg", "readCtl",
             "retryRead", "retryClear", "retryFlag", "retryCtl",
             "endpoint", "size", "export", "plugCheck", "removed"}
  /\ step \in 1 .. 10 /\ again \in BOOLEAN /\ got \in {"none", "done", "change"}
  /\ toggle \in 0 .. 1 /\ data_size \in {0, 8, 19} /\ KEYCODE \in Keys \cup {0, 32}
MemoryType ==
  /\ head \in 0 .. 10 /\ tail \in 0 .. 9 /\ ctl \in {"fresh", "ok", "other"}
  /\ w51e \in Keys \cup {0, 32} /\ w57c \in {0, 8, 19}
ChipType ==
  /\ td \in {"none", "list", "endpoint"} /\ at \in Addresses \cup {0} /\ req \in 0 .. 10
  /\ msg \in {"none", "done", "change"} /\ flag \in BOOLEAN
KeyboardType ==
  /\ present \in BOOLEAN /\ mode \in {"default", "addressed", "configured"} /\ packets \in 0 .. 8
  /\ ktoggle \in 0 .. 1 /\ odd \in BOOLEAN /\ acked \in 0 .. 9 /\ sent \subseteq Keys

LEMMA TypeParts == TypeOK <=> ProgType /\ MemoryType /\ ChipType /\ KeyboardType
  BY DEF TypeOK, ProgType, MemoryType, ChipType, KeyboardType

LEMMA TypePartsNext == TypeOK' <=> ProgType' /\ MemoryType' /\ ChipType' /\ KeyboardType'
  BY DEF TypeOK, ProgType, MemoryType, ChipType, KeyboardType

USE DEF Quiet, Retrying, Waiting, Noticed, Fresh, HeadIsWritten, TailIsWritten, Enumerating,
        Goto, vars, prog, memory, chip, keyboard

LEMMA UsbInvInit == Init => UsbInv
<1> SUFFICES ASSUME Init PROVE UsbInv
  OBVIOUS
<1>5. again \in BOOLEAN /\ flag \in BOOLEAN /\ odd \in BOOLEAN
  BY Zenon DEF Init
<1>6. present \in BOOLEAN
  BY DEF Init
<1>1. ProgType
  BY <1>5 DEF Init, ProgType
<1>2. MemoryType /\ ChipType
  BY <1>5, LaterAddresses DEF Init, MemoryType, ChipType
<1>7. KeyboardType
  BY <1>5, <1>6 DEF Init, KeyboardType
<1>3. PcInv /\ QuietInv /\ ListInv
  BY DEF Init, PcInv, QuietInv, ListInv
<1>4. FreshInv /\ AckInv /\ DoneInv /\ KeyInv
  BY DEF Init, FreshInv, AckInv, DoneInv, KeyInv
<1> QED
  BY <1>1, <1>2, <1>3, <1>4, <1>7, TypeParts DEF UsbInv

LEMMA SoftResetKeeps == ASSUME UsbInv, SoftReset PROVE TypeOK' /\ ProgramInv'
<1>1. ProgType' /\ MemoryType'
  BY TypeParts DEF UsbInv, SoftReset, ProgType, MemoryType
<1>2. ChipType' /\ KeyboardType'
  <2>1. flag' \in BOOLEAN /\ present' \in BOOLEAN /\ odd' \in BOOLEAN
    BY Zenon, TypeParts DEF UsbInv, SoftReset, ChipType, KeyboardType
  <2> QED
    BY <2>1, TypeParts DEF UsbInv, SoftReset, ChipType, KeyboardType
<1>3. PcInv' /\ QuietInv'
  BY DEF UsbInv, SoftReset, PcInv, QuietInv
<1>4. ListInv' /\ FreshInv'
  BY DEF UsbInv, SoftReset, ListInv, FreshInv, PcInv
<1>5. AckInv' /\ DoneInv' /\ KeyInv'
  BY DEF UsbInv, SoftReset, AckInv, DoneInv, KeyInv
<1> QED
  BY <1>1, <1>2, <1>3, <1>4, <1>5, TypePartsNext DEF ProgramInv

-----------------------------------------------------------------------------
(* The first look for a keyboard. *)
LEMMA DetectKeeps == ASSUME UsbInv, Detect PROVE TypeOK' /\ ProgramInv'
<1>1. ProgType' /\ MemoryType'
  BY TypeParts DEF UsbInv, Detect, ProgType, MemoryType, PcInv
<1>2. ChipType' /\ KeyboardType'
  BY TypeParts DEF UsbInv, Detect, ChipType, KeyboardType
<1>3. PcInv' /\ QuietInv'
  BY TypeParts DEF UsbInv, Detect, ProgType, PcInv, QuietInv
<1>4. ListInv' /\ FreshInv'
  BY TypeParts DEF UsbInv, Detect, ProgType, MemoryType, ChipType, PcInv, QuietInv, ListInv, FreshInv, DoneInv
<1>5. AckInv' /\ DoneInv' /\ KeyInv'
  BY TypeParts DEF UsbInv, Detect, ProgType, MemoryType, ChipType, PcInv, QuietInv, ListInv, FreshInv, AckInv, DoneInv, KeyInv
<1> QED
  BY <1>1, <1>2, <1>3, <1>4, <1>5, TypePartsNext DEF ProgramInv

LEMMA WaitForDeviceKeeps == ASSUME UsbInv, WaitForDevice PROVE TypeOK' /\ ProgramInv'
<1>1. ProgType' /\ MemoryType'
  BY TypeParts DEF UsbInv, WaitForDevice, ProgType, MemoryType, PcInv
<1>2. ChipType' /\ KeyboardType'
  BY TypeParts DEF UsbInv, WaitForDevice, ChipType, KeyboardType
<1>3. PcInv' /\ QuietInv'
  BY TypeParts DEF UsbInv, WaitForDevice, ProgType, PcInv, QuietInv
<1>4. ListInv' /\ FreshInv'
  BY TypeParts DEF UsbInv, WaitForDevice, ProgType, MemoryType, ChipType, PcInv, QuietInv, ListInv, FreshInv, DoneInv
<1>5. AckInv' /\ DoneInv' /\ KeyInv'
  BY TypeParts DEF UsbInv, WaitForDevice, ProgType, MemoryType, ChipType, PcInv, QuietInv, ListInv, FreshInv, AckInv, DoneInv, KeyInv
<1> QED
  BY <1>1, <1>2, <1>3, <1>4, <1>5, TypePartsNext DEF ProgramInv

LEMMA WriteHeadKeeps == ASSUME UsbInv, WriteHead PROVE TypeOK' /\ ProgramInv'
<1>1. ProgType' /\ MemoryType'
  BY TypeParts DEF UsbInv, WriteHead, ProgType, MemoryType, PcInv
<1>2. ChipType' /\ KeyboardType'
  BY TypeParts DEF UsbInv, WriteHead, ChipType, KeyboardType
<1>3. PcInv' /\ QuietInv'
  BY TypeParts DEF UsbInv, WriteHead, ProgType, PcInv, QuietInv
<1>4. ListInv' /\ FreshInv'
  BY TypeParts DEF UsbInv, WriteHead, ProgType, MemoryType, ChipType, PcInv, QuietInv, ListInv, FreshInv, DoneInv
<1>5. AckInv' /\ DoneInv' /\ KeyInv'
  BY TypeParts DEF UsbInv, WriteHead, ProgType, MemoryType, ChipType, PcInv, QuietInv, ListInv, FreshInv, AckInv, DoneInv, KeyInv
<1> QED
  BY <1>1, <1>2, <1>3, <1>4, <1>5, TypePartsNext DEF ProgramInv

LEMMA WriteTailKeeps == ASSUME UsbInv, WriteTail PROVE TypeOK' /\ ProgramInv'
<1>1. ProgType' /\ MemoryType'
  BY TypeParts, LinkOfTheSecond DEF UsbInv, WriteTail, ProgType, MemoryType, PcInv
<1>2. ChipType' /\ KeyboardType'
  BY TypeParts DEF UsbInv, WriteTail, ChipType, KeyboardType
<1>3. PcInv' /\ QuietInv'
  BY TypeParts DEF UsbInv, WriteTail, ProgType, PcInv, QuietInv
<1>4. ListInv' /\ FreshInv'
  BY TypeParts DEF UsbInv, WriteTail, ProgType, MemoryType, ChipType, PcInv, QuietInv, ListInv, FreshInv, DoneInv
<1>5. AckInv' /\ DoneInv' /\ KeyInv'
  BY TypeParts, LinkOfTheSecond DEF UsbInv, WriteTail, ProgType, MemoryType, ChipType, PcInv, QuietInv, ListInv, FreshInv, AckInv, DoneInv, KeyInv
<1> QED
  BY <1>1, <1>2, <1>3, <1>4, <1>5, TypePartsNext DEF ProgramInv

LEMMA SubmitKeeps == ASSUME UsbInv, Submit PROVE TypeOK' /\ ProgramInv'
<1>1. ProgType' /\ MemoryType'
  BY TypeParts DEF UsbInv, Submit, ProgType, MemoryType, PcInv
<1>2. ChipType' /\ KeyboardType'
  BY TypeParts DEF UsbInv, Submit, ChipType, KeyboardType
<1>3. PcInv' /\ QuietInv'
  BY TypeParts DEF UsbInv, Submit, ProgType, PcInv, QuietInv
<1>4. ListInv' /\ FreshInv'
  BY TypeParts DEF UsbInv, Submit, ProgType, MemoryType, ChipType, PcInv, QuietInv, ListInv, FreshInv, DoneInv
<1>5. AckInv' /\ DoneInv' /\ KeyInv'
  BY TypeParts DEF UsbInv, Submit, ProgType, MemoryType, ChipType, PcInv, QuietInv, ListInv, FreshInv, AckInv, DoneInv, KeyInv
<1> QED
  BY <1>1, <1>2, <1>3, <1>4, <1>5, TypePartsNext DEF ProgramInv

LEMMA SleepKeeps == ASSUME UsbInv, Sleep PROVE TypeOK' /\ ProgramInv'
<1>1. ProgType' /\ MemoryType'
  BY TypeParts DEF UsbInv, Sleep, ProgType, MemoryType, PcInv
<1>2. ChipType' /\ KeyboardType'
  BY TypeParts DEF UsbInv, Sleep, ChipType, KeyboardType
<1>3. PcInv' /\ QuietInv'
  BY TypeParts DEF UsbInv, Sleep, ProgType, PcInv, QuietInv
<1>4. ListInv' /\ FreshInv'
  BY TypeParts DEF UsbInv, Sleep, ProgType, MemoryType, ChipType, PcInv, QuietInv, ListInv, FreshInv, DoneInv
<1>5. AckInv' /\ DoneInv' /\ KeyInv'
  BY TypeParts DEF UsbInv, Sleep, ProgType, MemoryType, ChipType, PcInv, QuietInv, ListInv, FreshInv, AckInv, DoneInv, KeyInv
<1> QED
  BY <1>1, <1>2, <1>3, <1>4, <1>5, TypePartsNext DEF ProgramInv

LEMMA CheckFlagKeeps == ASSUME UsbInv, CheckFlag PROVE TypeOK' /\ ProgramInv'
<1>1. ProgType' /\ MemoryType'
  BY TypeParts DEF UsbInv, CheckFlag, ProgType, MemoryType, PcInv
<1>2. ChipType' /\ KeyboardType'
  BY TypeParts DEF UsbInv, CheckFlag, ChipType, KeyboardType
<1>3. PcInv' /\ QuietInv'
  BY TypeParts DEF UsbInv, CheckFlag, ProgType, PcInv, QuietInv
<1>6. flag => again' = FALSE
  BY Zenon DEF CheckFlag
<1>7. ~flag => again' = TRUE
  BY Zenon DEF CheckFlag
<1>4. ListInv' /\ FreshInv'
  BY <1>6, <1>7, TypeParts DEF UsbInv, CheckFlag, ProgType, MemoryType, ChipType, PcInv, QuietInv, ListInv, FreshInv, DoneInv
<1>5. AckInv' /\ DoneInv' /\ KeyInv'
  BY TypeParts DEF UsbInv, CheckFlag, ProgType, MemoryType, ChipType, PcInv, QuietInv, ListInv, FreshInv, AckInv, DoneInv, KeyInv
<1> QED
  BY <1>1, <1>2, <1>3, <1>4, <1>5, TypePartsNext DEF ProgramInv

LEMMA ToBusResetKeeps == ASSUME UsbInv, Command("sieInit", "busReset") PROVE TypeOK' /\ ProgramInv'
<1>1. ProgType' /\ MemoryType'
  BY TypeParts DEF UsbInv, Command, ProgType, MemoryType, PcInv
<1>2. ChipType' /\ KeyboardType'
  BY TypeParts DEF UsbInv, Command, ChipType, KeyboardType
<1>3. PcInv' /\ QuietInv'
  BY TypeParts DEF UsbInv, Command, ProgType, PcInv, QuietInv
<1>4. ListInv' /\ FreshInv'
  BY TypeParts DEF UsbInv, Command, ProgType, MemoryType, ChipType, PcInv, QuietInv, ListInv, FreshInv, DoneInv
<1>5. AckInv' /\ DoneInv' /\ KeyInv'
  BY TypeParts DEF UsbInv, Command, ProgType, MemoryType, ChipType, PcInv, QuietInv, ListInv, FreshInv, AckInv, DoneInv, KeyInv
<1> QED
  BY <1>1, <1>2, <1>3, <1>4, <1>5, TypePartsNext DEF ProgramInv

LEMMA ToDetectKeeps == ASSUME UsbInv, Command("busReset", "detect") PROVE TypeOK' /\ ProgramInv'
<1>1. ProgType' /\ MemoryType'
  BY TypeParts DEF UsbInv, Command, ProgType, MemoryType, PcInv
<1>2. ChipType' /\ KeyboardType'
  BY TypeParts DEF UsbInv, Command, ChipType, KeyboardType
<1>3. PcInv' /\ QuietInv'
  BY TypeParts DEF UsbInv, Command, ProgType, PcInv, QuietInv
<1>4. ListInv' /\ FreshInv'
  BY TypeParts DEF UsbInv, Command, ProgType, MemoryType, ChipType, PcInv, QuietInv, ListInv, FreshInv, DoneInv
<1>5. AckInv' /\ DoneInv' /\ KeyInv'
  BY TypeParts DEF UsbInv, Command, ProgType, MemoryType, ChipType, PcInv, QuietInv, ListInv, FreshInv, AckInv, DoneInv, KeyInv
<1> QED
  BY <1>1, <1>2, <1>3, <1>4, <1>5, TypePartsNext DEF ProgramInv

LEMMA ReadMsgKeeps == ASSUME UsbInv, ReadMsg PROVE TypeOK' /\ ProgramInv'
<1>1. ProgType' /\ MemoryType'
  BY TypeParts DEF UsbInv, ReadMsg, ProgType, MemoryType, ChipType, PcInv
<1>2. ChipType' /\ KeyboardType'
  BY TypeParts DEF UsbInv, ReadMsg, ChipType, KeyboardType
<1>3. PcInv' /\ QuietInv'
  BY TypeParts DEF UsbInv, ReadMsg, ProgType, PcInv, QuietInv
<1>4. ListInv' /\ FreshInv'
  BY TypeParts DEF UsbInv, ReadMsg, ProgType, MemoryType, ChipType, PcInv, QuietInv, ListInv, FreshInv, DoneInv
<1>5. AckInv' /\ DoneInv' /\ KeyInv'
  BY TypeParts DEF UsbInv, ReadMsg, ProgType, MemoryType, ChipType, PcInv, QuietInv, ListInv, FreshInv, AckInv, DoneInv, KeyInv
<1> QED
  BY <1>1, <1>2, <1>3, <1>4, <1>5, TypePartsNext DEF ProgramInv

LEMMA ClearMsgKeeps == ASSUME UsbInv, ClearMsg PROVE TypeOK' /\ ProgramInv'
<1>1. ProgType' /\ MemoryType'
  BY TypeParts DEF UsbInv, ClearMsg, ProgType, MemoryType, PcInv
<1>2. ChipType' /\ KeyboardType'
  BY TypeParts DEF UsbInv, ClearMsg, ChipType, KeyboardType
<1>3. PcInv' /\ QuietInv'
  BY TypeParts DEF UsbInv, ClearMsg, ProgType, PcInv, QuietInv
<1>4. ListInv' /\ FreshInv'
  BY TypeParts DEF UsbInv, ClearMsg, ProgType, MemoryType, ChipType, PcInv, QuietInv, ListInv, FreshInv, DoneInv
<1>5. AckInv' /\ DoneInv' /\ KeyInv'
  BY TypeParts DEF UsbInv, ClearMsg, ProgType, MemoryType, ChipType, PcInv, QuietInv, ListInv, FreshInv, AckInv, DoneInv, KeyInv
<1> QED
  BY <1>1, <1>2, <1>3, <1>4, <1>5, TypePartsNext DEF ProgramInv

LEMMA ReadCtlKeeps == ASSUME UsbInv, ReadCtl PROVE TypeOK' /\ ProgramInv'
<1>1. ProgType' /\ MemoryType'
  BY TypeParts DEF UsbInv, ReadCtl, ProgType, MemoryType, PcInv, NextStep
<1>2. ChipType' /\ KeyboardType'
  BY TypeParts DEF UsbInv, ReadCtl, ChipType, KeyboardType
<1>3. PcInv' /\ QuietInv'
  BY TypeParts DEF UsbInv, ReadCtl, ProgType, PcInv, QuietInv, NextStep
<1>4. ListInv' /\ FreshInv'
  BY TypeParts DEF UsbInv, ReadCtl, ProgType, MemoryType, ChipType, PcInv, QuietInv, ListInv, FreshInv, DoneInv, NextStep
<1>5. AckInv' /\ DoneInv' /\ KeyInv'
  BY TypeParts DEF UsbInv, ReadCtl, ProgType, MemoryType, ChipType, PcInv, QuietInv, ListInv, FreshInv, AckInv, DoneInv, KeyInv, NextStep
<1> QED
  BY <1>1, <1>2, <1>3, <1>4, <1>5, TypePartsNext DEF ProgramInv

LEMMA RetryReadKeeps == ASSUME UsbInv, RetryRead PROVE TypeOK' /\ ProgramInv'
<1>1. ProgType' /\ MemoryType'
  BY TypeParts DEF UsbInv, RetryRead, ProgType, MemoryType, PcInv
<1>2. ChipType' /\ KeyboardType'
  BY TypeParts DEF UsbInv, RetryRead, ChipType, KeyboardType
<1>3. PcInv' /\ QuietInv'
  BY TypeParts DEF UsbInv, RetryRead, ProgType, PcInv, QuietInv
<1>4. ListInv' /\ FreshInv'
  BY TypeParts DEF UsbInv, RetryRead, ProgType, MemoryType, ChipType, PcInv, QuietInv, ListInv, FreshInv, DoneInv
<1>5. AckInv' /\ DoneInv' /\ KeyInv'
  BY TypeParts DEF UsbInv, RetryRead, ProgType, MemoryType, ChipType, PcInv, QuietInv, ListInv, FreshInv, AckInv, DoneInv, KeyInv
<1> QED
  BY <1>1, <1>2, <1>3, <1>4, <1>5, TypePartsNext DEF ProgramInv

LEMMA RetryClearKeeps == ASSUME UsbInv, RetryClear PROVE TypeOK' /\ ProgramInv'
<1>1. ProgType' /\ MemoryType'
  BY TypeParts DEF UsbInv, RetryClear, ProgType, MemoryType, PcInv
<1>2. ChipType' /\ KeyboardType'
  BY TypeParts DEF UsbInv, RetryClear, ChipType, KeyboardType
<1>3. PcInv' /\ QuietInv'
  BY TypeParts DEF UsbInv, RetryClear, ProgType, PcInv, QuietInv
<1>4. ListInv' /\ FreshInv'
  BY TypeParts DEF UsbInv, RetryClear, ProgType, MemoryType, ChipType, PcInv, QuietInv, ListInv, FreshInv, DoneInv
<1>5. AckInv' /\ DoneInv' /\ KeyInv'
  BY TypeParts DEF UsbInv, RetryClear, ProgType, MemoryType, ChipType, PcInv, QuietInv, ListInv, FreshInv, AckInv, DoneInv, KeyInv
<1> QED
  BY <1>1, <1>2, <1>3, <1>4, <1>5, TypePartsNext DEF ProgramInv

LEMMA RetryFlagKeeps == ASSUME UsbInv, RetryFlag PROVE TypeOK' /\ ProgramInv'
<1>1. ProgType' /\ MemoryType'
  BY TypeParts DEF UsbInv, RetryFlag, ProgType, MemoryType, PcInv
<1>2. ChipType' /\ KeyboardType'
  BY TypeParts DEF UsbInv, RetryFlag, ChipType, KeyboardType
<1>3. PcInv' /\ QuietInv'
  BY TypeParts DEF UsbInv, RetryFlag, ProgType, PcInv, QuietInv
<1>4. ListInv' /\ FreshInv'
  BY TypeParts DEF UsbInv, RetryFlag, ProgType, MemoryType, ChipType, PcInv, QuietInv, ListInv, FreshInv, DoneInv
<1>5. AckInv' /\ DoneInv' /\ KeyInv'
  BY TypeParts DEF UsbInv, RetryFlag, ProgType, MemoryType, ChipType, PcInv, QuietInv, ListInv, FreshInv, AckInv, DoneInv, KeyInv
<1> QED
  BY <1>1, <1>2, <1>3, <1>4, <1>5, TypePartsNext DEF ProgramInv

LEMMA RetryCtlKeeps == ASSUME UsbInv, RetryCtl PROVE TypeOK' /\ ProgramInv'
<1>1. ProgType' /\ MemoryType'
  BY TypeParts DEF UsbInv, RetryCtl, ProgType, MemoryType, PcInv, NextStep
<1>2. ChipType' /\ KeyboardType'
  BY TypeParts DEF UsbInv, RetryCtl, ChipType, KeyboardType
<1>3. PcInv' /\ QuietInv'
  BY TypeParts DEF UsbInv, RetryCtl, ProgType, PcInv, QuietInv, NextStep
<1>4. ListInv' /\ FreshInv'
  BY TypeParts DEF UsbInv, RetryCtl, ProgType, MemoryType, ChipType, PcInv, QuietInv, ListInv, FreshInv, DoneInv, NextStep
<1>5. AckInv' /\ DoneInv' /\ KeyInv'
  BY TypeParts DEF UsbInv, RetryCtl, ProgType, MemoryType, ChipType, PcInv, QuietInv, ListInv, FreshInv, AckInv, DoneInv, KeyInv, NextStep
<1> QED
  BY <1>1, <1>2, <1>3, <1>4, <1>5, TypePartsNext DEF ProgramInv

LEMMA SubmitEndpointKeeps == ASSUME UsbInv, SubmitEndpoint PROVE TypeOK' /\ ProgramInv'
<1>1. ProgType' /\ MemoryType'
  BY TypeParts DEF UsbInv, SubmitEndpoint, ProgType, MemoryType, PcInv
<1>2. ChipType' /\ KeyboardType'
  BY TypeParts DEF UsbInv, SubmitEndpoint, ChipType, KeyboardType
<1>3. PcInv' /\ QuietInv'
  BY TypeParts DEF UsbInv, SubmitEndpoint, ProgType, PcInv, QuietInv
<1>4. ListInv' /\ FreshInv'
  BY TypeParts DEF UsbInv, SubmitEndpoint, ProgType, MemoryType, ChipType, PcInv, QuietInv, ListInv, FreshInv, DoneInv
<1>5. AckInv' /\ DoneInv' /\ KeyInv'
  BY TypeParts DEF UsbInv, SubmitEndpoint, ProgType, MemoryType, ChipType, PcInv, QuietInv, ListInv, FreshInv, AckInv, DoneInv, KeyInv
<1> QED
  BY <1>1, <1>2, <1>3, <1>4, <1>5, TypePartsNext DEF ProgramInv

LEMMA ReadSizeKeeps == ASSUME UsbInv, ReadSize PROVE TypeOK' /\ ProgramInv'
<1>1. ProgType' /\ MemoryType'
  BY TypeParts DEF UsbInv, ReadSize, ProgType, MemoryType, PcInv
<1>2. ChipType' /\ KeyboardType'
  BY TypeParts DEF UsbInv, ReadSize, ChipType, KeyboardType
<1>3. PcInv' /\ QuietInv'
  BY TypeParts DEF UsbInv, ReadSize, ProgType, PcInv, QuietInv
<1>4. ListInv' /\ FreshInv'
  BY TypeParts DEF UsbInv, ReadSize, ProgType, MemoryType, ChipType, PcInv, QuietInv, ListInv, FreshInv, DoneInv
<1>5. AckInv' /\ DoneInv' /\ KeyInv'
  BY TypeParts DEF UsbInv, ReadSize, ProgType, MemoryType, ChipType, PcInv, QuietInv, ListInv, FreshInv, AckInv, DoneInv, KeyInv
<1> QED
  BY <1>1, <1>2, <1>3, <1>4, <1>5, TypePartsNext DEF ProgramInv

LEMMA ExportKeeps == ASSUME UsbInv, Export PROVE TypeOK' /\ ProgramInv'
<1>1. ProgType' /\ MemoryType'
  BY TypeParts DEF UsbInv, Export, ProgType, MemoryType, PcInv
<1>2. ChipType' /\ KeyboardType'
  BY TypeParts DEF UsbInv, Export, ChipType, KeyboardType
<1>3. PcInv' /\ QuietInv'
  BY TypeParts DEF UsbInv, Export, ProgType, PcInv, QuietInv
<1>4. ListInv' /\ FreshInv'
  BY TypeParts DEF UsbInv, Export, ProgType, MemoryType, ChipType, PcInv, QuietInv, ListInv, FreshInv, DoneInv
<1>5. AckInv' /\ DoneInv' /\ KeyInv'
  BY TypeParts DEF UsbInv, Export, ProgType, MemoryType, ChipType, PcInv, QuietInv, ListInv, FreshInv, AckInv, DoneInv, KeyInv
<1> QED
  BY <1>1, <1>2, <1>3, <1>4, <1>5, TypePartsNext DEF ProgramInv

LEMMA PlugCheckKeeps == ASSUME UsbInv, PlugCheck PROVE TypeOK' /\ ProgramInv'
<1>1. ProgType' /\ MemoryType'
  BY TypeParts DEF UsbInv, PlugCheck, ProgType, MemoryType, PcInv
<1>2. ChipType' /\ KeyboardType'
  BY TypeParts DEF UsbInv, PlugCheck, ChipType, KeyboardType
<1>3. PcInv' /\ QuietInv'
  BY TypeParts DEF UsbInv, PlugCheck, ProgType, PcInv, QuietInv
<1>4. ListInv' /\ FreshInv'
  BY TypeParts DEF UsbInv, PlugCheck, ProgType, MemoryType, ChipType, PcInv, QuietInv, ListInv, FreshInv, DoneInv
<1>5. AckInv' /\ DoneInv' /\ KeyInv'
  BY TypeParts DEF UsbInv, PlugCheck, ProgType, MemoryType, ChipType, PcInv, QuietInv, ListInv, FreshInv, AckInv, DoneInv, KeyInv
<1> QED
  BY <1>1, <1>2, <1>3, <1>4, <1>5, TypePartsNext DEF ProgramInv

-----------------------------------------------------------------------------
(* The chip goes on to another descriptor, or ends the list and says so,   *)
(* or drops it for one that was submitted meanwhile.                       *)
Moved ==
  /\ UNCHANGED <<env, prog, head, tail, req>> /\ at # 0
  /\ \/ at' \in Later /\ td' = "none" /\ UNCHANGED <<msg, flag>>
     \/ at' = 0 /\ td' = "none" /\ msg' = "done" /\ flag' = TRUE
     \/ at' = 0 /\ td # "none" /\ UNCHANGED <<td, msg, flag>>

LEMMA Followed ==
  ASSUME UsbInv, NEW next \in Later \cup {0}, Follow(next), at # 0,
         UNCHANGED <<env, prog, head, tail, req>>
  PROVE  Moved
  BY LaterAddresses DEF Follow, Message, NoMessage, Moved

LEMMA MovedType == ASSUME UsbInv, Moved PROVE ProgType' /\ ChipType'
<1>1. at' \in Addresses \cup {0}
  BY LaterAddresses DEF Moved
<1>2. flag' \in BOOLEAN
  BY TypeParts, Zenon DEF UsbInv, ChipType, Moved
<1> QED
  BY <1>1, <1>2, TypeParts DEF UsbInv, Moved, ProgType, ChipType

(* Going on, dropping and ending a list keep the invariant.                *)
LEMMA MovedKeeps ==
  ASSUME UsbInv, Moved, UNCHANGED <<ctl, acked, w51e, sent>>
  PROVE  ProgramInv'
<1>1. PcInv' /\ QuietInv'
  BY DEF UsbInv, Moved, PcInv, QuietInv
<1>2. ListInv' /\ FreshInv'
  BY LaterAddresses DEF UsbInv, Moved, ListInv, FreshInv
<1>3. AckInv' /\ KeyInv'
  BY DEF UsbInv, Moved, AckInv, KeyInv
<1>4. DoneInv'
  BY LaterAddresses, TypeParts DEF UsbInv, Moved, DoneInv, ListInv, ProgType, ChipType
<1> QED
  BY <1>1, <1>2, <1>3, <1>4 DEF ProgramInv

LEMMA TakeUpKeeps == ASSUME UsbInv, TakeUp PROVE TypeOK' /\ ProgramInv'
<1>1. ProgType' /\ MemoryType' /\ KeyboardType'
  BY TypeParts DEF UsbInv, TakeUp, ProgType, MemoryType, KeyboardType
<1>2. ChipType'
  <2>1. flag \in BOOLEAN /\ (flag' = flag \/ flag' = TRUE)
    BY TypeParts DEF UsbInv, ChipType, TakeUp, Message, NoMessage
  <2>2. flag' \in BOOLEAN
    BY <2>1, Zenon
  <2> QED
    BY <2>2, TypeParts, LaterAddresses DEF UsbInv, TakeUp, ChipType, MemoryType, Message, NoMessage
<1>3. PcInv' /\ QuietInv'
  BY DEF UsbInv, TakeUp, PcInv, QuietInv
<1>4. ListInv'
  BY TypeParts, LaterAddresses DEF UsbInv, TakeUp, ListInv, Message, NoMessage, ProgType, MemoryType
<1>5. FreshInv'
  BY TypeParts, LaterAddresses DEF UsbInv, TakeUp, FreshInv, Message, NoMessage
<1>6. AckInv' /\ KeyInv'
  BY DEF UsbInv, TakeUp, AckInv, KeyInv
<1>7. DoneInv'
  BY TypeParts, LaterAddresses DEF UsbInv, TakeUp, DoneInv, Message, NoMessage, ProgType, ChipType
<1> QED
  BY <1>1, <1>2, <1>3, <1>4, <1>5, <1>6, <1>7, TypePartsNext DEF ProgramInv

(* A keyboard acknowledges the request of the step the program is at; the  *)
(* control word says so only then.                                         *)
LEMMA SetupDoneKeeps == ASSUME UsbInv, SetupDone PROVE TypeOK' /\ ProgramInv'
<1>1. /\ at = First /\ req # Poll /\ UNCHANGED <<env, prog, head, tail, w51e, w57c, req>>
      /\ UNCHANGED <<present, mode, ktoggle, odd, sent>>
  BY DEF SetupDone
<1>2. OnTheList
  BY <1>1 DEF OnTheList
<1>3. Moved
  BY <1>1, <1>2, NextHere, LaterAddresses, Followed DEF SetupDone, Failed
<1>4. \/ acked' = req /\ packets' = 0 /\ ctl' \in {"ok", "other"}
      \/ acked' = acked /\ packets' = packets /\ ctl' = "other"
  BY DEF SetupDone
<1>5. step = req /\ step <= 9 /\ step >= 1
  BY <1>1, TypeParts DEF UsbInv, ListInv, ProgType
<1>6. MemoryType' /\ KeyboardType'
  <2>1. MemoryType'
    BY <1>1, <1>4, TypeParts DEF UsbInv, MemoryType
  <2>2. acked' \in 0 .. 9 /\ packets' \in 0 .. 8
    BY <1>4, <1>5, TypeParts DEF UsbInv, KeyboardType, ProgType
  <2>3. KeyboardType'
    BY <1>1, <2>2, TypeParts DEF UsbInv, KeyboardType
  <2> QED
    BY <2>1, <2>3
<1>7. PcInv' /\ QuietInv' /\ KeyInv'
  BY <1>1, <1>3 DEF UsbInv, Moved, PcInv, QuietInv, KeyInv
<1>8. ListInv' /\ FreshInv'
  BY <1>1, <1>3, <1>4, <1>5, LaterAddresses DEF UsbInv, Moved, ListInv, FreshInv
<1>9. AckInv'
  BY <1>1, <1>3, <1>4, <1>5 DEF UsbInv, Moved, AckInv
<1>10. DoneInv'
  BY <1>1, <1>3, <1>5, TypeParts, LaterAddresses DEF UsbInv, Moved, DoneInv, ListInv, ProgType, ChipType
<1> QED
  BY <1>3, <1>6, <1>7, <1>8, <1>9, <1>10, MovedType, TypePartsNext DEF ProgramInv

LEMMA DataDoneKeeps == ASSUME UsbInv, DataDone PROVE TypeOK' /\ ProgramInv'
<1>1. /\ at > First /\ OnTheList /\ req # Poll
      /\ UNCHANGED <<env, prog, head, tail, ctl, w51e, req, present, mode, ktoggle, odd, acked, sent>>
  BY DEF DataDone
<1>2. Moved
  BY <1>1, NextHere, LaterAddresses, Followed DEF DataDone, Failed
<1>3. w57c' \in {0, 8, 19}
  BY TypeParts DEF DataDone, UsbInv, MemoryType
<1>4. packets' \in 0 .. 8
  <2>1. req \in 1 .. 9 /\ packets \in 0 .. 8
    BY <1>1, TypeParts DEF UsbInv, ListInv, ChipType, KeyboardType
  <2>2. Held(req) \in 0 .. 59 /\ Requested(req) \in Nat
    BY <2>1 DEF Held, Requested
  <2>3. Left > 0 => packets <= 7
    BY <2>1, <2>2 DEF Left, Lesser
  <2> QED
    BY <2>1, <2>3 DEF DataDone
<1>5. MemoryType' /\ KeyboardType'
  BY <1>1, <1>3, <1>4, TypeParts DEF UsbInv, MemoryType, KeyboardType
<1> QED
  BY <1>1, <1>2, <1>5, MovedType, MovedKeeps, TypePartsNext

LEMMA StatusDoneKeeps == ASSUME UsbInv, StatusDone PROVE TypeOK' /\ ProgramInv'
<1>1. /\ at > First /\ OnTheList
      /\ UNCHANGED <<env, prog, memory, req, present, packets, acked, sent>>
  BY DEF StatusDone
<1>2. Moved
  BY <1>1, NextHere, LaterAddresses, Followed DEF StatusDone, Failed
<1>3. odd' \in BOOLEAN
  <2>1. odd \in BOOLEAN /\ (odd' = odd \/ odd' = FALSE)
    BY TypeParts DEF StatusDone, UsbInv, KeyboardType
  <2> QED
    BY <2>1, Zenon
<1>4. mode' \in {"default", "addressed", "configured"} /\ ktoggle' \in 0 .. 1
  BY TypeParts DEF StatusDone, UsbInv, KeyboardType
<1>5. MemoryType' /\ KeyboardType'
  BY <1>1, <1>3, <1>4, TypeParts DEF UsbInv, MemoryType, KeyboardType
<1> QED
  BY <1>1, <1>2, <1>5, MovedType, MovedKeeps, TypePartsNext

LEMMA PassOverKeeps == ASSUME UsbInv, PassOver PROVE TypeOK' /\ ProgramInv'
<1>1. at > First /\ UNCHANGED <<env, prog, memory, req, keyboard>>
  BY DEF PassOver
<1>2. Moved
  BY <1>1, NextHere, LaterAddresses, Followed DEF PassOver
<1>3. MemoryType' /\ KeyboardType'
  BY <1>1, TypeParts DEF UsbInv, MemoryType, KeyboardType
<1> QED
  BY <1>1, <1>2, <1>3, MovedType, MovedKeeps, TypePartsNext

(* A poll changes what is at 0x051e only to what a keyboard sends.         *)
LEMMA PollDoneKeeps == ASSUME UsbInv, PollDone PROVE TypeOK' /\ ProgramInv'
<1>1. /\ at = First /\ req = Poll /\ ctl' = "other"
      /\ UNCHANGED <<env, prog, head, tail, w57c, req, present, mode, packets, acked>>
  BY DEF PollDone
<1>2. Moved
  BY <1>1, LaterAddresses, Followed DEF PollDone
<1>3. /\ w51e' \in Keys \cup {0, 32} /\ ktoggle' \in 0 .. 1 /\ sent' \subseteq Keys
      /\ w51e \in sent \cup {0, 32} => w51e' \in sent' \cup {0, 32}
  <2>1. CASE NoReport
    BY <2>1, TypeParts DEF NoReport, UsbInv, MemoryType, KeyboardType
  <2>2. CASE \E k \in Keys \cup {0} : Report(k)
    <3>1. PICK k \in Keys \cup {0} : Report(k)
      BY <2>2
    <3>2. sent' = sent \cup ({k} \ {0}) /\ w51e' \in {k, w51e}
      BY <3>1 DEF Report
    <3>3. ktoggle' \in 0 .. 1
      BY <3>1, TypeParts DEF Report, UsbInv, KeyboardType
    <3> QED
      BY <3>2, <3>3, TypeParts DEF UsbInv, MemoryType, KeyboardType
  <2> QED
    BY <2>1, <2>2 DEF PollDone
<1>4. odd' \in BOOLEAN
  BY TypeParts, Zenon DEF PollDone, NoReport, Report, UsbInv, KeyboardType
<1>5. MemoryType' /\ KeyboardType'
  BY <1>1, <1>3, <1>4, TypeParts DEF UsbInv, MemoryType, KeyboardType
<1>6. step = Poll
  BY <1>1 DEF UsbInv, ListInv
<1>7. PcInv' /\ QuietInv' /\ KeyInv'
  BY <1>1, <1>2, <1>3 DEF UsbInv, Moved, PcInv, QuietInv, KeyInv
<1>8. ListInv' /\ FreshInv'
  BY <1>1, <1>2, <1>6, LaterAddresses DEF UsbInv, Moved, ListInv, FreshInv
<1>9. AckInv' /\ DoneInv'
  BY <1>1, <1>2, <1>6, TypeParts, LaterAddresses DEF UsbInv, Moved, AckInv, DoneInv, ProgType, ChipType
<1> QED
  BY <1>2, <1>5, <1>7, <1>8, <1>9, MovedType, TypePartsNext DEF ProgramInv

LEMMA PlugChangeKeeps == ASSUME UsbInv, PlugChange PROVE TypeOK' /\ ProgramInv'
<1>1. flag' \in BOOLEAN /\ present' \in BOOLEAN
  BY TypeParts, Zenon DEF UsbInv, ChipType, PlugChange, Message, NoMessage
<1>2. ProgType' /\ MemoryType'
  BY TypeParts DEF UsbInv, PlugChange, ProgType, MemoryType
<1>3. ChipType' /\ KeyboardType'
  BY <1>1, TypeParts DEF UsbInv, PlugChange, ChipType, KeyboardType, Message, NoMessage
<1>4. PcInv' /\ QuietInv' /\ KeyInv'
  BY DEF UsbInv, PlugChange, PcInv, QuietInv, KeyInv, Message, NoMessage
<1>5. ListInv' /\ FreshInv' /\ AckInv'
  BY DEF UsbInv, PlugChange, ListInv, FreshInv, AckInv
<1>6. DoneInv'
  BY TypeParts DEF UsbInv, PlugChange, DoneInv, Message, NoMessage, ChipType
<1> QED
  BY <1>2, <1>3, <1>4, <1>5, <1>6, TypePartsNext DEF ProgramInv

-----------------------------------------------------------------------------
LEMMA UsbInvNext == UsbInv /\ [Next]_vars => UsbInv'
<1> SUFFICES ASSUME UsbInv, [Next]_vars PROVE TypeOK' /\ ProgramInv'
  BY DEF UsbInv, ProgramInv
<1>1. CASE Program
  BY <1>1, SoftResetKeeps, ToBusResetKeeps, ToDetectKeeps, DetectKeeps, WaitForDeviceKeeps, WriteHeadKeeps,
     WriteTailKeeps, SubmitKeeps, SleepKeeps, CheckFlagKeeps, ReadMsgKeeps, ClearMsgKeeps, ReadCtlKeeps,
     RetryReadKeeps, RetryClearKeeps, RetryFlagKeeps, RetryCtlKeeps, SubmitEndpointKeeps, ReadSizeKeeps,
     ExportKeeps, PlugCheckKeeps, Zenon
     DEF Program
<1>2. CASE Chip
  BY <1>2, TakeUpKeeps, SetupDoneKeeps, DataDoneKeeps, StatusDoneKeeps, PassOverKeeps, PollDoneKeeps, Zenon
     DEF Chip
<1>3. CASE PlugChange
  BY <1>3, PlugChangeKeeps
<1>4. CASE UNCHANGED vars
  <2>1. TypeOK'
    BY <1>4 DEF UsbInv, TypeOK
  <2> QED
    BY <1>4, <2>1 DEF UsbInv, ProgramInv, PcInv, QuietInv, ListInv, FreshInv, AckInv, DoneInv, KeyInv
<1> QED
  BY <1>1, <1>2, <1>3, <1>4 DEF Next

(* The invariant of program and chip: what is submitted, under way, done   *)
(* and acknowledged at each point of the program.                          *)
THEOREM UsbInvariant == Spec => []UsbInv
  BY UsbInvInit, UsbInvNext, PTL DEF Spec

(* Every variable keeps its type; the chip is never led to an address that *)
(* is no descriptor's.                                                     *)
THEOREM UsbTypeCorrect == Spec => []TypeOK
<1>1. UsbInv => TypeOK
  BY DEF UsbInv
<1> QED
  BY <1>1, UsbInvariant, PTL

(* The program is never past a request that no keyboard acknowledged,      *)
(* whatever fails, comes late or is written twice.                         *)
THEOREM NoStepSkipped == Spec => []StepsAcknowledged
<1>1. UsbInv => StepsAcknowledged
  <2> SUFFICES ASSUME UsbInv, Enumerating PROVE acked >= step - 1
    BY DEF StepsAcknowledged
  <2>1. step \in 1 .. 10
    BY TypeParts DEF UsbInv, ProgType
  <2> QED
    BY <2>1 DEF UsbInv, AckInv
<1> QED
  BY <1>1, UsbInvariant, PTL

(* No key of the game is exported that no keyboard has sent.               *)
THEOREM OnlySentKeys == Spec => []NoPhantomGameKey
<1>1. UsbInv => NoPhantomGameKey
  BY DEF UsbInv, PcInv, KeyInv, NoPhantomGameKey, GameKeys, Avatar_1Keys, Avatar_2Keys
<1> QED
  BY <1>1, UsbInvariant, PTL

(* A keyboard sees the requests in order, none left out, some repeated.    *)
THEOREM RequestsKeepOrder == Spec => RequestsInOrder
<1>1. UsbInv /\ [Next]_vars => [acked' \in {0, acked, acked + 1}]_vars
  <2> SUFFICES ASSUME UsbInv, [Next]_vars PROVE acked' \in {0, acked, acked + 1}
    OBVIOUS
  <2>1. CASE SetupDone
    <3>1. acked' = acked \/ (acked' = req /\ at = First /\ req # Poll)
      BY <2>1 DEF SetupDone
    <3> QED
      BY <3>1, TypeParts DEF UsbInv, ListInv, AckInv, ProgType, KeyboardType
  <2>2. CASE SoftReset
    BY <2>2 DEF SoftReset
  <2>3. CASE ~SetupDone /\ ~SoftReset
    BY <2>3 DEF Next, Program, Chip, Command, Detect, WaitForDevice, WriteHead, WriteTail, Submit, Sleep,
       CheckFlag, ReadMsg, ClearMsg, ReadCtl, RetryRead, RetryClear, RetryFlag, RetryCtl, SubmitEndpoint,
       ReadSize, Export, PlugCheck, TakeUp, DataDone, StatusDone, PassOver, PollDone, PlugChange
  <2> QED
    BY <2>1, <2>2, <2>3
<1> QED
  BY <1>1, UsbInvariant, PTL DEF Spec, RequestsInOrder

-----------------------------------------------------------------------------
(* When nothing fails *)

(***************************************************************************)
(* Where nothing fails and the chip leaves lists alone while they are      *)
(* written, program, chip and keyboard move in step.  The list of a step   *)
(* waits, is worked on while the program sleeps, or has been answered.     *)
(***************************************************************************)
Answered == flag \/ pc \in {"clearMsg", "readCtl"}

(* Whose turn it is: the chip has work only while the program sleeps, or   *)
(* will when it does.                                                      *)
TurnInv ==
  /\ present /\ pc \notin Retrying \cup {"noDevice", "removed"}
  /\ at # 0 => pc = "sleep" /\ td = "none" /\ ~flag
  /\ flag => pc \in {"sleep", "check", "readMsg"} /\ td = "none" /\ msg = "done"
  /\ pc \in {"softReset", "readMsg", "clearMsg", "readCtl", "export", "plugCheck"} \cup Quiet => td = "none"
  /\ pc = "sleep" => td = "list" \/ at # 0 \/ flag
  /\ pc = "check" => td = "list" \/ flag
  /\ pc = "readMsg" => flag
  /\ pc = "clearMsg" => got = "done"
  /\ ~Enumerating => step = 1

(* What is asked for, and how far the chip and the keyboard are with it.   *)
WorkInv ==
  /\ pc \in {"tail", "submit"} \/ (pc \in {"check", "sleep"} /\ td = "list") => ctl = "fresh"
  /\ at > First => /\ step <= 9 /\ req = step /\ tail = step /\ ctl = "ok"
                   /\ packets + 1 \in 1 .. Len(ListBehind(step)) /\ at = AddressBehind(packets + 1)
  /\ Answered /\ step <= 9 => ctl = "ok"

(* How far the keyboard is when the program is at a step. *)
ModeAt(s) == IF s = SetAddress THEN "default" ELSE IF s <= SetConfig THEN "addressed" ELSE "configured"

ModeInv ==
  /\ ~Enumerating => mode = "default"
  /\ Enumerating => mode = ModeAt(IF Answered THEN step + 1 ELSE step)

SizeInv ==
  /\ pc = "size" => w57c = 8
  /\ Enumerating /\ step >= SetConfig /\ pc \notin {"endpoint", "size"} => data_size = 8

(* The program's toggle is the keyboard's before a poll is written and     *)
(* after it is answered, but for the unanswered ones.                      *)
Agree == toggle = ktoggle <=> ~odd
Polled == Answered \/ pc \in {"export", "plugCheck"} \/ (pc = "head" /\ ~again)

ToggleInv ==
  /\ Enumerating /\ step = Poll => (Polled <=> Agree)
  /\ ~Enumerating \/ step # Poll => toggle = 0
  /\ Enumerating /\ step \in {ClassRequest, GetHidDesc, GetReportDesc} => ktoggle = 0 /\ ~odd
  /\ Enumerating /\ step = SetConfig /\ Answered => ktoggle = 0 /\ ~odd

(* All of it. *)
InStep == TurnInv /\ WorkInv /\ ModeInv /\ SizeInv /\ ToggleInv
CalmInv == Calm => InStep

HIDE UsbAssumption

(***************************************************************************)
(* How far the program has got with the nine steps, or with a poll: it     *)
(* writes and submits a list and submits it once more, sleeps while the    *)
(* chip goes from descriptor to descriptor, and reads the answer.          *)
(***************************************************************************)
Place ==
  CASE pc = "softReset" -> 0 [] pc \in {"sieInit", "endpoint", "plugCheck"} -> 1
    [] pc \in {"busReset", "size"} -> 2 [] pc = "detect" -> 3
    [] pc = "head" -> IF again THEN 8 ELSE 4
    [] pc = "tail" -> IF again THEN 9 ELSE 5
    [] pc = "submit" -> IF again THEN 10 ELSE 6
    [] pc = "sleep" -> IF flag THEN 22 ELSE IF at = 0 THEN 11 ELSE IF at = First THEN 12 ELSE 13 + packets
    [] pc = "check" -> IF flag THEN 23 ELSE 7
    [] pc = "readMsg" -> 24 [] pc = "clearMsg" -> 25 [] pc = "readCtl" -> 26 [] pc = "export" -> 27
    [] OTHER -> 0
Way == 30 * step + Place

-----------------------------------------------------------------------------
(* The lists *)

(***************************************************************************)
(* What a list of descriptors has to be like for the keyboard to follow    *)
(* it: of n descriptors behind the first the k-th brings the k-th packet   *)
(* of what is expected, as DATA1 and DATA0 in turn, to an address behind   *)
(* the whole list, and leads to the next; the last confirms.               *)
(***************************************************************************)
Expected(s) == Lesser(Requested(s), Held(s))

BringsPacket(s, k, n, t) ==
  /\ t.device = (IF s = SetAddress THEN 0 ELSE 2)
  /\ t.len \in Nat /\ t.len > 0 /\ t.buf \in Nat /\ t.buf >= AddressBehind(n + 1)
  /\ t.data = k % 2 /\ t.next = AddressBehind(k + 1)
  /\ Expected(s) > 8 * (k - 1) /\ Lesser(8, Expected(s) - 8 * (k - 1)) <= t.len
Confirms(s, t) ==
  /\ t.device = (IF s = SetAddress THEN 0 ELSE 2)
  /\ t.len = 0 /\ t.data = 1 /\ t.next = 0
  /\ t.pid = "IN" <=> Requested(s) = 0

WellMadeAs(s, n) ==
  /\ Len(ListBehind(s)) = n /\ n \in 1 .. 9
  /\ \A k \in 1 .. 8 : k < n => BringsPacket(s, k, n, ListBehind(s)[k])
  /\ Confirms(s, ListBehind(s)[n])

(* All nine lists of usb.c are. *)
LEMMA ListsWellMade == \A s \in Steps : \E n \in 1 .. 9 : WellMadeAs(s, n)
<1>1. WellMadeAs(1, 1)
  <2>1. ListBehind(1) = << StatusIn(0) >>
    BY DEF ListBehind
  <2>2. Len(ListBehind(1)) = 1
    BY <2>1
  <2>3. Expected(1) = 0 /\ Requested(1) = 0
    BY DEF Expected, Requested, Held, Lesser
  <2>4. Confirms(1, ListBehind(1)[1])
    BY <2>1, <2>3 DEF Confirms, StatusIn, Td
  <2> QED
    BY <2>2, <2>4 DEF WellMadeAs
<1>2. WellMadeAs(2, 2)
  <2>1. ListBehind(2) = << In(\h052C, 8, 1, \h0520), StatusOut >>
    BY DEF ListBehind
  <2>2. Len(ListBehind(2)) = 2
    BY <2>1
  <2>3. Expected(2) = 8 /\ Requested(2) = 8
    BY DEF Expected, Requested, Held, Lesser
  <2>4. BringsPacket(2, 1, 2, ListBehind(2)[1])
    BY <2>1, <2>3 DEF BringsPacket, In, Td, AddressBehind, Lesser
  <2>5. Confirms(2, ListBehind(2)[2])
    BY <2>1, <2>3 DEF Confirms, StatusOut, Td
  <2> QED
    BY <2>2, <2>4, <2>5 DEF WellMadeAs
<1>3. WellMadeAs(3, 4)
  <2>1. ListBehind(3) = << In(\h0544, 8, 1, \h0520), In(\h054C, 8, 0, \h052C),
                           In(\h0554, 2, 1, \h0538), StatusOut >>
    BY DEF ListBehind
  <2>2. Len(ListBehind(3)) = 4
    BY <2>1
  <2>3. Expected(3) = 18 /\ Requested(3) = 18
    BY DEF Expected, Requested, Held, Lesser
  <2>4. BringsPacket(3, 1, 4, ListBehind(3)[1])
    BY <2>1, <2>3 DEF BringsPacket, In, Td, AddressBehind, Lesser
  <2>5. BringsPacket(3, 2, 4, ListBehind(3)[2])
    BY <2>1, <2>3 DEF BringsPacket, In, Td, AddressBehind, Lesser
  <2>6. BringsPacket(3, 3, 4, ListBehind(3)[3])
    BY <2>1, <2>3 DEF BringsPacket, In, Td, AddressBehind, Lesser
  <2>7. Confirms(3, ListBehind(3)[4])
    BY <2>1, <2>3 DEF Confirms, StatusOut, Td
  <2> QED
    BY <2>2, <2>4, <2>5, <2>6, <2>7 DEF WellMadeAs
<1>4. WellMadeAs(4, 3)
  <2>1. ListBehind(4) = << In(\h0544, 8, 1, \h0520), In(\h054C, 1, 0, \h052C), StatusOut >>
    BY DEF ListBehind
  <2>2. Len(ListBehind(4)) = 3
    BY <2>1
  <2>3. Expected(4) = 9 /\ Requested(4) = 9
    BY DEF Expected, Requested, Held, Lesser
  <2>4. BringsPacket(4, 1, 3, ListBehind(4)[1])
    BY <2>1, <2>3 DEF BringsPacket, In, Td, AddressBehind, Lesser
  <2>5. BringsPacket(4, 2, 3, ListBehind(4)[2])
    BY <2>1, <2>3 DEF BringsPacket, In, Td, AddressBehind, Lesser
  <2>6. Confirms(4, ListBehind(4)[3])
    BY <2>1, <2>3 DEF Confirms, StatusOut, Td
  <2> QED
    BY <2>2, <2>4, <2>5, <2>6 DEF WellMadeAs
<1>5. WellMadeAs(5, 6)
  <2>1. ListBehind(5) = << In(\h055C, 8, 1, \h0520), In(\h0564, 8, 0, \h052C),
                           In(\h056C, 8, 1, \h0538), In(\h0574, 8, 0, \h0544),
                           In(\h057C, 2, 1, \h0550), StatusOut >>
    BY DEF ListBehind
  <2>2. Len(ListBehind(5)) = 6
    BY <2>1
  <2>3. Expected(5) = 34 /\ Requested(5) = 255
    BY DEF Expected, Requested, Held, Lesser
  <2>4. BringsPacket(5, 1, 6, ListBehind(5)[1])
    BY <2>1, <2>3 DEF BringsPacket, In, Td, AddressBehind, Lesser
  <2>5. BringsPacket(5, 2, 6, ListBehind(5)[2])
    BY <2>1, <2>3 DEF BringsPacket, In, Td, AddressBehind, Lesser
  <2>6. BringsPacket(5, 3, 6, ListBehind(5)[3])
    BY <2>1, <2>3 DEF BringsPacket, In, Td, AddressBehind, Lesser
  <2>7. BringsPacket(5, 4, 6, ListBehind(5)[4])
    BY <2>1, <2>3 DEF BringsPacket, In, Td, AddressBehind, Lesser
  <2>8. BringsPacket(5, 5, 6, ListBehind(5)[5])
    BY <2>1, <2>3 DEF BringsPacket, In, Td, AddressBehind, Lesser
  <2>9. Confirms(5, ListBehind(5)[6])
    BY <2>1, <2>3 DEF Confirms, StatusOut, Td
  <2> QED
    BY <2>2, <2>4, <2>5, <2>6, <2>7, <2>8, <2>9 DEF WellMadeAs
<1>6. WellMadeAs(6, 1)
  <2>1. ListBehind(6) = << StatusIn(2) >>
    BY DEF ListBehind
  <2>2. Len(ListBehind(6)) = 1
    BY <2>1
  <2>3. Expected(6) = 0 /\ Requested(6) = 0
    BY DEF Expected, Requested, Held, Lesser
  <2>4. Confirms(6, ListBehind(6)[1])
    BY <2>1, <2>3 DEF Confirms, StatusIn, Td
  <2> QED
    BY <2>2, <2>4 DEF WellMadeAs
<1>7. WellMadeAs(7, 1)
  <2>1. ListBehind(7) = << StatusIn(2) >>
    BY DEF ListBehind
  <2>2. Len(ListBehind(7)) = 1
    BY <2>1
  <2>3. Expected(7) = 0 /\ Requested(7) = 0
    BY DEF Expected, Requested, Held, Lesser
  <2>4. Confirms(7, ListBehind(7)[1])
    BY <2>1, <2>3 DEF Confirms, StatusIn, Td
  <2> QED
    BY <2>2, <2>4 DEF WellMadeAs
<1>8. WellMadeAs(8, 2)
  <2>1. ListBehind(8) = << In(\h0544, 8, 1, \h0520), StatusOut >>
    BY DEF ListBehind
  <2>2. Len(ListBehind(8)) = 2
    BY <2>1
  <2>3. Expected(8) = 9 /\ Requested(8) = 123
    BY DEF Expected, Requested, Held, Lesser
  <2>4. BringsPacket(8, 1, 2, ListBehind(8)[1])
    BY <2>1, <2>3 DEF BringsPacket, In, Td, AddressBehind, Lesser
  <2>5. Confirms(8, ListBehind(8)[2])
    BY <2>1, <2>3 DEF Confirms, StatusOut, Td
  <2> QED
    BY <2>2, <2>4, <2>5 DEF WellMadeAs
<1>9. WellMadeAs(9, 9)
  <2>1. ListBehind(9) = << In(\h0580, 8, 1, \h0520), In(\h0588, 8, 0, \h052C),
                           In(\h0590, 8, 1, \h0538), In(\h0598, 8, 0, \h0544),
                           In(\h05A0, 8, 1, \h0550), In(\h05A8, 8, 0, \h055C),
                           In(\h05B0, 8, 1, \h0568), In(\h05B8, 3, 0, \h0574), StatusOut >>
    BY DEF ListBehind
  <2>2. Len(ListBehind(9)) = 9
    BY <2>1
  <2>3. Expected(9) = 59 /\ Requested(9) = 123
    BY DEF Expected, Requested, Held, Lesser
  <2>4. BringsPacket(9, 1, 9, ListBehind(9)[1])
    BY <2>1, <2>3 DEF BringsPacket, In, Td, AddressBehind, Lesser
  <2>5. BringsPacket(9, 2, 9, ListBehind(9)[2])
    BY <2>1, <2>3 DEF BringsPacket, In, Td, AddressBehind, Lesser
  <2>6. BringsPacket(9, 3, 9, ListBehind(9)[3])
    BY <2>1, <2>3 DEF BringsPacket, In, Td, AddressBehind, Lesser
  <2>7. BringsPacket(9, 4, 9, ListBehind(9)[4])
    BY <2>1, <2>3 DEF BringsPacket, In, Td, AddressBehind, Lesser
  <2>8. BringsPacket(9, 5, 9, ListBehind(9)[5])
    BY <2>1, <2>3 DEF BringsPacket, In, Td, AddressBehind, Lesser
  <2>9. BringsPacket(9, 6, 9, ListBehind(9)[6])
    BY <2>1, <2>3 DEF BringsPacket, In, Td, AddressBehind, Lesser
  <2>10. BringsPacket(9, 7, 9, ListBehind(9)[7])
    BY <2>1, <2>3 DEF BringsPacket, In, Td, AddressBehind, Lesser
  <2>11. BringsPacket(9, 8, 9, ListBehind(9)[8])
    BY <2>1, <2>3 DEF BringsPacket, In, Td, AddressBehind, Lesser
  <2>12. Confirms(9, ListBehind(9)[9])
    BY <2>1, <2>3 DEF Confirms, StatusOut, Td
  <2> QED
    BY <2>2, <2>4, <2>5, <2>6, <2>7, <2>8, <2>9, <2>10, <2>11, <2>12 DEF WellMadeAs
<1> QED
  BY <1>1, <1>2, <1>3, <1>4, <1>5, <1>6, <1>7, <1>8, <1>9

-----------------------------------------------------------------------------
(* The program where nothing fails *)

LEMMA SoftResetCalm == ASSUME UsbInv, Calm, InStep, SoftReset PROVE InStep'
<1>1. TurnInv'
  BY DEF InStep, TurnInv, SoftReset
<1>2. WorkInv'
  BY DEF WorkInv, Answered, SoftReset
<1>3. ModeInv'
  BY DEF ModeInv, SoftReset
<1>4. SizeInv'
  BY DEF SizeInv, SoftReset
<1>5. ToggleInv'
  BY DEF InStep, ToggleInv, SoftReset
<1> QED
  BY <1>1, <1>2, <1>3, <1>4, <1>5 DEF InStep

LEMMA ToBusResetCalm == ASSUME UsbInv, Calm, InStep, Command("sieInit", "busReset") PROVE InStep'
<1>1. TurnInv'
  BY DEF InStep, TurnInv, Command
<1>2. WorkInv'
  BY DEF InStep, WorkInv, Answered, Command
<1>3. ModeInv'
  BY DEF InStep, ModeInv, Command
<1>4. SizeInv'
  BY DEF SizeInv, Command
<1>5. ToggleInv'
  BY DEF InStep, ToggleInv, Command
<1> QED
  BY <1>1, <1>2, <1>3, <1>4, <1>5 DEF InStep

LEMMA ToDetectCalm == ASSUME UsbInv, Calm, InStep, Command("busReset", "detect") PROVE InStep'
<1>1. TurnInv'
  BY DEF InStep, TurnInv, Command
<1>2. WorkInv'
  BY DEF InStep, WorkInv, Answered, Command
<1>3. ModeInv'
  BY DEF InStep, ModeInv, Command
<1>4. SizeInv'
  BY DEF SizeInv, Command
<1>5. ToggleInv'
  BY DEF InStep, ToggleInv, Command
<1> QED
  BY <1>1, <1>2, <1>3, <1>4, <1>5 DEF InStep

LEMMA DetectCalm == ASSUME UsbInv, Calm, InStep, Detect PROVE InStep'
<1>1. TurnInv'
  BY DEF InStep, TurnInv, Detect
<1>2. WorkInv'
  BY DEF InStep, TurnInv, WorkInv, Answered, Detect
<1>3. ModeInv'
  BY DEF InStep, TurnInv, ModeInv, ModeAt, Answered, Detect
<1>4. SizeInv'
  BY DEF SizeInv, Detect
<1>5. ToggleInv'
  BY DEF InStep, ToggleInv, Detect
<1> QED
  BY <1>1, <1>2, <1>3, <1>4, <1>5 DEF InStep

LEMMA WriteHeadCalm == ASSUME UsbInv, Calm, InStep, WriteHead PROVE InStep'
<1>1. TurnInv'
  BY DEF InStep, TurnInv, WriteHead
<1>2. WorkInv'
  BY DEF InStep, TurnInv, WorkInv, Answered, WriteHead
<1>3. ModeInv'
  BY DEF InStep, ModeInv, Answered, WriteHead
<1>4. SizeInv'
  BY DEF InStep, SizeInv, WriteHead
<1>5. ToggleInv'
  BY TypeParts DEF UsbInv, ProgType, KeyboardType, InStep, TurnInv, ToggleInv, Agree, Polled, Answered, WriteHead
<1> QED
  BY <1>1, <1>2, <1>3, <1>4, <1>5 DEF InStep

LEMMA WriteTailCalm == ASSUME UsbInv, Calm, InStep, WriteTail PROVE InStep'
<1>1. TurnInv'
  BY DEF InStep, TurnInv, WriteTail
<1>2. WorkInv'
  BY DEF InStep, WorkInv, Answered, WriteTail
<1>3. ModeInv'
  BY DEF InStep, ModeInv, Answered, WriteTail
<1>4. SizeInv'
  BY DEF InStep, SizeInv, WriteTail
<1>5. ToggleInv'
  BY DEF InStep, ToggleInv, Agree, Polled, Answered, WriteTail
<1> QED
  BY <1>1, <1>2, <1>3, <1>4, <1>5 DEF InStep

LEMMA SubmitCalm == ASSUME UsbInv, Calm, InStep, Submit PROVE InStep'
<1>1. TurnInv'
  BY DEF InStep, TurnInv, Submit
<1>2. WorkInv'
  BY DEF InStep, WorkInv, Answered, Submit
<1>3. ModeInv'
  BY DEF InStep, ModeInv, Answered, Submit
<1>4. SizeInv'
  BY DEF InStep, SizeInv, Submit
<1>5. ToggleInv'
  BY DEF InStep, ToggleInv, Agree, Polled, Answered, Submit
<1> QED
  BY <1>1, <1>2, <1>3, <1>4, <1>5 DEF InStep

LEMMA SleepCalm == ASSUME UsbInv, Calm, InStep, Sleep PROVE InStep'
<1>1. TurnInv'
  BY DEF Calm, InStep, TurnInv, Sleep
<1>2. WorkInv'
  BY DEF InStep, WorkInv, Answered, Sleep
<1>3. ModeInv'
  BY DEF InStep, ModeInv, Answered, Sleep
<1>4. SizeInv'
  BY DEF InStep, SizeInv, Sleep
<1>5. ToggleInv'
  BY DEF InStep, ToggleInv, Agree, Polled, Answered, Sleep
<1> QED
  BY <1>1, <1>2, <1>3, <1>4, <1>5 DEF InStep

LEMMA CheckFlagCalm == ASSUME UsbInv, Calm, InStep, CheckFlag PROVE InStep'
<1>1. TurnInv'
  BY DEF InStep, TurnInv, CheckFlag
<1>2. WorkInv'
  BY DEF InStep, WorkInv, Answered, CheckFlag
<1>3. ModeInv'
  BY DEF InStep, ModeInv, Answered, CheckFlag
<1>4. SizeInv'
  BY DEF InStep, SizeInv, CheckFlag
<1>5. ToggleInv'
  BY TypeParts DEF UsbInv, PcInv, ProgType, KeyboardType, Calm, InStep, TurnInv, ToggleInv, Agree, Polled, Answered, CheckFlag
<1> QED
  BY <1>1, <1>2, <1>3, <1>4, <1>5 DEF InStep

LEMMA ReadMsgCalm == ASSUME UsbInv, Calm, InStep, ReadMsg PROVE InStep'
<1>1. TurnInv'
  BY DEF InStep, TurnInv, ReadMsg
<1>2. WorkInv'
  BY DEF InStep, TurnInv, WorkInv, Answered, ReadMsg
<1>3. ModeInv'
  BY DEF InStep, TurnInv, ModeInv, Answered, ReadMsg
<1>4. SizeInv'
  BY DEF InStep, SizeInv, ReadMsg
<1>5. ToggleInv'
  BY DEF InStep, TurnInv, ToggleInv, Agree, Polled, Answered, ReadMsg
<1> QED
  BY <1>1, <1>2, <1>3, <1>4, <1>5 DEF InStep

LEMMA ClearMsgCalm == ASSUME UsbInv, Calm, InStep, ClearMsg PROVE InStep'
<1>1. TurnInv'
  BY DEF InStep, TurnInv, ClearMsg
<1>2. WorkInv'
  BY DEF InStep, WorkInv, Answered, ClearMsg
<1>3. ModeInv'
  BY DEF InStep, TurnInv, ModeInv, ModeAt, Answered, ClearMsg
<1>4. SizeInv'
  BY DEF InStep, SizeInv, ClearMsg
<1>5. ToggleInv'
  BY DEF InStep, TurnInv, ToggleInv, Agree, Polled, Answered, ClearMsg
<1> QED
  BY <1>1, <1>2, <1>3, <1>4, <1>5 DEF InStep

LEMMA ReadCtlCalm == ASSUME UsbInv, Calm, InStep, ReadCtl PROVE InStep'
<1>1. TurnInv'
  BY DEF UsbInv, PcInv, InStep, TurnInv, WorkInv, Answered, ReadCtl, NextStep
<1>2. WorkInv'
  BY DEF InStep, TurnInv, WorkInv, Answered, ReadCtl, NextStep
<1>3. ModeInv'
  BY DEF UsbInv, PcInv, InStep, TurnInv, WorkInv, ModeInv, Answered, ReadCtl, NextStep
<1>4. SizeInv'
  BY TypeParts DEF UsbInv, ProgType, InStep, SizeInv, ReadCtl, NextStep
<1>5. ToggleInv'
  BY TypeParts DEF UsbInv, PcInv, ProgType, InStep, TurnInv, ToggleInv, Agree, Polled, Answered, ReadCtl, NextStep
<1> QED
  BY <1>1, <1>2, <1>3, <1>4, <1>5 DEF InStep

LEMMA SubmitEndpointCalm == ASSUME UsbInv, Calm, InStep, SubmitEndpoint PROVE InStep'
<1>1. TurnInv'
  BY DEF InStep, TurnInv, SubmitEndpoint
<1>2. WorkInv'
  BY DEF InStep, WorkInv, Answered, SubmitEndpoint
<1>3. ModeInv'
  BY DEF InStep, ModeInv, Answered, SubmitEndpoint
<1>4. SizeInv'
  BY DEF SizeInv, SubmitEndpoint
<1>5. ToggleInv'
  BY DEF InStep, ToggleInv, Agree, Polled, Answered, SubmitEndpoint
<1> QED
  BY <1>1, <1>2, <1>3, <1>4, <1>5 DEF InStep

LEMMA ReadSizeCalm == ASSUME UsbInv, Calm, InStep, ReadSize PROVE InStep'
<1>1. TurnInv'
  BY DEF InStep, TurnInv, ReadSize
<1>2. WorkInv'
  BY DEF InStep, WorkInv, Answered, ReadSize
<1>3. ModeInv'
  BY DEF InStep, ModeInv, Answered, ReadSize
<1>4. SizeInv'
  BY DEF InStep, SizeInv, ReadSize
<1>5. ToggleInv'
  BY DEF UsbInv, PcInv, InStep, ToggleInv, Answered, ReadSize
<1> QED
  BY <1>1, <1>2, <1>3, <1>4, <1>5 DEF InStep

LEMMA ExportCalm == ASSUME UsbInv, Calm, InStep, Export PROVE InStep'
<1>1. TurnInv'
  BY DEF InStep, TurnInv, Export
<1>2. WorkInv'
  BY DEF InStep, WorkInv, Answered, Export
<1>3. ModeInv'
  BY DEF InStep, ModeInv, Answered, Export
<1>4. SizeInv'
  BY DEF InStep, SizeInv, Export
<1>5. ToggleInv'
  BY DEF InStep, ToggleInv, Agree, Polled, Answered, Export
<1> QED
  BY <1>1, <1>2, <1>3, <1>4, <1>5 DEF InStep

LEMMA PlugCheckCalm == ASSUME UsbInv, Calm, InStep, PlugCheck PROVE InStep'
<1>1. TurnInv'
  BY DEF InStep, TurnInv, PlugCheck
<1>2. WorkInv'
  BY DEF InStep, WorkInv, Answered, PlugCheck
<1>3. ModeInv'
  BY DEF InStep, ModeInv, Answered, PlugCheck
<1>4. SizeInv'
  BY DEF InStep, SizeInv, PlugCheck
<1>5. ToggleInv'
  BY DEF UsbInv, PcInv, InStep, TurnInv, ToggleInv, Agree, Polled, PlugCheck
<1> QED
  BY <1>1, <1>2, <1>3, <1>4, <1>5 DEF InStep

(* Each of its actions brings it further. *)
LEMMA ProgramOnward ==
  ASSUME UsbInv, Calm, InStep, Program, pc # "export"
  PROVE  Way' > Way
<1>1. CASE SoftReset
  BY <1>1, TypeParts DEF UsbInv, PcInv, ProgType, Calm, InStep, TurnInv, WorkInv, Answered, SoftReset, Way, Place
<1>2. CASE Command("sieInit", "busReset")
  BY <1>2, TypeParts DEF UsbInv, PcInv, ProgType, Calm, InStep, TurnInv, WorkInv, Answered, Command, Way, Place
<1>3. CASE Command("busReset", "detect")
  BY <1>3, TypeParts DEF UsbInv, PcInv, ProgType, Calm, InStep, TurnInv, WorkInv, Answered, Command, Way, Place
<1>4. CASE Detect
  BY <1>4, TypeParts DEF UsbInv, PcInv, ProgType, Calm, InStep, TurnInv, WorkInv, Answered, Detect, Way, Place
<1>5. CASE WriteHead
  BY <1>5, TypeParts DEF UsbInv, PcInv, ProgType, Calm, InStep, TurnInv, WorkInv, Answered, WriteHead, Way, Place
<1>6. CASE WriteTail
  BY <1>6, TypeParts DEF UsbInv, PcInv, ProgType, Calm, InStep, TurnInv, WorkInv, Answered, WriteTail, Way, Place
<1>7. CASE Submit
  BY <1>7, TypeParts DEF UsbInv, PcInv, ProgType, Calm, InStep, TurnInv, WorkInv, Answered, Submit, Way, Place
<1>8. CASE Sleep
  BY <1>8, TypeParts DEF UsbInv, PcInv, ProgType, Calm, InStep, TurnInv, WorkInv, Answered, Sleep, Way, Place
<1>9. CASE CheckFlag
  <2>1. CASE flag
    BY <1>9, <2>1, TypeParts DEF UsbInv, ProgType, CheckFlag, Way, Place
  <2>2. CASE ~flag
    <3>1. again'
      BY <1>9, <2>2, Zenon DEF CheckFlag
    <3> QED
      BY <1>9, <2>2, <3>1, TypeParts DEF UsbInv, ProgType, CheckFlag, Way, Place
  <2> QED
    BY <2>1, <2>2
<1>10. CASE ReadMsg
  BY <1>10, TypeParts DEF UsbInv, PcInv, ProgType, Calm, InStep, TurnInv, WorkInv, Answered, ReadMsg, Way, Place
<1>11. CASE ClearMsg
  BY <1>11, TypeParts DEF UsbInv, PcInv, ProgType, Calm, InStep, TurnInv, WorkInv, Answered, ClearMsg, Way, Place
<1>12. CASE ReadCtl
  BY <1>12, TypeParts DEF UsbInv, PcInv, ProgType, Calm, InStep, TurnInv, WorkInv, Answered, ReadCtl, NextStep, Way, Place
<1>13. CASE SubmitEndpoint
  BY <1>13, TypeParts DEF UsbInv, PcInv, ProgType, Calm, InStep, TurnInv, WorkInv, Answered, SubmitEndpoint, Way, Place
<1>14. CASE ReadSize
  BY <1>14, TypeParts DEF UsbInv, PcInv, ProgType, Calm, InStep, TurnInv, WorkInv, Answered, ReadSize, Way, Place
<1>15. CASE PlugCheck
  BY <1>15, TypeParts DEF UsbInv, PcInv, ProgType, Calm, InStep, TurnInv, WorkInv, Answered, PlugCheck, Way, Place
<1>16. ~WaitForDevice /\ ~RetryRead /\ ~RetryClear /\ ~RetryFlag /\ ~RetryCtl /\ ~Export
  BY DEF InStep, TurnInv, WaitForDevice, RetryRead, RetryClear, RetryFlag, RetryCtl, Export
<1> QED
  BY <1>1, <1>2, <1>3, <1>4, <1>5, <1>6, <1>7, <1>8, <1>9, <1>10, <1>11, <1>12, <1>13, <1>14, <1>15, <1>16, Zenon DEF Program

-----------------------------------------------------------------------------
(* The chip where nothing fails *)

(* The chip does something only while the program sleeps. *)
LEMMA ChipWhileAsleep ==
  ASSUME UsbInv, Calm, InStep, env.prompt => ~Hurrying, td # "none" \/ at # 0
  PROVE  pc = "sleep" /\ step \in 1 .. 10 /\ head = step /\ (step <= 9 => tail = step)
         /\ present /\ ~flag
<1>1. pc = "sleep" /\ ~flag /\ present
  BY TypeParts DEF UsbInv, ProgType, ChipType, Calm, InStep, TurnInv, Hurrying
<1> QED
  BY <1>1, TypeParts DEF UsbInv, ProgType, ListInv

(* Behind the first descriptor it is at the one whose packet is due, and   *)
(* that is well made for the keyboard at this step.                        *)
Due == ListBehind(step)[packets + 1]

LEMMA AtWork ==
  ASSUME UsbInv, Calm, InStep, at > First
  PROVE  /\ pc = "sleep" /\ td = "none" /\ ~flag
         /\ step \in Steps /\ req = step /\ tail = step /\ ctl = "ok" /\ packets \in 0 .. 8
         /\ Here = packets + 1 /\ OnTheList /\ TdHere = Due
         /\ mode = ModeAt(step)
         /\ \E n \in 1 .. 9 : WellMadeAs(step, n) /\ packets + 1 \in 1 .. n
<1>1. pc = "sleep" /\ td = "none" /\ ~flag /\ mode = ModeAt(step)
  BY LaterAddresses, TypeParts DEF UsbInv, ChipType, InStep, TurnInv, ModeInv, Answered
<1>2. step \in Steps /\ packets \in 0 .. 8
  BY TypeParts DEF UsbInv, ProgType, KeyboardType, InStep, WorkInv
<1>3. /\ req = step /\ tail = step /\ ctl = "ok"
      /\ packets + 1 \in 1 .. Len(ListBehind(step)) /\ at = AddressBehind(packets + 1)
  BY DEF InStep, WorkInv
<1>4. Here = packets + 1
  BY <1>2, <1>3 DEF Here, AddressBehind
<1>5. OnTheList /\ TdHere = Due
  BY <1>3, <1>4 DEF OnTheList, TdHere, Due
<1>6. PICK n \in 1 .. 9 : WellMadeAs(step, n)
  BY <1>2, ListsWellMade
<1>7. packets + 1 \in 1 .. n
  BY <1>3, <1>6 DEF WellMadeAs
<1> QED
  BY <1>1, <1>2, <1>3, <1>4, <1>5, <1>6, <1>7

(* It brings the packet that is due, and there is one, ... *)
LEMMA DueData ==
  ASSUME UsbInv, Calm, InStep, at > First, Due.len > 0
  PROVE  \E n \in 1 .. 9 : packets + 1 < n /\ WellMadeAs(step, n) /\ BringsPacket(step, packets + 1, n, Due)
<1>1. PICK n \in 1 .. 9 : WellMadeAs(step, n) /\ packets + 1 \in 1 .. n
  BY AtWork
<1>2. packets + 1 # n
  BY <1>1 DEF WellMadeAs, Confirms, Due
<1>3. packets + 1 \in 1 .. 8 /\ packets + 1 < n
  BY <1>1, <1>2, AtWork
<1> QED
  BY <1>1, <1>3 DEF WellMadeAs, Due

(* ... or is the last, and confirms. *)
LEMMA DueStatus ==
  ASSUME UsbInv, Calm, InStep, at > First, Due.len = 0
  PROVE  Confirms(step, Due)
<1>1. PICK n \in 1 .. 9 : WellMadeAs(step, n) /\ packets + 1 \in 1 .. n
  BY AtWork
<1>2. CASE packets + 1 = n
  BY <1>1, <1>2 DEF WellMadeAs, Due
<1>3. CASE packets + 1 # n
  <2>1. packets + 1 \in 1 .. 8 /\ packets + 1 < n
    BY <1>1, <1>3, AtWork
  <2>2. BringsPacket(step, packets + 1, n, Due)
    BY <1>1, <2>1 DEF WellMadeAs, Due
  <2> QED
    BY <2>2 DEF BringsPacket
<1> QED
  BY <1>2, <1>3

(* The keyboard that is asked answers. *)
LEMMA ReachedAtStep ==
  ASSUME UsbInv, step \in Steps, present, mode = ModeAt(step),
         TdHere.device = IF step = SetAddress THEN 0 ELSE 2
  PROVE  Reached
  BY DEF Reached, ModeAt

(* There is data left for a packet that is due, and room for it. *)
LEMMA LeftToBring ==
  ASSUME step \in Steps, req = step, packets \in 0 .. 8,
         NEW n, BringsPacket(step, packets + 1, n, Due)
  PROVE  Left > 0 /\ Lesser(8, Left) <= Due.len
<1>1. Expected(step) \in Nat
  BY DEF Expected, Lesser, Requested, Held
<1>2. 8 * ((packets + 1) - 1) = 8 * packets /\ Left = Expected(step) - 8 * packets
  BY DEF Left, Expected
<1> QED
  BY <1>1, <1>2 DEF BringsPacket

LEMMA TakeUpCalm ==
  ASSUME UsbInv, Calm, InStep, env.prompt => ~Hurrying, TakeUp PROVE InStep' /\ Way' > Way
<1>1. /\ pc = "sleep" /\ ~flag /\ at = 0 /\ td = "list" /\ ctl = "fresh"
      /\ UNCHANGED <<env, prog, memory, keyboard>>
  BY ChipWhileAsleep DEF TakeUp, InStep, TurnInv, WorkInv
<1>2. at' = First /\ td' = "none" /\ msg' = msg /\ flag' = flag
  BY <1>1 DEF TakeUp, NoMessage
<1>3. TurnInv' /\ WorkInv'
  BY <1>1, <1>2 DEF InStep, TurnInv, WorkInv, Answered
<1>4. ModeInv' /\ SizeInv' /\ ToggleInv'
  BY <1>1, <1>2 DEF InStep, ModeInv, SizeInv, ToggleInv, Agree, Polled, Answered, ModeAt
<1>5. Way' > Way
  <2>1. Place = 11 /\ Place' = 12
    BY <1>1, <1>2 DEF Place
  <2> QED
    BY <1>1, <2>1, TypeParts DEF Way, UsbInv, ProgType
<1> QED
  BY <1>3, <1>4, <1>5 DEF InStep

LEMMA SetupDoneCalm ==
  ASSUME UsbInv, Calm, InStep, env.prompt => ~Hurrying, SetupDone PROVE InStep' /\ Way' > Way
<1>1. /\ pc = "sleep" /\ ~flag /\ td = "none" /\ present /\ step \in Steps /\ head = step /\ tail = step
      /\ at = First /\ req = step
  BY ChipWhileAsleep, LaterAddresses DEF UsbInv, ListInv, SetupDone, InStep, TurnInv
<1>2. UNCHANGED <<env, prog, head, tail, w51e, w57c, req, present, mode, ktoggle, odd, sent>>
  BY DEF SetupDone
<1>3. mode = ModeAt(step)
  BY <1>1 DEF InStep, ModeInv, Answered
<1>4. Reached
  <2>1. TdHere = Setup(IF step = SetAddress THEN 0 ELSE 2)
    BY <1>1 DEF TdHere
  <2>2. TdHere.device = IF step = SetAddress THEN 0 ELSE 2
    BY <2>1 DEF Setup, Td
  <2> QED
    BY <1>1, <1>3, <2>2, ReachedAtStep
<1>5. at' = Behind /\ td' = "none" /\ msg' = msg /\ flag' = flag /\ ctl' = "ok" /\ packets' = 0
  BY <1>1, <1>4 DEF SetupDone, Failed, Follow, NoMessage, Calm
<1>6. TurnInv'
  BY <1>1, <1>2, <1>5 DEF InStep, TurnInv
<1>7. WorkInv'
  <2>1. 1 \in 1 .. Len(ListBehind(step)) /\ Behind = AddressBehind(1)
    BY <1>1, ListsWellMade DEF WellMadeAs, AddressBehind
  <2> QED
    BY <1>1, <1>2, <1>5, <2>1 DEF WorkInv, Answered
<1>8. ModeInv' /\ SizeInv' /\ ToggleInv'
  BY <1>1, <1>2, <1>5 DEF InStep, ModeInv, SizeInv, ToggleInv, Agree, Polled, Answered, ModeAt
<1>9. Way' > Way
  <2>1. Place = 12 /\ Place' = 13
    BY <1>1, <1>2, <1>5 DEF Place
  <2> QED
    BY <1>1, <1>2, <2>1 DEF Way
<1> QED
  BY <1>6, <1>7, <1>8, <1>9 DEF InStep

LEMMA DataDoneCalm ==
  ASSUME UsbInv, Calm, InStep, DataDone PROVE InStep' /\ Way' > Way
<1>1. /\ at > First /\ TdHere.len > 0
      /\ UNCHANGED <<env, prog, head, tail, ctl, w51e, req, present, mode, ktoggle, odd, acked, sent>>
  BY DEF DataDone
<1>2. /\ pc = "sleep" /\ td = "none" /\ ~flag /\ step \in Steps /\ req = step /\ tail = step /\ ctl = "ok"
      /\ packets \in 0 .. 8 /\ TdHere = Due /\ mode = ModeAt(step) /\ present
  BY <1>1, AtWork DEF InStep, TurnInv
<1>3. PICK n \in 1 .. 9 : packets + 1 < n /\ WellMadeAs(step, n) /\ BringsPacket(step, packets + 1, n, Due)
  BY <1>1, <1>2, DueData
<1>4. Reached
  BY <1>2, <1>3, ReachedAtStep DEF BringsPacket
<1>5. Left > 0
  BY <1>2, <1>3, LeftToBring
<1>6. Due.next = AddressBehind(packets + 2) /\ Due.next # 0 /\ Due.next # First
  BY <1>2, <1>3 DEF BringsPacket, AddressBehind
<1>7. at' = Due.next /\ td' = "none" /\ msg' = msg /\ flag' = flag /\ packets' = packets + 1
  BY <1>2, <1>4, <1>5, <1>6 DEF DataDone, Failed, Follow, NoMessage, Calm
<1>8. TurnInv'
  <2>1. pc' = "sleep" /\ td' = "none" /\ at' # 0 /\ ~flag' /\ present'
    BY <1>1, <1>2, <1>6, <1>7
  <2> QED
    BY <2>1 DEF TurnInv
<1>9. WorkInv'
  <2>1. packets' + 1 \in 1 .. Len(ListBehind(step)) /\ at' = AddressBehind(packets' + 1)
    BY <1>2, <1>3, <1>6, <1>7 DEF WellMadeAs
  <2> QED
    BY <1>1, <1>2, <1>7, <2>1 DEF WorkInv, Answered
<1>10. ModeInv' /\ SizeInv' /\ ToggleInv'
  BY <1>1, <1>2, <1>7 DEF InStep, ModeInv, SizeInv, ToggleInv, Agree, Polled, Answered, ModeAt
<1>11. Way' > Way
  <2>1. at # 0 /\ at # First /\ at' # 0 /\ at' # First
    BY <1>1, <1>2, <1>6, <1>7
  <2>2. Place = 13 + packets /\ Place' = 14 + packets
    BY <1>1, <1>2, <1>7, <2>1 DEF Place
  <2> QED
    BY <1>1, <1>2, <2>2 DEF Way
<1> QED
  BY <1>8, <1>9, <1>10, <1>11 DEF InStep

LEMMA StatusDoneCalm ==
  ASSUME UsbInv, Calm, InStep, StatusDone PROVE InStep' /\ Way' > Way
<1>1. /\ at > First /\ TdHere.len = 0
      /\ UNCHANGED <<env, prog, memory, req, present, packets, acked, sent>>
  BY DEF StatusDone
<1>2. /\ pc = "sleep" /\ td = "none" /\ ~flag /\ step \in Steps /\ req = step /\ tail = step /\ ctl = "ok"
      /\ TdHere = Due /\ mode = ModeAt(step) /\ present
  BY <1>1, AtWork DEF InStep, TurnInv
<1>3. Confirms(step, Due)
  BY <1>1, <1>2, DueStatus
<1>4. Reached
  BY <1>2, <1>3, ReachedAtStep DEF Confirms
<1>5. at' = 0 /\ td' = "none" /\ msg' = "done" /\ flag' = TRUE
  BY <1>2, <1>3, <1>4 DEF StatusDone, Failed, Follow, Message, Calm, Confirms
<1>6. mode' = ModeAt(step + 1)
  BY <1>2, <1>4 DEF StatusDone, Failed, Calm, ModeAt
<1>7. IF step = SetConfig THEN ktoggle' = 0 /\ odd' = FALSE ELSE UNCHANGED <<ktoggle, odd>>
  BY <1>2, <1>4 DEF StatusDone, Failed, Calm
<1>8. TurnInv' /\ WorkInv'
  BY <1>1, <1>2, <1>5 DEF InStep, TurnInv, WorkInv, Answered
<1>9. ModeInv' /\ SizeInv'
  BY <1>1, <1>2, <1>5, <1>6 DEF InStep, ModeInv, SizeInv, Answered
<1>10. ToggleInv'
  BY <1>1, <1>2, <1>5, <1>7 DEF InStep, ToggleInv, Agree, Polled, Answered
<1>11. Way' > Way
  <2>1. packets \in 0 .. 8 /\ at # 0 /\ at # First
    BY <1>1, AtWork
  <2>2. Place = 13 + packets /\ Place' = 22
    BY <1>1, <1>2, <1>5, <2>1 DEF Place
  <2> QED
    BY <1>1, <1>2, <2>1, <2>2 DEF Way
<1> QED
  BY <1>8, <1>9, <1>10, <1>11 DEF InStep

LEMMA PollDoneCalm ==
  ASSUME UsbInv, Calm, InStep, env.prompt => ~Hurrying, PollDone PROVE InStep' /\ Way' > Way
<1>1. /\ pc = "sleep" /\ ~flag /\ td = "none" /\ present /\ step = Poll /\ head = Poll /\ at = First
  BY ChipWhileAsleep, LaterAddresses DEF UsbInv, ListInv, PollDone, InStep, TurnInv
<1>2. UNCHANGED <<env, prog, head, tail, w57c, req, present, mode, packets, acked>>
  BY DEF PollDone
<1>3. at' = 0 /\ td' = "none" /\ msg' = "done" /\ flag' = TRUE
  BY <1>1 DEF PollDone, Follow, Message
<1>4. TdHere.len = 8
  <2>1. TdHere = PollTd(8, 1 - toggle)
    BY <1>1 DEF TdHere, InStep, SizeInv
  <2> QED
    BY <2>1 DEF PollTd, Td
<1>5. (ktoggle' = ktoggle /\ (odd' <=> ~odd)) \/ (ktoggle' = 1 - ktoggle /\ (odd' <=> odd))
  BY <1>4, TypeParts DEF PollDone, NoReport, Report, Calm, UsbInv, KeyboardType
<1>6. TurnInv' /\ WorkInv'
  BY <1>1, <1>2, <1>3 DEF InStep, TurnInv, WorkInv, Answered
<1>7. ModeInv' /\ SizeInv'
  BY <1>1, <1>2, <1>3 DEF InStep, ModeInv, SizeInv, Answered, ModeAt
<1>8. ToggleInv'
  <2>1. toggle = ktoggle <=> odd
    BY <1>1, TypeParts DEF InStep, ToggleInv, Polled, Answered, Agree, UsbInv, KeyboardType
  <2>2. toggle' = toggle
    BY <1>2
  <2>3. Agree'
    <3>1. CASE ktoggle' = ktoggle /\ (odd' <=> ~odd)
      BY <2>1, <2>2, <3>1 DEF Agree
    <3>2. CASE ktoggle' = 1 - ktoggle /\ (odd' <=> odd)
      <4>1. toggle' = ktoggle' <=> toggle # ktoggle
        BY <2>2, <3>2, TypeParts DEF UsbInv, ProgType, KeyboardType
      <4> QED
        BY <2>1, <3>2, <4>1 DEF Agree
    <3> QED
      BY <1>5, <3>1, <3>2
  <2> QED
    BY <1>1, <1>2, <1>3, <2>3 DEF ToggleInv, Polled, Answered
<1>9. Way' > Way
  <2>1. Place = 12 /\ Place' = 22
    BY <1>1, <1>2, <1>3 DEF Place
  <2> QED
    BY <1>1, <1>2, <2>1 DEF Way
<1> QED
  BY <1>6, <1>7, <1>8, <1>9 DEF InStep

-----------------------------------------------------------------------------
LEMMA CalmInit == Init => CalmInv
<1> SUFFICES ASSUME Init, Calm PROVE InStep
  BY DEF CalmInv
<1>1. present
  BY DEF Init, Calm
<1>2. TurnInv /\ WorkInv
  BY <1>1 DEF Init, TurnInv, WorkInv, Answered
<1>3. ModeInv /\ SizeInv /\ ToggleInv
  BY DEF Init, ModeInv, SizeInv, ToggleInv
<1> QED
  BY <1>2, <1>3 DEF InStep

(* What may go wrong is settled from the start. *)
LEMMA SameEnvironment == [Next]_vars => env' = env
  BY DEF Next, Program, SoftReset, Chip, Command, Detect, WaitForDevice, WriteHead, WriteTail, Submit, Sleep,
     CheckFlag, ReadMsg, ClearMsg, ReadCtl, NextStep, RetryRead, RetryClear, RetryFlag, RetryCtl, SubmitEndpoint,
     ReadSize, Export, PlugCheck, TakeUp, SetupDone, DataDone, StatusDone, PassOver, PollDone, PlugChange

LEMMA CalmNext == UsbInv /\ CalmInv /\ [Next]_vars => CalmInv'
<1> SUFFICES ASSUME UsbInv, CalmInv, [Next]_vars, Calm' PROVE InStep'
  BY DEF CalmInv
<1>1. Calm
  BY SameEnvironment DEF Calm
<1>2. InStep
  BY <1>1 DEF CalmInv
<1>3. CASE Program
  <2>1. ~WaitForDevice /\ ~RetryRead /\ ~RetryClear /\ ~RetryFlag /\ ~RetryCtl
    BY <1>2 DEF InStep, TurnInv, WaitForDevice, RetryRead, RetryClear, RetryFlag, RetryCtl
  <2> QED
    BY <1>1, <1>2, <1>3, <2>1, SoftResetCalm, ToBusResetCalm, ToDetectCalm, DetectCalm, WriteHeadCalm,
       WriteTailCalm, SubmitCalm, SleepCalm, CheckFlagCalm, ReadMsgCalm, ClearMsgCalm, ReadCtlCalm,
       SubmitEndpointCalm, ReadSizeCalm, ExportCalm, PlugCheckCalm, Zenon
       DEF Program
<1>4. CASE (env.prompt => ~Hurrying) /\ Chip
  <2>1. ~PassOver
    BY <1>1 DEF PassOver, Calm
  <2> QED
    BY <1>1, <1>2, <1>4, <2>1, TakeUpCalm, SetupDoneCalm, DataDoneCalm, StatusDoneCalm, PollDoneCalm, Zenon
       DEF Chip
<1>5. CASE PlugChange
  BY <1>1, <1>5 DEF PlugChange, Calm
<1>6. CASE UNCHANGED vars
  BY <1>2, <1>6 DEF InStep, TurnInv, WorkInv, ModeInv, SizeInv, ToggleInv, Answered, Agree, Polled
<1> QED
  BY <1>3, <1>4, <1>5, <1>6 DEF Next

(* Where nothing fails program, chip and keyboard move in step. *)
THEOREM CalmInvariant == Spec => [](UsbInv /\ CalmInv)
<1>1. Init => UsbInv /\ CalmInv
  BY UsbInvInit, CalmInit
<1>2. UsbInv /\ CalmInv /\ [Next]_vars => (UsbInv /\ CalmInv)'
  BY UsbInvNext, CalmNext
<1> QED
  BY <1>1, <1>2, PTL DEF Spec

(* The lists of usb.c agree with what the keyboard expects: every packet   *)
(* is DATA0 or DATA1 as it has it and fits, no data is put over a          *)
(* descriptor that is still to come, and every request is confirmed.       *)
THEOREM ListsAgree == Spec => []ListsInStep
<1>1. UsbInv /\ CalmInv => ListsInStep
  <2> SUFFICES ASSUME UsbInv, CalmInv, Calm, at # 0, req # Poll
               PROVE  /\ OnTheList /\ Reached
                      /\ at > First /\ TdHere.len > 0 =>
                           /\ Left > 0 /\ TdHere.data = (packets + 1) % 2 /\ Lesser(8, Left) <= TdHere.len
                           /\ \A k \in Here + 1 .. Len(ListBehind(tail)) :
                                Buffer(TdHere) \cap Words(AddressBehind(k)) = {}
                      /\ at > First /\ TdHere.len = 0 =>
                           TdHere.data = 1 /\ (TdHere.pid = "IN" <=> Requested(req) = 0)
    BY DEF ListsInStep
  <2>1. InStep
    BY DEF CalmInv
  <2>2. CASE at = First
    <3>1. pc = "sleep" /\ ~flag /\ present /\ head = step /\ step \in Steps
      BY <2>1, <2>2, TypeParts DEF UsbInv, ListInv, ProgType, InStep, TurnInv
    <3>2. TdHere = Setup(IF step = SetAddress THEN 0 ELSE 2)
      BY <2>2, <3>1 DEF TdHere
    <3>3. TdHere.device = IF step = SetAddress THEN 0 ELSE 2
      BY <3>2 DEF Setup, Td
    <3>4. mode = ModeAt(step)
      BY <2>1, <3>1 DEF InStep, ModeInv, Answered
    <3> QED
      BY <2>2, <3>1, <3>3, <3>4, ReachedAtStep DEF OnTheList
  <2>3. CASE at > First
    <3>1. /\ step \in Steps /\ req = step /\ tail = step /\ packets \in 0 .. 8 /\ Here = packets + 1
          /\ OnTheList /\ TdHere = Due /\ mode = ModeAt(step) /\ present
      BY <2>1, <2>3, AtWork DEF InStep, TurnInv
    <3>2. Due.len > 0 \/ Due.len = 0
      <4>1. PICK n \in 1 .. 9 : WellMadeAs(step, n) /\ packets + 1 \in 1 .. n
        BY <2>1, <2>3, AtWork
      <4>2. (packets + 1 \in 1 .. 8 /\ packets + 1 < n) \/ packets + 1 = n
        BY <4>1, <3>1
      <4> QED
        BY <4>1, <4>2 DEF WellMadeAs, BringsPacket, Confirms, Due
    <3>3. CASE Due.len > 0
      <4>1. PICK n \in 1 .. 9 : packets + 1 < n /\ WellMadeAs(step, n) /\ BringsPacket(step, packets + 1, n, Due)
        BY <2>1, <2>3, <3>3, DueData
      <4>2. Reached
        BY <3>1, <4>1, ReachedAtStep DEF BringsPacket
      <4>3. Left > 0 /\ Due.data = (packets + 1) % 2 /\ Lesser(8, Left) <= Due.len
        BY <3>1, <4>1, LeftToBring DEF BringsPacket
      <4>4. ASSUME NEW k \in Here + 1 .. Len(ListBehind(tail))
            PROVE  Buffer(Due) \cap Words(AddressBehind(k)) = {}
        <5>1. k \in Int /\ k <= n
          BY <3>1, <4>1 DEF WellMadeAs
        <5>2. Due.buf \in Nat /\ Due.len \in Nat /\ Due.buf > AddressBehind(k) + 11
          BY <4>1, <5>1 DEF BringsPacket, AddressBehind
        <5> QED
          BY <5>1, <5>2 DEF Buffer, Words, AddressBehind
      <4> QED
        BY <3>1, <3>3, <4>2, <4>3, <4>4
    <3>4. CASE Due.len = 0
      <4>1. Confirms(step, Due)
        BY <2>1, <2>3, <3>4, DueStatus
      <4>2. Reached
        BY <3>1, <4>1, ReachedAtStep DEF Confirms
      <4> QED
        BY <3>1, <3>4, <4>1, <4>2 DEF Confirms
    <3> QED
      BY <3>2, <3>3, <3>4
  <2> QED
    BY <2>2, <2>3, LaterAddresses, TypeParts DEF UsbInv, ChipType
<1> QED
  BY <1>1, CalmInvariant, PTL

(* The polls ask for eight bytes: the size is read when the endpoint       *)
(* descriptor is there.                                                    *)
THEOREM ReportsAreWhole == Spec => []WholeReports
<1>1. UsbInv /\ CalmInv => WholeReports
  BY DEF UsbInv, PcInv, CalmInv, InStep, TurnInv, SizeInv, WholeReports
<1> QED
  BY <1>1, CalmInvariant, PTL

(* Program and keyboard agree about the toggle as long as an even number   *)
(* of polls went without a report.                                         *)
THEOREM TogglesAgree == Spec => []TogglesAgreeWhenEven
<1>1. UsbInv /\ CalmInv => TogglesAgreeWhenEven
  <2> SUFFICES ASSUME UsbInv, CalmInv, Calm, at = First, req = Poll
               PROVE  TdHere.data = ktoggle <=> ~odd
    BY DEF TogglesAgreeWhenEven
  <2>1. InStep /\ pc = "sleep" /\ ~flag /\ step = Poll /\ head = Poll
    BY DEF CalmInv, InStep, TurnInv, UsbInv, ListInv
  <2>2. ~Agree
    BY <2>1 DEF InStep, ToggleInv, Polled, Answered
  <2>3. TdHere = PollTd(data_size, 1 - toggle)
    BY <2>1 DEF TdHere
  <2>4. TdHere.data = 1 - toggle
    BY <2>3 DEF PollTd, Td
  <2> QED
    BY <2>2, <2>4, TypeParts DEF Agree, UsbInv, ProgType, KeyboardType
<1> QED
  BY <1>1, CalmInvariant, PTL

(***************************************************************************)
(* Such a system neither goes round in circles nor back: whatever program  *)
(* or chip does brings the program further on a way of less than 30 steps  *)
(* for each of the nine requests and for a poll.                           *)
(***************************************************************************)
BoundedWay == Calm => Way \in 30 .. 327
WayOnward == [][Calm /\ pc # "export" => Way' > Way]_vars

(* So the first byte is exported after less than 300 steps of program and  *)
(* chip, and every further one after less than 30.                         *)
THEOREM PollsComeSoon == Spec => []BoundedWay /\ WayOnward
<1>1. UsbInv /\ CalmInv => BoundedWay
  <2> SUFFICES ASSUME UsbInv, CalmInv, Calm PROVE Way \in 30 .. 327
    BY DEF BoundedWay
  <2>1. step \in 1 .. 10 /\ packets \in 0 .. 8
    BY TypeParts DEF UsbInv, ProgType, KeyboardType
  <2>2. Place \in 0 .. 27
    BY <2>1 DEF Place
  <2> QED
    BY <2>1, <2>2 DEF Way
<1>2. UsbInv /\ CalmInv /\ [Next]_vars => [Calm /\ pc # "export" => Way' > Way]_vars
  <2> SUFFICES ASSUME UsbInv, CalmInv, Next, Calm, pc # "export" PROVE Way' > Way
    OBVIOUS
  <2>1. InStep
    BY DEF CalmInv
  <2>2. CASE Program
    BY <2>1, <2>2, ProgramOnward
  <2>3. CASE (env.prompt => ~Hurrying) /\ Chip
    <3>1. ~PassOver
      BY DEF PassOver, Calm
    <3> QED
      BY <2>1, <2>3, <3>1, TakeUpCalm, SetupDoneCalm, DataDoneCalm, StatusDoneCalm, PollDoneCalm, Zenon DEF Chip
  <2>4. CASE PlugChange
    BY <2>4 DEF PlugChange, Calm
  <2> QED
    BY <2>2, <2>3, <2>4 DEF Next
<1> QED
  BY <1>1, <1>2, CalmInvariant, PTL DEF Spec, WayOnward
=============================================================================
