------------------------------ MODULE TdLists ------------------------------
(***************************************************************************)
(* The lists of transfer descriptors (TDs) that usb.c writes to the        *)
(* memory of the USB chip: a SETUP packet that asks for something, IN      *)
(* packets for the data, and a packet of the other direction to confirm.   *)
(* Addresses are of the chip's memory.  TD 1 is at 0x0500, the eight bytes *)
(* of the SETUP packet are behind it, the other TDs follow from 0x0514 on, *)
(* each of six words.                                                      *)
(***************************************************************************)
EXTENDS Integers, Sequences

(* The steps, by what their SETUP packet asks for, and the poll. *)
SetAddress == 1
GetDeviceDesc1 == 2
GetDeviceDesc2 == 3
GetConfigDesc1 == 4
GetConfigDesc2 == 5
SetConfig == 6
ClassRequest == 7
GetHidDesc == 8
GetReportDesc == 9
Poll == 10
Steps == 1 .. 9

First == \h0500
Behind == \h0514

(* Where the data goes, how much, what for, to which device, as DATA0 or   *)
(* DATA1, and the address of the next TD, 0 behind the last.               *)
Td(buf, len, pid, device, data, next) ==
  [buf |-> buf, len |-> len, pid |-> pid, device |-> device, data |-> data, next |-> next]

Setup(device) == Td(\h050C, 8, "SETUP", device, 0, Behind)

In_AllData1(buf, len, data, next) == Td(buf, len, "IN", 2, 1, next)

In(buf, len, data, next) == Td(buf, len, "IN", 2, data, next)
StatusIn(device) == Td(0, 0, "IN", device, 1, 0)
StatusOut == Td(0, 0, "OUT", 2, 1, 0)

(* Everything behind TD 1, in the order of the addresses. *)
ListBehind(s) ==
  CASE s = SetAddress -> << StatusIn(0) >>
    [] s = GetDeviceDesc1 ->
         << In(\h052C, 8, 1, \h0520), StatusOut >>
    [] s = GetDeviceDesc2 ->
         << In(\h0544, 8, 1, \h0520), In(\h054C, 8, 0, \h052C), In(\h0554, 2, 1, \h0538), StatusOut >>
    [] s = GetConfigDesc1 ->
         << In(\h0544, 8, 1, \h0520), In(\h054C, 1, 0, \h052C), StatusOut >>
    [] s = GetConfigDesc2 ->
         << In(\h055C, 8, 1, \h0520), In(\h0564, 8, 0, \h052C), In(\h056C, 8, 1, \h0538),
            In(\h0574, 8, 0, \h0544), In(\h057C, 2, 1, \h0550), StatusOut >>
    [] s \in {SetConfig, ClassRequest} -> << StatusIn(2) >>
    [] s = GetHidDesc ->
         << In(\h0544, 8, 1, \h0520), StatusOut >>
    [] s = GetReportDesc ->
         << In(\h0580, 8, 1, \h0520), In(\h0588, 8, 0, \h052C), In(\h0590, 8, 1, \h0538),
            In(\h0598, 8, 0, \h0544), In(\h05A0, 8, 1, \h0550), In(\h05A8, 8, 0, \h055C),
            In(\h05B0, 8, 1, \h0568), In(\h05B8, 3, 0, \h0574), StatusOut >>

(* The bytes each SETUP packet asks for. *)
Requested(s) ==
  CASE s \in {SetAddress, SetConfig, ClassRequest} -> 0
    [] s = GetDeviceDesc1 -> 8
    [] s = GetDeviceDesc2 -> 18
    [] s = GetConfigDesc1 -> 9
    [] s = GetConfigDesc2 -> 255
    [] s \in {GetHidDesc, GetReportDesc} -> 123

(* The TD that polls the keyboard, for as many bytes as the program found. *)
PollTd(size, data) == Td(\h051C, size, "IN", 2, data, 0)

(* Where a TD is, and the bytes it has its data put to. *)
AddressBehind(k) == Behind + 12 * (k - 1)
Words(address) == address .. address + 11
Buffer(td) == td.buf .. td.buf + td.len - 1
=============================================================================
