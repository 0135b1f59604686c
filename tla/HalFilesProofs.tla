--------------------------- MODULE HalFilesProofs ---------------------------
(***************************************************************************)
(* Theorems about the file descriptors for every size of the table, every  *)
(* name and every flag a program may open a file with.                     *)
(***************************************************************************)
EXTENDS HalFiles, TLAPS

USE TableAssumption DEF TableAssumption, Fd, Main, Bits

TableType ==
  /\ alt_dev_list \subseteq {DevNull, Stdio}
  /\ alt_fd_list \in [Fd -> [dev : {NULL, DevNull, Stdio}, fd_flags : SUBSET Bits]]
  /\ alt_max_fd \in -1 .. ALT_MAX_FD - 1
  /\ starting \in Phase

(* How far start-up has come: which streams are redirected already, and    *)
(* that nothing but the streams is open before main.                       *)
StartInv ==
  /\ starting # "sys_init" => Stdio \in alt_dev_list
  /\ starting \in {"stdin", "stderr", "done"}
       => alt_max_fd >= 3 /\ alt_fd_list[1].dev = Stdio /\ Has(1, "O_WRONLY")
  /\ starting \in {"stderr", "done"} => alt_fd_list[0].dev = Stdio /\ ~Has(0, "O_WRONLY")
  /\ starting = "done" => alt_fd_list[2].dev = Stdio /\ Has(2, "O_WRONLY")
  /\ ~Main => \A fd \in Fd : ~Has(fd, "ALT_FD_EXCL") /\ (fd > 2 => ~InUse(fd))
  /\ \A fd \in 0 .. 2 : InUse(fd)

(* Who holds a device is the lowest descriptor of it: the only descriptor  *)
(* a granted lock can have overlooked is the highest.                      *)
LowestHolds ==
  \A holder, other \in Fd :
    /\ Has(holder, "ALT_FD_EXCL") /\ InUse(holder) /\ other # holder
    /\ alt_fd_list[other].dev = alt_fd_list[holder].dev
    => holder < other

(* A free descriptor has no flags left.                                    *)
FreeIsClear == \A fd \in Fd : ~InUse(fd) => alt_fd_list[fd].fd_flags = {}

UartUnlocked == \A fd \in Fd : alt_fd_list[fd].dev = Stdio => ~Has(fd, "ALT_FD_EXCL")

FilesInv == TableType /\ StartInv /\ HighWaterMark /\ LowestHolds /\ FreeIsClear /\ UartUnlocked

-----------------------------------------------------------------------------
LEMMA FilesInvInit == Init => FilesInv
<1> SUFFICES ASSUME Init PROVE FilesInv
  OBVIOUS
<1>1. /\ alt_fd_list \in [Fd -> [dev : {NULL, DevNull, Stdio}, fd_flags : SUBSET Bits]]
      /\ \A fd \in Fd : /\ alt_fd_list[fd].dev = (IF fd <= 2 THEN DevNull ELSE NULL)
                       /\ alt_fd_list[fd].fd_flags = {}
  BY DEF Init
<1>2. TableType
  BY <1>1 DEF Init, TableType, Phase
<1>3. StartInv
  BY <1>1 DEF Init, StartInv, InUse, Has
<1>4. HighWaterMark /\ LowestHolds /\ FreeIsClear /\ UartUnlocked
  BY <1>1 DEF HighWaterMark, LowestHolds, FreeIsClear, UartUnlocked, InUse, Has
<1> QED
  BY <1>2, <1>3, <1>4 DEF FilesInv

(* A released descriptor is free, the others are as they were.             *)
LEMMA Released ==
  ASSUME NEW list \in [Fd -> [dev : {NULL, DevNull, Stdio}, fd_flags : SUBSET Bits]], NEW fd \in Fd
  PROVE  /\ alt_release_fd(list, fd) \in [Fd -> [dev : {NULL, DevNull, Stdio}, fd_flags : SUBSET Bits]]
         /\ fd > 2 => alt_release_fd(list, fd)[fd] = Free
         /\ fd <= 2 => alt_release_fd(list, fd) = list
         /\ \A other \in Fd : other # fd => alt_release_fd(list, fd)[other] = list[other]
  BY DEF alt_release_fd, Free

LEMMA DeviceType ==
  ASSUME NEW dev \in {DevNull, Stdio}, NEW flags \in SUBSET Bits
  PROVE  /\ Device(dev, flags) \in [dev : {NULL, DevNull, Stdio}, fd_flags : SUBSET Bits]
         /\ Device(dev, flags).dev = dev
         /\ "ALT_FD_EXCL" \notin Device(dev, flags).fd_flags
         /\ "O_WRONLY" \in Device(dev, flags).fd_flags <=> "O_WRONLY" \in flags
  BY DEF Device, ALT_FD_FLAGS_MASK, Bits

(* The mark, and the first free descriptor, which is behind the streams.   *)
LEMMA FirstFreeInv ==
  ASSUME FilesInv, NEW fd \in Fd, FirstFree(fd)
  PROVE  /\ fd > 2 /\ ~InUse(fd)
         /\ HighWater(fd) \in Fd /\ HighWater(fd) >= fd /\ HighWater(fd) >= alt_max_fd
  BY DEF FilesInv, TableType, StartInv, FirstFree, HighWater
-----------------------------------------------------------------------------
(* open, for a device that is not locked: the table grows by one.          *)
LEMMA OpenDeviceKeeps ==
  ASSUME FilesInv, Main, UNCHANGED <<alt_dev_list, starting>>,
         NEW name, NEW flags \in SUBSET Bits, OpenDevice(name, flags)
  PROVE  FilesInv'
<1>1. PICK fd \in Fd :
        /\ name \in alt_dev_list /\ FirstFree(fd) /\ ~alt_file_locked(fd, name)
        /\ alt_fd_list' = [alt_fd_list EXCEPT ![fd] = Device(name, flags)]
        /\ alt_max_fd' = HighWater(fd)
  BY DEF OpenDevice
<1>2. name \in {DevNull, Stdio} /\ name # NULL
  BY <1>1 DEF FilesInv, TableType
<1>3. /\ fd > 2 /\ ~InUse(fd)
      /\ alt_max_fd' \in Fd /\ alt_max_fd' >= fd /\ alt_max_fd' >= alt_max_fd
  BY <1>1, FirstFreeInv
<1>4. /\ alt_fd_list'[fd] = Device(name, flags)
      /\ \A other \in Fd : other # fd => alt_fd_list'[other] = alt_fd_list[other]
  BY <1>1 DEF FilesInv, TableType
<1>5. /\ alt_fd_list'[fd].dev = name
      /\ "ALT_FD_EXCL" \notin alt_fd_list'[fd].fd_flags
  BY <1>2, <1>4, DeviceType
<1>6. \A other \in Fd : alt_fd_list[other].dev = name => ~Has(other, "ALT_FD_EXCL")
  <2> SUFFICES ASSUME NEW other \in Fd, alt_fd_list[other].dev = name
               PROVE  ~Has(other, "ALT_FD_EXCL")
    OBVIOUS
  <2>1. InUse(other) /\ other # fd
    BY <1>2, <1>3 DEF InUse
  <2>2. other \in 0 .. HighWater(fd)
    BY <1>1, <1>3, <2>1 DEF FilesInv, HighWaterMark, TableType
  <2> QED
    BY <1>1, <2>1, <2>2 DEF alt_file_locked
<1>7. TableType'
  BY <1>1, <1>2, <1>3, DeviceType DEF FilesInv, TableType
<1>8. StartInv'
  BY <1>3, <1>4 DEF FilesInv, StartInv, Has, InUse, TableType, Phase
<1>9. HighWaterMark'
  BY <1>3, <1>4 DEF FilesInv, HighWaterMark, InUse, TableType
<1>10. LowestHolds'
  BY <1>4, <1>5, <1>6 DEF FilesInv, LowestHolds, Has, InUse
<1>11. FreeIsClear' /\ UartUnlocked'
  BY <1>2, <1>4, <1>5 DEF FilesInv, FreeIsClear, UartUnlocked, Has, InUse
<1> QED
  BY <1>7, <1>8, <1>9, <1>10, <1>11 DEF FilesInv

(* open, for a device that is locked: the slot is given back, only the     *)
(* mark may have moved.                                                    *)
LEMMA OpenLockedKeeps ==
  ASSUME FilesInv, UNCHANGED <<alt_dev_list, starting>>,
         NEW name, NEW flags \in SUBSET Bits, OpenLocked(name, flags)
  PROVE  FilesInv' /\ alt_fd_list' = alt_fd_list
<1>1. PICK fd \in Fd :
        /\ name \in alt_dev_list /\ FirstFree(fd)
        /\ alt_fd_list' = alt_release_fd([alt_fd_list EXCEPT ![fd] = Device(name, flags)], fd)
        /\ alt_max_fd' = HighWater(fd)
  BY DEF OpenLocked
<1>2. name \in {DevNull, Stdio}
  BY <1>1 DEF FilesInv, TableType
<1>3. /\ fd > 2 /\ ~InUse(fd)
      /\ alt_max_fd' \in Fd /\ alt_max_fd' >= fd /\ alt_max_fd' >= alt_max_fd
  BY <1>1, FirstFreeInv
<1>4. alt_fd_list[fd] = Free
  BY <1>3 DEF FilesInv, TableType, FreeIsClear, InUse, Free
<1>5. alt_fd_list' = alt_fd_list
  <2>1. alt_fd_list' = [[alt_fd_list EXCEPT ![fd] = Device(name, flags)] EXCEPT ![fd] = Free]
    BY <1>1, <1>3 DEF alt_release_fd
  <2> QED
    BY <1>4, <2>1 DEF FilesInv, TableType
<1> QED
  BY <1>3, <1>5 DEF FilesInv, TableType, StartInv, HighWaterMark, LowestHolds, FreeIsClear,
                    UartUnlocked, Has, InUse, Phase

LEMMA OpenKeeps ==
  ASSUME FilesInv, NEW name, NEW flags \in OpenFlags, Open(name, flags)
  PROVE  FilesInv'
<1>1. Main /\ UNCHANGED <<alt_dev_list, starting>> /\ flags \in SUBSET Bits
  BY DEF Open, AfterStart
<1>2. CASE OpenUnknown(name) \/ OpenTooMany(name)
  BY <1>1, <1>2 DEF OpenUnknown, OpenTooMany, FilesInv, TableType, StartInv, HighWaterMark,
                    LowestHolds, FreeIsClear, UartUnlocked, Has, InUse
<1> QED
  BY <1>1, <1>2, OpenLockedKeeps, OpenDeviceKeeps DEF Open

(* close, which leaves the standard streams where they are.                *)
LEMMA CloseKeeps ==
  ASSUME FilesInv, NEW fd \in Fd, Close(fd)
  PROVE  FilesInv'
<1>1. /\ Main /\ UNCHANGED <<alt_dev_list, starting, alt_max_fd>>
      /\ alt_fd_list' = alt_release_fd(alt_fd_list, fd)
  BY DEF Close, AfterStart
<1>2. /\ alt_fd_list' \in [Fd -> [dev : {NULL, DevNull, Stdio}, fd_flags : SUBSET Bits]]
      /\ \A other \in Fd : \/ alt_fd_list'[other] = alt_fd_list[other]
                           \/ other > 2 /\ alt_fd_list'[other] = Free
  <2>1. alt_fd_list \in [Fd -> [dev : {NULL, DevNull, Stdio}, fd_flags : SUBSET Bits]]
    BY DEF FilesInv, TableType
  <2> QED
    BY <1>1, <2>1, Released
<1>3. TableType' /\ StartInv'
  BY <1>1, <1>2 DEF FilesInv, TableType, StartInv, Has, InUse, Phase
<1>4. HighWaterMark' /\ FreeIsClear' /\ UartUnlocked'
  BY <1>1, <1>2 DEF FilesInv, HighWaterMark, FreeIsClear, UartUnlocked, Has, InUse, Free
<1>5. LowestHolds'
  BY <1>2 DEF FilesInv, LowestHolds, Has, InUse, Free
<1> QED
  BY <1>3, <1>4, <1>5 DEF FilesInv

(* A lock is granted if no other descriptor of the device lies below the   *)
(* mark; one at the mark is higher.                                        *)
LEMMA LockKeeps ==
  ASSUME FilesInv, NEW fd \in Fd, Lock(fd)
  PROVE  FilesInv'
<1>1. Main /\ UNCHANGED <<alt_dev_list, starting, alt_max_fd>> /\ InUse(fd)
  BY DEF Lock, AfterStart
<1>2. CASE Shared(fd)
  BY <1>1, <1>2 DEF Lock, alt_fd_lock, FilesInv, TableType, StartInv, HighWaterMark, LowestHolds,
                    FreeIsClear, UartUnlocked, Has, InUse
<1>3. CASE ~Shared(fd)
  <2>1. alt_fd_list' = [alt_fd_list EXCEPT ![fd].fd_flags = @ \cup {"ALT_FD_EXCL"}]
    BY <1>3 DEF Lock, alt_fd_lock
  <2>2. alt_max_fd >= 3 /\ fd <= alt_max_fd
    BY <1>1 DEF FilesInv, StartInv, HighWaterMark, TableType
  <2>3. \A other \in Fd : other # fd /\ alt_fd_list[other].dev = alt_fd_list[fd].dev => fd < other
    <3> SUFFICES ASSUME NEW other \in Fd, other # fd, alt_fd_list[other].dev = alt_fd_list[fd].dev
                 PROVE  fd < other
      OBVIOUS
    <3>1. other <= alt_max_fd /\ ~(other < alt_max_fd)
      BY <1>1, <1>3, <2>2 DEF FilesInv, HighWaterMark, TableType, InUse, Shared
    <3> QED
      BY <2>2, <3>1 DEF FilesInv, TableType
  <2>4. alt_fd_list[fd].dev # Stdio
    <3>1. \A stream \in 0 .. 2 : alt_fd_list[stream].dev = Stdio
      BY <1>1 DEF FilesInv, StartInv
    <3> QED
      BY <1>3, <2>2, <3>1 DEF Shared, FilesInv, TableType
  <2>5. /\ alt_fd_list' \in [Fd -> [dev : {NULL, DevNull, Stdio}, fd_flags : SUBSET Bits]]
        /\ \A other \in Fd : /\ alt_fd_list'[other].dev = alt_fd_list[other].dev
                             /\ other # fd => alt_fd_list'[other] = alt_fd_list[other]
    BY <2>1 DEF FilesInv, TableType
  <2>6. fd > 2
    BY <1>1, <2>4 DEF FilesInv, StartInv
  <2>7. TableType' /\ StartInv' /\ HighWaterMark'
    BY <1>1, <2>5, <2>6 DEF FilesInv, TableType, StartInv, HighWaterMark, Has, InUse, Phase
  <2>8. LowestHolds'
    BY <2>3, <2>5 DEF FilesInv, LowestHolds, Has, InUse
  <2>9. FreeIsClear' /\ UartUnlocked'
    BY <1>1, <2>4, <2>5 DEF FilesInv, FreeIsClear, UartUnlocked, Has, InUse
  <2> QED
    BY <2>7, <2>8, <2>9 DEF FilesInv
<1> QED
  BY <1>2, <1>3

LEMMA UnlockKeeps ==
  ASSUME FilesInv, NEW fd \in Fd, Unlock(fd)
  PROVE  FilesInv'
<1>1. /\ Main /\ UNCHANGED <<alt_dev_list, starting, alt_max_fd>> /\ InUse(fd)
      /\ alt_fd_list' = [alt_fd_list EXCEPT ![fd].fd_flags = @ \ {"ALT_FD_EXCL"}]
  BY DEF Unlock, AfterStart, alt_fd_unlock
<1>2. /\ alt_fd_list' \in [Fd -> [dev : {NULL, DevNull, Stdio}, fd_flags : SUBSET Bits]]
      /\ \A other \in Fd :
           /\ alt_fd_list'[other].dev = alt_fd_list[other].dev
           /\ alt_fd_list'[other].fd_flags \subseteq alt_fd_list[other].fd_flags
           /\ "O_WRONLY" \in alt_fd_list[other].fd_flags => "O_WRONLY" \in alt_fd_list'[other].fd_flags
  BY <1>1 DEF FilesInv, TableType
<1>3. TableType' /\ StartInv' /\ HighWaterMark'
  BY <1>1, <1>2 DEF FilesInv, TableType, StartInv, HighWaterMark, Has, InUse, Phase
<1>4. LowestHolds' /\ FreeIsClear' /\ UartUnlocked'
  BY <1>1, <1>2 DEF FilesInv, LowestHolds, FreeIsClear, UartUnlocked, Has, InUse
<1> QED
  BY <1>3, <1>4 DEF FilesInv

(* fcntl changes no device, no access mode and no lock.                    *)
LEMMA FcntlKeeps ==
  ASSUME FilesInv, NEW fd \in Fd, Fcntl(fd)
  PROVE  FilesInv' /\ \A other \in Fd : alt_fd_list'[other].dev = alt_fd_list[other].dev
<1>1. Main /\ UNCHANGED <<alt_dev_list, starting, alt_max_fd>> /\ InUse(fd)
  BY DEF Fcntl, AfterStart
<1>2. CASE UNCHANGED alt_fd_list
  BY <1>1, <1>2 DEF FilesInv, TableType, StartInv, HighWaterMark, LowestHolds, FreeIsClear, UartUnlocked, Has, InUse
<1>3. CASE \E flags \in OpenFlags : alt_fd_list' = SetFlags(fd, flags)
  <2>1. PICK flags \in SUBSET Bits : alt_fd_list' = SetFlags(fd, flags)
    BY <1>3
  <2>2. /\ alt_fd_list' \in [Fd -> [dev : {NULL, DevNull, Stdio}, fd_flags : SUBSET Bits]]
        /\ \A other \in Fd :
             /\ alt_fd_list'[other].dev = alt_fd_list[other].dev
             /\ other # fd => alt_fd_list'[other].fd_flags = alt_fd_list[other].fd_flags
             /\ Has(other, "ALT_FD_EXCL") <=> "ALT_FD_EXCL" \in alt_fd_list'[other].fd_flags
             /\ Has(other, "O_WRONLY") <=> "O_WRONLY" \in alt_fd_list'[other].fd_flags
    BY <2>1 DEF SetFlags, ALT_FCNTL_FLAGS_MASK, FilesInv, TableType, Has
  <2>3. TableType' /\ StartInv' /\ HighWaterMark'
    BY <1>1, <2>2 DEF FilesInv, TableType, StartInv, HighWaterMark, Has, InUse, Phase
  <2>4. LowestHolds' /\ FreeIsClear' /\ UartUnlocked'
    BY <1>1, <2>2 DEF FilesInv, LowestHolds, FreeIsClear, UartUnlocked, Has, InUse
  <2> QED
    BY <2>2, <2>3, <2>4 DEF FilesInv
<1> QED
  BY <1>2, <1>3 DEF Fcntl
-----------------------------------------------------------------------------
(* Start-up: the first free descriptor is 3, the UART is registered and    *)
(* nothing is locked, so every stream is opened and moved to its place.    *)
LEMMA RedirectMoves ==
  ASSUME FilesInv, ~Main, starting # "sys_init",
         NEW stream \in 0 .. 2, NEW flags \in SUBSET Bits, alt_open_fd(stream, flags)
  PROVE  /\ alt_fd_list' = [alt_fd_list EXCEPT ![stream] = Device(Stdio, flags)]
         /\ alt_max_fd' \in Fd /\ alt_max_fd' >= 3
<1>1. \A fd \in Fd : ~Has(fd, "ALT_FD_EXCL") /\ (fd > 2 => ~InUse(fd))
  BY DEF FilesInv, StartInv
<1>2. 3 \in Fd /\ ~InUse(3)
  BY <1>1
<1>3. ~OpenUnknown(Stdio) /\ ~OpenTooMany(Stdio)
  BY <1>2 DEF OpenUnknown, OpenTooMany, FilesInv, StartInv
<1>4. \A fd \in Fd : FirstFree(fd) => ~alt_file_locked(fd, Stdio)
  BY <1>1, FirstFreeInv DEF alt_file_locked
<1>5. ~OpenLocked(Stdio, flags)
  BY <1>4 DEF OpenLocked
<1>6. PICK old \in Fd :
        /\ FirstFree(old)
        /\ alt_fd_list' = alt_release_fd([alt_fd_list EXCEPT ![stream] = Device(Stdio, flags)], old)
        /\ alt_max_fd' = HighWater(old)
  BY <1>3, <1>5 DEF alt_open_fd
<1>7. old > 2 /\ ~InUse(old) /\ alt_max_fd' \in Fd /\ alt_max_fd' >= old
  BY <1>6, FirstFreeInv
<1>8. alt_fd_list[old] = Free
  BY <1>7 DEF FilesInv, TableType, FreeIsClear, InUse, Free
<1>9. alt_fd_list' = [[alt_fd_list EXCEPT ![stream] = Device(Stdio, flags)] EXCEPT ![old] = Free]
  BY <1>6, <1>7 DEF alt_release_fd
<1> DEFINE moved == [alt_fd_list EXCEPT ![stream] = Device(Stdio, flags)]
<1>10. moved[old] = Free /\ old \in DOMAIN moved
  BY <1>7, <1>8 DEF FilesInv, TableType
<1>11. [moved EXCEPT ![old] = Free] = moved
  <2> HIDE DEF moved
  <2>1. moved = [fd \in DOMAIN moved |-> moved[fd]]
    BY DEF moved
  <2> QED
    BY <1>10, <2>1
<1>12. alt_max_fd' \in Fd /\ alt_max_fd' >= 3
  BY <1>7
<1> QED
  BY <1>9, <1>11, <1>12

LEMMA RedirectKeeps == FilesInv /\ alt_io_redirect => FilesInv'
<1> SUFFICES ASSUME FilesInv, alt_io_redirect PROVE FilesInv'
  OBVIOUS
<1>1. PICK stream \in 0 .. 2, flags \in SUBSET Bits :
        /\ alt_open_fd(stream, flags)
        /\ \/ starting = "stdout" /\ starting' = "stdin" /\ stream = 1 /\ flags = {"O_WRONLY"}
           \/ starting = "stdin" /\ starting' = "stderr" /\ stream = 0 /\ flags = {}
           \/ starting = "stderr" /\ starting' = "done" /\ stream = 2 /\ flags = {"O_WRONLY"}
  BY DEF alt_io_redirect, STDIN_FILENO, STDOUT_FILENO, STDERR_FILENO
<1>2. /\ alt_fd_list' = [alt_fd_list EXCEPT ![stream] = Device(Stdio, flags)]
      /\ alt_max_fd' \in Fd /\ alt_max_fd' >= 3
  BY <1>1, RedirectMoves
<1>3. UNCHANGED alt_dev_list
  BY DEF alt_io_redirect
<1>4. /\ alt_fd_list'[stream] = Device(Stdio, flags)
      /\ \A other \in Fd : other # stream => alt_fd_list'[other] = alt_fd_list[other]
  BY <1>2 DEF FilesInv, TableType
<1>5. /\ alt_fd_list'[stream].dev = Stdio
      /\ "ALT_FD_EXCL" \notin alt_fd_list'[stream].fd_flags
      /\ "O_WRONLY" \in alt_fd_list'[stream].fd_flags <=> "O_WRONLY" \in flags
  BY <1>4, DeviceType
<1>6. \A fd \in Fd : /\ "ALT_FD_EXCL" \notin alt_fd_list'[fd].fd_flags
                     /\ fd > 2 => alt_fd_list'[fd].dev = NULL
  BY <1>1, <1>4, <1>5 DEF FilesInv, StartInv, Has, InUse
<1>7. TableType'
  <2>1. Device(Stdio, flags) \in [dev : {NULL, DevNull, Stdio}, fd_flags : SUBSET Bits]
    BY DeviceType
  <2>2. alt_fd_list' \in [Fd -> [dev : {NULL, DevNull, Stdio}, fd_flags : SUBSET Bits]]
    BY <1>2, <2>1 DEF FilesInv, TableType
  <2> QED
    BY <1>1, <1>2, <1>3, <2>2 DEF FilesInv, TableType, Phase
<1>8. StartInv'
  <2>1. \A fd \in 0 .. 2 : alt_fd_list'[fd].dev # NULL
    BY <1>4, <1>5 DEF FilesInv, StartInv, InUse
  <2> QED
    BY <1>1, <1>2, <1>3, <1>4, <1>5, <1>6, <2>1 DEF FilesInv, StartInv, Has, InUse
<1>9. HighWaterMark' /\ LowestHolds' /\ UartUnlocked'
  BY <1>6 DEF HighWaterMark, LowestHolds, UartUnlocked, Has, InUse
<1>10. FreeIsClear'
  BY <1>4, <1>5 DEF FilesInv, FreeIsClear, InUse
<1> QED
  BY <1>7, <1>8, <1>9, <1>10 DEF FilesInv

LEMMA FilesInvNext == FilesInv /\ [Next]_vars => FilesInv'
<1> SUFFICES ASSUME FilesInv, [Next]_vars PROVE FilesInv'
  OBVIOUS
<1> USE DEF AfterStart, SameTable
<1>1. CASE UNCHANGED <<alt_dev_list, alt_fd_list, alt_max_fd, starting>>
  BY <1>1 DEF FilesInv, TableType, StartInv, HighWaterMark, LowestHolds, FreeIsClear, UartUnlocked, Has, InUse
<1>2. CASE alt_sys_init
  <2>1. UNCHANGED <<alt_fd_list, alt_max_fd>> /\ starting = "sys_init" /\ starting' = "stdout"
    BY <1>2 DEF alt_sys_init
  <2>2. alt_dev_list' = alt_dev_list \cup {Stdio}
    BY <1>2 DEF alt_sys_init
  <2> QED
    BY <2>1, <2>2 DEF FilesInv, TableType, StartInv, HighWaterMark, LowestHolds, FreeIsClear, UartUnlocked,
                      Has, InUse, Phase
<1>3. CASE alt_io_redirect
  BY <1>3, RedirectKeeps
<1>4. CASE \E name \in Name, flags \in OpenFlags : Open(name, flags)
  BY <1>4, OpenKeeps
<1>5. CASE BadDescriptor
  BY <1>1, <1>5 DEF BadDescriptor
<1>6. ASSUME NEW fd \in Fd,
             \/ Close(fd) \/ Lock(fd) \/ Unlock(fd) \/ Ioctl(fd) \/ Fcntl(fd)
             \/ Read(fd) \/ Write(fd) \/ Isatty(fd) \/ Fstat(fd) \/ Lseek(fd)
      PROVE  FilesInv'
  <2>1. CASE Ioctl(fd) \/ Read(fd) \/ Write(fd) \/ Isatty(fd) \/ Fstat(fd) \/ Lseek(fd)
    BY <1>1, <2>1 DEF Ioctl, Read, Write, Isatty, Fstat, Lseek
  <2> QED
    BY <1>6, <2>1, CloseKeeps, LockKeeps, UnlockKeeps, FcntlKeeps
<1> QED
  BY <1>1, <1>2, <1>3, <1>4, <1>5, <1>6 DEF Next, vars

(* The invariant of the table: the mark is above every descriptor, start-  *)
(* up leaves the three streams, and a lock is held by the lowest.          *)
THEOREM FilesInvariant == Spec => []FilesInv
  BY FilesInvInit, FilesInvNext, PTL DEF Spec

(* The check for a lock looks at every descriptor in use.                  *)
THEOREM MarkAboveAll == Spec => []HighWaterMark
  BY FilesInvariant, PTL DEF FilesInv

(* A device is never locked twice.                                         *)
THEOREM LockedOnce == Spec => []OneLockHolder
<1>1. FilesInv => OneLockHolder
  <2> SUFFICES ASSUME FilesInv, NEW a \in Fd, NEW b \in Fd,
                      Has(a, "ALT_FD_EXCL"), Has(b, "ALT_FD_EXCL"), alt_fd_list[a].dev = alt_fd_list[b].dev, a # b
               PROVE  FALSE
    BY DEF OneLockHolder
  <2>1. InUse(a) /\ InUse(b)
    BY DEF FilesInv, FreeIsClear, Has
  <2>2. a < b /\ b < a
    BY <2>1 DEF FilesInv, LowestHolds
  <2> QED
    BY <2>2
<1> QED
  BY <1>1, FilesInvariant, PTL

(* The streams of printf stay on the UART and nobody locks it.             *)
THEOREM StreamsStay == Spec => []StdioWorks
<1>1. FilesInv => StdioWorks
  BY DEF FilesInv, StartInv, UartUnlocked, StdioWorks, STDIN_FILENO, STDOUT_FILENO, STDERR_FILENO
<1> QED
  BY <1>1, FilesInvariant, PTL

(* Taking or giving back a lock changes no device. *)
LEMMA LocksKeepDevices ==
  ASSUME FilesInv, NEW other \in Fd, Lock(other) \/ Unlock(other), NEW fd \in Fd
  PROVE  alt_fd_list'[fd].dev = alt_fd_list[fd].dev
<1>1. \/ UNCHANGED alt_fd_list
      \/ \E fl : alt_fd_list' = [alt_fd_list EXCEPT ![other].fd_flags = fl]
  <2>1. CASE Lock(other)
    BY <2>1 DEF Lock, alt_fd_lock
  <2>2. CASE Unlock(other)
    BY <2>2 DEF Unlock, alt_fd_unlock
  <2> QED
    BY <2>1, <2>2
<1>2. CASE UNCHANGED alt_fd_list
  BY <1>2
<1>3. CASE \E fl : alt_fd_list' = [alt_fd_list EXCEPT ![other].fd_flags = fl]
  <2>1. PICK fl : alt_fd_list' = [alt_fd_list EXCEPT ![other].fd_flags = fl]
    BY <1>3
  <2> QED
    BY <2>1 DEF FilesInv, TableType
<1> QED
  BY <1>1, <1>2, <1>3

(* A locked device gets no new descriptor.                                 *)
THEOREM LockKeepsOthersOut == Spec => NoOpenWhileLocked
<1> DEFINE Kept == \A fd, holder \in Fd :
                     /\ Has(holder, "ALT_FD_EXCL") /\ fd # holder
                     /\ alt_fd_list'[fd].dev = alt_fd_list[holder].dev
                     => alt_fd_list[fd].dev = alt_fd_list[holder].dev
<1>1. FilesInv /\ [Next]_vars => Kept
  <2> SUFFICES ASSUME FilesInv, Next, NEW fd \in Fd, NEW holder \in Fd,
                      Has(holder, "ALT_FD_EXCL"), fd # holder,
                      alt_fd_list'[fd].dev = alt_fd_list[holder].dev,
                      alt_fd_list[fd].dev # alt_fd_list[holder].dev
               PROVE  FALSE
    BY DEF vars
  <2>1. Main /\ InUse(holder)
    BY DEF FilesInv, StartInv, FreeIsClear, Has
  <2>2. PICK name \in Name, flags \in OpenFlags : Open(name, flags)
    <3>1. ASSUME NEW other \in Fd, Close(other) PROVE FALSE
      <4>1. alt_fd_list'[fd] = alt_fd_list[fd] \/ alt_fd_list'[fd] = Free
        BY <3>1, Released DEF Close, FilesInv, TableType
      <4> QED
        BY <2>1, <4>1 DEF InUse, Free
    <3>2. ASSUME NEW other \in Fd, Lock(other) \/ Unlock(other) PROVE FALSE
      BY <3>2, LocksKeepDevices
    <3>3. ASSUME NEW other \in Fd, Fcntl(other) PROVE FALSE
      BY <3>3, FcntlKeeps
    <3> QED
      BY <2>1, <3>1, <3>2, <3>3 DEF Next, alt_sys_init, alt_io_redirect, BadDescriptor, AfterStart, SameTable, Ioctl, Read,
         Write, Isatty, Fstat, Lseek
  <2>3. CASE OpenDevice(name, flags)
    <3>1. PICK new \in Fd :
            /\ name \in alt_dev_list /\ FirstFree(new) /\ ~alt_file_locked(new, name)
            /\ alt_fd_list' = [alt_fd_list EXCEPT ![new] = Device(name, flags)]
      BY <2>3 DEF OpenDevice
    <3>2. fd = new /\ alt_fd_list'[fd] = Device(name, flags)
      BY <3>1 DEF FilesInv, TableType
    <3>3. alt_fd_list[holder].dev = name
      BY <3>1, <3>2, DeviceType DEF FilesInv, TableType
    <3>4. holder \in 0 .. HighWater(new)
      BY <2>1, <3>1, FirstFreeInv DEF FilesInv, HighWaterMark, TableType
    <3> QED
      BY <3>1, <3>2, <3>3, <3>4 DEF alt_file_locked
  <2>4. CASE OpenLocked(name, flags)
    BY <2>2, <2>4, OpenLockedKeeps DEF Open, AfterStart
  <2> QED
    BY <2>2, <2>3, <2>4 DEF Open, OpenUnknown, OpenTooMany
<1> QED
  BY <1>1, FilesInvariant, PTL DEF Spec, NoOpenWhileLocked

(* The table is typed, and so are the results of the calls.                *)
THEOREM FilesTypeCorrect == Spec => []TypeOK
<1> DEFINE Results == rc \in Int /\ errno \in Nat
<1> USE DEF Returns, Fails, ReturnsFromDriver, EIO, EWOULDBLOCK, EACCES, ENODEV, EMFILE, ENOTTY, EBADFD, ENOTSUP
<1>1. Init => Results
  BY DEF Init
<1>2. Results /\ [Next]_vars => Results'
  <2> SUFFICES ASSUME Results, Next PROVE Results'
    BY DEF vars
  <2>1. ASSUME NEW name, NEW flags, OpenUnknown(name) \/ OpenTooMany(name) \/ OpenLocked(name, flags)
        PROVE  Results'
    <3>1. CASE OpenLocked(name, flags)
      <4>1. rc' = -1 /\ errno' = EACCES
        BY <3>1 DEF OpenLocked
      <4> QED
        BY <4>1
    <3> QED
      BY <2>1, <3>1 DEF OpenUnknown, OpenTooMany
  <2>2. CASE alt_sys_init
    BY <2>2 DEF alt_sys_init
  <2>3. CASE alt_io_redirect
    <3>1. PICK stream \in 0 .. 2, flags \in SUBSET Bits : alt_open_fd(stream, flags)
      BY <2>3 DEF alt_io_redirect, STDIN_FILENO, STDOUT_FILENO, STDERR_FILENO
    <3>2. ASSUME ~OpenUnknown(Stdio), ~OpenTooMany(Stdio), ~OpenLocked(Stdio, flags) PROVE Results'
      <4>1. PICK old \in Fd : Returns(old)
        BY <3>1, <3>2 DEF alt_open_fd
      <4> QED
        BY <4>1
    <3> QED
      BY <2>1, <3>2
  <2>4. ASSUME NEW fd \in Fd, Fcntl(fd) PROVE Results'
    BY <2>4 DEF Fcntl, FlagWord, EINVAL
  <2>5. ASSUME NEW name, NEW flags, Open(name, flags) PROVE Results'
    <3>1. CASE OpenDevice(name, flags)
      <4>1. PICK fd \in Fd : Returns(fd)
        BY <3>1 DEF OpenDevice
      <4> QED
        BY <4>1
    <3> QED
      BY <2>1, <2>5, <3>1 DEF Open
  <2>6. CASE BadDescriptor
    BY <2>6 DEF BadDescriptor
  <2>7. ASSUME NEW fd \in Fd, Close(fd) \/ Lock(fd) \/ Unlock(fd) \/ Ioctl(fd) PROVE Results'
    BY <2>7 DEF Close, Lock, alt_fd_lock, Unlock, alt_fd_unlock, Ioctl
  <2>8. ASSUME NEW fd \in Fd, Read(fd) \/ Write(fd) \/ Isatty(fd) \/ Fstat(fd) \/ Lseek(fd) PROVE Results'
    BY <2>8 DEF Read, Write, Isatty, Fstat, Lseek
  <2> QED
    BY <2>2, <2>3, <2>4, <2>5, <2>6, <2>7, <2>8 DEF Next
<1>3. FilesInv /\ Results => TypeOK
  BY DEF FilesInv, TableType, FreeIsClear, InUse, Free, TypeOK
<1> QED
  BY <1>1, <1>2, <1>3, FilesInvariant, PTL DEF Spec

(* A descriptor comes into use only by being returned.                     *)
THEOREM NothingLeaks == Spec => NoLeak
<1> DEFINE Returned == \A fd \in Fd : alt_fd_list[fd].dev = NULL /\ alt_fd_list'[fd].dev # NULL
                                      => rc' = fd /\ Main
<1>1. FilesInv /\ [Next]_vars => Returned
  <2> SUFFICES ASSUME FilesInv, Next, NEW fd \in Fd,
                      alt_fd_list[fd].dev = NULL, alt_fd_list'[fd].dev # NULL
               PROVE  rc' = fd /\ Main
    BY DEF vars
  <2>1. ASSUME NEW other \in Fd, Close(other) PROVE FALSE
    <3>1. alt_fd_list'[fd] = alt_fd_list[fd] \/ alt_fd_list'[fd] = Free
      BY <2>1, Released DEF Close, FilesInv, TableType
    <3> QED
      BY <3>1 DEF Free
  <2>2. ASSUME NEW other \in Fd, Lock(other) \/ Unlock(other) PROVE FALSE
    BY <2>2, LocksKeepDevices
  <2>3. ASSUME NEW other \in Fd, Fcntl(other) PROVE FALSE
    BY <2>3, FcntlKeeps
  <2>4. ASSUME alt_io_redirect PROVE FALSE
    <3>1. PICK stream \in 0 .. 2, flags \in SUBSET Bits : alt_open_fd(stream, flags)
      BY <2>4 DEF alt_io_redirect, STDIN_FILENO, STDOUT_FILENO, STDERR_FILENO
    <3>2. ~Main /\ starting # "sys_init"
      BY <2>4 DEF alt_io_redirect
    <3>3. alt_fd_list' = [alt_fd_list EXCEPT ![stream] = Device(Stdio, flags)]
      BY <3>1, <3>2, RedirectMoves
    <3>4. fd # stream
      BY DEF FilesInv, StartInv, InUse
    <3> QED
      BY <3>3, <3>4 DEF FilesInv, TableType
  <2>5. ASSUME NEW name \in Name, NEW flags \in OpenFlags, Open(name, flags) PROVE rc' = fd /\ Main
    <3>1. Main /\ UNCHANGED <<alt_dev_list, starting>> /\ flags \in SUBSET Bits
      BY <2>5 DEF Open, AfterStart
    <3>2. CASE OpenUnknown(name) \/ OpenTooMany(name)
      BY <3>2 DEF OpenUnknown, OpenTooMany
    <3>3. CASE OpenLocked(name, flags)
      BY <3>1, <3>3, OpenLockedKeeps
    <3>4. CASE OpenDevice(name, flags)
      BY <3>1, <3>4 DEF OpenDevice, Returns, FilesInv, TableType
    <3> QED
      BY <2>5, <3>2, <3>3, <3>4 DEF Open
  <2> QED
    BY <2>1, <2>2, <2>3, <2>4, <2>5 DEF Next, alt_sys_init, BadDescriptor, AfterStart, SameTable, Ioctl, Read,
       Write, Isatty, Fstat, Lseek
<1> QED
  BY <1>1, FilesInvariant, PTL DEF Spec, NoLeak
=============================================================================
