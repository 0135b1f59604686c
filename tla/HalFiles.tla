------------------------------ MODULE HalFiles ------------------------------
(***************************************************************************)
(* The file descriptors of the board support package (HAL/src): the table  *)
(* every printf goes through, how the standard streams are redirected to   *)
(* the JTAG UART before main, and the lock of a device.                    *)
(*                                                                         *)
(* There is no operating system, and interrupts do not use descriptors: a  *)
(* call is one step.  A program passes descriptors that are negative (from *)
(* a failed open) or in use; the code does not survive others.             *)
(***************************************************************************)
EXTENDS Integers, FiniteSets

CONSTANTS
  ALT_MAX_FD,       \* descriptors in the table, 32
  Stdio,            \* the device of the standard streams, "/dev/jtag_uart_0"
  DevNull,          \* "/dev/null", registered before anything else
  NULL,             \* no device
  Name,             \* names open is called with (a bound of the model)
  OpenFlags         \* flags open is called with (a bound of the model)

ASSUME TableAssumption ==
  /\ ALT_MAX_FD \in Nat /\ ALT_MAX_FD > 3
  /\ Stdio # NULL /\ DevNull # NULL /\ Stdio # DevNull
  /\ OpenFlags \subseteq SUBSET {"O_WRONLY", "O_RDWR", "O_NONBLOCK", "ALT_FD_EXCL", "ALT_FD_DEV"}

VARIABLES
  alt_dev_list,     \* the registered devices, by their names
  alt_fd_list,      \* the table
  alt_max_fd,       \* the highest descriptor ever used
  starting,         \* what start-up has still to do
  rc, errno         \* what the last call returned

vars == <<alt_dev_list, alt_fd_list, alt_max_fd, starting, rc, errno>>

Fd == 0 .. ALT_MAX_FD - 1
STDIN_FILENO == 0
STDOUT_FILENO == 1
STDERR_FILENO == 2

EIO == 5
EWOULDBLOCK == 11
EACCES == 13
ENODEV == 19
EINVAL == 22
EMFILE == 24
ENOTTY == 25
EBADFD == 77
ENOTSUP == 134

(* The bits of fd_flags; without O_WRONLY and O_RDWR a file is O_RDONLY.   *)
Bits == {"O_WRONLY", "O_RDWR", "O_NONBLOCK", "ALT_FD_EXCL", "ALT_FD_DEV"}
ALT_FD_FLAGS_MASK == {"ALT_FD_EXCL", "ALT_FD_DEV"}
ALT_FCNTL_FLAGS_MASK == {"O_NONBLOCK"}

Free == [dev |-> NULL, fd_flags |-> {}]
Phase == {"sys_init", "stdout", "stdin", "stderr", "done"}

TypeOK ==
  /\ alt_dev_list \subseteq {DevNull, Stdio}
  /\ alt_fd_list \in [Fd -> [dev : {NULL, DevNull, Stdio}, fd_flags : SUBSET Bits]]
  /\ \A fd \in Fd : alt_fd_list[fd].dev = NULL => alt_fd_list[fd] = Free
  /\ alt_max_fd \in -1 .. ALT_MAX_FD - 1
  /\ starting \in Phase
  /\ rc \in Int /\ errno \in Nat

Init ==
  /\ alt_dev_list = {DevNull}
  /\ alt_fd_list = [fd \in Fd |-> [dev |-> IF fd <= 2 THEN DevNull ELSE NULL, fd_flags |-> {}]]
  /\ alt_max_fd = -1
  /\ starting = "sys_init" /\ rc = 0 /\ errno = 0

Returns(value) == rc' = value /\ UNCHANGED errno
Fails(error) == rc' = -1 /\ errno' = error

(* Drivers return counts, or errors as negative numbers. *)
ReturnsFromDriver(value) == IF value < 0 THEN Fails(0 - value) ELSE Returns(value)

-----------------------------------------------------------------------------
(* open *)

InUse(fd) == alt_fd_list[fd].dev # NULL
Has(fd, bit) == bit \in alt_fd_list[fd].fd_flags

(* alt_get_fd takes the first free descriptor. *)
FirstFree(fd) == ~InUse(fd) /\ \A lower \in 0 .. fd - 1 : InUse(lower)

HighWater_Latest(fd) == fd

HighWater(fd) == IF fd > alt_max_fd THEN fd ELSE alt_max_fd

alt_file_locked_NotTheLast(fd, dev) ==
  \E other \in 0 .. HighWater(fd) - 1 :
    other # fd /\ alt_fd_list[other].dev = dev /\ Has(other, "ALT_FD_EXCL")

alt_file_locked(fd, dev) ==
  \E other \in 0 .. HighWater(fd) :
    other # fd /\ alt_fd_list[other].dev = dev /\ Has(other, "ALT_FD_EXCL")

alt_release_fd_KeepsFlags(list, fd) == IF fd > 2 THEN [list EXCEPT ![fd].dev = NULL] ELSE list

(* The standard descriptors are never free. *)
alt_release_fd(list, fd) == IF fd > 2 THEN [list EXCEPT ![fd] = Free] ELSE list

Device(dev, flags) ==
  [dev |-> dev, fd_flags |-> (flags \ ALT_FD_FLAGS_MASK) \cup {"ALT_FD_DEV"}]

(* No filesystem is registered, so only devices are found by their names.  *)
OpenUnknown(name) ==
  /\ name \notin alt_dev_list /\ Fails(ENODEV)
  /\ UNCHANGED <<alt_fd_list, alt_max_fd>>

OpenTooMany(name) ==
  /\ name \in alt_dev_list /\ (\A fd \in Fd : InUse(fd)) /\ Fails(EMFILE)
  /\ UNCHANGED <<alt_fd_list, alt_max_fd>>

OpenLocked(name, flags) ==
  \E fd \in Fd :
    /\ name \in alt_dev_list /\ FirstFree(fd) /\ alt_file_locked(fd, name) /\ Fails(EACCES)
    /\ alt_fd_list' = alt_release_fd([alt_fd_list EXCEPT ![fd] = Device(name, flags)], fd)
    /\ alt_max_fd' = HighWater(fd)

OpenDevice(name, flags) ==
  \E fd \in Fd :
    /\ name \in alt_dev_list /\ FirstFree(fd) /\ ~alt_file_locked(fd, name) /\ Returns(fd)
    /\ alt_fd_list' = [alt_fd_list EXCEPT ![fd] = Device(name, flags)]
    /\ alt_max_fd' = HighWater(fd)

Main == starting = "done"
AfterStart == Main /\ UNCHANGED <<alt_dev_list, starting>>
SameTable == UNCHANGED <<alt_fd_list, alt_max_fd>>

Open(name, flags) ==
  /\ AfterStart
  /\ OpenUnknown(name) \/ OpenTooMany(name) \/ OpenLocked(name, flags) \/ OpenDevice(name, flags)

-----------------------------------------------------------------------------
(* Start-up: alt_sys_init registers the UART, alt_io_redirect opens it for *)
(* each stream and moves the descriptor to the place of the stream.        *)

alt_sys_init ==
  /\ starting = "sys_init" /\ starting' = "stdout"
  /\ alt_dev_list' = alt_dev_list \cup {Stdio}
  /\ UNCHANGED <<alt_fd_list, alt_max_fd, rc, errno>>

alt_open_fd_KeepsOld(stream, flags) ==
  \/ OpenUnknown(Stdio) \/ OpenTooMany(Stdio) \/ OpenLocked(Stdio, flags)
  \/ \E old \in Fd :
       /\ Stdio \in alt_dev_list /\ FirstFree(old) /\ ~alt_file_locked(old, Stdio) /\ Returns(old)
       /\ alt_fd_list' = [alt_fd_list EXCEPT ![stream] = Device(Stdio, flags), ![old] = Device(Stdio, flags)]
       /\ alt_max_fd' = HighWater(old)

alt_open_fd(stream, flags) ==
  \/ OpenUnknown(Stdio) \/ OpenTooMany(Stdio) \/ OpenLocked(Stdio, flags)
  \/ \E old \in Fd :
       /\ Stdio \in alt_dev_list /\ FirstFree(old) /\ ~alt_file_locked(old, Stdio) /\ Returns(old)
       /\ alt_fd_list' = alt_release_fd([alt_fd_list EXCEPT ![stream] = Device(Stdio, flags)], old)
       /\ alt_max_fd' = HighWater(old)

alt_io_redirect ==
  /\ \/ starting = "stdout" /\ starting' = "stdin" /\ alt_open_fd(STDOUT_FILENO, {"O_WRONLY"})
     \/ starting = "stdin" /\ starting' = "stderr" /\ alt_open_fd(STDIN_FILENO, {})
     \/ starting = "stderr" /\ starting' = "done" /\ alt_open_fd(STDERR_FILENO, {"O_WRONLY"})
  /\ UNCHANGED alt_dev_list

-----------------------------------------------------------------------------
(* The other calls *)

(* The UART may refuse to be closed; the descriptor is gone all the same.  *)
Close(fd) ==
  /\ AfterStart /\ InUse(fd)
  /\ \/ Returns(0)
     \/ alt_fd_list[fd].dev = Stdio /\ Has(fd, "O_NONBLOCK") /\ Fails(EWOULDBLOCK)
  /\ alt_fd_list' = alt_release_fd(alt_fd_list, fd) /\ UNCHANGED alt_max_fd

Shared_OneLess(fd) ==
  \E other \in 0 .. alt_max_fd - 2 :
    other # fd /\ alt_fd_list[other].dev = alt_fd_list[fd].dev

(* alt_fd_lock does not look at the last descriptor. *)
Shared(fd) ==
  \E other \in 0 .. alt_max_fd - 1 :
    other # fd /\ alt_fd_list[other].dev = alt_fd_list[fd].dev

(* ioctl hands an error on as it is, negative. *)
alt_fd_lock(fd) ==
  IF Shared(fd)
  THEN rc' = 0 - EACCES /\ errno' = EACCES /\ UNCHANGED alt_fd_list
  ELSE Returns(0) /\ alt_fd_list' = [alt_fd_list EXCEPT ![fd].fd_flags = @ \cup {"ALT_FD_EXCL"}]

alt_fd_unlock(fd) ==
  Returns(0) /\ alt_fd_list' = [alt_fd_list EXCEPT ![fd].fd_flags = @ \ {"ALT_FD_EXCL"}]

Lock(fd) ==
  /\ AfterStart /\ InUse(fd) /\ Has(fd, "ALT_FD_DEV")
  /\ alt_fd_lock(fd) /\ UNCHANGED alt_max_fd

Unlock(fd) ==
  /\ AfterStart /\ InUse(fd) /\ Has(fd, "ALT_FD_DEV")
  /\ alt_fd_unlock(fd) /\ UNCHANGED alt_max_fd

(* Any other request; only the UART has an ioctl. *)
Ioctl(fd) ==
  /\ AfterStart /\ InUse(fd) /\ SameTable
  /\ \/ rc' = 0 - ENOTTY /\ errno' = ENOTTY
     \/ alt_fd_list[fd].dev = Stdio /\ Returns(0)

(* F_GETFL, F_SETFL, and any other command; O_APPEND is not modelled, no   *)
(* code looks at it.                                                       *)
FlagWord(fd) == (IF Has(fd, "O_WRONLY") THEN 1 ELSE 0) + (IF Has(fd, "O_RDWR") THEN 2 ELSE 0)
                + (IF Has(fd, "O_NONBLOCK") THEN 16384 ELSE 0)

SetFlags_All(fd, flags) == [alt_fd_list EXCEPT ![fd].fd_flags = flags]

SetFlags(fd, flags) ==
  [alt_fd_list EXCEPT ![fd].fd_flags = (@ \ ALT_FCNTL_FLAGS_MASK) \cup (flags \cap ALT_FCNTL_FLAGS_MASK)]

Fcntl(fd) ==
  /\ AfterStart /\ InUse(fd) /\ UNCHANGED alt_max_fd
  /\ \/ Returns(FlagWord(fd)) /\ UNCHANGED alt_fd_list
     \/ \E flags \in OpenFlags : Returns(0) /\ alt_fd_list' = SetFlags(fd, flags)
     \/ Fails(EINVAL) /\ UNCHANGED alt_fd_list

Read(fd) ==
  /\ AfterStart /\ InUse(fd) /\ SameTable
  /\ IF ~Has(fd, "O_WRONLY") /\ alt_fd_list[fd].dev = Stdio
     THEN \E value \in {1, 0 - EIO, 0 - EWOULDBLOCK} : ReturnsFromDriver(value)
     ELSE Fails(EACCES)

(* /dev/null takes everything; the UART what it can. *)
Write(fd) ==
  /\ AfterStart /\ InUse(fd) /\ SameTable
  /\ IF Has(fd, "O_WRONLY") \/ Has(fd, "O_RDWR")
     THEN \/ Returns(1)
          \/ /\ alt_fd_list[fd].dev = Stdio
             /\ \E value \in {0 - EIO, 0 - EWOULDBLOCK} : ReturnsFromDriver(value)
     ELSE Fails(EACCES)

(* No device here has fstat or lseek. *)
Isatty(fd) == AfterStart /\ InUse(fd) /\ SameTable /\ Returns(1)
Fstat(fd) == AfterStart /\ InUse(fd) /\ SameTable /\ Returns(0)
Lseek(fd) == AfterStart /\ InUse(fd) /\ SameTable /\ Fails(ENOTSUP)

(* With the descriptor of a failed open; isatty says no, ioctl the error.  *)
BadDescriptor ==
  /\ AfterStart /\ SameTable
  /\ errno' = EBADFD /\ rc' \in {-1, 0, 0 - EBADFD}

Next ==
  \/ alt_sys_init \/ alt_io_redirect \/ BadDescriptor
  \/ \E name \in Name, flags \in OpenFlags : Open(name, flags)
  \/ \E fd \in Fd :
       \/ Close(fd) \/ Lock(fd) \/ Unlock(fd) \/ Ioctl(fd) \/ Fcntl(fd)
       \/ Read(fd) \/ Write(fd) \/ Isatty(fd) \/ Fstat(fd) \/ Lseek(fd)

Spec == Init /\ [][Next]_vars

-----------------------------------------------------------------------------
(* Properties *)

(* No descriptor in use lies above the mark up to which the check for a    *)
(* lock looks (alt_open.c:79), but for the standard streams before the     *)
(* first open.                                                             *)
HighWaterMark == \A fd \in Fd : InUse(fd) => fd <= alt_max_fd \/ fd <= 2

(* Two descriptors never have the same device for themselves, although a   *)
(* lock may be granted that should not be (see ExclusiveLock).             *)
OneLockHolder ==
  \A a, b \in Fd :
    Has(a, "ALT_FD_EXCL") /\ Has(b, "ALT_FD_EXCL") /\ alt_fd_list[a].dev = alt_fd_list[b].dev => a = b

(* While a device is locked no other descriptor for it comes into being    *)
(* (alt_fd_lock.c:44).                                                     *)
NoOpenWhileLocked ==
  [][\A fd, holder \in Fd :
       /\ Has(holder, "ALT_FD_EXCL") /\ fd # holder
       /\ alt_fd_list'[fd].dev = alt_fd_list[holder].dev
       => alt_fd_list[fd].dev = alt_fd_list[holder].dev]_vars

(* A descriptor comes into use only by being returned to the caller: a     *)
(* call that fails, and the redirection, leave none behind.                *)
NoLeak ==
  [][\A fd \in Fd : alt_fd_list[fd].dev = NULL /\ alt_fd_list'[fd].dev # NULL
       => rc' = fd /\ Main]_vars

(* printf can always print, whatever the program opened, locked, closed    *)
(* before: its streams stay on the UART, open for writing, and nobody gets *)
(* the UART for himself.                                                   *)
StdioWorks ==
  Main => /\ \A fd \in 0 .. 2 : alt_fd_list[fd].dev = Stdio
          /\ \A fd \in {STDOUT_FILENO, STDERR_FILENO} : Has(fd, "O_WRONLY")
          /\ ~Has(STDIN_FILENO, "O_WRONLY")
          /\ \A fd \in Fd : alt_fd_list[fd].dev = Stdio => ~Has(fd, "ALT_FD_EXCL")

(* alt_fd_lock.c:43: "If there are no other open file descriptors which    *)
(* reference the same device, then alt_fd_lock() will grant the lock."     *)
ExclusiveLock ==
  [][\A fd \in Fd : ~Has(fd, "ALT_FD_EXCL") /\ "ALT_FD_EXCL" \in alt_fd_list'[fd].fd_flags
       => \A other \in Fd : alt_fd_list[other].dev = alt_fd_list[fd].dev => other = fd]_vars
=============================================================================
