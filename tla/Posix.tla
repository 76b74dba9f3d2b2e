------------------------------- MODULE Posix -------------------------------
(***************************************************************************)
(* The C library layer (userspace/posix-compat): calls that check their    *)
(* arguments, make a Hammam system call and turn its result into -1 and    *)
(* errno, and the string functions over the program's memory; with the     *)
(* kernel's side of those system calls, syscall_dispatch and sys_write.    *)
(* Memory is the bytes 1..MemSize; 0 is the null pointer.  The number 0,   *)
(* which the library takes for read, is the kernel's yield.                *)
(***************************************************************************)
EXTENDS Integers, Sequences

CONSTANTS MemSize,   \* bytes of user memory
          Bytes,     \* the byte values strings are made of
          Chars,     \* the int arguments memset is called with
          Fds,       \* the file descriptors programs use
          Statuses   \* the statuses programs exit with

ASSUME PosixAssumption ==
  /\ MemSize \in Nat \ {0}
  /\ Bytes \subseteq 0..255 /\ 0 \in Bytes
  /\ \A c \in Chars : c \in Int /\ c % 256 \in Bytes

VARIABLES mem,     \* the program's memory
          errno,   \* ERRNO_VAL
          ret,     \* what the last call returned, and whether it was
                   \* puts or clear_errno
          status   \* <<>>, then <<the exit status>>

vars == <<mem, errno, ret, status>>

EBADF == 9
EFAULT == 14
ENOSYS == 38

(* The codes strerror has a message for.                                    *)
strerror(e) ==
  IF e \in (1..9) \cup {12, 13, 14} \cup (16..24) \cup {38, 75}
  THEN "message" ELSE "Unknown error"

Addrs == 1..MemSize
Ptrs == 0..(MemSize + 1)
Newline == <<10>>

-----------------------------------------------------------------------------
(* The kernel: validate_user_slice accepts a null length anywhere but at 0, *)
(* and otherwise asks for every byte to be mapped.                          *)
Valid(p, len) == p # 0 /\ (len = 0 \/ p..(p + len - 1) \subseteq Addrs)

Slice(m, p, len) == [i \in 1..len |-> m[p + i - 1]]

sys_write(m, fd, p, len) ==
  IF fd # 1 THEN [value |-> -9, out |-> <<>>]
  ELSE IF Valid(p, len) THEN [value |-> len, out |-> Slice(m, p, len)]
  ELSE [value |-> -14, out |-> <<>>]

(* syscall_dispatch, for the numbers the library uses and does not give up  *)
(* the process: 0 is yield, and any other number is not implemented.        *)
syscall_dispatch(m, nr, a0, a1, a2) ==
  CASE nr = 0 -> [value |-> 0, out |-> <<>>]
    [] nr = 1 -> sys_write(m, a0, a1, a2)
    [] OTHER -> [value |-> -38, out |-> <<>>]

syscall_write(m, fd, p, len) == syscall_dispatch(m, 1, fd, p, len)

syscall_read(m, fd, p, len) == syscall_dispatch(m, 0, fd, p, len)

-----------------------------------------------------------------------------
(* A call's outcome: its value, errno after it, and what it has put on the  *)
(* serial line, which is not kept.                                          *)
Outcome(v, e, o) == [value |-> v, errno |-> e, out |-> o]

Refused(e) == Outcome(-1, e, <<>>)

(* The end of read and write: a negative result becomes -1 and errno.       *)
FromKernelRaw(r) == Outcome(r.value, errno, r.out)

FromKernel(r) ==
  IF r.value < 0 THEN Outcome(-1, -r.value, r.out) ELSE Outcome(r.value, errno, r.out)

read(fd, p, count) ==
  IF fd < 0 THEN Refused(EBADF)
  ELSE IF p = 0 THEN Refused(EFAULT)
  ELSE FromKernel(syscall_read(mem, fd, p, count))

write(fd, p, count) ==
  IF fd < 0 THEN Refused(EBADF)
  ELSE IF p = 0 THEN Refused(EFAULT)
  ELSE FromKernel(syscall_write(mem, fd, p, count))

(* open, open_mode and close give up after their own checks.                *)
open(p) == Refused(IF p = 0 THEN EFAULT ELSE ENOSYS)

close(fd) == Refused(IF fd < 0 THEN EBADF ELSE ENOSYS)

(* fork, execve and waitpid.                                                *)
Unsupported == Refused(ENOSYS)

(* getpid; getppid, usleep, sleep and malloc return 0.                      *)
getpid == Outcome(1, errno, <<>>)
Nothing == Outcome(0, errno, <<>>)

-----------------------------------------------------------------------------
(* The string functions, loop by loop, on a memory m.                       *)
RECURSIVE StrlenFrom(_, _)
StrlenFrom(m, p) == IF m[p] = 0 THEN 0 ELSE 1 + StrlenFrom(m, p + 1)

strlen(m, p) == IF p = 0 THEN 0 ELSE StrlenFrom(m, p)

RECURSIVE StrcmpFrom(_, _, _)
StrcmpFrom(m, p, q) ==
  IF m[p] # m[q] THEN m[p] - m[q]
  ELSE IF m[p] = 0 THEN 0
  ELSE StrcmpFrom(m, p + 1, q + 1)

strcmp(m, p, q) == IF p = 0 \/ q = 0 THEN 0 ELSE StrcmpFrom(m, p, q)

RECURSIVE StrncmpPastEnd(_, _, _, _)
StrncmpPastEnd(m, p, q, n) ==
  IF n = 0 THEN 0
  ELSE IF m[p] # m[q] THEN m[p] - m[q]
  ELSE IF n = 1 THEN 1
  ELSE IF m[p] = 0 THEN 0
  ELSE StrncmpPastEnd(m, p + 1, q + 1, n - 1)

RECURSIVE StrncmpFrom(_, _, _, _)
StrncmpFrom(m, p, q, n) ==
  IF n = 0 THEN 0
  ELSE IF m[p] # m[q] THEN m[p] - m[q]
  ELSE IF m[p] = 0 THEN 0
  ELSE StrncmpFrom(m, p + 1, q + 1, n - 1)

strncmp(m, p, q, n) == IF p = 0 \/ q = 0 THEN 0 ELSE StrncmpFrom(m, p, q, n)

RECURSIVE StrcpyFrom(_, _, _)
StrcpyFrom(m, d, s) ==
  LET next == [m EXCEPT ![d] = m[s]]
  IN  IF m[s] = 0 THEN next ELSE StrcpyFrom(next, d + 1, s + 1)

strcpy(m, d, s) == IF d = 0 \/ s = 0 THEN m ELSE StrcpyFrom(m, d, s)

(* strncpy has come to byte i: d and s have moved on with it, and the       *)
(* zeros go to d + (j - i) for the j that are left.                         *)
PadFromStart(m, d, i, n) ==
  [x \in DOMAIN m |-> IF \E j \in (i + 1)..(n - 1) : x = d + j THEN 0 ELSE m[x]]

Pad(m, d, i, n) ==
  [x \in DOMAIN m |-> IF \E j \in (i + 1)..(n - 1) : x = d + (j - i) THEN 0 ELSE m[x]]

RECURSIVE StrncpyFrom(_, _, _, _, _)
StrncpyFrom(m, d, s, i, n) ==
  IF i = n THEN m
  ELSE LET next == [m EXCEPT ![d] = m[s]]
       IN  IF m[s] = 0 THEN Pad(next, d, i, n)
           ELSE StrncpyFrom(next, d + 1, s + 1, i + 1, n)

strncpy(m, d, s, n) == IF d = 0 \/ s = 0 THEN m ELSE StrncpyFrom(m, d, s, 0, n)

(* memcpy and memmove; the copies of the core library.                      *)
memmove(m, d, s, n) ==
  IF d = 0 \/ s = 0 THEN m
  ELSE [x \in DOMAIN m |-> IF x \in d..(d + n - 1) THEN m[s + (x - d)] ELSE m[x]]

memset(m, s, c, n) ==
  IF s = 0 THEN m
  ELSE [x \in DOMAIN m |-> IF x \in s..(s + n - 1) THEN c % 256 ELSE m[x]]

(* puts: the string, then the newline, in two system calls.  It does not    *)
(* look at the second's result.                                             *)
PutsOneCall(p) ==
  IF p = 0 THEN Outcome(-1, errno, <<>>)
  ELSE LET r == syscall_write(mem, 1, p, strlen(mem, p))
       IN  Outcome(IF r.value >= 0 THEN 0 ELSE -1, errno, r.out)

puts(p) ==
  IF p = 0 THEN Outcome(-1, errno, <<>>)
  ELSE LET r == syscall_write(mem, 1, p, strlen(mem, p))
       IN  IF r.value >= 0 THEN Outcome(0, errno, r.out \o Newline)
           ELSE Outcome(-1, errno, <<>>)

-----------------------------------------------------------------------------
(* What a caller has to see to, and C leaves undefined: strings end, and    *)
(* what is read and written lies in memory and does not overlap.            *)
Terminated(m, p) == p = 0 \/ \E x \in Addrs : x >= p /\ m[x] = 0

EndsBy(m, p, n) == p = 0 \/ p + n - 1 <= MemSize \/ Terminated(m, p)

Room(p, n) == p = 0 \/ p + n - 1 <= MemSize

Apart(d, dn, s, sn) ==
  d = 0 \/ s = 0 \/ (d..(d + dn - 1)) \cap (s..(s + sn - 1)) = {}

StrcpyOK(m, d, s) ==
  Terminated(m, s) /\ LET n == strlen(m, s) + 1 IN Room(d, n) /\ Apart(d, n, s, n)

StrncpyOK(m, d, s, n) ==
  /\ EndsBy(m, s, n) /\ Room(d, n)
  /\ Apart(d, n, s, IF Terminated(m, s) /\ strlen(m, s) < n THEN strlen(m, s) + 1 ELSE n)

-----------------------------------------------------------------------------
Init ==
  /\ mem = [x \in Addrs |-> 0]
  /\ errno = 0
  /\ ret = [call |-> "call", value |-> 0]
  /\ status = <<>>

Running == status = <<>>

Call(name, o) ==
  /\ Running
  /\ ret' = [call |-> name, value |-> o.value]
  /\ errno' = o.errno
  /\ UNCHANGED <<mem, status>>

Store(m) ==
  /\ Running
  /\ mem' = m
  /\ ret' = [call |-> "call", value |-> 0]
  /\ UNCHANGED <<errno, status>>

ClearErrno == Call("clear_errno", Outcome(0, 0, <<>>))

(* exit and exit_group, and abort with 134.                                 *)
Exit(code) ==
  /\ Running
  /\ status' = <<code>>
  /\ UNCHANGED <<mem, errno, ret>>

Next ==
  \/ \E p \in Ptrs : Call("call", open(p))
  \/ \E fd \in Fds : Call("call", close(fd))
  \/ \E fd \in Fds, p \in Ptrs, n \in 0..MemSize :
       Call("call", read(fd, p, n)) \/ Call("call", write(fd, p, n))
  \/ \E p \in 0..MemSize : Terminated(mem, p) /\ Call("puts", puts(p))
  \/ Call("call", Unsupported)
  \/ Call("call", getpid) \/ Call("call", Nothing)
  \/ ClearErrno
  \/ \E code \in Statuses \cup {134} : Exit(code)
  \/ \E s \in 0..MemSize, c \in Chars, n \in 0..MemSize :
       Room(s, n) /\ Store(memset(mem, s, c, n))
  \/ \E d, s \in 0..MemSize, n \in 0..MemSize :
       Room(d, n) /\ Room(s, n) /\ Store(memmove(mem, d, s, n))
  \/ \E d, s \in 0..MemSize : StrcpyOK(mem, d, s) /\ Store(strcpy(mem, d, s))
  \/ \E d, s \in 0..MemSize, n \in 0..MemSize :
       StrncpyOK(mem, d, s, n) /\ Store(strncpy(mem, d, s, n))

Spec == Init /\ [][Next]_vars

-----------------------------------------------------------------------------
(* A call that fails leaves an errno that strerror has a message for, even  *)
(* when the code is the kernel's; errno changes with a failure and at no    *)
(* other time.  puts fails without a word.                                  *)
ErrnoTellsFailure ==
  [][/\ (ret'.value < 0 /\ ret'.call # "puts") => strerror(errno') = "message"
     /\ errno' # errno => ret'.value < 0 \/ ret'.call = "clear_errno"]_vars

(* What write and puts report is what reached the serial line: all of the   *)
(* bytes or none, a line with its newline when puts returns 0.              *)
WritesWhole ==
  /\ \A fd \in Fds, p \in Ptrs, n \in 0..MemSize :
       LET o == write(fd, p, n)
       IN  /\ o.value = IF fd = 1 /\ Valid(p, n) THEN n ELSE -1
           /\ o.out = IF o.value >= 0 THEN Slice(mem, p, n) ELSE <<>>
  /\ \A p \in Addrs :
       Terminated(mem, p) /\ puts(p).value = 0 =>
         \E n \in 0..MemSize :
           /\ puts(p).out = Append(Slice(mem, p, n), 10)
           /\ mem[p + n] = 0 /\ \A i \in 0..(n - 1) : mem[p + i] # 0

-----------------------------------------------------------------------------
(* References for the string functions: a string is the bytes before the    *)
(* first zero, and strings are ordered by their first different byte.       *)
StringAt(p) ==
  LET n == CHOOSE n \in 0..MemSize :
             mem[p + n] = 0 /\ \A i \in 0..(n - 1) : mem[p + i] # 0
  IN  [i \in 1..n |-> mem[p + i - 1]]

Cut(s, n) == IF Len(s) <= n THEN s ELSE SubSeq(s, 1, n)

Below(s, t) ==
  \E k \in 0..Len(s) :
    /\ k < Len(t)
    /\ \A i \in 1..k : s[i] = t[i]
    /\ k = Len(s) \/ s[k + 1] < t[k + 1]

Sign(x) == IF x < 0 THEN -1 ELSE IF x > 0 THEN 1 ELSE 0

Order(s, t) == IF s = t THEN 0 ELSE IF Below(s, t) THEN -1 ELSE 1

(* strlen, strcmp and strncmp measure and order strings as C does: strings  *)
(* with bytes above 127 too, and for strncmp by their first n bytes alone.  *)
ComparesAsC ==
  \A p, q \in {x \in Addrs : Terminated(mem, x)} :
    LET s == StringAt(p)
        t == StringAt(q)
    IN  /\ strlen(mem, p) = Len(s)
        /\ Sign(strcmp(mem, p, q)) = Order(s, t)
        /\ \A n \in 0..MemSize :
             Sign(strncmp(mem, p, q, n)) = Order(Cut(s, n), Cut(t, n))

(* strcpy leaves the source's string at the destination, strncpy its first  *)
(* n bytes and zeros up to n, and neither touches a byte outside.           *)
CopiesAsC ==
  \A d, s \in Addrs :
    /\ StrcpyOK(mem, d, s) =>
         LET m == strcpy(mem, d, s)
             n == Len(StringAt(s)) + 1
         IN  \A x \in Addrs : m[x] = IF x \in d..(d + n - 1) THEN mem[s + (x - d)] ELSE mem[x]
    /\ \A n \in 0..MemSize :
         StrncpyOK(mem, d, s, n) =>
           LET m == strncpy(mem, d, s, n)
               zero == {x \in s..MemSize : mem[x] = 0}
           IN  \A x \in Addrs :
                 m[x] = IF x \notin d..(d + n - 1) THEN mem[x]
                        ELSE IF \E z \in zero : z <= s + (x - d) THEN 0
                        ELSE mem[s + (x - d)]
=============================================================================
