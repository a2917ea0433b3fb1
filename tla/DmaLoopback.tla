----------------------------- MODULE DmaLoopback -----------------------------
(***************************************************************************)
(* The DMA loopback test (src/examples/dma_test/dma_test.c).  main parses  *)
(* the options and calls test_dma_with_verification, which opens the QDMA  *)
(* character device, allocates a write and a read buffer, and then, count *)
(* times, fills the write buffer with the pattern (i + j) & 0xFF, writes  *)
(* it to the card at addr (write_from_buffer), clears the read buffer,    *)
(* reads the same bytes back (read_to_buffer) and compares the two         *)
(* buffers with memcmp.                                                    *)
(*                                                                         *)
(* write_from_buffer and read_to_buffer are not in the repository.  They   *)
(* are the DMA transport of spec section 1, and the test treats their      *)
(* ssize_t result as the code does: negative is an error, anything else is *)
(* taken as success.  A transfer may move fewer bytes than asked for (the  *)
(* transport stops at the first short write() or read() and returns the    *)
(* count so far).  The device memory at addr holds, before the test, what  *)
(* an earlier user of the card left there.                                 *)
(***************************************************************************)
EXTENDS Integers

CONSTANTS
  Sizes,      \* the values -s may give size
  Counts,     \* the values -c may give count
  MaxSize,    \* the bytes of device memory at addr the model keeps
  InitDevs    \* what the device memory at addr may hold before the run

Idx == 0..MaxSize - 1
Byte == 0..255

ASSUME /\ Sizes \subseteq 0..MaxSize
       /\ Counts \subseteq Nat
       /\ InitDevs \subseteq [Idx -> Byte]

VARIABLES
  pc,       \* where test_dma_with_verification is
  size,     \* the size option
  count,    \* the count option
  i,        \* the cycle
  wbuf,     \* write_buffer
  rbuf,     \* read_buffer
  dev,      \* the device memory at addr
  ret,      \* the value returned to main, NoStatus while it runs
  checked,  \* history: the cycles whose memcmp found the buffers equal
  short     \* history: a transfer of this run moved fewer than size bytes

vars == <<pc, size, count, i, wbuf, rbuf, dev, ret, checked, short>>

NoStatus == 1               \* the function returns 0 or a negative value
EIO == -5                   \* a failed transfer
ENOMEMPositive == 12        \* (mutant) rc = ENOMEM, the minus dropped
ENOMEM == -12               \* rc = -ENOMEM when posix_memalign fails
EINVAL == -22               \* return -EINVAL when open fails

Status == {NoStatus} \cup -4095..0
Zeros == [j \in Idx |-> 0]

\* Step 1 of a cycle: write_buffer[j] = (char)((i + j) & 0xFF) for j < size.
Pattern(c) == [j \in Idx |-> IF j < size THEN (c + j) % 256 ELSE 0]

\* The results a transfer of size bytes may return: an error, or the
\* number of bytes it moved.
Results == {EIO} \cup 0..size

\* The first k bytes of src over dst.
Over(src, k, dst) == [j \in Idx |-> IF j < k THEN src[j] ELSE dst[j]]

TypeOK ==
  /\ pc \in {"open", "alloc", "loop", "write", "read", "exit"}
  /\ size \in Sizes /\ count \in Counts
  /\ i \in 0..count
  /\ wbuf \in [Idx -> Byte] /\ rbuf \in [Idx -> Byte] /\ dev \in [Idx -> Byte]
  /\ ret \in Status
  /\ checked \subseteq 0..count
  /\ short \in BOOLEAN

Init ==
  /\ pc = "open"
  /\ size \in Sizes /\ count \in Counts
  /\ i = 0
  /\ wbuf = Zeros /\ rbuf = Zeros
  /\ dev \in InitDevs
  /\ ret = NoStatus
  /\ checked = {}
  /\ short = FALSE

\* A transfer that returned rc >= 0 moved fewer bytes than asked for.
Moved(rc) == short' = (short \/ rc < size)

\* goto out: close the device and free both buffers, then return rc.
Out(rc) == pc' = "exit" /\ ret' = rc

\* fpga_fd = open(devname, O_RDWR); a failure returns -EINVAL at once.
Open ==
  /\ pc = "open"
  /\ \/ pc' = "alloc" /\ UNCHANGED ret
     \/ Out(EINVAL)
  /\ UNCHANGED <<size, count, i, wbuf, rbuf, dev, checked, short>>

\* The two posix_memalign calls; either failing is -ENOMEM.
Alloc ==
  /\ pc = "alloc"
  /\ \/ pc' = "loop" /\ UNCHANGED ret
     \/ Out(ENOMEM)
  /\ UNCHANGED <<size, count, i, wbuf, rbuf, dev, checked, short>>

\* for (i = 0; i < count; i++); after the last cycle rc = 0.
Loop ==
  /\ pc = "loop"
  /\ \/ i < count /\ pc' = "write" /\ UNCHANGED ret
     \/ i >= count /\ Out(0)
  /\ UNCHANGED <<size, count, i, wbuf, rbuf, dev, checked, short>>

\* (mutant) the failed write leaves the loop with break, and the code after
\* the loop sets rc = 0.
WriteCycleBreaks ==
  /\ pc = "write"
  /\ wbuf' = Pattern(i)
  /\ \E rc \in Results :
       IF rc < 0 THEN pc' = "exit" /\ ret' = 0 /\ UNCHANGED <<dev, short>>
       ELSE dev' = Over(wbuf', rc, dev) /\ Moved(rc) /\ pc' = "read" /\ UNCHANGED ret
  /\ UNCHANGED <<size, count, i, rbuf, checked>>

\* Steps 1 and 2: fill write_buffer with the pattern of cycle i and
\* write_from_buffer it to addr; rc < 0 goes to out with rc.
WriteCycle ==
  /\ pc = "write"
  /\ wbuf' = Pattern(i)
  /\ \E rc \in Results :
       IF rc < 0 THEN Out(rc) /\ UNCHANGED <<dev, short>>
       ELSE dev' = Over(wbuf', rc, dev) /\ Moved(rc) /\ pc' = "read" /\ UNCHANGED ret
  /\ UNCHANGED <<size, count, i, rbuf, checked>>

\* (mutant) a mismatch retries the cycle instead of failing.
ReadCycleRetries ==
  /\ pc = "read"
  /\ \E rc \in Results :
       IF rc < 0 THEN Out(rc) /\ UNCHANGED <<i, rbuf, checked, short>>
       ELSE LET got == Over(dev, rc, Zeros) IN
            /\ rbuf' = got /\ Moved(rc)
            /\ IF got = wbuf
                 THEN /\ i' = i + 1 /\ checked' = checked \cup {i}
                      /\ pc' = "loop" /\ UNCHANGED ret
                 ELSE pc' = "write" /\ UNCHANGED <<i, checked, ret>>
  /\ UNCHANGED <<size, count, wbuf, dev>>

\* Steps 3 and 4: memset read_buffer to 0, read_to_buffer from addr (rc < 0
\* goes to out with rc), and memcmp size bytes: equal buffers go on to the
\* next cycle, different ones go to out with -1.
ReadCycle ==
  /\ pc = "read"
  /\ \E rc \in Results :
       IF rc < 0 THEN Out(rc) /\ UNCHANGED <<i, rbuf, checked, short>>
       ELSE LET got == Over(dev, rc, Zeros) IN
            /\ rbuf' = got /\ Moved(rc)
            /\ IF got = wbuf
                 THEN /\ i' = i + 1 /\ checked' = checked \cup {i}
                      /\ pc' = "loop" /\ UNCHANGED ret
                 ELSE Out(-1) /\ UNCHANGED <<i, checked>>
  /\ UNCHANGED <<size, count, wbuf, dev>>

Next == Open \/ Alloc \/ Loop \/ WriteCycle \/ ReadCycle

\* The test is one process the operating system runs to its end.
Spec == Init /\ [][Next]_vars /\ WF_vars(Next)

-----------------------------------------------------------------------------
(* Properties.                                                             *)

\* The test returns 0 only after every one of its count cycles read back
\* from the card what it had written: a failed transfer or a mismatch in
\* any cycle of the loop is never followed by "SUCCESSFUL for all cycles".
SuccessMeansEveryCycleChecked ==
  pc = "exit" /\ ret = 0 => checked = 0..count - 1

\* The test ends, whatever the transport returns: the loop runs count
\* cycles at most and every transfer returns.
Terminates == <>(pc = "exit")

\* Spec 8: the test verifies the DMA path by writing a pattern and reading
\* it back.  When it returns 0, every write_from_buffer and read_to_buffer
\* of the run moved all size bytes: the bytes memcmp found equal did cross
\* the DMA path in this run.
SuccessMeansDataMoved == pc = "exit" /\ ret = 0 => ~short

=============================================================================
