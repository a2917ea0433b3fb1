----------------------------- MODULE ResetBringUp -----------------------------
(***************************************************************************)
(* The reset orchestrator and CMAC bring-up of the reset tools            *)
(* (src/examples/reset_test), run against the hardware of NicHw.           *)
(*                                                                         *)
(* The tools are single-threaded C.  A run executes one top-level          *)
(* operation as a call stack: stack[1] is the running function, each       *)
(* frame records the function, the point it has reached (pc), its port,   *)
(* the reset mask it wrote and its two loop counters.  One step of the    *)
(* program is one read or write of a device register together with the    *)
(* local computation around it, so the hardware steps of NicHw interleave *)
(* with the tool at every register access.                                 *)
(*                                                                         *)
(* Three generations of the code are modelled, because the newer ones call *)
(* the older ones:                                                         *)
(*   reset_utils.c        perform_cmac_reset, perform_shell_reset,         *)
(*                        wait_reset_completion (poll the status bits);    *)
(*   reset_utils_fixed.c  perform_cmac_reset_with_reinit and the RX lane   *)
(*                        alignment wait with its one reset escalation;    *)
(*   reset_utils_final.c  the *_hardware_correct resets (composite masks,  *)
(*                        poll the self-clearing reset register) and       *)
(*                        smart_reset_strategy.                            *)
(* Sleeps are left out: they only let the hardware run, which it may do   *)
(* between any two steps anyway.  Messages printed are left out.           *)
(***************************************************************************)
EXTENDS NicHw, Sequences, Integers

CONSTANTS
  AutoclearPolls,   \* reads of the reset register before the autoclear wait
                    \* gives up (RESET_REGISTER_TIMEOUT_MS / 1 ms = 10000)
  StatusPolls,      \* reads of the status register before wait_reset_completion
                    \* gives up (RESET_TIMEOUT_MS / RESET_POLL_INTERVAL_MS = 500)
  AlignResetCnt,    \* LANE_ALIGNMENT_RESET_CNT (8)
  AlignTimeoutCnt,  \* LANE_ALIGNMENT_TIMEOUT_CNT (32)
  Entries,          \* the top-level operations the tools are started with
  MaxRuns           \* how many operations are run one after another

ASSUME /\ AutoclearPolls \in Nat \ {0}
       /\ StatusPolls \in Nat \ {0}
       /\ AlignResetCnt \in Nat \ {0}
       /\ AlignTimeoutCnt \in Nat
       /\ AlignResetCnt <= AlignTimeoutCnt   \* 8 <= 32 in the code
       /\ MaxRuns \in Nat

VARIABLES
  stack,   \* the call stack of the running operation, <<>> between runs
  rv,      \* the value the last returning function returned
  runs     \* operations started so far

vars == <<rstReg, status, cfg, aligned, rxLatch, reta, stack, rv, runs>>

OK == 0
ETIMEDOUT == -110
RetVals == {OK, ETIMEDOUT}

\* The functions of the call stack.
Procs == {"autoclear", "wait_status", "cmac_hw", "shell_hw", "sys_hw",
          "cmac_base", "shell_base", "sys_base", "user_base", "gt", "reinit",
          "align", "smart", "shell_fixed", "sys_fixed"}

\* Reset masks.  SHELL_RESET_CMAC_PORTx in reset_utils.h names only the
\* subsystem bit; reset_utils_final.c ORs in the adapter bit.
CmacSimpleMask(p) == {SubBit(p)}
CmacCompositeMask(p) == {SubBit(p), AdpBit(p)}
ShellAllMask == {"qdma", "rdma"} \cup CmacCompositeMask(0) \cup CmacCompositeMask(1)
ShellBaseMask == {SubBit(0), SubBit(1)}     \* 0x110

Frame(proc, port, mask) ==
  [proc |-> proc, pc |-> "start", port |-> port, mask |-> mask, cnt |-> 0, rcnt |-> 0]

Top == stack[1]
Running(proc) == stack # <<>> /\ Top.proc = proc

\* Continue the running function at pc l.
Goto(l) == stack' = [stack EXCEPT ![1].pc = l]
\* Replace the running function's frame.
SetTop(f) == stack' = <<f>> \o Tail(stack)
\* Call f; the caller, whose frame becomes caller, resumes when f returns.
Call(f, caller) == stack' = <<f, caller>> \o Tail(stack)
\* Return v from the running function.
Return(v) == stack' = Tail(stack) /\ rv' = v

CntBound == IF AutoclearPolls > AlignTimeoutCnt THEN AutoclearPolls ELSE AlignTimeoutCnt
Frames == [proc : Procs, pc : STRING, port : Ports \cup {-1}, mask : SUBSET Bits,
           cnt : 0..CntBound, rcnt : 0..1]

TypeOK ==
  /\ HwTypeOK
  /\ stack \in Seq(Frames)
  /\ rv \in RetVals
  /\ runs \in 0..MaxRuns

-----------------------------------------------------------------------------
(* reset_utils_final.c                                                     *)

\* Mutation: the test (reg_value & reset_mask) != reset_mask, which is
\* satisfied as soon as one bit of the mask has cleared.
AutoclearedAnyBit(mask) == ~(mask \subseteq rstReg)

\* (reg_value & reset_mask) == 0: every bit of the mask has self-cleared.
Autocleared(mask) == rstReg \cap mask = {}

\* Mutation: the elapsed time is never advanced.
AutoclearPollAgainStuck(t) == t

\* usleep, then elapsed_us += RESET_REGISTER_POLL_INTERVAL_US.
AutoclearPollAgain(t) == [t EXCEPT !.cnt = t.cnt + 1]

\* Poll the shell reset register until the bits of mask have self-cleared.
wait_reset_register_autoclear ==
  /\ Running("autoclear")
  /\ \/ /\ Autocleared(Top.mask)
        /\ Return(OK)
     \/ /\ ~Autocleared(Top.mask)
        /\ Top.cnt + 1 < AutoclearPolls
        /\ SetTop(AutoclearPollAgain(Top))
        /\ UNCHANGED rv
     \/ /\ ~Autocleared(Top.mask)
        /\ Top.cnt + 1 >= AutoclearPolls
        /\ Return(ETIMEDOUT)
  /\ UNCHANGED hwVars

\* Write mask to a reset register, wait on it with the function waitProc
\* (autoclear: the reset register self-clears; wait_status: the status bits
\* come up) and return the wait's result.  What follows the wait in the
\* hardware-correct resets (a sleep and a status read that only prints a
\* warning) changes nothing.
WriteAndWait(proc, mask, waitProc) ==
  /\ Running(proc)
  /\ \/ /\ Top.pc = "start"
        /\ WriteReset(mask)
        /\ Call(Frame(waitProc, Top.port, mask), [Top EXCEPT !.pc = "done", !.mask = mask])
        /\ UNCHANGED rv
     \/ /\ Top.pc = "done"
        /\ Return(rv)
        /\ UNCHANGED hwVars

\* The composite mask of one port, every shell subsystem, or the system.
perform_cmac_reset_hardware_correct ==
  WriteAndWait("cmac_hw", CmacCompositeMask(Top.port), "autoclear")
perform_shell_reset_hardware_correct ==
  WriteAndWait("shell_hw", ShellAllMask, "autoclear")
perform_system_reset_hardware_correct ==
  WriteAndWait("sys_hw", {"sys"}, "autoclear")

-----------------------------------------------------------------------------
(* reset_utils.c                                                           *)

\* The status checks: one read of a status register, tested against a
\* mask.  The read cannot fail, the offsets being constants in the window.
check_system_reset_status == "sys" \in status                \* & 0x1
check_shell_reset_status == status \cap ShellBaseMask # {}   \* & 0x110
check_user_reset_status == "user" \in status                 \* & 0x1
check_cmac_reset_status(p) == SubBit(p) \in status           \* & 0x10 or 0x100

\* The switch on reset_type in wait_reset_completion; the type is the one
\* whose mask the caller wrote.
ResetCompleted(mask) ==
  CASE mask = {"sys"}       -> check_system_reset_status
    [] mask = ShellBaseMask -> check_shell_reset_status
    [] mask = {"user"}      -> check_user_reset_status
    [] OTHER -> check_cmac_reset_status(CHOOSE p \in Ports : mask = CmacSimpleMask(p))

\* Poll the shell status register until ResetCompleted.
wait_reset_completion ==
  /\ Running("wait_status")
  /\ \/ /\ ResetCompleted(Top.mask)
        /\ Return(OK)
     \/ /\ ~ResetCompleted(Top.mask)
        /\ Top.cnt + 1 < StatusPolls
        /\ SetTop([Top EXCEPT !.cnt = Top.cnt + 1])
        /\ UNCHANGED rv
     \/ /\ ~ResetCompleted(Top.mask)
        /\ Top.cnt + 1 >= StatusPolls
        /\ Return(ETIMEDOUT)
  /\ UNCHANGED hwVars

\* Write the subsystem bit of one port, 0x110, or bit0 of the system or user
\* reset register, and wait on the status.
perform_cmac_reset == WriteAndWait("cmac_base", CmacSimpleMask(Top.port), "wait_status")
perform_shell_reset == WriteAndWait("shell_base", ShellBaseMask, "wait_status")
perform_system_reset == WriteAndWait("sys_base", {"sys"}, "wait_status")
perform_user_reset == WriteAndWait("user_base", {"user"}, "wait_status")

\* Write 0x1 to the GT reset register and return 0 after a fixed sleep:
\* wait_reset_completion has no status to poll for a GT reset.  The port
\* check is dead code, every caller passing 0 or 1.
perform_cmac_gt_reset ==
  /\ Running("gt")
  /\ WriteGtReset(Top.port)
  /\ Return(OK)

-----------------------------------------------------------------------------
(* reset_utils_fixed.c.  The configuration helpers write registers whose   *)
(* offsets are constant and inside the window, so safe_write32_data never  *)
(* fails for them and their error returns are dead code.                   *)

configure_cmac_rsfec(p) == WriteCfg(p, [cfg[p] EXCEPT !.rsfec = TRUE])

\* CONF_RX_1 = 0x1, CONF_TX_1 = 0x10: receive, and send RFI while aligning.
configure_cmac_rxtx(p) == WriteCfg(p, [cfg[p] EXCEPT !.rx = TRUE, !.tx = "rfi"])

\* Mutation: the final CONF_TX_1 = 0x1 is left out.
configure_cmac_flow_control_no_tx(p) == WriteCfg(p, [cfg[p] EXCEPT !.fc = TRUE])

\* The twelve pause-frame registers, then CONF_TX_1 = 0x1.
configure_cmac_flow_control(p) == WriteCfg(p, [cfg[p] EXCEPT !.fc = TRUE, !.tx = "on"])

\* QCONF and the 128 indirection entries; failures of entries are ignored.
initialize_reta_table(p) == WriteReta(p)

\* Two reads of STAT_RX_STATUS (val2 == 0x3); the first clears the latched
\* value, so the second is the live alignment of the lanes.  The reads
\* themselves are ReadRxStatus in the step that calls it.
check_rx_lane_aligned(p) == aligned[p]

\* Mutation: the ceiling compared one too late (timeout_cnt > CNT + 1).
AlignTimedOutLate(t) == t.cnt + 1 > AlignTimeoutCnt + 1

\* Mutation: timeout_cnt++ left out of the loop.
AlignPollAgainStuck(t) == t

\* usleep, then timeout_cnt++.
AlignPollAgain(t) == [t EXCEPT !.cnt = t.cnt + 1]

\* timeout_cnt > LANE_ALIGNMENT_TIMEOUT_CNT, tested after the increment.
AlignTimedOut(t) == t.cnt + 1 > AlignTimeoutCnt

\* Poll the alignment; after AlignResetCnt failed checks reset the port once
\* with perform_cmac_reset and re-enable RX/TX, ignoring both results; fail
\* once more than AlignTimeoutCnt checks have failed.
wait_rx_lane_alignment ==
  /\ Running("align")
  /\ \/ /\ Top.pc = "start"
        /\ ReadRxStatus(Top.port)
        /\ \/ /\ check_rx_lane_aligned(Top.port)
              /\ Return(OK)
           \/ /\ ~check_rx_lane_aligned(Top.port)
              /\ Top.cnt + 1 = AlignResetCnt /\ Top.rcnt = 0
              /\ Call(Frame("cmac_base", Top.port, {}),
                      [AlignPollAgain(Top) EXCEPT !.pc = "escalated"])
              /\ UNCHANGED rv
           \/ /\ ~check_rx_lane_aligned(Top.port)
              /\ ~(Top.cnt + 1 = AlignResetCnt /\ Top.rcnt = 0)
              /\ ~AlignTimedOut(Top)
              /\ SetTop(AlignPollAgain(Top))
              /\ UNCHANGED rv
           \/ /\ ~check_rx_lane_aligned(Top.port)
              /\ ~(Top.cnt + 1 = AlignResetCnt /\ Top.rcnt = 0)
              /\ AlignTimedOut(Top)
              /\ Return(ETIMEDOUT)
     \* back from the escalation reset; as AlignResetCnt <= AlignTimeoutCnt
     \* the timeout test that follows in the same iteration cannot fire
     \/ /\ Top.pc = "escalated"
        /\ configure_cmac_rxtx(Top.port)
        /\ SetTop([Top EXCEPT !.pc = "start", !.rcnt = Top.rcnt + 1])
        /\ UNCHANGED rv

\* Reset one port with perform_cmac_reset, then configure RS-FEC (every
\* caller passes enable_rsfec = 1) and RX/TX, wait for alignment, program
\* flow control and the RETA table, whose result is ignored.
perform_cmac_reset_with_reinit ==
  /\ Running("reinit")
  /\ \/ /\ Top.pc = "start"
        /\ Call(Frame("cmac_base", Top.port, {}), [Top EXCEPT !.pc = "rsfec"])
        /\ UNCHANGED <<hwVars, rv>>
     \/ /\ Top.pc \in {"rsfec", "flow"}
        /\ rv # OK
        /\ Return(rv)
        /\ UNCHANGED hwVars
     \/ /\ Top.pc = "rsfec"
        /\ rv = OK
        /\ configure_cmac_rsfec(Top.port)
        /\ Goto("rxtx")
        /\ UNCHANGED rv
     \/ /\ Top.pc = "rxtx"
        /\ configure_cmac_rxtx(Top.port)
        /\ Call(Frame("align", Top.port, {}), [Top EXCEPT !.pc = "flow"])
        /\ UNCHANGED rv
     \/ /\ Top.pc = "flow"
        /\ rv = OK
        /\ configure_cmac_flow_control(Top.port)
        /\ Goto("reta")
        /\ UNCHANGED rv
     \/ /\ Top.pc = "reta"
        /\ initialize_reta_table(Top.port)
        /\ Return(OK)

\* Reset with resetProc of reset_utils.c, returning its failure, then
\* re-initialise both ports, whose failures are only printed.
ResetThenReinit(proc, resetProc) ==
  /\ Running(proc)
  /\ \/ /\ Top.pc = "start"
        /\ Call(Frame(resetProc, -1, {}), [Top EXCEPT !.pc = "reinit0"])
        /\ UNCHANGED rv
     \/ /\ Top.pc = "reinit0"
        /\ rv # OK
        /\ Return(rv)
     \/ /\ Top.pc = "reinit0"
        /\ rv = OK
        /\ Call(Frame("reinit", 0, {}), [Top EXCEPT !.pc = "reinit1"])
        /\ UNCHANGED rv
     \/ /\ Top.pc = "reinit1"
        /\ Call(Frame("reinit", 1, {}), [Top EXCEPT !.pc = "end"])
        /\ UNCHANGED rv
     \/ /\ Top.pc = "end"
        /\ Return(OK)
  /\ UNCHANGED hwVars

perform_shell_reset_fixed == ResetThenReinit("shell_fixed", "shell_base")
perform_system_reset_fixed == ResetThenReinit("sys_fixed", "sys_base")

-----------------------------------------------------------------------------
(* smart_reset_strategy of reset_utils_final.c.  Its callers always pass   *)
(* include_reinit = 1.  For port -1 both ports are reset and then          *)
(* re-initialised, every failure only printed; for one port a failure is   *)
(* returned.                                                               *)

smart_reset_strategy ==
  /\ Running("smart")
  /\ \/ /\ Top.pc = "start"
        /\ Call(Frame("cmac_hw", IF Top.port = -1 THEN 0 ELSE Top.port, {}),
                [Top EXCEPT !.pc = IF Top.port = -1 THEN "hw1" ELSE "hw_checked"])
        /\ UNCHANGED rv
     \/ /\ Top.pc = "hw1"
        /\ Call(Frame("cmac_hw", 1, {}), [Top EXCEPT !.pc = "reinit"])
        /\ UNCHANGED rv
     \/ /\ Top.pc = "hw_checked"
        /\ rv # OK
        /\ Return(rv)
     \/ /\ Top.pc = "hw_checked"
        /\ rv = OK
        /\ Goto("reinit")
        /\ UNCHANGED rv
     \/ /\ Top.pc = "reinit"
        /\ Call(Frame("reinit", IF Top.port = -1 THEN 0 ELSE Top.port, {}),
                [Top EXCEPT !.pc = IF Top.port = -1 THEN "reinit1" ELSE "end"])
        /\ UNCHANGED rv
     \/ /\ Top.pc = "reinit1"
        /\ Call(Frame("reinit", 1, {}), [Top EXCEPT !.pc = "all_done"])
        /\ UNCHANGED rv
     \/ /\ Top.pc = "end"
        /\ Return(rv)
     \/ /\ Top.pc = "all_done"
        /\ Return(OK)
  /\ UNCHANGED hwVars

-----------------------------------------------------------------------------
(* The tools: each invocation (or each command of the interactive mode)   *)
(* runs one top-level operation to its end.                                *)

\* An entry is a top-level function and its port (-1 where it takes none).
Entry(proc, port) == [proc |-> proc, port |-> port]

\* test_final_reset options 1-5 (6 and 7 only read registers); option 3
\* takes the port given with -p, option 5 runs the strategy for port 0.
FinalToolOps ==
  {Entry("sys_hw", -1), Entry("shell_hw", -1), Entry("cmac_hw", 0), Entry("cmac_hw", 1),
   Entry("smart", -1), Entry("smart", 0)}

\* test_fixed_reset options 1-3; perform_cmac_reset_fixed only calls
\* perform_cmac_reset_with_reinit with RS-FEC enabled.
FixedToolOps ==
  {Entry("sys_fixed", -1), Entry("shell_fixed", -1), Entry("reinit", 0), Entry("reinit", 1)}

\* reset_test: the seven reset types of perform_reset_operation.
BaselineToolOps ==
  {Entry("sys_base", -1), Entry("shell_base", -1), Entry("user_base", -1)}
  \cup {Entry(f, p) : f \in {"cmac_base", "gt"}, p \in Ports}

\* The interactive mode offers the same seven resets as commands 1-7.
InteractiveOps == BaselineToolOps

\* One invocation of a tool, or one command of the interactive mode, runs
\* one operation to its end; a cancelled confirmation changes nothing.
Start ==
  /\ stack = <<>>
  /\ runs < MaxRuns
  /\ \E e \in Entries : stack' = <<Frame(e.proc, e.port, {})>>
  /\ runs' = runs + 1
  /\ UNCHANGED <<hwVars, rv>>

Init ==
  /\ HwInit
  /\ stack = <<>>
  /\ rv = OK
  /\ runs = 0

Step ==
  /\ UNCHANGED runs
  /\ \/ wait_reset_register_autoclear
     \/ perform_cmac_reset_hardware_correct
     \/ perform_shell_reset_hardware_correct
     \/ perform_system_reset_hardware_correct
     \/ wait_reset_completion
     \/ perform_cmac_reset
     \/ perform_shell_reset
     \/ perform_system_reset
     \/ perform_user_reset
     \/ perform_cmac_gt_reset
     \/ wait_rx_lane_alignment
     \/ perform_cmac_reset_with_reinit
     \/ perform_shell_reset_fixed
     \/ perform_system_reset_fixed
     \/ smart_reset_strategy

Next ==
  \/ Start
  \/ Step
  \/ HwNext /\ UNCHANGED <<stack, rv, runs>>

\* The tool runs on the CPU whenever it has a step to take; the hardware is
\* given no fairness.
Spec == Init /\ [][Next]_vars /\ WF_vars(Step)

-----------------------------------------------------------------------------
(* Properties                                                              *)

\* A step in which the running function proc returns v.
Returns(proc, v) == Running(proc) /\ stack' = Tail(stack) /\ rv' = v

\* The functions that write the shell reset register and wait for it.
ResetProcs == {"cmac_hw", "shell_hw", "sys_hw", "cmac_base", "shell_base", "sys_base", "user_base"}

\* Port p is up: lanes aligned, RX on, TX enabled, flow control and RETA
\* programmed.
LinkUp(p) ==
  aligned[p] /\ cfg[p].rx /\ cfg[p].tx = "on" /\ cfg[p].fc /\ reta[p]

\* The ports a top-level operation re-initialises.
ReinitPorts(f) ==
  IF f.proc \in {"shell_fixed", "sys_fixed"} \/ (f.proc = "smart" /\ f.port = -1) THEN Ports
  ELSE IF f.proc \in {"smart", "reinit"} THEN {f.port} ELSE {}

\* When a reset function of reset_utils.c or reset_utils_final.c (the CMAC,
\* shell, system and user resets) returns 0, every domain whose bit it
\* wrote has been through its reset: none is still waiting to enter reset
\* or held in it.  Configuration written after the
\* return cannot be wiped by that reset.
ResetDoneMeansCleared ==
  [][\A pr \in ResetProcs : Returns(pr, OK) => Top.mask \cap rstReg = {}]_vars

\* Every operation the tool starts returns, whatever the hardware does: the
\* polling loops of the reset waits and of the lane-alignment wait are all
\* bounded, and the escalation inside the alignment wait happens at most once.
Terminates == stack # <<>> ~> stack = <<>>

\* When perform_cmac_reset_with_reinit returns 0 for a port, the port is up
\* at that moment: its lanes are aligned with RX and TX enabled, and flow
\* control and RETA are programmed.
BringUpReportsLinkUp ==
  [][\A p \in Ports : Returns("reinit", OK) /\ Top.port = p => LinkUp(p)']_vars

\* Spec 4.2: a CMAC reset always requests the subsystem together with its
\* adapter; requesting the subsystem alone leaves the adapter half-reset.
\* No write to the shell reset register starts a CMAC subsystem reset
\* without its adapter bit.
CmacResetsComposite ==
  [][\A p \in Ports : SubBit(p) \in rstReg' \ rstReg => AdpBit(p) \in rstReg']_vars

\* Spec 7: no error is silently swallowed.  When a top-level operation that
\* re-initialises ports returns 0, every one of those ports is up.
OperationSuccessMeansLinkUp ==
  [][Len(stack) = 1 /\ stack' = <<>> /\ rv' = OK =>
       \A p \in ReinitPorts(Top) : LinkUp(p)']_vars

=============================================================================
