# TLA+ models of the RecoNIC reset, bring-up and test tools

This directory holds TLA+ models of the user-space tools under `src/examples`,
the TLC configurations that check them, and `PROJECT.json`. That file lists
the components, runs, mutants, findings and hazards, and maps every modelled
definition to the C lines it translates.

## 1. The system (inventory)

The repository holds user-space test and recovery tools for the RecoNIC
SmartNIC. They drive the card through a memory-mapped CSR window (a BAR of
`/sys/bus/pci/.../resource2`) and through the QDMA character device.

| Part | Source | State it changes | Operations |
|---|---|---|---|
| Register access layer | `reset_utils.c` 89-137, `register_utils.c` 89-157 | device registers | `safe_write32_data`, `safe_read32_data` (offset bounds and alignment checks, then a barrier) |
| Reset orchestrator, baseline | `reset_utils.c` 191-569 | shell/system/user reset and status registers | `perform_{system,shell,user,cmac,cmac_gt}_reset`, `wait_reset_completion` (polls the *status* register), `check_*_status` |
| Reset orchestrator, hardware-correct | `reset_utils_final.c` 51-412 | same | `wait_reset_register_autoclear` (polls the self-clearing *reset* register), `perform_{cmac,shell,system}_reset_hardware_correct`, `smart_reset_strategy` |
| CMAC bring-up | `reset_utils_fixed.c` 59-456 | CMAC configuration registers, RX lane alignment, QDMA RETA | `perform_cmac_reset_with_reinit`: reset, RS-FEC, RX/TX, `wait_rx_lane_alignment` (one escalation reset), flow control, RETA; `perform_{cmac,shell,system}_reset_fixed` |
| Reset CLIs | `test_final_reset.c`, `test_fixed_reset.c`, `reset_test.c`, `interactive_reset_mode` | none of their own | choose one operation per invocation, or one per menu command |
| Diagnostics | `display_all_reset_status`, `diagnose_reset_issues` | none | read and print |
| Register test tool | `register_test/*` | device registers | read, write, and write-then-verify of one offset; interactive mode |
| RDMA read test | `rdma_test/read.c` | QP, PD, MR, device buffers, a TCP socket | server registers a buffer and sends its offset; client posts an RDMA READ WQE and reads the result back |
| DMA loopback test | `dma_test/dma_test.c` | device memory | write a pattern, read it back, compare |
| Kernel module metadata | `onic-driver/onic.mod.c` | none | generated by modpost |

How the parts interact. The reset tools are sequential C programs. The
concurrency that matters is between the tool and the hardware:

- a reset bit, once written, is cleared by the hardware when the subsystem
  has been through reset;
- a status bit drops and comes back on the hardware's own schedule;
- the CMAC lanes align on their own once RX is enabled.

Each poll of the tool is one read at one moment of that schedule. The three
generations of the reset code call each other:

- `smart_reset_strategy` (final) calls `perform_cmac_reset_with_reinit`
  (fixed);
- `perform_cmac_reset_with_reinit` calls `perform_cmac_reset` (baseline);
- the lane-alignment escalation also calls `perform_cmac_reset`.

So a "hardware-correct" operation still runs the baseline reset.

Hard behaviours the code is exposed to:

- the status register may lag the reset write (the baseline wait polls it);
- the two CMAC subsystems leave reset at different times;
- a CMAC reset wipes the port's configuration, so a configuration written
  before the reset has really happened is lost;
- the hardware may never finish: every loop is bounded by an elapsed-time
  budget;
- one escalation reset sits inside the alignment loop, and its own failure is
  ignored;
- several call sites print a failure and carry on (`smart_reset_strategy(-1)`,
  `perform_shell_reset_fixed`, `perform_system_reset_fixed`).

## 2. The plan

Modules, in order of importance:

1. `NicHw`: the hardware the reset tools drive: the system, shell and user
   reset domains, the GT resets, CMAC configuration and lane alignment. Done.
2. `ResetBringUp`: every reset of all three generations, the CMAC bring-up,
   `smart_reset_strategy`, and the operations each CLI dispatches to. It
   composes `NicHw` by EXTENDS. Done.
3. `RegisterTool`: the register test tool: option parsing, the single read
   and write, and the interactive mode's command parsing. Done.
4. `ResetContract`: an abstract specification of a reset request (request,
   each domain completes, success or timeout). `MC_ResetBringUp` shows with
   `INSTANCE ... WITH` that the hardware-correct resets implement it. Done.
5. `RdmaRead`: the server and client of `read.c` run against each other:
   the out-of-band offset exchange over TCP, the fill of the server's
   buffer, the RDMA READ and its asynchronous completion racing the
   client's read-back, the server's wait for Enter, and the option loop
   of `main` with the ARP lookup of the peer. Done.
6. `DmaLoopback`: the write/read/compare cycle of `dma_test.c`, against a
   transport that may fail or move short counts. Done, apart from option
   parsing.

Runs are named in section 4. The bounds are chosen so that each loop can end
in every way the code distinguishes: at the first poll, after a later poll, or
at its budget.

## 3. Modules

### NicHw (hardware; not in the repository)

The RTL is not in the repository. The module is the environment the C code
is written against. It is taken from the bit map and comments of
`reset_utils_final.c` and from spec sections 4.2 and 4.3.

State:

- `rstReg`: the bits of the reset registers (system 0x4, shell 0xC, user
  0x14) that read 1;
- `status`: the bits of the status registers (0x8, 0x10, 0x18) that read 1;
- per port: `cfg` (RS-FEC, RX, TX mode off/RFI/on, flow control), `aligned`,
  and `reta`.

Shell bits are named `qdma`, `rdma`, `c0sub`, `c0adp`, `c1sub` and `c1adp`
(bits 0, 1, 4, 5, 8 and 9); `sys` and `user` are bit 0 of the system and user
registers. Following spec 4.2, a system reset holds every shell subsystem and
the user logic in reset with it: `Held(b)` is true while b's own bit or the
system bit reads 1, and the system entering reset takes those domains along.

Hardware steps:

- `HwEnterReset`: the status drops, a CMAC subsystem loses its configuration
  and link, and QDMA loses RETA;
- `HwSelfClear`: a subsystem in reset has its bit cleared;
- `HwStatusUp`: the status comes back, possibly later;
- `HwAlign`: the lanes align when RX is on and the port is out of reset.

The constant `StatusLags` says whether a subsystem enters reset in the same
step as the write (`FALSE`), or may still read "done" for a while after it
(`TRUE`). Writes:

- `WriteReset`: a write to a reset register (0x4, 0xC or 0x14);
- `WriteGtReset`: a write to a port's GT reset register; the lanes lose
  alignment and realign on their own (`HwAlign`);
- `WriteCfg`: a write to CMAC configuration, ignored while the port is held
  in reset;
- `WriteReta`: a write to the QDMA RETA.

STAT_RX_STATUS latches a lost alignment (spec 4.3): `rxLatch[p]` is set
whenever the port loses alignment (a CMAC or GT reset) and is replaced by
`~aligned[p]` on every read (`ReadRxStatus`). A single read reports
aligned only when the lanes are aligned and no loss is latched.

These model `safe_write32_data` at those offsets. The offsets are
constants inside the 64 KiB window, so the error path never runs.

Modelling assumption: a CMAC subsystem reset returns that port's configuration
registers to their defaults. The whole reinit sequence of
`reset_utils_fixed.c` exists because of this.

### ResetBringUp (software)

The program is single-threaded. `stack` is its call stack. A frame holds:

- the function (`proc`);
- the point reached (`pc`);
- `port`;
- the reset `mask` written;
- the loop counters `cnt` (`elapsed/interval`, or `timeout_cnt`) and `rcnt`
  (`reset_cnt`).

`rv` carries a callee's return value to its caller.

One step is one register access plus the local computation around it. Each C
function is one operator with the source's name, with one disjunct per point
between register accesses:

- `wait_reset_register_autoclear`, `wait_reset_completion`;
- `perform_{cmac,shell,system}_reset_hardware_correct`, which share the shape
  `WriteAndWait(proc, mask, "autoclear")`;
- `perform_{cmac,shell,system,user}_reset`, which are
  `WriteAndWait(proc, mask, "wait_status")`;
- `perform_cmac_gt_reset` (write, return 0: there is no status to wait on);
- `wait_rx_lane_alignment`, `perform_cmac_reset_with_reinit`;
- `perform_{shell,system}_reset_fixed`, which share `ResetThenReinit`;
- `smart_reset_strategy`.

The register helpers are operators with the same names: `configure_cmac_rsfec`,
`configure_cmac_rxtx`, `configure_cmac_flow_control`, `initialize_reta_table`
and `check_rx_lane_aligned`.

What each tool can start is a set of entries: `FinalToolOps`
(`test_final_reset`), `FixedToolOps` (`test_fixed_reset`), `BaselineToolOps`
(`reset_test`) and `InteractiveOps` (the interactive menu). `Start` runs one
operation from `Entries`, and runs up to `MaxRuns` of them one after another:
the operator may run the tool again after a failure, and the interactive
mode runs one command after another.

Abstractions:

- Sleeps are left out, because the hardware may act between any two steps
  anyway.
- Prints are left out.
- The port guards (`port_id != 0 && != 1`) are left out, because the CLIs only
  pass 0, 1 or -1.
- `enable_rsfec` and `include_reinit` are always 1 at every call site.
- `check_rx_lane_aligned` reads STAT_RX_STATUS twice. The model's check in
  `wait_rx_lane_alignment` performs the read (`ReadRxStatus`, which resets
  the latch) and returns the live value, which is what the second of two
  reads yields. Both reads are one step, so no run shows what a hardware
  change between them would do.
- The status helpers `check_{system,shell,user,cmac}_reset_status` are one
  operator each; `ResetCompleted` is the switch of `wait_reset_completion`
  that picks one of them by the mask.
- The status read after the self-clear in the `*_hardware_correct` functions
  only prints, so it is left out.

`MC_ResetBringUp` defines the entry sets that the configurations substitute
for `Entries`, drawn from the tools' sets.

### RegisterTool (software)

`register_test` is sequential. `pc` is where `main` is. `conf` is its
`register_access_t`, `req` the access the user asked for with the current
command (what was typed), and `last` the register accesses the last step
performed (kind, offset, value). Register contents are left out: no property
depends on them.

- `ParseOptions`: the `getopt_long` loop as a fold (`ApplyOpt`) over the
  options, stopping at `-h` or an unknown option, then the two argument
  checks. `getopt_integer` returns the typed value, or an uninitialised one
  (`Garbage`) for a token that is not a number; `U32` is the `(uint32_t)`
  cast of the result, cut to `OffsetWidth` bits.
- `Dispatch`: not root (`-EPERM`), the BAR mapping failing (`-EIO`: the
  `open` or the `mmap` of `init_pcie_bar_mapping`), or the chosen operation.
- `interactive_register_access`: one turn of the loop per step; `EndOfInput`
  is `fgets` returning NULL, which breaks the loop.
- `perform_register_read`, `perform_register_write`: the accesses of
  `safe_read32_data`/`safe_write32_data`, which refuse an offset
  `is_valid_register_offset` rejects.
- `interactive_register_access`: one line per step, or end of input. `r` and
  `w` are parsed by trying the code's sscanf formats in order (`RPatterns`,
  `WPatterns`). `Conv` says what one directive (`0x%x` or `%u`) does with a
  token, and the recursive `Matches` says whether a whole format converts.

Text is abstracted to tokens: a number written as `0x...`, a decimal
number, or junk. `uint32_t` is `OffsetWidth` bits wide (8 in the
configurations, with a 64-byte window in place of 4 MiB), so the truncation
of a 64-bit value is kept.

### ResetContract (abstract) and the refinement

`ResetContract` says what one reset operation promises, with no registers or
polls: a caller `Call`s, the operation issues one `Request` of a set of
domains (one of `Requests`), each requested domain `Complete`s on its own,
and the call ends either with `Succeed`, allowed only once every requested
domain has completed, or with `TimeOut`, allowed at any time.

`MC_ResetBringUp` maps the detailed state onto it:

- `busy`: the tool's call stack is not empty;
- `asked`: the mask of the outermost frame (the operation `Start` began);
- `pending`: `rstReg`, the reset bits that still read 1;
- `outcome`: `"ok"` or `"timeout"` from the last run's return value.

`ContractSpec == Contract!Spec` is checked as a property of the final-resets
run. It fails if the hardware-correct wait accepts any bit of a mask, if an
operation writes a second request, or if it reports success while a requested
domain is still in reset.

### DmaLoopback (software and its transport)

`test_dma_with_verification` of `dma_test.c` is one process; `pc` is where
it is. `Open` (failure returns `-EINVAL`), `Alloc` (either
`posix_memalign` failing gives `-ENOMEM`), `Loop` (the `for` test; after
the last cycle `rc = 0`), `WriteCycle` (fill the pattern `(i + j) & 0xFF`
and `write_from_buffer`) and `ReadCycle` (clear the read buffer,
`read_to_buffer`, `memcmp`; a mismatch returns -1). `Out` is the `out:`
label. Buffers and the card memory at `addr` are functions from byte index
to byte.

The transport (`write_from_buffer`, `read_to_buffer`) is not in the
repository. A call returns `-EIO` or the number of bytes it moved, from 0
to `size` (`Results`); `Over` copies that many bytes. The card memory
starts with any of `InitDevs`: zeros, a constant, or the pattern an
earlier run of the test left there. The history variables `checked` (the
cycles memcmp found equal) and `short` (some transfer moved fewer than
`size` bytes) exist only for the properties.

### RdmaRead (software and its environment)

`read.c` is one program that is started on two hosts, meant to be run with
`-s` on one and `-c` on the other. The model runs both. `spc` and `cpc` are
where each host's `main` is, and `opts` what its option loop left.

- Options: `ServerParse` and `ClientParse` run the `getopt_long` loop
  (`Getopt`, a fold of `ApplyOpt` over the command line that stops at an
  `exit`) on one of the host's command lines (`Argvs`). Kept are the options
  that change what happens: `-s` and `-c` (the last one wins), `-z`, `-i`
  (runs `arp -a`; `ArpLookup`: "no match found" exits with 0, popen failing
  exits with 1, the first line containing "at" sets `dst_mac`, also from an
  `<incomplete>` entry), `-l` (`LocationRejected`, the check that can never
  reject), `-g` and `-h`. A host with neither `-s` nor `-c` runs the prologue
  and returns 0. A client without `-i` connects to `inet_addr("")`, which
  fails. The server's host is never given a final `-c`, nor the client's a
  final `-s` (an `ASSUME`).

- Server: `ServerSetup` is the prologue both peers run; opening the
  character device may fail with `-EINVAL`. Then come `ServerListen`,
  `ServerAccept`, `ServerFill` (allocate, register and `write_from_buffer`;
  only `rc < 0` jumps to `out`, and a short count sends the address of a
  buffer whose unwritten part holds an earlier run's pattern or junk), `ServerSend` (write the 8-byte offset),
  `ServerGetchar` (one `getchar` of the Enter loop) and `ServerClose`.
- Client: `ClientSetup`, `ClientConnect` (not checked; refused unless the
  server listens), `ClientRecv` (one `read` of the offset; any `rc > 0`
  is accepted, and 0 or an error returns -1), `ClientPost` (allocate
  `device_buffer`, build and post the READ; a failed post is only printed),
  `ClientFetch` (`read_to_buffer`) and `ClientCheck` (compare
  `payload_size >> 2` words).
- Environment: `Deliver` moves any number of the written bytes to the
  client (TCP may split a write); `RdmaComplete` executes a posted READ,
  which copies the server's buffer only for a whole offset, while the region
  is registered, within the server's payload, and when both QPs were given
  the peer's MAC address (`ReadAllowed`); `Type` and
  `CloseStdin` are the operator at the server's terminal.

Data are abstracted to what the comparison tells apart: `"golden"` (the
server's pattern), `"stale"` (the same `i % 10` pattern left in device memory
by an earlier run), `"junk"` and `"none"`. `MC_RdmaRead` gives the command
lines: the usual `-s -i <peer>` and `-c -i <peer>`, or a mixed set (below).

## 4. Runs

| Run | Config | Expect | What it shows |
|---|---|---|---|
| final_resets | `MC_final.cfg` | pass | `ContractSpec`: the hardware-correct system, shell and CMAC (port 0 or 1) resets, run twice against lagging status, implement `ResetContract`: one request per operation, success only after every requested bit has self-cleared. `Terminates`: every run returns whatever the hardware does, including a reset left pending by a timed-out run. |
| reinit | `MC_reinit.cfg` | pass | `BringUpReportsLinkUp`: for every re-initialising operation (fixed CMAC reset, fixed shell reset, smart strategy for one port and for all, plain resets) on prompt hardware, a success of `perform_cmac_reset_with_reinit` leaves the port aligned with RX, TX, flow control and RETA in place. This includes the escalation path. `Terminates`: every operation returns; the status polls, the lane-alignment wait and the one escalation reset nested in it are bounded whatever the hardware does (the hardware is not fair, so lanes may never align). `TypeOK` covers the counters staying within their ceilings. |
| simple_mask | `MC_simple_mask.cfg` | violation | `CmacResetsComposite`: the fixed CMAC reset writes the subsystem bit alone (spec 4.2 and its open question). |
| shell_any_bit | `MC_shell_any_bit.cfg` | violation | `ResetDoneMeansCleared`: the baseline shell reset returns 0 when one of the two CMAC subsystems is out of reset. |
| rdma | `MC_rdma.cfg` | pass | `ClientTerminates`: the client always exits, whether it connected before the server listened, the server died first or was started without `-s`, the client had no `-i`, or the exchange went through. `TypeOK` covers the exit statuses being 0 or negative. |
| rdma_eof | `MC_rdma_eof.cfg` | violation | `PromptEndsAtEof`: the server's wait for Enter spins for ever once stdin has ended. |
| rdma_unsound | `MC_rdma_unsound.cfg` | violation | `SuccessMeansDataRead`: the client prints "Data read successfully" from a device buffer its READ never wrote. |
| swallowed_failure | `MC_swallowed.cfg` | violation | `OperationSuccessMeansLinkUp`: `smart_reset_strategy(-1)` returns 0 with a port down. |
| regtool | `MC_regtool.cfg` | pass | `Terminates`: `register_test` with every kind of command line (each option, `-h`, unknown options, junk numbers, values 0 and 5 in both notations, offsets inside, past and above 2^32) and interactive line always ends; the interactive mode returns at the end of its input. Every path of the tool is reached. |
| reg_misread | `MC_reg_misread.cfg` | violation | `CommandHonoured`: started with each misread input (an offset above 2^32, `-w <offset> <value>` as the file's usage example writes it, `-r abc`, and the interactive `w 16 0x5`), the tool accesses or writes other data than typed. Each input alone gives a counterexample. |
| dma | `MC_dma.cfg` | pass | `SuccessMeansEveryCycleChecked`: the DMA test returns 0 only after memcmp found every one of its cycles equal, whatever the transport returns. `Terminates`: the test always ends. `TypeOK` covers the return values being 0 or negative. |
| dma_short | `MC_dma_short.cfg` | violation | `SuccessMeansDataMoved`: the DMA test returns 0 although a transfer moved fewer bytes than asked, because the card already held the pattern. |

Each property of a passing run has a mutant in `PROJECT.json`, a one-line
plausible bug that TLC must catch:

- an any-bit self-clear test;
- an elapsed time that never advances;
- a ceiling compared one too late;
- flow control without the final TX enable;
- a client read returning 0 taken as "nothing yet";
- `return EINVAL` with the minus dropped;
- `timeout_cnt++` left out of the lane-alignment loop;
- `rc = -ENOMEM` with the minus dropped;
- a failed DMA write leaving the loop by `break`, so `rc = 0` follows;
- a DMA mismatch retrying the cycle instead of failing;
- `fgets` returning NULL in the interactive register loop taken as an
  empty line.

`MC_reg_misread.cfg` gives `register_test` four misread inputs at once; each
was also checked alone and violates `CommandHonoured`.

### Bounds

| Code | Value in the code | Value in the model |
|---|---|---|
| self-clear polls (10 s / 1 ms) | 10000 | `AutoclearPolls` = 2 |
| status polls (5 s / 10 ms) | 500 | `StatusPolls` = 2 |
| escalate after (`LANE_ALIGNMENT_RESET_CNT`) | 8 | `AlignResetCnt` = 2 |
| ceiling (`LANE_ALIGNMENT_TIMEOUT_CNT`) | 32 | `AlignTimeoutCnt` = 3 |

Two polls are enough for each wait to end in every way the code tells apart:
at the first read, at a later read, or on timeout. The hardware may complete
before, between or after the reads.

The alignment counts keep the code's order: escalate first, with room left
after the escalation for the link to align or time out. The reinit run
explores all three outcomes.

The final-resets run starts each of `test_final_reset`'s system, shell and
CMAC resets. The reinit run starts every operation of `test_fixed_reset`,
`reset_test` and the interactive menu, and the smart strategy.

For `register_test`, `MaxLines` is 2 in the passing run, enough for a
command followed by `q` or by end of input. The violation runs need one line.

For `read.c`, the offset is 8 bytes, so `Deliver` can split it in every
way TCP can. `MaxKeys` = 2 lets the operator type a character and then
Enter, or Enter at once, before or after the client is done, with stdin
closed at any point. The mixed command lines give the server `-z` 4 or 8,
and the client 2, 4 or 8: a payload without a whole word, equal payloads,
and a client asking for more than the server registered. The server may
also lack `-s` or get an empty arp reply; the client may lack `-i`, get
`-h`, `-g`, an unknown `-l`, an incomplete arp entry, no entry, popen
failing, or `-s` followed by `-c`. Every branch of the option loop and of
the arp lookup is taken. The violation runs use the usual command lines.

`MaxRuns` is 2 for the final resets, so a run can meet a reset left pending by
an earlier timed-out run. It is 1 for the reinit operations, whose single run
already contains up to four resets.

For `dma_test.c`, sizes 0 to 2 and counts 0 to 2 cover the empty loop, an
empty transfer, one and several cycles, and a short transfer that moves some
of the bytes. Two cycles give two different patterns. The card may start
with zeros, a constant, the pattern of cycle 0, or that of cycle 1.

### Fairness

`Spec` has weak fairness on `Step`, the tool's own steps. A running process
gets the CPU, and every poll is a bounded loop. The hardware gets no fairness
at all: it may hang in any state. `Terminates` therefore states that the
tool's bounded loops end without help from the hardware. No property assumes
the hardware eventually completes or aligns.

`RdmaRead` has weak fairness on each peer's steps (each is a process the
operating system runs) and on `Deliver` (TCP delivers what was written to an
open connection). The RDMA engine (`RdmaComplete`) and the operator (`Type`,
`CloseStdin`) get none: the client never waits for the completion, and a
server's wait for the operator may last for ever. The rdma run has no
deadlock check: once both peers have exited nothing more happens.

`DmaLoopback` has weak fairness on the test's steps. Every transfer returns in the model (`Results` is never empty); the transport needs no fairness of its own.

`RegisterTool` has weak fairness on its steps: `register_test` is one
process. The input may end at any point, so `Terminates` does not depend on
the user typing q.

Deadlock checking is off in every configuration. `register_test` and
`dma_test` stop when `main` returns. After its last run the tool
has exited, and once the hardware is quiescent nothing can happen. That final
state is the expected end, not a deadlock.

## 5. Findings

See `PROJECT.json` "findings". In short:

- The CMAC reset used by every "fixed" reinit and by the escalation writes the
  subsystem bit without the adapter.
- The baseline waits accept either CMAC bit for a shell reset.
- `smart_reset_strategy(-1)` and `perform_shell_reset_fixed` swallow port
  failures.
- `register_test -w <offset> <value>`, as its own header documents it, writes
  0; an offset above 2^32 wraps onto a register, a number that does not
  parse accesses an uninitialised offset, and the interactive `w 16 0x5`
  writes 0.
- The DMA loopback test accepts short transfers, so a card that still holds
  an earlier run's pattern passes without any data crossing the DMA path.
- The RDMA read server never exits once its stdin has ended.
- The RDMA read client reports success without knowing that its READ
  completed, or even was posted.

The model also reproduces, with no run stating them, the loss of RS-FEC by
the escalation reset, the 33 checks of the alignment wait, and a baseline
wait accepting a status bit left from before the reset (on lagging
hardware), the RDMA read server sending the address of a buffer that
`write_from_buffer` filled only in part, the RDMA read test's `-l`
check that can never reject a location, and its `exit(0)` when arp has no
entry for the peer; they are listed as hazards.

## 6. Not modelled (yet) and why

- Diagnostics only read and print.
- `onic.mod.c` is generated metadata.
- The reset CLIs' option parsing and confirmation prompts. A cancelled
  prompt changes nothing. The parsing only selects one of the entries of
  the tool's set.
- The reset tool's own access layer (`reset_utils.c` 89-137) is modelled
  only through the constant offsets its callers pass. Its signed check would
  accept a negative offset, but no caller computes one.
- `read.c`'s options that only store a value (`-d`, `-p`, `-r`, `-u`, `-t`,
  `-q`; ports and addresses are assumed to agree between the hosts), the
  register and error-buffer dumps, which only print, and two hosts both
  started as server or both as client.
- `dma_test.c`'s `main` (option parsing) and `dump_buffers`, which only
  prints. Size and count are chosen from small sets instead.
