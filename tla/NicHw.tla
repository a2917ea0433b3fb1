------------------------------- MODULE NicHw -------------------------------
(***************************************************************************)
(* The hardware the RecoNIC reset tools drive through the CSR window, as   *)
(* far as their behaviour depends on it:                                   *)
(*   - the reset registers (SYSCFG offsets 0x4 system, 0xC shell, 0x14     *)
(*     user): a written bit starts the reset of one domain and is cleared  *)
(*     by the hardware once that domain has been through reset            *)
(*     (self-clearing); a system reset holds every shell subsystem and the *)
(*     user logic in reset with it (spec 4.2);                             *)
(*   - the status registers (0x8, 0x10, 0x18): a bit reads 1 while the     *)
(*     domain is out of reset ("reset done");                             *)
(*   - per CMAC port, the GT reset register, whose write drops the link;   *)
(*   - per CMAC port, the configuration registers the bring-up writes      *)
(*     (RS-FEC, CONF_RX_1, CONF_TX_1, flow control) and the RX lane        *)
(*     alignment the port reaches on its own once RX is enabled, and the   *)
(*     clear-on-read latch of STAT_RX_STATUS (spec 4.3);                   *)
(*   - per port, the QDMA indirection (RETA) table.                        *)
(* The RTL is not part of the repository: this is the environment the C   *)
(* code is written against, taken from the header comment and bit map of   *)
(* reset_utils_final.c and from the reset and bring-up sections of the    *)
(* specification.  Every hardware step is a separate action, so the model  *)
(* explores every interleaving of the tool's reads and writes with it.     *)
(***************************************************************************)
EXTENDS FiniteSets

CONSTANT StatusLags   \* TRUE: a subsystem's status bit may still read 1 for
                      \* a while after its reset bit has been written

ASSUME StatusLags \in BOOLEAN

VARIABLES
  rstReg,    \* the bits of the reset registers that read 1
  status,    \* the bits of the status registers that read 1
  cfg,       \* per port: the CMAC configuration registers
  aligned,   \* per port: the RX lanes are aligned
  rxLatch,   \* per port: STAT_RX_STATUS has latched a loss of alignment
             \* that no read has cleared yet
  reta       \* per port: the QDMA indirection table is programmed

hwVars == <<rstReg, status, cfg, aligned, rxLatch, reta>>

Ports == {0, 1}

\* Bit map of the shell reset and status registers (bits 4/5 and 8/9).
SubBit(p) == IF p = 0 THEN "c0sub" ELSE "c1sub"
AdpBit(p) == IF p = 0 THEN "c0adp" ELSE "c1adp"
ShellBits == {"qdma", "rdma"} \cup {SubBit(p) : p \in Ports} \cup {AdpBit(p) : p \in Ports}
\* bit0 of the system and of the user reset/status registers
Bits == ShellBits \cup {"sys", "user"}

\* The domains a system reset holds in reset with it.
SysDomain == ShellBits \cup {"user"}
Subsumed(B) == IF "sys" \in B THEN B \cup SysDomain ELSE B

\* CONF_TX_1 holds 0 after reset, 0x10 (send remote fault indication) while
\* the lanes align, 0x1 (transmit enabled) once flow control is programmed.
TxModes == {"off", "rfi", "on"}
Cfgs == [rsfec : BOOLEAN, rx : BOOLEAN, tx : TxModes, fc : BOOLEAN]
CfgDefault == [rsfec |-> FALSE, rx |-> FALSE, tx |-> "off", fc |-> FALSE]
CfgUp == [rsfec |-> TRUE, rx |-> TRUE, tx |-> "on", fc |-> TRUE]

\* A domain is held while its own reset bit, or the system's, reads 1; it
\* is in reset from the moment its status drops until it is no longer held.
Held(b) == b \in rstReg \/ (b \in SysDomain /\ "sys" \in rstReg)
InReset(b) == Held(b) /\ b \notin status

HwTypeOK ==
  /\ rstReg \subseteq Bits
  /\ status \subseteq Bits
  /\ cfg \in [Ports -> Cfgs]
  /\ aligned \in [Ports -> BOOLEAN]
  /\ rxLatch \in [Ports -> BOOLEAN]
  /\ reta \in [Ports -> BOOLEAN]

\* The tools are run against a card the driver has loaded: no reset is in
\* progress, and each port is either fully up or was never brought up; the
\* last read of STAT_RX_STATUS found the lanes as they are.
HwInit ==
  /\ rstReg = {}
  /\ status = Bits
  /\ \E up \in [Ports -> BOOLEAN] :
       /\ cfg = [p \in Ports |-> IF up[p] THEN CfgUp ELSE CfgDefault]
       /\ aligned = up
       /\ rxLatch = [p \in Ports |-> ~up[p]]
       /\ reta = up

\* Domains B enter reset, the system's taking the domains it holds along:
\* their status drops, a CMAC subsystem returns its configuration registers
\* to their defaults and loses its link (which STAT_RX_STATUS latches), QDMA
\* loses the indirection tables.
EnterReset(B) ==
  LET R == Subsumed(B) IN
  /\ status' = status \ R
  /\ cfg' = [p \in Ports |-> IF SubBit(p) \in R THEN CfgDefault ELSE cfg[p]]
  /\ aligned' = [p \in Ports |-> aligned[p] /\ SubBit(p) \notin R]
  /\ rxLatch' = [p \in Ports |-> rxLatch[p] \/ SubBit(p) \in R]
  /\ reta' = IF "qdma" \in R THEN [p \in Ports |-> FALSE] ELSE reta

\* safe_write32_data to a reset register (SYSCFG_OFFSET_SYSTEM_RESET,
\* _SHELL_RESET or _USER_RESET) with mask: the written bits read 1 from now
\* on; zero bits leave a reset in progress alone.  Unless the status lags,
\* the domains enter reset with the write.
WriteReset(mask) ==
  /\ rstReg' = rstReg \cup mask
  /\ IF StatusLags
       THEN UNCHANGED <<status, cfg, aligned, rxLatch, reta>>
       ELSE EnterReset(mask \cap status)

\* safe_write32_data to the CMAC configuration registers of port p: a port
\* held in reset ignores the write.
WriteCfg(p, new) ==
  /\ cfg' = IF InReset(SubBit(p)) THEN cfg ELSE [cfg EXCEPT ![p] = new]
  /\ UNCHANGED <<rstReg, status, aligned, rxLatch, reta>>

\* safe_write32_data to the QDMA function registers of port p.
WriteReta(p) ==
  /\ reta' = IF InReset("qdma") THEN reta ELSE [reta EXCEPT ![p] = TRUE]
  /\ UNCHANGED <<rstReg, status, cfg, aligned, rxLatch>>

\* safe_write32_data(base, CMAC_OFFSET_GT_RESET(p), 0x1): the transceivers
\* restart and the lanes lose alignment; the register has no status.
WriteGtReset(p) ==
  /\ aligned' = [aligned EXCEPT ![p] = FALSE]
  /\ rxLatch' = [rxLatch EXCEPT ![p] = TRUE]
  /\ UNCHANGED <<rstReg, status, cfg, reta>>

\* One read of STAT_RX_STATUS(p) reads 0x3 only if the lanes are aligned
\* and have not lost alignment since the previous read.  The read clears
\* the latch; lanes still unaligned latch again at once.
ReadRxStatus(p) ==
  /\ rxLatch' = [rxLatch EXCEPT ![p] = ~aligned[p]]
  /\ UNCHANGED <<rstReg, status, cfg, aligned, reta>>

-----------------------------------------------------------------------------
(* Hardware steps.  None is fair: the hardware may hang in any state, and  *)
(* the tool's bounded polling has to cope with that.                       *)

\* A held domain enters reset (only separate from the write when the status
\* lags).
HwEnterReset(b) ==
  /\ Held(b)
  /\ b \in status
  /\ EnterReset({b})
  /\ UNCHANGED rstReg

\* The domain has been through reset: the hardware clears its bit.
HwSelfClear(b) ==
  /\ b \in rstReg
  /\ InReset(b)
  /\ rstReg' = rstReg \ {b}
  /\ UNCHANGED <<status, cfg, aligned, rxLatch, reta>>

\* The status bit follows, possibly later (a ResetIncomplete window).
HwStatusUp(b) ==
  /\ ~Held(b)
  /\ b \notin status
  /\ status' = status \cup {b}
  /\ UNCHANGED <<rstReg, cfg, aligned, rxLatch, reta>>

\* With RX enabled and the port out of reset, the lanes align.
HwAlign(p) ==
  /\ ~aligned[p]
  /\ cfg[p].rx
  /\ ~InReset(SubBit(p))
  /\ aligned' = [aligned EXCEPT ![p] = TRUE]
  /\ UNCHANGED <<rstReg, status, cfg, rxLatch, reta>>

HwNext ==
  \/ \E b \in Bits : HwEnterReset(b) \/ HwSelfClear(b) \/ HwStatusUp(b)
  \/ \E p \in Ports : HwAlign(p)

=============================================================================
