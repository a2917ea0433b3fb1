--------------------------- MODULE MC_ResetBringUp ---------------------------
(***************************************************************************)
(* Instances of ResetBringUp for TLC.  The polling budgets are cut from    *)
(* thousands of reads to two: a budget of two already lets the hardware    *)
(* finish on the first read, between the reads, or never, which are the   *)
(* cases the code distinguishes.  The lane-alignment counts keep their     *)
(* order (escalate before the timeout) with 2 and 3 in place of 8 and 32.  *)
(***************************************************************************)
EXTENDS ResetBringUp

\* test_final_reset.c: the system, shell and CMAC resets (options 1-3).
MCEntriesFinal == {e \in FinalToolOps : e.proc # "smart"}

\* Every operation that re-initialises ports (test_fixed_reset.c and the
\* smart strategy of test_final_reset.c), and the plain resets of
\* reset_test.c and of the interactive mode.
MCEntriesReinit ==
  FixedToolOps \cup {e \in FinalToolOps : e.proc = "smart"} \cup BaselineToolOps

MCEntriesCmacFixed == {Entry("reinit", 0)}
MCEntriesShellBase == {Entry("shell_base", -1)}
MCEntriesSmartAll == {Entry("smart", -1)}

-----------------------------------------------------------------------------
(* The resets of test_final_reset implement ResetContract.  The operation *)
(* is the bottom frame of the call stack; what it requested is the mask   *)
(* it wrote; the pending requests are the bits of the reset registers     *)
(* that still read 1; its outcome is the value main sees returned.         *)

Outcome ==
  IF stack # <<>> \/ runs = 0 THEN "none"
  ELSE IF rv = OK THEN "ok" ELSE "timeout"

Contract == INSTANCE ResetContract WITH
  Domains <- Bits,
  Requests <- {CmacCompositeMask(p) : p \in Ports} \cup {ShellAllMask, {"sys"}},
  busy <- stack # <<>>,
  asked <- IF stack = <<>> THEN {} ELSE stack[Len(stack)].mask,
  pending <- rstReg,
  outcome <- Outcome

\* Every behaviour of the hardware-correct resets, run one after another
\* against the hardware, is a behaviour of the contract: each operation
\* writes its request once, a bit leaves the reset register only as its
\* domain completes, and success is only reported once every requested
\* domain has completed.
ContractSpec == Contract!Spec

=============================================================================
