---------------------------- MODULE ResetContract ----------------------------
(***************************************************************************)
(* What a reset operation of the tools promises (spec 4.2 and 7), with    *)
(* no registers, polling or timing: an operation requests the reset of a  *)
(* set of domains once; the hardware completes the requested domains one  *)
(* by one, in any order and at any time; the operation ends either with   *)
(* success, which it may only report once every domain it requested has   *)
(* completed, or with a timeout, which leaves the requests pending.  A    *)
(* request still pending from a timed-out operation is merged with the    *)
(* next one's.                                                             *)
(***************************************************************************)
CONSTANTS
  Domains,    \* the domains of the reset registers
  Requests    \* the sets of domains an operation can request together

ASSUME Requests \subseteq SUBSET Domains

VARIABLES
  busy,      \* an operation is running
  asked,     \* the domains the running operation requested, {} before
  pending,   \* the domains requested and not yet through their reset
  outcome    \* how the last operation ended: "none", "ok" or "timeout"

vars == <<busy, asked, pending, outcome>>

TypeOK ==
  /\ busy \in BOOLEAN
  /\ asked \subseteq Domains /\ pending \subseteq Domains
  /\ outcome \in {"none", "ok", "timeout"}

Init == ~busy /\ asked = {} /\ pending = {} /\ outcome = "none"

\* The operator starts an operation.
Call ==
  /\ ~busy
  /\ busy' = TRUE /\ outcome' = "none"
  /\ UNCHANGED <<asked, pending>>

\* The operation requests the reset of B, once.
Request(B) ==
  /\ busy /\ asked = {} /\ B \in Requests /\ B # {}
  /\ asked' = B /\ pending' = pending \cup B
  /\ UNCHANGED <<busy, outcome>>

\* The hardware completes the reset of a requested domain.
Complete(d) ==
  /\ d \in pending
  /\ pending' = pending \ {d}
  /\ UNCHANGED <<busy, asked, outcome>>

\* The operation reports success: everything it asked for is done.
Succeed ==
  /\ busy /\ asked # {} /\ asked \cap pending = {}
  /\ busy' = FALSE /\ asked' = {} /\ outcome' = "ok"
  /\ UNCHANGED pending

\* The operation gives up and reports a timeout.
TimeOut ==
  /\ busy /\ asked # {}
  /\ busy' = FALSE /\ asked' = {} /\ outcome' = "timeout"
  /\ UNCHANGED pending

Next ==
  \/ Call \/ Succeed \/ TimeOut
  \/ \E B \in Requests : Request(B)
  \/ \E d \in Domains : Complete(d)

Spec == Init /\ [][Next]_vars

=============================================================================
