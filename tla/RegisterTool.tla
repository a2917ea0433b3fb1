----------------------------- MODULE RegisterTool -----------------------------
(***************************************************************************)
(* The register access layer and the register test tool                   *)
(* (src/examples/register_test).                                           *)
(*                                                                         *)
(* A run is one invocation of register_test: its options are parsed, the  *)
(* BAR is mapped, and it performs one read, one write, or the commands of  *)
(* the interactive mode.  The register contents are left out: what is     *)
(* checked is where each access lands and what value each write carries,  *)
(* so a step records the accesses it performs in last.                    *)
(*                                                                         *)
(* Text is abstracted to tokens: a number typed in hexadecimal with 0x,   *)
(* in decimal, or something that is not a number.  The conversions of     *)
(* sscanf and getopt_integer are modelled by what they do with each kind  *)
(* of token.  Integer widths are a constant: uint32_t is OffsetWidth bits *)
(* wide and the uint64_t of getopt_integer twice as wide.                 *)
(***************************************************************************)
EXTENDS Integers, Sequences, SequencesExt

CONSTANTS
  OffsetWidth,   \* the width of uint32_t (32)
  RegMapSize,    \* REG_MAP_SIZE of register_utils.h (0x400000)
  Argvs,         \* the command lines register_test is started with
  Lines,         \* the lines the interactive mode may read
  MaxLines,      \* the lines read before stdin ends
  Garbage        \* values an uninitialised uint64_t may hold

ASSUME /\ OffsetWidth \in Nat \ {0}
       /\ RegMapSize \in 1..2^OffsetWidth
       /\ MaxLines \in Nat

VARIABLES
  pc,      \* where main is: "parse", "dispatch", "read", "write",
           \* "interactive" or "done"
  argv,    \* the options of this invocation
  conf,    \* register_access_t after option parsing
  req,     \* the access the user asked for with the current command, or NoReq
  last,    \* the register accesses of the last step
  nlines,  \* lines the interactive mode has read
  ret      \* the exit code, once main returns

vars == <<pc, argv, conf, req, last, nlines, ret>>

EINVAL == -22
EPERM == -1
EIO == -5

NoReq == [kind |-> "none", off |-> -1, val |-> -1]

\* (uint32_t)x.
U32(x) == x % 2^OffsetWidth

-----------------------------------------------------------------------------
(* The access layer                                                       *)

\* The off_t offset is passed to a uint32_t parameter: offset >= REG_MAP_SIZE
\* and offset & 0x3 are tested on its low 32 bits.
is_valid_register_offset(o) == ~(U32(o) >= RegMapSize) /\ U32(o) % 4 = 0

\* safe_read32_data and safe_write32_data: no access and -EINVAL when the
\* offset is refused, else one access at base + offset.
Access(kind, o, v) ==
  IF is_valid_register_offset(o) THEN {[kind |-> kind, off |-> o, val |-> v]} ELSE {}
AccessRet(o) == IF is_valid_register_offset(o) THEN 0 ELSE EINVAL

-----------------------------------------------------------------------------
(* Option parsing                                                         *)

\* getopt_integer: sscanf "0x%lx", else "%lu"; when neither converts, the
\* uninitialised value g is returned.
getopt_integer(t, g) == IF t.fmt = "junk" THEN g ELSE t.val

\* One option of the getopt_long loop, g the value getopt_integer returns for
\* a token that is not a number; getopt_long moves a non-option argument
\* behind optind, so it only makes optind < argc.
ApplyOpt(c, o, g) ==
  LET n == U32(getopt_integer(o.tok, g)) IN
  CASE o.opt = "r" -> [c EXCEPT !.offset = n, !.isWrite = FALSE, !.specified = TRUE]
    [] o.opt = "w" -> [c EXCEPT !.offset = n, !.isWrite = TRUE, !.specified = TRUE]
    [] o.opt = "v" -> [c EXCEPT !.value = n]
    [] o.opt = "i" -> [c EXCEPT !.interactive = TRUE, !.specified = TRUE]
    [] o.opt = "pos" -> [c EXCEPT !.positional = TRUE]

ConfDefault ==
  [offset |-> 0, value |-> 0, isWrite |-> FALSE, interactive |-> FALSE,
   specified |-> FALSE, positional |-> FALSE]

\* What the user asks for: the last of -r and -w with its offset, for a
\* write with the value of -v or the value given after the offset as in the
\* file's usage example (register_test -w 0x103000 0x12345678).
CliRequest(args) ==
  LET ops == SelectSeq(args, LAMBDA o : o.opt \in {"r", "w"})
      vs == SelectSeq(args, LAMBDA o : o.opt \in {"v", "pos"})
      op == Last(ops)
  IN IF ops = <<>> \/ op.tok.fmt = "junk" THEN NoReq
     ELSE IF op.opt = "r" THEN [kind |-> "read", off |-> op.tok.val, val |-> -1]
     ELSE IF vs = <<>> \/ Last(vs).tok.fmt = "junk" THEN NoReq
     ELSE [kind |-> "write", off |-> op.tok.val, val |-> Last(vs).tok.val]

\* main, lines 226-288: the getopt_long loop, which stops at -h or an unknown
\* option, then the checks that an operation, and for a write a value, was
\* given.  A write whose value is 0 without a further argument counts as a
\* write without -v.
ParseOptions ==
  /\ pc = "parse"
  /\ \E g \in Garbage :
       LET stop == SelectInSeq(argv, LAMBDA o : o.opt \in {"h", "?"})
           c == FoldLeft(LAMBDA cc, o : ApplyOpt(cc, o, g), ConfDefault,
                         IF stop = 0 THEN argv ELSE SubSeq(argv, 1, stop - 1))
       IN /\ conf' = c
          /\ CASE stop # 0 -> pc' = "done" /\ ret' = IF argv[stop].opt = "h" THEN 0 ELSE EINVAL
               [] ~c.specified -> pc' = "done" /\ ret' = EINVAL
               [] c.isWrite /\ c.value = 0 /\ ~c.positional -> pc' = "done" /\ ret' = EINVAL
               [] OTHER -> pc' = "dispatch" /\ UNCHANGED ret
  /\ req' = CliRequest(argv)
  /\ last' = {}
  /\ UNCHANGED <<argv, nlines>>

\* init_pcie_bar_mapping: open the resource file, then mmap REG_MAP_SIZE
\* bytes of it; a failure of either returns NULL.  (The check for NULL
\* arguments cannot fire: pcie_resource has a strdup'ed default.)
init_pcie_bar_mapping == {"mapped", "open_fails", "mmap_fails"}

\* main, lines 290-335: not root, or the BAR cannot be mapped, ends the
\* run; otherwise the operation is chosen.
Dispatch ==
  /\ pc = "dispatch"
  /\ \/ pc' = "done" /\ ret' = EPERM
     \/ \E m \in init_pcie_bar_mapping :
          IF m = "mapped"
            THEN /\ pc' = IF conf.interactive THEN "interactive"
                          ELSE IF conf.isWrite THEN "write" ELSE "read"
                 /\ UNCHANGED ret
            ELSE pc' = "done" /\ ret' = EIO
  /\ last' = {}
  /\ UNCHANGED <<argv, conf, req, nlines>>

perform_register_read ==
  /\ pc = "read"
  /\ last' = Access("read", conf.offset, 0)
  /\ ret' = AccessRet(conf.offset)
  /\ pc' = "done"
  /\ UNCHANGED <<argv, conf, req, nlines>>

\* Read the old value (a failure only skips the print), write, read back.
perform_register_write ==
  /\ pc = "write"
  /\ last' = Access("read", conf.offset, 0) \cup Access("write", conf.offset, conf.value)
  /\ ret' = AccessRet(conf.offset)
  /\ pc' = "done"
  /\ UNCHANGED <<argv, conf, req, nlines>>

-----------------------------------------------------------------------------
(* interactive_register_access                                            *)

\* One sscanf conversion of a token: "hex" is the directive 0x%x, "dec" is
\* %u.  %u reads the leading 0 of a hexadecimal token and stops at the x,
\* where the next directive then fails.
Conv(d, t) ==
  CASE t.fmt = "junk" -> [ok |-> FALSE, val |-> 0, rest |-> FALSE]
    [] d = t.fmt      -> [ok |-> TRUE, val |-> t.val, rest |-> TRUE]
    [] d = "dec"      -> [ok |-> TRUE, val |-> 0, rest |-> FALSE]
    [] OTHER          -> [ok |-> FALSE, val |-> 0, rest |-> FALSE]

\* sscanf(input, "%c ds[1] ds[2] ...") converts every directive: each
\* conversion succeeds and each but the last leaves the input at the next
\* token.
RECURSIVE Matches(_, _)
Matches(ds, ts) ==
  IF ds = <<>> THEN TRUE
  ELSE /\ ts # <<>>
       /\ Conv(Head(ds), Head(ts)).ok
       /\ Tail(ds) = <<>> \/ Conv(Head(ds), Head(ts)).rest
       /\ Matches(Tail(ds), Tail(ts))

\* The formats tried in turn for r and for w; the values of the first that
\* converts everything, or <<>>.
RPatterns == <<<<"hex">>, <<"dec">>>>
WPatterns == <<<<"hex", "hex">>, <<"dec", "dec">>, <<"hex", "dec">>, <<"dec", "hex">>>>
Scan(pats, ts) ==
  LET i == SelectInSeq(pats, LAMBDA ds : Matches(ds, ts))
  IN IF i = 0 THEN <<>> ELSE [k \in DOMAIN pats[i] |-> U32(Conv(pats[i][k], ts[k]).val)]

\* The access a command line asks for.
LineRequest(l) ==
  IF l.cmd = "r" /\ Len(l.toks) >= 1 /\ l.toks[1].fmt # "junk"
    THEN [kind |-> "read", off |-> l.toks[1].val, val |-> -1]
  ELSE IF l.cmd = "w" /\ Len(l.toks) >= 2 /\ l.toks[1].fmt # "junk" /\ l.toks[2].fmt # "junk"
    THEN [kind |-> "write", off |-> l.toks[1].val, val |-> l.toks[2].val]
  ELSE NoReq

\* (mutant) fgets returning NULL taken as an empty line: the loop goes on.
EndOfInputIgnored == last' = {} /\ UNCHANGED <<pc, ret, req, nlines>>

\* if (!fgets(input, sizeof(input), stdin)) break;  and main returns 0.
EndOfInput == pc' = "done" /\ ret' = 0 /\ last' = {} /\ UNCHANGED <<req, nlines>>

\* One turn of the loop: end of input or q return 0; r reads; w writes and
\* reads back once the user confirms; h, an empty line, an unknown command,
\* a format error or a cancelled write access nothing.
interactive_register_access ==
  /\ pc = "interactive"
  /\ \/ EndOfInput
     \/ /\ nlines < MaxLines
        /\ nlines' = nlines + 1
        /\ \E l \in Lines :
             LET r == Scan(RPatterns, l.toks)
                 w == Scan(WPatterns, l.toks)
             IN /\ req' = LineRequest(l)
                /\ CASE l.cmd = "q" -> pc' = "done" /\ ret' = 0 /\ last' = {}
                     [] l.cmd = "r" /\ r # <<>> ->
                          last' = Access("read", r[1], 0) /\ UNCHANGED <<pc, ret>>
                     [] l.cmd = "w" /\ w # <<>> /\ l.confirm ->
                          /\ last' = Access("write", w[1], w[2]) \cup Access("read", w[1], 0)
                          /\ UNCHANGED <<pc, ret>>
                     [] OTHER -> last' = {} /\ UNCHANGED <<pc, ret>>
  /\ UNCHANGED <<argv, conf>>

-----------------------------------------------------------------------------

Init ==
  /\ pc = "parse"
  /\ argv \in Argvs
  /\ conf = ConfDefault
  /\ req = NoReq
  /\ last = {}
  /\ nlines = 0
  /\ ret = 0

Next ==
  \/ ParseOptions
  \/ Dispatch
  \/ perform_register_read
  \/ perform_register_write
  \/ interactive_register_access

\* The tool is one process the operating system runs; it ends when main
\* returns, and nothing runs after that.
Spec == Init /\ [][Next]_vars /\ WF_vars(Next)

-----------------------------------------------------------------------------
(* Properties                                                             *)

\* Spec 4.1 and 8: an offset the window cannot hold is refused, and a value
\* is written as given.  Every register access of register_test is at the
\* offset the user typed, and every write stores the value the user typed,
\* on the command line (-r, -w with -v or a following value) and in the
\* interactive mode (r and w with decimal or 0x-hexadecimal numbers).
CommandHonoured ==
  [][\A a \in last' : a.off = req'.off /\ (a.kind = "write" => a.val = req'.val)]_vars

\* register_test always ends: every command line leads to one access or
\* none, and the interactive mode returns on q or at the end of its input
\* (fgets returning NULL breaks the loop, as the RDMA server's getchar loop
\* does not), however many lines it read and whatever they held.
Terminates == <>(pc = "done")

=============================================================================
