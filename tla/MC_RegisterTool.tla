--------------------------- MODULE MC_RegisterTool ---------------------------
(***************************************************************************)
(* Instances of RegisterTool for TLC.  uint32_t is cut to 8 bits and the  *)
(* window to 64 bytes, keeping REG_MAP_SIZE a multiple of 4 below 2^32    *)
(* and an offset of 2^32 + 4 representable in getopt_integer's uint64_t. *)
(* The tokens are the numbers that tell the cases of the code apart: an   *)
(* aligned offset inside the window in either notation, an unaligned one, *)
(* the first offset past the window, one that only fits in 64 bits, and  *)
(* the values 0 and 5 in either notation.                                 *)
(***************************************************************************)
EXTENDS RegisterTool

Hex(v) == [fmt |-> "hex", val |-> v]
Dec(v) == [fmt |-> "dec", val |-> v]
Junk == [fmt |-> "junk", val |-> 0]

Opt(o, t) == [opt |-> o, tok |-> t]
Flag(o) == Opt(o, Junk)

Line(cmd, toks, confirm) == [cmd |-> cmd, toks |-> toks, confirm |-> confirm]

MCOffsets == {Hex(16), Dec(16), Hex(2), Hex(64), Hex(260)}
MCValues == {Hex(5), Dec(5), Hex(0), Dec(0)}

\* Command lines: each operation with each offset, a write with -v, with a
\* following value, or with neither, a value given twice, options that
\* end parsing, and a number that does not parse.
MCArgvs ==
  {<<Opt("r", t)>> : t \in MCOffsets}
  \cup {<<Opt("w", Hex(16)), Opt("v", v)>> : v \in MCValues}
  \cup {<<Opt("w", t), Opt("v", Hex(5))>> : t \in MCOffsets}
  \cup {<<Opt("w", Hex(16))>>, <<Opt("w", Hex(16)), Opt("pos", Hex(5))>>,
        <<Opt("r", Hex(16)), Opt("w", Junk), Opt("v", Hex(5))>>,
        <<Opt("v", Hex(5))>>, <<Flag("h"), Opt("r", Hex(16))>>,
        <<Opt("r", Hex(16)), Flag("?")>>, <<Flag("i")>>}

\* Interactive lines.
MCLines ==
  {Line("r", <<t>>, FALSE) : t \in MCOffsets}
  \cup {Line("w", <<o, v>>, c) : o \in {Hex(16), Dec(16), Hex(64)}, v \in {Hex(5), Dec(5)}, c \in BOOLEAN}
  \cup {Line("w", <<Hex(16)>>, TRUE), Line("r", <<Junk>>, FALSE), Line("h", <<>>, FALSE),
        Line("q", <<>>, FALSE), Line("x", <<>>, FALSE), Line("empty", <<>>, FALSE)}

MCGarbage == {0, 7}

\* The inputs that make the tool carry out a command on other data than
\* typed: an offset past 2^32 (cut to uint32_t), a value after the offset
\* with no -v, a number that does not parse, and an interactive write of a
\* decimal offset and a 0x value.
MCArgvsTruncate == {<<Opt("r", Hex(260))>>}
MCArgvsPositional == {<<Opt("w", Hex(16)), Opt("pos", Hex(5))>>}
MCArgvsInteractive == {<<Flag("i")>>}
MCArgvsGarbage == {<<Opt("r", Junk)>>}
MCArgvsMisread ==
  MCArgvsTruncate \cup MCArgvsPositional \cup MCArgvsInteractive \cup MCArgvsGarbage
MCLinesDecHex == {Line("w", <<Dec(16), Hex(5)>>, TRUE)}

=============================================================================
