----------------------------- MODULE MC_RdmaRead -----------------------------
(***************************************************************************)
(* Instances of RdmaRead for TLC.  Each host is started with one of a few  *)
(* command lines.  The usual ones are "read -s -i <peer>" and "read -c -i *)
(* <peer>" with the default payload of 4 bytes (one word).  The mixed set  *)
(* adds 8 bytes (two words) and 2 bytes (a -z below one word), a server    *)
(* started without -s or with an empty arp reply, and clients started      *)
(* without -i, with -h, with an invalid -l, with no arp entry, an          *)
(* incomplete one, or popen failing.  Two characters of input are enough  *)
(* for a stray key before Enter.                                           *)
(***************************************************************************)
EXTENDS RdmaRead

Opt(o) == [o |-> o, v |-> "-"]
Z(n) == [o |-> "z", v |-> n]
I(r) == [o |-> "i", v |-> r]
L(q) == [o |-> "l", v |-> q]

MCPayloadsSame == {4}
MCArgvsUsual ==
  [server |-> {<<Opt("s"), I("mac")>>}, client |-> {<<Opt("c"), I("mac")>>}]

MCPayloadsMixed == {2, 4, 8}
MCArgvsMixed ==
  [server |-> {<<Opt("s"), I("mac")>>, <<Opt("s"), Z(8), I("mac")>>,
               <<Z(4), I("mac")>>, <<Opt("s"), I("none")>>},
   client |-> {<<Opt("c"), I("mac")>>, <<Opt("c"), Z(2), I("mac")>>,
               <<Opt("c"), Z(8), I("mac")>>, <<Opt("c"), L("other"), I("incomplete")>>,
               <<Opt("c"), Z(4)>>, <<Opt("g"), I("nomatch")>>, <<Opt("h")>>,
               <<Opt("s"), Opt("c"), I("popen_fails")>>, <<I("mac")>>}]

=============================================================================
