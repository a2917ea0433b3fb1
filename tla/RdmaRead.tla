------------------------------ MODULE RdmaRead ------------------------------
(***************************************************************************)
(* The RDMA read test (src/examples/rdma_test/read.c).  The same program   *)
(* runs on two hosts: with -s it is the server, which fills a registered   *)
(* device buffer with the pattern i % 10 and sends the buffer's address to *)
(* the client over a TCP connection; with -c it is the client, which reads *)
(* that address, issues one RDMA READ of payload_size bytes into its own   *)
(* device buffer, copies the buffer to the host and compares it with the   *)
(* same pattern.  The server then waits for the operator to press Enter    *)
(* before it tears the RDMA device down.                                   *)
(*                                                                         *)
(* Data are abstracted to what the comparison tells apart: a buffer holds  *)
(* the pattern copied from the server ("golden"), the pattern an earlier   *)
(* run left in device memory ("stale"), or anything else ("junk").        *)
(* The environment is the TCP stream (bytes written arrive later, possibly *)
(* split), the RDMA engine completing the posted READ, and the operator's  *)
(* standard input on the server.                                           *)
(***************************************************************************)
EXTENDS Integers, Sequences

CONSTANTS
  Payloads,   \* the payload sizes in bytes -z may give a peer
  Argvs,      \* per host: the command lines it may be started with
  MaxKeys     \* bound on the characters the operator types

VARIABLES
  spc, cpc,   \* where the main of the server's and the client's host are
  opts,       \* per peer: what the option parsing of main left
  listening,  \* the server's socket is bound and listening
  conn,       \* the client's connection: "none", "up" or "refused"
  net,        \* bytes of the offset written by the server, not yet received
  rbuf,       \* bytes in the client's receive buffer
  srvUp,      \* the server process is running (its socket is open)
  srvBuf,     \* the server's tmp_buffer
  mr,         \* tmp_buffer is registered and the RDMA device is open
  cOff,       \* the remote offset the client read: "none", "full", "partial"
  rdma,       \* the client's RDMA READ: "idle", "posted", "done"
  cliBuf,     \* the client's device_buffer
  recv,       \* recv_tmp, the host copy the client checks
  keys,       \* characters typed on the server's stdin, not yet read
  eof,        \* the server's stdin is closed
  verdict,    \* what the client printed: "none", "ok", "mismatch", "error"
  sret, cret  \* the exit status of each peer, NoStatus while it runs

vars == <<spc, cpc, opts, listening, conn, net, rbuf, srvUp, srvBuf, mr, cOff,
          rdma, cliBuf, recv, keys, eof, verdict, sret, cret>>

Peers == {"server", "client"}
OffsetBytes == 8            \* sizeof(uint64_t) read_offset
EINVALPositive == 22       \* (mutant) return EINVAL, the minus dropped
EINVAL == -22              \* return -EINVAL when the device will not open
EXIT_FAILURE == 1          \* exit(EXIT_FAILURE) when popen fails
NoStatus == 2               \* main ends with 0, 1, -1 or -EINVAL, never 2
Bufs == {"none", "junk", "stale", "golden"}
Keys == {"key", "nl"}       \* "nl" stands for '\n' and '\r'

\* main returns 0 or a negated error code.
Status == {NoStatus} \cup -255..1

\* payload_size >> 2: the number of 32-bit words both peers fill and check.
Words(p) == opts[p].pay \div 4

-----------------------------------------------------------------------------
(* The option parsing of main: while ((cmd_opt = getopt_long(...)) != -1). *)
(* Only the options that change what the program does are kept: -s, -c,   *)
(* -z, -i (which runs `arp -a <ip>` for the peer's MAC address), -l, -g   *)
(* and -h (or any unknown option).  -d, -p, -r, -u, -t and -q only store   *)
(* their argument.                                                         *)

\* What `arp -a <ip>` prints: an entry "? (ip) at <mac> ...", an entry "at
\* <incomplete>", "no match found", nothing, or popen itself failing.
ArpReplies == {"mac", "incomplete", "nomatch", "none", "popen_fails"}
Locations == {"host_mem", "dev_mem", "other"}
Opts ==
  [o : {"s", "c", "g", "h"}, v : {"-"}] \cup [o : {"z"}, v : Payloads]
    \cup [o : {"i"}, v : ArpReplies] \cup [o : {"l"}, v : Locations]

\* The globals and locals the loop sets: the role (server, client), the
\* payload_size, whether dst_mac holds the peer's address, whether
\* dst_ip_str was given, and the status of an exit() taken in the loop.
Parsed ==
  [role : {"server", "client", "none"}, pay : Payloads \cup {4},
   mac : BOOLEAN, dip : BOOLEAN, exit : Status]
DefaultOpts == [role |-> "none", pay |-> 4, mac |-> FALSE, dip |-> FALSE, exit |-> NoStatus]

\* Case 'i': read the lines of arp's output.  "no match found" exits with
\* 0; the first line containing "at" gives dst_mac from the 17 characters
\* after it (a MAC address, or "<incomplete> on e"); no such line leaves
\* dst_mac as it was.
ArpLookup(r, o) ==
  CASE r = "popen_fails" -> [o EXCEPT !.exit = EXIT_FAILURE]
    [] r = "nomatch"     -> [o EXCEPT !.exit = 0]
    [] r = "mac"         -> [o EXCEPT !.mac = TRUE]
    [] r = "incomplete"  -> [o EXCEPT !.mac = FALSE]
    [] r = "none"        -> o

\* Case 'l': if (!(strcmp(qp_location, HOST_MEM) || strcmp(qp_location,
\* DEVICE_MEM))) usage and exit(0).
LocationRejected(q) == ~(q # "host_mem" \/ q # "dev_mem")

\* One iteration of the switch on cmd_opt.  -s and -c each clear the other
\* flag; -h and unknown options print the usage and exit(0).
ApplyOpt(a, o) ==
  CASE a.o = "s" -> [o EXCEPT !.role = "server"]
    [] a.o = "c" -> [o EXCEPT !.role = "client"]
    [] a.o = "z" -> [o EXCEPT !.pay = a.v]
    [] a.o = "i" -> ArpLookup(a.v, [o EXCEPT !.dip = TRUE])
    [] a.o = "l" -> IF LocationRejected(a.v) THEN [o EXCEPT !.exit = 0] ELSE o
    [] a.o = "g" -> o
    [] a.o = "h" -> [o EXCEPT !.exit = 0]

\* The loop, until the options run out or one of them exits.
RECURSIVE Getopt(_, _)
Getopt(args, o) ==
  IF args = <<>> \/ o.exit # NoStatus THEN o
  ELSE Getopt(Tail(args), ApplyOpt(Head(args), o))

\* The server's host is never started with a command line whose last role
\* option is -c, nor the client's with one ending in -s.
ASSUME /\ Payloads \subseteq Nat /\ MaxKeys \in Nat
       /\ \A p \in Peers : \A a \in Argvs[p] :
            a \in Seq(Opts) /\ Getopt(a, DefaultOpts).role \in {p, "none"}

TypeOK ==
  /\ spc \in {"parse", "init", "listen", "accept", "fill", "send", "prompt", "close", "exit"}
  /\ cpc \in {"parse", "init", "connect", "recv", "post", "fetch", "check", "exit"}
  /\ opts \in [Peers -> Parsed]
  /\ listening \in BOOLEAN /\ srvUp \in BOOLEAN /\ mr \in BOOLEAN /\ eof \in BOOLEAN
  /\ conn \in {"none", "up", "refused"}
  /\ net \in 0..OffsetBytes /\ rbuf \in 0..OffsetBytes /\ net + rbuf <= OffsetBytes
  /\ srvBuf \in Bufs /\ cliBuf \in Bufs /\ recv \in Bufs
  /\ cOff \in {"none", "full", "partial"}
  /\ rdma \in {"idle", "posted", "done"}
  /\ keys \in Seq(Keys) /\ Len(keys) <= MaxKeys
  /\ verdict \in {"none", "ok", "mismatch", "error"}
  /\ sret \in Status /\ cret \in Status

Init ==
  /\ spc = "parse" /\ cpc = "parse"
  /\ opts = [p \in Peers |-> DefaultOpts]
  /\ listening = FALSE /\ conn = "none" /\ net = 0 /\ rbuf = 0
  /\ srvUp = TRUE /\ srvBuf = "none" /\ mr = FALSE
  /\ cOff = "none" /\ rdma = "idle" /\ cliBuf = "none" /\ recv = "none"
  /\ keys = <<>> /\ eof = FALSE
  /\ verdict = "none" /\ sret = NoStatus /\ cret = NoStatus

srvVars == <<spc, listening, srvUp, srvBuf, mr, sret>>
cliVars == <<cpc, conn, cOff, recv, verdict, cret>>

-----------------------------------------------------------------------------
(* The server (read.c, the branch if(server)).                             *)

\* Every way main ends closes the sockets and, past the prologue, frees the
\* buffers and destroys the RDMA device: the memory region is gone.
ServerExit(code) ==
  /\ spc' = "exit" /\ sret' = code
  /\ srvUp' = FALSE /\ listening' = FALSE /\ mr' = FALSE

\* The option loop of main on the server's host; an exit() in it ends the
\* process.
ServerParse ==
  /\ spc = "parse"
  /\ \E a \in Argvs["server"] :
       LET o == Getopt(a, DefaultOpts) IN
       /\ opts' = [opts EXCEPT !["server"] = o]
       /\ IF o.exit # NoStatus THEN ServerExit(o.exit) /\ UNCHANGED srvBuf
          ELSE spc' = "init" /\ UNCHANGED <<listening, srvUp, srvBuf, mr, sret>>
  /\ UNCHANGED <<cliVars, net, rbuf, rdma, cliBuf, keys, eof>>

\* The prologue both peers run: create the devices and buffers, open the
\* character device (a failure returns -EINVAL), configure the QP and PSNs
\* and compute sw_golden.  Without -s (or -c) neither branch runs: main
\* shuts the socket down and returns 0.
ServerSetup ==
  /\ spc = "init"
  /\ \/ /\ opts["server"].role = "server"
        /\ spc' = "listen" /\ UNCHANGED <<listening, srvUp, srvBuf, mr, sret>>
     \/ opts["server"].role = "none" /\ ServerExit(0) /\ UNCHANGED srvBuf
     \/ ServerExit(EINVAL) /\ UNCHANGED srvBuf
  /\ UNCHANGED <<cliVars, opts, net, rbuf, rdma, cliBuf, keys, eof>>

\* bind and listen on tcp_sport.
ServerListen ==
  /\ spc = "listen"
  /\ spc' = "accept" /\ listening' = TRUE
  /\ UNCHANGED <<srvUp, srvBuf, mr, sret, cliVars, opts, net, rbuf, rdma, cliBuf, keys, eof>>

\* accept blocks until a client has connected.
ServerAccept ==
  /\ spc = "accept" /\ conn = "up"
  /\ spc' = "fill"
  /\ UNCHANGED <<listening, srvUp, srvBuf, mr, sret, cliVars, opts, net, rbuf, rdma, cliBuf, keys, eof>>

\* Allocate tmp_buffer in device memory, register it under R_KEY, and copy
\* sw_golden into it with write_from_buffer.  Only rc < 0 jumps to out: a
\* short count (0 <= rc < payload_size) is taken as success, and the part of
\* the buffer left unwritten holds what device memory held before, the
\* pattern of an earlier run ("stale") or anything else ("junk").
ServerFill ==
  /\ spc = "fill"
  /\ \/ /\ srvBuf' \in {"golden", "stale", "junk"} /\ mr' = TRUE /\ spc' = "send"
        /\ UNCHANGED <<listening, srvUp, sret>>
     \/ srvBuf' = "junk" /\ ServerExit(0)
  /\ UNCHANGED <<cliVars, opts, net, rbuf, rdma, cliBuf, keys, eof>>

\* write(accepted_sockfd, &read_offset, 8); the result is not looked at.
ServerSend ==
  /\ spc = "send"
  /\ spc' = "prompt" /\ net' = OffsetBytes
  /\ UNCHANGED <<listening, srvUp, srvBuf, mr, sret, cliVars, opts, rbuf, rdma, cliBuf, keys, eof>>

\* while(val != '\r' && val != '\n') val = getchar();  getchar blocks until
\* a character is typed or stdin ends.  At the end it returns EOF, which
\* stored in a char is neither '\r' nor '\n', so the loop reads again.
ServerGetchar ==
  /\ spc = "prompt"
  /\ keys # <<>> \/ eof
  /\ IF keys # <<>>
       THEN /\ keys' = Tail(keys)
            /\ spc' = IF Head(keys) = "nl" THEN "close" ELSE "prompt"
       ELSE UNCHANGED <<keys, spc>>
  /\ UNCHANGED <<listening, srvUp, srvBuf, mr, sret, cliVars, opts, net, rbuf, rdma, cliBuf, eof>>

\* Dump the registers and the error buffer, shut the connection down, and
\* leave through out: free the buffers, destroy the device, return 0.
ServerClose ==
  /\ spc = "close"
  /\ ServerExit(0)
  /\ UNCHANGED <<srvBuf, cliVars, opts, net, rbuf, rdma, cliBuf, keys, eof>>

ServerStep ==
  ServerParse \/ ServerSetup \/ ServerListen \/ ServerAccept \/ ServerFill \/ ServerSend
    \/ ServerGetchar \/ ServerClose

-----------------------------------------------------------------------------
(* The client (read.c, the branch if(client)).                             *)

ClientExit(code) == cpc' = "exit" /\ cret' = code

ClientParse ==
  /\ cpc = "parse"
  /\ \E a \in Argvs["client"] :
       LET o == Getopt(a, DefaultOpts) IN
       /\ opts' = [opts EXCEPT !["client"] = o]
       /\ IF o.exit # NoStatus THEN ClientExit(o.exit) ELSE cpc' = "init" /\ UNCHANGED cret
  /\ UNCHANGED <<conn, cOff, recv, verdict, srvVars, net, rbuf, rdma, cliBuf, keys, eof>>

ClientSetup ==
  /\ cpc = "init"
  /\ \/ opts["client"].role = "client" /\ cpc' = "connect" /\ UNCHANGED cret
     \/ opts["client"].role = "none" /\ ClientExit(0)
     \/ ClientExit(EINVAL)
  /\ UNCHANGED <<conn, cOff, recv, verdict, srvVars, opts, net, rbuf, rdma, cliBuf, keys, eof>>

\* connect() to dst_ip:tcp_sport; its result is not looked at.  It fails
\* unless the server is already listening, and when -i was not given
\* (inet_addr("") is INADDR_NONE).
ClientConnect ==
  /\ cpc = "connect"
  /\ cpc' = "recv" /\ conn' = IF listening /\ opts["client"].dip THEN "up" ELSE "refused"
  /\ UNCHANGED <<cOff, recv, verdict, cret, srvVars, opts, net, rbuf, rdma, cliBuf, keys, eof>>

\* (mutant) a read returning 0 taken as "nothing yet": the client waits on.
ClientRecvIgnoresEof ==
  /\ cpc = "recv"
  /\ \/ /\ conn = "up" /\ rbuf > 0
        /\ cOff' = IF rbuf = OffsetBytes THEN "full" ELSE "partial"
        /\ rbuf' = 0 /\ cpc' = "post"
        /\ UNCHANGED cret
     \/ /\ conn = "refused"
        /\ ClientExit(-1)
        /\ UNCHANGED <<cOff, rbuf>>
  /\ UNCHANGED <<conn, recv, verdict, srvVars, opts, net, rdma, cliBuf, keys, eof>>

\* rc = read(sockfd, &read_A_offset, 8) blocks until some bytes are there
\* and returns what is there; it fails on a socket that never connected and
\* returns 0 once the server has gone with nothing left to read.  Any
\* rc > 0 is taken as the offset.
ClientRecv ==
  /\ cpc = "recv"
  /\ \/ /\ conn = "up" /\ rbuf > 0
        /\ cOff' = IF rbuf = OffsetBytes THEN "full" ELSE "partial"
        /\ rbuf' = 0 /\ cpc' = "post"
        /\ UNCHANGED cret
     \/ /\ conn = "refused" \/ (rbuf = 0 /\ net = 0 /\ ~srvUp)
        /\ ClientExit(-1)
        /\ UNCHANGED <<cOff, rbuf>>
  /\ UNCHANGED <<conn, recv, verdict, srvVars, opts, net, rdma, cliBuf, keys, eof>>

\* Allocate device_buffer in device memory (it holds whatever an earlier
\* run left there), build the RDMA READ WQE of payload_size bytes at the
\* received offset, and rdma_post_send it.  A negative ret_val is printed
\* and the client carries on.
ClientPost ==
  /\ cpc = "post"
  /\ cpc' = "fetch"
  /\ cliBuf' \in {"junk", "stale"}
  /\ rdma' \in {"posted", "idle"}
  /\ UNCHANGED <<conn, cOff, recv, verdict, cret, srvVars, opts, net, rbuf, keys, eof>>

\* read_to_buffer copies device_buffer into recv_tmp; rc < 0 jumps to out,
\* which returns 0.
ClientFetch ==
  /\ cpc = "fetch"
  /\ \/ recv' = cliBuf /\ cpc' = "check" /\ UNCHANGED <<verdict, cret>>
     \/ verdict' = "error" /\ ClientExit(0) /\ UNCHANGED recv
  /\ UNCHANGED <<conn, cOff, srvVars, opts, net, rbuf, rdma, cliBuf, keys, eof>>

\* The words i % 10 compare equal whoever wrote them.
HoldsPattern(b) == b \in {"golden", "stale"}

\* Compare payload_size >> 2 words with sw_golden.  A mismatch jumps to out;
\* both ways main returns 0.
ClientCheck ==
  /\ cpc = "check"
  /\ verdict' = IF Words("client") = 0 \/ HoldsPattern(recv) THEN "ok" ELSE "mismatch"
  /\ ClientExit(0)
  /\ UNCHANGED <<conn, cOff, recv, srvVars, opts, net, rbuf, rdma, cliBuf, keys, eof>>

ClientStep ==
  ClientParse \/ ClientSetup \/ ClientConnect \/ ClientRecv \/ ClientPost \/ ClientFetch
    \/ ClientCheck

-----------------------------------------------------------------------------
(* The environment.                                                        *)

\* TCP delivers the bytes written, in order, in segments of any size.
Deliver ==
  /\ net > 0
  /\ \E k \in 1..net : net' = net - k /\ rbuf' = rbuf + k
  /\ UNCHANGED <<srvVars, cliVars, opts, rdma, cliBuf, keys, eof>>

\* The RDMA engine executes the posted READ.  It transfers the remote
\* buffer only for the address the server sent, while the region is
\* registered, and within its payload_size bytes; otherwise the READ
\* completes in error and device_buffer is left as it was.
\* The frames of each QP are addressed to the dst_mac it was allocated with,
\* so the request reaches the server and the response the client only when
\* both hosts looked their peer's MAC address up.
ReadAllowed ==
  /\ cOff = "full" /\ mr /\ opts["client"].pay <= opts["server"].pay
  /\ opts["client"].mac /\ opts["server"].mac

RdmaComplete ==
  /\ rdma = "posted"
  /\ rdma' = "done"
  /\ cliBuf' = IF ReadAllowed THEN srvBuf ELSE cliBuf
  /\ UNCHANGED <<srvVars, cliVars, opts, net, rbuf, keys, eof>>

\* The operator types a character on the server's terminal, or stdin ends.
Type ==
  /\ ~eof /\ Len(keys) < MaxKeys
  /\ \E k \in Keys : keys' = Append(keys, k)
  /\ UNCHANGED <<srvVars, cliVars, opts, net, rbuf, rdma, cliBuf, eof>>

CloseStdin ==
  /\ ~eof /\ eof' = TRUE
  /\ UNCHANGED <<srvVars, cliVars, opts, net, rbuf, rdma, cliBuf, keys>>

Next ==
  ServerStep \/ ClientStep \/ Deliver \/ RdmaComplete \/ Type \/ CloseStdin

\* Each peer is a process the operating system keeps running, and TCP
\* delivers what was written; the RDMA engine and the operator may wait
\* for ever.
Spec ==
  Init /\ [][Next]_vars
    /\ WF_vars(ServerStep) /\ WF_vars(ClientStep) /\ WF_vars(Deliver)

-----------------------------------------------------------------------------
(* Properties.                                                             *)

\* The client always ends, whether it started before the server listened,
\* the server died before sending the address, or the exchange went
\* through: no read on the socket blocks for ever.
ClientTerminates == <>(cpc = "exit")

\* The server's wait for Enter ends once its standard input is exhausted
\* (the getchar loop of the server branch).
PromptEndsAtEof == (spc = "prompt" /\ eof /\ keys = <<>>) ~> (spc # "prompt")

\* "Data read successfully" is only printed when the words compared were
\* brought from the server's buffer by this run's RDMA READ.
SuccessMeansDataRead == verdict = "ok" => recv = "golden"

=============================================================================
