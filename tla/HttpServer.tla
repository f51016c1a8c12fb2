----------------------------- MODULE HttpServer -----------------------------
(***************************************************************************)
(* The HTTP server of CM7/Core/Src/httpserver_netconn.c, its two buffers   *)
(* and its clients: the script Python/CMD_TCP.py and browsers, which open  *)
(* a connection for every request.  Responses are handed to LwIP by        *)
(* reference, so what a client receives is what the buffer holds when the  *)
(* segment is sent.                                                        *)
(***************************************************************************)
EXTENDS Integers, Sequences, FiniteSets

CONSTANTS
  Clients,       \* a client is a connection of a program with its request
  Requests,      \* [code, len, ans]: its code, the bytes behind its header,
                 \* and what the command prints or the bus returns for it
  InSize,        \* HTTPD_BUF_SIZE_IN
  OutSize,       \* HTTPD_BUF_SIZE_OUT
  Chunk,         \* TCP_RESPONE_LEN
  SndBuf,        \* TCP_SND_BUF
  Segment        \* TCP_MSS

Hdr == 4                                      \* a binary header
CommandCode == 1                              \* the codes of binary requests
Transaction == 2
Queue == 3
Access == {4, 5, 6, 7, 8, 9, 10}
Writes == {7, 9}
Text == 32                                    \* the first printable byte
Command == 71                                 \* a browser: GET /<command>
Script == 72                                  \* CMD_TCP.py: GET /<command>
Page == 73                                    \* GET /STM32H7xx.html?CMD=...
Favicon == 74                                 \* GET /favicon.ico

(* A register write has an address in front of its values, two bytes of    *)
(* which go out with the command; with less its length would be negative.  *)
ASSUME RequestsAssumption ==
  /\ Requests \subseteq [code : Nat, len : Nat, ans : Nat]
  /\ \A r \in Requests : r.code \in Writes => r.len >= 2
ASSUME SizesAssumption ==
  {InSize, OutSize, Chunk, SndBuf, Segment} \subseteq Nat \ 0 .. Hdr - 1

Nobody == "nobody"
ASSUME NobodyAssumption == Nobody \notin Clients

VARIABLES
  client,        \* [Clients -> [st, req, up, down, got, fin]], see Init
  backlog,       \* connections that have not been accepted
  httpdIn,       \* what the buffers hold, older bytes behind the newer
  httpdOut,
  server         \* [st, conn, idx, exp, rest, close]: where the thread is, its
                 \* connection, how much it has, how much it expects (0: text),
                 \* what it still has to write, and whether it closes then

vars == <<client, backlog, httpdIn, httpdOut, server>>

Byte(c, i, v) == [who |-> c, at |-> i, val |-> v]
Least(a, b) == IF a < b THEN a ELSE b
Put(buf, at, s) ==                            \* memcpy(&buf[at], s, Len(s))
  SubSeq(buf, 1, at) \o s \o SubSeq(buf, at + Len(s) + 1, Len(buf))

(* A request as it goes over the line.                                     *)
Message(c, r) ==
  [i \in 1 .. Hdr + r.len |->
     Byte(c, i, CASE i = 1 -> r.code [] i = 2 -> r.len [] OTHER -> 0)]

Init ==
  /\ client = [c \in Clients |->
       [st   |-> "away",                      \* idle, waiting, gone, broken
        req  |-> [code |-> 0, len |-> 0, ans |-> 0],
        up   |-> <<>>,                        \* sent and not received
        down |-> <<>>,                        \* written and not received
        got  |-> <<>>,                        \* received of the answer
        fin  |-> FALSE]]                      \* the server has closed
  /\ backlog = <<>>
  /\ httpdIn = <<>>
  /\ httpdOut = <<>>
  /\ server = [st |-> "accept", conn |-> Nobody, idx |-> 0, exp |-> 0,
               rest |-> <<>>, close |-> FALSE]
-----------------------------------------------------------------------------
(* Clients and network.                                                    *)
Connect(c) ==
  /\ client[c].st = "away"
  /\ client' = [client EXCEPT ![c].st = "idle"]
  /\ backlog' = Append(backlog, c)
  /\ UNCHANGED <<httpdIn, httpdOut, server>>

Ask(c, r) ==
  /\ client[c].st = "idle"
  /\ client' = [client EXCEPT
       ![c] = [@ EXCEPT !.st = "waiting", !.req = r, !.up = Message(c, r)]]
  /\ UNCHANGED <<backlog, httpdIn, httpdOut, server>>

(* A segment of the answer is sent and arrives: its bytes are read only    *)
(* now, from where tcp_write refers to.  One that is lost is sent again,   *)
(* and its bytes are read again.                                           *)
Content(ref) ==
  CASE ref.buf = "in"  -> httpdIn[ref.at]
    [] ref.buf = "out" -> httpdOut[ref.at]
    [] OTHER           -> ref.byte
Deliver(c) ==
  LET k == Least(Segment, Len(client[c].down))
  IN /\ client[c].down # <<>>
     /\ client' = [client EXCEPT
          ![c].got = @ \o [i \in 1 .. k |-> Content(client[c].down[i])],
          ![c].down = SubSeq(@, k + 1, Len(@))]
     /\ UNCHANGED <<backlog, httpdIn, httpdOut, server>>

(* What a client waits for.  The script takes what one recv returns of the *)
(* output of a command, and as many bytes as it has sent otherwise; it has *)
(* no method for the codes of Access, whose answers tell their length.  A  *)
(* browser takes what comes until the connection is closed.                *)
Answered(c) ==
  LET me == client[c]
      eof == me.fin /\ me.down = <<>>
  IN /\ me.st = "waiting"
     /\ CASE me.req.code \in {CommandCode, Script} -> me.got # <<>> \/ eof
          [] me.req.code \in Access ->
               Len(me.got) >= Hdr /\ Len(me.got) >= Hdr + me.got[2].val
          [] me.req.code >= Text /\ me.req.code # Script -> eof
          [] OTHER -> Len(me.got) >= Hdr + me.req.len

(* Nothing more can come.                                                  *)
Stuck(c) ==
  /\ client[c].st = "waiting"
  /\ client[c].up = <<>>
  /\ client[c].down = <<>>
  /\ client[c].fin \/ (server.conn = c /\ server.st = "recv")

(* It closes its connection when it has its answer, as leaving it open     *)
(* does not work; or when it has made no request, or gets no answer.       *)
Leave(c) ==
  /\ client[c].st = "idle" \/ Answered(c) \/ Stuck(c)
  /\ client' = [client EXCEPT
       ![c] = [@ EXCEPT !.st = "gone", !.down = <<>>, !.got = <<>>]]
  /\ UNCHANGED <<backlog, httpdIn, httpdOut, server>>

(* It may be stopped at any time, also between two packets of its request. *)
(* A request in text, and the header of any other, are in one.             *)
Packet(c, k, first) ==
  /\ first => k >= Hdr
  /\ client[c].req.code >= Text => k = Len(client[c].up)
Break(c) ==
  /\ client[c].st = "waiting"
  /\ \E k \in 0 .. Len(client[c].up) :
       /\ k = 0 \/ Packet(c, k, Len(client[c].up) = Hdr + client[c].req.len)
       /\ client' = [client EXCEPT
            ![c] = [@ EXCEPT !.st = "broken",
                             !.up = SubSeq(client[c].up, 1, k),
                             !.down = <<>>, !.got = <<>>]]
  /\ UNCHANGED <<backlog, httpdIn, httpdOut, server>>
Gone(c) == client[c].st \in {"gone", "broken"}
-----------------------------------------------------------------------------
(* http_server_sendResponse writes l bytes of a buffer, Chunk bytes at a   *)
(* time: the write a byte is in, and its place in it.                      *)
Write(i) == (i - 1) \div Chunk
Place(i) == ((i - 1) % Chunk) + 1
http_server_sendResponse_xSame(buf, l) ==
  [i \in 1 .. l |-> [buf |-> buf, at |-> Place(i)]]
http_server_sendResponse(buf, l) ==
  [i \in 1 .. l |-> [buf |-> buf, at |-> Chunk * Write(i) + Place(i)]]

(* HTTPD_PrintOut, from HTTPD_OutFlush on: what is printed in answer to    *)
(* the request byte b is cut where the buffer ends.                        *)
HTTPD_PrintOut_xNoClip(b, len) ==
  [i \in 1 .. len |-> Byte(b.who, i, 0)]
HTTPD_PrintOut(b, len) ==
  [i \in 1 .. Least(len, OutSize) |-> Byte(b.who, i, 0)]

(* What the handlers find out: bytes a command prints or a device returns. *)
Found(b) == client[b.who].req.ans

(* A header in front of l bytes.                                           *)
Headed(s, l) == [i \in DOMAIN s |-> IF i = 2 THEN [s[i] EXCEPT !.val = l]
                                   ELSE s[i]]

Go(refs, close) ==
  server' = [server EXCEPT !.st = "send", !.idx = 0, !.rest = refs,
                           !.close = close]

(* The transfer on the SPI bus: how long it is at least, with len bytes in *)
(* the request.  A queue has transactions of their own lengths, of which   *)
(* the shortest counts.  One without bytes never completes: the thread     *)
(* waits for ever, with the bus (SPI.c:349, 364).                          *)
SpiLength(b, len) ==
  CASE b.val = Transaction             -> len - Hdr
    [] b.val \in Writes                -> len - Hdr - 2
    [] b.val = Queue /\ len > Hdr      -> Found(b)
    [] OTHER                           -> 1

(* http_server_binMode_serve, for a request of len bytes in the buffer in. *)
(* The answer to a command is gathered in httpdOut.  SPI transactions, and *)
(* codes nobody knows, send the request's buffer as it is; I2C and         *)
(* register accesses put as many bytes behind its header as they have read *)
(* and correct its length; what they read ends where the buffer does.      *)
(* ChipNo is 1, as SYSCFG_Default has it: with another the registers of no *)
(* chip are accessed and nothing is answered.                              *)
http_server_binMode_serve(in, total) ==
  LET b   == in[1]
      len == Least(total, InSize - Hdr)
      out == HTTPD_PrintOut(b, Hdr + IF len > Hdr THEN Found(b) ELSE 0)
      l   == Least(Hdr + Found(b), InSize)
  IN \/ /\ SpiLength(b, len) = 0
        /\ httpdIn' = in
        /\ server' = [server EXCEPT !.st = "hung", !.idx = 0]
        /\ UNCHANGED httpdOut
     \/ /\ b.val = CommandCode
        /\ httpdIn' = in
        /\ httpdOut' = Put(httpdOut, 0, Headed(out, Len(out) - Hdr))
        /\ Go(http_server_sendResponse("out", Len(out)), FALSE)
     \/ /\ b.val \in Access /\ SpiLength(b, len) # 0
        /\ httpdIn' = Put(in, 0, Headed([i \in 1 .. l |->
                         IF i <= total THEN in[i] ELSE Byte(b.who, i, 0)],
                         l - Hdr))
        /\ Go(http_server_sendResponse("in", l), FALSE)
        /\ UNCHANGED httpdOut
     \/ /\ b.val \notin {CommandCode} \cup Access /\ SpiLength(b, len) # 0
        /\ httpdIn' = in
        /\ Go(http_server_sendResponse("in", len), FALSE)
        /\ UNCHANGED httpdOut

(* The rest of http_server_serve, for a request in text.  A page has the   *)
(* output of the command between two parts that never change; the other    *)
(* commands have theirs in httpdOut.  What does not begin with GET / is    *)
(* not answered.                                                           *)
Markup == 1
Refs(buf, l) == [i \in 1 .. l |-> [buf |-> buf, at |-> i]]
Fixed(b, i) == [buf |-> "page", byte |-> Byte(b.who, i, 0)]
Collected(text) == httpdOut' = Put(httpdOut, 0, text)
TextRequest(in) ==
  LET b    == in[1]
      page == HTTPD_PrintOut(b, Found(b))
      text == HTTPD_PrintOut(b, Markup + Found(b) + Markup)
  IN /\ httpdIn' = in
     /\ \/ /\ b.val = Page
           /\ Collected(page)
           /\ Go(<<Fixed(b, 0)>> \o Refs("out", Len(page))
                   \o <<Fixed(b, Len(page) + 1)>>, TRUE)
        \/ /\ b.val \in {Command, Script}
           /\ Collected(text)
           /\ Go(http_server_sendResponse("out", Len(text)), TRUE)
        \/ /\ b.val = Favicon
           /\ Go(<<Fixed(b, 1)>>, TRUE)
           /\ UNCHANGED httpdOut
        \/ /\ b.val \notin {Page, Command, Script, Favicon}
           /\ Go(<<>>, TRUE)
           /\ UNCHANGED httpdOut
-----------------------------------------------------------------------------
(* The thread.                                                             *)
netconn_accept ==
  /\ server.st = "accept"
  /\ backlog # <<>>
  /\ server' = [server EXCEPT !.st = "recv", !.conn = Head(backlog), !.idx = 0]
  /\ backlog' = Tail(backlog)
  /\ UNCHANGED <<client, httpdIn, httpdOut>>

Closed == [server EXCEPT !.st = "accept", !.conn = Nobody, !.idx = 0,
                         !.exp = 0, !.rest = <<>>, !.close = FALSE]

(* A packet is received.  The first tells how much the request has.        *)
ExpectedLength_xPayload(b) == b[2].val + 256 * b[3].val + 65536 * b[4].val
ExpectedLength(b) == b[2].val + 256 * b[3].val + 65536 * b[4].val + Hdr
http_server_serve(k) ==
  LET c     == server.conn
      up    == client[c].up
      in    == Put(httpdIn, server.idx, SubSeq(up, 1, k))
      idx   == server.idx + k
      first == server.idx = 0
      exp   == IF ~first THEN server.exp
               ELSE IF in[1].val >= Text THEN 0
               ELSE ExpectedLength(in)
  IN /\ server.st = "recv"
     /\ k \in 1 .. Least(Segment, Len(up))
     /\ Packet(c, k, first)
     /\ UNCHANGED backlog
     /\ client' = [client EXCEPT ![c].up = IF idx > InSize THEN <<>>
                                           ELSE SubSeq(@, k + 1, Len(@)),
                                  ![c].fin = idx > InSize]
     /\ CASE idx > InSize ->
               httpdIn' = in /\ server' = Closed /\ UNCHANGED httpdOut
          [] idx <= InSize /\ exp = 0 -> TextRequest(in)
          [] idx <= InSize /\ exp # 0 /\ idx >= exp ->
               http_server_binMode_serve(in, idx)
          [] OTHER ->
               /\ httpdIn' = in
               /\ server' = [server EXCEPT !.idx = idx, !.exp = exp]
               /\ UNCHANGED httpdOut

ReceiveFails_xAgain ==
  /\ server.st = "recv"
  /\ Gone(server.conn)
  /\ client[server.conn].up = <<>>
  /\ server' = [server EXCEPT !.idx = 0]
  /\ UNCHANGED <<client, backlog, httpdIn, httpdOut>>

(* The connection is gone, and everything that came over it has been read. *)
ReceiveFails ==
  /\ server.st = "recv"
  /\ Gone(server.conn)
  /\ client[server.conn].up = <<>>
  /\ server' = Closed
  /\ UNCHANGED <<client, backlog, httpdIn, httpdOut>>

(* netconn_write waits for room in the send buffer, which a byte leaves    *)
(* when it has been received, and fails on a connection that is gone.      *)
netconn_write ==
  LET c == server.conn
      k == Least(SndBuf - Len(client[c].down), Len(server.rest))
  IN /\ server.st = "send"
     /\ server.rest # <<>>
     /\ IF Gone(c)
        THEN server' = [server EXCEPT !.rest = <<>>] /\ UNCHANGED client
        ELSE /\ k > 0
             /\ client' = [client EXCEPT
                             ![c].down = @ \o SubSeq(server.rest, 1, k)]
             /\ server' = [server EXCEPT !.rest = SubSeq(@, k + 1, Len(@))]
     /\ UNCHANGED <<backlog, httpdIn, httpdOut>>

(* After a binary answer the next request is waited for; a connection with *)
(* text is closed.                                                         *)
Written ==
  /\ server.st = "send"
  /\ server.rest = <<>>
  /\ IF server.close
     THEN /\ server' = Closed
          /\ client' = [client EXCEPT ![server.conn].fin = TRUE]
     ELSE server' = [server EXCEPT !.st = "recv"] /\ UNCHANGED client
  /\ UNCHANGED <<backlog, httpdIn, httpdOut>>

Thread ==
  \/ netconn_accept \/ ReceiveFails \/ netconn_write \/ Written
  \/ \E k \in 1 .. Segment : http_server_serve(k)

Client(c) ==
  \/ Connect(c) \/ (\E r \in Requests : Ask(c, r)) \/ Leave(c) \/ Break(c)
Next == Thread \/ \E c \in Clients : Deliver(c) \/ Client(c)

Spec == Init /\ [][Next]_vars

(* The thread and the network go on; a client closes its connection when   *)
(* it has its answer or nothing more to ask.                               *)
FairSpec ==
  /\ Spec
  /\ WF_vars(Thread)
  /\ \A c \in Clients : WF_vars(Deliver(c)) /\ WF_vars(Leave(c))
-----------------------------------------------------------------------------
Bytes == [who : Clients, at : Nat, val : Nat]

(* The buffers are kept to, but for the packet that does not fit: it is    *)
(* copied before its length is looked at (httpserver_netconn.c:513, 522).  *)
TypeOK ==
  /\ \A c \in Clients :
       /\ client[c].st \in {"away", "idle", "waiting", "gone", "broken"}
       /\ Len(client[c].down) <= SndBuf
  /\ server.st \in {"accept", "recv", "send", "hung"}
  /\ server.idx \in 0 .. InSize
  /\ httpdIn \in Seq(Bytes) /\ Len(httpdIn) <= InSize + Segment
  /\ httpdOut \in Seq(Bytes) /\ Len(httpdOut) <= OutSize

(* What a client has received before the server closes its connection is   *)
(* the answer to its own request, byte for byte, though the answer was     *)
(* only referred to when it was written, in chunks and segments of any     *)
(* size (httpserver_netconn.c:125-154).  Not claimed of what arrives after *)
(* the server has closed: those bytes are read while the next client may   *)
(* already be served from the same buffers.                                *)
Own(c) == \A i \in DOMAIN client[c].got :
  LET b == client[c].got[i]
  IN /\ b.who = c
     /\ b.at = IF client[c].req.code = Page THEN i - 1 ELSE i
OwnAnswer == \A c \in Clients : ~client[c].fin => Own(c)

(* A request is served when all of it has arrived, and the bytes of its    *)
(* packets then stand in the buffer one behind the other, whatever older   *)
(* requests have left there (httpserver_netconn.c:508-563).                *)
RequestIsWhole ==
  [][server.st = "recv" /\ server'.st \in {"send", "hung"} =>
       LET c == server.conn
       IN /\ client'[c].up = <<>>
          /\ server.idx + Len(client[c].up) = Hdr + client[c].req.len
          /\ \A i \in 1 .. server.idx :
               httpdIn[i].who = c /\ httpdIn[i].at = i]_vars

(* A request that fits gets the answer its client waits for, and the       *)
(* others get their turn, unless the client is stopped: one connection at  *)
(* a time is served, whatever the one before has left, closed or broken    *)
(* off.  The exception is a request that makes the thread transfer no      *)
(* bytes on the SPI bus, which nobody is answered after.                   *)
Fits(r) == Hdr + r.len <= InSize - Hdr
EveryoneAnswered ==
  \A c \in Clients :
    client[c].st = "waiting" /\ Fits(client[c].req)
      ~> client[c].st = "broken" \/ Answered(c) \/ server.st = "hung"
=============================================================================
