-------------------------- MODULE HttpServerProofs --------------------------
(***************************************************************************)
(* Theorems about HttpServer, for any requests, any sizes of the buffers,  *)
(* packets and segments and any number of clients.                         *)
(*                                                                         *)
(* Answers are written by reference, so that the invariant has to say of   *)
(* every reference that is still on its way what its buffer holds now, and *)
(* that a buffer changes only when nobody refers to it: the server gathers *)
(* and serves a request only while nothing of an answer to its client is   *)
(* on its way.  Bytes that are on their way when the server has closed are *)
(* left out, as nothing protects them.                                     *)
(***************************************************************************)
EXTENDS HttpServer, TLAPS

(* What a reference names, and that it is in its buffer.                   *)
References ==
  [buf : {"in", "out"}, at : Nat] \cup [buf : {"page"}, byte : Bytes]
ByteAt(ref, in, out) ==
  CASE ref.buf = "in"  -> in[ref.at]
    [] ref.buf = "out" -> out[ref.at]
    [] OTHER           -> ref.byte
InBuffer(ref, in, out) ==
  /\ ref.buf = "in"  => ref.at \in 1 .. Len(in)
  /\ ref.buf = "out" => ref.at \in 1 .. Len(out)
Kept(refs, in, out) ==
  /\ refs \in Seq(References)
  /\ \A i \in 1 .. Len(refs) : InBuffer(refs[i], in, out)

Buffers(in, out) ==
  /\ in \in Seq(Bytes) /\ Len(in) <= InSize + Segment
  /\ out \in Seq(Bytes) /\ Len(out) <= OutSize
ClientType ==
  [st : {"away", "idle", "waiting", "gone", "broken"},
   req : [code : Nat, len : Nat, ans : Nat], up : Seq(Bytes),
   down : Seq(References), got : Seq(Bytes), fin : BOOLEAN]
ClientOK(c, me, in, out) ==
  /\ me \in ClientType
  /\ Len(me.down) <= SndBuf /\ Kept(me.down, in, out)
  /\ me.st = "away" => me.up = <<>> /\ ~me.fin
ServerType ==
  [st : {"accept", "recv", "send", "hung"}, conn : Clients \cup {Nobody},
   idx : 0 .. InSize, exp : Nat, rest : Seq(References), close : BOOLEAN]
ServerOK(srv, in, out) ==
  /\ srv \in ServerType
  /\ srv.idx <= Len(in) /\ Kept(srv.rest, in, out)
  /\ srv.st = "accept" <=> srv.conn = Nobody
  /\ srv.st # "recv" => srv.idx = 0
  /\ srv.st # "send" => srv.rest = <<>>

(* The server knows the clients that are connected, each once.             *)
Connected(me) == me.st # "away" /\ ~me.fin
Connections ==
  /\ backlog \in Seq(Clients)
  /\ \A i \in 1 .. Len(backlog) :
       /\ backlog[i] # server.conn
       /\ Connected(client[backlog[i]])
       /\ \A j \in 1 .. Len(backlog) : backlog[i] = backlog[j] => i = j
  /\ server.conn # Nobody => Connected(client[server.conn])

(* Of a request of client c, the server has the first Pos bytes; of its    *)
(* answer, it has yet to write the rest.                                   *)
Pos(c, srv) == IF srv.conn = c THEN srv.idx ELSE 0
Rest(c, srv) == IF srv.conn = c THEN srv.rest ELSE <<>>
Whole(me) == Hdr + me.req.len
Asks(c, me, srv) == me.up # <<>> \/ Pos(c, srv) > 0

(* The part of a request that is yet to come, and the one that is there.   *)
Incoming(c, me, srv) ==
  /\ me.st = "idle" => ~Asks(c, me, srv)
  /\ Asks(c, me, srv) => Pos(c, srv) + Len(me.up) <= Whole(me)
  /\ \A i \in 1 .. Len(me.up) :
       me.up[i] = Message(c, me.req)[Pos(c, srv) + i]
  /\ me.up # <<>> /\ (me.st = "waiting" \/ me.req.code >= Text)
       => Pos(c, srv) + Len(me.up) = Whole(me)
  /\ me.up # <<>> /\ Pos(c, srv) = 0 => Len(me.up) >= Hdr
  /\ Pos(c, srv) > 0 => me.req.code < Text /\ srv.exp = Whole(me)
Gathered(c, me, srv, in) ==
  \A i \in 1 .. Pos(c, srv) : in[i] = Message(c, me.req)[i]

(* Byte i of the answer.                                                   *)
AnswerByte(c, me, b, i) ==
  b.who = c /\ b.at = IF me.req.code = Page THEN i - 1 ELSE i

(* What a client has of its answer, what is on its way and what the server *)
(* has yet to write make the answer, as the buffers are now.               *)
Answer(c, me, rest, in, out) ==
  LET g == Len(me.got)
      d == Len(me.down)
  IN /\ \A i \in 1 .. g : AnswerByte(c, me, me.got[i], i)
     /\ \A i \in 1 .. d :
          AnswerByte(c, me, ByteAt(me.down[i], in, out), g + i)
     /\ \A i \in 1 .. Len(rest) :
          AnswerByte(c, me, ByteAt(rest[i], in, out), g + d + i)
Outgoing(c, me, srv, in, out) ==
  /\ Asks(c, me, srv) => me.got = <<>> /\ me.down = <<>> /\ Rest(c, srv) = <<>>
  /\ me.st = "idle" => me.got = <<>> /\ me.down = <<>> /\ Rest(c, srv) = <<>>
  /\ me.st \in {"gone", "broken"} => me.got = <<>> /\ me.down = <<>>
  /\ srv.conn # c => me.got = <<>> /\ me.down = <<>>
  /\ me.st \notin {"gone", "broken"} => Answer(c, me, Rest(c, srv), in, out)

ClientInv(c, me, srv, in, out) ==
  ~me.fin => /\ Incoming(c, me, srv)
             /\ Gathered(c, me, srv, in)
             /\ Outgoing(c, me, srv, in, out)

HttpInv ==
  /\ Buffers(httpdIn, httpdOut)
  /\ ServerOK(server, httpdIn, httpdOut)
  /\ client \in [Clients -> ClientType]
  /\ \A c \in Clients : /\ ClientOK(c, client[c], httpdIn, httpdOut)
                        /\ ClientInv(c, client[c], server, httpdIn, httpdOut)
  /\ Connections
-----------------------------------------------------------------------------
(* Sequences, and what the operators of the model make of them.            *)
LEMMA LeastOf ==
  ASSUME NEW a \in Int, NEW b \in Int
  PROVE  /\ Least(a, b) \in {a, b} /\ Least(a, b) <= a /\ Least(a, b) <= b
  BY DEF Least

LEMMA CatOf ==
  ASSUME NEW S, NEW p \in Seq(S), NEW q \in Seq(S)
  PROVE  /\ p \o q \in Seq(S)
         /\ Len(p \o q) = Len(p) + Len(q)
         /\ Len(p) \in Nat /\ Len(q) \in Nat
         /\ \A i \in 1 .. Len(p) : (p \o q)[i] = p[i]
         /\ \A i \in 1 .. Len(q) : (p \o q)[Len(p) + i] = q[i]
  OBVIOUS

LEMMA EmptyIs ==
  ASSUME NEW S, NEW s \in Seq(S)
  PROVE  /\ Len(s) \in Nat
         /\ s = <<>> <=> Len(s) = 0
         /\ \A i \in 1 .. Len(s) : s[i] \in S
  OBVIOUS

LEMMA PutIn ==
  ASSUME NEW S, NEW buf \in Seq(S), NEW at \in Nat, at <= Len(buf),
         NEW s \in Seq(S)
  PROVE  /\ Put(buf, at, s) \in Seq(S)
         /\ Len(Put(buf, at, s)) =
              IF at + Len(s) > Len(buf) THEN at + Len(s) ELSE Len(buf)
         /\ \A i \in 1 .. at : Put(buf, at, s)[i] = buf[i]
         /\ \A i \in 1 .. Len(s) : Put(buf, at, s)[at + i] = s[i]
<1> DEFINE a == SubSeq(buf, 1, at)
           b == SubSeq(buf, at + Len(s) + 1, Len(buf))
<1>1. a \in Seq(S) /\ Len(a) = at /\ \A i \in 1 .. at : a[i] = buf[i]
  OBVIOUS
<1>2. /\ b \in Seq(S)
      /\ Len(b) = IF at + Len(s) > Len(buf) THEN 0
                  ELSE Len(buf) - (at + Len(s))
  OBVIOUS
<1>3. Put(buf, at, s) = a \o s \o b
  BY DEF Put
<1> HIDE DEF a, b
<1>4. /\ a \o s \in Seq(S) /\ Len(a \o s) = at + Len(s)
      /\ \A i \in 1 .. at : (a \o s)[i] = a[i]
      /\ \A i \in 1 .. Len(s) : (a \o s)[at + i] = s[i]
  BY <1>1
<1> DEFINE p == a \o s
<1>5. /\ p \in Seq(S) /\ Len(p) = at + Len(s)
      /\ \A i \in 1 .. at : p[i] = buf[i]
      /\ \A i \in 1 .. Len(s) : p[at + i] = s[i]
  BY <1>1, <1>4
<1>6. Put(buf, at, s) = p \o b
  BY <1>3
<1> HIDE DEF p
<1>7. /\ p \o b \in Seq(S) /\ Len(p \o b) = Len(p) + Len(b)
      /\ \A i \in 1 .. Len(p) : (p \o b)[i] = p[i]
  <2>1. p \in Seq(S) /\ b \in Seq(S)
    BY <1>2, <1>5
  <2> QED
    BY <2>1, CatOf, Zenon
<1>8. Len(s) \in Nat /\ Len(buf) \in Nat
  OBVIOUS
<1>9. Len(p \o b) = IF at + Len(s) > Len(buf) THEN at + Len(s) ELSE Len(buf)
  <2>1. CASE at + Len(s) > Len(buf)
    BY <1>2, <1>5, <1>7, <1>8, <2>1
  <2>2. CASE ~(at + Len(s) > Len(buf))
    BY <1>2, <1>5, <1>7, <1>8, <2>2
  <2> QED
    BY <2>1, <2>2
<1>10. /\ \A i \in 1 .. at : i \in 1 .. Len(p)
       /\ \A i \in 1 .. Len(s) : at + i \in 1 .. Len(p)
  BY <1>5, <1>8
<1> QED
  BY <1>5, <1>6, <1>7, <1>9, <1>10

(* The bytes of an answer are those of the buffer, in order, however many  *)
(* writes there are.                                                       *)
LEMMA ResponseIsBuffer ==
  ASSUME NEW buf, NEW l \in Nat
  PROVE  http_server_sendResponse(buf, l) = Refs(buf, l)
<1>1. Chunk \in Nat \ {0}
  BY SizesAssumption DEF Hdr
<1>2. ASSUME NEW i \in 1 .. l PROVE Chunk * Write(i) + Place(i) = i
  <2>1. \A x \in Nat : Chunk * (x \div Chunk) + (x % Chunk) = x
    BY <1>1
  <2> QED
    BY <1>1, <2>1 DEF Write, Place
<1> QED
  BY <1>2 DEF http_server_sendResponse, Refs

LEMMA MessageIs ==
  ASSUME NEW c \in Clients,
         NEW r \in [code : Nat, len : Nat, ans : Nat]
  PROVE  /\ Message(c, r) \in Seq(Bytes)
         /\ Len(Message(c, r)) = Hdr + r.len
         /\ \A i \in 1 .. Hdr + r.len :
              /\ Message(c, r)[i] \in Bytes
              /\ Message(c, r)[i].who = c
              /\ Message(c, r)[i].at = i
         /\ Message(c, r)[1].val = r.code
         /\ Message(c, r)[2].val = r.len
         /\ Message(c, r)[3].val = 0 /\ Message(c, r)[4].val = 0
<1> DEFINE V(i) == CASE i = 1 -> r.code [] i = 2 -> r.len [] OTHER -> 0
<1>1. \A i \in 1 .. Hdr + r.len : V(i) \in Nat
  OBVIOUS
<1>2. Message(c, r) = [i \in 1 .. Hdr + r.len |-> Byte(c, i, V(i))]
  BY DEF Message
<1>3. V(1) = r.code /\ V(2) = r.len /\ V(3) = 0 /\ V(4) = 0
  OBVIOUS
<1> HIDE DEF V
<1>4. \A i \in 1 .. Hdr + r.len : Byte(c, i, V(i)) \in Bytes
  BY <1>1 DEF Byte, Bytes, Hdr
<1>5. {1, 2, 3, 4} \subseteq 1 .. Hdr + r.len /\ Hdr + r.len \in Nat
  BY DEF Hdr
<1>6. /\ Message(c, r) \in Seq(Bytes)
      /\ Len(Message(c, r)) = Hdr + r.len
  BY <1>2, <1>4, <1>5
<1>7. \A i \in 1 .. Hdr + r.len : Message(c, r)[i] = Byte(c, i, V(i))
  BY <1>2
<1>8. \A i \in 1 .. Hdr + r.len :
        /\ Message(c, r)[i] \in Bytes
        /\ Message(c, r)[i].who = c
        /\ Message(c, r)[i].at = i
        /\ Message(c, r)[i].val = V(i)
  <2> TAKE i \in 1 .. Hdr + r.len
  <2>1. Message(c, r)[i] = Byte(c, i, V(i))
    BY <1>7
  <2>2. Byte(c, i, V(i)) \in Bytes
    BY <1>4
  <2> QED
    BY <2>1, <2>2 DEF Byte
<1> QED
  BY <1>3, <1>5, <1>6, <1>8

-----------------------------------------------------------------------------
(* A client that is not served has nothing in the buffers.                 *)
LEMMA OtherKept ==
  ASSUME NEW c, NEW me, NEW srv, NEW in, NEW out,
         NEW srv2, NEW in2, NEW out2,
         ClientInv(c, me, srv, in, out), me \in ClientType,
         srv.conn # c, srv2.conn # c
  PROVE  ClientInv(c, me, srv2, in2, out2)
<1> SUFFICES ASSUME ~me.fin
             PROVE  /\ Incoming(c, me, srv2)
                    /\ Gathered(c, me, srv2, in2)
                    /\ Outgoing(c, me, srv2, in2, out2)
  BY DEF ClientInv
<1>1. /\ Pos(c, srv) = 0 /\ Pos(c, srv2) = 0
      /\ Rest(c, srv) = <<>> /\ Rest(c, srv2) = <<>>
  BY DEF Pos, Rest
<1>2. Incoming(c, me, srv2)
  BY <1>1 DEF ClientInv, Incoming, Asks
<1>3. Gathered(c, me, srv2, in2)
  BY <1>1 DEF Gathered
<1>4. Outgoing(c, me, srv2, in2, out2)
  <2>1. me.got = <<>> /\ me.down = <<>> /\ Outgoing(c, me, srv, in, out)
    BY DEF ClientInv, Outgoing
  <2>2. Answer(c, me, <<>>, in2, out2)
    BY <2>1 DEF Answer
  <2> QED
    BY <1>1, <2>1, <2>2 DEF Outgoing, Asks
<1> QED
  BY <1>2, <1>3, <1>4

LEMMA KeptLonger ==
  ASSUME NEW refs, NEW in, NEW out, NEW in2, NEW out2,
         Kept(refs, in, out), Len(in) \in Nat, Len(out) \in Nat,
         Len(in2) \in Nat, Len(out2) \in Nat,
         Len(in) <= Len(in2), Len(out) <= Len(out2)
  PROVE  Kept(refs, in2, out2)
<1>1. ASSUME NEW ref, InBuffer(ref, in, out) PROVE InBuffer(ref, in2, out2)
  BY <1>1 DEF InBuffer
<1> QED
  BY <1>1 DEF Kept

(* A step of client c that the server takes no part in.                    *)
LEMMA ClientStep ==
  ASSUME HttpInv, NEW c \in Clients, NEW me,
         client' = [client EXCEPT ![c] = me],
         UNCHANGED <<backlog, httpdIn, httpdOut, server>>,
         ClientOK(c, me, httpdIn, httpdOut),
         ClientInv(c, me, server, httpdIn, httpdOut),
         Connected(client[c]) => Connected(me)
  PROVE  HttpInv'
<1>1. me \in ClientType /\ client \in [Clients -> ClientType]
  BY DEF ClientOK, HttpInv
<1>2. client'[c] = me /\ \A e \in Clients : e # c => client'[e] = client[e]
  BY <1>1
<1>3. \A e \in Clients : /\ ClientOK(e, client'[e], httpdIn, httpdOut)
                         /\ ClientInv(e, client'[e], server, httpdIn, httpdOut)
  BY <1>2 DEF HttpInv
<1>4. \A e \in Clients : Connected(client[e]) => Connected(client'[e])
  BY <1>2
<1>5. Connections'
  <2>1. backlog \in Seq(Clients)
    BY DEF HttpInv, Connections
  <2>2. \A i \in 1 .. Len(backlog) : Connected(client'[backlog[i]])
    BY <1>4, <2>1 DEF HttpInv, Connections
  <2>3. server.conn # Nobody => Connected(client'[server.conn])
    BY <1>4 DEF HttpInv, Connections, ServerOK, ServerType
  <2> QED
    BY <2>2, <2>3 DEF HttpInv, Connections
<1>6. client' \in [Clients -> ClientType]
  BY <1>1
<1> QED
  BY <1>3, <1>5, <1>6 DEF HttpInv

(* A step of the server, for the client c it serves.                       *)
LEMMA ServerStep ==
  ASSUME HttpInv, NEW c \in Clients, server.conn = c, NEW me,
         client' = [client EXCEPT ![c] = me], UNCHANGED backlog,
         Buffers(httpdIn', httpdOut'),
         Len(httpdIn) <= Len(httpdIn'), Len(httpdOut) <= Len(httpdOut'),
         ServerOK(server', httpdIn', httpdOut'),
         server'.conn \in {c, Nobody},
         server'.conn = c => Connected(me),
         ClientOK(c, me, httpdIn', httpdOut'),
         ClientInv(c, me, server', httpdIn', httpdOut')
  PROVE  HttpInv'
<1>1. me \in ClientType /\ client \in [Clients -> ClientType]
  BY DEF ClientOK, HttpInv
<1>2. client'[c] = me /\ \A e \in Clients : e # c => client'[e] = client[e]
  BY <1>1
<1>3. client' \in [Clients -> ClientType]
  BY <1>1
<1>4. ASSUME NEW e \in Clients, e # c
      PROVE  /\ ClientOK(e, client'[e], httpdIn', httpdOut')
             /\ ClientInv(e, client'[e], server', httpdIn', httpdOut')
  <2>1. PICK me1 : me1 = client[e]
    OBVIOUS
  <2>2. /\ ClientOK(e, me1, httpdIn, httpdOut)
        /\ ClientInv(e, me1, server, httpdIn, httpdOut)
        /\ me1 \in ClientType
    BY <1>1, <2>1 DEF HttpInv
  <2>3. server.conn # e /\ server'.conn # e
    BY <1>4, NobodyAssumption
  <2>4. ClientInv(e, me1, server', httpdIn', httpdOut')
    BY <2>2, <2>3, OtherKept
  <2>5. /\ Len(httpdIn) \in Nat /\ Len(httpdOut) \in Nat
        /\ Len(httpdIn') \in Nat /\ Len(httpdOut') \in Nat
    BY DEF HttpInv, Buffers
  <2>6. Kept(me1.down, httpdIn', httpdOut')
    BY <2>2, <2>5, KeptLonger DEF ClientOK
  <2>7. ClientOK(e, me1, httpdIn', httpdOut')
    BY <2>2, <2>6 DEF ClientOK
  <2> QED
    BY <1>2, <1>4, <2>1, <2>4, <2>7
<1>5. Connections'
  <2>1. backlog \in Seq(Clients)
    BY DEF HttpInv, Connections
  <2>2. \A i \in 1 .. Len(backlog) : backlog[i] \in Clients /\ backlog[i] # c
    BY <2>1 DEF HttpInv, Connections
  <2>3. \A i \in 1 .. Len(backlog) :
          Connected(client'[backlog[i]]) /\ backlog[i] # server'.conn
    BY <1>2, <2>2, NobodyAssumption DEF HttpInv, Connections
  <2>4. server'.conn # Nobody => Connected(client'[server'.conn])
    BY <1>2
  <2> QED
    BY <2>1, <2>3, <2>4 DEF HttpInv, Connections
<1> QED
  BY <1>2, <1>3, <1>4, <1>5 DEF HttpInv

(* The same, when it leaves the buffers alone.                             *)
LEMMA ServerKeeps ==
  ASSUME HttpInv, NEW c \in Clients, server.conn = c, NEW me,
         client' = [client EXCEPT ![c] = me],
         UNCHANGED <<backlog, httpdIn, httpdOut>>,
         ServerOK(server', httpdIn, httpdOut),
         server'.conn \in {c, Nobody},
         server'.conn = c => Connected(me),
         ClientOK(c, me, httpdIn, httpdOut),
         ClientInv(c, me, server', httpdIn, httpdOut)
  PROVE  HttpInv'
<1>1. /\ Buffers(httpdIn', httpdOut')
      /\ Len(httpdIn) <= Len(httpdIn') /\ Len(httpdOut) <= Len(httpdOut')
  BY DEF HttpInv, Buffers
<1>2. /\ ServerOK(server', httpdIn', httpdOut')
      /\ ClientOK(c, me, httpdIn', httpdOut')
      /\ ClientInv(c, me, server', httpdIn', httpdOut')
      /\ UNCHANGED backlog
  OBVIOUS
<1> QED
  BY <1>1, <1>2, ServerStep

-----------------------------------------------------------------------------
(* The clients and the network.                                            *)
LEMMA ClientIs ==
  ASSUME HttpInv, NEW c \in Clients
  PROVE  /\ client[c] \in ClientType
         /\ ClientOK(c, client[c], httpdIn, httpdOut)
         /\ ClientInv(c, client[c], server, httpdIn, httpdOut)
         /\ server \in ServerType
         /\ client \in [Clients -> ClientType]
  BY DEF HttpInv, ServerOK

LEMMA ConnectStep ==
  ASSUME HttpInv, NEW c \in Clients, Connect(c) PROVE HttpInv'
<1>1. PICK me, new : me = client[c] /\ new = [me EXCEPT !.st = "idle"]
  OBVIOUS
<1>2. /\ me \in ClientType /\ ClientOK(c, me, httpdIn, httpdOut)
      /\ ClientInv(c, me, server, httpdIn, httpdOut)
      /\ client \in [Clients -> ClientType]
  BY <1>1, ClientIs
<1>3. /\ me.st = "away" /\ client' = [client EXCEPT ![c] = new]
      /\ backlog' = Append(backlog, c)
      /\ UNCHANGED <<httpdIn, httpdOut, server>>
  BY <1>1 DEF Connect
<1>4. /\ new \in ClientType /\ new.st = "idle" /\ new.fin = me.fin
      /\ new.down = me.down /\ new.up = me.up
      /\ new.got = me.got /\ new.req = me.req
  BY <1>1, <1>2 DEF ClientType
<1>5. ~me.fin /\ me.up = <<>>
  BY <1>2, <1>3 DEF ClientOK
<1>6. /\ backlog \in Seq(Clients) /\ server.conn # c
      /\ \A i \in 1 .. Len(backlog) :
           /\ backlog[i] \in Clients /\ backlog[i] # c
           /\ backlog[i] # server.conn
           /\ Connected(client[backlog[i]])
           /\ \A j \in 1 .. Len(backlog) : backlog[i] = backlog[j] => i = j
      /\ server.conn # Nobody => Connected(client[server.conn])
      /\ server.conn \in Clients \cup {Nobody}
  <2>1. ~Connected(client[c]) /\ c # Nobody
    BY <1>1, <1>3, NobodyAssumption DEF Connected
  <2> QED
    BY <2>1 DEF HttpInv, Connections, ServerOK, ServerType
<1>7. client'[c] = new /\ \A e \in Clients : e # c => client'[e] = client[e]
  BY <1>2, <1>3
<1>8. /\ me.down = <<>> /\ me.got = <<>>
      /\ Pos(c, server) = 0 /\ Rest(c, server) = <<>>
  BY <1>2, <1>5, <1>6 DEF ClientInv, Outgoing, Pos, Rest
<1>9. ClientOK(c, new, httpdIn, httpdOut)
  BY <1>2, <1>4 DEF ClientOK
<1>10. ClientInv(c, new, server, httpdIn, httpdOut)
  <2>1. Incoming(c, new, server) /\ Gathered(c, new, server, httpdIn)
    BY <1>4, <1>5, <1>8 DEF Incoming, Gathered, Asks
  <2>2. Outgoing(c, new, server, httpdIn, httpdOut)
    BY <1>4, <1>5, <1>8 DEF Outgoing, Answer
  <2> QED
    BY <2>1, <2>2 DEF ClientInv
<1>11. Connections'
  <2> DEFINE n == Len(backlog)
  <2>1. /\ backlog' \in Seq(Clients) /\ Len(backlog') = n + 1 /\ n \in Nat
        /\ backlog'[n + 1] = c
        /\ \A i \in 1 .. n : backlog'[i] = backlog[i]
    BY <1>3, <1>6
  <2> HIDE DEF n
  <2>2. Connected(new)
    BY <1>4, <1>5 DEF Connected
  <2>3. ASSUME NEW i \in 1 .. n + 1
        PROVE  /\ backlog'[i] # server.conn
               /\ Connected(client'[backlog'[i]])
               /\ \A j \in 1 .. n + 1 : backlog'[i] = backlog'[j] => i = j
    <3>1. CASE i = n + 1
      BY <1>6, <1>7, <2>1, <2>2, <3>1 DEF n
    <3>2. CASE i \in 1 .. n
      BY <1>6, <1>7, <2>1, <2>2, <3>2 DEF n
    <3> QED
      BY <2>1, <3>1, <3>2
  <2>4. server.conn # Nobody => Connected(client'[server.conn])
    BY <1>6, <1>7
  <2> QED
    BY <1>3, <2>1, <2>3, <2>4 DEF Connections
<1>12. client' \in [Clients -> ClientType]
  BY <1>2, <1>3, <1>4
<1>13. \A e \in Clients :
         /\ ClientOK(e, client'[e], httpdIn, httpdOut)
         /\ ClientInv(e, client'[e], server, httpdIn, httpdOut)
  BY <1>7, <1>9, <1>10 DEF HttpInv
<1> QED
  BY <1>3, <1>11, <1>12, <1>13 DEF HttpInv

LEMMA PosType ==
  ASSUME NEW srv \in ServerType, NEW c
  PROVE  Pos(c, srv) \in 0 .. InSize /\ Rest(c, srv) \in Seq(References)
<1>1. InSize \in Nat
  BY SizesAssumption
<1>2. srv.idx \in 0 .. InSize /\ srv.rest \in Seq(References)
  BY DEF ServerType
<1> QED
  BY <1>1, <1>2 DEF Pos, Rest

LEMMA AskStep ==
  ASSUME HttpInv, NEW c \in Clients, NEW r \in Requests, Ask(c, r)
  PROVE  HttpInv'
<1>1. PICK me, new :
        /\ me = client[c]
        /\ new = [me EXCEPT !.st = "waiting", !.req = r, !.up = Message(c, r)]
  OBVIOUS
<1>2. /\ me \in ClientType /\ ClientOK(c, me, httpdIn, httpdOut)
      /\ ClientInv(c, me, server, httpdIn, httpdOut)
      /\ server \in ServerType
  BY <1>1, ClientIs
<1>3. /\ me.st = "idle" 
      /\ client' = [client EXCEPT ![c] = new]
      /\ UNCHANGED <<backlog, httpdIn, httpdOut, server>>
  BY <1>1 DEF Ask
<1>4. /\ r \in [code : Nat, len : Nat, ans : Nat]
  BY RequestsAssumption
<1>5. PICK up : up = Message(c, r)
  OBVIOUS
<1>6. up \in Seq(Bytes) /\ Len(up) = Hdr + r.len
  BY <1>4, <1>5, MessageIs
<1>7. /\ new \in ClientType /\ new.st = "waiting" /\ new.fin = me.fin
      /\ new.req = r /\ new.up = up
      /\ new.got = me.got /\ new.down = me.down
  BY <1>1, <1>2, <1>4, <1>5, <1>6 DEF ClientType
<1>8. ClientOK(c, new, httpdIn, httpdOut)
  BY <1>2, <1>3, <1>7 DEF ClientOK
<1>9. ClientInv(c, new, server, httpdIn, httpdOut)
  <2> SUFFICES ASSUME ~me.fin
               PROVE  /\ Incoming(c, new, server)
                      /\ Gathered(c, new, server, httpdIn)
                      /\ Outgoing(c, new, server, httpdIn, httpdOut)
    BY <1>7 DEF ClientInv
  <2>1. /\ Pos(c, server) = 0 /\ Rest(c, server) = <<>>
        /\ me.down = <<>> /\ me.got = <<>>
    BY <1>2, <1>3, PosType DEF ClientInv, Incoming, Outgoing, Asks
  <2>2. Incoming(c, new, server) /\ Gathered(c, new, server, httpdIn)
    BY <1>4, <1>5, <1>6, <1>7, <2>1 DEF Incoming, Gathered, Whole, Hdr
  <2>3. Outgoing(c, new, server, httpdIn, httpdOut)
    BY <1>7, <2>1 DEF Outgoing, Answer
  <2> QED
    BY <2>2, <2>3
<1> QED
  BY <1>1, <1>3, <1>7, <1>8, <1>9, ClientStep DEF Connected

(* A reference reads a byte of its buffer.                                 *)
LEMMA ContentIs ==
  ASSUME Buffers(httpdIn, httpdOut), NEW ref \in References,
         InBuffer(ref, httpdIn, httpdOut)
  PROVE  /\ Content(ref) \in Bytes
         /\ Content(ref) = ByteAt(ref, httpdIn, httpdOut)
<1>1. CASE ref.buf = "in"
  BY <1>1 DEF Buffers, InBuffer, Content, ByteAt
<1>2. CASE ref.buf = "out"
  BY <1>2 DEF Buffers, InBuffer, Content, ByteAt
<1>3. CASE ref.buf = "page"
  BY <1>3 DEF References, Content, ByteAt
<1> QED
  BY <1>1, <1>2, <1>3 DEF References

(* Bytes that go from down to got are the bytes of the answer they were.   *)
LEMMA AnswerMoves ==
  ASSUME NEW c, NEW me \in ClientType, NEW new \in ClientType,
         NEW rest \in Seq(References), NEW in, NEW out,
         Answer(c, me, rest, in, out),
         new.req = me.req,
         NEW k \in Nat, k <= Len(me.down),
         Len(new.got) = Len(me.got) + k, Len(new.down) = Len(me.down) - k,
         \A i \in 1 .. Len(me.got) : new.got[i] = me.got[i],
         \A i \in 1 .. k :
           new.got[Len(me.got) + i] = ByteAt(me.down[i], in, out),
         \A i \in 1 .. Len(me.down) - k : new.down[i] = me.down[k + i]
  PROVE  Answer(c, new, rest, in, out)
<1> DEFINE g == Len(me.got)
           d == Len(me.down)
<1>1. g \in Nat /\ d \in Nat /\ Len(rest) \in Nat
  BY DEF ClientType
<1>2. /\ \A i \in 1 .. g : AnswerByte(c, me, me.got[i], i)
      /\ \A i \in 1 .. d :
           AnswerByte(c, me, ByteAt(me.down[i], in, out), g + i)
      /\ \A i \in 1 .. Len(rest) :
           AnswerByte(c, me, ByteAt(rest[i], in, out), g + d + i)
  BY DEF Answer
<1>3. \A b, i : AnswerByte(c, me, b, i) <=> AnswerByte(c, new, b, i)
  BY DEF AnswerByte
<1> HIDE DEF g, d
<1>4. (g + k) + (d - k) = g + d
  BY <1>1
<1>5. ASSUME NEW i \in 1 .. g + k PROVE AnswerByte(c, new, new.got[i], i)
  <2>1. CASE i \in 1 .. g
    BY <1>2, <1>3, <2>1 DEF g
  <2>2. CASE i \notin 1 .. g
    <3>1. PICK j \in 1 .. k : i = g + j
      <4>1. i - g \in 1 .. k /\ i = g + (i - g)
        BY <1>1, <2>2
      <4> QED
        BY <4>1
    <3>2. j \in 1 .. d
      BY <1>1 DEF d
    <3>3. new.got[i] = ByteAt(me.down[j], in, out)
      BY <3>1 DEF g
    <3> QED
      BY <1>2, <1>3, <3>1, <3>2, <3>3
  <2> QED
    BY <2>1, <2>2
<1>6. ASSUME NEW i \in 1 .. d - k
      PROVE  AnswerByte(c, new, ByteAt(new.down[i], in, out), (g + k) + i)
  <2>1. k + i \in 1 .. d /\ g + (k + i) = (g + k) + i
    BY <1>1
  <2>2. new.down[i] = me.down[k + i]
    BY DEF d
  <2> QED
    BY <1>2, <1>3, <2>1, <2>2
<1>7. ASSUME NEW i \in 1 .. Len(rest)
      PROVE  AnswerByte(c, new, ByteAt(rest[i], in, out),
                        (g + k) + (d - k) + i)
  BY <1>2, <1>3, <1>4
<1>8. Len(new.got) = g + k /\ Len(new.down) = d - k
  BY DEF g, d
<1> QED
  BY <1>4, <1>5, <1>6, <1>7, <1>8 DEF Answer

(* Nothing of an answer is on its way while its request is.                *)
LEMMA BusyIs ==
  ASSUME NEW c, NEW me, NEW srv, NEW in, NEW out,
         ClientInv(c, me, srv, in, out), ~me.fin, me.down # <<>>
  PROVE  /\ ~Asks(c, me, srv) /\ srv.conn = c
         /\ me.st \notin {"idle", "gone", "broken"}
  BY DEF ClientInv, Outgoing

LEMMA DeliverStep ==
  ASSUME HttpInv, NEW c \in Clients, Deliver(c) PROVE HttpInv'
<1>1. PICK me, k : me = client[c] /\ k = Least(Segment, Len(me.down))
  OBVIOUS
<1>2. /\ me \in ClientType /\ ClientOK(c, me, httpdIn, httpdOut)
      /\ ClientInv(c, me, server, httpdIn, httpdOut)
      /\ server \in ServerType /\ client \in [Clients -> ClientType]
  BY <1>1, ClientIs
<1>3. /\ k \in Nat /\ k <= Len(me.down)
      /\ Len(me.down) \in Nat /\ Len(me.got) \in Nat
      /\ me.down \in Seq(References) /\ me.got \in Seq(Bytes)
  <2>1. Segment \in Nat
    BY SizesAssumption
  <2>2. /\ me.down \in Seq(References) /\ me.got \in Seq(Bytes)
    BY <1>2 DEF ClientType
  <2>3. Len(me.down) \in Nat /\ Len(me.got) \in Nat
    BY <2>2
  <2> QED
    BY <1>1, <2>1, <2>2, <2>3 DEF Least
<1>4. PICK bytes : bytes = [i \in 1 .. k |-> Content(me.down[i])]
  OBVIOUS
<1>5. ASSUME NEW i \in 1 .. k
      PROVE  /\ Content(me.down[i]) \in Bytes
             /\ Content(me.down[i]) = ByteAt(me.down[i], httpdIn, httpdOut)
  <2>1. me.down[i] \in References
    BY <1>3
  <2>2. InBuffer(me.down[i], httpdIn, httpdOut)
    BY <1>2, <1>3 DEF ClientOK, Kept
  <2> QED
    BY <2>1, <2>2, ContentIs DEF HttpInv
<1>6. /\ bytes \in Seq(Bytes) /\ Len(bytes) = k
      /\ \A i \in 1 .. k : bytes[i] = ByteAt(me.down[i], httpdIn, httpdOut)
  BY <1>3, <1>4, <1>5
<1>7. PICK got, down :
        got = me.got \o bytes /\ down = SubSeq(me.down, k + 1, Len(me.down))
  OBVIOUS
<1>8. /\ got \in Seq(Bytes) /\ Len(got) = Len(me.got) + k
      /\ \A i \in 1 .. Len(me.got) : got[i] = me.got[i]
      /\ \A i \in 1 .. k : got[Len(me.got) + i] = bytes[i]
  <2>1. PICK g : g = me.got
    OBVIOUS
  <2>2. g \in Seq(Bytes) /\ bytes \in Seq(Bytes) /\ got = g \o bytes
    BY <1>3, <1>6, <1>7, <2>1
  <2>3. /\ g \o bytes \in Seq(Bytes)
        /\ Len(g \o bytes) = Len(g) + Len(bytes)
        /\ \A i \in 1 .. Len(g) : (g \o bytes)[i] = g[i]
        /\ \A i \in 1 .. Len(bytes) : (g \o bytes)[Len(g) + i] = bytes[i]
    BY <2>2, CatOf
  <2> QED
    BY <1>6, <2>1, <2>2, <2>3
<1>9. /\ down \in Seq(References) /\ Len(down) = Len(me.down) - k
      /\ \A i \in 1 .. Len(me.down) - k : down[i] = me.down[k + i]
  BY <1>3, <1>7
<1>10. PICK new : new = [me EXCEPT !.got = got, !.down = down]
  OBVIOUS
<1>11. /\ new \in ClientType /\ new.got = got /\ new.down = down
       /\ new.st = me.st /\ new.req = me.req
       /\ new.up = me.up /\ new.fin = me.fin
  BY <1>2, <1>8, <1>9, <1>10 DEF ClientType
<1>12. /\ client' = [client EXCEPT ![c] = new] /\ me.down # <<>>
       /\ UNCHANGED <<backlog, httpdIn, httpdOut, server>>
  BY <1>1, <1>2, <1>4, <1>7, <1>10 DEF Deliver
<1>13. ClientOK(c, new, httpdIn, httpdOut)
  <2>1. Kept(down, httpdIn, httpdOut)
    <3>1. ASSUME NEW i \in 1 .. Len(down)
          PROVE  InBuffer(down[i], httpdIn, httpdOut)
      <4>1. k + i \in 1 .. Len(me.down) /\ down[i] = me.down[k + i]
        BY <1>3, <1>9
      <4> QED
        BY <1>2, <4>1 DEF ClientOK, Kept
    <3> QED
      BY <1>9, <3>1 DEF Kept
  <2>2. Len(down) <= SndBuf
    <3>1. SndBuf \in Nat /\ Len(me.down) <= SndBuf
      BY <1>2, SizesAssumption DEF ClientOK
    <3> QED
      BY <1>3, <1>9, <3>1
  <2> QED
    BY <1>2, <1>11, <2>1, <2>2 DEF ClientOK
<1>14. ClientInv(c, new, server, httpdIn, httpdOut)
  <2> SUFFICES ASSUME ~me.fin
               PROVE  /\ Incoming(c, new, server)
                      /\ Gathered(c, new, server, httpdIn)
                      /\ Outgoing(c, new, server, httpdIn, httpdOut)
    BY <1>11 DEF ClientInv
  <2>1. /\ ~Asks(c, me, server) /\ server.conn = c
        /\ me.st \notin {"idle", "gone", "broken"}
    BY <1>2, <1>12, BusyIs
  <2>2. Incoming(c, new, server) /\ Gathered(c, new, server, httpdIn)
    BY <1>2, <1>11 DEF ClientInv, Incoming, Gathered, Asks, Whole
  <2>3. Answer(c, me, Rest(c, server), httpdIn, httpdOut)
    BY <1>2, <2>1 DEF ClientInv, Outgoing
  <2>4. Rest(c, server) \in Seq(References)
    BY <1>2, PosType
  <2>5. Answer(c, new, Rest(c, server), httpdIn, httpdOut)
    <3>1. /\ Len(new.got) = Len(me.got) + k
          /\ Len(new.down) = Len(me.down) - k
          /\ \A i \in 1 .. Len(me.got) : new.got[i] = me.got[i]
          /\ \A i \in 1 .. k :
               new.got[Len(me.got) + i] = ByteAt(me.down[i], httpdIn, httpdOut)
          /\ \A i \in 1 .. Len(me.down) - k : new.down[i] = me.down[k + i]
      BY <1>6, <1>8, <1>9, <1>11
    <3>2. me \in ClientType /\ new \in ClientType /\ k \in Nat
      BY <1>2, <1>3, <1>11
    <3>3. new.req = me.req /\ k <= Len(me.down)
      BY <1>3, <1>11
    <3> QED
      BY <2>3, <2>4, <3>1, <3>2, <3>3, AnswerMoves, ZenonT(60)
  <2> QED
    BY <1>11, <2>1, <2>2, <2>5 DEF Outgoing, Asks
<1> QED
  BY <1>1, <1>11, <1>12, <1>13, <1>14, ClientStep DEF Connected

LEMMA LeaveStep ==
  ASSUME HttpInv, NEW c \in Clients, Leave(c) PROVE HttpInv'
<1>1. PICK me, new :
        /\ me = client[c]
        /\ new = [me EXCEPT !.st = "gone", !.down = <<>>, !.got = <<>>]
  OBVIOUS
<1>2. /\ me \in ClientType /\ ClientOK(c, me, httpdIn, httpdOut)
      /\ ClientInv(c, me, server, httpdIn, httpdOut)
      /\ server \in ServerType
  BY <1>1, ClientIs
<1>3. /\ client' = [client EXCEPT ![c] = new]
      /\ UNCHANGED <<backlog, httpdIn, httpdOut, server>>
      /\ me.st \in {"idle", "waiting"}
  BY <1>1 DEF Leave, Stuck, Answered
<1>4. /\ new.st = "gone" /\ new.fin = me.fin /\ new.up = me.up
      /\ new.down = <<>> /\ new.got = <<>> /\ new.req = me.req
  BY <1>1, <1>2 DEF ClientType
<1>5. new \in ClientType
  <2>1. <<>> \in Seq(Bytes) /\ <<>> \in Seq(References)
    OBVIOUS
  <2> QED
    BY <1>1, <1>2, <2>1 DEF ClientType
<1>6. ClientOK(c, new, httpdIn, httpdOut)
  <2>1. Kept(<<>>, httpdIn, httpdOut) /\ SndBuf \in Nat
    BY SizesAssumption DEF Kept
  <2> QED
    BY <1>4, <1>5, <2>1 DEF ClientOK
<1>7. ClientInv(c, new, server, httpdIn, httpdOut)
  <2> SUFFICES ASSUME ~me.fin
               PROVE  /\ Incoming(c, new, server)
                      /\ Gathered(c, new, server, httpdIn)
                      /\ Outgoing(c, new, server, httpdIn, httpdOut)
    BY <1>4 DEF ClientInv
  <2>1. Incoming(c, new, server) /\ Gathered(c, new, server, httpdIn)
    BY <1>2, <1>4 DEF ClientInv, Incoming, Gathered, Asks, Whole
  <2>2. Outgoing(c, new, server, httpdIn, httpdOut)
    BY <1>2, <1>4 DEF ClientInv, Outgoing, Asks
  <2> QED
    BY <2>1, <2>2
<1> QED
  BY <1>1, <1>3, <1>4, <1>6, <1>7, ClientStep DEF Connected

LEMMA BreakStep ==
  ASSUME HttpInv, NEW c \in Clients, Break(c) PROVE HttpInv'
<1>1. PICK me : me = client[c]
  OBVIOUS
<1>2. /\ me \in ClientType /\ ClientOK(c, me, httpdIn, httpdOut)
      /\ ClientInv(c, me, server, httpdIn, httpdOut)
      /\ server \in ServerType
  BY <1>1, ClientIs
<1>3. /\ me.st = "waiting"
      /\ UNCHANGED <<backlog, httpdIn, httpdOut, server>>
  BY <1>1 DEF Break
<1>4. PICK k, new :
        /\ k \in 0 .. Len(me.up)
        /\ k = 0 \/ Packet(c, k, Len(me.up) = Whole(me))
        /\ client' = [client EXCEPT ![c] = new]
        /\ new = [me EXCEPT !.st = "broken", !.up = SubSeq(me.up, 1, k),
                            !.down = <<>>, !.got = <<>>]
  BY <1>1 DEF Break, Whole
<1>5. PICK up : up = SubSeq(me.up, 1, k)
  OBVIOUS
<1>6. /\ me.up \in Seq(Bytes) /\ me.req.code \in Nat
      /\ up \in Seq(Bytes) /\ Len(up) = k
      /\ Len(me.up) \in Nat /\ k \in Nat /\ k <= Len(me.up)
      /\ \A i \in 1 .. k : up[i] = me.up[i]
  <2>1. me.up \in Seq(Bytes) /\ me.req.code \in Nat
    BY <1>2 DEF ClientType
  <2> QED
    BY <1>4, <1>5, <2>1
<1>7. /\ new.st = "broken" /\ new.fin = me.fin /\ new.down = <<>>
      /\ new.up = up /\ new.got = <<>> /\ new.req = me.req
  BY <1>2, <1>4, <1>5 DEF ClientType
<1>8. new \in ClientType
  <2>1. <<>> \in Seq(Bytes) /\ <<>> \in Seq(References)
    OBVIOUS
  <2> QED
    BY <1>2, <1>4, <1>5, <1>6, <2>1 DEF ClientType
<1>9. ClientOK(c, new, httpdIn, httpdOut)
  <2>1. Kept(<<>>, httpdIn, httpdOut) /\ SndBuf \in Nat
    BY SizesAssumption DEF Kept
  <2> QED
    BY <1>2, <1>7, <1>8, <2>1 DEF ClientOK
<1>10. ClientInv(c, new, server, httpdIn, httpdOut)
  <2> SUFFICES ASSUME ~me.fin
               PROVE  /\ Incoming(c, new, server)
                      /\ Gathered(c, new, server, httpdIn)
                      /\ Outgoing(c, new, server, httpdIn, httpdOut)
    BY <1>7 DEF ClientInv
  <2>1. PICK p : p = Pos(c, server)
    OBVIOUS
  <2>2. p \in Nat
    BY <1>2, <2>1, PosType, SizesAssumption
  <2>3. Incoming(c, me, server) /\ Outgoing(c, me, server, httpdIn, httpdOut)
    BY <1>2 DEF ClientInv
  <2>4. k # 0 => p + Len(me.up) = Whole(me)
    BY <1>3, <1>6, <2>1, <2>3 DEF Incoming
  <2>5. \A i \in 1 .. k : up[i] = Message(c, me.req)[p + i]
    BY <1>6, <2>1, <2>3 DEF Incoming
  <2>6. k # 0 /\ me.req.code >= Text => k = Len(me.up)
    BY <1>1, <1>4 DEF Packet
  <2>7. k # 0 /\ p = 0 => k >= Hdr
    BY <1>4, <1>6, <2>2, <2>4 DEF Packet
  <2>8. up = <<>> <=> k = 0
    BY <1>6
  <2>9. Whole(new) = Whole(me)
    BY <1>7 DEF Whole
  <2>14. Asks(c, new, server) => p + k <= Whole(me) /\ Asks(c, me, server)
    <3>1. Asks(c, new, server) => Asks(c, me, server)
      BY <1>6, <1>7, <2>8 DEF Asks
    <3>2. Asks(c, me, server) => p + Len(me.up) <= Whole(me)
      BY <2>1, <2>3 DEF Incoming
    <3>3. Whole(me) \in Nat
      BY <1>2 DEF Whole, ClientType, Hdr
    <3> QED
      BY <1>6, <2>2, <3>1, <3>2, <3>3
  <2>10. p > 0 => me.req.code < Text /\ server.exp = Whole(me)
    BY <2>1, <2>3 DEF Incoming
  <2>11. Incoming(c, new, server)
    <3>1. new.up # <<>> /\ new.req.code >= Text => p + Len(new.up) = Whole(new)
      BY <1>6, <1>7, <2>4, <2>6, <2>8, <2>9
    <3>2. new.up # <<>> /\ p = 0 => Len(new.up) >= Hdr
      BY <1>6, <1>7, <2>7, <2>8
    <3> QED
      BY <1>6, <1>7, <2>1, <2>5, <2>9, <2>10, <2>14, <3>1, <3>2 DEF Incoming
  <2>12. Gathered(c, new, server, httpdIn)
    BY <1>2, <1>7 DEF ClientInv, Gathered
  <2>13. Outgoing(c, new, server, httpdIn, httpdOut)
    BY <1>7, <2>3, <2>14 DEF Outgoing
  <2> QED
    BY <2>11, <2>12, <2>13
<1> QED
  BY <1>1, <1>3, <1>4, <1>7, <1>9, <1>10, ClientStep DEF Connected

-----------------------------------------------------------------------------
(* The thread.                                                             *)
LEMMA AcceptStep ==
  ASSUME HttpInv, netconn_accept PROVE HttpInv'
<1>1. /\ server.st = "accept" /\ server.conn = Nobody /\ server.rest = <<>>
      /\ server \in ServerType /\ backlog \in Seq(Clients) /\ backlog # <<>>
      /\ UNCHANGED <<client, httpdIn, httpdOut>>
  BY DEF netconn_accept, HttpInv, ServerOK, Connections
<1>2. PICK c : c = Head(backlog)
  OBVIOUS
<1>3. PICK n \in Nat : Len(backlog) = n + 1
  <2>1. Len(backlog) - 1 \in Nat /\ Len(backlog) = (Len(backlog) - 1) + 1
    BY <1>1
  <2> QED
    BY <2>1
<1>4. /\ c \in Clients /\ c = backlog[1]
      /\ backlog' \in Seq(Clients) /\ Len(backlog') = n
      /\ \A i \in 1 .. n : backlog'[i] = backlog[i + 1]
  <2>1. backlog' = Tail(backlog)
    BY DEF netconn_accept
  <2> QED
    BY <1>1, <1>2, <1>3, <2>1
<1>5. /\ server'.st = "recv" /\ server'.conn = c /\ server'.idx = 0
      /\ server'.rest = <<>> /\ server' \in ServerType
  <2>1. server' = [server EXCEPT !.st = "recv", !.conn = c, !.idx = 0]
    BY <1>2 DEF netconn_accept
  <2>2. /\ server'.st = "recv" /\ server'.conn = c /\ server'.idx = 0
        /\ server'.rest = server.rest
    BY <1>1, <2>1 DEF ServerType
  <2>3. InSize \in Nat /\ 0 \in 0 .. InSize
    BY SizesAssumption
  <2>4. server' \in ServerType
    BY <1>1, <1>4, <2>1, <2>3 DEF ServerType
  <2> QED
    BY <1>1, <2>2, <2>4
<1>6. ServerOK(server', httpdIn, httpdOut)
  <2>1. Len(httpdIn) \in Nat
    BY DEF HttpInv, Buffers
  <2>2. c # Nobody
    BY <1>4, NobodyAssumption
  <2>3. Kept(server'.rest, httpdIn, httpdOut)
    BY <1>5 DEF Kept
  <2> QED
    BY <1>5, <2>1, <2>2, <2>3 DEF ServerOK
<1>7. ASSUME NEW e \in Clients
      PROVE  ClientInv(e, client[e], server', httpdIn, httpdOut)
  <2>1. PICK me : me = client[e]
    OBVIOUS
  <2>2. me \in ClientType /\ ClientInv(e, me, server, httpdIn, httpdOut)
    BY <2>1, ClientIs
  <2>3. server.conn # e
    BY <1>1, NobodyAssumption
  <2>4. CASE e # c
    BY <1>5, <2>1, <2>2, <2>3, <2>4, OtherKept
  <2>5. CASE e = c
    <3>1. /\ Pos(e, server) = 0 /\ Pos(e, server') = 0
          /\ Rest(e, server) = <<>> /\ Rest(e, server') = <<>>
      BY <1>1, <1>5, <2>3, <2>5 DEF Pos, Rest
    <3>2. Asks(e, me, server) <=> Asks(e, me, server')
      BY <3>1 DEF Asks
    <3>3. Incoming(e, me, server) => Incoming(e, me, server')
      BY <3>1, <3>2 DEF Incoming
    <3>4. Gathered(e, me, server', httpdIn)
      BY <3>1 DEF Gathered
    <3>5. Outgoing(e, me, server, httpdIn, httpdOut)
            => Outgoing(e, me, server', httpdIn, httpdOut)
      BY <1>5, <2>5, <3>1, <3>2 DEF Outgoing
    <3> QED
      BY <2>1, <2>2, <3>3, <3>4, <3>5 DEF ClientInv
  <2> QED
    BY <2>4, <2>5
<1>8. Connections'
  <2>1. /\ \A i \in 1 .. n + 1 :
             /\ Connected(client[backlog[i]])
             /\ \A j \in 1 .. n + 1 : backlog[i] = backlog[j] => i = j
    BY <1>3 DEF HttpInv, Connections
  <2>2. Connected(client[c])
    BY <1>3, <1>4, <2>1
  <2>3. ASSUME NEW i \in 1 .. n
        PROVE  /\ backlog'[i] # c /\ Connected(client[backlog'[i]])
               /\ \A j \in 1 .. n : backlog'[i] = backlog'[j] => i = j
    <3>1. i + 1 \in 1 .. n + 1 /\ i + 1 # 1 /\ 1 \in 1 .. n + 1
      BY <1>3
    <3>2. \A j \in 1 .. n : j + 1 \in 1 .. n + 1 /\ (i + 1 = j + 1 => i = j)
      BY <1>3
    <3> QED
      BY <1>4, <2>1, <3>1, <3>2
  <2> QED
    BY <1>1, <1>4, <1>5, <2>2, <2>3 DEF Connections
<1> QED
  BY <1>1, <1>6, <1>7, <1>8 DEF HttpInv

LEMMA ServedIs ==
  ASSUME HttpInv, server.st # "accept"
  PROVE  /\ server.conn \in Clients /\ server \in ServerType
         /\ ServerOK(server, httpdIn, httpdOut)
         /\ Connected(client[server.conn])
         /\ Len(httpdIn) \in Nat /\ Len(httpdOut) \in Nat
<1>1. server \in ServerType /\ server.conn # Nobody
  BY DEF HttpInv, ServerOK
<1>2. server.conn \in Clients
  BY <1>1 DEF ServerType
<1> QED
  BY <1>1, <1>2 DEF HttpInv, Connections, Buffers

LEMMA ClosedIs ==
  ASSUME HttpInv
  PROVE  /\ ServerOK(Closed, httpdIn, httpdOut) /\ Closed.conn = Nobody
         /\ \A in, out : Len(in) \in Nat => ServerOK(Closed, in, out)
<1>1. server \in ServerType
  BY DEF HttpInv, ServerOK
<1>2. InSize \in Nat /\ 0 \in 0 .. InSize /\ Len(httpdIn) \in Nat
  BY SizesAssumption DEF HttpInv, Buffers
<1>3. /\ Closed.conn = Nobody /\ Closed.st = "accept" /\ Closed.idx = 0
      /\ Closed.rest = <<>>
  BY <1>1 DEF Closed, ServerType
<1>4. Closed \in ServerType
  <2>1. <<>> \in Seq(References)
    OBVIOUS
  <2> QED
    BY <1>1, <1>2, <2>1 DEF Closed, ServerType
<1>5. \A in, out : Kept(<<>>, in, out)
  BY DEF Kept
<1>6. \A in, out : Len(in) \in Nat => ServerOK(Closed, in, out)
  BY <1>3, <1>4, <1>5 DEF ServerOK
<1> QED
  BY <1>2, <1>3, <1>6

LEMMA ReceiveFailsStep ==
  ASSUME HttpInv, ReceiveFails PROVE HttpInv'
<1>1. PICK c, me : c = server.conn /\ me = client[c]
  OBVIOUS
<1>2. /\ server.st = "recv" /\ me.st \in {"gone", "broken"} /\ me.up = <<>>
      /\ server' = Closed
      /\ UNCHANGED <<client, backlog, httpdIn, httpdOut>>
  BY <1>1 DEF ReceiveFails, Gone
<1>3. c \in Clients
  BY <1>1, <1>2, ServedIs
<1>4. /\ me \in ClientType /\ ClientOK(c, me, httpdIn, httpdOut)
      /\ ClientInv(c, me, server, httpdIn, httpdOut)
      /\ client \in [Clients -> ClientType]
  BY <1>1, <1>3, ClientIs
<1>5. server'.conn # c /\ ServerOK(server', httpdIn, httpdOut)
      /\ server'.conn = Nobody
  BY <1>2, <1>3, ClosedIs, NobodyAssumption
<1>6. ClientInv(c, me, server', httpdIn, httpdOut)
  <2> SUFFICES ASSUME ~me.fin
               PROVE  /\ Incoming(c, me, server')
                      /\ Gathered(c, me, server', httpdIn)
                      /\ Outgoing(c, me, server', httpdIn, httpdOut)
    BY DEF ClientInv
  <2>1. Pos(c, server') = 0 /\ Rest(c, server') = <<>>
    BY <1>5 DEF Pos, Rest
  <2>2. me.got = <<>> /\ me.down = <<>>
    BY <1>2, <1>4 DEF ClientInv, Outgoing
  <2> QED
    BY <1>2, <2>1, <2>2 DEF Incoming, Gathered, Outgoing, Asks
<1>7. client' = [client EXCEPT ![c] = me]
  BY <1>1, <1>2, <1>3, <1>4
<1> QED
  BY <1>1, <1>2, <1>3, <1>4, <1>5, <1>6, <1>7, ServerKeeps

LEMMA WrittenStep ==
  ASSUME HttpInv, Written PROVE HttpInv'
<1>1. PICK c, me : c = server.conn /\ me = client[c]
  OBVIOUS
<1>2. /\ server.st = "send" /\ server.rest = <<>>
      /\ UNCHANGED <<backlog, httpdIn, httpdOut>>
  BY DEF Written
<1>3. /\ c \in Clients /\ server \in ServerType /\ Connected(me)
      /\ ServerOK(server, httpdIn, httpdOut)
  BY <1>1, <1>2, ServedIs
<1>4. /\ me \in ClientType /\ ClientOK(c, me, httpdIn, httpdOut)
      /\ ClientInv(c, me, server, httpdIn, httpdOut)
      /\ client \in [Clients -> ClientType]
  BY <1>1, <1>3, ClientIs
<1>6. CASE server.close
  <2>1. PICK new : new = [me EXCEPT !.fin = TRUE]
    OBVIOUS
  <2>2. server' = Closed /\ client' = [client EXCEPT ![c] = new]
    BY <1>1, <1>4, <1>6, <2>1 DEF Written
  <2>3. /\ new \in ClientType /\ new.fin /\ new.st = me.st
        /\ new.down = me.down
    BY <1>4, <2>1 DEF ClientType
  <2>4. ClientOK(c, new, httpdIn, httpdOut)
    BY <1>3, <1>4, <2>3 DEF ClientOK, Connected
  <2>5. ClientInv(c, new, server', httpdIn, httpdOut)
    BY <2>3 DEF ClientInv
  <2>6. /\ ServerOK(server', httpdIn, httpdOut)
        /\ server'.conn = Nobody /\ c # Nobody
    BY <1>3, <2>2, ClosedIs, NobodyAssumption
  <2> QED
    BY <1>1, <1>2, <1>3, <2>2, <2>4, <2>5, <2>6, ServerKeeps
<1>7. CASE ~server.close
  <2>1. /\ server' = [server EXCEPT !.st = "recv"]
        /\ client' = [client EXCEPT ![c] = me]
    BY <1>1, <1>3, <1>4, <1>7 DEF Written
  <2>2. /\ server' \in ServerType /\ server'.st = "recv"
        /\ server'.conn = server.conn /\ server'.idx = server.idx
        /\ server'.exp = server.exp /\ server'.rest = server.rest
    BY <1>3, <2>1 DEF ServerType
  <2>3. ServerOK(server', httpdIn, httpdOut)
    BY <1>2, <1>3, <2>2 DEF ServerOK
  <2>4. ClientInv(c, me, server', httpdIn, httpdOut)
    <3>1. Pos(c, server') = Pos(c, server) /\ Rest(c, server') = Rest(c, server)
      BY <2>2 DEF Pos, Rest
    <3> QED
      BY <1>4, <2>2, <3>1
      DEF ClientInv, Incoming, Gathered, Outgoing, Asks
  <2> QED
    BY <1>1, <1>2, <1>3, <1>4, <2>1, <2>2, <2>3, <2>4, ServerKeeps
<1> QED
  BY <1>6, <1>7

(* References that go from the rest to down are those of the answer.       *)
LEMMA AnswerWritten ==
  ASSUME NEW c, NEW me \in ClientType, NEW new \in ClientType,
         NEW rest \in Seq(References), NEW rest2 \in Seq(References),
         NEW in, NEW out, Answer(c, me, rest, in, out),
         new.req = me.req, new.got = me.got,
         NEW k \in Nat, k <= Len(rest),
         Len(new.down) = Len(me.down) + k, Len(rest2) = Len(rest) - k,
         \A i \in 1 .. Len(me.down) : new.down[i] = me.down[i],
         \A i \in 1 .. k : new.down[Len(me.down) + i] = rest[i],
         \A i \in 1 .. Len(rest) - k : rest2[i] = rest[k + i]
  PROVE  Answer(c, new, rest2, in, out)
<1> DEFINE g == Len(me.got)
           d == Len(me.down)
           r == Len(rest)
<1>1. g \in Nat /\ d \in Nat /\ r \in Nat
  BY DEF ClientType
<1>2. /\ \A i \in 1 .. g : AnswerByte(c, me, me.got[i], i)
      /\ \A i \in 1 .. d :
           AnswerByte(c, me, ByteAt(me.down[i], in, out), g + i)
      /\ \A i \in 1 .. r :
           AnswerByte(c, me, ByteAt(rest[i], in, out), g + d + i)
  BY DEF Answer
<1>3. \A b, i : AnswerByte(c, me, b, i) <=> AnswerByte(c, new, b, i)
  BY DEF AnswerByte
<1>4. /\ Len(new.got) = g /\ Len(new.down) = d + k /\ Len(rest2) = r - k
      /\ \A i \in 1 .. d : new.down[i] = me.down[i]
      /\ \A i \in 1 .. k : new.down[d + i] = rest[i]
      /\ \A i \in 1 .. r - k : rest2[i] = rest[k + i]
      /\ k <= r
  OBVIOUS
<1> HIDE DEF g, d, r
<1>6. ASSUME NEW i \in 1 .. d + k
      PROVE  AnswerByte(c, new, ByteAt(new.down[i], in, out), g + i)
  <2>1. CASE i \in 1 .. d
    BY <1>2, <1>3, <1>4, <2>1
  <2>2. CASE i \notin 1 .. d
    <3>1. PICK j \in 1 .. k : i = d + j
      <4>1. i - d \in 1 .. k /\ i = d + (i - d)
        BY <1>1, <2>2
      <4> QED
        BY <4>1
    <3>2. j \in 1 .. r /\ g + i = g + d + j
      BY <1>1, <1>4, <3>1
    <3> QED
      BY <1>2, <1>3, <1>4, <3>1, <3>2
  <2> QED
    BY <2>1, <2>2
<1>7. ASSUME NEW i \in 1 .. r - k
      PROVE  AnswerByte(c, new, ByteAt(rest2[i], in, out), g + (d + k) + i)
  <2>1. k + i \in 1 .. r /\ g + (d + k) + i = g + d + (k + i)
    BY <1>1
  <2> QED
    BY <1>2, <1>3, <1>4, <2>1
<1>8. \A i \in 1 .. g : AnswerByte(c, new, new.got[i], i)
  BY <1>2, <1>3
<1> QED
  BY <1>4, <1>6, <1>7, <1>8 DEF Answer

LEMMA WriteStep ==
  ASSUME HttpInv, netconn_write PROVE HttpInv'
<1>1. PICK c, me, rest :
        c = server.conn /\ me = client[c] /\ rest = server.rest
  OBVIOUS
<1>2. /\ server.st = "send" /\ rest # <<>>
      /\ UNCHANGED <<backlog, httpdIn, httpdOut>>
  BY <1>1 DEF netconn_write
<1>3. /\ c \in Clients /\ server \in ServerType /\ Connected(me)
      /\ ServerOK(server, httpdIn, httpdOut)
  BY <1>1, <1>2, ServedIs
<1>4. /\ me \in ClientType /\ ClientOK(c, me, httpdIn, httpdOut)
      /\ ClientInv(c, me, server, httpdIn, httpdOut)
      /\ client \in [Clients -> ClientType] /\ ~me.fin
  BY <1>1, <1>3, ClientIs DEF Connected
<1>5. /\ rest \in Seq(References) /\ Kept(rest, httpdIn, httpdOut)
      /\ Rest(c, server) = rest /\ Pos(c, server) = 0 /\ server.idx = 0
      /\ c # Nobody
  BY <1>1, <1>2, <1>3, NobodyAssumption DEF ServerType, ServerOK, Rest, Pos
<1>6. /\ ~Asks(c, me, server) /\ me.st # "idle"
      /\ Incoming(c, me, server) /\ me.up = <<>>
  BY <1>2, <1>4, <1>5 DEF ClientInv, Outgoing, Asks
<1>7. ASSUME NEW rest2 \in Seq(References), Kept(rest2, httpdIn, httpdOut),
             server' = [server EXCEPT !.rest = rest2]
      PROVE  /\ ServerOK(server', httpdIn, httpdOut)
             /\ server'.conn = c /\ server'.rest = rest2 /\ server'.idx = 0
             /\ server'.st = "send"
  <2>1. /\ server' \in ServerType /\ server'.st = "send"
        /\ server'.conn = c /\ server'.idx = 0 /\ server'.rest = rest2
    BY <1>1, <1>2, <1>3, <1>5, <1>7 DEF ServerType
  <2>2. Len(httpdIn) \in Nat
    BY DEF HttpInv, Buffers
  <2> QED
    BY <1>5, <1>7, <2>1, <2>2 DEF ServerOK
<1>8. CASE me.st \in {"gone", "broken"}
  <2>1. /\ server' = [server EXCEPT !.rest = <<>>]
        /\ client' = [client EXCEPT ![c] = me]
    BY <1>1, <1>3, <1>4, <1>8 DEF netconn_write, Gone
  <2>2. /\ ServerOK(server', httpdIn, httpdOut) /\ server'.conn = c
        /\ server'.rest = <<>> /\ server'.idx = 0
    <3>1. <<>> \in Seq(References) /\ Kept(<<>>, httpdIn, httpdOut)
      BY DEF Kept
    <3> QED
      BY <1>7, <2>1, <3>1
  <2>3. ClientInv(c, me, server', httpdIn, httpdOut)
    <3>1. Pos(c, server') = 0 /\ Rest(c, server') = <<>>
      BY <2>2 DEF Pos, Rest
    <3>2. me.got = <<>> /\ me.down = <<>>
      BY <1>4, <1>8 DEF ClientInv, Outgoing
    <3> QED
      BY <1>6, <1>8, <3>1, <3>2
      DEF ClientInv, Incoming, Gathered, Outgoing, Asks
  <2> QED
    BY <1>1, <1>2, <1>3, <1>4, <2>1, <2>2, <2>3, ServerKeeps
<1>9. CASE me.st \notin {"gone", "broken"}
  <2>1. PICK k : k = Least(SndBuf - Len(me.down), Len(rest))
    OBVIOUS
  <2>2. /\ me.down \in Seq(References) /\ Len(me.down) <= SndBuf
        /\ Kept(me.down, httpdIn, httpdOut)
        /\ Len(me.down) \in Nat /\ Len(rest) \in Nat /\ SndBuf \in Nat
    <3>1. me.down \in Seq(References) /\ SndBuf \in Nat
      BY <1>4, SizesAssumption DEF ClientType
    <3> QED
      BY <1>4, <1>5, <3>1, EmptyIs DEF ClientOK
  <2>3. PICK p, down, rest2 :
          /\ p = SubSeq(rest, 1, k) /\ down = me.down \o p
          /\ rest2 = SubSeq(rest, k + 1, Len(rest))
    OBVIOUS
  <2>4. PICK new : new = [me EXCEPT !.down = down]
    OBVIOUS
  <2>5. /\ k > 0
        /\ client' = [client EXCEPT ![c] = new]
        /\ server' = [server EXCEPT !.rest = rest2]
    BY <1>1, <1>3, <1>4, <1>9, <2>1, <2>3, <2>4 DEF netconn_write, Gone
  <2>6. k \in Nat /\ k <= Len(rest) /\ Len(me.down) + k <= SndBuf
    <3>1. PICK d, r : d = Len(me.down) /\ r = Len(rest)
      OBVIOUS
    <3>2. d \in Nat /\ r \in Nat /\ d <= SndBuf /\ SndBuf \in Nat
      BY <2>2, <3>1
    <3>3. k = IF SndBuf - d < r THEN SndBuf - d ELSE r
      BY <2>1, <3>1 DEF Least
    <3>4. k \in Nat /\ k <= r /\ d + k <= SndBuf
      BY <3>2, <3>3
    <3> QED
      BY <3>1, <3>4
  <2>7. /\ p \in Seq(References) /\ Len(p) = k
        /\ \A i \in 1 .. k : p[i] = rest[i]
    BY <1>5, <2>2, <2>3, <2>6
  <2>8. /\ rest2 \in Seq(References) /\ Len(rest2) = Len(rest) - k
        /\ \A i \in 1 .. Len(rest) - k : rest2[i] = rest[k + i]
    BY <1>5, <2>2, <2>3, <2>6
  <2>9. /\ down \in Seq(References) /\ Len(down) = Len(me.down) + k
        /\ \A i \in 1 .. Len(me.down) : down[i] = me.down[i]
        /\ \A i \in 1 .. k : down[Len(me.down) + i] = rest[i]
    <3>1. PICK d : d = me.down
      OBVIOUS
    <3>2. d \in Seq(References) /\ p \in Seq(References) /\ down = d \o p
      BY <2>2, <2>3, <2>7, <3>1
    <3>3. /\ d \o p \in Seq(References)
          /\ Len(d \o p) = Len(d) + Len(p)
          /\ \A i \in 1 .. Len(d) : (d \o p)[i] = d[i]
          /\ \A i \in 1 .. Len(p) : (d \o p)[Len(d) + i] = p[i]
      BY <3>2, CatOf
    <3> QED
      BY <2>7, <3>1, <3>2, <3>3
  <2>10. /\ new \in ClientType /\ new.down = down /\ new.st = me.st
         /\ new.req = me.req /\ new.up = me.up
         /\ new.got = me.got /\ new.fin = me.fin
    BY <1>4, <2>4, <2>9 DEF ClientType
  <2>11. \A i \in 1 .. Len(rest) : InBuffer(rest[i], httpdIn, httpdOut)
    BY <1>5 DEF Kept
  <2>12. Kept(rest2, httpdIn, httpdOut)
    <3>1. ASSUME NEW i \in 1 .. Len(rest2)
          PROVE  InBuffer(rest2[i], httpdIn, httpdOut)
      <4>1. k + i \in 1 .. Len(rest) /\ rest2[i] = rest[k + i]
        BY <2>2, <2>6, <2>8
      <4> QED
        BY <2>11, <4>1
    <3> QED
      BY <2>8, <3>1 DEF Kept
  <2>13. Kept(down, httpdIn, httpdOut)
    <3>1. ASSUME NEW i \in 1 .. Len(down)
          PROVE  InBuffer(down[i], httpdIn, httpdOut)
      <4>1. CASE i \in 1 .. Len(me.down)
        BY <2>2, <2>9, <4>1 DEF Kept
      <4>2. CASE i \notin 1 .. Len(me.down)
        <5>1. PICK j \in 1 .. k : i = Len(me.down) + j
          <6>1. /\ i - Len(me.down) \in 1 .. k
                /\ i = Len(me.down) + (i - Len(me.down))
            BY <2>2, <2>6, <2>9, <4>2
          <6> QED
            BY <6>1
        <5>2. j \in 1 .. Len(rest) /\ down[i] = rest[j]
          BY <2>2, <2>6, <2>9, <5>1
        <5> QED
          BY <2>11, <5>2
      <4> QED
        BY <4>1, <4>2
    <3> QED
      BY <2>9, <3>1 DEF Kept
  <2>14. /\ ServerOK(server', httpdIn, httpdOut) /\ server'.conn = c
         /\ server'.rest = rest2 /\ server'.idx = 0
    BY <1>7, <2>5, <2>8, <2>12
  <2>15. ClientOK(c, new, httpdIn, httpdOut)
    BY <1>4, <2>6, <2>9, <2>10, <2>13 DEF ClientOK
  <2>16. ClientInv(c, new, server', httpdIn, httpdOut)
    <3>1. Pos(c, server') = 0 /\ Rest(c, server') = rest2
      BY <2>14 DEF Pos, Rest
    <3>2. Answer(c, me, rest, httpdIn, httpdOut)
      BY <1>4, <1>5, <1>9 DEF ClientInv, Outgoing
    <3>3. /\ Len(new.down) = Len(me.down) + k
          /\ \A i \in 1 .. Len(me.down) : new.down[i] = me.down[i]
          /\ \A i \in 1 .. k : new.down[Len(me.down) + i] = rest[i]
      BY <2>9, <2>10
    <3>4. Answer(c, new, rest2, httpdIn, httpdOut)
      BY <1>4, <1>5, <2>6, <2>8, <2>10, <3>2, <3>3, AnswerWritten
    <3>5. Incoming(c, new, server') /\ Gathered(c, new, server', httpdIn)
      BY <1>6, <2>10, <3>1 DEF Incoming, Gathered, Asks
    <3>6. Outgoing(c, new, server', httpdIn, httpdOut)
      BY <1>6, <1>9, <2>10, <2>14, <3>1, <3>4 DEF Outgoing, Asks
    <3> QED
      BY <3>5, <3>6 DEF ClientInv
  <2> QED
    BY <1>1, <1>2, <1>3, <2>5, <2>10, <2>14, <2>15, <2>16, ServerKeeps
    DEF Connected
<1> QED
  BY <1>8, <1>9

(* A buffer begins with the first n bytes of the request of client c.      *)
Begins(in, c, me, n) ==
  \A i \in 1 .. n : in[i] = Message(c, me.req)[i]

(* The server receives k bytes of a request that is on its way: the buffer *)
(* is in then, the server has n bytes of the request, and up is to come.   *)
Received(c, me, k, n, in, up) ==
  /\ server.st = "recv" /\ c = server.conn /\ me = client[c]
  /\ k \in Nat /\ 1 <= k /\ k <= Segment /\ k <= Len(me.up)
  /\ Packet(c, k, server.idx = 0)
  /\ n = server.idx + k
  /\ in = Put(httpdIn, server.idx, SubSeq(me.up, 1, k))
  /\ up = SubSeq(me.up, k + 1, Len(me.up))

LEMMA PacketIs ==
  ASSUME HttpInv, NEW c, NEW me, NEW k, NEW n, NEW in, NEW up,
         Received(c, me, k, n, in, up)
  PROVE  /\ n \in Nat /\ 0 < n /\ n <= InSize + Segment
         /\ in \in Seq(Bytes) /\ n <= Len(in) /\ Len(in) <= InSize + Segment
         /\ Len(httpdIn) <= Len(in)
         /\ Begins(in, c, me, n)
         /\ up \in Seq(Bytes) /\ n + Len(up) <= Whole(me)
         /\ n + Len(up) = server.idx + Len(me.up)
         /\ me.st = "waiting" \/ me.req.code >= Text
              => n + Len(up) = Whole(me)
         /\ \A i \in 1 .. Len(up) : up[i] = Message(c, me.req)[n + i]
         /\ me.st # "idle" /\ me.got = <<>> /\ me.down = <<>>
         /\ me.req.code >= Text => up = <<>>
         /\ me.req.code >= Text => server.idx = 0
         /\ server.idx # 0 => server.exp = Whole(me)
         /\ server.idx = 0 => Hdr <= n
<1>1. /\ c \in Clients /\ server \in ServerType /\ Connected(me)
      /\ ServerOK(server, httpdIn, httpdOut) /\ Len(httpdIn) \in Nat
      /\ server.conn = c
  BY ServedIs DEF Received
<1>2. /\ me \in ClientType /\ ~me.fin
      /\ ClientInv(c, me, server, httpdIn, httpdOut)
  BY <1>1, ClientIs DEF Connected, Received
<1>3. PICK p, u : p = server.idx /\ u = me.up
  OBVIOUS
<1>4. /\ u \in Seq(Bytes) /\ Len(u) \in Nat /\ k <= Len(u) /\ u # <<>>
      /\ k \in Nat /\ 1 <= k /\ k <= Segment
      /\ p \in Nat /\ p <= InSize /\ p <= Len(httpdIn)
      /\ Pos(c, server) = p /\ InSize \in Nat /\ Segment \in Nat
  <2>1. u \in Seq(Bytes) /\ InSize \in Nat /\ Segment \in Nat
    BY <1>2, <1>3, SizesAssumption DEF ClientType
  <2>2. p \in 0 .. InSize /\ p <= Len(httpdIn) /\ Pos(c, server) = p
    BY <1>1, <1>3 DEF ServerType, ServerOK, Pos
  <2>3. k \in Nat /\ 1 <= k /\ k <= Segment /\ k <= Len(u)
    BY <1>3 DEF Received
  <2>4. Len(u) \in Nat /\ u # <<>>
    BY <2>1, <2>3, EmptyIs
  <2> QED
    BY <2>1, <2>2, <2>3, <2>4
<1>5. PICK s : s = SubSeq(u, 1, k)
  OBVIOUS
<1>6. /\ s \in Seq(Bytes) /\ Len(s) = k /\ \A i \in 1 .. k : s[i] = u[i]
      /\ up \in Seq(Bytes) /\ Len(up) = Len(u) - k
      /\ \A i \in 1 .. Len(u) - k : up[i] = u[k + i]
  <2>1. up = SubSeq(u, k + 1, Len(u))
    BY <1>3 DEF Received
  <2> QED
    BY <1>4, <1>5, <2>1
<1>7. in = Put(httpdIn, p, s) /\ httpdIn \in Seq(Bytes)
      /\ Len(httpdIn) <= InSize + Segment
  BY <1>3, <1>5 DEF Received, HttpInv, Buffers
<1>8. /\ in \in Seq(Bytes)
      /\ Len(in) = IF p + k > Len(httpdIn) THEN p + k ELSE Len(httpdIn)
      /\ \A i \in 1 .. p : in[i] = httpdIn[i]
      /\ \A i \in 1 .. k : in[p + i] = s[i]
  <2>1. PICK buf : buf = httpdIn
    OBVIOUS
  <2>2. buf \in Seq(Bytes) /\ p \in Nat /\ p <= Len(buf) /\ s \in Seq(Bytes)
    BY <1>4, <1>6, <1>7, <2>1
  <2>3. /\ Put(buf, p, s) \in Seq(Bytes)
        /\ Len(Put(buf, p, s)) =
             IF p + Len(s) > Len(buf) THEN p + Len(s) ELSE Len(buf)
        /\ \A i \in 1 .. p : Put(buf, p, s)[i] = buf[i]
        /\ \A i \in 1 .. Len(s) : Put(buf, p, s)[p + i] = s[i]
    BY <2>2, PutIn
  <2> QED
    BY <1>6, <1>7, <2>1, <2>3
<1>9. Asks(c, me, server) /\ Incoming(c, me, server)
      /\ Gathered(c, me, server, httpdIn)
      /\ Outgoing(c, me, server, httpdIn, httpdOut)
  BY <1>2, <1>3, <1>4 DEF ClientInv, Asks
<1>10. n = p + k /\ n \in Nat /\ 0 < n /\ n <= InSize + Segment
  <2>1. n = p + k
    BY <1>3 DEF Received
  <2> QED
    BY <1>4, <2>1
<1>11. n <= Len(in) /\ Len(in) <= InSize + Segment /\ Len(httpdIn) <= Len(in)
  BY <1>1, <1>4, <1>7, <1>8, <1>10
<1>12. Begins(in, c, me, n)
  <2>1. ASSUME NEW i \in 1 .. n PROVE in[i] = Message(c, me.req)[i]
    <3>1. CASE i \in 1 .. p
      BY <1>4, <1>8, <1>9, <3>1 DEF Gathered
    <3>2. CASE i \notin 1 .. p
      <4>1. PICK j \in 1 .. k : i = p + j
        <5>1. i - p \in 1 .. k /\ i = p + (i - p)
          BY <1>4, <1>10, <3>2
        <5> QED
          BY <5>1
      <4>2. j \in 1 .. Len(u) /\ in[i] = u[j]
        BY <1>4, <1>6, <1>8, <4>1
      <4> QED
        BY <1>3, <1>4, <1>9, <4>1, <4>2 DEF Incoming
    <3> QED
      BY <3>1, <3>2
  <2> QED
    BY <2>1 DEF Begins
<1>13. \A i \in 1 .. Len(up) : up[i] = Message(c, me.req)[n + i]
  <2>1. ASSUME NEW i \in 1 .. Len(up)
        PROVE  up[i] = Message(c, me.req)[n + i]
    <3>1. k + i \in 1 .. Len(u) /\ up[i] = u[k + i] /\ p + (k + i) = n + i
      BY <1>4, <1>6, <1>10
    <3>2. u[k + i] = Message(c, me.req)[p + (k + i)]
      BY <1>3, <1>4, <1>9, <3>1 DEF Incoming
    <3> QED
      BY <3>1, <3>2
  <2> QED
    BY <2>1
<1>14. n + Len(up) = p + Len(u) /\ n + Len(up) = server.idx + Len(me.up)
  BY <1>3, <1>4, <1>6, <1>10
<1>15. /\ n + Len(up) <= Whole(me)
       /\ me.st = "waiting" \/ me.req.code >= Text
            => n + Len(up) = Whole(me)
  BY <1>3, <1>4, <1>9, <1>14 DEF Incoming
<1>16. me.st # "idle" /\ me.got = <<>> /\ me.down = <<>>
  BY <1>9 DEF Incoming, Outgoing
<1>17. me.req.code >= Text => up = <<>>
  <2>1. me.req.code >= Text => k = Len(u)
    BY <1>3 DEF Packet, Received
  <2> QED
    BY <1>4, <1>6, <2>1, EmptyIs
<1>18. p > 0 => me.req.code < Text /\ server.exp = Whole(me)
  BY <1>4, <1>9 DEF Incoming
<1>19. me.req.code \in Nat
  BY <1>2 DEF ClientType
<1>20. me.req.code >= Text => server.idx = 0
  BY <1>3, <1>4, <1>18, <1>19 DEF Text
<1>21. server.idx # 0 => server.exp = Whole(me)
  BY <1>3, <1>4, <1>18
<1>22. server.idx = 0 => Hdr <= n
  BY <1>3, <1>4, <1>10 DEF Packet, Received, Hdr
<1> QED
  BY <1>6, <1>8, <1>10, <1>11, <1>12, <1>13, <1>14, <1>15, <1>16, <1>17,
     <1>20, <1>21, <1>22

(* The first bytes of a request, wherever they are.                        *)
LEMMA HeaderIs ==
  ASSUME NEW c \in Clients, NEW me \in ClientType, NEW in, NEW n \in Nat,
         Begins(in, c, me, n), n <= Whole(me), 0 < n
  PROVE  /\ in[1].val = me.req.code /\ in[1].who = c
         /\ Hdr <= n => ExpectedLength(in) = Whole(me)
         /\ \A i \in 1 .. n :
              /\ in[i] \in Bytes /\ in[i].who = c
              /\ in[i].at = i
<1>1. PICK r : r = me.req
  OBVIOUS
<1>2. /\ r \in [code : Nat, len : Nat, ans : Nat]
      /\ n <= Hdr + r.len /\ r.len \in Nat
  BY <1>1 DEF ClientType, Whole
<1>3. PICK m : m = Message(c, r)
  OBVIOUS
<1>4. /\ \A i \in 1 .. Hdr + r.len :
           m[i] \in Bytes /\ m[i].who = c /\ m[i].at = i
      /\ m[1].val = r.code /\ m[2].val = r.len /\ m[3].val = 0 /\ m[4].val = 0
  BY <1>2, <1>3, MessageIs
<1>5. \A i \in 1 .. n : in[i] = m[i] /\ i \in 1 .. Hdr + r.len
  BY <1>1, <1>2, <1>3 DEF Hdr, Begins
<1>6. 1 \in 1 .. n /\ (Hdr <= n => {2, 3, 4} \subseteq 1 .. n)
  BY DEF Hdr
<1>7. Hdr <= n => ExpectedLength(in) = Hdr + r.len
  <2>1. ASSUME Hdr <= n PROVE ExpectedLength(in) = Hdr + r.len
    <3>1. in[2].val = r.len /\ in[3].val = 0 /\ in[4].val = 0
      BY <1>4, <1>5, <1>6, <2>1
    <3> QED
      BY <1>2, <3>1 DEF ExpectedLength, Hdr
  <2> QED
    BY <2>1
<1> QED
  BY <1>1, <1>4, <1>5, <1>6, <1>7 DEF Whole

(* An answer of which nothing has been written.                            *)
LEMMA AnswerStarts ==
  ASSUME NEW c, NEW me, NEW rest \in Seq(References), NEW in, NEW out,
         me.got = <<>>, me.down = <<>>,
         \A i \in 1 .. Len(rest) :
           AnswerByte(c, me, ByteAt(rest[i], in, out), i)
  PROVE  Answer(c, me, rest, in, out)
<1>1. PICK l : l = Len(rest)
  OBVIOUS
<1>2. l \in Nat /\ 0 + 0 + l = l /\ \A i \in 1 .. l : 0 + 0 + i = i
  BY <1>1
<1>3. Len(me.got) = 0 /\ Len(me.down) = 0
  OBVIOUS
<1>4. \A i \in 1 .. l :
        AnswerByte(c, me, ByteAt(rest[i], in, out), 0 + 0 + i)
  BY <1>1, <1>2
<1> QED
  BY <1>1, <1>3, <1>4 DEF Answer

(* The answer to a request that is whole is handed over.                   *)
Answers(c, me, refs, in, out) ==
  /\ Kept(refs, in, out)
  /\ \A i \in 1 .. Len(refs) :
       AnswerByte(c, me, ByteAt(refs[i], in, out), i)
Grown ==
  /\ Buffers(httpdIn', httpdOut')
  /\ Len(httpdIn) <= Len(httpdIn') /\ Len(httpdOut) <= Len(httpdOut')

LEMMA HandOver ==
  ASSUME HttpInv, NEW c, NEW me, NEW k, NEW n, NEW in, NEW up,
         Received(c, me, k, n, in, up), up = <<>>,
         client' = [client EXCEPT ![c] = [me EXCEPT !.up = up, !.fin = FALSE]],
         UNCHANGED backlog, NEW refs, Grown,
         server' \in ServerType, server'.st \in {"send", "hung"},
         server'.conn = c, server'.idx = 0, server'.rest = refs,
         server'.st = "hung" => refs = <<>>,
         Answers(c, me, refs, httpdIn', httpdOut')
  PROVE  HttpInv'
<1>1. /\ c \in Clients /\ server \in ServerType /\ Connected(me)
      /\ server.conn = c /\ me = client[c]
      /\ me.st # "idle" /\ me.got = <<>> /\ me.down = <<>>
  <2>1. me.st # "idle" /\ me.got = <<>> /\ me.down = <<>>
    BY PacketIs
  <2>2. server.st = "recv" /\ server.conn = c /\ me = client[c]
    BY DEF Received
  <2> QED
    BY <2>1, <2>2, ServedIs
<1> DEFINE new == [me EXCEPT !.up = <<>>, !.fin = FALSE]
<1>2. me \in ClientType /\ ClientOK(c, me, httpdIn, httpdOut)
  BY <1>1, ClientIs
<1>3. /\ new \in ClientType /\ new.up = <<>> /\ new.fin = FALSE
      /\ new.st = me.st /\ new.req = me.req
      /\ new.got = <<>> /\ new.down = <<>>
  <2>1. <<>> \in Seq(Bytes)
    OBVIOUS
  <2> QED
    BY <1>1, <1>2, <2>1 DEF ClientType
<1> HIDE DEF new
<1>4. /\ refs \in Seq(References) /\ InSize \in Nat
      /\ Len(httpdIn') \in Nat /\ SndBuf \in Nat /\ Len(refs) \in Nat
      /\ Kept(refs, httpdIn', httpdOut')
  BY SizesAssumption DEF Kept, Answers, Grown, Buffers
<1>5. /\ server'.st \notin {"accept", "recv"} /\ server'.conn = c
      /\ server'.idx = 0 /\ server'.rest = refs
  OBVIOUS
<1>6. ServerOK(server', httpdIn', httpdOut')
  BY <1>1, <1>4, NobodyAssumption DEF ServerOK
<1>7. ClientOK(c, new, httpdIn', httpdOut')
  <2>1. Kept(<<>>, httpdIn', httpdOut')
    BY DEF Kept
  <2> QED
    BY <1>2, <1>3, <1>4, <2>1 DEF ClientOK
<1>8. Pos(c, server') = 0 /\ Rest(c, server') = refs
  BY <1>5 DEF Pos, Rest
<1>9. Answer(c, new, refs, httpdIn', httpdOut')
  <2>1. \A b, i : AnswerByte(c, me, b, i)
                    <=> AnswerByte(c, new, b, i)
    BY <1>3 DEF AnswerByte
  <2>2. \A i \in 1 .. Len(refs) :
          AnswerByte(c, new, ByteAt(refs[i], httpdIn', httpdOut'), i)
    BY <2>1 DEF Answers
  <2> QED
    BY <1>3, <1>4, <2>2, AnswerStarts
<1>10. ClientInv(c, new, server', httpdIn', httpdOut')
  <2>1. ~Asks(c, new, server')
    BY <1>3, <1>8 DEF Asks
  <2>2. Incoming(c, new, server')
    BY <1>3, <1>8, <2>1 DEF Incoming
  <2>3. Gathered(c, new, server', httpdIn')
    BY <1>8 DEF Gathered
  <2>4. Outgoing(c, new, server', httpdIn', httpdOut')
    BY <1>1, <1>3, <1>5, <1>8, <1>9, <2>1 DEF Outgoing
  <2> QED
    BY <2>2, <2>3, <2>4 DEF ClientInv
<1>11. Connected(new)
  BY <1>1, <1>3 DEF Connected
<1>12. client' = [client EXCEPT ![c] = new]
  BY DEF new
<1>13. /\ Buffers(httpdIn', httpdOut')
       /\ Len(httpdIn) <= Len(httpdIn') /\ Len(httpdOut) <= Len(httpdOut')
  BY DEF Grown
<1> QED
  BY <1>1, <1>5, <1>6, <1>7, <1>10, <1>11, <1>12, <1>13, ServerStep

LEMMA GoStep ==
  ASSUME HttpInv, NEW c, NEW me, NEW k, NEW n, NEW in, NEW up,
         Received(c, me, k, n, in, up), up = <<>>,
         client' = [client EXCEPT ![c] = [me EXCEPT !.up = up, !.fin = FALSE]],
         UNCHANGED backlog, NEW refs, NEW close \in BOOLEAN,
         Go(refs, close), Grown,
         Answers(c, me, refs, httpdIn', httpdOut')
  PROVE  HttpInv'
<1>1. server \in ServerType /\ server.conn = c
  BY ServedIs DEF Received
<1>2. 0 \in 0 .. InSize /\ refs \in Seq(References)
  BY SizesAssumption DEF Answers, Kept
<1>3. /\ server' \in ServerType /\ server'.st = "send"
      /\ server'.conn = c /\ server'.idx = 0 /\ server'.rest = refs
  BY <1>1, <1>2 DEF Go, ServerType
<1>. QED
  BY <1>3, HandOver

(* References to the first l bytes of a buffer.                            *)
LEMMA RefsAre ==
  ASSUME NEW buf \in {"in", "out"}, NEW l \in Nat, NEW in, NEW out,
         buf = "in" => l <= Len(in) /\ Len(in) \in Nat,
         buf = "out" => l <= Len(out) /\ Len(out) \in Nat
  PROVE  /\ Kept(Refs(buf, l), in, out) /\ Len(Refs(buf, l)) = l
         /\ \A i \in 1 .. l : ByteAt(Refs(buf, l)[i], in, out) =
                                IF buf = "in" THEN in[i] ELSE out[i]
<1> DEFINE ref(i) == [buf |-> buf, at |-> i]
<1>1. \A i \in 1 .. l : /\ ref(i) \in References
                        /\ InBuffer(ref(i), in, out)
                        /\ ByteAt(ref(i), in, out) =
                             IF buf = "in" THEN in[i] ELSE out[i]
  BY DEF References, InBuffer, ByteAt
<1>2. Refs(buf, l) = [i \in 1 .. l |-> ref(i)]
  BY DEF Refs
<1> HIDE DEF ref
<1>3. /\ Refs(buf, l) \in Seq(References) /\ Len(Refs(buf, l)) = l
      /\ \A i \in 1 .. l : Refs(buf, l)[i] = ref(i)
  BY <1>1, <1>2
<1> QED
  BY <1>1, <1>3 DEF Kept

LEMMA PutFirst ==
  ASSUME NEW S, NEW buf \in Seq(S), NEW s \in Seq(S)
  PROVE  /\ Put(buf, 0, s) \in Seq(S)
         /\ Len(Put(buf, 0, s)) = IF Len(s) > Len(buf) THEN Len(s) ELSE Len(buf)
         /\ \A i \in 1 .. Len(s) : Put(buf, 0, s)[i] = s[i]
<1>1. 0 \in Nat /\ 0 <= Len(buf) /\ Len(buf) \in Nat /\ Len(s) \in Nat
  OBVIOUS
<1>2. PICK p : p = Put(buf, 0, s)
  OBVIOUS
<1>3. /\ p \in Seq(S)
      /\ Len(p) = IF 0 + Len(s) > Len(buf) THEN 0 + Len(s) ELSE Len(buf)
      /\ \A i \in 1 .. Len(s) : p[0 + i] = s[i]
  BY <1>1, <1>2, PutIn
<1>4. Len(p) = IF Len(s) > Len(buf) THEN Len(s) ELSE Len(buf)
  BY <1>1, <1>3
<1>5. \A i \in 1 .. Len(s) : p[i] = s[i]
  <2>1. \A i \in 1 .. Len(s) : 0 + i = i
    BY <1>1
  <2> QED
    BY <1>3, <2>1
<1> QED
  BY <1>2, <1>3, <1>4, <1>5

(* Output is cut where its buffer ends.                                    *)
LEMMA PrintedIs ==
  ASSUME NEW b \in Bytes, NEW len \in Nat
  PROVE  /\ HTTPD_PrintOut(b, len) \in Seq(Bytes)
         /\ Len(HTTPD_PrintOut(b, len)) = Least(len, OutSize)
         /\ Len(HTTPD_PrintOut(b, len)) <= OutSize
         /\ \A i \in 1 .. Least(len, OutSize) :
              HTTPD_PrintOut(b, len)[i] = Byte(b.who, i, 0)
<1>1. OutSize \in Nat
  BY SizesAssumption
<1>2. PICK l : l = Least(len, OutSize)
  OBVIOUS
<1>3. l \in Nat /\ l <= OutSize
  BY <1>1, <1>2 DEF Least
<1>4. \A i \in 1 .. l : Byte(b.who, i, 0) \in Bytes
  BY <1>3 DEF Byte, Bytes
<1>5. HTTPD_PrintOut(b, len) = [i \in 1 .. l |-> Byte(b.who, i, 0)]
  BY <1>2 DEF HTTPD_PrintOut
<1> QED
  BY <1>2, <1>3, <1>4, <1>5

(* The answer to a request in text.                                        *)
LEMMA TextStep ==
  ASSUME HttpInv, NEW c, NEW me, NEW k, NEW n, NEW in, NEW up,
         Received(c, me, k, n, in, up), me.req.code >= Text,
         client' = [client EXCEPT ![c] = [me EXCEPT !.up = up, !.fin = FALSE]],
         UNCHANGED backlog, TextRequest(in)
  PROVE  HttpInv'
<1>1. server.st = "recv" /\ c = server.conn /\ me = client[c]
  BY DEF Received
<1>2. /\ c \in Clients /\ me \in ClientType
      /\ httpdIn \in Seq(Bytes) /\ Len(httpdIn) \in Nat
      /\ httpdOut \in Seq(Bytes) /\ Len(httpdOut) \in Nat
      /\ Len(httpdOut) <= OutSize /\ OutSize \in Nat
      /\ client \in [Clients -> ClientType]
  BY <1>1, ServedIs, ClientIs, SizesAssumption DEF HttpInv, Buffers
<1>3. /\ n \in Nat /\ 0 < n /\ n <= Whole(me) /\ up = <<>>
      /\ Begins(in, c, me, n)
      /\ in \in Seq(Bytes) /\ n <= Len(in)
      /\ Len(in) <= InSize + Segment /\ Len(httpdIn) <= Len(in)
      /\ me.st # "idle" /\ me.got = <<>> /\ me.down = <<>>
  <2>1. up = <<>> /\ n \in Nat /\ n + Len(up) <= Whole(me)
    BY PacketIs
  <2>2. n <= Whole(me)
    BY <2>1
  <2> QED
    BY <2>1, <2>2, PacketIs
<1>4. PICK b : b = in[1]
  OBVIOUS
<1>5. b \in Bytes /\ b.who = c /\ b.val = me.req.code
  <2>1. 1 \in 1 .. n
    BY <1>3
  <2>2. b.val = me.req.code /\ b.who = c
    BY <1>2, <1>3, <1>4, HeaderIs
  <2>3. b \in Bytes
    BY <1>2, <1>3, <1>4, <2>1, HeaderIs
  <2> QED
    BY <2>2, <2>3
<1>6. Found(b) \in Nat /\ Markup + Found(b) + Markup \in Nat
  <2>1. Found(b) = me.req.ans /\ me.req.ans \in Nat
    BY <1>1, <1>2, <1>5 DEF Found, ClientType
  <2> QED
    BY <2>1 DEF Markup
<1>7. PICK text :
        text = IF b.val = Page THEN HTTPD_PrintOut(b, Found(b))
               ELSE HTTPD_PrintOut(b, Markup + Found(b) + Markup)
  OBVIOUS
<1>8. PICK l : l = Len(text)
  OBVIOUS
<1>9. /\ text \in Seq(Bytes) /\ l \in Nat /\ l <= OutSize
      /\ \A i \in 1 .. l : text[i] = Byte(c, i, 0)
  BY <1>2, <1>5, <1>6, <1>7, <1>8, PrintedIs, EmptyIs
<1>10. Page \notin {Command, Script, Favicon} /\ Favicon \notin {Command, Script}
  BY DEF Page, Command, Script, Favicon
<1>11. /\ httpdIn' = in
       /\ b.val = Page =>
            /\ httpdOut' = Put(httpdOut, 0, text)
            /\ Go(<<Fixed(b, 0)>> \o Refs("out", l) \o <<Fixed(b, l + 1)>>, TRUE)
       /\ b.val \in {Command, Script} =>
            /\ httpdOut' = Put(httpdOut, 0, text)
            /\ Go(http_server_sendResponse("out", l), TRUE)
       /\ b.val \notin {Page, Command, Script} => httpdOut' = httpdOut
       /\ b.val = Favicon => Go(<<Fixed(b, 1)>>, TRUE)
       /\ b.val \notin {Page, Command, Script, Favicon} => Go(<<>>, TRUE)
  <2>1. CASE b.val = Page
    BY <1>4, <1>7, <1>8, <1>10, <2>1 DEF TextRequest, Collected
  <2>2. CASE b.val \in {Command, Script}
    BY <1>4, <1>7, <1>8, <1>10, <2>2 DEF TextRequest, Collected
  <2>3. CASE b.val = Favicon
    BY <1>4, <1>10, <2>3 DEF TextRequest
  <2>4. CASE b.val \notin {Page, Command, Script, Favicon}
    BY <1>4, <1>10, <2>4 DEF TextRequest
  <2> QED
    BY <2>1, <2>2, <2>3, <2>4
<1>12. CASE b.val \in {Page, Command, Script}
  <2>1. httpdIn' = in /\ httpdOut' = Put(httpdOut, 0, text)
    BY <1>12, <1>11
  <2>2. /\ httpdOut' \in Seq(Bytes) /\ Len(httpdOut') \in Nat
         /\ Len(httpdOut') <= OutSize /\ Len(httpdOut) <= Len(httpdOut')
         /\ l <= Len(httpdOut')
         /\ \A i \in 1 .. l : httpdOut'[i] = Byte(c, i, 0)
    <3>1. /\ httpdOut' \in Seq(Bytes)
          /\ Len(httpdOut') = IF l > Len(httpdOut) THEN l ELSE Len(httpdOut)
          /\ \A i \in 1 .. l : httpdOut'[i] = text[i]
      BY <1>2, <1>8, <1>9, <2>1, PutFirst
    <3>2. /\ Len(httpdOut') \in Nat /\ Len(httpdOut') <= OutSize
          /\ Len(httpdOut) <= Len(httpdOut') /\ l <= Len(httpdOut')
      BY <1>2, <1>9, <3>1
    <3> QED
      BY <1>9, <3>1, <3>2
  <2>3. Grown
    BY <1>3, <2>1, <2>2 DEF Buffers, Grown
  <2>4. PICK out : out = Refs("out", l)
    OBVIOUS
  <2>5. /\ out \in Seq(References) /\ Len(out) = l
         /\ Kept(out, httpdIn', httpdOut')
         /\ \A i \in 1 .. l : ByteAt(out[i], httpdIn', httpdOut') = httpdOut'[i]
    <3>1. /\ Kept(out, httpdIn', httpdOut') /\ Len(out) = l
          /\ \A i \in 1 .. l : ByteAt(out[i], httpdIn', httpdOut') =
               IF "out" = "in" THEN httpdIn'[i] ELSE httpdOut'[i]
      BY <1>9, <2>2, <2>4, RefsAre
    <3> QED
      BY <3>1 DEF Kept
  <2>6. ASSUME NEW i \in Nat, NEW ref, me.req.code = Page => i > 0,
                ByteAt(ref, httpdIn', httpdOut') =
                  Byte(c, IF me.req.code = Page THEN i - 1 ELSE i, 0)
         PROVE  AnswerByte(c, me, ByteAt(ref, httpdIn', httpdOut'), i)
    BY <2>6 DEF AnswerByte, Byte
  <2>7. CASE b.val # Page
    <3>1. Go(out, TRUE)
      <4>1. Go(http_server_sendResponse("out", l), TRUE)
        BY <1>12, <1>11, <2>7
      <4> QED
        BY <1>9, <2>4, <4>1, ResponseIsBuffer
    <3>2. \A i \in 1 .. Len(out) :
            AnswerByte(c, me, ByteAt(out[i], httpdIn', httpdOut'), i)
      BY <1>5, <1>9, <2>2, <2>5, <2>6, <2>7
    <3>3. Answers(c, me, out, httpdIn', httpdOut')
      BY <2>5, <3>2 DEF Answers
    <3> QED
      BY <1>3, <2>3, <3>1, <3>3, GoStep
  <2>8. CASE b.val = Page
    <3> DEFINE first == Fixed(b, 0)
               last == Fixed(b, l + 1)
               half == <<first>> \o out
               refs == half \o <<last>>
    <3>1. Go(refs, TRUE)
      BY <1>11, <2>4, <2>8
    <3>2. /\ first \in References /\ last \in References
          /\ InBuffer(first, httpdIn', httpdOut')
          /\ InBuffer(last, httpdIn', httpdOut')
          /\ ByteAt(first, httpdIn', httpdOut') = Byte(c, 0, 0)
          /\ ByteAt(last, httpdIn', httpdOut') = Byte(c, l + 1, 0)
      <4>1. \A i \in Nat : Byte(b.who, i, 0) \in Bytes
        BY <1>5 DEF Byte, Bytes
      <4>2. \A i \in Nat : /\ Fixed(b, i) \in References
                           /\ InBuffer(Fixed(b, i), httpdIn', httpdOut')
                           /\ ByteAt(Fixed(b, i), httpdIn', httpdOut') =
                                Byte(b.who, i, 0)
        BY <4>1 DEF Fixed, References, InBuffer, ByteAt
      <4>3. 0 \in Nat /\ l + 1 \in Nat
        BY <1>9
      <4> QED
        BY <1>5, <4>2, <4>3
    <3> HIDE DEF first, last
    <3>3. /\ half \in Seq(References) /\ Len(half) = l + 1
          /\ half[1] = first /\ \A i \in 1 .. l : half[i + 1] = out[i]
      BY <1>9, <2>5, <3>2
    <3> HIDE DEF half
    <3>4. /\ refs \in Seq(References) /\ Len(refs) = l + 2
          /\ refs[l + 2] = last /\ \A i \in 1 .. l + 1 : refs[i] = half[i]
      BY <1>9, <3>2, <3>3
    <3> HIDE DEF refs
    <3>5. ASSUME NEW i \in 1 .. l + 2
          PROVE  /\ InBuffer(refs[i], httpdIn', httpdOut')
                 /\ ByteAt(refs[i], httpdIn', httpdOut') = Byte(c, i - 1, 0)
      <4>1. CASE i = 1
        BY <1>9, <3>2, <3>3, <3>4, <4>1
      <4>2. CASE i = l + 2
        <5>1. i - 1 = l + 1
          BY <1>9, <4>2
        <5> QED
          BY <3>2, <3>4, <4>2, <5>1
      <4>3. CASE i # 1 /\ i # l + 2
        <5>1. PICK j \in 1 .. l : i = j + 1
          <6>1. i - 1 \in 1 .. l /\ i = (i - 1) + 1
            BY <1>9, <4>3
          <6> QED
            BY <6>1
        <5>2. i \in 1 .. l + 1 /\ i - 1 = j
          BY <1>9, <5>1
        <5>3. refs[i] = out[j]
          BY <3>3, <3>4, <5>1, <5>2
        <5> QED
          BY <2>2, <2>5, <5>2, <5>3 DEF Kept
      <4> QED
        BY <4>1, <4>2, <4>3
    <3>6. Kept(refs, httpdIn', httpdOut')
      BY <3>4, <3>5 DEF Kept
    <3>7. ASSUME NEW i \in 1 .. l + 2
          PROVE  AnswerByte(c, me, ByteAt(refs[i], httpdIn', httpdOut'), i)
      <4>1. i \in Nat /\ i > 0 /\ Len(refs) \in Nat
        BY <1>9, <3>4
      <4>2. ByteAt(refs[i], httpdIn', httpdOut') = Byte(c, i - 1, 0)
        BY <3>5
      <4> QED
        BY <1>5, <2>6, <2>8, <4>1, <4>2
    <3>8. \A i \in 1 .. Len(refs) :
            AnswerByte(c, me, ByteAt(refs[i], httpdIn', httpdOut'), i)
      BY <3>4, <3>7
    <3>9. Answers(c, me, refs, httpdIn', httpdOut')
      BY <3>6, <3>8 DEF Answers
    <3> QED
      BY <1>3, <2>3, <3>1, <3>9, GoStep
  <2> QED
    BY <2>7, <2>8
<1>13. CASE b.val \notin {Page, Command, Script}
  <2>1. Grown
    BY <1>2, <1>3, <1>13, <1>11 DEF Buffers, Grown
  <2>2. CASE b.val = Favicon
    <3>1. Byte(c, 1, 0) \in Bytes /\ Fixed(b, 1).byte = Byte(c, 1, 0)
          /\ Fixed(b, 1) = [buf |-> "page", byte |-> Byte(c, 1, 0)]
      BY <1>2, <1>5 DEF Byte, Bytes, Fixed
    <3>2. PICK ref : ref = Fixed(b, 1)
      OBVIOUS
    <3>3. /\ ref \in References /\ InBuffer(ref, httpdIn', httpdOut')
          /\ ByteAt(ref, httpdIn', httpdOut') = Byte(c, 1, 0)
      BY <3>1, <3>2 DEF References, InBuffer, ByteAt
    <3>4. AnswerByte(c, me, ByteAt(ref, httpdIn', httpdOut'), 1)
      BY <1>5, <2>2, <3>3 DEF AnswerByte, Byte, Favicon, Page
    <3>5. PICK refs : refs = <<ref>>
      OBVIOUS
    <3>6. refs \in Seq(References) /\ Len(refs) = 1 /\ refs[1] = ref
      BY <3>3, <3>5
    <3>7. Answers(c, me, refs, httpdIn', httpdOut')
      BY <3>3, <3>4, <3>6 DEF Answers, Kept
    <3>8. Go(refs, TRUE)
      BY <1>11, <2>2, <3>2, <3>5
    <3> QED
      BY <1>3, <2>1, <3>7, <3>8, GoStep
  <2>3. CASE b.val # Favicon
    <3>1. Answers(c, me, <<>>, httpdIn', httpdOut')
      BY DEF Answers, Kept
    <3>2. Go(<<>>, TRUE)
      BY <1>13, <1>11, <2>3
    <3> QED
      BY <1>3, <2>1, <3>1, <3>2, GoStep
  <2> QED
    BY <2>2, <2>3
<1> QED
  BY <1>12, <1>13

(* A header in front of the rest of an answer of l bytes.                  *)
LEMMA HeadedIs ==
  ASSUME NEW s \in Seq(Bytes), NEW v \in Nat
  PROVE  /\ Headed(s, v) \in Seq(Bytes) /\ Len(Headed(s, v)) = Len(s)
         /\ \A i \in 1 .. Len(s) :
              /\ Headed(s, v)[i].who = s[i].who
              /\ Headed(s, v)[i].at = s[i].at
<1> DEFINE h(i) == IF i = 2 THEN [s[i] EXCEPT !.val = v] ELSE s[i]
<1>1. ASSUME NEW i \in 1 .. Len(s)
      PROVE  /\ h(i) \in Bytes /\ h(i).who = s[i].who
             /\ h(i).at = s[i].at
  <2>1. s[i] \in Bytes
    OBVIOUS
  <2> QED
    BY <2>1 DEF Bytes
<1>2. Headed(s, v) = [i \in 1 .. Len(s) |-> h(i)]
  BY DEF Headed
<1>3. Len(s) \in Nat
  OBVIOUS
<1> HIDE DEF h
<1>4. /\ Headed(s, v) \in Seq(Bytes) /\ Len(Headed(s, v)) = Len(s)
      /\ \A i \in 1 .. Len(s) : Headed(s, v)[i] = h(i)
  BY <1>1, <1>2, <1>3
<1> QED
  BY <1>1, <1>4

(* What makes a buffer's first l bytes the answer to a binary request.     *)
Replies(s, l, c, me) ==
  \A i \in 1 .. l : /\ s[i].who = c /\ s[i].at = i

LEMMA BufferAnswers ==
  ASSUME NEW c \in Clients, NEW me \in ClientType, me.req.code < Text,
         NEW buf \in {"in", "out"}, NEW l \in Nat, NEW in, NEW out,
         NEW s, s = IF buf = "in" THEN in ELSE out,
         Len(s) \in Nat, l <= Len(s), Replies(s, l, c, me)
  PROVE  Answers(c, me, http_server_sendResponse(buf, l), in, out)
<1>1. PICK refs : refs = http_server_sendResponse(buf, l)
  OBVIOUS
<1>2. refs = Refs(buf, l)
  BY <1>1, ResponseIsBuffer
<1>3. /\ Kept(refs, in, out) /\ Len(refs) = l
      /\ \A i \in 1 .. l :
           ByteAt(refs[i], in, out) = IF buf = "in" THEN in[i] ELSE out[i]
  <2>1. /\ buf = "in" => l <= Len(in) /\ Len(in) \in Nat
        /\ buf = "out" => l <= Len(out) /\ Len(out) \in Nat
    OBVIOUS
  <2>2. /\ Kept(Refs(buf, l), in, out) /\ Len(Refs(buf, l)) = l
        /\ \A i \in 1 .. l : ByteAt(Refs(buf, l)[i], in, out) =
                               IF buf = "in" THEN in[i] ELSE out[i]
    BY <2>1, RefsAre
  <2> QED
    BY <1>2, <2>2
<1>4. \A i \in 1 .. l : ByteAt(refs[i], in, out) = s[i]
  BY <1>3
<1>5. me.req.code # Page
  BY DEF ClientType, Text, Page
<1>6. \A i \in 1 .. l : AnswerByte(c, me, ByteAt(refs[i], in, out), i)
  BY <1>4, <1>5 DEF AnswerByte, Replies
<1> QED
  BY <1>1, <1>3, <1>6 DEF Answers

(* The answer to a binary request, which names its length.                 *)
LEMMA BinaryStep ==
  ASSUME HttpInv, NEW c, NEW me, NEW k, NEW n, NEW in, NEW up,
         Received(c, me, k, n, in, up), up = <<>>,
         me.req.code < Text, n = Whole(me), n <= InSize,
         client' = [client EXCEPT ![c] = [me EXCEPT !.up = up, !.fin = FALSE]],
         UNCHANGED backlog, http_server_binMode_serve(in, n)
  PROVE  HttpInv'
<1>1. server.st = "recv" /\ c = server.conn /\ me = client[c]
  BY DEF Received
<1>2. /\ c \in Clients /\ me \in ClientType
      /\ httpdIn \in Seq(Bytes) /\ Len(httpdIn) \in Nat
      /\ httpdOut \in Seq(Bytes) /\ Len(httpdOut) \in Nat
      /\ Len(httpdOut) <= OutSize
      /\ client \in [Clients -> ClientType] /\ server \in ServerType
  BY <1>1, ServedIs, ClientIs DEF HttpInv, Buffers
<1>3. /\ OutSize \in Nat /\ 4 <= OutSize /\ InSize \in Nat /\ 4 <= InSize
      /\ Segment \in Nat
  BY SizesAssumption DEF Hdr
<1>4. /\ n \in Nat /\ 0 < n /\ Begins(in, c, me, n)
      /\ in \in Seq(Bytes) /\ n <= Len(in) /\ Len(in) \in Nat
      /\ Len(in) <= InSize + Segment /\ Len(httpdIn) <= Len(in)
  BY PacketIs
<1>5. \A i \in 1 .. n : /\ in[i] \in Bytes /\ in[i].who = c /\ in[i].at = i
  BY <1>2, <1>4, HeaderIs
<1>6. n = 4 + me.req.len /\ me.req.len \in Nat /\ me.req.ans \in Nat
  BY <1>2 DEF Whole, Hdr, ClientType
<1>7. PICK b : b = in[1]
  OBVIOUS
<1>8. b \in Bytes /\ b.who = c
  <2>1. 1 \in 1 .. n
    BY <1>4
  <2> QED
    BY <1>5, <1>7, <2>1
<1>9. Found(b) \in Nat
  BY <1>1, <1>6, <1>8 DEF Found
<1>10. PICK len : len = Least(n, InSize - Hdr)
  OBVIOUS
<1>11. len \in Nat /\ len <= n
  BY <1>3, <1>4, <1>10 DEF Least, Hdr
<1>12. CASE server'.st = "hung"
  <2>1. /\ httpdIn' = in /\ httpdOut' = httpdOut
        /\ server' = [server EXCEPT !.st = "hung", !.idx = 0]
    BY <1>2, <1>12 DEF http_server_binMode_serve, Go, ServerType
  <2>2. server.rest = <<>> /\ 0 \in 0 .. InSize
    BY <1>1, <1>3, ServedIs DEF ServerOK
  <2>3. /\ server' \in ServerType /\ server'.conn = c /\ server'.idx = 0
        /\ server'.rest = <<>>
    BY <1>1, <1>2, <2>1, <2>2 DEF ServerType
  <2>4. Grown
    BY <1>2, <1>4, <2>1 DEF Grown, Buffers
  <2>5. Answers(c, me, <<>>, httpdIn', httpdOut')
    BY DEF Answers, Kept
  <2> QED
    BY <1>12, <2>3, <2>4, <2>5, HandOver
<1>13. CASE server'.st # "hung" /\ b.val = CommandCode
  <2>1. PICK a, out, l : /\ a = Hdr + (IF len > Hdr THEN Found(b) ELSE 0)
                         /\ out = HTTPD_PrintOut(b, a) /\ l = Len(out)
    OBVIOUS
  <2>2. a \in Nat /\ 4 <= a
    BY <1>9, <2>1 DEF Hdr
  <2>3. /\ out \in Seq(Bytes) /\ l = Least(a, OutSize)
        /\ \A i \in 1 .. l : out[i] = Byte(c, i, 0)
    BY <1>8, <2>1, <2>2, PrintedIs
  <2>4. l \in Nat /\ 4 <= l /\ l <= OutSize
    BY <1>3, <2>2, <2>3 DEF Least
  <2>5. PICK v, h : v = l - Hdr /\ h = Headed(out, v)
    OBVIOUS
  <2>6. v \in Nat
    BY <2>4, <2>5 DEF Hdr
  <2>7. /\ h \in Seq(Bytes) /\ Len(h) = l
        /\ \A i \in 1 .. l :
             /\ h[i].who = out[i].who
             /\ h[i].at = out[i].at
    BY <2>1, <2>3, <2>5, <2>6, HeadedIs
  <2>8. /\ httpdOut' = Put(httpdOut, 0, h) /\ httpdIn' = in
        /\ Go(http_server_sendResponse("out", l), FALSE)
    <3> DEFINE o == HTTPD_PrintOut(in[1],
             Hdr + IF Least(n, InSize - Hdr) > Hdr THEN Found(in[1]) ELSE 0)
    <3>1. /\ httpdOut' = Put(httpdOut, 0, Headed(o, Len(o) - Hdr))
          /\ httpdIn' = in
          /\ Go(http_server_sendResponse("out", Len(o)), FALSE)
      <4>1. in[1].val = CommandCode /\ in[1].val \notin Access
        BY <1>7, <1>13 DEF CommandCode, Access
      <4> QED
        BY <1>2, <1>13, <4>1 DEF http_server_binMode_serve, ServerType
    <3>2. o = out
      BY <1>7, <1>10, <2>1
    <3> HIDE DEF o
    <3> QED
      BY <2>1, <2>5, <3>1, <3>2
  <2>9. /\ httpdOut' \in Seq(Bytes)
        /\ Len(httpdOut') = IF l > Len(httpdOut) THEN l ELSE Len(httpdOut)
        /\ \A i \in 1 .. l : httpdOut'[i] = h[i]
    BY <1>2, <2>7, <2>8, PutFirst
  <2>10. /\ Len(httpdOut') \in Nat /\ Len(httpdOut') <= OutSize
         /\ Len(httpdOut) <= Len(httpdOut') /\ l <= Len(httpdOut')
    BY <1>2, <2>4, <2>9
  <2>11. Grown
    BY <1>4, <2>8, <2>9, <2>10 DEF Grown, Buffers
  <2>12. PICK s : s = httpdOut'
    OBVIOUS
  <2>13. Replies(s, l, c, me)
    <3>1. ASSUME NEW i \in 1 .. l
          PROVE  /\ s[i].who = c /\ s[i].at = i
      <4>1. s[i] = h[i] /\ out[i] = Byte(c, i, 0)
        BY <2>3, <2>9, <2>12
      <4> QED
        BY <2>7, <4>1 DEF Byte
    <3> QED
      BY <2>6, <3>1 DEF Replies
  <2>14. Answers(c, me, http_server_sendResponse("out", l), httpdIn', httpdOut')
    BY <1>2, <2>4, <2>10, <2>12, <2>13, BufferAnswers
  <2> QED
    BY <2>8, <2>11, <2>14, GoStep
<1>14. CASE server'.st # "hung" /\ b.val \in Access
  <2>1. PICK l : l = Least(Hdr + Found(b), InSize)
    OBVIOUS
  <2>2. l \in Nat /\ 4 <= l /\ l <= InSize
    BY <1>3, <1>9, <2>1 DEF Least, Hdr
  <2>3. PICK out : out = [i \in 1 .. l |-> IF i <= n THEN in[i]
                                            ELSE Byte(b.who, i, 0)]
    OBVIOUS
  <2>4. ASSUME NEW i \in 1 .. l
        PROVE  /\ out[i] \in Bytes /\ out[i].who = c
               /\ out[i].at = i
    <3>1. CASE i <= n
      <4>1. PICK j \in 1 .. n : i = j
        BY <1>4, <2>2, <3>1
      <4>2. out[j] = in[j]
        BY <2>3, <3>1, <4>1
      <4> QED
        BY <1>5, <4>1, <4>2
    <3>2. CASE ~(i <= n)
      <4>1. out[i] = Byte(b.who, i, 0)
        BY <2>3, <3>2
      <4> QED
        BY <1>8, <2>2, <4>1 DEF Byte, Bytes
    <3> QED
      BY <3>1, <3>2
  <2>5. out \in Seq(Bytes) /\ Len(out) = l
    <3>1. out = [i \in 1 .. l |-> out[i]]
      BY <2>3
    <3> QED
      BY <2>2, <2>4, <3>1
  <2>6. PICK v, h : v = l - Hdr /\ h = Headed(out, v)
    OBVIOUS
  <2>7. v \in Nat
    BY <2>2, <2>6 DEF Hdr
  <2>8. /\ h \in Seq(Bytes) /\ Len(h) = l
        /\ \A i \in 1 .. l :
             /\ h[i].who = out[i].who
             /\ h[i].at = out[i].at
    BY <2>5, <2>6, <2>7, HeadedIs
  <2>9. /\ httpdIn' = Put(in, 0, h) /\ httpdOut' = httpdOut
        /\ Go(http_server_sendResponse("in", l), FALSE)
    <3>1. b.val # CommandCode
      BY <1>14 DEF CommandCode, Access
    <3> QED
      BY <1>2, <1>7, <1>14, <2>1, <2>3, <2>6, <3>1
      DEF http_server_binMode_serve, ServerType
  <2>10. /\ httpdIn' \in Seq(Bytes)
         /\ Len(httpdIn') = IF l > Len(in) THEN l ELSE Len(in)
         /\ \A i \in 1 .. l : httpdIn'[i] = h[i]
    BY <1>4, <2>8, <2>9, PutFirst
  <2>11. /\ Len(httpdIn') \in Nat /\ Len(httpdIn') <= InSize + Segment
         /\ Len(httpdIn) <= Len(httpdIn') /\ l <= Len(httpdIn')
    BY <1>2, <1>3, <1>4, <2>2, <2>10
  <2>12. Grown
    BY <1>2, <2>9, <2>10, <2>11 DEF Grown, Buffers
  <2>13. PICK s : s = httpdIn'
    OBVIOUS
  <2>14. Replies(s, l, c, me)
    <3>1. ASSUME NEW i \in 1 .. l
          PROVE  /\ s[i].who = c /\ s[i].at = i
      <4>1. s[i] = h[i]
        BY <2>10, <2>13
      <4> QED
        BY <2>4, <2>8, <4>1
    <3> QED
      BY <2>7, <3>1 DEF Replies
  <2>15. Answers(c, me, http_server_sendResponse("in", l), httpdIn', httpdOut')
    BY <1>2, <2>2, <2>11, <2>13, <2>14, BufferAnswers
  <2> QED
    BY <2>9, <2>12, <2>15, GoStep
<1>15. CASE server'.st # "hung" /\ b.val \notin {CommandCode} \cup Access
  <2>1. /\ httpdIn' = in /\ httpdOut' = httpdOut
        /\ Go(http_server_sendResponse("in", len), FALSE)
    BY <1>2, <1>7, <1>10, <1>15 DEF http_server_binMode_serve, ServerType
  <2>2. Grown
    BY <1>2, <1>4, <2>1 DEF Grown, Buffers
  <2>3. Replies(in, len, c, me)
    <3>1. ASSUME NEW i \in 1 .. len
          PROVE  in[i].who = c /\ in[i].at = i
      <4>1. PICK j \in 1 .. n : i = j
        BY <1>4, <1>11
      <4> QED
        BY <1>5, <4>1
    <3> QED
      BY <3>1 DEF Replies
  <2>4. len <= Len(in)
    BY <1>4, <1>11
  <2>5. Answers(c, me, http_server_sendResponse("in", len), httpdIn', httpdOut')
    BY <1>2, <1>4, <1>11, <2>1, <2>3, <2>4, BufferAnswers
  <2> QED
    BY <2>1, <2>2, <2>5, GoStep
<1> QED
  BY <1>12, <1>13, <1>14, <1>15

(* A request that is not whole yet waits in its buffer.                    *)
LEMMA PartStep ==
  ASSUME HttpInv, NEW c, NEW me, NEW k, NEW n, NEW in, NEW up,
         Received(c, me, k, n, in, up), n <= InSize, me.req.code < Text,
         client' = [client EXCEPT ![c] = [me EXCEPT !.up = up, !.fin = FALSE]],
         server' = [server EXCEPT !.idx = n, !.exp = Whole(me)],
         httpdIn' = in, UNCHANGED <<httpdOut, backlog>>
  PROVE  HttpInv'
<1>1. /\ c \in Clients /\ server \in ServerType /\ Connected(me)
      /\ server.st = "recv" /\ server.conn = c /\ me = client[c]
      /\ ServerOK(server, httpdIn, httpdOut)
  BY ServedIs DEF Received
<1>2. /\ me \in ClientType /\ ClientOK(c, me, httpdIn, httpdOut)
      /\ ClientInv(c, me, server, httpdIn, httpdOut)
  BY <1>1, ClientIs
<1>3. /\ n \in Nat /\ 0 < n /\ Begins(in, c, me, n)
      /\ in \in Seq(Bytes) /\ n <= Len(in) /\ Len(in) \in Nat
      /\ Len(in) <= InSize + Segment /\ Len(httpdIn) <= Len(in)
      /\ up \in Seq(Bytes) /\ n + Len(up) <= Whole(me)
      /\ me.st = "waiting" => n + Len(up) = Whole(me)
      /\ \A i \in 1 .. Len(up) : up[i] = Message(c, me.req)[n + i]
      /\ me.st # "idle" /\ me.got = <<>> /\ me.down = <<>>
  BY PacketIs
<1> DEFINE new == [me EXCEPT !.up = up, !.fin = FALSE]
<1>4. /\ new \in ClientType /\ new.up = up /\ new.fin = FALSE
      /\ new.st = me.st /\ new.req = me.req
      /\ new.got = <<>> /\ new.down = <<>>
  BY <1>2, <1>3 DEF ClientType
<1> HIDE DEF new
<1>5. /\ Whole(me) \in Nat /\ ~(me.req.code >= Text)
      /\ Len(httpdIn) \in Nat /\ httpdOut \in Seq(Bytes)
      /\ Len(httpdOut) \in Nat /\ Len(httpdOut) <= OutSize
      /\ InSize \in Nat /\ SndBuf \in Nat
  BY <1>2, SizesAssumption
  DEF ClientType, Whole, Hdr, Text, HttpInv, Buffers
<1>6. /\ server' \in ServerType /\ server'.st = "recv" /\ server'.conn = c
      /\ server'.idx = n /\ server'.exp = Whole(me) /\ server'.rest = <<>>
  <2>1. n \in 0 .. InSize
    BY <1>3, <1>5
  <2> QED
    BY <1>1, <1>5, <2>1 DEF ServerType, ServerOK
<1>7. Kept(<<>>, in, httpdOut)
  BY DEF Kept
<1>8. ServerOK(server', in, httpdOut)
  BY <1>1, <1>3, <1>6, <1>7, NobodyAssumption DEF ServerOK
<1>9. ClientOK(c, new, in, httpdOut)
  BY <1>1, <1>2, <1>4, <1>5, <1>7 DEF ClientOK, Connected
<1>10. /\ Pos(c, server') = n /\ Rest(c, server') = <<>>
       /\ Asks(c, new, server') /\ Whole(new) = Whole(me)
  BY <1>3, <1>4, <1>6 DEF Pos, Rest, Asks, Whole
<1>11. Incoming(c, new, server')
  <2>1. n # 0 /\ ~(new.req.code >= Text)
    BY <1>3, <1>4, <1>5
  <2> QED
    BY <1>3, <1>4, <1>6, <1>10, <2>1 DEF Incoming
<1>12. Gathered(c, new, server', in)
  BY <1>3, <1>4, <1>10 DEF Gathered, Begins
<1>13. Outgoing(c, new, server', in, httpdOut)
  BY <1>3, <1>4, <1>6, <1>10 DEF Outgoing, Answer
<1>14. Buffers(in, httpdOut)
  BY <1>3, <1>5 DEF Buffers
<1>15. client' = [client EXCEPT ![c] = new]
  BY DEF new
<1>16. ClientInv(c, new, server', in, httpdOut)
  BY <1>11, <1>12, <1>13 DEF ClientInv
<1>17. Connected(new)
  BY <1>1, <1>4 DEF Connected
<1>18. /\ Buffers(httpdIn', httpdOut')
       /\ Len(httpdIn) <= Len(httpdIn') /\ Len(httpdOut) <= Len(httpdOut')
       /\ ServerOK(server', httpdIn', httpdOut')
       /\ ClientOK(c, new, httpdIn', httpdOut')
       /\ ClientInv(c, new, server', httpdIn', httpdOut')
  BY <1>3, <1>5, <1>8, <1>9, <1>14, <1>16
<1> QED
  BY <1>1, <1>6, <1>15, <1>17, <1>18, ServerStep

(* A request that is too long ends its connection.                         *)
LEMMA OverflowStep ==
  ASSUME HttpInv, NEW c, NEW me, NEW k, NEW n, NEW in, NEW up,
         Received(c, me, k, n, in, up),
         client' = [client EXCEPT ![c] = [me EXCEPT !.up = <<>>, !.fin = TRUE]],
         server' = Closed, httpdIn' = in, UNCHANGED <<httpdOut, backlog>>
  PROVE  HttpInv'
<1>1. c \in Clients /\ server.conn = c /\ me = client[c] /\ Connected(me)
  BY ServedIs DEF Received
<1>2. me \in ClientType /\ ClientOK(c, me, httpdIn, httpdOut)
  BY <1>1, ClientIs
<1>3. /\ in \in Seq(Bytes) /\ Len(in) \in Nat
      /\ Len(in) <= InSize + Segment /\ Len(httpdIn) <= Len(in)
      /\ me.down = <<>>
  BY PacketIs
<1> DEFINE new == [me EXCEPT !.up = <<>>, !.fin = TRUE]
<1>4. /\ new \in ClientType /\ new.fin = TRUE /\ new.st = me.st
      /\ new.down = <<>>
  <2>1. <<>> \in Seq(Bytes)
    OBVIOUS
  <2> QED
    BY <1>2, <1>3, <2>1 DEF ClientType
<1> HIDE DEF new
<1>5. ClientOK(c, new, in, httpdOut)
  <2>1. Kept(<<>>, in, httpdOut) /\ SndBuf \in Nat
    BY SizesAssumption DEF Kept
  <2> QED
    BY <1>1, <1>2, <1>4, <2>1 DEF ClientOK, Connected
<1>6. ClientInv(c, new, server', in, httpdOut)
  BY <1>4 DEF ClientInv
<1>7. Buffers(in, httpdOut) /\ Len(httpdOut) \in Nat
  BY <1>3 DEF HttpInv, Buffers
<1>8. /\ ServerOK(server', in, httpdOut) /\ server'.conn = Nobody
      /\ c # Nobody
  BY <1>1, <1>3, ClosedIs, NobodyAssumption
<1>9. client' = [client EXCEPT ![c] = new]
  BY DEF new
<1>10. /\ Buffers(httpdIn', httpdOut')
       /\ Len(httpdIn) <= Len(httpdIn') /\ Len(httpdOut) <= Len(httpdOut')
       /\ ServerOK(server', httpdIn', httpdOut')
       /\ ClientOK(c, new, httpdIn', httpdOut')
       /\ ClientInv(c, new, server', httpdIn', httpdOut')
  BY <1>3, <1>5, <1>6, <1>7, <1>8
<1> QED
  BY <1>1, <1>8, <1>9, <1>10, ServerStep

(* What comes of a packet: the request is too long, whole, or in part      *)
(* there.                                                                  *)
Overflows(c, me, n, in) ==
  /\ client' = [client EXCEPT ![c] = [me EXCEPT !.up = <<>>, !.fin = TRUE]]
  /\ server' = Closed /\ httpdIn' = in /\ UNCHANGED httpdOut
Serves(c, me, n, in, up) ==
  /\ n = Whole(me) /\ n <= InSize /\ up = <<>>
  /\ client' = [client EXCEPT ![c] = [me EXCEPT !.up = up, !.fin = FALSE]]
  /\ \/ me.req.code >= Text /\ TextRequest(in)
     \/ me.req.code < Text /\ http_server_binMode_serve(in, n)
Waits(c, me, n, in, up) ==
  /\ n <= InSize /\ me.req.code < Text
  /\ client' = [client EXCEPT ![c] = [me EXCEPT !.up = up, !.fin = FALSE]]
  /\ server' = [server EXCEPT !.idx = n, !.exp = Whole(me)]
  /\ httpdIn' = in /\ UNCHANGED httpdOut

LEMMA ServeCases ==
  ASSUME HttpInv, NEW k \in 1 .. Segment, http_server_serve(k)
  PROVE  /\ UNCHANGED backlog
         /\ \E c, me, n, in, up :
              /\ Received(c, me, k, n, in, up)
              /\ \/ Overflows(c, me, n, in)
                 \/ Serves(c, me, n, in, up)
                 \/ Waits(c, me, n, in, up)
<1>1. PICK c, me : c = server.conn /\ me = client[c]
  OBVIOUS
<1>2. PICK n, in, up :
        /\ n = server.idx + k
        /\ in = Put(httpdIn, server.idx, SubSeq(me.up, 1, k))
        /\ up = SubSeq(me.up, k + 1, Len(me.up))
  OBVIOUS
<1>3. /\ server.st = "recv" /\ k \in 1 .. Least(Segment, Len(me.up))
      /\ Packet(c, k, server.idx = 0) /\ UNCHANGED backlog
  BY <1>1 DEF http_server_serve
<1>4. c \in Clients /\ server \in ServerType
  BY <1>1, <1>3, ServedIs
<1>5. me \in ClientType /\ client \in [Clients -> ClientType]
  BY <1>1, <1>4, ClientIs
<1>6. Received(c, me, k, n, in, up)
  <2>1. me.up \in Seq(Bytes) /\ Segment \in Nat
    BY <1>5, SizesAssumption DEF ClientType
  <2>2. PICK u : u = Len(me.up)
    OBVIOUS
  <2>3. u \in Nat
    BY <2>1, <2>2
  <2>4. k \in Nat /\ 1 <= k /\ k <= Segment /\ k <= u
    BY <1>3, <2>1, <2>2, <2>3 DEF Least
  <2> QED
    BY <1>1, <1>2, <1>3, <2>2, <2>4 DEF Received
<1>7. /\ n \in Nat /\ 0 < n /\ Begins(in, c, me, n) /\ up \in Seq(Bytes)
      /\ n + Len(up) <= Whole(me)
      /\ me.req.code >= Text => n + Len(up) = Whole(me)
      /\ me.req.code >= Text => up = <<>>
      /\ me.req.code >= Text => server.idx = 0
      /\ server.idx # 0 => server.exp = Whole(me)
      /\ server.idx = 0 => Hdr <= n
  BY <1>6, PacketIs
<1>8. n <= Whole(me) /\ Len(up) \in Nat
  <2>1. Len(up) \in Nat
    BY <1>7
  <2> QED
    BY <1>5, <1>7, <2>1 DEF Whole, ClientType, Hdr
<1>9. PICK exp : exp = IF ~(server.idx = 0) THEN server.exp
                       ELSE IF in[1].val >= Text THEN 0
                       ELSE ExpectedLength(in)
  OBVIOUS
<1>10. exp = IF me.req.code >= Text THEN 0 ELSE Whole(me)
  <2>1. in[1].val = me.req.code
    BY <1>4, <1>5, <1>7, <1>8, HeaderIs
  <2>2. Hdr <= n => ExpectedLength(in) = Whole(me)
    BY <1>4, <1>5, <1>7, <1>8, HeaderIs
  <2> QED
    BY <1>7, <1>9, <2>1, <2>2
<1>11. Whole(me) \in Nat /\ Whole(me) # 0 /\ InSize \in Nat
       /\ (me.req.code >= Text <=> ~(me.req.code < Text))
  BY <1>5, SizesAssumption DEF Whole, ClientType, Hdr, Text
<1>12. client' = [client EXCEPT ![c] =
         [me EXCEPT !.up = IF n > InSize THEN <<>> ELSE up, !.fin = n > InSize]]
  BY <1>1, <1>2, <1>4, <1>5 DEF http_server_serve
<1>13. CASE n > InSize
  <2>1. httpdIn' = in /\ server' = Closed /\ UNCHANGED httpdOut
    BY <1>1, <1>2, <1>11, <1>13, <1>7 DEF http_server_serve
  <2>2. client' =
          [client EXCEPT ![c] = [me EXCEPT !.up = <<>>, !.fin = TRUE]]
    BY <1>12, <1>13
  <2>3. Overflows(c, me, n, in)
    BY <2>1, <2>2 DEF Overflows
  <2> QED
    BY <1>3, <1>6, <2>3
<1>14. CASE ~(n > InSize)
  <2>1. n <= InSize
    BY <1>7, <1>11, <1>14
  <2>2. client' =
          [client EXCEPT ![c] = [me EXCEPT !.up = up, !.fin = FALSE]]
    <3>1. /\ (n > InSize) = FALSE
          /\ (IF n > InSize THEN <<>> ELSE up) = up
      BY <1>14
    <3> QED
      BY <1>12, <3>1
  <2>3. CASE me.req.code >= Text
    <3>1. exp = 0
      BY <1>10, <2>3
    <3>2. TextRequest(in)
      BY <1>1, <1>2, <1>9, <1>14, <2>1, <3>1 DEF http_server_serve
    <3>3. up = <<>> /\ n = Whole(me)
      <4>1. up = <<>> /\ Len(up) = 0 /\ n + 0 = n
        BY <1>7, <2>3
      <4> QED
        BY <1>7, <2>3, <4>1
    <3>4. Serves(c, me, n, in, up)
      BY <2>1, <2>2, <2>3, <3>2, <3>3 DEF Serves
    <3> QED
      BY <1>3, <1>6, <3>4
  <2>4. CASE ~(me.req.code >= Text) /\ n >= exp
    <3>1. exp = Whole(me) /\ exp # 0 /\ me.req.code < Text
      BY <1>10, <1>11, <2>4
    <3>2. http_server_binMode_serve(in, n)
      BY <1>1, <1>2, <1>9, <1>14, <2>1, <2>4, <3>1 DEF http_server_serve
    <3>3. n = Whole(me) /\ Len(up) = 0
      BY <1>7, <1>8, <1>11, <2>4, <3>1
    <3>4. up = <<>>
      BY <1>7, <3>3, EmptyIs
    <3>5. Serves(c, me, n, in, up)
      BY <2>1, <2>2, <3>1, <3>2, <3>3, <3>4 DEF Serves
    <3> QED
      BY <1>3, <1>6, <3>5
  <2>5. CASE ~(me.req.code >= Text) /\ ~(n >= exp)
    <3>1. exp = Whole(me) /\ exp # 0 /\ me.req.code < Text
      BY <1>10, <1>11, <2>5
    <3>2. /\ httpdIn' = in /\ UNCHANGED httpdOut
          /\ server' = [server EXCEPT !.idx = n, !.exp = exp]
      BY <1>1, <1>2, <1>9, <1>14, <2>1, <2>5, <3>1 DEF http_server_serve
    <3>3. Waits(c, me, n, in, up)
      BY <2>1, <2>2, <3>1, <3>2 DEF Waits
    <3> QED
      BY <1>3, <1>6, <3>3
  <2> QED
    BY <2>3, <2>4, <2>5
<1> QED
  BY <1>13, <1>14

LEMMA ServeStep ==
  ASSUME HttpInv, NEW k \in 1 .. Segment, http_server_serve(k) PROVE HttpInv'
<1>1. PICK c, me, n, in, up :
        /\ Received(c, me, k, n, in, up) /\ UNCHANGED backlog
        /\ \/ Overflows(c, me, n, in)
           \/ Serves(c, me, n, in, up)
           \/ Waits(c, me, n, in, up)
  BY ServeCases
<1>2. CASE Overflows(c, me, n, in)
  BY <1>1, <1>2, OverflowStep DEF Overflows
<1>3. CASE Serves(c, me, n, in, up) /\ me.req.code >= Text /\ TextRequest(in)
  BY <1>1, <1>3, TextStep DEF Serves
<1>4. CASE /\ Serves(c, me, n, in, up) /\ me.req.code < Text
           /\ http_server_binMode_serve(in, n)
  BY <1>1, <1>4, BinaryStep DEF Serves
<1>5. CASE Waits(c, me, n, in, up)
  BY <1>1, <1>5, PartStep DEF Waits
<1> QED
  BY <1>1, <1>2, <1>3, <1>4, <1>5 DEF Serves

-----------------------------------------------------------------------------
LEMMA HttpInitial == Init => HttpInv
<1> SUFFICES ASSUME Init PROVE HttpInv
  OBVIOUS
<1>1. /\ httpdIn = <<>> /\ httpdOut = <<>> /\ backlog = <<>>
      /\ server = [st |-> "accept", conn |-> Nobody, idx |-> 0, exp |-> 0,
                   rest |-> <<>>, close |-> FALSE]
  BY DEF Init
<1>2. /\ InSize \in Nat /\ OutSize \in Nat /\ SndBuf \in Nat
      /\ Segment \in Nat
  BY SizesAssumption
<1>3. /\ <<>> \in Seq(Bytes) /\ <<>> \in Seq(References)
      /\ <<>> \in Seq(Clients) /\ Len(<<>>) = 0
  OBVIOUS
<1>4. Buffers(httpdIn, httpdOut)
  BY <1>1, <1>2, <1>3 DEF Buffers
<1>5. ServerOK(server, httpdIn, httpdOut)
  <2>1. Kept(<<>>, httpdIn, httpdOut)
    BY <1>3 DEF Kept
  <2>2. server \in ServerType
    BY <1>1, <1>2, <1>3 DEF ServerType
  <2> QED
    BY <1>1, <1>3, <2>1, <2>2 DEF ServerOK
<1>6. PICK new : new = [st |-> "away",
                        req |-> [code |-> 0, len |-> 0, ans |-> 0],
                        up |-> <<>>, down |-> <<>>, got |-> <<>>,
                        fin |-> FALSE]
  OBVIOUS
<1>7. client = [c \in Clients |-> new]
  BY <1>6 DEF Init
<1>8. new \in ClientType
  BY <1>3, <1>6 DEF ClientType
<1>9. /\ new.up = <<>> /\ new.down = <<>> /\ new.got = <<>>
      /\ new.st = "away" /\ new.fin = FALSE
  BY <1>6
<1>10. ASSUME NEW c \in Clients
       PROVE  /\ ClientOK(c, new, httpdIn, httpdOut)
              /\ ClientInv(c, new, server, httpdIn, httpdOut)
  <2>1. Kept(<<>>, httpdIn, httpdOut)
    BY <1>3 DEF Kept
  <2>2. ClientOK(c, new, httpdIn, httpdOut)
    BY <1>2, <1>3, <1>8, <1>9, <2>1 DEF ClientOK
  <2>3. Pos(c, server) = 0 /\ Rest(c, server) = <<>>
    BY <1>1 DEF Pos, Rest
  <2>4. Incoming(c, new, server) /\ Gathered(c, new, server, httpdIn)
    BY <1>9, <2>3 DEF Incoming, Gathered, Asks
  <2>5. Outgoing(c, new, server, httpdIn, httpdOut)
    BY <1>9, <2>3 DEF Outgoing, Answer
  <2> QED
    BY <2>2, <2>4, <2>5 DEF ClientInv
<1>11. Connections
  BY <1>1, <1>3 DEF Connections
<1> QED
  BY <1>4, <1>5, <1>7, <1>8, <1>10, <1>11 DEF HttpInv

LEMMA HttpStep == HttpInv /\ [Next]_vars => HttpInv'
<1> SUFFICES ASSUME HttpInv, [Next]_vars PROVE HttpInv'
  OBVIOUS
<1>1. CASE netconn_accept
  BY <1>1, AcceptStep
<1>2. CASE ReceiveFails
  BY <1>2, ReceiveFailsStep
<1>3. CASE netconn_write
  BY <1>3, WriteStep
<1>4. CASE Written
  BY <1>4, WrittenStep
<1>5. ASSUME NEW k \in 1 .. Segment, http_server_serve(k) PROVE HttpInv'
  BY <1>5, ServeStep
<1>6. ASSUME NEW c \in Clients, Deliver(c) PROVE HttpInv'
  BY <1>6, DeliverStep
<1>7. ASSUME NEW c \in Clients, Client(c) PROVE HttpInv'
  <2>1. CASE Connect(c)
    BY <2>1, ConnectStep
  <2>2. ASSUME NEW r \in Requests, Ask(c, r) PROVE HttpInv'
    BY <2>2, AskStep
  <2>3. CASE Leave(c)
    BY <2>3, LeaveStep
  <2>4. CASE Break(c)
    BY <2>4, BreakStep
  <2> QED
    BY <1>7, <2>1, <2>2, <2>3, <2>4 DEF Client
<1>8. CASE UNCHANGED vars
  BY <1>8 DEF vars, HttpInv, Connections
<1> QED
  BY <1>1, <1>2, <1>3, <1>4, <1>5, <1>6, <1>7, <1>8 DEF Next, Thread

LEMMA HttpAlways == Spec => []HttpInv
  BY HttpInitial, HttpStep, PTL DEF Spec

(* The output buffer and the send buffer keep to their sizes, whatever is  *)
(* asked, sent in parts or broken off.  The input buffer does not: what is *)
(* written to it ends at most one segment behind its end, and the packet   *)
(* that gets there ends the connection (httpserver_netconn.c:513, 522).    *)
THEOREM HttpTypes == Spec => []TypeOK
<1>1. HttpInv => TypeOK
  <2> SUFFICES ASSUME HttpInv PROVE TypeOK
    OBVIOUS
  <2>1. /\ Buffers(httpdIn, httpdOut) /\ server \in ServerType
        /\ \A c \in Clients : ClientOK(c, client[c], httpdIn, httpdOut)
    BY DEF HttpInv, ServerOK
  <2>2. ASSUME NEW c \in Clients
        PROVE  /\ client[c].st \in {"away", "idle", "waiting", "gone", "broken"}
               /\ Len(client[c].down) <= SndBuf
    <3>1. PICK me : me = client[c]
      OBVIOUS
    <3>2. me \in ClientType /\ Len(me.down) <= SndBuf
      BY <2>1, <3>1 DEF ClientOK
    <3> QED
      BY <3>1, <3>2 DEF ClientType
  <2> QED
    BY <2>1, <2>2 DEF TypeOK, Buffers, ServerType
<1> QED
  BY <1>1, HttpAlways, PTL

(* What a client has received while the server keeps its connection open   *)
(* is the answer to its own request, byte for byte, though the answer was  *)
(* handed over by reference: nothing that is asked, received or answered   *)
(* meanwhile changes the bytes a segment still refers to                   *)
(* (httpserver_netconn.c:125-154, 508-563).  Nothing is said of the bytes  *)
(* that arrive after the server has closed.                                *)
THEOREM AnswersAreOwn == Spec => []OwnAnswer
<1>1. HttpInv => OwnAnswer
  <2> SUFFICES ASSUME HttpInv, NEW c \in Clients, ~client[c].fin PROVE Own(c)
    BY DEF OwnAnswer
  <2>1. PICK me : me = client[c]
    OBVIOUS
  <2>2. /\ me \in ClientType /\ ~me.fin
        /\ ClientInv(c, me, server, httpdIn, httpdOut)
    BY <2>1, ClientIs
  <2>3. me.got = <<>> \/ Answer(c, me, Rest(c, server), httpdIn, httpdOut)
    BY <2>2 DEF ClientInv, Outgoing
  <2>4. ASSUME NEW i \in DOMAIN me.got
        PROVE  /\ me.got[i].who = c
               /\ me.got[i].at = IF me.req.code = Page THEN i - 1 ELSE i
    <3>1. me.got \in Seq(Bytes)
      BY <2>2 DEF ClientType
    <3>2. me.got # <<>> /\ i \in 1 .. Len(me.got)
      BY <3>1
    <3> QED
      BY <2>3, <3>2 DEF Answer, AnswerByte
  <2> QED
    BY <2>1, <2>4 DEF Own
<1> QED
  BY <1>1, HttpAlways, PTL

(* A request is served when it is whole, however it was cut into packets,  *)
(* and its bytes then stand in the buffer one behind the other             *)
(* (httpserver_netconn.c:508-563).                                         *)
THEOREM WholeRequestsAreServed == Spec => RequestIsWhole
<1> DEFINE Served ==
      server.st = "recv" /\ server'.st \in {"send", "hung"} =>
        LET c == server.conn
        IN /\ client'[c].up = <<>>
           /\ server.idx + Len(client[c].up) = Hdr + client[c].req.len
           /\ \A i \in 1 .. server.idx :
                httpdIn[i].who = c /\ httpdIn[i].at = i
<1>1. HttpInv /\ [Next]_vars => [Served]_vars
  <2> SUFFICES ASSUME HttpInv, Next, server.st = "recv",
                      server'.st \in {"send", "hung"}
               PROVE  Served
    BY DEF vars
  <2>1. server # server' /\ server \in ServerType
    BY DEF HttpInv, ServerOK
  <2>2. PICK k \in 1 .. Segment : http_server_serve(k)
    <3>1. ~netconn_accept /\ ~netconn_write /\ ~Written
      BY DEF netconn_accept, netconn_write, Written
    <3>2. Closed.st = "accept"
      BY <2>1 DEF Closed, ServerType
    <3>3. ~ReceiveFails
      BY <3>2 DEF ReceiveFails
    <3>4. ~(\E c \in Clients : Deliver(c) \/ Client(c))
      BY <2>1 DEF Client, Connect, Ask, Deliver, Leave, Break
    <3> QED
      BY <3>1, <3>3, <3>4 DEF Next, Thread
  <2>3. PICK c, me, n, in, up :
          /\ Received(c, me, k, n, in, up)
          /\ \/ Overflows(c, me, n, in)
             \/ Serves(c, me, n, in, up)
             \/ Waits(c, me, n, in, up)
    BY <2>2, ServeCases
  <2>4. /\ c \in Clients /\ c = server.conn /\ me = client[c]
        /\ server.idx \in Nat
    BY <2>1, <2>3, ServedIs, SizesAssumption DEF Received, ServerType
  <2>5. /\ me \in ClientType /\ ClientInv(c, me, server, httpdIn, httpdOut)
        /\ client \in [Clients -> ClientType] /\ ~me.fin
    BY <2>4, ClientIs, ServedIs DEF Connected
  <2>6. Serves(c, me, n, in, up)
    <3>1. ~Overflows(c, me, n, in)
      <4>1. Closed.st = "accept"
        BY <2>1 DEF Closed, ServerType
      <4> QED
        BY <4>1 DEF Overflows
    <3>2. ~Waits(c, me, n, in, up)
      BY <2>1 DEF Waits, ServerType
    <3> QED
      BY <2>3, <3>1, <3>2
  <2>7. client'[c].up = <<>>
    BY <2>4, <2>5, <2>6 DEF Serves, ClientType
  <2>8. server.idx + Len(me.up) = Hdr + me.req.len
    <3>1. n + Len(up) = server.idx + Len(me.up) /\ n \in Nat
      BY <2>3, PacketIs
    <3>2. n = Hdr + me.req.len /\ Len(up) = 0 /\ n + 0 = n
      BY <2>6, <3>1 DEF Serves, Whole
    <3> QED
      BY <3>1, <3>2
  <2>9. ASSUME NEW i \in 1 .. server.idx
        PROVE  httpdIn[i].who = c /\ httpdIn[i].at = i
    <3>1. PICK r, m : r = me.req /\ m = Message(c, r)
      OBVIOUS
    <3>2. httpdIn[i] = m[i]
      BY <2>4, <2>5, <3>1 DEF ClientInv, Gathered, Pos
    <3>3. i \in 1 .. Hdr + r.len
      <4>1. me.up \in Seq(Bytes) /\ me.req.len \in Nat
        BY <2>5 DEF ClientType
      <4>2. Len(me.up) \in Nat
        BY <4>1
      <4> QED
        BY <2>4, <2>8, <3>1, <4>1, <4>2 DEF Hdr
    <3>4. /\ r \in [code : Nat, len : Nat, ans : Nat]
          /\ c \in Clients
      BY <2>4, <2>5, <3>1 DEF ClientType
    <3>5. \A j \in 1 .. Hdr + r.len :
            /\ Message(c, r)[j].who = c
            /\ Message(c, r)[j].at = j
      BY <3>4, MessageIs
    <3> QED
      BY <3>1, <3>2, <3>3, <3>5
  <2> QED
    BY <2>4, <2>7, <2>8, <2>9
<1> QED
  BY <1>1, HttpAlways, PTL DEF Spec, RequestIsWhole

=============================================================================
