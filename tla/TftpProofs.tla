----------------------------- MODULE TftpProofs -----------------------------
(***************************************************************************)
(* Theorems about Tftp, for any files, any clients and any network.        *)
(*                                                                         *)
(* The memory of an open file needs no more than itself.  That nothing     *)
(* happens too early needs the one timeout that lwipopts.h leaves to TCP   *)
(* and TFTP: with one, at most one tftp_tmr is pending, and the age of a   *)
(* transfer is never ahead of the periods that have begun.  That transfers *)
(* are prefixes needs an invariant of the datagrams on the way, the open   *)
(* file, the card and the clients together.                                *)
(***************************************************************************)
EXTENDS Tftp, TLAPS

(* TFTP.c and tftp_server.c give the pool its block back exactly when the  *)
(* file is closed, on each of the nine ways a transfer can end.            *)
LEMMA BufferStep ==
  ASSUME BufferWithHandle, [Next]_vars PROVE BufferWithHandle'
<1> USE DEF BufferWithHandle
<1>1. CASE UNCHANGED <<handle, plBuf>>
  BY <1>1
<1>2. ASSUME NEW pending, NEW soon, handle # "none",
             CloseHandle(pending, soon, plBuf)
      PROVE  BufferWithHandle'
  BY <1>2 DEF CloseHandle, TFTP_close
<1>3. CASE RecvRequest
  <2>1. PICK m \in net : \E rest \in {net, net \ {m}} :
          \/ handle # "none" /\ Refuse(m.peer, rest)
          \/ handle = "none" /\ TFTP_openFails /\ UNCHANGED handle
          \/ handle = "none" /\ plBuf' = plBuf + 1 /\ handle' = "write"
          \/ /\ handle = "none"
             /\ SendData(m.peer, 0, Num(1), sys_timeout, plBuf + 1, rest)
    BY <1>3 DEF RecvRequest
  <2> QED
    BY <2>1 DEF Refuse, TFTP_openFails, fileVars, SendData, CloseHandle,
                TFTP_close
<1>4. CASE RecvData
  <2>1. PICK m \in net : \E rest \in {net, net \ {m}} :
          \/ Refuse(m.peer, rest)
          \/ handle = "write" /\ WriteBlock(m, rest)
          \/ UNCHANGED <<handle, plBuf>>
    BY <1>4 DEF RecvData, fileVars
  <2> QED
    BY <1>2, <2>1 DEF Refuse, fileVars, WriteBlock
<1>5. CASE RecvAck
  <2>1. PICK m \in net : \E rest \in {net, net \ {m}} :
          \/ Refuse(m.peer, rest)
          \/ handle = "read" /\ CloseHandle(timers, due, plBuf)
          \/ /\ handle = "read"
             /\ SendData(port, pos, Num(blknum + 1), timers, plBuf, rest)
    BY <1>5 DEF RecvAck
  <2> QED
    BY <2>1 DEF Refuse, fileVars, SendData, CloseHandle, TFTP_close
<1>6. CASE tftp_tmr
  BY <1>6 DEF tftp_tmr, stateVars, fileVars, CloseHandle, TFTP_close
<1>7. CASE RecvForeign
  BY <1>7 DEF RecvForeign, Refuse, fileVars
<1> QED
  BY <1>1, <1>3, <1>4, <1>5, <1>6, <1>7
     DEF Next, Period, ClientRequests, ClientRepeats, ClientGets, Lose, vars,
         fileVars, stateVars, tcp_timer_needed, tcpip_tcp_timer

(* The block of the pool that PLbuf points to and the open file come and   *)
(* go together.                                                            *)
THEOREM BufferFollowsHandle == Spec => []BufferWithHandle
<1>1. Init => BufferWithHandle
  BY DEF Init, BufferWithHandle
<1>2. BufferWithHandle /\ [Next]_vars => BufferWithHandle'
  BY BufferStep
<1> QED
  BY <1>1, <1>2, PTL DEF Spec
-----------------------------------------------------------------------------
(* With one timeout in the pool at most one tftp_tmr is pending, and a     *)
(* transfer ages at most once in a period.                                 *)
TimeInv ==
  /\ timers \in {0, 1}
  /\ due \in {0, 1} /\ due <= timers
  /\ age \in Nat /\ waited \in Nat
  /\ waited <= Timeout => age + due <= waited + 1

LEMMA TimeStep ==
  ASSUME Slots = 1, TimeInv, [Next]_vars PROVE TimeInv'
<1> USE DEF TimeInv
<1>t. Timeout \in Nat
  BY NumbersAssumption
<1>1. CASE UNCHANGED <<timers, due, age, waited>>
  BY <1>1
<1>2. ASSUME age' = 0, waited' = 0, timers' \in {0, 1}, due' \in {0, 1},
             due' <= timers'
      PROVE  TimeInv'
  <2>1. age' + due' <= waited' + 1
    <3>1. 0 + 0 <= 0 + 1 /\ 0 + 1 <= 0 + 1
      OBVIOUS
    <3>2. due' = 0 \/ due' = 1
      BY <1>2
    <3> QED
      BY <1>2, <3>1, <3>2, Zenon
  <2>2. timers' \in {0, 1} /\ due' \in {0, 1} /\ due' <= timers'
    BY <1>2
  <2>3. age' \in Nat /\ waited' \in Nat
    BY <1>2
  <2> QED
    BY <2>1, <2>2, <2>3
<1>l. /\ Less(timers) = 0 /\ Less(due) = 0
      /\ Less(Less(timers)) = 0 /\ Less(Less(due)) = 0
  BY DEF Less
<1>s. sys_timeout \in {0, 1} /\ timers <= sys_timeout
  BY DEF sys_timeout, Free
<1>3. ASSUME Heard, NEW blocks,
             \/ UNCHANGED <<timers, due>>
             \/ timers' = sys_timeout /\ UNCHANGED due
             \/ CloseHandle(timers, due, blocks)
             \/ CloseHandle(sys_timeout, due, blocks)
             \/ CloseHandle(Less(timers), Less(due), blocks)
      PROVE  TimeInv'
  BY <1>2, <1>3, <1>l, <1>s DEF Heard, CloseHandle, sys_untimeout, Less
<1>4. CASE RecvRequest
  <2>1. PICK m \in net : \E rest \in {net, net \ {m}} :
          \/ Refuse(m.peer, rest)
          \/ timers' = sys_timeout /\ UNCHANGED due
          \/ SendData(m.peer, 0, Num(1), sys_timeout, plBuf + 1, rest)
    BY <1>4 DEF RecvRequest
  <2>2. Heard
    BY <1>4 DEF RecvRequest
  <2> QED
    BY <1>3, <2>1, <2>2 DEF Refuse, SendData
<1>5. CASE RecvData
  <2>1. PICK m \in net : \E rest \in {net, net \ {m}} :
          \/ Refuse(m.peer, rest)
          \/ WriteBlock(m, rest)
          \/ UNCHANGED <<timers, due>>
    BY <1>5 DEF RecvData
  <2>2. Heard
    BY <1>5 DEF RecvData
  <2> QED
    BY <1>3, <2>1, <2>2 DEF Refuse, WriteBlock
<1>6. CASE RecvAck
  <2>1. PICK m \in net : \E rest \in {net, net \ {m}} :
          \/ Refuse(m.peer, rest)
          \/ CloseHandle(timers, due, plBuf)
          \/ SendData(port, pos, Num(blknum + 1), timers, plBuf, rest)
    BY <1>6 DEF RecvAck
  <2>2. Heard
    BY <1>6 DEF RecvAck
  <2> QED
    BY <1>3, <2>1, <2>2 DEF Refuse, SendData
<1>7. CASE Period
  BY <1>t, <1>7 DEF Period, stateVars
<1>8. CASE tftp_tmr
  <2>1. /\ due = 1 /\ timers = 1 /\ UNCHANGED waited
        /\ \/ timers' = timers - 1 /\ due' = due - 1 /\ UNCHANGED age
           \/ timers' = Rearm /\ due' = due - 1 /\ age' = age + 1
           \/ age' = age + 1 /\ CloseHandle(Rearm, due - 1, plBuf)
    BY <1>8 DEF tftp_tmr, stateVars
  <2> QED
    BY <1>t, <2>1 DEF Rearm, CloseHandle, sys_untimeout, Less
<1>9. CASE RecvForeign
  BY <1>9 DEF RecvForeign, Refuse
<1> QED
  BY <1>1, <1>4, <1>5, <1>6, <1>7, <1>8, <1>9
     DEF Next, ClientRequests, ClientRepeats, ClientGets, Lose, vars,
         timeVars, stateVars, tcp_timer_needed, tcpip_tcp_timer

(* Nothing is sent again, and no client given up, before                   *)
(* TFTP_TIMEOUT_MSECS of silence have passed, when the pool has one        *)
(* timeout besides the cyclic ones, which TCP may have.  A second one      *)
(* would make transfers age twice as fast.                                 *)
THEOREM NothingTooEarly == ASSUME Slots = 1 PROVE Spec => NotEarly
<1>1. Init => TimeInv
  BY NumbersAssumption DEF Init, TimeInv
<1>2. TimeInv /\ [Next]_vars => TimeInv'
  BY TimeStep
<1>3. TimeInv =>
        [(tftp_tmr /\ handle # "none"
            /\ (retries' # retries \/ handle' = "none"))
           => waited >= Timeout]_vars
  <2>1. Timeout \in Nat
    BY NumbersAssumption
  <2>2. ASSUME TimeInv, tftp_tmr, handle # "none",
               retries' # retries \/ handle' = "none"
        PROVE  age + 1 > Timeout /\ due = 1
    BY <2>2 DEF tftp_tmr, TimeInv
  <2> QED
    BY <2>1, <2>2 DEF TimeInv
<1> QED
  BY <1>1, <1>2, <1>3, PTL DEF Spec, NotEarly
-----------------------------------------------------------------------------
(* Blocks, their numbers and the place in the file.  A number is the       *)
(* block's while all of a file can be numbered: 65535 blocks of 512 bytes. *)
Short == \A f \in Files : f.full + 1 < BlkMod

Taken(k) == [i \in 1 .. k |-> i]
Sent(c, k) == [i \in 1 .. k |-> <<c, i>>]

(* A datagram: a block of data has its own number, in both directions.     *)
GoodDatagram(m, last, without) ==
  /\ m.peer \in Clients
  /\ m.blk \in Nat /\ m.body \in Nat
  /\ m.op = "DATA" /\ ~(m.dir = "down" /\ without)
       => m.body \in 1 .. last /\ m.blk = m.body
Datagrams == \A m \in net : GoodDatagram(m, Last, starved)

(* The open file: what is out, its number and the place in the file agree. *)
Server ==
  /\ handle \in {"none", "read", "write"}
  /\ handle # "none" => port \in Clients
  /\ pos \in Nat /\ blknum \in Nat
  /\ lastData \in [blk : Nat, body : Nat]
  /\ handle # "read" => lastData = NoData
  /\ handle = "read" /\ ~starved =>
       /\ lastData.body \in 1 .. Last
       /\ lastData.body = lastData.blk
       /\ lastData.body = pos
       /\ lastData.body = blknum
  /\ handle = "write" =>
       Len(disk[port]) < Last /\ blknum = Len(disk[port]) + 1

(* The files on the card are beginnings of what their clients send.        *)
Uploads ==
  /\ disk = [c \in Clients |-> Sent(c, Len(disk[c]))]
  /\ \A c \in Clients : Len(disk[c]) \in 0 .. Last

(* A client.                                                               *)
States == [op : {"none", "RRQ", "WRQ"}, st : {"idle", "on", "done", "failed"},
           n : Nat, data : Seq(Nat), sends : Nat]
GoodClient(me, last, without) ==
  /\ me.op = "none" => me.st = "idle"
  /\ me.st = "idle" => me.n = 0 /\ me.data = <<>>
  /\ me.op = "WRQ" => me.n <= last
  /\ me.op = "RRQ" /\ ~without =>
       me.n <= last /\ me.data = Taken(me.n) /\ (me.st = "done" => me.n = last)
Downloads ==
  /\ client \in [Clients -> States]
  /\ \A c \in Clients : GoodClient(client[c], Last, starved)

TransferInv ==
  file \in Files /\ Datagrams /\ Server /\ Uploads /\ Downloads

LEMMA Numbers ==
  ASSUME Short, file \in Files
  PROVE  /\ Last \in Nat \ {0}
         /\ \A i \in 0 .. Last : Num(i) = i
         /\ \A i \in Nat : Num(i) \in Nat
<1>1. file.full \in Nat /\ file.full + 1 < BlkMod /\ BlkMod \in Nat \ {0}
  BY FilesAssumption, NumbersAssumption DEF Short
<1>2. Last \in Nat \ {0} /\ Last < BlkMod
  BY <1>1 DEF Last
<1>3. ASSUME NEW i \in 0 .. Last PROVE Num(i) = i
  BY <1>1, <1>2 DEF Num
<1>4. ASSUME NEW i \in Nat PROVE Num(i) \in Nat
  BY <1>1 DEF Num
<1> QED
  BY <1>2, <1>3, <1>4

LEMMA TakenGrows ==
  ASSUME NEW k \in Nat
  PROVE  /\ Taken(0) = <<>>
         /\ Taken(k) \in Seq(Nat)
         /\ Append(Taken(k), k + 1) = Taken(k + 1)
         /\ \A l \in Nat : k <= l => SubSeq(Taken(l), 1, k) = Taken(k)
  BY DEF Taken

LEMMA SentGrows ==
  ASSUME NEW c, NEW k \in Nat
  PROVE  /\ Sent(c, 0) = <<>>
         /\ Len(Sent(c, k)) = k
         /\ Sent(c, k) \o <<>> = Sent(c, k)
         /\ Sent(c, k) \o << <<c, k + 1>> >> = Sent(c, k + 1)
         /\ \A l \in Nat : k <= l => SubSeq(Sent(c, l), 1, k) = Sent(c, k)
  BY DEF Sent

LEMMA DatagramsStep ==
  ASSUME Datagrams, Last' = Last, starved => starved',
         NEW m, net' \subseteq net \cup {m}, GoodDatagram(m, Last, starved')
  PROVE  Datagrams'
  BY DEF Datagrams, GoodDatagram

LEMMA DownloadsKept ==
  ASSUME Downloads, Last' = Last, starved => starved', UNCHANGED client
  PROVE  Downloads'
  BY DEF Downloads, GoodClient

(* Nothing but the network and the server has changed.                     *)
LEMMA ServerOnly ==
  ASSUME TransferInv, UNCHANGED <<file, disk, client>>, starved => starved',
         NEW m, net' \subseteq net \cup {m}, GoodDatagram(m, Last, starved'),
         Server'
  PROVE  TransferInv'
<1>1. Last' = Last
  BY DEF Last
<1>2. Datagrams'
  BY <1>1, DatagramsStep DEF TransferInv
<1>3. Downloads'
  BY <1>1, DownloadsKept DEF TransferInv
<1>4. Uploads'
  BY <1>1 DEF TransferInv, Uploads
<1> QED
  BY <1>2, <1>3, <1>4 DEF TransferInv

LEMMA Answered ==
  ASSUME NEW c \in Clients, NEW b \in Nat, NEW last, NEW without,
         NEW op \in {"ACK", "ERROR"}
  PROVE  GoodDatagram(ToClient(c, op, b, 0), last, without)
  BY DEF GoodDatagram, ToClient

(* An answer that leaves the transfer alone.                               *)
LEMMA AnswerStep ==
  ASSUME TransferInv, NEW c \in Clients, NEW b \in Nat,
         NEW op \in {"ACK", "ERROR"},
         net' \subseteq net \cup {ToClient(c, op, b, 0)},
         UNCHANGED <<handle, port, blknum, lastData, fileVars, starved, file,
                     client>>
  PROVE  TransferInv'
<1>1. Server'
  BY DEF TransferInv, Server, fileVars, Last
<1> QED
  BY <1>1, Answered, ServerOnly DEF fileVars

(* send_data, for the block behind the first "at" ones.                    *)
LEMMA SendDataStep ==
  ASSUME Short, TransferInv, NEW c \in Clients, NEW at \in Nat, NEW n \in Nat,
         ~starved => n = at + 1,
         NEW pending, NEW blocks, NEW rest, rest \subseteq net,
         SendData(c, at, n, pending, blocks, rest), blknum' = n,
         UNCHANGED <<file, disk, client>>
  PROVE  TransferInv'
<1>f. /\ Last \in Nat \ {0} /\ Last' = Last
      /\ file.full \in Nat /\ Last = file.full + 1
  BY Numbers, FilesAssumption DEF TransferInv, Last
<1>1. CASE /\ TFTP_read(at) # 0
           /\ lastData' = [blk |-> n, body |-> TFTP_read(at)]
           /\ net' = rest \cup {resend_data(c, lastData')}
           /\ pos' = at + 1
           /\ handle' = "read" /\ port' = c
           /\ UNCHANGED starved
  <2>1. TFTP_read(at) = at + 1 /\ at + 1 \in 1 .. Last
    BY <1>1, <1>f DEF TFTP_read
  <2>2. Server'
    BY <1>1, <1>f, <2>1 DEF Server, NoData
  <2>3. GoodDatagram(ToClient(c, "DATA", n, at + 1), Last, starved')
    BY <1>1, <2>1 DEF GoodDatagram, ToClient
  <2>4. net' \subseteq net \cup {ToClient(c, "DATA", n, at + 1)}
    BY <1>1, <2>1 DEF resend_data
  <2> QED
    BY <1>1, <2>2, <2>3, <2>4, ServerOnly
<1>2. CASE /\ lastData' = NoData
           /\ net' = rest /\ pos' = at
           /\ handle' = "read" /\ port' = c
           /\ starved' = TRUE
  <2>1. Server'
    BY <1>2, <1>f DEF Server, NoData
  <2>2. net' \subseteq net \cup {ToClient(c, "ERROR", 0, 0)}
    BY <1>2
  <2> QED
    BY <1>2, <2>1, <2>2, Answered, ServerOnly
<1>3. CASE /\ net' = rest \cup {Error(c)} /\ pos' = at
           /\ CloseHandle(pending, due, blocks)
           /\ UNCHANGED starved
  <2>1. Server'
    BY <1>3 DEF Server, NoData, CloseHandle
  <2>2. net' \subseteq net \cup {ToClient(c, "ERROR", 0, 0)}
    BY <1>3 DEF Error
  <2> QED
    BY <1>3, <2>1, <2>2, Answered, ServerOnly
<1> QED
  BY <1>1, <1>2, <1>3 DEF SendData

(* The datagram that arrives.                                              *)
LEMMA Received ==
  ASSUME TransferInv, NEW m \in net
  PROVE  m.peer \in Clients /\ m.blk \in Nat /\ m.body \in Nat
  BY DEF TransferInv, Datagrams, GoodDatagram

LEMMA RefuseStep ==
  ASSUME TransferInv, NEW c \in Clients, NEW rest, rest \subseteq net,
         Refuse(c, rest), UNCHANGED <<file, client>>
  PROVE  TransferInv'
  BY AnswerStep DEF Refuse, Error

LEMMA RequestStep ==
  ASSUME Short, TransferInv, RecvRequest PROVE TransferInv'
<1> DEFINE
      NotNow(m, rest) == handle # "none" /\ Refuse(m.peer, rest)
      NotOpened(m, rest) ==
        /\ handle = "none"
        /\ blknum' \in {blknum, Num(1)}
        /\ TFTP_openFails
        /\ net' = rest \cup {Error(m.peer)}
        /\ UNCHANGED <<handle, port, lastData, starved>>
      Writes(m, rest) ==
        /\ m.op = "WRQ"
        /\ blknum' = Num(1)
        /\ TFTP_open(m.peer, m.op) /\ pos' = 0
        /\ handle = "none" /\ handle' = "write" /\ port' = m.peer
        /\ net' = rest \cup {ToClient(m.peer, "ACK", 0, 0)}
        /\ UNCHANGED <<lastData, starved>>
      Reads(m, rest) ==
        /\ m.op = "RRQ"
        /\ blknum' = Num(1)
        /\ TFTP_open(m.peer, m.op)
        /\ SendData(m.peer, 0, Num(1), sys_timeout, plBuf + 1, rest)
<1>1. PICK m \in net : \E rest \in {net, net \ {m}} :
        NotNow(m, rest) \/ NotOpened(m, rest) \/ Writes(m, rest)
          \/ Reads(m, rest)
  BY DEF RecvRequest
<1>2. PICK rest \in {net, net \ {m}} :
        NotNow(m, rest) \/ NotOpened(m, rest) \/ Writes(m, rest)
          \/ Reads(m, rest)
  BY <1>1
<1>f. /\ m.peer \in Clients /\ rest \subseteq net
      /\ UNCHANGED <<file, client>>
      /\ Last \in Nat \ {0} /\ Num(1) = 1 /\ Last' = Last
  BY Received, Numbers DEF TransferInv, Last, RecvRequest
<1>3. CASE NotNow(m, rest)
  BY <1>3, <1>f, RefuseStep
<1>4. CASE NotOpened(m, rest)
  <2>1. Server'
    BY <1>4, <1>f DEF TransferInv, Server, TFTP_openFails, fileVars
  <2> QED
    BY <1>4, <1>f, <2>1, Answered, ServerOnly
       DEF Error, TFTP_openFails, fileVars
<1>5. CASE Writes(m, rest)
  <2>1. /\ disk' = [disk EXCEPT ![m.peer] = <<>>]
        /\ disk = [c \in Clients |-> Sent(c, Len(disk[c]))]
        /\ \A c \in Clients : Len(disk[c]) \in 0 .. Last
    BY <1>5 DEF TFTP_open, TransferInv, Uploads
  <2>2. disk'[m.peer] = <<>> /\ Len(disk'[m.peer]) = 0
    BY <1>f, <2>1
  <2>3. Uploads'
    <3>1. \A c \in Clients : Len(disk'[c]) \in 0 .. Last
      BY <1>f, <2>1, <2>2
    <3>2. \A c \in Clients : disk'[c] = Sent(c, Len(disk'[c]))
      BY <2>1, <2>2, SentGrows, 0 \in Nat
    <3>3. disk' = [c \in Clients |-> disk'[c]]
      BY <2>1
    <3> QED
      BY <1>f, <3>1, <3>2, <3>3 DEF Uploads
  <2>4. Server'
    BY <1>5, <1>f, <2>2 DEF TransferInv, Server
  <2>5. Datagrams'
    <3>1. GoodDatagram(ToClient(m.peer, "ACK", 0, 0), Last, starved')
      BY <1>f, Answered
    <3> QED
      BY <1>5, <1>f, <3>1, DatagramsStep DEF TransferInv
  <2>6. Downloads'
    BY <1>5, <1>f, DownloadsKept DEF TransferInv
  <2> QED
    BY <1>f, <2>3, <2>4, <2>5, <2>6 DEF TransferInv
<1>6. CASE Reads(m, rest)
  <2>1. UNCHANGED disk
    BY <1>6 DEF TFTP_open
  <2> QED
    BY <1>6, <1>f, <2>1, SendDataStep
<1> QED
  BY <1>2, <1>3, <1>4, <1>5, <1>6

(* The block that is next goes to the end of the file, or nothing does; if *)
(* the transfer ends with an acknowledgement, the file is whole.           *)
LEMMA WriteBlockStep ==
  ASSUME Short, "full" \notin Fails, TransferInv,
         NEW m \in net, m.dir = "up", m.op = "DATA", ~Foreign(m.peer),
         handle = "write", IsNext(m.blk),
         NEW rest, rest \subseteq net, WriteBlock(m, rest),
         UNCHANGED <<file, client>>
  PROVE  /\ TransferInv'
         /\ \/ handle' = handle
            \/ net' \subseteq net \cup {Error(port)}
            \/ Len(disk'[port]) = Last
<1>p. PICK p, k : p = port /\ k = Len(disk[port])
  OBVIOUS
<1>f. /\ p \in Clients /\ port = p /\ m.peer = p /\ Last' = Last
      /\ Last \in Nat \ {0} /\ \A i \in 0 .. Last : Num(i) = i
      /\ \A i \in Nat : Num(i) \in Nat
      /\ k \in Nat /\ k < Last /\ blknum = k + 1
      /\ m.blk = k + 1 /\ m.body = k + 1
      /\ disk = [c \in Clients |-> Sent(c, Len(disk[c]))]
      /\ \A c \in Clients : Len(disk[c]) \in 0 .. Last
  <2>1. p \in Clients /\ m.peer = p
    BY <1>p, NobodyAssumption DEF TransferInv, Server, Foreign
  <2>2. m.body \in 1 .. Last /\ m.blk = m.body
    BY DEF TransferInv, Datagrams, GoodDatagram
  <2>3. /\ disk = [c \in Clients |-> Sent(c, Len(disk[c]))]
        /\ \A c \in Clients : Len(disk[c]) \in 0 .. Last
    BY DEF TransferInv, Uploads
  <2>4. k < Last /\ blknum = k + 1
    BY <1>p DEF TransferInv, Server
  <2>5. Last' = Last
    BY DEF Last
  <2>6. k \in Nat
    BY <1>p, <2>1, <2>3
  <2>7. Last \in Nat \ {0} /\ \A i \in 0 .. Last : Num(i) = i
    BY Numbers DEF TransferInv
  <2>8. \A i \in Nat : Num(i) \in Nat
    BY Numbers DEF TransferInv
  <2>9. m.blk = k + 1 /\ m.body = k + 1
    BY <1>p, <2>2, <2>4 DEF IsNext
  <2> QED
    BY <1>p, <2>1, <2>3, <2>4, <2>5, <2>6, <2>7, <2>8, <2>9
<1>1. PICK w \in TFTP_write(m.peer, m.body) :
        /\ disk' = [disk EXCEPT ![port] = @ \o w.new]
        /\ net' = rest \cup {IF w.ok THEN ToClient(m.peer, "ACK", m.blk, 0)
                                     ELSE Error(m.peer)}
        /\ blknum' = IF m.body # Last THEN Num(blknum + 1) ELSE blknum
        /\ \/ /\ w.ok /\ m.body # Last
              /\ UNCHANGED <<handle, port, lastData>>
           \/ /\ ~(w.ok /\ m.body # Last)
              /\ handle' = "none" /\ port' = Nobody /\ lastData' = NoData
        /\ UNCHANGED <<pos, starved>>
  BY DEF WriteBlock, CloseHandle
<1>2. \/ w.ok /\ w.new = << <<p, k + 1>> >>
      \/ ~w.ok /\ w.new = <<>>
  BY <1>1, <1>f DEF TFTP_write
<1>3. /\ Datagrams' /\ Downloads'
      /\ ~w.ok => net' \subseteq net \cup {Error(p)}
  <2>1. /\ GoodDatagram(ToClient(p, "ACK", k + 1, 0), Last, starved')
        /\ GoodDatagram(ToClient(p, "ERROR", 0, 0), Last, starved')
    BY <1>f, Answered
  <2>2. \/ net' \subseteq net \cup {ToClient(p, "ACK", k + 1, 0)}
        \/ net' \subseteq net \cup {ToClient(p, "ERROR", 0, 0)}
    BY <1>1, <1>f DEF Error
  <2>3. starved => starved'
    BY <1>1
  <2>4. Datagrams'
    BY <1>f, <2>1, <2>2, <2>3, DatagramsStep DEF TransferInv
  <2>5. Downloads'
    BY <1>f, <2>3, DownloadsKept DEF TransferInv
  <2> QED
    BY <1>1, <1>f, <2>4, <2>5
<1>k. k \in Nat /\ disk[p] = Sent(p, k)
  BY <1>f, <1>p
<1>4. CASE w.ok
  <2>1. disk'[p] = Sent(p, k + 1) /\ Len(disk'[p]) = k + 1
    <3>1. disk'[p] = Sent(p, k) \o << <<p, k + 1>> >>
      BY <1>1, <1>2, <1>4, <1>f, <1>k
    <3>2. Sent(p, k) \o << <<p, k + 1>> >> = Sent(p, k + 1)
      BY <1>k, SentGrows
    <3>3. k + 1 \in Nat
      BY <1>k
    <3>4. Len(Sent(p, k + 1)) = k + 1
      BY <3>3, SentGrows
    <3> QED
      BY <3>1, <3>2, <3>4
  <2>2. \A c \in Clients \ {p} : disk'[c] = disk[c]
    BY <1>1, <1>f
  <2>3. Uploads'
    <3>1. \A c \in Clients :
            disk'[c] = Sent(c, Len(disk'[c])) /\ Len(disk'[c]) \in 0 .. Last
      BY <1>f, <2>1, <2>2
    <3>2. disk' = [c \in Clients |-> disk'[c]]
      BY <1>1, <1>f
    <3> QED
      BY <1>f, <3>1, <3>2 DEF Uploads
  <2>4. CASE m.body # Last
    <3>1. k + 1 < Last /\ blknum' = k + 2
      BY <1>1, <1>f, <2>4
    <3>2. UNCHANGED <<handle, port, lastData, pos, starved>>
      BY <1>1, <1>4, <2>4
    <3>3. Server'
      BY <1>f, <2>1, <3>1, <3>2 DEF TransferInv, Server
    <3> QED
      BY <1>f, <1>3, <2>3, <3>2, <3>3 DEF TransferInv
  <2>5. CASE m.body = Last
    <3>1. Server'
      BY <1>1, <1>f, <2>5 DEF TransferInv, Server, NoData
    <3> QED
      BY <1>f, <1>3, <2>1, <2>3, <2>5, <3>1 DEF TransferInv
  <2> QED
    BY <2>4, <2>5
<1>5. CASE ~w.ok
  <2>1. UNCHANGED disk
    <3>1. Sent(p, k) \o <<>> = Sent(p, k)
      BY <1>k, SentGrows
    <3>2. disk' = [disk EXCEPT ![p] = disk[p]]
      BY <1>1, <1>2, <1>5, <1>f, <1>k, <3>1
    <3> QED
      BY <1>f, <3>2
  <2>2. Uploads'
    BY <1>f, <2>1 DEF TransferInv, Uploads
  <2>3. blknum' \in Nat
    BY <1>1, <1>f
  <2>4. Server'
    BY <1>1, <1>5, <2>3 DEF TransferInv, Server, NoData
  <2> QED
    BY <1>f, <1>3, <1>5, <2>2, <2>4 DEF TransferInv
<1> QED
  BY <1>4, <1>5, <1>f

LEMMA DataStep ==
  ASSUME Short, "full" \notin Fails, TransferInv, RecvData
  PROVE  /\ TransferInv'
         /\ \/ handle' = handle
            \/ \A m \in net' \ net : m.op # "ACK"
            \/ Len(disk'[port]) = Last
<1> DEFINE
      Next0(m, rest) ==
        handle = "write" /\ IsNext(m.blk) /\ WriteBlock(m, rest)
      Again(m, rest) ==
        /\ net' = rest \cup {ToClient(m.peer, "ACK", m.blk, 0)}
        /\ UNCHANGED <<handle, port, blknum, lastData, fileVars, starved>>
<1>1. PICK m \in net : \E rest \in {net, net \ {m}} :
        /\ m.dir = "up" /\ m.op = "DATA" /\ ~Foreign(m.peer)
        /\ Refuse(m.peer, rest) \/ Next0(m, rest) \/ Again(m, rest)
  BY DEF RecvData, Arrives
<1>2. PICK rest \in {net, net \ {m}} :
        Refuse(m.peer, rest) \/ Next0(m, rest) \/ Again(m, rest)
  BY <1>1
<1>f. /\ m.peer \in Clients /\ m.blk \in Nat /\ rest \subseteq net
      /\ UNCHANGED <<file, client>>
  BY Received DEF RecvData
<1>3. CASE Refuse(m.peer, rest)
  BY <1>3, <1>f, RefuseStep DEF Refuse
<1>4. CASE Next0(m, rest)
  <2>1. /\ TransferInv'
        /\ \/ handle' = handle
           \/ net' \subseteq net \cup {Error(port)}
           \/ Len(disk'[port]) = Last
    BY <1>1, <1>4, <1>f, WriteBlockStep
  <2> QED
    BY <2>1 DEF Error, ToClient
<1>5. CASE Again(m, rest)
  <2>1. net' \subseteq net \cup {ToClient(m.peer, "ACK", m.blk, 0)}
    BY <1>5, <1>f
  <2> QED
    BY <1>5, <1>f, <2>1, AnswerStep
<1> QED
  BY <1>2, <1>3, <1>4, <1>5

LEMMA AckStep ==
  ASSUME Short, TransferInv, RecvAck PROVE TransferInv'
<1> DEFINE
      Ends(rest) ==
        /\ handle = "read"
        /\ CloseHandle(timers, due, plBuf)
        /\ net' = rest
        /\ UNCHANGED <<blknum, pos, disk, starved>>
      Goes(rest) ==
        /\ handle = "read" /\ lastData.body # Last
        /\ blknum' = Num(blknum + 1)
        /\ SendData(port, pos, Num(blknum + 1), timers, plBuf, rest)
        /\ UNCHANGED disk
<1>1. PICK m \in net : \E rest \in {net, net \ {m}} :
        Refuse(m.peer, rest) \/ Ends(rest) \/ Goes(rest)
  BY DEF RecvAck
<1>2. PICK rest \in {net, net \ {m}} :
        Refuse(m.peer, rest) \/ Ends(rest) \/ Goes(rest)
  BY <1>1
<1>f. /\ m.peer \in Clients /\ rest \subseteq net
      /\ UNCHANGED <<file, client>> /\ Last' = Last
  BY Received DEF RecvAck, Last
<1>3. CASE Refuse(m.peer, rest)
  BY <1>3, <1>f, RefuseStep
<1>4. CASE Ends(rest)
  <2>1. Server'
    BY <1>4 DEF TransferInv, Server, NoData, CloseHandle
  <2>2. net' \subseteq net \cup {ToClient(m.peer, "ERROR", 0, 0)}
    BY <1>4, <1>f
  <2>3. GoodDatagram(ToClient(m.peer, "ERROR", 0, 0), Last, starved')
    BY <1>f, Answered
  <2> QED
    BY <1>4, <1>f, <2>1, <2>2, <2>3, ServerOnly
<1>5. CASE Goes(rest)
  <2>1. PICK c, at, n : c = port /\ at = pos /\ n = Num(blknum + 1)
    OBVIOUS
  <2>2. c \in Clients /\ at \in Nat /\ blknum + 1 \in Nat
    BY <1>5, <2>1 DEF TransferInv, Server
  <2>3. n \in Nat
    BY <2>1, <2>2, Numbers DEF TransferInv
  <2>4. ASSUME ~starved PROVE n = at + 1
    <3>1. blknum = pos /\ blknum \in 1 .. Last /\ blknum # Last
      BY <1>5, <2>4 DEF TransferInv, Server
    <3>2. Last \in Nat /\ \A i \in 0 .. Last : Num(i) = i
      BY Numbers DEF TransferInv
    <3> QED
      BY <2>1, <3>1, <3>2
  <2>5. SendData(c, at, n, timers, plBuf, rest) /\ blknum' = n
    BY <1>5, <2>1
  <2> QED
    BY <1>5, <1>f, <2>2, <2>3, <2>4, <2>5, SendDataStep
<1> QED
  BY <1>2, <1>3, <1>4, <1>5

(* What is sent again is what was sent.                                    *)
LEMMA TimerStep ==
  ASSUME TransferInv, tftp_tmr
  PROVE  TransferInv' /\ (handle' = handle \/ net' = net)
<1>f. Last' = Last /\ UNCHANGED <<file, starved, client>>
  BY DEF tftp_tmr, Last
<1>1. CASE UNCHANGED <<handle, port, blknum, lastData, fileVars, net>>
  BY <1>1, <1>f DEF TransferInv, Datagrams, Server, Uploads, Downloads,
                    fileVars
<1>2. CASE /\ handle # "none" /\ lastData # NoData
           /\ net' = net \cup {resend_data(port, lastData)}
           /\ UNCHANGED <<handle, port, blknum, lastData, fileVars>>
  <2>1. PICK m : m = resend_data(port, lastData)
    OBVIOUS
  <2>2. GoodDatagram(m, Last, starved')
    BY <1>2, <1>f, <2>1
       DEF TransferInv, Server, GoodDatagram, resend_data, ToClient
  <2>3. Server'
    BY <1>2, <1>f DEF TransferInv, Server, fileVars
  <2> QED
    BY <1>2, <1>f, <2>1, <2>2, <2>3, ServerOnly DEF fileVars
<1>3. CASE /\ CloseHandle(Rearm, due - 1, plBuf)
           /\ UNCHANGED <<blknum, retries, pos, disk, net>>
  <2>1. Server'
    BY <1>3, <1>f DEF TransferInv, Server, NoData, CloseHandle
  <2>2. Datagrams' /\ Uploads' /\ Downloads'
    BY <1>3, <1>f DEF TransferInv, Datagrams, Uploads, Downloads
  <2> QED
    BY <1>3, <1>f, <2>1, <2>2 DEF TransferInv
<1> QED
  BY <1>1, <1>2, <1>3 DEF tftp_tmr, stateVars

(* A client's own step: its new state is good, and so is what it sends.    *)
LEMMA ClientStep ==
  ASSUME TransferInv, NEW c \in Clients,
         NEW rec \in States, GoodClient(rec, Last, starved),
         NEW m, GoodDatagram(m, Last, starved), NEW rest, rest \subseteq net,
         \/ Send(c, rec, m, rest)
         \/ client' = [client EXCEPT ![c] = rec] /\ net' = rest,
         UNCHANGED <<file, fileVars, stateVars, starved>>
  PROVE  TransferInv'
<1>1. UNCHANGED <<file, disk, pos, handle, port, blknum, lastData, starved>>
  BY DEF fileVars, stateVars
<1>2. Last' = Last
  BY <1>1 DEF Last
<1>3. Server' /\ Uploads'
  BY <1>1, <1>2 DEF TransferInv, Server, Uploads
<1>4. Datagrams'
  <2>1. net' \subseteq net \cup {m}
    BY DEF Send
  <2> QED
    BY <1>1, <1>2, <2>1, DatagramsStep DEF TransferInv
<1>5. Downloads'
  <2>1. PICK new : client' = [client EXCEPT ![c] = new]
                     /\ (new = rec \/ new = [rec EXCEPT !.sends = @ + 1])
    BY DEF Send
  <2>2. new \in States /\ GoodClient(new, Last, starved)
    BY <2>1 DEF States, GoodClient
  <2> QED
    BY <1>1, <1>2, <2>1, <2>2 DEF TransferInv, Downloads
<1> QED
  BY <1>1, <1>3, <1>4, <1>5 DEF TransferInv

LEMMA AskStep ==
  ASSUME TransferInv, NEW c \in Clients, ClientRequests(c) \/ ClientRepeats(c),
         Short
  PROVE  TransferInv'
<1>1. PICK me : me = client[c]
  OBVIOUS
<1>2. me \in States /\ GoodClient(me, Last, starved)
  BY <1>1 DEF TransferInv, Downloads
<1>f. UNCHANGED <<file, fileVars, stateVars, starved>>
  BY DEF ClientRequests, ClientRepeats, timeVars
<1>n. /\ Last \in Nat \ {0} /\ \A i \in 0 .. Last : Num(i) = i
      /\ \A i \in Nat : Num(i) \in Nat
  BY Numbers DEF TransferInv
<1>3. CASE ClientRequests(c)
  <2>1. PICK op \in Requests :
          /\ me.st = "idle"
          /\ Send(c, [me EXCEPT !.op = op, !.st = "on"],
                  ToServer(c, op, 0, 0), net)
    BY <1>1, <1>3 DEF ClientRequests
  <2>2. op \in {"RRQ", "WRQ"}
    BY ChoicesAssumption
  <2>3. PICK rec : rec = [me EXCEPT !.op = op, !.st = "on"]
    OBVIOUS
  <2>4. rec \in States /\ rec.n = 0 /\ rec.data = <<>> /\ rec.st = "on"
                            /\ rec.op \in {"RRQ", "WRQ"}
    BY <1>2, <2>1, <2>2, <2>3 DEF States, GoodClient
  <2>5. GoodClient(rec, Last, starved)
    <3>1. Taken(0) = <<>>
      BY TakenGrows, 0 \in Nat
    <3>2. 0 <= Last
      BY <1>n
    <3> QED
      BY <2>4, <3>1, <3>2 DEF GoodClient
  <2>6. GoodDatagram(ToServer(c, op, 0, 0), Last, starved)
    BY <2>2 DEF GoodDatagram, ToServer
  <2> QED
    BY <1>f, <2>1, <2>3, <2>4, <2>5, <2>6, ClientStep
<1>4. CASE ClientRepeats(c)
  <2>1. PICK m : m = LastSent(c)
    OBVIOUS
  <2>2. GoodDatagram(m, Last, starved)
    <3>1. CASE me.n = 0
      <4>1. m = ToServer(c, me.op, 0, 0)
        BY <1>1, <2>1, <3>1 DEF LastSent
      <4>2. me.op # "DATA"
        BY <1>2 DEF States
      <4> QED
        BY <4>1, <4>2 DEF GoodDatagram, ToServer
    <3>2. CASE me.n # 0 /\ me.op = "RRQ"
      <4>1. m = ToServer(c, "ACK", Num(me.n), 0)
        BY <1>1, <2>1, <3>2 DEF LastSent
      <4>2. Num(me.n) \in Nat
        BY <1>2, <1>n DEF States
      <4> QED
        BY <4>1, <4>2 DEF GoodDatagram, ToServer
    <3>3. CASE me.n # 0 /\ me.op # "RRQ"
      <4>1. m = ToServer(c, "DATA", Num(me.n), me.n)
        BY <1>1, <2>1, <3>3 DEF LastSent
      <4>2. me.op = "WRQ"
        BY <1>1, <1>4, <1>2, <3>3 DEF ClientRepeats, States, GoodClient
      <4>3. me.n \in 1 .. Last
        BY <1>2, <1>n, <3>3, <4>2 DEF States, GoodClient
      <4>4. Num(me.n) = me.n
        BY <1>n, <4>3
      <4> QED
        BY <4>1, <4>3, <4>4 DEF GoodDatagram, ToServer
    <3> QED
      BY <3>1, <3>2, <3>3
  <2>3. Send(c, me, m, net)
    BY <1>1, <1>4, <2>1 DEF ClientRepeats
  <2> QED
    BY <1>2, <1>f, <2>2, <2>3, ClientStep
<1> QED
  BY <1>3, <1>4

(* The number behind the last is the number of no block.                   *)
LEMMA TooHigh ==
  ASSUME Short, file \in Files
  PROVE  Num(Last + 1) \notin 1 .. Last
  BY FilesAssumption, NumbersAssumption DEF Short, Last, Num

LEMMA TakesStep ==
  ASSUME Short, TransferInv, NEW m \in net, m.dir = "down",
         client[m.peer].st = "on",
         NEW rest, rest \subseteq net, ClientTakes(m.peer, m, rest),
         UNCHANGED <<file, fileVars, stateVars, starved>>
  PROVE  TransferInv'
<1>1. PICK c, me : c = m.peer /\ me = client[c]
  OBVIOUS
<1>2. /\ c \in Clients /\ me \in States /\ me.st = "on"
      /\ GoodClient(me, Last, starved) /\ GoodDatagram(m, Last, starved)
  BY <1>1 DEF TransferInv, Datagrams, GoodDatagram, Downloads
<1>n. /\ Last \in Nat \ {0} /\ \A i \in 0 .. Last : Num(i) = i
      /\ \A i \in Nat : Num(i) \in Nat
  BY Numbers DEF TransferInv
<1>q. \A b \in Nat : GoodDatagram(ToServer(c, "ACK", b, 0), Last, starved)
  BY <1>2 DEF GoodDatagram, ToServer
<1>3. CASE /\ m.op = "DATA" /\ me.op = "RRQ" /\ m.blk = Num(me.n + 1)
           /\ Send(c, [me EXCEPT !.n = me.n + 1, !.data = Append(@, m.body),
                                 !.st = IF m.body = Last THEN "done" ELSE "on"],
                   ToServer(c, "ACK", m.blk, 0), rest)
  <2>1. PICK rec :
          rec = [me EXCEPT !.n = me.n + 1, !.data = Append(@, m.body),
                           !.st = IF m.body = Last THEN "done" ELSE "on"]
    OBVIOUS
  <2>2. m.body \in Nat /\ m.blk \in Nat
    BY <1>2 DEF GoodDatagram
  <2>3. /\ rec.n = me.n + 1 /\ rec.data = Append(me.data, m.body)
        /\ rec.st = IF m.body = Last THEN "done" ELSE "on"
        /\ rec.op = "RRQ"
        /\ rec \in States
    <3>1. me.n \in Nat /\ me.data \in Seq(Nat)
      BY <1>2 DEF States
    <3>2. me.n + 1 \in Nat /\ Append(me.data, m.body) \in Seq(Nat)
      BY <2>2, <3>1
    <3> QED
      BY <1>2, <1>3, <2>1, <3>2 DEF States
  <2>4. ASSUME ~starved
        PROVE  rec.n <= Last /\ rec.data = Taken(rec.n) /\ m.body = rec.n
    <3>1. me.n \in 0 .. Last /\ me.data = Taken(me.n)
      BY <1>2, <1>3, <1>n, <2>4 DEF GoodClient, States
    <3>2. m.body \in 1 .. Last /\ m.blk = m.body
      BY <1>2, <1>3, <2>4 DEF GoodDatagram
    <3>3. m.body = me.n + 1
      <4>1. CASE me.n < Last
        BY <1>3, <1>n, <3>1, <3>2, <4>1
      <4>2. CASE me.n = Last
        BY <1>3, <1>n, <3>2, <4>2, TooHigh
           DEF TransferInv
      <4> QED
        BY <1>n, <3>1, <4>1, <4>2
    <3>4. Append(Taken(me.n), me.n + 1) = Taken(me.n + 1)
      BY <3>1, TakenGrows
    <3> QED
      BY <2>3, <3>1, <3>2, <3>3, <3>4
  <2>5. GoodClient(rec, Last, starved)
    BY <2>3, <2>4 DEF GoodClient
  <2> QED
    BY <1>2, <1>3, <1>q, <2>1, <2>2, <2>3, <2>5, ClientStep
<1>4. CASE Send(c, me, ToServer(c, "ACK", m.blk, 0), rest)
  <2>1. m.blk \in Nat
    BY <1>2 DEF GoodDatagram
  <2> QED
    BY <1>2, <1>4, <1>q, <2>1, ClientStep
<1>5. CASE /\ m.op = "ACK" /\ me.op = "WRQ" /\ m.blk = Num(me.n)
           /\ me.n # Last
           /\ Send(c, [me EXCEPT !.n = me.n + 1],
                   ToServer(c, "DATA", Num(me.n + 1), me.n + 1), rest)
  <2>1. PICK rec : rec = [me EXCEPT !.n = me.n + 1]
    OBVIOUS
  <2>2. /\ me.n + 1 \in 1 .. Last /\ rec \in States
        /\ rec.n = me.n + 1 /\ rec.op = "WRQ" /\ rec.st = "on"
    BY <1>2, <1>5, <1>n, <2>1 DEF States, GoodClient
  <2>3. GoodClient(rec, Last, starved)
    BY <1>n, <2>2 DEF GoodClient
  <2>4. Num(me.n + 1) = me.n + 1
    BY <1>n, <2>2
  <2>5. GoodDatagram(ToServer(c, "DATA", Num(me.n + 1), me.n + 1),
                     Last, starved)
    BY <1>2, <2>2, <2>4 DEF GoodDatagram, ToServer
  <2> QED
    BY <1>2, <1>5, <2>1, <2>2, <2>3, <2>5, ClientStep
<1>6. CASE /\ \/ /\ client' = [client EXCEPT ![c].st = "done"]
                 /\ me.op = "WRQ"
              \/ client' = [client EXCEPT ![c].st = "failed"]
           /\ net' = rest
  <2>1. PICK rec : client' = [client EXCEPT ![c] = rec]
                     /\ \/ rec = [me EXCEPT !.st = "done"] /\ me.op = "WRQ"
                        \/ rec = [me EXCEPT !.st = "failed"]
    BY <1>1, <1>6
  <2>2. rec \in States /\ GoodClient(rec, Last, starved)
    BY <1>2, <2>1 DEF States, GoodClient
  <2> QED
    BY <1>2, <1>6, <2>1, <2>2, ClientStep
<1>7. CASE UNCHANGED client /\ net' = rest
  <2>1. client' = [client EXCEPT ![c] = me]
    BY <1>1, <1>7 DEF TransferInv, Downloads
  <2> QED
    BY <1>2, <1>7, <2>1, ClientStep
<1> QED
  BY <1>1, <1>3, <1>4, <1>5, <1>6, <1>7 DEF ClientTakes

(* The network takes datagrams away, and drops some that nobody waits for. *)
LEMMA NetworkStep ==
  ASSUME TransferInv, net' \subseteq net,
         UNCHANGED <<file, fileVars, stateVars, starved, client>>
  PROVE  TransferInv'
<1>1. Last' = Last
  BY DEF Last
<1>2. Server' /\ Uploads'
  BY <1>1 DEF TransferInv, Server, Uploads, fileVars, stateVars
<1>3. Datagrams' /\ Downloads'
  BY <1>1 DEF TransferInv, Datagrams, Downloads
<1> QED
  BY <1>2, <1>3 DEF TransferInv

LEMMA TransferInitial == ASSUME Short, Init PROVE TransferInv
<1>1. file \in Files /\ Last \in Nat \ {0}
  BY Numbers DEF Init
<1>2. /\ client = [c \in Clients |->
                     [op |-> "none", st |-> "idle", n |-> 0, data |-> <<>>,
                      sends |-> 0]]
      /\ disk = [c \in Clients |-> <<>>]
      /\ net = {} /\ handle = "none" /\ lastData = [blk |-> 0, body |-> 0]
      /\ pos = 0 /\ blknum = 0
  BY DEF Init, NoData
<1>3. Datagrams
  BY <1>2 DEF Datagrams
<1>4. Server
  BY <1>2 DEF Server, NoData
<1>5. Uploads
  <2>1. \A c \in Clients : Sent(c, 0) = <<>>
    BY SentGrows, 0 \in Nat
  <2> QED
    BY <1>1, <1>2, <2>1 DEF Uploads
<1>6. Downloads
  <2>1. <<>> \in Seq(Nat)
    OBVIOUS
  <2> QED
    BY <1>2, <2>1 DEF Downloads, States, GoodClient
<1> QED
  BY <1>1, <1>3, <1>4, <1>5, <1>6 DEF TransferInv

LEMMA TransferStep ==
  ASSUME Short, "full" \notin Fails, TransferInv, [Next]_vars
  PROVE  TransferInv'
<1>1. CASE RecvForeign
  BY <1>1, Received, RefuseStep DEF RecvForeign
<1>2. CASE ClientGets
  <2>1. PICK m \in net : \E rest \in {net, net \ {m}} :
          /\ m.dir = "down"
          /\ IF client[m.peer].st = "on" THEN ClientTakes(m.peer, m, rest)
             ELSE UNCHANGED client /\ net' = rest
    BY <1>2 DEF ClientGets, Arrives
  <2>2. PICK rest \in {net, net \ {m}} :
          IF client[m.peer].st = "on" THEN ClientTakes(m.peer, m, rest)
          ELSE UNCHANGED client /\ net' = rest
    BY <2>1
  <2>3. UNCHANGED <<file, fileVars, stateVars, starved>>
    BY <1>2 DEF ClientGets, timeVars
  <2>4. CASE client[m.peer].st = "on"
    BY <2>1, <2>2, <2>3, <2>4, TakesStep
  <2>5. CASE client[m.peer].st # "on"
    BY <2>2, <2>3, <2>5, NetworkStep
  <2> QED
    BY <2>4, <2>5
<1>3. CASE Period \/ tcp_timer_needed \/ tcpip_tcp_timer \/ Lose
             \/ UNCHANGED vars
  <2>1. /\ net' \subseteq net
        /\ UNCHANGED <<file, fileVars, stateVars, starved, client>>
    BY <1>3 DEF Period, tcp_timer_needed, tcpip_tcp_timer, Lose, vars, timeVars
  <2> QED
    BY <2>1, NetworkStep
<1> QED
  BY <1>1, <1>2, <1>3, RequestStep, DataStep, AckStep, TimerStep, AskStep
     DEF Next

LEMMA TransfersAgree ==
  ASSUME Short, "full" \notin Fails PROVE Spec => []TransferInv
<1>1. Init => TransferInv
  BY TransferInitial
<1>2. TransferInv /\ [Next]_vars => TransferInv'
  BY TransferStep
<1> QED
  BY <1>1, <1>2, PTL DEF Spec

(* Over a network that loses, repeats and reorders datagrams, with timers  *)
(* that repeat blocks, files that do not open, reads and writes that fail  *)
(* and clients that vanish, a client holds the beginning of the file it    *)
(* reads, and all of it when it is done, and the card holds the beginning  *)
(* of what a client writes.  The files have at most 65535 blocks, the card *)
(* does not fill up, and downloads are claimed while there is memory.      *)
THEOREM TransfersInStep ==
  ASSUME Short, "full" \notin Fails PROVE Spec => []TransfersArePrefixes
<1>1. ASSUME TransferInv PROVE TransfersArePrefixes
  <2>1. Last \in Nat
    BY <1>1, Numbers DEF TransferInv
  <2>2. DownloadIsPrefix
    <3> SUFFICES ASSUME ~starved, NEW c \in Clients, client[c].op = "RRQ"
                 PROVE  /\ client[c].data = SubSeq(Content, 1, client[c].n)
                        /\ client[c].st = "done" => client[c].n = Last
      BY DEF DownloadIsPrefix
    <3>1. PICK k, l : k = client[c].n /\ l = Last
      OBVIOUS
    <3>2. /\ k \in Nat /\ l \in Nat /\ k <= l
          /\ client[c].data = Taken(k)
          /\ client[c].st = "done" => client[c].n = Last
      BY <1>1, <2>1, <3>1 DEF TransferInv, Downloads, States, GoodClient
    <3>3. SubSeq(Taken(l), 1, k) = Taken(k)
      BY <3>2, TakenGrows
    <3> QED
      BY <3>1, <3>2, <3>3 DEF Content, Taken
  <2>3. UploadIsPrefix
    <3> SUFFICES ASSUME NEW c \in Clients
                 PROVE  disk[c] = SubSeq(Upload(c), 1, Len(disk[c]))
      BY DEF UploadIsPrefix
    <3>1. PICK k, l : k = Len(disk[c]) /\ l = Last
      OBVIOUS
    <3>2. k \in Nat /\ l \in Nat /\ k <= l /\ disk[c] = Sent(c, k)
      BY <1>1, <2>1, <3>1 DEF TransferInv, Uploads
    <3>3. SubSeq(Sent(c, l), 1, k) = Sent(c, k)
      BY <3>2, SentGrows
    <3> QED
      BY <3>1, <3>2, <3>3 DEF Upload, Sent
  <2> QED
    BY <2>2, <2>3 DEF TransfersArePrefixes
<1> QED
  BY <1>1, TransfersAgree, PTL

(* A client that gets its last block acknowledged has its file on the      *)
(* card, whole: tftp_server.c closes it with an ACK only after the write   *)
(* of the last block.                                                      *)
THEOREM AcknowledgedUploadsAreWhole ==
  ASSUME Short, "full" \notin Fails PROVE Spec => AcknowledgedIsWhole
<1> DEFINE Whole ==
      \A c \in Clients :
        (port = c /\ handle = "write" /\ handle' = "none"
           /\ \E m \in net' \ net : m.op = "ACK" /\ m.peer = c)
          => disk'[c] = Upload(c)
<1>1. ASSUME TransferInv, TransferInv', [Next]_vars PROVE [Whole]_vars
  <2> SUFFICES ASSUME Next, NEW c \in Clients,
                      port = c, handle = "write", handle' = "none",
                      NEW m \in net' \ net, m.op = "ACK"
               PROVE  disk'[c] = Upload(c)
    BY <1>1
  <2>1. RecvData
    <3>1. ~(tftp_tmr \/ RecvForeign \/ RecvRequest)
      BY <1>1, TimerStep
         DEF RecvForeign, RecvRequest, Refuse
    <3> QED
      BY <3>1 DEF Next, RecvAck, Refuse, Period, tcp_timer_needed,
                  tcpip_tcp_timer, ClientRequests, ClientRepeats, ClientGets,
                  Lose, stateVars
  <2>2. Len(disk'[c]) = Last
    BY <1>1, <2>1, DataStep
  <2>3. disk'[c] = Sent(c, Len(disk'[c]))
    BY <1>1 DEF TransferInv, Uploads
  <2> QED
    BY <2>2, <2>3 DEF Upload, Sent
<1> QED
  BY <1>1, TransfersAgree, PTL DEF Spec, AcknowledgedIsWhole
=============================================================================
