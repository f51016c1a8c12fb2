-------------------------------- MODULE Tftp --------------------------------
(***************************************************************************)
(* Files of the SD card over TFTP: the file functions of                   *)
(* CM7/Core/Src/TFTP.c below the server of LwIP that calls them            *)
(* (tftp_server.c), the pool of LwIP's timeouts, which its timer shares    *)
(* with that of TCP, and clients behind a network that loses, repeats and  *)
(* reorders datagrams.  All of the server runs in the tcpip thread: one    *)
(* datagram or one timeout is one step.                                    *)
(***************************************************************************)
EXTENDS Integers, Sequences, FiniteSets

CONSTANTS
  Clients,      \* a client is its address and port
  Requests,     \* what clients ask for
  Files,        \* the files, [full : number of full blocks, tail : BOOLEAN]
  BlkMod,       \* one more than the largest block number, 2^16
  Timeout,      \* TFTP_TIMEOUT_MSECS / TFTP_TIMER_MSECS
  MaxRetries,   \* TFTP_MAX_RETRIES
  Slots,        \* MEMP_NUM_SYS_TIMEOUT less the cyclic timers of LwIP
  Fails,        \* what may fail: opening, reading, writing, memory, space
  MaxSends,     \* bound: [Clients -> how many datagrams the client sends]
  MaxDups       \* bound: datagrams the network repeats

ASSUME FilesAssumption == Files \subseteq [full : Nat, tail : BOOLEAN]
ASSUME NumbersAssumption ==
  /\ {BlkMod, Timeout, Slots} \subseteq Nat \ {0}
  /\ {MaxRetries, MaxDups} \subseteq Nat
  /\ MaxSends \in [Clients -> Nat]
ASSUME ChoicesAssumption ==
  /\ Requests \subseteq {"RRQ", "WRQ"}
  /\ Fails \subseteq {"open", "read", "write", "mem", "full"}

Nobody == "nobody"
ASSUME NobodyAssumption == Nobody \notin Clients

VARIABLES
  file,         \* the file that is read, and that writing clients have
  handle,       \* tftp_state.handle and mode_write
  port,         \* the client tftp_state.port and .addr name, or Nobody
  blknum,
  lastData,     \* tftp_state.last_data, or NoData
  pos,          \* how many blocks have been read from the open file
  age,          \* tftp_state.timer - tftp_state.last_pkt
  retries,
  plBuf,        \* the pool blocks PLbuf has been given and not yet given back
  disk,         \* [Clients -> the blocks written to the client's file]
  timers,       \* pending timeouts of tftp_tmr
  due,          \* how many of them still expire in this period
  tcpTimer,     \* "off"; "on"; or "lost": tcpip_tcp_timer_active, but not set
  untimed,      \* the transfer began without a timeout (observation)
  waited,       \* periods begun since the last datagram (observation)
  starved,      \* there was no memory for a block (observation)
  net,          \* the datagrams on the way
  dups,
  client        \* [Clients -> what the client does]

fileVars == <<pos, plBuf, disk>>
tcpVars == <<tcpTimer, untimed>>
timeVars == <<timers, due, tcpVars, waited, starved>>
stateVars == <<handle, port, blknum, lastData, age, retries>>
vars == <<file, fileVars, timeVars, stateVars, net, dups, client>>

NoData == [blk |-> 0, body |-> 0]
Num(i) == i % BlkMod
Last == file.full + 1                       \* the block that is not full
Content == [i \in 1 .. Last |-> i]
Upload(c) == [i \in 1 .. Last |-> <<c, i>>]

ToServer(c, op, blk, body) ==
  [dir |-> "up", peer |-> c, op |-> op, blk |-> blk, body |-> body]
ToClient(c, op, blk, body) ==
  [dir |-> "down", peer |-> c, op |-> op, blk |-> blk, body |-> body]
Error(c) == ToClient(c, "ERROR", 0, 0)

Init ==
  /\ file \in Files
  /\ handle = "none" /\ port = Nobody /\ blknum = 0 /\ lastData = NoData
  /\ age = 0 /\ retries = 0
  /\ pos = 0 /\ plBuf = 0 /\ disk = [c \in Clients |-> <<>>]
  /\ timers = 0 /\ due = 0 /\ waited = 0
  /\ tcpTimer = "off" /\ untimed = FALSE
  /\ starved = FALSE
  /\ net = {} /\ dups = 0
  /\ client = [c \in Clients |->
                 [op |-> "none", st |-> "idle", n |-> 0, data |-> <<>>,
                  sends |-> 0]]
-----------------------------------------------------------------------------
(* The timeouts.  A timeout comes from a pool; with the pool empty         *)
(* sys_timeout prints its assertion and sets none.  sys_untimeout removes  *)
(* the one that expires first.                                             *)
Free == timers + (IF tcpTimer = "on" THEN 1 ELSE 0) < Slots
sys_timeout == IF Free THEN timers + 1 ELSE timers
Less(n) == IF n > 0 THEN n - 1 ELSE 0
sys_untimeout(pending, soon) == timers' = Less(pending) /\ due' = Less(soon)

(* The first TCP connection needs a timer: it counts as active even if no  *)
(* timeout was free, and then never becomes inactive.                      *)
tcp_timer_needed ==
  /\ tcpTimer = "off"
  /\ tcpTimer' = IF Free THEN "on" ELSE "lost"
  /\ UNCHANGED <<file, fileVars, timers, due, untimed, waited, starved,
                 stateVars, net, dups, client>>

(* It sets its timeout again, the one that has just expired, as long as    *)
(* there are connections.                                                  *)
tcpip_tcp_timer ==
  /\ tcpTimer = "on"
  /\ tcpTimer' = "off"
  /\ UNCHANGED <<file, fileVars, timers, due, untimed, waited, starved,
                 stateVars, net, dups, client>>
-----------------------------------------------------------------------------
(* The file functions of TFTP.c.                                           *)

(* TFTP_open takes a block of the pool for PLbuf and opens the file, which *)
(* FA_CREATE_ALWAYS empties; it gives the block back if that fails.        *)
TFTP_open(c, op) ==
  disk' = IF op = "WRQ" THEN [disk EXCEPT ![c] = <<>>] ELSE disk
TFTP_openFails_xLeaves == plBuf' = plBuf + 1 /\ UNCHANGED <<pos, disk>>
TFTP_openFails == UNCHANGED fileVars

TFTP_close(blocks) == blocks - 1

(* TFTP_read: the block after the first "at" ones; 0 if f_read returns no  *)
(* bytes, for which the function returns -1.                               *)
TFTP_read(at) ==
  IF at < file.full \/ (at = file.full /\ file.tail) THEN at + 1 ELSE 0

(* TFTP_write: what f_write may do with a block, and whether the function  *)
(* reports success.  A full card writes a part of it, which is a success;  *)
(* no bytes written are an error.                                          *)
Empty(body) == body = Last /\ ~file.tail
Part == 0
TFTP_write(c, body) ==
  {r \in [ok : BOOLEAN, new : {<<>>, <<<<c, body>>>>, <<<<c, Part>>>>}] :
     \/ r.ok /\ r.new = <<<<c, body>>>> /\ ~Empty(body)
     \/ r.ok /\ r.new = <<<<c, Part>>>> /\ ~Empty(body) /\ "full" \in Fails
     \/ ~r.ok /\ r.new = <<>> /\ (Empty(body) \/ "write" \in Fails)}
-----------------------------------------------------------------------------
(* The server.                                                             *)

(* close_handle, with this many timeouts pending and due, and pool blocks  *)
(* held.                                                                   *)
CloseHandle(pending, soon, blocks) ==
  /\ handle' = "none" /\ port' = Nobody /\ lastData' = NoData
  /\ plBuf' = TFTP_close(blocks)
  /\ sys_untimeout(pending, soon)

(* resend_data; that it finds no memory is a datagram lost.                *)
resend_data_xReadsOn(c, data) ==
  ToClient(c, "DATA", data.blk, TFTP_read(pos))
resend_data(c, data) == ToClient(c, "DATA", data.blk, data.body)

(* send_data: block n goes out, or no memory is left for it, or the file   *)
(* has no more and the transfer ends with an error.                        *)
SendData(c, at, n, pending, blocks, rest) ==
  \/ /\ TFTP_read(at) # 0
     /\ lastData' = [blk |-> n, body |-> TFTP_read(at)]
     /\ net' = rest \cup {resend_data(c, lastData')}
     /\ pos' = at + 1
     /\ handle' = "read" /\ port' = c
     /\ timers' = pending /\ plBuf' = blocks /\ UNCHANGED <<due, starved>>
  \/ /\ "mem" \in Fails
     /\ lastData' = NoData
     /\ net' = rest /\ pos' = at
     /\ handle' = "read" /\ port' = c
     /\ timers' = pending /\ plBuf' = blocks /\ UNCHANGED due
     /\ starved' = TRUE
  \/ /\ TFTP_read(at) = 0 \/ "read" \in Fails
     /\ net' = rest \cup {Error(c)} /\ pos' = at
     /\ CloseHandle(pending, due, blocks)
     /\ UNCHANGED starved

(* A datagram arrives; the network may keep a copy.                        *)
Arrives(dir, op, m, rest) ==
  /\ m.dir = dir /\ m.op \in op
  /\ \/ rest = net \ {m} /\ UNCHANGED dups
     \/ dups < MaxDups /\ rest = net /\ dups' = dups + 1

(* The first lines of recv: somebody else's datagram is answered and       *)
(* dropped, one of the transfer restarts the time to the next retry.       *)
Foreign(c) == port \notin {Nobody, c}
Heard_xLater == retries' = 0 /\ waited' = 0 /\ UNCHANGED age
Heard == age' = 0 /\ retries' = 0 /\ waited' = 0
Refuse(c, rest) ==
  /\ net' = rest \cup {Error(c)}
  /\ UNCHANGED <<handle, port, blknum, lastData, fileVars, timers, due,
                 starved>>

RecvForeign ==
  \E m \in net : \E rest \in {net, net \ {m}} :
    /\ Arrives("up", {"RRQ", "WRQ", "DATA", "ACK"}, m, rest)
    /\ Foreign(m.peer)
    /\ Refuse(m.peer, rest)
    /\ UNCHANGED <<file, age, retries, waited, tcpVars, client>>

(* RRQ, WRQ: the timer starts first; it is not stopped if the file does    *)
(* not open, or the name is too long to try.                               *)
RecvRequest ==
  \E m \in net : \E rest \in {net, net \ {m}} :
    /\ Arrives("up", {"RRQ", "WRQ"}, m, rest)
    /\ ~Foreign(m.peer)
    /\ Heard
    /\ untimed' = IF handle = "none" THEN sys_timeout = 0 ELSE untimed
    /\ \/ handle # "none" /\ Refuse(m.peer, rest)
       \/ /\ handle = "none" /\ "open" \in Fails
          /\ timers' = sys_timeout
          /\ blknum' \in {blknum, Num(1)}
          /\ TFTP_openFails
          /\ net' = rest \cup {Error(m.peer)}
          /\ UNCHANGED <<handle, port, lastData, due, starved>>
       \/ /\ handle = "none" /\ m.op = "WRQ"
          /\ timers' = sys_timeout
          /\ blknum' = Num(1)
          /\ TFTP_open(m.peer, m.op) /\ plBuf' = plBuf + 1 /\ pos' = 0
          /\ handle' = "write" /\ port' = m.peer
          /\ net' = rest \cup {ToClient(m.peer, "ACK", 0, 0)}
          /\ UNCHANGED <<lastData, due, starved>>
       \/ /\ handle = "none" /\ m.op = "RRQ"
          /\ blknum' = Num(1)
          /\ TFTP_open(m.peer, m.op)
          /\ SendData(m.peer, 0, Num(1), sys_timeout, plBuf + 1, rest)
    /\ UNCHANGED <<file, tcpTimer, client>>

(* DATA: the block that is next is written and acknowledged, the last one  *)
(* closes the file; the one before is acknowledged again.  close_handle    *)
(* runs twice, and removes two timeouts, when the last block is not        *)
(* written.                                                                *)
IsNext_xAny(blk) == TRUE
IsNext(blk) == blk = blknum
WriteBlock(m, rest) ==
  \E w \in TFTP_write(m.peer, m.body) :
    /\ disk' = [disk EXCEPT ![port] = @ \o w.new]
    /\ net' = rest \cup {IF w.ok THEN ToClient(m.peer, "ACK", m.blk, 0)
                                 ELSE Error(m.peer)}
    /\ blknum' = IF m.body # Last THEN Num(blknum + 1) ELSE blknum
    /\ IF w.ok /\ m.body # Last
       THEN UNCHANGED <<handle, port, lastData, plBuf, timers, due>>
       ELSE IF ~w.ok /\ m.body = Last
       THEN CloseHandle(Less(timers), Less(due), plBuf)
       ELSE CloseHandle(timers, due, plBuf)
    /\ UNCHANGED <<pos, starved>>
RecvData ==
  \E m \in net : \E rest \in {net, net \ {m}} :
    /\ Arrives("up", {"DATA"}, m, rest)
    /\ ~Foreign(m.peer)
    /\ Heard
    /\ \/ handle # "write" /\ Refuse(m.peer, rest)
       \/ handle = "write" /\ IsNext(m.blk) /\ WriteBlock(m, rest)
       \/ /\ handle = "write" /\ ~IsNext(m.blk) /\ Num(m.blk + 1) = blknum
          /\ net' = rest \cup {ToClient(m.peer, "ACK", m.blk, 0)}
          /\ UNCHANGED <<handle, port, blknum, lastData, fileVars, timers, due,
                         starved>>
       \/ /\ handle = "write" /\ ~IsNext(m.blk) /\ Num(m.blk + 1) # blknum
          /\ Refuse(m.peer, rest)
    /\ UNCHANGED <<file, tcpVars, client>>

(* ACK of the block that is out: the next one follows, or the file is      *)
(* closed if that was the last.                                            *)
RecvAck ==
  \E m \in net : \E rest \in {net, net \ {m}} :
    /\ Arrives("up", {"ACK"}, m, rest)
    /\ ~Foreign(m.peer)
    /\ Heard
    /\ \/ (handle # "read" \/ ~IsNext(m.blk)) /\ Refuse(m.peer, rest)
       \/ /\ handle = "read" /\ IsNext(m.blk) /\ lastData.body = Last
          /\ CloseHandle(timers, due, plBuf)
          /\ net' = rest
          /\ UNCHANGED <<blknum, pos, disk, starved>>
       \/ /\ handle = "read" /\ IsNext(m.blk) /\ lastData.body # Last
          /\ blknum' = Num(blknum + 1)
          /\ SendData(port, pos, Num(blknum + 1), timers, plBuf, rest)
          /\ UNCHANGED disk
    /\ UNCHANGED <<file, tcpVars, client>>

(* A period of TFTP_TIMER_MSECS begins: every pending timeout of tftp_tmr  *)
(* expires once in it.                                                     *)
Period ==
  /\ timers > 0 /\ due = 0
  /\ due' = timers
  /\ waited' = IF waited > Timeout THEN waited ELSE waited + 1
  /\ UNCHANGED <<file, fileVars, timers, tcpVars, starved, stateVars, net,
                 dups, client>>

(* tftp_tmr: without a transfer the timer ends; it goes on otherwise, and  *)
(* after the time the block is sent again or the transfer given up.        *)
Rearm_xNot == timers - 1
Rearm == timers
tftp_tmr ==
  /\ due > 0
  /\ \/ /\ handle = "none"
        /\ timers' = timers - 1 /\ due' = due - 1
        /\ UNCHANGED <<stateVars, fileVars, net>>
     \/ /\ handle # "none" /\ age + 1 <= Timeout
        /\ age' = age + 1
        /\ timers' = Rearm /\ due' = due - 1
        /\ UNCHANGED <<handle, port, blknum, lastData, retries, fileVars, net>>
     \/ /\ handle # "none" /\ age + 1 > Timeout
        /\ lastData # NoData /\ retries < MaxRetries
        /\ net' = net \cup {resend_data(port, lastData)}
        /\ retries' = retries + 1
        /\ age' = age + 1
        /\ timers' = Rearm /\ due' = due - 1
        /\ UNCHANGED <<handle, port, blknum, lastData, fileVars>>
     \/ /\ handle # "none" /\ age + 1 > Timeout
        /\ lastData = NoData \/ retries >= MaxRetries
        /\ age' = age + 1
        /\ CloseHandle(Rearm, due - 1, plBuf)
        /\ UNCHANGED <<blknum, retries, pos, disk, net>>
  /\ UNCHANGED <<file, waited, tcpVars, starved, dups, client>>
-----------------------------------------------------------------------------
(* Clients as RFC 1350 has them: the block that is next is taken and       *)
(* acknowledged, the one before acknowledged again, an error ends the      *)
(* transfer, silence repeats what was sent last.  A client may vanish.     *)
Send(c, rec, m, rest) ==
  IF rec.sends < MaxSends[c]
  THEN /\ client' = [client EXCEPT ![c] = [rec EXCEPT !.sends = @ + 1]]
       /\ net' = rest \cup {m}
  ELSE client' = [client EXCEPT ![c] = rec] /\ net' = rest

LastSent(c) ==
  LET me == client[c] IN
  IF me.n = 0 THEN ToServer(c, me.op, 0, 0)
  ELSE IF me.op = "RRQ" THEN ToServer(c, "ACK", Num(me.n), 0)
  ELSE ToServer(c, "DATA", Num(me.n), me.n)

ClientRequests(c) ==
  /\ client[c].st = "idle"
  /\ \E op \in Requests :
       Send(c, [client[c] EXCEPT !.op = op, !.st = "on"],
            ToServer(c, op, 0, 0), net)
  /\ UNCHANGED <<file, fileVars, timeVars, stateVars, dups>>

ClientRepeats(c) ==
  /\ client[c].st = "on" /\ client[c].sends < MaxSends[c]
  /\ Send(c, client[c], LastSent(c), net)
  /\ UNCHANGED <<file, fileVars, timeVars, stateVars, dups>>

ClientTakes(c, m, rest) ==
  LET me == client[c]
      next == me.n + 1
  IN  CASE m.op = "DATA" /\ me.op = "RRQ" /\ m.blk = Num(next) ->
             Send(c, [me EXCEPT !.n = next, !.data = Append(@, m.body),
                                !.st = IF m.body = Last THEN "done" ELSE "on"],
                  ToServer(c, "ACK", m.blk, 0), rest)
        [] m.op = "DATA" /\ me.op = "RRQ" /\ m.blk = Num(me.n) ->
             Send(c, me, ToServer(c, "ACK", m.blk, 0), rest)
        [] m.op = "ACK" /\ me.op = "WRQ" /\ m.blk = Num(me.n) ->
             IF me.n = Last
             THEN client' = [client EXCEPT ![c].st = "done"] /\ net' = rest
             ELSE Send(c, [me EXCEPT !.n = next],
                       ToServer(c, "DATA", Num(next), next), rest)
        [] m.op = "ERROR" ->
             client' = [client EXCEPT ![c].st = "failed"] /\ net' = rest
        [] OTHER -> UNCHANGED client /\ net' = rest

ClientGets ==
  \E m \in net : \E rest \in {net, net \ {m}} :
    /\ Arrives("down", {"DATA", "ACK", "ERROR"}, m, rest)
    /\ IF client[m.peer].st = "on" THEN ClientTakes(m.peer, m, rest)
                                   ELSE UNCHANGED client /\ net' = rest
    /\ UNCHANGED <<file, fileVars, timeVars, stateVars>>

Lose ==
  /\ \E m \in net : net' = net \ {m}
  /\ UNCHANGED <<file, fileVars, timeVars, stateVars, dups, client>>

Next ==
  \/ RecvForeign \/ RecvRequest \/ RecvData \/ RecvAck
  \/ Period \/ tftp_tmr \/ tcp_timer_needed \/ tcpip_tcp_timer
  \/ \E c \in Clients : ClientRequests(c) \/ ClientRepeats(c)
  \/ ClientGets \/ Lose

Spec == Init /\ [][Next]_vars

(* The tcpip thread runs the timeouts that are due.                        *)
FairSpec == Spec /\ WF_vars(Period) /\ WF_vars(tftp_tmr)
-----------------------------------------------------------------------------
(* PLbuf holds a block of the memory pool exactly while a file is open:    *)
(* whatever ends a transfer, the pool gets its block back once.            *)
BufferWithHandle == plBuf = IF handle # "none" THEN 1 ELSE 0

(* What a client has taken of a file is its beginning, and a client that   *)
(* is done has all of it: send_data has to read on exactly once per        *)
(* acknowledged block, however often datagrams are lost or repeated.       *)
(* Claimed while there is memory: see send_data.                           *)
DownloadIsPrefix ==
  ~starved => \A c \in Clients : client[c].op = "RRQ" =>
    /\ client[c].data = SubSeq(Content, 1, client[c].n)
    /\ client[c].st = "done" => client[c].n = Last

(* What is in an uploaded file is the beginning of what the client sends:  *)
(* no block is left out, written twice or cut.                             *)
UploadIsPrefix ==
  \A c \in Clients : disk[c] = SubSeq(Upload(c), 1, Len(disk[c]))

(* The block that is out, its number and the place in the file stay in     *)
(* step on both ways, over a network that loses, repeats and reorders.     *)
TransfersArePrefixes == DownloadIsPrefix /\ UploadIsPrefix

(* An upload the server ends with an acknowledgement is whole.             *)
AcknowledgedIsWhole ==
  [][ \A c \in Clients :
        (port = c /\ handle = "write" /\ handle' = "none"
           /\ \E m \in net' \ net : m.op = "ACK" /\ m.peer = c)
          => disk'[c] = Upload(c) ]_vars

(* The server sends again, or gives a silent client up, no sooner than     *)
(* TFTP_TIMEOUT_MSECS after the last datagram of the transfer, whatever    *)
(* timers earlier requests have left behind.                               *)
NotEarly ==
  [][ (tftp_tmr /\ handle # "none" /\ (retries' # retries \/ handle' = "none"))
        => waited >= Timeout ]_vars

(* Every transfer that began with a timeout pending ends, so that the next *)
(* client gets its turn, even if the client vanishes: once it is set, the  *)
(* timer is lost neither to TCP, which wants a timeout of the same pool,   *)
(* nor to what earlier requests have left behind.  A request that comes    *)
(* while TCP has the last timeout (lwipopts.h:148) starts a transfer that  *)
(* a vanished client keeps for ever.                                       *)
TransferEnds == handle # "none" ~> handle = "none" \/ untimed
=============================================================================
