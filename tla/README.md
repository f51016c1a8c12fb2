# PortentaH7 VFR firmware: TLA+ models, model checks and proofs

This directory models the concurrent core of the firmware in `src/CM7`: what its
tasks, interrupts and network callbacks do to the state they share. Each module
is translated from the C source; `PROJECT.json` names, definition by definition,
the lines it stands for. Paths below are relative to `src/CM7/Core/Src` unless
they start with `src/`.

Run `tlc -config <run>.cfg <module>.tla` for a model check and
`tlapm <module>Proofs.tla` for the proofs.

## 1. The system

The M7 core runs FreeRTOS. The tasks, from the lowest priority up, are the idle
task, `UART` (the command shell on the serial line), `Start`, `DHCP`, `GPIOINT`,
`TOF`, HTTP and `tcpip` (LwIP), the Ethernet link thread and the Ethernet input
thread. Interrupts come from the SPI DMA, USB, Ethernet, GPIO, SAI and the SD
card. Command lines run in three tasks, the shell's, the HTTP server's and the
GPIO interrupt's, and all call the same handlers with the same globals.

| Component | State | Operations | Interacts with | Hard about it | Correct if | Module |
|---|---|---|---|---|---|---|
| Segment pool `MEM_Pool.c` | `gMemPoolMgt`, `lookAheadIdx`, `inUse`, watermark | Init, Alloc, Free, Available | every command that needs DMA memory, `TFTP.c`, picoc | first fit that rotates, no lock | blocks disjoint, table and counters exact | `BlockPool`, `MemPool`, `PoolRace` |
| Handlers on the pool `cmd_dec.c`, `QSPI.c`, `SDCard.c` | pool pointers on the stack and in globals | lines, scripts, SD and QSPI commands | pool, two shells | nine early returns, nesting without limit | all blocks come back, every line ends | `PoolClients` |
| Script reader of Pico-C `picoc/src/platform_unix.c` | two pool pointers | read, scan | pool | buffer used after its release | nobody else gets the script's memory | `PicocScript` |
| SPI clock `SPI.c`, `system_clock.c` | `DIVN2`, divider, prescaler, saved bitrate | SetConfig, start-up, reset | SPI transfers, backup registers | table with borders, state that outlives a reset | clock as requested, the same after a reset | `SpiClock` |
| SPI transfers `SPI.c` | two semaphores, DMA state, NSS pin | transmit/receive, interrupt, SetConfig | both shells, binary HTTP requests | two DMA parts, shared completion token | exclusive, whole, selected, given back | `SpiBus` |
| TFTP `TFTP.c`, LwIP `tftp_server.c` | one transfer, `PLbuf`, file | RRQ, WRQ, DATA, ACK, timer | pool, SD card, timeouts | loss, repetition, second client | files arrive whole, transfers end | `Tftp` |
| Timeouts of LwIP `timeouts.c` | a pool of 5 | set, remove, expire | TFTP, TCP | one too few for TFTP and TCP together | a timer that is set is not lost | `Tftp` |
| Link and DHCP `ethernetif.c`, `app_ethernet.c`, `dhcp.c` | PHY, MAC mode, netif flags, `DHCP_state`, address | link thread, callback, DHCP thread | `Netif_Config`, LwIP | three parties write the state, polling; tries that start again | interface follows the cable, address in the end, no client beside the static address | `Link` |
| Ethernet frames `ethernetif.c` | RX descriptors, pbuf pool of 10, semaphore | interrupt, input thread, pbuf callback | LwIP | descriptor returned before the frame is processed (l. 443), pbufs that only refer to a buffer | no wake-up lost, pbufs accounted for, buffers and order last a lap | `EthRx` |
| Serial line `VCP_UART.c`, `usbd_cdc_if.c` | packet buffer shared with USB, line, history | receive, edit | shell, USB interrupt | packets race the reader; ends of the buffers | the editor a person knows | `SerialInput`, `UartLine` |
| Command decoder `cmd_dec.c:624-800` | token pointers | split a line, run its commands | shells | six states, separators, comment, blanks | a line means what its grammar says | `CommandLine`, `UartLine` |
| HTTP server `httpserver_netconn.c` | input and output buffer | gather packets, run lines or binary requests, answer | shells, SPI, LwIP | requests split over packets; answers by reference; one buffer for all; transfers of no bytes | whole requests, everyone's own answer | `HttpServer` |
| GPIO interrupt `stm32h7xx_it.c:186-192`, `main.c:598-620`, `cmd_dec.c:2525-2571` | semaphore, interrupt enable, the text to run | interrupt, task, cint, aint | shells, Pico-C | enable and disable in three places, the first before the semaphore exists; text rewritten while it runs | not left disabled, edges served, the text runs whole | `GpioInterrupt` |
| Error word `syserr.c` | `GSysErr` | set, clear | everything | read-modify-write from tasks and interrupts | no bit lost | bits of the pool in `MemPool` |
| Configuration `debug_sys.c` | `GSysCfg`, backup registers | init, default, setcfg | SPI, boot | survives resets; index compared with `>` (l. 88, 108) | saved = used | bitrate in `SpiClock` |
| ToF task, VBAN audio | task handle, double buffer | start, stop, DMA callbacks | shell, UDP | start and stop against the running task | one task, no buffer twice | not modelled |
| I2C and power IC | mutex | register access | shell, ToF | error paths | mutex given back | not modelled |
| Boot `main.c` | task list | create tasks | all | one interrupt is on before its semaphore is made (l. 181, 235) | no use before creation; not so for that one | `GpioInterrupt`, order only |
| QSPI flash, SD block I/O, SDRAM, ADC, PWM, chip commands | registers | register I/O | hardware | none that a model shows | - | not modelled |
| Pico-C interpreter | its heap | interpret | shell | third-party | - | not modelled |
| CM4 image, host tools, HAL, FreeRTOS, FatFs, LwIP, USB stack | - | - | - | vendored or trivial | - | only where the firmware's state depends on them |

## 2. The modules

`BlockPool` <- `MemPool` <- `PoolClients` <- `PicocScript`; `MemPool` <- `PoolRace`;
`SpiClock` <- `SpiBus`; `CommandLine` <- `LineEditor` <- `UartLine` -> `SerialInput`;
`Tftp`, `Link`, `EthRx`, `HttpServer`, `GpioInterrupt` stand alone. (`A <- B`: B
refines or extends A.) The modules `MC...` give constants their values for TLC,
the modules `...Proofs` hold theorems.

Definitions named `X_xSomething` are faulty variants of `X`, each a plausible
slip in the code. No behaviour of a specification uses one; putting one in the
place of `X` breaks the property it was written for, which shows that the
property depends on the code.

**BlockPool** is what a caller of the pool may rely on: a set of disjoint blocks
of segments; an allocation returns a block nobody has or nothing, a release
takes away exactly the one block that starts there. It names no table and no
search order.

**MemPool** has the table (`alloc`), the rotating index, the counters and the
error bits of `MEM_Pool.c`, and one action per function: `MEM_PoolAlloc` with
both passes of the search, `MEM_PoolFree` with the walk over the `SUBSEQ`
segments, `SYS_ClrError`. `held`, `asked` and `ret` are not in the code: the blocks
the callers own, and the last request and its result. Sizes are rounded up modulo `WordMod`, as
unsigned arithmetic does it. A pointer is the index of a segment.

**PoolRace** is the same code with every access to a table entry a step of its
own, for several tasks, since the code has no lock. With one task each completed
call is a step of `MemPool` (`LoopsImplementMemPool`), which justifies the large
steps there; with two, it is not.

**PoolClients** adds the handlers that use the pool. Each task has a stack of
handlers: `CMD_DEC_execute` takes a segment, runs commands that take more, and
`sdexec` and `usr` execute lines again. A step is one call of the pool, so that
handlers of two tasks interleave between calls; within a call they do not (that
is PoolRace's subject). `Lines` says which commands a task's lines hold.

**PicocScript** adds `PlatformReadFile` and `PlatformScanFile`.

**SpiClock** has `SPI_SetConfig` with the clamping, the table of dividers, the
9 bit multiplier field, the prescaler that is re-initialised only when the
divider changed, the saved bitrate, start-up and reset.

**SpiBus** has `SPI_TransmitReceive` as the steps between which a task can
block: fill, take the bus, start the first DMA, wait and start the second, wait,
release; the completion interrupt; `SPI_SetConfig` with the same semaphore; the
early chip select of queued binary requests; resets at any time. The HAL accepts
a transfer only if it is idle and the length is not 0.

**Tftp** runs in the tcpip thread, so a datagram or an expired timeout is one
step. It has `recv` split by operation, `tftp_tmr`, `send_data`, `close_handle`
(which runs twice when the last block cannot be written, tftp_server.c:303 and
309), the file functions of `TFTP.c`, the pool of timeouts with the timer of TCP
as the other one who wants one (`tcp_timer_needed`, `tcpip_tcp_timer`), a network
that loses, repeats and reorders, and clients after RFC 1350. Blocks are numbers.
A period of `tftp_tmr` is divided so that each pending timer expires once in it.
`untimed` observes that a transfer began without a timeout.

**Link** starts as `Netif_Config` leaves the interface, with the static address.
It has the PHY and cable, the link thread (one step per poll, as it has the
higher priority), `DHCP_Thread` line by line where the link thread or LwIP can
come in between, and the DHCP client of LwIP with its states: `dhcp_start`,
`dhcp_stop`, the request timeouts, offers, acknowledgements, refusals, the ARP
check and expiry. `Ask` is `dhcp_set_state` with the count that follows it: each
new state counts its tries from one. A thread whose `dhcp_start` was refused
reads its tries through NULL; `TriesRead` is then any number.

**EthRx** has the ring of descriptors with the DMA's place in it and the
thread's (`CurRxDesc`), the interrupt in its two halves (`HAL_ETH_IRQHandler`
calls back first and clears the request afterwards), the binary semaphore, the
loop of `ethernetif_input` with `low_level_input` and `netif->input`, the
mailbox of the tcpip thread and the pbufs TCP keeps for an application. A frame
is its number. A pbuf refers to the buffer of its descriptor (`PBUF_REF`), so
`tcpip_thread` reads what the buffer holds by then. The thread is not preempted inside the interrupt, and the
handling of one descriptor is one step of it, which nobody else touches; the DMA
comes in between any two.

**SerialInput** is the packet buffer of `usbd_cdc_if.c`, with its 16 bit
difference of size and index. **UartLine** extends it with `UART_getString` (one
action per branch: rest of an escape sequence, control character, character),
the decoder's six states (`Decoded`) and the loops of `CMD_DEC_execute` and
`StartUARTTask`. **CommandLine** is the grammar of a line written without a
scanner (words between blanks, commands between separators, a comment), and
**LineEditor** the terminal as a person knows it: keys, a line, a history of one,
commands that run one by one. The grammar says what the decoder does with blanks,
which is not always what one would write: an option with only blanks behind it
takes the rest of the line for its argument (see 4). `ImplementsLineEditor` is the refinement.
`KeyBytes` and `Press` are the terminal: keys come while the shell has looked at
every byte, or while it runs a command, when the later one replaces the earlier.

**HttpServer** has the thread of `httpserver_netconn.c` with both buffers, which
keep their old bytes, and the clients: `Python/CMD_TCP.py`, which takes one `recv`
of a command's output, or as many bytes as it has sent, and closes, as "leave the
connection open - IT DOES NOT WORK" (CMD_TCP.py:109); browsers, which read until
the server closes; and a client for the codes the script has no method for, which
reads by the header. Each has one request. Every byte says whose request it
belongs to and where in it. A request comes in packets of any size;
`http_server_serve` gathers it; `http_server_sendResponse` writes an answer in
chunks (`Write`), and an answer is written as references into the buffers, since
the code passes `NETCONN_NOCOPY`: its bytes are read in `Deliver`, when LwIP sends
or repeats them. `netconn_write` waits for room in the send buffer. The requests
of the binary mode are in four classes: commands (answer gathered in `httpdOut`),
requests answered in place (SPI, and unknown codes), accesses that change the
length of what is sent back, as far as the input buffer has room for it, and those
whose SPI transfer has no bytes (`SpiLength`), after which the thread is `hung`. A
request in text is a page, a command, the icon, or no GET.

**GpioInterrupt** starts when `main` has called `GPIO_INTConfig(0, 1)` (main.c:181)
and the semaphore does not exist yet (`osSemaphoreNew`, l. 235, after which the
tasks run). It has the handler line by line (an edge may come between any two), `GPIOINTTask`, `GPIO_INTConfig`, `cint` and `aint` of two shells, the
`strncpy` into `intCmdBuf` word by word (the task may run in the middle of it),
and the run of the text, command by command, which may itself configure the
interrupt. `asked`, `unserved`, `early`, `defined`, `steady` and `ran` only
observe.

## 3. The runs

Passing:

| Run | Bounds | Shows |
|---|---|---|
| `mem_pool` | 5 segments of 3 bytes, 5 bit words, requests around every rounding boundary, beyond the pool and wrapping | the table is exactly the owners' blocks and nothing leaks, counters exact, other blocks untouched, the abstract pool is implemented |
| `pool_race` | one task, the same table | loops and actions agree |
| `pool_clients` | 4 segments, two tasks, one command per line | blocks accounted for after every failure, pool recovers, every line ends |
| `spi_bus` | 2 tasks, DMA limit 3, lengths 1, 3, 4, 6, some 35 frequencies around all borders | exclusion, whole transfers, chip select, clock stable, exact to the next step, monotonic, restored by a restart; bus returned |
| `tftp` | two clients (3 datagrams and 1), files of one block and a half and of nothing, one repeated datagram, one retry | uploads and downloads are prefixes and whole when acknowledged, buffer returned, no early timeout, transfers that began with a timer end |
| `link` | two speeds, two leases, three cable events, 4 tries as in the code, tries counted to 6 | interface follows the cable, no DHCP client beside the static address, an address in the end |
| `uart_line` | five keys of ten kinds, buffers of 6 | buffers kept, the line editor is implemented, every key is taken |
| `http` | two clients with one of 16 requests each, input buffer 14, output 7, chunks of 4, segments and send buffer of 5 | buffers kept, requests whole, everyone gets the own answer, and gets it unless a transfer of no bytes has stopped the thread |
| `eth_rx` | 10 frames, ring of 4, 4 pbufs, mailbox of 2, 2 pbufs kept | pbufs accounted for, a buffer lasts a lap of the ring, order up to a lap, no frame left behind by a sleeping thread |
| `gpio_int` | 2 edges, 2 uses of aint by two shells, texts of 1, 3 and 5 words in a buffer of 5 | the text ends in its buffer, the interrupt is not left disabled and edges are served, but for one that comes before the semaphore, a whole text runs whole |

Why the bounds are enough. The pool's code compares neighbouring segments and
the two ends of the table only; five segments hold three blocks, a hole and both
wrap-arounds. Four segments let one script nest in a line and a second task
exhaust the pool in its middle. An SPI transfer has at most two parts, so 6 with
a limit of 3 is the largest that is moved whole; one shell and one network task
are the two kinds of caller. Frequencies matter only by their place in the
table, and every border is taken on both sides. A transfer of two blocks has a
first, a repeated and a last block; a second client can do nothing but be
refused or start next. `BlkMod` is the real 2^16. Three cable events unplug,
plug and unplug again, between any two steps of the DHCP thread. Five keys fill
a line buffer of six to its end by each of its ways out, and hold a command with
an option, a separator or a comment; an arrow after a short line brings it
back. In `http` the lengths lie on both sides of a chunk, of a packet, of the
send buffer, of the input buffer and of the output buffer; the second client
waits while the first is served, and its request is shorter or longer than what
the first has left in the buffer. The client of LwIP gives a request up after more
than 5 tries, so that 6 is the last count that matters. Ten frames lap a ring of
four twice. In the firmware the ring has 21 descriptors, the pool 10 pbufs and
the mailbox 6 places, so that a buffer is overwritten less easily there than in
the run; the theorems hold for every size. Two edges are one that is served and
one that comes anywhere in that service; texts of 1, 3 and 5 words are shorter
than the buffer, fill it as far as they may, and are cut.

Expected violations, each of a text in the repository:

| Run | Text | What the run shows |
|---|---|---|
| `pool_race_two` | MEM_Pool.c:80 "found free entry for requested segments" | two tasks in the allocator own the same segment |
| `picoc_script` | platform_unix.c:109, 113 "we allocate here memory - this works!" | the script is parsed after its buffer was given back (l. 135), another task gets it |

## 4. Seen while modelling

What follows was met while reading and translating. The modules have it where
their definitions reach that line; it has no run of its own.

- `SPI_TransmitReceive` ignores the HAL's result; for a length of 0 no
  completion comes and the bus is never given back (SPI.c:349, 364). The check
  of the caller is commented out (httpserver_netconn.c:222, "we assume all OK",
  l. 229). With 0 in `Lens` `BusReturned` fails. A
  binary request of code 2 without payload, a queue with a transaction of length
  0, or a register write of two payload bytes (l. 337, 433) has such a length: the
  HTTP thread and the bus are then gone until a reset (`hung` in `HttpServer`).
- Without hardware chip select nothing drives the pin low: SPI.c:346 is
  commented out, "we have placed this code into HAL driver!" (l. 344), and the
  HAL has no such code. `StartFirst` has it so.
- `MEMP_NUM_SYS_TIMEOUT` is 5 (src/CM7/Core/Inc/lwipopts.h:148); four cyclic
  timers are always pending, so that TFTP and TCP together find one timeout
  (timeouts.c:190). While TCP has connections it is TCP's: a TFTP transfer that
  begins then has no timer, and a client that vanishes keeps the only transfer
  for ever (`untimed`). While TFTP has it, `tcp_timer_needed` sets
  `tcpip_tcp_timer_active` all the same (timeouts.c:173), which "shows if the tcp
  timer is currently scheduled or not" (l. 135): no timer is ever set for TCP
  again (`tcpTimer = "lost"`). `Slots` in `tftp` is that one timeout.
- DHCP: the tries start again with every new state (dhcp.c:1421), so servers that
  offer and refuse in turn keep `DHCP_Thread` below `MAX_DHCP_TRIES`
  (app_ethernet.c:102) and without an address; `dhcp->tries` is read through NULL
  when the interface was down at `dhcp_start` and never had a client (l. 99-102).
- GPIO: main.c:181 enables the interrupt, main.c:235 makes its semaphore. An edge
  between the two is lost, as `osSemaphoreRelease` fails, and leaves the interrupt
  disabled until the next `cint` (`early`).
- `DHCP_Thread` ends itself in `DHCP_OFF` (app_ethernet.c:139); after a start
  without a cable nothing acts on the `DHCP_START` the callback sets ("Update
  DHCP state machine", l. 37). `Link` has the ended thread.
- Pool: the search goes on after the *first* segment of the last block
  (MEM_Pool.c:81, 113) where l. 59-60 promise to leave the last segments
  untouched.
- SPI: a transfer longer than twice `SPI_TOTAL_LEN` is cut by the cast in l. 354
  ("TODO: this should be a loop!", l. 350), and a binary request can be that
  long; `DIVN2` leaves the 96 to 418 of SPI.c:426 on both
  sides, for the lowest and the highest requests; `spiclk` also changes the QSPI,
  ADC, FMC and SDMMC clocks (system_clock.c:217-224, against l. 213); both
  shells fill the one `SPIbuf` before they have the bus (cmd_dec.c:1485).
- TFTP: `TFTP_read` returns -1 at the end of a file of whole blocks
  (TFTP.c:107), which the server answers with an error; a full card's partly
  written block counts as success (TFTP.c:126).
- Link: `linkchanged` is never cleared, so an old speed may be taken again
  (ethernetif.c:681); `dhcp_start` may be called with the interface down
  (app_ethernet.c:82).
- Serial line: "copy and paste in UART terminal [...] CRASHES!" (VCP_UART.c:46):
  a packet that arrives between two calls of `CDC_GetRx` while the earlier one is
  half read replaces it under the index. A TAB (l. 148) or an arrow (l. 110) near
  the end of the line writes behind `LineLen`. The line buffers keep a line of
  exactly the longest length with its carriage return, which the arrow then
  brings back.
- Command lines: blanks before a separator are an unknown command (`" ;a"`,
  against "ignore empty line, just spaces", cmd_dec.c:771); an option with blanks
  behind it takes the separator and the next command as its argument (`"a - ;b"`
  gives `a` the argument `;b`, cmd_dec.c:647-692), and `b` is run as well; the
  history loses comments; `aint a; b` stores `a; b` (cmd_dec.c:2554 copies the argument to the
  end of the line) and the same line goes on to run `b` at once.
- HTTP: the answers are written with `NETCONN_NOCOPY`, and LwIP may send or
  repeat them after the buffer has been overwritten for the next client
  (httpserver_netconn.c:105, 135, 144); the input buffer is read after
  `netbuf_delete` in l. 550; only the first pbuf of a packet is looked at
  (l. 512); a header split over packets is read from what the buffer held before
  (l. 540); a peer that vanishes without closing keeps the thread; requests of
  the last three lengths that fit the buffer are answered cut (l. 160).
- Ethernet: a pbuf only refers to the receive buffer, whose descriptor has been
  given back (ethernetif.c:443-457), against "It should be called after processing
  the received Packet." (stm32h7xx_hal_eth.c:1404): after a lap of the
  ring LwIP reads a later frame in the place of an earlier one, and reads it again
  in its own place (`late` in `EthRx`).
- Ethernet: with the pool of pbufs empty `low_level_input` returns NULL and the
  loop ends with frames still in the ring, until the next interrupt (l. 490);
  `low_level_output` does not look at what `HAL_ETH_Transmit` returns (l. 379-415).
- GPIO: `cint x 0` while a service runs is undone by main.c:616; an edge latched
  while the interrupt is disabled is served when it is enabled next; the
  handler of Pico-C runs the parser in the interrupt's task on the globals the
  interrupted script uses (picoc.c:102).
- I2C: `I2CUser_ClockSelect` re-initialises the peripheral without the semaphore
  (I2C3_user.c:107-112). ToF: a second `tofc` ends in `while (1)`
  (app_tof.c:171), `tofp` before `tofc` uses a driver that is not set up. Audio:
  `SendUDP` calls the LwIP API from the interrupt (audio.c:1152), and each
  `SetUDPDest` makes a new connection without deleting the old one (l. 1148).

## 5. Fairness

- `pool_clients`: weak fairness of each task's step while it is in a line. The
  shells never wait for each other inside a handler, and FreeRTOS lets a ready
  task run when higher ones block, as all of these do for input.
- `spi_bus`: weak fairness of each task's step, and of the completion of a
  transfer the HAL accepted. No fairness for new calls or resets. A task waiting
  for the bus needs none stronger, since the property is about the holder.
- `tftp`: weak fairness of TFTP's timers (the tcpip thread runs
  `sys_check_timeouts` whatever arrives); none for clients, the network or TCP
  connections.
- `link`: weak fairness of both threads' polls, of the negotiation and of the
  DHCP client's request timeout; none for a DHCP server or the cable.
  `AddressInTheEnd` is conditional: only finitely often may a server, or the expiry
  of a lease, make the client start over.
- `uart_line`: weak fairness of the shell's step: `UART_getChar` polls without
  end (VCP_UART.c:30-48). None for the person.
- `http`: weak fairness of the thread and, per client, of the network, and of
  the client that closes its connection when it has its answer, gets none, or has
  nothing to ask; a client that kept its connection open for ever would keep
  everyone else out, as the code serves one connection at a time. None for
  requests.
- `eth_rx`: weak fairness of the interrupt, the input thread and the tcpip
  thread (interrupts are taken, the input thread has the highest priority and
  waits in between). None for frames or applications.
- `gpio_int`: weak fairness of the interrupt handler and of its task; none for
  edges, shells or scripts.

`CHECK_DEADLOCK FALSE` stands where the bounded environment may come to rest:
clients that have sent all they may and a transfer that is over (`tftp`, `http`),
a cable that is no longer touched after `DHCP_Thread` has ended (`link`), a
person who has pressed all keys (`uart_line`), no more frames or edges
(`eth_rx`, `gpio_int`).

## 6. The proofs

Every safety property of `mem_pool`, `pool_race`, `pool_clients`, `spi_bus`,
`tftp`, `http`, `eth_rx`, `gpio_int` and `link`, and the invariant of
`uart_line`, is a theorem, for every value of the constants that meets the
assumptions named in the module. They are weak: positive sizes, frequencies that
are integers, requests that are words, texts without a NUL in them, buffers that
take the header of a request or the four blanks of a TAB. Where a theorem needs
more, it says so as a hypothesis, named below.

- **MemPoolProofs.** `TableCorrect` and `DisjointBlocks` come from `TableInv`,
  the conjunction of `TypeOK`, `TableIsHeld` (each owner's block is a `USED`
  segment with `SUBSEQ` ones behind it, nothing more) and `NoLeak` (every entry
  that is not free lies in an owner's block). Disjointness alone is not
  inductive: a release walks `SUBSEQ` marks, so it stays within one block only
  because the table encodes exactly the blocks (`FollowersOfBlock`).
  `OwnersUndisturbed` is the action property from the same invariant.
  `CountersCorrect`: `CountInv` adds `InUseExact` and `WatermarkBounds`;
  `SegmentsBelowWord` shows the counter never wraps, `IntervalCount` and
  `NotFreeFinite` relate its steps to cardinalities. `PoolImplementsBlockPool`
  is the refinement: `GrantStep`, `RefuseStep` and `ReleaseStep` map each action
  to one of `BlockPool` or a stutter. `LoopsAreMemPool` joins the two
  descriptions of the allocator: `LoopInv` says what each place of the loops has
  established (no start before the current one has a long enough run, `Running`
  entries from it are free, those already passed are marked or freed), so that
  the last access of a call is a step of `MemPool` and every other one a
  stutter. Its hypothesis `Alone`, one caller, is the point: with two it is
  false, as `pool_race_two` shows.
- **PoolClientsProofs.** `NoBlockLost` and `WholePoolBetweenLines` come from
  `ClientInv`: `TableInv`, so that a release takes exactly the one block that
  starts there; `Accounted`, which is `BlocksAccounted` place by place (`Slot`),
  since a release moves the other pointers of its handler up; and `QspiInv`,
  which says that a handler with another one above it is a line, `usr` or
  `sdexec`, so that the two globals of QSPI.c hold the pointers of one handler.
  They assume `ClientsAsModelled`: one task at most runs `qspi`. With two tasks
  `ReplaceQspi` fails, and so does the code. The stacks may be of any depth.
- **SpiBusProofs.** `ClockInv` says that the prescaler is
  the remembered divider, and that after start-up divider and multiplier are
  those of the saved bitrate; `ClockIsTheRequested` and `RestartKeepsClock`
  follow with the arithmetic of each divider's range. `ClockIsMonotone` needs
  that the highest clock of a divider is not above the lowest of the next
  (`ClockBounds`). `BusIsExclusive` needs more than exclusion: `BusInv` ties the
  mutex to the places of the tasks, the DMA to the one that waits for it, and
  the completion token to a waiter, so that no token is left for the next
  caller. `ClockIsStable` and `DeviceStaysSelected` (with `NssInv`) build on it.
  `TransfersAreWhole` counts bytes (`CountInv`) and assumes `ShortEnough`: no
  length above twice the limit, beyond which the code does cut.
- **EthernetProofs.** For `EthRx`, `RingInv` gives the ring its order: `Lag` is
  how many frames were stored since the one in a buffer, the descriptors that
  wait for the thread are those from `CurRxDesc` to the DMA's. `BufferLastsALap`
  and `FramesInOrder` follow with `PointingInv` and `OrderInv` (what is in the
  mailbox ascends and is older than what is in the ring); order is claimed of a
  frame that has not been overwritten before it is read. `NoPbufLost` is inductive
  with the types. For `Link`, `StaticAddressIsSafe` needs to know that the
  interface does not have the static address where `DHCP_Thread` starts a client.
  `NoLeaseReplacesStatic` follows from it, as only a client that is on takes a
  lease.
- **GpioProofs.** `TextEndsInBuffer` is `TypeOK`, whose clause on the last place
  is why `strncpy` is bounded by one less. `InterruptComesBack` is inductive
  with it, with the exception of an edge before the semaphore (`early`).
  `ServiceRunsTheText` needs three more: `CopyInv` (what an undisturbed
  copy has written so far), `BufferInv` (a text that is whole stands in the
  buffer with an end behind it) and `ReaderInv` (what has been run is the buffer
  up to the offset, with no end in between).
- **TftpProofs.** `BufferFollowsHandle` is inductive by itself, through all the
  ways a transfer ends. `NothingTooEarly` assumes `Slots = 1`, the one timeout
  the firmware's configuration leaves; with one, `TimeInv` shows that a transfer
  never ages faster than the periods that begin. With more it is false in
  general, since tftp_server.c:238 starts a timer for a request that then fails.
  `TransfersInStep` and `AcknowledgedUploadsAreWhole` come from `TransferInv`,
  which ties four parties together: every datagram of data on the way carries
  the number of its own block, however often it was repeated (`Datagrams`); the
  block that is out, its number and the place in the file agree (`Server`); a
  file on the card is the beginning of its upload, and the open one is where the
  block number says (`Uploads`); a client has the blocks it has counted
  (`Downloads`). None of them is inductive without the other three: what a
  client appends is right because of the datagram, which is because of the
  server, which moves on because of an acknowledgement a client has sent. They
  assume `Short` (a file has fewer than 65535 blocks, so that its 16 bit numbers
  do not repeat) and a card that does not fill up; both are false otherwise,
  and the second is the case TFTP.c:126 reports as success. Downloads are
  claimed while there was memory (`starved`).
- **HttpServerProofs.** `HttpInv` has for the server and each of its clients:
  the sizes of the buffers (`Buffers`, `ServerOK`); who is connected, in the
  backlog or served, and nobody twice (`Connections`); that what the server has
  gathered and what the client has yet to deliver make up the client's request
  (`Incoming`, `Gathered`); and that what the client has, what is in the send
  buffer and what is yet to be written make up its answer (`Outgoing`), where a
  byte that is only referred to is looked up in the buffer as it is *now*. So
  each step that fills a buffer has to show that nobody whose connection is open
  refers to it: of a client that is not served nothing is on its way, and one that
  is served has nothing on its way before its request is whole. Connections the
  server has closed are left out, as nothing protects what they still refer to.
  `AnswersAreOwn`, `WholeRequestsAreServed` and `HttpTypes` follow,
  for any number of clients, any requests, packets and sizes of the buffers,
  chunks and segments, without a hypothesis beyond the module's assumptions.
- **UartLineProofs.** `LineBuffersKept` says that no line is longer than its
  buffer, for keys as `Press` has them (no TAB where its blanks do not fit).
  `LineInv` adds what that rests on: a packet holds one byte, or the three of an
  escape sequence, and index and `ignoreNext` agree on how many are to come
  (`Packet`); a TAB that waits still finds its four blanks; the line is empty
  while a command runs; and the offset is never behind the line that
  `CMD_DEC_execute` shortens. A command ends within the text or right behind it
  (`EndIsStop`, from the least element of a set of numbers, `LeastOf`).

Only model-checked: liveness (TLAPS here has no rule for fairness), and
`ImplementsLineEditor` of `uart_line`, which is about what folds and sorted
sequences compute from a line, an induction over data.

## 7. Not modelled

Bytes, formatting, addresses and registers are abstracted wherever no property
tells them apart. Within the modules:

- `PoolClients` treats the work between two pool calls as one step, keeps `qspi`
  to one task in its run (two would free one pair of globals twice,
  QSPI.c:2182), and bounds a line to one command.
- `SpiBus` keeps `hwnss` fixed from power-on: `setcfg` in the middle of a
  transfer is not there.
- In `Tftp` a full card is left out of the passing run, and downloads are
  claimed to be prefixes while there was memory for each block: a block
  `send_data` has no memory for is skipped by a late acknowledgement of an
  earlier transfer.
- `Link` has the renewal of a lease within the state BOUND. When a lease changes
  after `DHCP_Thread` has ended, `gIPAddr` keeps the old one (app_ethernet.c:92):
  `AddressInTheEnd` is about the thread's own end.
- `UartLine` lets no packet arrive in the middle of another and presses no TAB
  near the end of a line, the two cases the code's own comments exclude
  (VCP_UART.c:46, 85); values of arguments are not parsed.
- `HttpServer` assumes that a header, and a whole request in text, is in one
  packet, that a connection has one request, and chip number 1
  (`SYSCFG_Default`). A client may leave or break off, not vanish.
  `OwnAnswer` does not claim what a browser receives after its connection was
  closed by the server, when the buffer may belong to the next client.
- `EthRx` has reception only. A frame takes one buffer (`RxBuffLen` is larger
  than a frame).
- `GpioInterrupt` excludes an `aint` inside the text of `aint` itself, whose
  `strncpy` would copy a buffer onto itself.

Left out as a whole: the ToF task and the audio path, where what happens is
decided inside a vendor's driver or is undefined in LwIP; I2C and the power IC,
one semaphore around single blocking calls; QSPI flash, SD blocks, SDRAM, ADC,
PWM and the chip commands, which are register and block I/O without a protocol
between actors; the error word's read-modify-write, a hazard that needs no model
to be seen; the interpreter of Pico-C, a third-party program; `setcfg`; the
second core, which idles; the USB device mode; and the vendored HAL, FreeRTOS,
FatFs and LwIP, of which the modules have what the firmware's state depends on.
These vendored trees are by far the most of the repository's lines.
