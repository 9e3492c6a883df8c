# A verification project for mmbtools-aux

mmbtools-aux is a collection of small programs around DAB multiplex tools:
servers and transports for ETI streams, a log collector, protocol debuggers and
test tools. They share no code base, so this project has one model per program,
chosen by how much can go wrong between its threads, packets and signals.

`src/` below is the repository. Every definition that stands for code is listed
with its lines under `map` in `PROJECT.json`.

## Inventory

| component | state | operations | how it meets the others | what is hard |
|---|---|---|---|---|
| ETI over UDP, receiver (`eti-udp/eti-udp-receiver.py`, same loop in `etifec.py`) | blocks per group, decoded groups, ignored groups, start delay, next group, output | one packet: drop, file, decode, order, give up | UDP packets from the sender; the output is read by a multiplexer | loss, duplication, reordering, stale groups, the start of the output |
| ETI over UDP, sender (`eti-udp-sender.py`, `etifec.py`) | sequence number, file position | read four frames, encode, send | UDP | end of file, restart |
| ETI file reader (`etireader.py`) | kind of file, position | discover, next frame | the UDP sender iterates over it | three framings, files that end anywhere |
| ETI over TCP (`eti_tcp.py`) | list of connections, lock, queues, running flags | accept, read stdin, enqueue, send, drop, remove, shut down | threads sharing list, lock and queues; TCP clients | unlocked access, full queues, slow and leaving clients, Control-C anywhere |
| Syslog to munin (`syslog_munin/syslog_munin.py`) | bounded queue, two counters | datagram, put, drain, answer, shut down | syslog clients, munin-node | puts while draining, failing answers, Control-C anywhere, blocked threads at exit |
| ZeroMQ dropper (`zmqtest/zmq-dropper`) | drop counter, receive buffer | receive, drop or forward, signal handler | ZeroMQ sockets, SIGUSR1 | the handler between any two instructions, stale buffer contents |
| ZeroMQ subscriber (`zmqtest/zmq-sub`) | timestamp under assembly | receive frame, decode time | ZeroMQ | time spread over frames, lost frames |
| UECP parser (`uecpparse`) | frame under assembly | byte, frame, datagram | UDP or a file | byte stuffing, truncated frames |
| EDI debugger (`edi/edidebug.py`) | read buffer, fragments per sequence number, ETI frame under assembly | bytes, PFT fragment, AF packet, TAG item, ETI(NI) frame | a file or stdin; `crc.py`, `reedsolo.py` | fragments lost, duplicated, interleaved; a file that ends anywhere; chunks and parity; one length written in several places |
| CRC and Reed-Solomon (`crc.py`, `reedsolo.py`) | tables | CRC of pieces, encode, correct | called by the EDI and UECP tools | one wrong table entry, errors at the limit of the code |
| EDI sender and DAB+ to ZeroMQ (`edi/edisend.py`, `send_dabp_to_zmq.py`) | read buffer, deadlines | read, check, wait, send | clock, sockets | pacing, being late, peeking ahead |
| TII tools (`tii/`) | pattern tables | carriers of a transmitter, align to NULL, identify | files of samples | index arithmetic, fading, overlaid transmitters |
| etisnoop statistics server (`etisnoop-stat-server/server.py`) | latest statistics, lock | capture, load, serve | child process, clients, bottle | stale or missing results, the lock, Control-C |
| bottle (`etisnoop-stat-server/bottle.py`, vendored) | routes, files | add route, match, serve file | called by server.py | order of rules, files that change while they are served |
| DAB+ decoder (`dabp-decode`) | WAV header | frame in, samples out | FDK AAC library | |
| `icy-info.py` | DLS file | rewrite | the encoder reads the file | |
| `fipcover.py`, `histogram.py`, `mpeg_analyse.py`, `zmq-tx-data.py`, installer, ini and mux files | none worth a model | | | |

What makes each modelled component correct:

* UDP transport: groups leave the receiver in order, once, intact; nothing the
  network does makes it fail inside; it does not skip a group it need not skip.
* File reader: the frames of the file, in order, whole, whatever its kind.
* TCP server: a client gets an uncut stream or none; nobody who is served is
  forgotten; who cannot be served is dropped; until Control-C its sender goes on.
* Syslog to munin: an entry is counted exactly once, unless Control-C interrupts the handler that has just taken it; an answer
  is up to date; nobody waits for ever.
* Dropper: order; one drop per signal; what is forwarded is what came.
* Subscriber: the time shown is that of the frame.
* Paced senders: nothing leaves early, delays do not add up, and what is sent is the file.
* UECP parser: the frames decoded are the frames sent, however they are cut.
* EDI converter: what is written is a frame of the stream, whole, once, and none
  that has come completely is kept back; a reader of ETI finds in it what the TAG items said.
* CRC and Reed-Solomon: the remainder of the division by the polynomial; what the code
  can correct is corrected, and the rest is refused or unknown, never silently wrong within the distance.
* TII: who is on air is found and nobody else.
* Statistics server: no page older than what was loaded, no request waits for a capture.
* Router, static files: the first rule that matches; what a client ends up with is the file.

## Modules

| module | models | state and actions |
|---|---|---|
| `EtiReceiver` | `recieve_eti` and the decoder | The variables have the names of the code's. A dictionary is a function on `SeqNrs`; `<< >>` and `"absent"` stand for a missing key. The body of the `while` loop is one action, `Receive` or `Ignore`: the process has one thread and nobody sees the state in between. The `ipdb` trap stops it in the middle, so the rest of the give-up branch is `Resume`. An uncaught exception is a value of `status`. |
| `EtiStream` | what a reader of the output may rely on | `Send` and `Write` a run of consecutive, later groups |
| `EtiUdp` | sender, network, receiver | `SendGroup`, `EndOfFile`; packets in flight are a set of (group, block) pairs, `Deliver`, `DeliverCopy` and `Lose` move them, within named bounds |
| `EtiTcp`, `MCEtiTcp` | `eti_tcp.py` | One program counter for the main thread, one for DataSender, one per handler; an action is the code between two accesses to shared state. The clients `Stall`, `ReadOn` and `Leave`. |
| `SyslogMunin` | `syslog_munin.py` | One pc per datagram's thread and one for the main thread, which starts the servers, serves and shuts down. The drain loop takes an entry (`GetEntry`) and counts it (`CountEntry`) in two steps; `Interrupt` may come between any two steps of the main thread, and does what the handlers around that place do. |
| `ZmqDropper` | `zmq-dropper.c` | One pc for the main loop, `signalHandler` enabled between any two steps; the buffer remembers which message wrote each cell |
| `ZmqSub` | the time decoder of `zmq-sub.cpp` | The static variables have their names. One action, `Frame`: the multiplexer (external) makes the next frame, ZeroMQ keeps or loses its message, and `GetTist` is all that `get_tist_ms` does with it. |
| `Pacing` | `send_dabp_to_zmq.py`, `edi/edisend.py`: when they send | `Tick` is the clock. `DabpSend` is the loop from one end of the sleep to the next sleep; `EdiRead` goes up to the sleep and `EdiSend` is what follows it, as the time is read before and used after. Two programs that share only the clock, in one module. |
| `UecpFrame`, `MCUecpFrame` | `uecp_parse.py` | One action per datagram, in which `ParseBytes` is the loop of `parse_anc_bytes`, a recursive function whose n-th value is the parser after n bytes; the decoder object `uecp` is a record with its fields. `decoded` has an entry per call of `decode_frame`, which the code makes twice per frame. The byte-stuffing encoder is external. |
| `EdiDebug` | `edidebug.py`: packets, fragments, main loop | One action per packet read: `decode`, then what the main loop does. `defragmenters` maps a Pseq to a function from fragment index to the frame the fragment came from. `ReadCut` is the packet in which the file ends. |
| `StatServer` | `server.py` and the end of bottle's `run` | One pc for the collector, one for the main thread; `Interrupt` may come at any step of the main thread, and ends what that step's handlers let it end. `CaptureEnds` writes statistics or fails. |
| `Algorithms` | composes the next nine | |
| `Router` | bottle's router | `AddStatic`, `AddDynamic`; `match` is an operator, compared with "the first rule" |
| `StaticFile` | bottle's `static_file` | a request is served in steps `Exists`, `Stat`, `Open`, `Send` while the file is edited or removed; what is open is read as it was when removed |
| `ReedSolomon` | `reedsolo.py` | the field's tables are functions; every function of the file has its operator; `RsEncode`, then the channel corrupts and erases |
| `Crc` | `crc.py` (both) | a message's bytes arrive one at a time, in pieces; a word is the set of its bits that are one |
| `Tii` | `tii.py`, `analyse_tii_from_file.py` | transmitters go on air, carriers fade; a file of samples is chosen |
| `EdiRs` | `get_rs_decoder` | sizes of packet, chunk, parity and fragments are chosen; the result is compared with the packet |
| `EdiSend` | what `edisend.py` reads and sends | the file is a sequence of packets, each with the place it begins at, the last cut at any byte; one step per packet |
| `EtiNi` | `EtiData`, `decode_deti`, `decode_estn` | TAG items arrive, `EndOfPacket` writes the frame, which is read back as ETI |
| `EtiReader` | `etireader.py` | the file is written frame by frame and cut (`Create`, `Write`, `Close`), then one step per frame read |
| `EtiUdpProofs`, `EtiTcpProofs`, `QueueProofs`, `SignalProofs`, `EdiDebugProofs`, `PacingProofs`, `StatServerProofs`, `FormatProofs` | theorems | |

`EtiUdp` EXTENDS `EtiReceiver` (one system, shared variables), and
instantiates `EtiStream` with the refinement mapping `sent <- Sent`,
`stream <- WrittenGroups`. The receiver alone has no run: its theorems are about
any packets, from any number of senders and restarts.

`Algorithms` EXTENDS nine modules that have nothing to do with each other. Each runs
in one thread from an input to a result; a behaviour picks one of them (`unit`) and stays
with it, so their state spaces add up and do not multiply. The other systems do not interact and are not composed.

Definitions marked "Mutant:" are the faulty variants, listed under `mutants`, that
show each property can fail; they are used nowhere else.

### Abstractions

* ETI contents: a decoded group is `"intact"` or `"garbled"`; zfec returns the
  former from distinct blocks, and garbles or raises with duplicates.
* The sender's four-frame groups are numbers. `EndOfFile` stands for the exception of
  `etireader.py` that ends the program, whichever it is; `EtiReader` says when it comes.
* TCP: a packet is its number modulo `W`; `sendall` finishes when the client has
  read, which abstracts the kernel's buffers. `W` must be larger than a hole the
  model could make without noticing; with queues of one packet, 3 is.
* `DataSender` finding no data on stdin sleeps and retries: a stuttering step.
* Python 2 semantics used: `threading.Lock` may be released by any thread; closing a
  socket object leaves a `sendall` in progress alone; a list iterator is an index;
  `SocketServer` catches every exception of a handler, `KeyboardInterrupt` included; its `shutdown()` waits for the end of
  `serve_forever`, also if that was never called.
* Control-C takes effect between two library calls, not inside one: `Queue.get_nowait`, which is written in Python, is atomic.
* UECP: bytes are themselves, because the stuffing is what matters; the CRC bytes are
  data, as no decision depends on the comparison. Every exception ends the program:
  the handler of ValueError evaluates `line_nr`, which does not exist.
* EDI: a frame is its number. Fragments of one packet, all of them, give that packet;
  any other mixture gives a frame, a refusal or an exception, nondeterministically. So do all of them if one is cut off by the end of the
  file: with fec the packet is complete or raises, without fec the bytes behind the gap move up and the frame is not what was sent.
  The Reed-Solomon parameters that a reused Defragmenter keeps from its first packet are beyond this: its mixture gives anything.
  `BufferedFile` in `EdiDebug` is a sequence of packets: the main loop ends at the first
  packet `decode` refuses, so it never resynchronises, and starts every packet with an empty
  buffer; its bytes are in `EdiSend`, which has the same class.
* Bytes in `EdiRs`, `EdiSend`, `EtiReader`: a byte is its position in what it came from, so that a
  byte in the wrong place is seen. Parity is that of the positions it protects. `EtiNi` takes the fields of the deti and est items as unpacked;
  header
  bytes have their values, and bytes of the FIC and of subchannels tell where they come from.
* `ReedSolomon` uses a field of `2^FieldBits` elements for the code's 256; every formula is the code's, with 255
  replaced by the order of the smaller field.
* `Crc`: bytes are numbers, and the code's table is the code's; words are sets of bits, in which `^` is `SymDiff`, `& 0xFFFF` and `& 0xff` are
  intersections and the shifts move every bit.
* `Tii`: a sample is loud or silent, a carrier there or not. The thresholds, transforms and phases are floating point.
* `Router`: a pattern is the set of paths it matches; `server.py` adds two rules, so the cut of its expressions at 99 groups is
  a property of bottle alone. `StaticFile`: contents are numbered, times are whole seconds that do not go back; HEAD (line 2491), the
  403 of a path outside the root or an unreadable file (2459-2464), and files put there with an older time are left out.
* Time in `ZmqSub`: a number of seconds, in a low and a high part. `main` sets the
  time zone to UTC, so `mktime` returns what the multiplexer sent. What the
  multiplexer does (the second is taken at phase 0; other data and unsynchronised
  times are possible) is external.
* `Pacing`: a program that could go on does so `max_delay` later at the latest; this
  stands for scheduling, reading the file and sleeping too long. `edisend.py` reads
  `time.time()`, which may jump; the model's clock does not.
* Signals: the kernel merges a SIGUSR1 with one that is pending; the properties
  speak of signals the handler has run for.
* `StatServer`: statistics are numbered in the order etisnoop writes them. Loading fails only until there is a file, though the
  code (lines 57-60) catches any error at any time; a later failure would leave the statistics as they are. Control-C takes effect
  between two accesses to shared state.

## What the runs show

Runs with `expect: pass`:

| run | bounds | shows |
|---|---|---|
| `EtiUdp` | K=2, M=3, start delay 2, limit 2; 3 groups, 2 losses per group, one duplicate, overtaking one packet, with the trap | implements `EtiStream`; `UdpIndInv` (with the receiver's `IndInv`: no internal error, in order, one place per group); nothing reopened; intact without duplicates; with one loss per group at most, everything written (liveness) |
| `EtiTcp` | 2 clients, queue of one packet, W=1, Control-C anywhere; clients are symmetric | the list is changed by one thread at a time while clients are accepted, and DataSender meets no exception; nobody served is forgotten |
| `EtiTcpLive` | 1 client, W=3, stdin may end | no holes; removal of terminated connections, and of clients that do not read or have left; deadlock is checked: no thread combination blocks |
| `SyslogMunin` | 3 datagrams of 3 priorities (an error, and a warning and a notice of the last facility: 3, 188, 189), queue of 2, 2 Control-C anywhere in the main thread | counted once and none lost but by a Control-C in the handler that holds it, answers current; every entry gets into the queue; the program ends if its servers have served, the queue has room and there is no further Control-C |
| `ZmqDropper` | 3 messages of 0 to 3 frames (buffer of 2), 2 signals, the decrement atomic or in two instructions | order, never more drops than signals, full messages intact |
| `ZmqSub` | 13 frames per second, 6 seconds, up to 3 messages lost in a row, twice; connecting at any frame | the time shown is the frame's, wherever the second turns; recovery after six times in a row |
| `Pacing` | periods of 4 and 3 units, delays up to 2 (below the period) or 6 (above), 20 units | never early, no accumulated delay, two EDI frames in a period at most |
| `UecpFrame` | 2 frames out of 3 with special bytes everywhere, datagrams of 1 to 17 bytes, one loss | round trip without loss; a decoder between frames decodes the next one |
| `EdiDebug` | 3 frames sent without PFT, or in 1 or 2 fragments, with and without fec and -o, -n 2 or none; one loss, one copy, any order, a file that ends anywhere, within a packet too; Pseq modulo 2, so that it comes back | until a Pseq comes back: no exception but at a packet cut off by the end of the file; whole frames but perhaps the last, if a fragment without fec is cut off; once but for copies, none kept back |
| `StatServer` | 2 captures that write and any number that fail, 2 Control-C | no page older than what was loaded; requests are answered during captures; what was written is loaded; shutdown ends |
| `Algorithms` | below | each of nine parts against its definition |

Parts of `Algorithms`:

| part | bounds | property |
|---|---|---|
| `Router` | 3 rules over 2 paths and 3 methods, expressions of 2 groups (the code's 99) | `MatchesFirstRule`: the rule found is the first that matches, whatever was joined or replaced |
| `StaticFile` | 3 contents, 3 seconds, sizes 0 and 3, five Range headers | `StaticAnswers`: "not modified" is true of the client's copy, but for edits within one second; the first range the file has is sent, and no more bytes than announced, whatever happens to the file between the steps |
| `ReedSolomon` | field of 8, 4 parity symbols, up to 5 errors and erasures of 2 values | `RsCorrects`: the message comes back if erasures and twice the errors are no more than 4; beyond, it is refused or one whose block is as near |
| `Crc` | all first bytes, 3 others, 3 bytes in any pieces | `CrcDivides`: both functions are the remainder of the polynomial division |
| `Tii` | 3 transmitters, 5 fading carriers, files up to 16 samples of frames of 9 | `TiiIdentifies`: carriers as in the standard; who arrives is reported, nobody else; the NULL symbol is found |
| `EdiRs` | packets up to 14 bytes, chunks up to 4, parity 2, up to 9 fragments | `AfPacketRestored`: the packet comes back from its fragments, and its chunks are found intact |
| `EdiSend` | 3 packets of 9 kinds, cut by up to 16 bytes | `SendsTheFile`: the datagrams are the packets of the file up to the first bad one, not shifted by what was read ahead |
| `EtiNi` | 4 deti items, 3 est items with extreme fields, 2 per packet | `FrameReadsBack`: an ETI reader finds every field and stream of this packet, and of no other, where the headers say; FCT from 250 on, the FIC behind RFUD, and FL in a frame of more than 6144 bytes are excepted |
| `EtiReader` | 3 frames of 3 sizes, junk before, cut by up to 7 bytes | `FramesReadInOrder`: the frames of the file, none left out, only the last one incomplete |

The bounds are small but reach every branch: groups that are complete, missing, stale,
given up, written, in every order; queues that are empty, full and overrun;
two clients so that the list shrinks under an iteration; a second whose length in frames
is no multiple of a message's or of a time's, so that it turns at each place in both;
delays on either side of the period; messages
shorter than, as long as and longer than the buffer; as many errors as the Reed-Solomon code corrects, and one more;
more rules than one expression takes; files that end in each field. All invariants but `RsCorrects`
are also proved for all bounds (below).

The run with `expect: violation`, a disagreement of the code with a comment of the
repository that `findings` quotes:

| run | what happens |
|---|---|
| `ZmqDropperLostSignal` | an increment is lost inside the decrement: of two signals, one drops a message |

Findings of the models that have no run of their own, because nothing in the repository promises otherwise
and the properties except them:

* `MAX_WAIT_GROUPS` (`etifec.py:28`) is documented to count complete groups; the code
  counts incomplete ones, so the backlog of complete groups is unbounded.
* Incomplete groups the output has passed keep counting as waiting
  (`eti-udp-receiver.py:85`): with enough of them the receiver gives up a group per
  packet, groups that have not been sent yet included, and drops these when they come.
* `etireader.py` ends with `struct.error` instead of its own exception on a file that ends within a sync (line 85), and
  returns a last frame of which up to two bytes are missing.
* The shutdown loop of `eti_tcp.py:176` skips a connection when DataSender removes
  another one under it. Joining a handler that waits for its queue can take for ever (line 181).
* The queue of a TCP connection is sized in bytes where Queue counts packets (`eti_tcp.py:47`).
* `zmq-sub.cpp` clears `enableDecode` only at the next phase 0 or 1. If that message is lost, MNSC data of
  another kind is taken for a time; hence the condition `gap` of `SecondsRight`.
* `edisend.py` keeps the time from before its sleep (line 139), so that the frame after a
  sleep finds its deadline already past: frames leave in pairs, two per 24 ms. A PFT fragment that the
  end of the file cuts off is sent all the same (line 143).
* The munin counts are reset before they are sent; `CountedOnce` accounts for what a
  failing send drops.
* Control-C in a munin handler does not end `syslog_munin.py`: `SocketServer` catches it and goes on serving. Between lines 167 and 171 the
  entry just taken is lost (`NoneLost`); after line 159 the answer is, and before line 160 only the errors are reset, so that the
  warnings are reported with the next answer.
* `syslog_munin.py` waits in `shutdown()` for ever if a server was made and has never served: when the munin port is in use (line 194), or
  Control-C comes between lines 189 and 199. A second Control-C in the "finally" block leaves the UDP server, and the process, running.
  `QuitsWithRoom` is about the other cases.
* A message shorter than its predecessor is forwarded by the dropper with the end of
  the other (`zmq-dropper.c:108`); `FullMessagesIntact` is about the rest.
* After the first lost datagram inside a frame the UECP parser ends with a NameError,
  or decodes a splice of two frames whose length happens to fit.
* A Defragmenter of `edidebug.py` outlives its packet. When Pseq wraps, after 65536
  packets, each fragment of a new packet replaces one of an old one and decodes the
  mixture, or has no place in the list (IndexError). Hence the condition `PseqReused`.
* `edidebug.py` ends with `struct.error` on a file that ends within a packet (lines 240, 261, 268, 272, 434, 447, 450), though `decode` handles the end of
  the file between two (line 211). The payload of a fragment is taken without a look at its length (line 298): without fec, a last
  fragment cut short may complete a packet in which bytes are missing, and a spoilt last frame is written.
* `edidebug.py` writes FCT modulo 256 (line 122), takes the FIC three bytes late when there is an RFUD (line 587), and
  divides by the chunk size without parity (line 361), so that long packets print PROTECTION ERROR for chunks they do not have.
* `reedsolo.py` divides by zero when an error is located at an erasure (line 158), and its decoder cannot
  read what was encoded with `fcr=1`.
* `analyse_tii_from_file.py` slices from the end of a file that begins within a NULL symbol (line 210); transmitters that
  share a comb are taken for others of that comb.
* bottle puts the verb of the request into `Allow` for static rules (line 437).
* `server.py`: Control-C within `getstats` leaves the lock held (line 72); before the `try`, or again within `stop()`, it leaves
  the collector running (lines 113-118). The liveness properties start where neither has happened.

CHECK_DEADLOCK is off where the modelled program may stop: the UDP system after the input file, an
exception or at the debugger, the TCP server (with Control-C), the syslog collector and the statistics server
after Control-C, the dropper, the subscriber, the two paced senders, the UECP parser, the EDI
converter and the algorithms at the end of their bounded input.

### Fairness

* `FairUdpSpec`: weak fairness of the delivery of packets in flight. The receiver
  does nothing but read its socket. Nothing is assumed of the sender: the property is about groups sent.
* `EtiTcp!FairSpec`: weak fairness of each thread (the scheduler runs a thread that
  can run; none holds the lock for ever), strong fairness of the failing send:
  TCP reports a peer that has left to one of the repeated `sendall` calls. Nothing is assumed of clients.
* `SyslogMunin!MuninFairSpec`: weak fairness of each thread and of munin-node's polling, which is periodic.
* `StatServer!FairSpec`: weak fairness of both threads, strong fairness of getting the lock: the other thread holds
  it for a few instructions and sleeps or waits for requests in between. Nothing is assumed of captures and clients;
  a property that needs captures to end says so.

## What is proved

TLAPS checks, for all values of the constants that satisfy the modules' assumptions
(`ReceiverAssumption`, `UdpAssumption`, `TcpAssumption` and so on):

| module | theorems |
|---|---|
| `EtiUdpProofs` | of the receiver: `ReceiverInvariant` (`IndInv`), from which `ReceiverTypeCorrect`, `ReceiverNeverFails`, `ReceiverInOrder`, `ReceiverOnePlace`, and the action property `ReceiverNeverReopens` |
| | of the composed system: `UdpInvariant` (`UdpIndInv`), `UdpIntact` (`IntactWithoutDuplicates`); `UdpRunsReceiver`: its behaviours are behaviours of the receiver, so the theorems above carry over; `UdpImplementsStream`: refinement of `EtiStream` |
| | of the file reader: `ReaderReadsFrames` (`FramesReadInOrder`) |
| `EtiTcpProofs` | `TcpInvariant` (`TcpIndInv`), `ListIsExclusive` (`TcpInv`), `ServedAreListed` (`NoneForgotten`); `StreamInvariant` (`StreamInv`) and the action property `StreamIsContiguous` (`ContiguousStream`) |
| `QueueProofs` | of the collector: `MuninInvariant` (`MuninIndInv`), `EntriesCountedOnce` (`MuninInv`), `AnswersUpToDate` |
| | of the dropper: `DropperInvariant` (`DropInv`), `DropsAreSignalled`, `MessagesInOrder`, `FullMessagesForwarded` |
| `SignalProofs` | of the subscriber: `SubscriberInvariant` (`ZmqSubInv`), `SubscriberRecovers` (`Recovers`) |
| | of the TII decoder: `TransmittersTold` (`TiiIdentifies`) |
| `EdiDebugProofs` | `EdiTypeCorrect`, `EdiIntact`, both in `EdiFrames` (`FrameInv`), `EdiNothingHeldBack` and `EdiWrittenOnce` (`WrittenOnce`) |
| `PacingProofs` | `PacingTypeCorrect`, `DabpIsOnTime`, both in `SendersArePaced`, `DabpIsNeverEarly` and `EdiSendsTwoPerPeriod`; of what `edisend.py` sends `DatagramsAreTheFile` (`SendsTheFile`) |
| `StatServerProofs` | `StatisticsAreFresh` (`StatInv`); of bottle's router `RouterInvariant` (`RouterInv`) and `RouterMatches` (`MatchesFirstRule`); of `static_file` `StaticAnswered` (`StaticAnswers`) |
| `FormatProofs` | of the UECP parser `UecpDecodes` (`UecpInv`), from `UecpIndInv`, and the action property `UecpReadyBetweenFrames` (`ReadyBetweenFrames`) |
| | of the EDI debugger: `PacketRestored` (`AfPacketRestored`), from `EdiRsInv`, and `FramesReadBack` (`FrameReadsBack`), from `EtiNiInv` |
| | of both CRCs: `ChecksumsDivide` (`CrcDivides`), from `CrcInv` |

Those of the router, `static_file`, the file reader, `edisend.py`'s datagrams, the Reed-Solomon blocks, the ETI frames, the CRCs and TII are about
`RouterSpec`, `StaticSpec`, `ReaderSpec`, `EdiSendSpec`, `EdiRsSpec`, `EtiNiSpec`, `CrcSpec` and `TiiSpec`. The run `Algorithms` checks the same properties
of the same actions; what it adds is the choice of a unit.

The receiver's assumptions are the code's: `1 <= K <= M` and `2 <= START_DELAY <= K`
(the code has 40, 60, 10). The last one is essential: with a start delay beyond K,
`min()` can be asked for a group when none is left. `ZmqSubAssumption` asks for a second of three messages or more
(the code has 42 frames in a second and 4 in a message): with less, a second could begin twice
between two times. `StaticAssumption` says what `parse_range_header` makes of a header: pairs of numbers or
blanks, never two blanks. `RouterAssumption` asks for some path, and for `ANY` among the methods,
which the code always tries. `EtiReaderAssumption` excludes what a reader cannot tell from another kind of file, 2 or 6 bytes
before the first frame of a RAW file, and gives a frame four bytes at least, those of its sync.
`EdiSendAssumption` says what fields a packet has, `EtiNiAssumption` how wide the fields of the TAG items are
(MID 2 bits, SAD 10 and so on). `TiiAssumption` says that combs and patterns are those of the standard, that the
NULL symbol has an even length (the code has 2656), and that the rest of a frame is not shorter than it (193952). `SourceAssumption` is
about the UECP encoder: its frames contain message elements that `UECP_Message_Decoder` takes, as real ones do. `CrcAssumption` says that bytes
are numbers below 256. The other assumptions say that periods, sizes and moduli are
positive, that lengths are natural numbers, and that names are distinct.

Why `IndInv`. That the write loop never raises KeyError (`NoInternalError`) needs `Pending`:
an ignored group not yet passed has its frames. `Pending` is kept by a new group only
because the decoder adds to `ignore_groups` and `decodedeti` together, and by a
give-up because `curr_seqnr` moves past the group. `InOrder` needs `WrittenPassed`
(everything written is below `curr_seqnr`). Both need, before the output starts, that
nothing can be ignored yet: `Starting` says that fewer blocks are held than packets of the
delay have passed, so with START_DELAY <= K no group is complete. `DecodedIgnored` and `BlocksBelowK`
(at most the group just filed is complete) tie the dictionaries together.
The lemmas follow the loop body: `Registered`, `FiledAfterDecode`, `OrderKeeps`,
`WriteReadyKeeps`, then `ReceiveKeeps` and `ResumeKeeps`, one per action.
The refinement adds `OnlySent`: a group in flight, held or decoded was sent; so
what `WriteReady` writes is a run of sent groups, later than the last one written.
`UdpIntact` adds `BlocksOnce`: while nothing has been duplicated, the blocks held of a group are different ones and
none of them is still in flight, so that the next one to come is different again and K of them decode.

For the TCP server, `LockHeld`: until Control-C, the main thread between acquire and release, and DataSender in
its loops, hold the lock; nothing is claimed afterwards, when the main thread releases what it may not hold, but it
does not touch the list again. That `connections.remove(c)` never raises needs `FoundDead` (what is to be removed
is in the list, once, before the index DataSender has reached), which needs `ListedOnce`; and that needs that a client
is accepted once and its handler does not exist before. `WithoutOne` says what a list is after a removal.

That a client's stream has no hole is not inductive by itself: it needs to know what will come next, back to the
reading of stdin. `QueuesFollow`: the packet in the handler's hands and those of the queue are consecutive, empty
strings last. `ServedInTurn` joins them to DataSender: the last packet queued for a connection that serves is the one read
last, or in the turn under way the one before, until the connection's index is reached; a connection
whose queue was full does not serve any more, so nothing is put behind the hole. `TakenIsReceived` joins them to the client: a
handler that goes on has had its packet received. Nothing in it depends on the lock, so it holds through Control-C.

For the collector, `QueuedOnce`: an entry is at one place only, the queue, the main thread's hands (and one is there just between taking and
counting) or among those counted. `Current`: from the request to the answer, what had been queued is queued, in hand or counted; values exist
only while they are sent, and until they are reset the warnings are still those of the answer. This makes Control-C harmless but for what is in
hand: `InHand` says of the values what the counts no longer have, so that the sum of what was reported, not sent, in hand and still counted is the number of entries
counted, also when the counts are half reset. The number of entries lost is bounded by that of interrupts, since there is one in hand at most.

For the dropper, `Signalled` (a drop under way has its signal), `Waiting` and `Ordered` (messages disposed of come before
the one in hand, those waiting after it) and `Buffer` (a full message in hand fills the buffer).

For the subscriber, the invariant follows the calendar of frames. `MuxLatched` is the multiplexer's: the second
sent is that of phase 0. `PpsFollows`: `time_pps` is that of the last frame received, less what was lost.
`FieldsCurrent`: if no new second was noticed since the last time was complete, the fields read are those of the current one; the
counter `inhibit_second_update` is what makes `time_secs` follow (`SecondsFollow`). `Recovering` says,
for each of the messages read in a row, where in the second the decoder may be and how many times it still skips; its last line is
`Recovers`. That a second is longer than three messages enters where a second may begin between two times, but not twice.

For the converter, `EdiInv` adds `Slots` to what the run checks: a Defragmenter has the
places that a fragment read for its Pseq asked for, and holds only fragments that
were read and have that Pseq. As long as no Pseq is shared, these all come
from one frame (`OwnDefragmenter`), so no index is outside, and what is complete is one packet. An exception
is then one of a packet that was cut off, and `Reading` ends with it, so that only the last frame can be spoilt.
`Kept` turns this around for `EdiNothingHeldBack`: what was read is still in its place.
`Repeats` counts for `EdiWrittenOnce`: a frame is written when the last of its packets is read, and then for each packet that
comes again; the times it was written, and its packets that were read and are still to come, are together no
more than one and the duplicates.

For the senders, `PacingInv`: the sleep of `send_dabp_to_zmq.py` ends when the next superframe is due, or later
if it was late by more than a period; and the time `edisend.py` keeps is not before its last frame but one.

For the statistics server, `IndStat`: while a page is made, the request it answers is there. `stats <= file` is the
reason a failed capture does no harm: what it leaves to be loaded is at least as new.

For the router, `RouterInv` compares the tables with the rules added: `StaticTable` and `LastTargets` (a rule added
again has replaced the target), `GroupsIndex` (where `add` finds that a pattern is known) and `FirstComeOrder`
(the list is in the order of first additions). `match` looks into the expressions one after the other, not into the list: the
lemmas on `CutInto` say that the pieces of at most `MaxGroups` patterns are, laid together, the list, so the first
piece that matches holds the first rule that does. `MethodAnswers` is this for one method, `RouterMatches` for the methods in their order.

For `static_file`, `StaticInv` says of each step what the request has seen so far. `WrittenInOrder`: contents written later have no
earlier time. `CopyInv`: the `Last-Modified` a client was given is from a `stat` before the contents were
read, so the copy is never older than it says, which is what makes 304 true; had `static_file` read first, it would not be.
`HeldInv`: what was open when the file was removed is still what is sent. `RangeParsed` and `RangeAsked` say that the range
`parse_range_header` yields is within the file, and that of the bytes asked for.

For the file reader, `Laid` says how the frames lie in the file, `AtNextFrame` that the reader is at the frame after those it
has returned. That the first sync found is that of the first frame (`DiscoverKeeps`), and that only the last frame can
reach beyond the end of the file (`NextFrame`), decide every branch.

For `edisend.py`, `AtNextPacket`: between two packets the buffer is empty and the file at the next packet. Within
a step, `At` says what the buffer holds, and `ReadsOn` that `read` returns the bytes that are next wherever they come from;
the lemmas on `Bytes` put the pieces together. `HeaderOfNext`: the program knows where it is, so
that the packet decoded is the next one.

For the UECP parser, the invariant looks ahead. `OnTheWay`: if nothing is lost, to parse in one go the bytes that are still outgoing
would leave a new decoder and exactly the frames sent, decoded. A datagram does not change that, because two pieces are parsed one after the
other (`ParseConcat`) and a parser that would run at the end runs now (`ParseMonotone`); a frame sent adds
itself, because what `Stuffed` makes of it is parsed as it (`ParseStuffed`). All four are inductions over bytes. The
library's induction theorems take a predicate as a parameter, which the provers cannot instantiate; `Numbered` states
induction about a set of numbers instead and follows from `WFMin`, that every set of numbers has a least one, and `LoopExists` says that the
recursive function of a loop is what its definition says. With the two, the loops of this module can be reasoned about.

`PlacesOfJoined` is their use for what is joined from pieces (`FlattenSeq`): each piece lies in the whole behind the lengths of those
before it. Both theorems about the EDI debugger rest on it. For a protected packet, `EdiRsInv` says that the fragments are those
dealt out from one. `BlockReceived`: byte `j * f + i` of the block is byte `j` of fragment `i`, so the block that is
put together is the block that was dealt (`DivMod`: every place is such a `j * f + i`). Chunk and parity are where the sender put them,
`data_size` apart (`ChunksReceived`), and the code finds at least as many chunks as were sent, since the length it divides counts the parity;
of the chunks joined, the first are the packet and its zeros (`PacketReceived`), so that what remains when `zeropad` bytes
are cut off the end, however many chunks too many were joined, begins with the packet.

For ETI(NI), `EtiNiInv` says that `EtiData` holds just the items of the packet so far (`Collected`, which `clear` makes true again) and that the last
frame is `generate_eti` of the items of its packet (`Written`). The rest is about one frame: `FrameParts`, `HeaderIs`, `STCIs` and `MstIs` say which
byte or stream lies where in it, `TenBits`, `Mode` and `Fields` that a reader's masks undo the writer's, and `StreamWordsIs` that FL and the
offsets of the streams, which are summed differently, agree. That NST fits its seven bits is `NoMoreThan64`: the subchannels of a packet have
different numbers of six bits.

For the CRCs, one formula, `Divided`, stands between the three computations: of a byte and a register it takes the quotient `q`, which is
`x ^ (x >> 4)` of the byte `x` that leaves the register, and adds `q`, `q << 5` and `q << 12` to what stays. `TableBits` finds it in
the table, bit by bit for all 256 entries; `CcittStep` follows the four assignments of `crc_ccitt`; and `UptoNext` is the step of the long division:
after `n` bits the register is what the first `n` bits of the quotient have made of it. The loops over bytes then compute the same registers
(`OneLoop`), and `CrcInv` says that the register passed on, continued with the piece now collected, is that of the whole message.

For TII, the invariant is only about types; the work is in the numbers. `CarrierTells`: a carrier belongs to one quarter, comb and place,
as the carriers of a quarter are `2c + 48b` and the next. `FourOnes` and `PatternIs`, by looking at the 70 rows: a pattern has four
places and is told by them. So 32 carriers tell a transmitter (`ThirtyTwo`, `CarriersTell`), and `algo1` reports whom all four places are
occupied of (`ReportedIs`); when combs differ, those places come from one transmitter, which has no others, hence is that one.
`FormulaIs` and `CarriersAre` compare the two computations of the carriers. For the NULL symbol, `FirstLoud`: a loud sample after a
silent one is `NullSize` behind the beginning of a frame.

Only model-checked:

* liveness (`TerminatedRemoved`, `UnservedRemoved`, `EverythingQueued` and the others with `~>` or `<>`): fairness and ENABLED are out
  of the prover's reach;
* `RsCorrects`, the only invariant without a theorem: its tables are built with `Bitwise`, which the prover's modules cannot use, and
  that the decoder (Berlekamp and Massey's loop, the search for roots, then Forney's formula) corrects rests on the theory of
  polynomials over finite fields, by induction over polynomials.

## Not modelled

* Of `zmq-sub.cpp`, the metadata parser (`get_md_one_frame`): it reads behind the frames in a buffer without room for it,
  so what it does is not determined by the program. The arithmetic that turns TIST into milliseconds is data.
* Of the TII tools, transforms, phases and delays (`analyse_phase`) and `merge_iq.py`: floating point.
* Of bottle, everything `server.py` does not run: templates, adapters, forms, cookies, plugins.
* The DAB+ decoder: decoding is the FDK library; what is left is one straight line per superframe and a WAV header.
* `icy-info.py`: one loop that writes what it reads to a file; what the encoder makes of a half-written file is not in this repository.
* `fipcover.py`, `histogram.py`, `mpeg_analyse.py`, `zmq-tx-data.py`: straight lines that print or plot what they read.
* Installer, supervisor, ini and mux files: configuration.

Two hazards of modelled code have no property, both of the TCP server's shutdown, which the code does get wrong (above):
`PROJECT.json` has them with a note.
