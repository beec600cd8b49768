# wifi_vtx: a broadcast video link in TLA+

This directory holds a verification project for the code in `src/`: TLA+ models of the parts
that carry the link, TLC configurations that check small instances of them, and proofs that
TLAPS checks for every instance. Line numbers below refer to the commit in `src/`; "rx.cpp" is
`src/src/rx.cpp`, "tx.cpp" is `src/src/tx.cpp`.

## 1. The system

`wfb_tx` takes UDP datagrams (video, MAVLink, IP packets of a tunnel), groups them into blocks
of `fec_k`, adds `fec_n - fec_k` parity fragments, encrypts every fragment under a session key
if told to (`-e`), and injects each as one radio frame. Nobody acknowledges anything.
`wfb_rx` hears some of the frames, on several cards and possibly several hosts, puts the
fragments back into blocks, recovers lost ones, and sends the datagrams on over UDP. Python
programs (Twisted) start these two, feed them MAVLink and tunnel traffic, read their
statistics, and choose the card to transmit on.

Encryption is off by default (tx.cpp:315, rx.cpp:824), and the launchers of this repository do not
turn it on (telemetry/server.py:327-424, wfb/start.py:130, 140). Without it the transmitter still
announces sessions, and a KEY packet still resets the receiver's ring, but `wfb_rx` takes the DATA
packets of any session, also before the first KEY packet. `RxRing` models both modes (`IsEncrypt`);
which results are about which mode is said with them (section 4) and in section 5.

```
 client --UDP--> [telemetry proxy / tunnel] --UDP--> wfb_tx --radio--> wfb_rx --UDP--> client
                                                      ^                  |
            supervisor (spawn, respawn, kill) --------+------------------+--> statistics
```

### Inventory

| component | state | operations | interacts with | hard | correct when |
| --- | --- | --- | --- | --- | --- |
| Aggregator (rx.cpp) | ring of unfinished blocks, fragment buffers, session key, `seq`, counters | `process_packet`, `dump_stats` | called by the poll loops; sends UDP | loss, doubles, reorder, bulk loss, session change with old buffers, 32-bit wrap | each packet once and in order, nothing received is dropped, complete blocks whole, losses counted once |
| Transmitter (tx.cpp) | block and fragment index, block size, session key, announcement time | `send_packet`, `send_session_key`, `make_session_key` | called by `video_source`; injects frames | an injection fails between two packets of a datagram; rollover of the index; restart | no nonce twice under a key, key before data, parity as long as the block |
| `video_source` (tx.cpp) | sockets, poll results, selected output | poll, drain, send | kernel sockets, Transmitter | one socket drained while others fill | every socket is served |
| Receiver, `radio_loop`, `network_loop`, Forwarder (rx.cpp) | pcap handles, sockets | capture, strip headers, forward | Aggregator | order between cards and hosts | environment of the Aggregator |
| The link | all of the above | - | - | loss, restarts of both sides, late keys | ordered, at most once; up to `fec_n - fec_k` losses of a block repaired |
| UDP proxy (telemetry/proxy.py) | queue, its size, the flush timer, `reply_addr` | `datagramReceived`, `flush_queue`, `write`, `send_rssi` | reactor timer, wfb_tx, clients | a message races the timer; sizes at the limit | nothing lost, in order, bounded delay |
| Antenna selection (telemetry/server.py, copies in main.py and wfb/protocol.py) | readings of the period, selected wlan, the proxy's `peer` | lines from wfb_rx, `select_tx_antenna`, `update_stats` | proxy | stale readings, hysteresis, sums that outgrow a field | a good enough antenna is used, no flapping, the status can be packed |
| Tunnel (telemetry/tuntap.py) | device, write queue, keepalive call | `doRead`, `doWrite`, `write`, keepalive | reactor, wfb_tx and wfb_rx, its service | device and socket errors, a write that fails in the middle of the queue, timer resets | keepalive bounds silence; the queue is in order and drains |
| Service start-up (telemetry/server.py, telemetry/common.py) | commands of `init_wlans`, services with sockets and children, flag of the exit status | `init`, `processEnded`, `_cleanup`, `abort_on_crash`, `fatal_error` | processes, tunnel, reactor | several failures and signals meet while the reactor stops | every failure ends the server with status 1, sockets go with their service |
| Supervisor (wfb/start.py, wfb/protocol.py) | command and child, wlans, what the main thread is at | `execute`, `init_wlan`, respawn, `quit` | processes, wlans | respawn and late commands race shutdown; half a start-up | no child survives; wlans are set back; no child on half a set-up |
| Gstreamer monitor (wfb/gst.py) | a thread, pipelines, kills under way | kill, start, check, restart | supervisor | the thread races a kill that nobody waits for | one pipeline, which returns, and none left behind |
| MAVLink dialect and parser (telemetry/mavlink.py) | buffer, expected length | `pack`, `parse_char`, `parse_buffer`, `decode` | gimbal | frames cut anywhere, damaged, unknown, undecodable; 173 generated classes | what is parsed was sent, whole and in order |
| Gimbal (telemetry/storm32_controller.py, telemetry/mavlink_protocol.py) | angles commanded last | `dataReceived`, `messageReceived`, reconnection | parser, TCP connection | exceptions between chunks, slow sticks | within one degree of the sticks |
| FEC codec, radiotap parser, keygen, console, configuration, packaging | - | - | - | vendored, pure or I/O only | - |

The hazards of this list, each at its line, are in PROJECT.json under "hazards", with the
properties that would catch them going wrong. A hazard without properties carries a note.

## 2. Modules

| module | models | checked by |
| --- | --- | --- |
| `RxRing` | class Aggregator. One step is one call of `process_packet` (one action per way through it: `EmptyPacket`, `MalformedPacket`, `UndecryptableKey`, `SessionKey`, `UndecryptableData`, `BadIndexData`, `KnownData`, `NewData`) or `dump_stats` | `MCRxRing`: stream, sessions, skipped_fec; `RxRingProofs` |
| `Transmitter` | class Transmitter and the loop body of `video_source` for one datagram | through VideoSource and WfbLink; `TransmitterProofs` |
| `VideoSource` | the poll loop around it: sockets, order of service (extends Transmitter) | `MCVideoSource`: video_source |
| `WfbLink` | a Transmitter and an RxRing (both by INSTANCE), a lossy broadcast, restarts of either side | `MCWfbLink`: link_repair, link_sessions, link_cards; `WfbLinkProofs` |
| `LossyStream` | what the link promises its clients: the abstract specification WfbLink refines | link_cards; `WfbLinkProofs` |
| `UdpProxy` | the aggregating proxy of the telemetry server | `MCUdpProxy`: proxy_empty; through Telemetry |
| `AntennaSelect` | the lines of wfb_rx, the choice of the wlan to transmit on, the status of a period | through Telemetry |
| `Telemetry` | the MAVLink service: UdpProxy and AntennaSelect (by INSTANCE), which share the proxy's client and peer | `MCTelemetry`: telemetry; `TelemetryProofs` |
| `TunTap` | the tunnel device with its queue and its keepalive call | through TunnelService; `TunTapProofs` |
| `Service` | start-up and end of the telemetry server: commands, services, children, exit status | through TunnelService |
| `TunnelService` | both (by INSTANCE): the service opens the device and its cleanup closes it | `MCTunnelService`: tunnel; `TunnelServiceProofs` |
| `WfbTool` | the broadcast tool: start-up, respawn, shutdown, and the processes beside it | through Supervisor |
| `GstMonitor` | the monitor thread and the pipelines it starts and kills | through Supervisor |
| `Supervisor` | both (by INSTANCE), in one program that is started several times | `MCSupervisor`: supervisor; `SupervisorProofs` |
| `MavlinkDialect` | the 173 message classes: number, wire format, order of the fields for `decode` and for `pack`, checksum byte | through GimbalLink |
| `Mavlink` | packing, checksum, parsing and decoding as functions on bytes | through GimbalLink; `GimbalProofs` |
| `Gimbal` | the hysteresis of the gimbal controller | through GimbalLink; `GimbalProofs` |
| `GimbalLink` | the controller's TCP connection: chunks of bytes, parser, messages, reconnection; Gimbal by INSTANCE | `MCMavlink`: mavlink; `GimbalProofs` |

Operators named `Bug_...` are mutants: each is a plausible mistake in the code, and for every
property of a passing run one of them, put in the place of the definition that follows it, makes
TLC report that property violated. No specification uses them.

### How the models correspond to the code

**RxRing.** The variables carry the names of the fields: `rx_ring` (with `block_idx`,
`send_fragment_idx`, `has_fragments`, `fragment_map`), `rx_ring_front`, `rx_ring_alloc`,
`last_known_block`, `seq`, `session_key`, the counters. `fragments` is the memory of the buffers,
which outlives blocks and sessions: the bytes are abstracted to the session and block they were
written for, or `Junk`. `get_block_ring_idx` is `Found`, `AlreadyProcessed`, `NewBlocks` and
`Place`; `rx_ring_push` is `Overridden`, `Pushed` and the flush of the overridden blocks; the
second half of `process_packet` is `YieldedTo` (the gap-free prefix), `Decodes`, `FecApplied` (with
the condition of rx.cpp:597 as written) and `Removed`. The packets of one call are the set `out`;
their field `at` is the turn in which `send_packet` was called for them, from which `seq`, `lost`
and `high` follow. `high` is a history variable. The codec is exact: fragments of one block decode
to that block, a mixture decodes to `Junk`. A buffer with `Junk` has any length, so `send_packet`
may find it longer than allowed and count it as bad.

**Transmitter.** One step handles one datagram. `air` is the set of packets of the step, in the
order of their field `at`: key if due, the data fragment, parity, the key of a rollover.
`InjectFails(size, cut)` is the exception of `inject_packet` at packet `cut`: what came before is
on the air and the process is gone until `Restart`. `used`, `key_age` and `largest` are history.
Time is in ticks of a millisecond, kept only as what is left to the next announcement.

**VideoSource.** A datagram reaches a socket at any time (`Arrive`); `Poll` notes the readable
sockets, `Recv` and `WouldBlock` serve them in order until each is empty.

**WfbLink.** `Propagate` lets every card hear any subset of the packets of a step. The receiver
takes the next packet of any card. Packet contents come from the two component models: the key
and nonce of the Transmitter, the block and fragment of the nonce in RxRing. Nothing bounds how
far one card lags behind another, and the receiver obeys any KEY packet it can open (rx.cpp:459), so
an old one that waited at a slow card takes it back to an old session. There the stream begins anew,
as it does when the receiver restarts: `last`, the newest datagram handed over, is forgotten. Frames
of one broadcast reach all cards at about the same time, and a session ends only with the
transmitter's process or after 2^55 blocks (tx.cpp:229), so a card or host would have to lag behind
by a whole restart of the transmitter; `NeverBack` says that one card alone never does it.

**UdpProxy.** One step is one call by the reactor: `datagramReceived` (`TooBig`, `Enqueue`,
`Overflow`, `CancelRaises`), `flush_queue` (called by the timer), `write`. A call in state "called"
is a DelayedCall that has run and is still referenced; cancelling it raises. A batch from the radio
is its length and the headers found in it.

**AntennaSelect, Telemetry.** `ant` is the dictionary the ANT lines of a period fill; a PKT line is
one step, `PktLine`, that runs `select_tx_antenna` and `update_stats` and empties it, as
`lineReceived` does. `tx_sel` and `peer` are the two variables of the choice; `heard` is history.
In `Telemetry` the step of a PKT line also writes the status into the proxy (`Injected`), to the
client heard last and not through the queue.

**TunTap.** One step is one call by the reactor. `reading` and `writing` are what the reactor
watches; an exception that leaves `doRead` or `doWrite` disconnects the device. `os.write` either
takes a packet or raises, EAGAIN of a full device included (tuntap.py:96), so that `doWrite` writes
the whole queue and `doWriteRaises` a part of it and then fails. `running` and
`time_left` are the LoopingCall: `Reset` puts it off, `KeepaliveRaises` ends it for good, and a read
after that fails in the assertion of `reset` (`ResetFails`). `accepted`, `written` and `silent` are
history. Packets are their numbers.

**Service, TunnelService.** `commands` counts what is left of the chain of `init_wlans`;
`StartServices` is the callback of its last command, which starts every service in one call:
`raised` are those whose init function raised. `Gathered` is the state of the deferred of
`gatherResults`, `Cleaned` the services whose `_cleanup` has run. `FatalError` is `fatal_error`: the
flag, and `reactor.stop`, which does nothing the second time. `Exit` is the end of `main`.
`TunnelService` lets the device live from `init_tunnel` on while the reactor turns, and closes it in
the very step in which the tunnel's deferred fires (`Closing`).

**WfbTool.** `pc` is where the main thread is: in the reactor, in `quit` (setting the wlans back,
killing again), in the last turn of the reactor after `quit`, at the kill after `reactor.run`.
`command` and `step` are the chain of `init_wlan`, whose process does its work at a time of its own
(`CommandRuns`), so that it may still undo what `quit` did. A child is first "forked" (it bears its
parent's name and `kill_wfb`, which goes by name, does not see it), then "running", then a "zombie"
until the reactor reaps it and `processExited` spawns it again. `kill_wfb` drops every exception, so each of them may do nothing. `stale` is a child of an
earlier start; `escaped` is history.

**GstMonitor, Supervisor.** The thread's loop statement by statement; `StartPipeline` and
`kill_monitor` start a command and go on, so `kills` counts those that have not worked yet. `Popen`
may raise in each of them: in the loop the turn is given up (`Raises`), in the two commands before
it, which are outside the `try` (gst.py:53-55), the thread is over (`StartupRaises`), and in the kill
of `after_execute` nothing is killed (`unkilled`, history).
`Supervisor` lets the thread run beside the main thread in any interleaving; `AfterExecute` asks for
the last kill, `Exit` ends the thread with the program, `Restart` starts the tool again.

**MavlinkDialect, Mavlink, GimbalLink, Gimbal.** A class of mavlink.py is one record of the numbers
it states: those `decode` uses (`format`, `orders`, `lengths`, `crc_extra`, `chars`) and those `pack`
uses (`packs`, `counts`, `crc`), each taken from its own place in the source. A value is the bytes
`struct` makes of it. `DialectAssumption` says that what a class gives to `decode` and what it gives
to `pack` agree; it is evaluated for all 173 with the run. Exclusive or is a table, joined strings are
looked up byte by byte, and repeated calls are recursive functions: `parse_buffer` goes on until
`parse_char` returns None, for which an eighth of the buffer's bytes is always enough, as no frame
has less than eight (`NoneLeftBehind` rests on that). `parse_char` and `parse_buffer` keep the buffer, the expected length and the
flag of a bad prefix; errors are outcomes: a `MAVError` is logged by `dataReceived`, a
`UnicodeDecodeError` ends the connection. `GimbalLink` sends a line of segments (good frames and
others) in chunks (`LineAssumption`: a segment that counts as a message is one of the dialect, packed
in version 1 or 2, there with or without its trailing zeros); angles in `Gimbal` are steps of a stick, 0.18 degrees, so that the comparison with
one degree is one of integers.

## 3. What is checked

| run | instance | shows |
| --- | --- | --- |
| stream | k=2, n=3, ring of 2, 5 blocks, one key, encrypted, counter modulo 6 | `TypeOK`: the ring is consistent; `InOrder`: each packet once and in order; `CompleteBlockSent`: the call that completes a block hands over every packet of it that has not gone out before, but for those finding 1 leaves undecoded; `NothingDropped`, `WindowForward` also over bulk losses, where one packet overrides several blocks; `EachPositionCounted`: every position skipped is counted lost (or bad) exactly once until the counter wraps, `LostNotOvercounted`: and at most once when it has |
| sessions | k=2, n=3, ring of 2, 2 blocks, two keys in any order | `ReceivedIsGenuine`: stale buffers of another session never replace a packet that was received (except in the way of finding 1) |
| video_source | k=2, n=3, rollover after 2 blocks, 4 sessions, 2 sockets of 2 datagrams, 6 arrivals, sizes 7 and 100 | `NonceRises`, `KeyOnAir`, `ParityFits` over rollovers, failed injections and restarts; `AllServed`: every socket is drained |
| link_repair | k=2, n=4, 2 blocks through a ring of one, one card | `Repaired`: up to n-k losses of a block are repaired end to end, at the first block heard and after a repaired block |
| link_sessions | k=1, n=2, a session per block, 3 sessions, one card, the receiver starts twice | `NeverBack`: the receiver never goes back to an old session; `OpensWhatItHears`: only a lost key makes the receiver blind |
| link_cards | k=n=2, a session per block, 2 sessions, two cards, the receiver starts twice | `ImplementsStream`: the link refines LossyStream over rollovers and restarts, copies, overtaking between the cards and old keys do no harm but that the stream may begin anew; `OnlyNew`: no datagram is handed over twice in a row either, which the stream could not see; `OnlySent`: when an old key takes the receiver back, nothing comes out that was not sent in the session it comes out in |
| telemetry | limit 4, timeout 2, sizes 1, 3, 5, 4 messages; two wlans, one with two antennas, hysteresis 3 | `WaitsAtMostTimeout`, `InOrder`, `Leaves` (everything leaves in the end), `PacketsCutUp`: each whole packet of a batch comes back in a datagram of its own, what follows in one more, nothing beyond the end of the batch is read and at most a rest shorter than a header stays behind; `ChoiceGoodEnough`: after a period the wlan in use has an antenna within the hysteresis of the strongest heard, and one that has is kept; `StatusFits`: the status can always be packed |
| tunnel | interval 2, 2 packets, tunnel with two children beside a service with one, 2 commands | `SilenceBounded` while the keepalive call runs, `NothingLost`, and `Drained` while the device is there, under every failure of read, write, send and keepalive; `StatusTruthful`, `FailureEndsServer` of the server; `DeviceOfLivingService`: the device never outlives its sockets |
| supervisor | two wlans, two starts, two kills under way | `NoOrphan`: shutdown leaves no child, but for one without a name yet or one the very last kill failed on; `WlansBack`; `ChildOnMonitor`: none on half set-up wlans; `Ends`; of the monitor `OnePipeline`, `NoPipelineLeft` and `Returns`: a pipeline comes back, unless the thread failed before its loop |
| mavlink | every message of the dialect in version 2, with its zeros left off, and in version 1 (483 lines); 45 lines of five segments with noise, unknown, damaged and undecodable frames; chunks of 7 and 400 bytes, one lost connection | `AsSent`: what is handed over was sent, every field of it; `CatchesUp`: no whole frame stays behind a good one; `WithinOneDegree` of the gimbal |

Two runs end in a violation and document a finding:

1. **skipped_fec** (`AlwaysGenuine`). rx.cpp:597 looks at `fragment_map[send_fragment_idx]` in every
   turn of the loop over `f_idx`. A complete block that was not yet the oldest, with its first
   fragment there and a later one lost, is sent without decoding, and stale bytes of the buffer go
   out in the place of the lost packet.
2. **proxy_empty** (`WaitsAtMostTimeout`). After an empty datagram the timer is never scheduled
   again and a later `cancel` raises; telemetry/conf/master.cfg:15 promises 100 ms.

Three more differences between the code and what it says of itself are in the models and need no
run, as they are one comparison each: README.md:10 promises packets at once, but a block that
becomes the oldest keeps its gap-free prefix until one more of its fragments comes (`YieldedTo`);
README.md:27 allows datagrams of 1466 bytes and `recv` truncates at 1446 (`Received`);
server.py:153 compares a pair with 0, so the flag for a jammed link is never set (`Status` leaves it
out).

### Bounds, and why they are enough

- `MaxBlock` bounds the blocks of a session in RxRing: the models need more blocks than the ring
  has slots, so that slots are reused and a loss of whole blocks pushes across the ring (5 blocks
  over 2 slots), and at least two blocks in the ring for the oldest to be overtaken. In
  Transmitter it is the code's own limit, made small so that rollovers happen.
- `LogEvery` (1 in the runs) bounds packets between two `dump_stats`; the properties compare
  counters over one call, so their absolute values do not matter.
- `SeqMod` is 2^32 in the code. 64 never wraps in a run; 6 leaves three blocks before the
  wrap and two after it.
- `MaxSession` and `MaxArrivals` (video_source): a rollover needs 4 datagrams, so six show a
  rollover, the block after it, and failed injections and restarts before and after it.
- `Backlog`, `MaxPackets`, `MaxRxStarts` bound WfbLink; with one card a backlog of 3 or 4 lets
  packets of a block, a key and the next session wait together. With two cards one each is
  enough for one card to hold the old key while the other hands on the new one; the proofs are for
  any number of cards and any backlog.
- `MaxMessages` (4) fills the proxy's queue more than once with every mix of sizes. `MaxCount` (3)
  stands for the 65535 of a 16-bit field; the counters of the run add up to 4.
- `MaxPackets` (2) and `MaxWaiting` (1) of TunTap: two packets are enough for `doWriteRaises` to
  fail after one; the proofs are for any number.
- `MaxStarts` (2): a child or pipeline of an earlier start meets the next one. `MaxKills` (2): the
  last kill of one start and the first of the next are under way together.
- `MaxLosses` (1): one connection is lost besides those that an exception ends. Chunks of 7 bytes
  cut every frame in several places, one of 400 takes a line at once.
- Keys are symmetric in the run `sessions`; the property has no constant key in it.

`CHECK_DEADLOCK FALSE` stands in runs of modules that stop: by their bounds (no more arrivals,
sessions, messages, starts), where the real program waits for input, or because the program ends.

### Fairness

- VideoSource assumes `WF(Loop)`: a process that is runnable polls and receives. It is not assumed
  that arrivals stop; they are bounded by `MaxArrivals`, and with arrivals that never pause on one
  socket the code does starve the others (hazard at tx.cpp:284).
- UdpProxy and Telemetry assume `WF(flush_queue)` and `WF(Tick)`: the reactor's clock runs and due
  calls are made. `Tick` waits for a due call, so the model's timer is never late;
  `WaitsAtMostTimeout` is therefore exact up to the reactor's latency.
- TunnelService assumes the same of `Tick` and `send_keepalive`, that the reactor, which watches a
  device with a queue, calls `doWrite` in the end (`Progress`: it writes the queue or raises), and
  that a stopped reactor ends (`Exit`).
- Supervisor assumes that the main thread goes on (`WF(Main)`, `AfterExecute`, `Exit`), that the
  monitor thread does (`Kill`, `Start`, `Wake`), and that a kill that was started works in the end
  (`KillWorks`). The commands of the monitor's loop may fail at any turn but not for ever:
  `SF(Check)` and `SF(Restart)`, strong because every failure disables them for a while. The two
  before the loop may fail too, and then for good (`StartupRaises`): fairness only says that the
  thread gets past them in one way or the other, and `Returns` excepts the failure.
- Nothing is assumed of the radio, the clients, the users, children, pipelines or failures.

## 4. What is proved

TLAPS proves the theorems below for every value of the constants that satisfies the named
assumptions: `1 <= fec_k <= fec_n`, a ring of at least one slot and so on in `RxRing`, `Transmitter`
and `WfbLink`; `ConstantsOK` in `Telemetry`, `TunnelService` and `Supervisor`, each a conjunction of
the assumptions its components name. A theorem about one component asks for that component's part
only.

**RxRingProofs.** The invariant is `RingInv == RingTypeOK /\ RingWindow /\ UnfinishedBlocks`. Types
alone are not inductive: that a slot is overridden only after its block was flushed needs the window
(the blocks in the ring are consecutive and end with the newest known one), and that at most one
block finishes in a call needs that no unfinished block holds `fec_k` fragments. From it:
`WindowCorrect`, `UnfinishedCorrect`, `RingCorrect`; `SentBelowCorrect` (all that was sent lies
below what the ring holds), from which `DeliveryInOrder` follows; `HeldCorrect` (buffers hold what
was received); `ReceivedNotDropped` and `WindowMovesForward` as action properties. All these hold
with and without encryption.

`CompleteBlocksSent` needs `CompleteInv`, which adds `PrefixSent`: what the ring counts as sent of a
block lies at or below `high`, so that a block cannot be taken as sent that was not. Of a complete
block the call sends the rest in one go; a packet of it can only be left out as bad when its buffer
holds `Junk`, and what was received or decoded does not. That asks for fragments of one session
(`OneSession`: encryption, or one key in the clear).

`GenuineInv` adds that a buffer the ring counts as held has the packet of its block and of the
current session; what a call sends is then either such a buffer, or decoded, or the one exception of
finding 1, which is `ReceivedStaysGenuine`. `CountInv` ties `seq` to `high` modulo the width of the
counter. The counters are sums over the set of packets a call sends, in the order of their turns:
the lemmas about `Losses` take the packets off one after the other, so that the sum telescopes. That
gives `LossesNotMadeUp` for any wrap, and `EachPositionCountedOnce`: until a session has sent
`SeqMod` packets, 2^32 in the code, sent, lost and bad add up to the way the stream has moved (past
that a loss over the wrap is not counted). The theorems about contents ask for encryption (`IsEncrypt`): without it
two transmitters may mix in one block, and a buffer of unknown bytes may be the first one sent.
`ReceiverTypeOK` collects the types, counters included.
`UnfinishedCorrect` and `HeldCorrect` are proved only: no run checks these two, as what they protect
shows in `NothingDropped` and `ReceivedIsGenuine`.

**TransmitterProofs.** The invariant `SendInv` orders every used (key, nonce) pair before the next
block's nonces and ties the age of the key to the announcement timer; `NonceNeverReused`,
`KeyBeforeData` and `IndexesAccepted` (no packet fails the receiver's check of its indexes,
rx.cpp:514) follow. `SizeInv` (the block size is that of the largest datagram so far) gives
`ParityCoversBlock`. `TypeCorrect` collects the types. `GapInv` (what was sent are fragments of
blocks up to `block_idx`, and all of them up to `fragment_idx` in it) gives
`NoFragmentSkipped`, and the facts about one datagram (`SentKeys`, `SentNonces`, `SentData`,
`TurnFacts`) that the link rests on.

**WfbLinkProofs.** The transmitter's and the receiver's theorems are used on a link's own variables:
both modules are instantiated, and every step of the link is shown to be a step of each or a
stutter. Both sides encrypt, as in the runs of the link. What is opened and repaired is shown for
one card (`Cards = {c}`), what comes out for any number. `OnlySent` and `HandedWasSent` are about
positions; what a datagram holds is in `Repaired` and in `ReceivedIsGenuine`. What a restart of the
receiver loses counts as missed: that it finds its way back is not shown.

With one card the invariant `LinkInv` joins `GapInv` and `GenuineInv` through the queue: sessions in
the queue only rise, each DATA packet was sent and has its KEY packet before it in the queue, or the
receiver has that key, or the packet was missed; an announcement that is not yet due means the
current key is among them (`QueueInv`). What the ring holds was sent (`RingSent`). `HeardIsOpened`
is a part of it.

With any number of cards `CardsInv` keeps what does not depend on their order: what waits at a card
was sent, and so was what the ring holds and what came out, which is `HandedWasSent`. `LastInv` adds
that nothing handed over lies past the stream, and every step keeps both. `LinkIsStream` is a
refinement of `LossyStream`: sending a datagram adds a number above all others (`DatagramAdded`), a
call of the receiver hands over a set of sent numbers above the last one - recovered fragments too,
as nothing is sent before the fragments it was computed from (`NoFragmentSkipped`) - and a restart
of the receiver, or a KEY packet of an older session, forgets the last one. The same steps give
`LinkHandsOnce`. How often the stream begins anew is the question that is left: with one card
`LinkInv` shows that the sessions the receiver takes only rise (`OneCardNeverBack`), so only its own
restarts do it.

`BlocksRepaired` is the other half: what must come out. A fragment is taken (`Taken`) when it was
sent, was not missed and does not wait any more. `RepairInv` says what the receiver owes for what it
has taken of each block. A block that is neither the newest one nor of a session to come gets
nothing more, and it is settled: if `fec_k` of its fragments were taken and the block before it was
repairable or nothing came before it (`Clean`), all its datagrams are out (`Good`). Of the newest
block the ring holds just what was taken (`NewestInv`): alone in the ring it is handed over as it
comes, and if it waits behind another block, that one could not be repaired, so that nothing is
owed. This is inductive because with one card the DATA packets of a session come once and in the
order of their nonces, none below the newest block (`WaitingInv`). Counting then turns it into
`Repaired`: what was missed of a block and what was taken of it are its `fec_n` fragments
(`LostCounted`, `GotUnlessLost`).

**TelemetryProofs.** `QueueInv` says that a timer is pending just as long as something waits, and
that the age of the oldest byte and what is left of the timer make the timeout; `TimeoutKept`
follows for clients that send no empty datagram (with one it is false: finding 2). `OrderInv` (the
queue holds the messages since the last one sent, numbered one by one, and is as large as the code
counts) gives `MessagesInOrder` under the same condition. `BatchCutUp` needs no invariant but a fact
about the loop of `write`: the headers it reaches are the first ones (`ReachedIs`), each starts
where the packet before it ends (`StartsAre`), and a slice is as long as the frame its header
announces (`FrameIs`) unless it is the last one. It is about batches in which there is a header
wherever the loop looks for one (`BatchAssumption`: bytes are always some header, if only an
unsupported one). Sizes and places are running sums, `Sums`, a recursive function: that it exists
and what it is follows by taking the least place where it would fail (`SumsExist`, `SumsAre`).
`AntennaInv` (the readings are those of the antennas heard in this period, and the socket in use is
that of the selected wlan) gives `ChoiceHolds` and, as the counters are natural numbers,
`StatusAlwaysFits`. `ChoiceHolds` asks that no reading is as low as -200 plus the hysteresis, which
stands for no reading; dBm in a signed byte never are. The maxima of the choice are shown to exist
from the well-foundedness of the naturals.

**TunTapProofs.** `TunInv`: while the keepalive call runs, the silence and what is left to the next
call make one interval (up to two after the device has failed in the middle of a packet), the queue
is the numbers after `written`, up to `accepted` while the device is there, and the reactor watches for writing just when it is
not empty. From it types, `SilenceBounded`, `NothingLost`, `WatchedWhenQueued`, `OnlyWhenSilent`.

**TunnelServiceProofs.** `RunsTheTunnel` is a refinement: whatever start-up, children and end of the
service do, the device behaves as the specification of `TunTap`, in which it may be closed at any
time. The four theorems about the tunnel are lifted through it. `EndInv` (the flag and the history
of failures agree, and before the services start only a command can have failed) gives
`StatusIsTruthful`; `SocketsInv` (a service has sockets just as long as its deferred has not fired,
and the tunnel's device only then) gives `SocketsLive` and `DeviceLives`.

**SupervisorProofs.** `MonitorInv` ties each place in the thread's loop to what may run then:
between its kill and its start a pipeline is there only with a kill under way, between check and
restart there is none, and after the last kill was asked for it is under way, or nothing is left, or
the thread was later or the kill did not start. `OnePipelineHolds` and `NoPipelineLeftHolds` follow.
`ToolInv` describes the set-up command by command (done commands have left their effect on their wlan), what the last kill
can still see, and which wlans are set back; that the last command changes neither mode nor link of
its wlan is what lets it still run while `quit` sets the wlans back. It gives `NoOrphanHolds`,
`ChildOnMonitorHolds`, `WlansBackHolds`, for any number of wlans and starts.

**GimbalProofs.** These theorems are about all lines, reads and losses, all values of all fields,
and the code that handles bytes. They rest on `DialectAssumption` and `LineAssumption`.

- `RoundTrip`: what `pack` writes of a message is a frame, and `decode` reads that message from it.
  The values before a field, and the bytes before a value, are running sums (`UptoIs`), so that the
  place `pack` writes a byte to (`WireIs`, `PayloadIs`) and the one `unpack` and `Ordered` read it
  from (`PlacesAre`, `OrderedIs`) are the same; trailing zeros left off come back as the zeros that fill the
  payload up (`FillsIs`), and a string ends at its first NUL. The checksum need only be a function.
- `LinkInv` ties the parser to the line: what is in its buffer is the end of what was read of the
  stream, and it never expects fewer than eight bytes. `HandedAsSent` (`AsSent`)
  follows with `SentInv`: the parser stands at a cut, that is at the beginning of a segment or within
  noise, and what was handed over or is still to be was taken from segments before it, in their
  order. Each step of the loop takes a frame or a byte of noise, to the next cut; an exception, a new
  chunk or a new connection only moves on to a later one. The theorem asks that the line consists of
  whole frames, whether refused or not, and of noise without a marker (`FramedLine`): in the run
  these are all lines but the nine with a damaged length. Where a length byte is damaged the
  parser takes whatever bytes follow for a frame, and only a checksum of 16 bits tells: bytes that
  happen to have the right one come out as a message nobody sent, so the hypothesis is needed.
- `NoneLeftBehind` (`CatchesUp`) needs only `LinkInv`, on any line: with the parser at the beginning
  of a good frame, each round of the loop takes the next whole one (`GoodStep`, `NextRound`), and it
  ends at the first that is not there to its end.
- `LinkDrivesGimbal` is a refinement, on any line: `SoundInv` (each RC_CHANNELS message that is
  decoded, from whatever bytes, has two bytes for each of channels 6 to 8) makes each step of the
  connection one of `Gimbal` or a stutter. `GimbalInv` (the command sent last says what is
  remembered) gives `GimbalTypes`, `NeverAdrift` and `NeverTrembles` for all 65536 values of every
  channel, and through the refinement `LinkNeverAdrift` (`WithinOneDegree` of the run).

### Only model-checked

- `AllServed`, `Leaves`, `Drained`, `FailureEndsServer`, `Ends`, `Returns`: liveness under fairness
  is outside what the prover supports, as is ENABLED.
- `AsSent` on lines with a damaged length byte, see above.
- That the classes of the dialect agree with themselves (`DialectAssumption`): a fact about the
  numbers of 173 records, which the run evaluates.

## 5. What is not modelled, and why

- The FEC field arithmetic, cryptography, radiotap parsing and pcap: vendored or external, taken
  as exact (`Recovered`, `Accepted`).
- Signal strengths in rx.cpp: `log_rssi` keeps only how many packets an antenna heard.
- What was handed over before a receiver went back to an old session, whose datagrams may come out
  once more: `LossyStream` forgets it there. `Repaired` and `OpensWhatItHears` are stated and proved
  for one card: with several, what one card missed another may have heard, and a packet may come
  before the key that waits at another card.
- The link in the clear, which is how the launchers run it: a receiver then takes packets before it
  has a key, the first KEY packet resets its ring in the middle of a block (rx.cpp:459), and packets
  of two transmitters mix in one block (rx.cpp:505). `RxRing` has that mode (`IsEncrypt` FALSE), and
  the theorems about it that do not name encryption as a hypothesis hold there; but no run checks
  it, as the stream instance in the clear does not end within five minutes, and the properties of
  `WfbLink`, which tell datagrams apart by the receiver's session, are for the encrypted mode.
- The proxy's mode without aggregation, which forwards at once, and its clients' addresses beyond
  the last one heard.
- Of mavlink.py: the enumerations (numbers and texts), the `x_encode` and `x_send` wrappers, which
  pass their arguments on, signing, which nothing turns on, and `robust_parsing`, which is off.
- The half line that a dead child leaves in its protocol's buffer (wfb/protocol.py:185): in the tool
  these lines reach only the log.
- Console, latency tool, key generator, configuration, scripts: no interaction with the link beyond
  start-up values.

## 6. Plan

Done: the link with its proofs, the MAVLink service, the tunnel and the server's start-up and end,
the broadcast tool with its monitor, the gimbal with the MAVLink dialect and the proofs about both.
Of the properties of the runs, those listed under "Only model-checked" are the ones without a
theorem. A next step would be a form of
`Repaired` for several cards, where a fragment counts as heard when any card heard it.
