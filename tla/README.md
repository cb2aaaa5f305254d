# A verification model of the TETRA base station

The repository is a TETRA base station for a Zynq-7020 board. The lower layers
are Verilog (`rtl/`), the attach daemon and the call control are C on the ARM
core (`sw/`), the web interface is shell CGI scripts (`sw/web/`). Beside the
station stands a tool chain in Python (`scripts/`, `tb/vectors/`): decoders that
read recordings of the air, decoders for single PDUs, the analysis of their logs,
generators of the test benches' vectors, scripts that mirror the hardware's
receiver, and the tool that writes and measures the transmitter's schedule. The
tool chain is what tells the team whether the station works, so it is modelled
with the same care as the station.

This directory holds TLA+ modules of both, the TLC configurations that check
them on small instances, and theorems that TLAPS checks for all values of
the constants. Everything is translated from the code; the lines that each
definition stands for are in `PROJECT.json` under `map`.

1. [The system](#1-the-system)
2. [Modules and how they correspond to the code](#2-modules-and-how-they-correspond-to-the-code)
3. [What the runs show](#3-what-the-runs-show)
4. [Where the code does something else than the text beside it](#4-where-the-code-does-something-else-than-the-text-beside-it)
5. [Bounds, and why they are enough](#5-bounds-and-why-they-are-enough)
6. [Fairness](#6-fairness)
7. [What is proved](#7-what-is-proved)
8. [Simplifications](#8-simplifications)
9. [Not modelled](#9-not-modelled)
10. [Plan](#10-plan)

Running it, in this directory:

    tlc -workers 2 -config CallFSM.cfg MCCallFSM     # run -> module: see PROJECT.json
    tlapm CallFSM_proofs.tla                         # likewise every *_proofs

## 1. The system

### Components of the station

| Part | Source | State it keeps | Operations | Status |
|---|---|---|---|---|
| Call control | `sw/tetra_call_fsm.c` | 8 call slots, next call identifier and usage marker, cached voice mask | one handler per CMCE PDU, late entry, the tick (setup sequence, ring timeout, quiet and stale timers), notification of a speech burst | modelled |
| Downlink queue, scheduler, dispatcher, AACH encoder | `rtl/lmac/tetra_dl_signal_queue.v`, `tetra_dl_signal_scheduler.v`, `rtl/tx/tetra_burst_dispatcher.v`, `tetra_aach_encoder.v` | 4 queue entries, drop counters, grant hint, reserved-frame hold, prepared AACH | three write ports, pop, encode, dispatch, one slot pulse each 14.17 ms | modelled |
| Uplink demand path | `rtl/lmac/tetra_ul_mac_access_parser.v`, `rtl/rx/tetra_ul_demand_reassembly.v`, `rtl/lmac/tetra_ul_demand_body_mailbox.v`, `service_uldbod` in `sw/tetra_attach_daemon.c` | last address, two reassembly slots with timers, one body | fragment 1, MAC-END-HU, frame tick, hand-over, release | modelled |
| Pre-reply FSMs and shared encoder | `rtl/lmac/tetra_pre_reply_slotgrant.v`, `tetra_pre_reply_blck.v`, `tetra_sch_hd_shared.v` | one job each, one encoder with an arbiter | trigger, build, encode, push | modelled |
| Reply path | `sw/tetra_tx_transport.c`, `rtl/lmac/tetra_reply_mailbox.v`, `tetra_mle_registration_fsm.v`, `tetra_dl_pdu_builder.v`, port multiplexer in `rtl/tetra_zynq_top.v` | mailbox words, busy flag and its mirror, the PDU being built | submit, slot grant, GO, build, push, detach | modelled |
| Subscriber database | `sw/tetra_db.c`, registration in `sw/tetra_attach_daemon.c`, `sw/web/cgi-bin/entities.cgi` | table in memory with the file's time, the file, two temporary files | load, reload, enrol, save, edit | modelled |
| Daemon loop | `sw/tetra_attach_daemon.c` | sequence numbers, polling state | tick, demand service, CMCE dispatch, reload | partly: the dispatch of CMCE PDUs is an input of `CallFSM` |
| Voice pipe, filler banks | `sw/tetra_voice_pipe.c`, uplink burst mailbox | captured burst, stopwatch, 4 banks | read, relay, acknowledge | partly: the effect of a burst on calls, banks and slots |
| SDS | `sw/tetra_attach_daemon.c` (relay, pacing, long messages), `sw/tetra_sds_dl_frag.c` | one delivery with its fragments | acknowledge, relay, fragment per slot | partly: its gate in `DownlinkSlot`, its first hop in `ULReassembly` |
| Time base, schedule, content multiplexer | `rtl/tx/tetra_tdma_timebase.v`, `tetra_slot_schedule.v`, `tetra_slot_content_mux.v` | slot, frame and multiframe counters, schedule memory | count, preload, rewrite | partly: the frame structure in `DownlinkSlot`, the memory's layout in `ScheduleBench` |
| Receiver lock and frame counter | `rtl/rx` | lock, frame number | lock, lose, count | partly: locks and unlocks at any time |
| PDU builders and parsers, registers and bus, web interface | `rtl/lmac`, `rtl/infra`, `sw/tetra_cmce_*.c`, `sw/web` | registers | bit layout, register access, requests | partly: which builder a PDU goes through, the crossings of the modelled registers, the database editor |
| PDU registers and monitor, uplink receiver in C, signal processing, channel and speech coding in Verilog and C, driver, board scripts | | | | not modelled: section 9 |

### Components of the tool chain

| Part | Source | State it keeps | Operations | Status |
|---|---|---|---|---|
| Downlink decoder | `scripts/decode_dl.py` | locked cell and layout, network time, scrambling code in force, counters | acquire, lay the grid, classify, decode and parse one slot, filter, summary | modelled |
| Uplink decoder | `scripts/decode_ul.py`, `verify_ul_ra_burst.py` | bursts found, results, chains of fragments | find, sample, guess, decode, parse, join, list | modelled |
| Sync and BNCH decoders | `scripts/decode_sb.py`, `decode_bnch.py` | candidates, tallies | try layout, bit order, CRC reading and code; majority vote; broadcast block | modelled |
| PDU decoders | `scripts/decode_pdu.py`, `reassemble_ul_demand.py`, `decode_ul_raw.py` | a cursor | one parser per PDU, optional elements, joining two halves | modelled |
| Log analysis | `scripts/parse_reference_decode.py` | events of two logs, time base | read the logs, inventory, layers, pairs of action and reaction | modelled |
| Vector generators and receiver mirrors | `scripts/gen_*`, `check_ul_*`, `verify_sb1_encoder.py`, `verify_sch_hu_decode.py`, `decode_tch_s.py`, `tb/vectors/gen_*` | none | encode, modulate, demodulate, decode, compare | partly: two bench scripts are defined and run by nothing |
| Schedule tool | `scripts/schedule.py` | anchor, grid | measure a recording, write blob and header | modelled |
| Filter and noise scripts, reports, build, debug | `scripts/`, `tb/vectors/`, `osmo-debug-rx/`, `tools/`, `archive/` | | | not modelled: section 9 |

### How they interact

    mobile --burst--> receiver --> MAC-ACCESS parser --> reassembly --> body mailbox
                                        |                    |               | poll
                                        v                    v               v
                                   slot-grant FSM       BL-ACK FSM      attach daemon
                                        \                 /              |   |    \
                                         shared SCH/HD encoder     call control  database
                                         |              |                |            |
                                       (MLE port)   (SDS port)     reply mailbox   web editor
                                         |              |                |
                                         v              v                v
                                       downlink queue <------------ MLE FSM, CMCE port
                                             | pop
                                             v
              AACH encoder --> scheduler, dispatcher <-- filler banks <-- voice pipe
                                             |          ^
                                             v          | schedule memory
                                   downlink slot        |
                                             |     schedule.py (preset, measurement)
      mobiles' bursts                        |          ^
            |                                v          |
      uplink recording              downlink recording -+
            |                                |       \
       decode_ul.py                    decode_dl.py   decode_sb.py, decode_bnch.py
            \ log                      / log    
             parse_reference_decode.py         decode_pdu.py, reassemble_ul_demand.py,
                                               decode_ul_raw.py (single PDUs)

The daemon is one thread that polls registers and sleeps; the hardware runs in
several clock domains, so a flag such as *busy* is seen a few cycles late. Web
requests are separate processes that share the database file with the daemon.
The scripts are sequential; what comes at them in any order is the air: cells,
mobiles, losses and the moment at which a recording begins.

### Where it is hard

* **Two actors, one place.** Two stations share the two reassembly slots and the
  one remembered address; two FSMs share an encoder; a slot grant and a reply
  share a queue port; the web editor and the daemon share a file; the tick and
  the voice pipe share a call's time stamp. Two cells share a channel that the
  downlink decoder takes for one grid of slots.
* **Decided early, used late.** The AACH of a slot is encoded one slot ahead of
  the PDU it announces; the acknowledgement's address is read after later bursts
  have changed it; a save writes a table older than the file. The decoder uses the
  scrambling code and the time of the last sync burst it took.
* **Lost one-cycle events.** GO, detach and grant triggers are looked at in one
  state only; a drop counter takes one increment for two events.
* **Time.** Setup sequences in steps of 113 ms, ring and stale timers on a 32-bit
  millisecond clock, reassembly timers that only run while the receiver is
  locked, file times with a resolution of a second, slot labels that wrap after 4,
  18 and 60 and repeat every hyperframe.
* **Crashes and full disks** in the middle of a save; a decoder that dies before
  its summary.
* **Said twice.** Three scripts parse the same PDUs, four decode the same channels,
  the hardware's encoder has a mirror in software: a test bench trusts either.
* **Order without a name.** The list of PDUs at the end of the uplink log has no
  burst numbers; a fragment of a long message does not say whose it is.

`PROJECT.json` lists each of these hazards at its line, with the properties that
would show it going wrong.

### What makes each part correct

* *Calls:* a mobile is in one call, a timeslot carries one call, the AACH
  registers advertise exactly the running calls, whoever was granted a channel
  talks on a live one, freeing a call disturbs no other, and an abandoned call
  ends.
* *Downlink:* an accepted PDU is sent once and whole, in priority order; a slot
  announces signalling only with a PDU in it.
* *Uplink demands:* a body consists of two fragments of one station; each is
  served, waiting, or counted as dropped.
* *Replies:* each reply reaches the queue once, whole, in order, with its own
  code word and address.
* *Database:* the file is whole at every crash point, an accepted subscriber is
  in it, once; memory follows the file.
* *Recordings:* every slot and every burst is counted once and labelled with the
  time of the cell it is read for; once it has locked and is told its cell, what it
  reads of that cell's bursts does not depend on other cells;
  every row of a log gets its own PDU, a message its own fragments, a reaction its
  true delay.
* *PDUs:* every field that was sent is read from its own bits, by each parser.
* *Blocks:* what the code can correct is corrected, what comes out nearly right is
  refused by the CRC, and hardware mirror and software agree.

## 2. Modules and how they correspond to the code

### The station

| Module | Models | State | Actions |
|---|---|---|---|
| `CallFSM` | `tetra_call_fsm.c` | `slot` = `g_slots`, `nextCallId`, `nextUmt`, `aach` = the SLOT_AACH registers, `mask` = voice mask, `bank` = filler banks, `out` = PDUs of the last round, `pc`/`cursor` = the position of the daemon's loop | `SetupOwn`, `SetupFloorTransfer`, `SetupNew`, `SetupRefused` (the branches of U-SETUP), `TxDemand`, `TxCeased`, `Connect`, `Release`, `LateEntry`, one visit of the tick per slot (`VisitRinging`, `RingTimeout`, `VisitActive`, `Watchdog`), a burst (`Refresh`), the sleep |
| `VoiceChannels` | what the call control promises: abstract specification | `chan`, `air` | `Open`, `HandOver`, `Close` |
| `CallClock` | the 32-bit time arithmetic of the tick | clock, stamps, and the true elapsed times as history | tick, burst, setup step, answer |
| `DLSignalQueue` | `tetra_dl_signal_queue.v` | `entry`, drop counters; history `offered`, `sent`, `dropped` | one clock edge: up to three writes and a pop |
| `PriorityBuffer` | abstract specification of the queue | the sets of PDUs that wait, have left and were lost | `Exchange` |
| `DownlinkSlot` | EXTENDS the queue: scheduler, dispatcher, AACH encoder, AACH multiplexer | `now`, `aach`, `hold`, `grant`, `voice`, `sds`, `valid`, `air` | slot pulse, write between pulses, each software write |
| `ULReassembly` | parser, reassembly, body mailbox, `service_uldbod`, with the mobile stations as environment | `slot`, `ulIssi`, `contSsi`, `mailbox`, `daemon`, `station`, ... | fragment 1, MAC-END-HU, frame boundary, poll, act, release, lock, unlock |
| `PreReply` | the slot-grant and BL-ACK FSMs, `tetra_sch_hd_shared.v` | the registers of each, edge by edge | one clock edge with any set of triggers |
| `ReplyPath` | composes `PreReply` (INSTANCE) with `tetra_tx_submit`, the mailbox, the MLE FSM, its builder and the port multiplexer | `mb`, `mle`, `busyAxi`, `built`, ... | one clock edge of all of them |
| `EntityDB` | `tetra_db.c`, `react_mm2_locupd`, `react_mm7_grpid`, `entities.cgi` | `file`, `tmp`, `new`, `ram`, `memo`, `pc`, `edit`, ... | one action per system call, a crash, a restart |

### The tool chain

State machines:

| Module | Models | State | Actions |
|---|---|---|---|
| `DlDecoder` | `decode_dl` of `decode_dl.py` from acquisition to summary | `acq`, `layout`, `nt` (the network time), `code`, `fn`, `count`, `bad`; history `start`, `synced`, `last` | one slot of the grid: `EmptySlot`, `SyncLost`, `SyncBurst`, `NormalBurst`; `Summary` |
| `ReferenceCapture` | both recordings of one session: what `decode_ul.py` and `decode_dl.py` print, read by `parse_reference_decode.py` | `ul`, `dl`: the bursts in the air so far | the next burst of either recording |
| `PduBench` | a sender of PDUs (environment) and every parser of them | the PDU, its optional parts, its groups, where it is divided, which bit is wrong | a bit is damaged, a demand asks for groups, it is divided |
| `CodeBench` | a block encoded by the generators and decoded by every decoder | logical channel, block, wrong bits | a bit goes wrong, a fade |
| `ScheduleBench` | the transmitter's preset and its measurement by `schedule.py` | where the recording begins, how clear each slot is | the next slot |

Operators, composed by these:

| Module | Translates |
|---|---|
| `BitFields` | the way all parsers read: a position, fields that fit or do not, early returns |
| `ChannelCodes` | scrambler, interleaver, puncturing, Viterbi (hard and soft), CRC-16, CRC-32, Reed-Muller of `decode_dl.py`; what the encoders do in front of it: the interleavers of `verify_sb1_encoder.py` and `decode_tch_s.py` and the puncturing |
| `DlPdu` | its SYNC, MAC, LLC, MLE, MM parsers and the descent from one to the next |
| `UlPdu` | the uplink parsers of `decode_ul.py` |
| `UlDecoder` | the rest of `decode_ul.py`: burst finding, both layouts, the guesses of `try_channel_decode`, the chains of fragments |
| `SbDecoder` | `decode_sb.py`, `decode_bnch.py`: layouts, modulation, both codes, three CRC readings, vote, broadcast parser, tallies |
| `PduCli` | `decode_pdu.py` (each body and optional element), `reassemble_ul_demand.py`, `decode_ul_raw.py` |
| `ReferenceLog` | `parse_reference_decode.py`: both log parsers, time base, inventory, layers, pairing |
| `CodeVectors` | encoders and mirrors of `scripts/`: `gen_sch_*`, `gen_ul_*`, `gen_schf_*`, `gen_aach_reference.py`, `gen_d_nwrk_broadcast.py`, `verify_sb1_encoder.py`, `check_ul_*`, `verify_sch_hu_decode.py`, `decode_tch_s.py` |
| `BenchVectors` | the generators of `tb/vectors` (scrambler, CRC, interleaver, RCPC, Viterbi, Reed-Muller) and the operators of `schedule.py` |

A reader of `BitFields` keeps for each field the *span* of bits it was read from
and not a value, so two parsers agree when they have the same spans under the
same names; a value is computed only where the code tests one.
Fields are taken one after the other by recursive operators (`BitFields`, `PduCli`);
no module with theorems uses these.

`MC*` modules hold only model values, symmetry sets and small constant
definitions, and in `MCDlDecoder` the property that compares `DlDecoder` with
`schedule.py`. The theorems and their proofs are in `<module>_proofs`, one for each of
`CallFSM`, `CallClock`, `DownlinkSlot` (with `DLSignalQueue`), `EntityDB`,
`ULReassembly`, `DlDecoder`, `ReplyPath` (with `PreReply`) and `BenchVectors` (with
`ChannelCodes`).

In most modules some operators stand beside the ones in use as *faulty
variants* (the module's heading names them). The models do not use them: each is
a plausible bug, and for each property there is one variant under which
TLC finds that property violated. They are listed in `PROJECT.json` under
`mutants`.

### How far one step goes

* `CallFSM`: a CMCE handler is one step, since the daemon is one thread and
  interrupts nothing. The tick is one step **per slot**, because a burst that
  reaches the mailbox between two visits changes what the next visit sees.
* `DLSignalQueue`, `PreReply`, `ReplyPath`: one clock edge; every right-hand
  side is read before the edge, as in the non-blocking assignments.
* `DownlinkSlot`: one slot pulse; all writes of the queue's other producers fall
  between pulses or on the pulse.
* `ULReassembly`: one burst, which the hardware has finished long before the
  next one, or one frame boundary, or one step of the daemon.
* `EntityDB`: one system call; reading, writing or renaming a file is one step.
* `DlDecoder`: one pass of the burst loop. The other tool-chain modules let the
  environment grow a recording, a block or a PDU step by step, and evaluate the
  whole script on every state.

## 3. What the runs show

| Run | Question | Properties |
|---|---|---|
| `CallFSM` | Two mobiles, one group, two timeslots: any order of requests, bursts and timeouts | `OneCallPerMobile`, `OneCallPerTimeslot`, `AachFollowsCalls`, `SequenceFitsCall`, `GrantedOnLiveChannel`, `ChannelStays`, `OthersUndisturbed`, `ImplementsVoiceChannels`, `AbandonedCallsEnd`, `SetupCompletes` |
| `CallClock` | Does the 32-bit arithmetic of the tick keep its times? | `SetupOnTime`, `NeverTooEarly` |
| `DownlinkSlot` | Queue, scheduler, dispatcher and AACH encoder over every slot of a short frame structure; is the register array the abstract buffer? | `PoppedIsCarried`, `SignallingHasPdu`, `QueueDrains`, `ImplementsPriorityBuffer` |
| `ULReassembly` | Two stations, or one of them alone, with two demands each: losses, given up demands, late grants, a receiver that locks and unlocks | `BodiesConserved`, `OwnBodyAlone`, `PromptEndJoined` |
| `ClaimOwnBody` | Two stations at the same time (expected to fail, section 4) | `OwnBody` |
| `ReplyPath` | An accept, a raw reply and a slot grant in any order; a detach, an acknowledgement and a fragment at any clock edge | `QueuedAsSubmitted`, `OnlyDetachLoses`, `OwnWord`, `StartedIsQueued` |
| `EntityDB` | Registrations, failing saves, a full disk, a crash at any system call, two web requests at any moment | `FileWhole`, `NoTwice`, `AcceptedOnDisk`, `EditSeen` |
| `DlDecoder` | A recording with a foreign cell and direct mode on the channel, bursts lost or damaged, filter on or off, begun before every wrap | `Tally`, `LabelsFollowCell`, `OwnBlocksRead`, `ScheduleAgrees` |
| `ReferenceCapture` | An uplink and a downlink recording, decoded and read back from their logs | `RowsGetOwnPdu`, `WholeMessages`, `DelaysTrue` |
| `PduBench` | Five kinds of PDU, with few or nearly all optional parts, whole, with any one bit wrong, or a demand for one or two groups in two halves | `ReadAsSent`, `ToolsAgree`, `DemandRejoined` |
| `CodeBench` | Blocks of five logical channels, as sent, with one wrong bit or a short fade, through every encoder and decoder; near misses of their CRC | `Corrected`, `NearMissRefused`, `VectorsAgree` |
| `ClaimSchedule` | A recording of the generated preset, measured (expected to fail, section 4) | `MeasuredAsPreset` |

Some of these deserve a word.

* **`GrantedOnLiveChannel`** relates the PDUs of a round to the registers at its
  end: the timeslot that a D-CONNECT, D-CONNECT-ACK or D-TX-GRANTED names has its
  mask bit set and advertises the usage marker of the PDU, also when the PDU is
  one that the tick repeats.
* **`PoppedIsCarried`** leaves out three cases by name, in which the code does lose
  the PDU: a slot that the SDS filler owns, a synchronisation burst, and the
  low-aligned acknowledgement. In all others the scheduler's pop, the
  dispatcher's choice and the half of the slot must agree.
* **`QueuedAsSubmitted`** ties the mailbox words, three clock domains and the
  sleep after GO together: no entry of the queue mixes two submissions.
* **`EditSeen`** names exactly the moments in which an edit can be missed: the
  second of the daemon's own look at the file, the gap between reading it
  and asking for its time, and a file cut short by a full disk.
* **`LabelsFollowCell`** compares the decoder's clock with the true time of the
  cell whose scrambling code it uses, and says how wrong it is before the first
  sync burst: ahead by as many slots as lie in front of the burst it locked to.
  **`ScheduleAgrees`** compares it with `schedule.py`, which counts from one
  anchor with negative distances and sets no clock.
* **`OwnBlocksRead`** compares what is read of a burst of the cell asked for with
  what would be read without any other cell, and says when a foreign burst does
  end the script: only in front of the sync burst it locked to, when that foreign
  burst comes first and the second half of it fails (section 4).
* **`WholeMessages`** asks of a fragment, which carries no address, that it reaches
  the chain of its sender when no burst of another long message is received in
  between; of messages that overlap the code promises nothing.
* **`DelaysTrue`** says of `parse_reference_decode.py`, which aligns two recordings
  by one pair of bursts, that after the first sync burst every delay it computes is
  the true one relative to that pair, and the responses it lists for a burst are
  exactly the answers in the window.
* **`ReadAsSent`** takes the sender's list of fields with their bits and asks for
  the same bits back, no field more, for each set of up to three optional parts and
  each set that lacks up to three, as far as it fits into one block.
  **`ToolsAgree`** needs no sender: two parsers that go different ways through
  the same block, damaged in any one bit, must not read the same name from
  different bits. **`DemandRejoined`** divides a demand for one or two groups wherever
  both halves have room for it, so that the first half is now full, now ends on fill
  bits behind any of the demand's own bits.
* **`Corrected`** lets a decoder be hit up to the reach of its code: one wrong bit, or
  a fade that the interleaver must spread. **`NearMissRefused`** is a distance
  result for the CRC behind it: few wrong bits, or a short burst of them, pass no check,
  the sync scripts' three readings of the check bits included. What is far from the
  block that was sent may pass a CRC of 16 bits by chance, the more so as `try_channel_decode`
  asks it up to eight times; nothing is claimed about that.
* **`VectorsAgree`** is a conjunction for each logical channel: the hardware's way
  of encoding against the software's, modulated stimuli against what the bench
  expects, two readers of one broadcast PDU, an encoder of the vectors against
  its own inverse.

## 4. Where the code does something else than the text beside it

The models follow the code. Where a comment, a test or a document says something
else, the property above names the exception. `ClaimOwnBody` and `ClaimSchedule` each show
one such case on its own: TLC must find the property violated, and `PROJECT.json`
(`findings`) quotes the text. The others are behaviours of the operators in the last
column; where a constant is named, that value brings the behaviour into reach.
Paths are below `src/`; a bare line belongs to the file named before it.

### In the station

| The code | The text | In the model |
|---|---|---|
| A MAC-END-HU has no address and is tagged with the SSI of the last fragment 1 of any station (`rtl/lmac/tetra_ul_mac_access_parser.v:371`) | "supports two MS completing the two-burst handshake in overlapping windows" (`rtl/rx/tetra_ul_demand_reassembly.v:23`) | `SlotForEnd`; run `ClaimOwnBody` |
| The BL-ACK is addressed to the last station heard (`rtl/tetra_zynq_top.v:2910`) | the sequence at `rtl/tetra_zynq_top.v:2836` is that of one mobile | `AckDemand` |
| The start-up sets the reassembly timer to one frame, and a prompt second burst comes after that tick (`sw/tetra_hal.c:1807`) | "tight aber spec-genau" (`sw/tetra_hal.c:1803`) | `T0` with `T0Reg = 1` |
| Two expiries of one tick count once (`rtl/rx/tetra_ul_demand_reassembly.v:195`) | "number of fragment-1 latches that timed out" (`:58`) | `TickSlots` |
| Without a locked receiver there is no tick and no slot expires (`rtl/tetra_zynq_top.v:695`) | "1-cycle pulse at every TDMA-frame boundary" (`tetra_ul_demand_reassembly.v:48`) | `FrameEnd` |
| The pool of usage markers goes round without looking at running calls (`sw/tetra_call_fsm.c:122`) | "kollisionsfrei ... garantiert ok" (`:118`) | `NextUmt` |
| A mobile that owns a slot makes a second call of a group that has one (`:422`) | "KEIN neuer Slot, Floor an B transferieren" (`:419`) | `SetupOwn` |
| U-TX-DEMAND on a ringing call is granted (`:527`) | "KEIN D-CONNECT/Grant/Voice bis Annahme" (`:502`) | `TxDemand` |
| A called mobile that owns a slot answers its own call (`:610`) | "find via call_id, weil Callee's ssi NICHT in g_slots ist" (`:607`) | `Connect` |
| D-RELEASE of a group call goes to the talker only (`:377`) | "BS muss D-RELEASE an die Group senden" (`:662`) | `DRelease` |
| After a re-key the first U-TX-CEASED counts as a repetition (`:593`) | "beim ERSTEN U-TX-CEASED 3x" (`:588`) | `TxCeased` |
| Speech heard after a call fills the bank of the next one (`sw/tetra_voice_pipe.c:304`) | "Voice-Slot bleibt jetzt leer" (`sw/tetra_call_fsm.c:490`) | `VisitActive`, `Heard` |
| The age of a stamp ahead of the clock is 0, and after a wrap almost 2^32 (`sw/tetra_call_fsm.c:779`, `:781`) | "Saturating subtract" (`:777`) | `Age`; `NeverTooEarly` names the exception |
| A PDU popped in a slot that the SDS filler owns is lost (`rtl/tx/tetra_burst_dispatcher.v:226`) | "popping the entry here does not lose data" (`rtl/lmac/tetra_dl_signal_scheduler.v:117`) | `Body` |
| A PDU popped in the synchronisation anchor loses its first half (`tetra_burst_dispatcher.v:224`) | "signalling can ride either NDB or SDB slots" (`:203`) | `SyncBurst` |
| The BL-ACK is pushed into the half that is not read (`rtl/lmac/tetra_pre_reply_blck.v:209`) | "LSB-aligned (queue convention ...)" (`:204`); the opposite in `tetra_pre_reply_slotgrant.v:331` | `LowerHalf`, constant `LsbAligned` |
| What the AACH encoder consumed one slot ahead is replaced by a PDU written in between (`rtl/tx/tetra_aach_encoder.v:243`, `:252`) | "no overlap with queued-PDU path" (`tetra_zynq_top.v:4118`), "verbraucht keinen Hold" (`tetra_aach_encoder.v:79`) | `SlotPulse`, `HoldAfter` |
| A later PDU of equal priority in a lower entry overtakes (`rtl/lmac/tetra_dl_signal_queue.v:205`) | "tie within same prio: first insert wins" (`tb/tb_dl_signal_queue.v:312`) | `Ahead` |
| Two or three losses of one cycle wrap the drop counter (`:347`) | "Saturates at 16'hFFFF" (`:336`) | `CountUp` |
| The arbiter encodes an answered request again; the done pulse comes late, to the next grant (`rtl/lmac/tetra_sch_hd_shared.v:103`) | "Done-Puls + Coded-Output zurück" (`:20`) | `Grant`, with `SwGrants` |
| A grant requested by software while the FSM is busy is lost (`rtl/lmac/tetra_pre_reply_slotgrant.v:250`) | "Gibt MS-B den UL-Subslot" (`sw/tetra_tx_transport.c:70`) | `Begins` |
| A detach at the edge of GO wins (`rtl/lmac/tetra_mle_registration_fsm.v:418`) | "Returns 0 on ok, -1 on timeout" (`sw/tetra_tx_transport.c:50`) | `Starting`; `OnlyDetachLoses` |
| A grant and a reply of the same edge leave one entry (`rtl/tetra_zynq_top.v:3066`) | "the OR is sufficient" (`:3064`) | `GrantEntry`, `PortEdge` |
| A rejected registration leaves as an accept (`tetra_mle_registration_fsm.v:279`) | "drives the dedicated mm=4 D-LOC-UPDATE-REJECT path" (`sw/tetra_attach_daemon.c:595`) | `SharedBuilder`, with `Rejects` |
| Two web requests share one temporary file (`sw/web/cgi-bin/entities.cgi:104`) | "atomic via /tmp/db.tsv.NEW + rename" (`:115`) | `EditOpen`, `EditMove` |
| A full disk during a save is reported as success (`sw/tetra_db.c:197`) | "Roll back on save failure" (`:237`) | `SaveWrite` with `WriteFails` |
| Edits of the remembered second, or between reading and asking for the time, are missed (`sw/tetra_db.c:154`); a save overwrites edits not read yet (`:201`) | "picks up changes via mtime poll (5 s)" (`entities.cgi:10`) | `ReloadSame`, `LoadStat`, `SaveRename`; `EditSeen` |
| The permissions of a profile are never looked at (`sw/tetra_attach_daemon.c:629`) | "permit_reg=0 -> REJECT" (`docs/ARCHITECTURE.md:651`) | `Resolve` |

### In the tool chain

| The code | The text | In the model |
|---|---|---|
| `analyze` tries the shorter burst layout first and its sync block lies at the same distance in both, so the transmitter's own layout is locked as the other one and its normal bursts are classed empty (`scripts/schedule.py:125`, `:189`) | "genauen Schedule der -Zelle ermitteln, damit der FPGA-TX exakt nachgebaut werden kann" (`:5`) | `Lock`; run `ClaimSchedule` |
| Slot labels before the first sync burst taken in the loop are ahead of the air (`scripts/decode_dl.py:1780`) | they are printed like all others | `LabelsFollowCell`; `DelaysTrue` starts behind it |
| The second half of a two-channel burst is read as the broadcast channel in slot 1 of frame 18 (`scripts/decode_dl.py:2135`) | "BNCH slot = FN=18, TN = 4 - ((MN+3) % 4)" (`:359`) | `ReadAsBnch` beside `IsBnch` |
| Of two stolen halves that both decode the first is read and the second is dropped (`scripts/decode_dl.py:2028`) | "Pick the half that decoded successfully" (`:2027`) | `Read` |
| Behind the sync burst of a foreign cell, before the first of the own one, a second half that fails ends the script: `fn` has no value yet (`scripts/decode_dl.py:1909`) | "keep the locked cell" (`:1857`) | `SyncBurst`, `OwnBlocksRead` |
| Rows of two lengths, after a full slot among the bursts, end `decode_ul.py` in front of its list of PDUs (`scripts/decode_ul.py:952`) | "=== Descrambled type-5 (168 bit) match vs burst #0 ===" (`:955`) | `Finishes` in `ReferenceCapture` |
| `decode_ul.py` does not pass over ciphering parameters and reads a location area of 14 bits (`scripts/decode_ul.py:441`) | 15 bits in `scripts/decode_pdu.py:584` | the exception in `ToolsAgree` |
| The group address is read for address types 0 and 1 (`scripts/reassemble_ul_demand.py:235`) | "gssi (if addr_type ∈ {0,1,3})" (`:200`) | `PduCli` |
| Of a group to attach to 3 bits are read in front of the address type (`scripts/reassemble_ul_demand.py:228`) | "5 bits: if attach: GroupIdentityAttachment (lifetime 2 + class_of_usage 3)" (`:198`) | `GroupEntry`; `PduBench` sends the 3 bits |
| A concatenated dump that begins with a zero digit is refused (`scripts/decode_ul_raw.py:66`); the header is read with 2, 1, 2, 1 and 3 bits (`:106`) | "either one 23-char hex string or three words" (`:63`); 1, 1, 1 and 2 bits in `scripts/decode_pdu.py:486` | `ParseHexArgs`, `RawHeader` |
| The expected header always has encryption mode 0 (`scripts/gen_ul_mac_exp.py:59`) | "[28:27] encryption_mode" (`:10`) | `MacExp` |
| The checksum leaves out the last information bit: changing it does not change the CRC (`scripts/gen_d_nwrk_broadcast.py:54`) | "432-bit" (`:3`), where 288 bits are made | `TetraCrc16`; `BroadcastAgrees` asks for other bits only |
| The scrambler of the log analysis shifts the other way and has other taps than the decoders', so the type-4 and type-3 layers it writes are not those that were decoded (`scripts/parse_reference_decode.py:572`) | "we DISPLAY all four channel-coding layers" (`:17`) | `DescrambleBits`, `Chain` |
| The list of unprotected bits has 50 entries, 33 of all positions are in two classes (`scripts/decode_tch_s.py:46`); its scrambler is its own | "51 unprotected bits (Class 0)" (`:45`) | `DescrambleTchS`, `DecodeTchSBurst` |
| The code computes 0xA69D, so the script stops at its first assertion and writes nothing (`tb/vectors/gen_crc16_vectors.py:83`) | "canonical check value for CRC-16-CCITT = 0x29B1" (`:80`) | `Crc16FilesWritten` |
| The traceback yields zeros whatever was sent (`tb/vectors/gen_viterbi_vectors.py`) | `# Match: PASS` or `FAIL` is printed (`:265`) | `Traceback`, `Match` |
| The vectors of the RCPC encoder use the generators 1B, 19 and 15 (`tb/vectors/gen_rcpc_encoder_vectors.py:17`) | 13, 1D, 17 and 1B in `scripts/decode_dl.py:128` | `BenchVectors`, `ChannelCodes` |

## 5. Bounds, and why they are enough

Every bound is a CONSTANT of a configuration or a named definition.

* **Calls.** Two mobiles, one group, two call slots, two timeslots: two calls
  can contend for a slot, a marker and a group. Two mobiles that are in one call each at
  most never need a third slot, so no set-up is ever refused in this run, and
  `SetupRefused` does not fire. What refusing must not touch rests on the theorems
  of section 7, which have it among the actions and are about any number of mobiles, slots and
  timeslots; a third mobile makes the liveness properties too large to check.
  `MaxCallId` 2 and `UmtMax` 5 leave two identifiers and two markers, so that both
  counters wrap within a behaviour, calls that run have different ones and a call
  can get the ones of its predecessor. Times are in units of the setup gap of 113 ms; the timeouts keep
  their order (quiet before stale) and not their size. Ages stop counting one past
  the last threshold (`Oldest`), after which the code cannot tell them apart. The
  time a tick takes is charged to the sleep. `GrantedOnLiveChannel` rests on
  `VoiceQuiet >= SetupGap`, which the code's 300 ms and 113 ms give as long as a round of the
  loop takes less than their difference. `LossyReply` is FALSE: a PDU that the
  reply path loses only thins the list `out`, about which every property is
  universal, and changes nothing else.
* **Clock.** `Wrap` 24 stands for 2^32. `ClockAssumption` asks what makes the
  scaling harmless: that twice the sum of all timeouts and a round, and four rounds,
  are below the wrap.
* **Queue and downlink.** Two entries for 4, one PDU of each producer: the queue
  overflows when all three write at once. One traffic frame and the control frame,
  three multiframes (of the four that the schedule tells apart, the one with the
  synchronisation anchor among them); a full slot, a half slot with
  reserved frames and an individual AACH, a low-aligned acknowledgement. The
  counters saturate at 3 and 1.
* **Uplink.** Two stations with two demands each, the second of which is a short message; slots
  are taken, reused and contended, and a behaviour in which one station never sends
  is that of a lone station. A frame has two random-access subslots, which is
  what one control-channel slot has. The frame distance of two bursts is counted to
  2, beyond both timer values in use. The 16-bit drop counter stays far below its
  wrap.
* **Reply path.** The builder takes 1, the encoder 2 and the MLE
  builder 6 cycles: the order of the real latencies. All triggers come at every
  relative offset, which is what matters. The sleep after GO is 3 cycles, the
  shortest that lets the busy flag cross the clock domains. Three polls of 4 cycles
  are longer than a build and one detach together, as the code's 250 polls of
  200 us are longer than any number of them that the air can deliver; with fewer, software would
  give up a reply that it does not give up in reality.
* **Database.** Two subscribers and a group, two slots of 256 (a
  table that fills up), a demand of each, one crash and two edits;
  seconds count to 2, since only equal and different times matter.
* **Downlink recordings.** Own cell, one foreign cell, one direct mode beacon; four
  slots that begin in frame 17 or 18 of multiframe 59, 60 or 8, so that every counter wraps
  in some behaviour, each sender with a start of its own.
* **Reference capture.** Four bursts of two mobiles: a long message of three bursts
  with a disturbance anywhere in it, or the pair that aligns the recordings and two others. `Gaps`
  and `Lags` hold a neighbouring slot and distances of half a hyperframe and more, `First` lies three
  slots before the end of a hyperframe, so labels wrap between two bursts.
* **PDUs.** Sets of up to three optional parts (`MaxOptions`) and sets that lack up to three,
  as far as the PDU fits into its block (`Fitting`): a parser that consumes an element wrongly
  meets a successor of each kind and a missing one. All parts at once fit for D-CONNECT,
  U-ITSI-DETACH and U-SETUP; of D-LOC-UPD-ACCEPT all but one do, of
  U-LOC-UPD-DEMAND up to five at once. Every single bit of a PDU is damaged, fill bits are not, for
  PDUs with one part at most or with all (`MaxTried`). A demand in two halves, again with one part at
  most, asks for one or two groups (`MaxGroups`), to attach to or to detach from,
  of the three address types that the scripts read, as far as the halves hold them (two
  groups of type 1 are too long); it is divided at every bit that leaves room, the exactly full
  first half without fill bits among them. Never sent are elements for authentication, proprietary
  ones, the cell type control, a called party with an extension, and groups of address
  type 3, which the script does not read. Field contents end on a 1, so that a span that is one bit off shows.
* **Blocks.** Two blocks per channel; up to two errors, `MCStride` apart, and fades of 3 and
  9 bits: within the reach of every code, and at its edge. `Corrected` is about one error or one
  fade. `NearMissRefused` takes the same places for bits of the decoded block: up to two of them and
  any third one behind, and any pattern between the ends of a burst of 3 or of 9. The remainder check
  would refuse longer bursts, but one of the sync scripts' readings accepts some of 11 bits.
* **Schedule.** Recordings of up to five slots, begun at five places of the hyperframe and at three
  of a slot.

Deadlock checking is off (`CHECK_DEADLOCK FALSE`) for the downlink, whose PDUs
are finite, and for the benches, whose recordings and blocks are: `ReferenceCapture`,
`PduBench`, `CodeBench`, `ScheduleBench`. Every other model can always take a step.

## 6. Fairness

* `CallFSM` (`FairSpec`): the daemon's loop never stops, so the tick, the end of
  the tick, the polled request (or its absence) and the sleep come again and again.
  What mobiles send and what is heard is never fair: calls end by their timers.
* `DownlinkSlot` (`FairSlotSpec`): the slot pulse is a free-running clock. Writes
  and register changes are not fair, so `QueueDrains` holds against any filler.
* `ReplyPath` (`FairSpec`): the clock does not stop while the MLE FSM, its builder
  and the port have work to do, less than the free-running clock of the hardware
  gives. Triggers, GO and detach are chosen by the environment at each edge.
* Nothing else is fair. `ULReassembly` and `EntityDB` state safety only: nobody
  promises that a burst is received, that the receiver locks, that a save succeeds
  or that a request comes. The scripts end by themselves; what is said of them is
  said of every recording, also of one that stops.

## 7. What is proved

Every theorem is about the full model, for every value of the constants that the
named assumptions of its module allow; most need nothing else. A theorem that
needs more has an explicit hypothesis, named in the last column and explained
below the table. Where a run checks a property, the run shows it on the small
instance of section 5 and the theorem for all of them.

| Module | Theorem | States | Beyond the assumptions |
|---|---|---|---|
| `CallFSM_proofs` | `TypeCorrect` | `[]TypeOK`; no run lists it, since it is proved for all instances | |
| | `ChannelsCorrect`, `OneCallPerMobileCorrect`, `AachFollowsCallsCorrect` | one call per mobile, one per timeslot, AACH registers that follow the calls | |
| | `SequencesCorrect` | a call never runs the setup sequence of the other kind | |
| | `GrantedOnLiveChannelCorrect` | a PDU that lets a mobile transmit names a channel that is on the air when its round ends | `RoundsShort` |
| | `ChannelStaysCorrect` | identifier, marker and timeslot of a call in use never change | |
| | `OthersUndisturbedCorrect` | freeing one call leaves the others and their markers | |
| | `Refinement` | `CallFSM` implements `VoiceChannels` | |
| | `TimeRunsOutCorrect` | what a call or a setup sequence has left never grows unless it is attended to or set up anew, and each round takes some of it | |
| `CallClock_proofs` | `StampsCorrect` | the stamps are, modulo the wrap, as old as the true history | |
| | `SetupOnTimeCorrect`, `NeverTooEarlyCorrect` | the setup gap is kept and not much exceeded; nothing times out early | |
| `DownlinkSlot_proofs` | `QueueRefinement`, `SlotRefinement` | the queue, alone and driven by the slots, implements `PriorityBuffer` | |
| | `PoppedIsCarriedCorrect` | a PDU that leaves the queue is carried whole, but for the named exceptions | |
| | `SignallingHasPduCorrect` | a slot announced as signalling has a PDU | |
| | `QueueMovesCorrect` | a waiting PDU is sent within four slot pulses per PDU as urgent or more | |
| `EntityDB_proofs` | `FileIsWhole` | no half file, but for a full disk or overlapping requests | |
| | `EditSeenCorrect` | what the daemon takes for unchanged is what it holds | |
| | `NoTwiceCorrect` | no identity twice in the table in memory, while nobody edits the file | |
| | `AcceptedOnDiskCorrect` | what was accepted is in the file | |
| `ULReassembly_proofs` | `TypeCorrect` | `[]TypeOK` | |
| | `BodiesConservedCorrect` | a body is served once, waits or is counted as dropped | |
| | `OwnBodyAloneCorrect` | a lone station never gets two demands joined | |
| | `PromptEndJoinedCorrect` | a MAC-END-HU in the next frame is joined | `SlotsSuffice` |
| `ReplyPath_proofs` | `TypeCorrect` | `[]TypeOK` | `SleepSeesBusy` |
| | `QueuedAsSubmittedCorrect` | a reply is queued in one piece, once, in order | `SleepSeesBusy` |
| | `LossIsDetachCorrect` | at rest, no more replies are missing than there were detaches: the first half of `OnlyDetachLoses` | `SleepSeesBusy` |
| | `OnlyDetachLosesCorrect` | and software gives up none | `SleepOutlastsMle` |
| | `ServedOnTimeCorrect` | a reply the MLE FSM has started on is in the queue `MleTime + 5` clock edges later, whole | `SleepSeesBusy` |
| | `OwnWordCorrect` | until software requests a grant itself, each answer has the code word of its own PDU | `SleepSeesBusy`, `GapOutlastsAnswer` |
| `DlDecoder_proofs` | `TypeCorrect` | `[]TypeOK`: the network time is always a time | |
| | `TallyCorrect` | every slot counted once, the error rate between its bounds | |
| | `LabelsFollowCellCorrect`, `ScheduleAgreesCorrect` | the labels are the cell's times, and those of `schedule.py` | |
| | `OwnBlocksReadCorrect` | with the filter the cell's bursts are read as without other cells; a foreign burst ends the script only before the one it locked to | |
| `BenchVectors_proofs` | `InterleaverTakenBack`, `StepsTakenBack`, `SpeechTakenBack` | each of the three interleavers takes back what it did, for every block | |
| | `DecoderInput` | the convolutional decoder gets every bit sent at its own place, wrong if and only if it was received wrong, and erasures elsewhere | |
| | `FadesTakenApart` | bits received within eight places of each other are 28 coded bits apart in the decoder | |
| | `LabelsCountOn` | the slot labels of `schedule.py` count through all wraps, in both directions | |
| | `GridIsRaster` | its grid has every burst of the raster that fits, once, in order | |

### The hypotheses, and what the code gives

* **`RoundsShort`**: `VoiceQuiet <= CallStale`, and the setup gap and one delay of the loop end
  within `VoiceQuiet + 1`. The code's 300 ms, 5000 ms and 113 ms give it for
  rounds of up to 188 ms. Without it the tick can repeat a D-CONNECT for a call
  whose mask bit it clears in the same round; TLC finds that behaviour.
* **`SlotsSuffice`**: the reassembly's two slots are enough for the stations in the
  air, and its timer runs for two frames or more (register value 0 or at least 2).
  Three stations or a timer of one frame drop a fragment before its end comes,
  as the hardware is meant to.
* **`SleepSeesBusy`**: software sleeps at least one cycle after GO. It sleeps 200 us, and
  the `ReplyPath` run has 3 cycles.
* **`SleepOutlastsMle`**: the sleep outlasts the MLE FSM by 8 cycles, a poll takes
  time, and there are no more detaches than polls. 200 us against a few clock
  cycles, and 250 polls of 200 us, in which the air cannot deliver 250 detaches.
  `Detaches` bounds the whole behaviour, so the theorem is about
  stretches with no more than 250 of them; the model has no rate at which they come. Only
  the second half of `OnlyDetachLoses`, that no poll gives up, needs this. The `ReplyPath`
  run lies outside of it: it keeps the sleep as short as it can be and finds that half true
  with three polls as well. The first half, that a reply is lost to a detach only, is
  `LossIsDetachCorrect` and holds in the regime of the run and of the code alike.
* **`GapOutlastsAnswer`**: a source stays silent after a trigger for as long as the
  builder and four encodings take. Bursts of one source are 14 ms apart, that
  work takes microseconds. With shorter gaps and two PDUs of a source TLC finds an answer that is
  sent with another PDU's code word. (The `ReplyPath` run has a single fragment and a
  single acknowledgement, so its short gap does not matter.)
* **Assumptions of the modules.** Nearly all say that names are distinct, that sets
  of PDUs do not overlap and that a time or a size is a natural number. Only
  `ClockAssumption` of `CallClock` relates magnitudes: twice all timeouts and a round, and four
  rounds, are less than the wrap of 2^32 ms, about 49 days.

### The arguments

**`CallFSM`.** The argument goes through the *shape* of a step (`StepShape`): each of the many
actions either keeps every call on its channel, hands one call to a silent mobile,
puts a call into an empty slot and onto a free timeslot, or frees one slot and
resets its timeslot. One lemma per handler establishes its shape; the invariants
are then proved for four shapes and not for fifteen actions. None of the three
channel properties is inductive alone: that freeing a call leaves its timeslot
without a call needs one call per timeslot, that a floor transfer keeps one call per
mobile needs the handler's lookup, and that setting the AACH of a new call hides
nobody's marker needs both. `ChannelsInv` is their conjunction. The refinement
uses the same four shapes (`KeepsRefines`, `TakesRefines`, `OpensRefines`,
`ClosesRefines`): a step of the call control maps to a stutter, `HandOver`, `Open`
or `Close`.

`GrantedOnLiveChannel` needs an invariant of its own, `GrantInv`. Requests set the mask bit
themselves, so only the D-CONNECT that the tick sends is hard: it goes out
a setup gap after the setup, and the mask of the *end* of the tick must still hold the
call. `InTime` says that a slot which waits for its D-CONNECT is due within
the gap, or overdue by at most the one round that the tick is now catching up with;
`TickGrantsLive` carries what was sent earlier in a tick to its end.

`TimeRunsOut` says that calls and setup sequences end as far as a safety property can: `CallLeft`
and `SetupLeft` are natural numbers, no step of any handler or tick enlarges them, the
sleep that ends each round makes them smaller, and by `WithinLimits` the tick leaves no call and no
sequence behind whose time is over. Attending to a call, or setting it up again, is the only
thing that sets them back. It needs no hypothesis: a longer round takes more.

**`CallClock`.** `ClockInv` ties each 32-bit stamp to the true elapsed time kept as
history: equal modulo the wrap as long as the history is below `Longest`. The
lemmas about `Face` and `Since` (subtraction modulo the wrap) do the arithmetic
once; every action cites them.

**`DownlinkSlot`.** The two arbiters are CHOOSE operators; `NatMin` (a set of natural
numbers has a least element, from the library's well-founded order) shows that
they choose something: `WinnerBest`, `FreeIdxFree`, `HeadFirst`. `QueueInv` (no PDU
stored twice, every PDU offered waits, was sent or was dropped) makes the queue's
entries a set of which `Cardinality = Depth` says *full* (`FullMeans`), and with it each
clock edge is an `Exchange` of the buffer. For the slots `SlotInv` adds `Promise`:
an AACH that announces signalling was encoded for the signalling timeslot while
a PDU waited. The next slot is another timeslot (`NextSlotMoves`), so the pop of
the slot in between cannot take that PDU. `PulsesLeft` counts down to the slot that sends
a waiting PDU: four pulses for each PDU that is as urgent or more and was not sent yet
(`Rivals`), less the slots that the next control-channel slot is nearer. A pulse that is not the control channel's
comes a slot nearer to it; the control channel's pops the head of the queue, which is a
rival, so the set gets smaller; and a write between two pulses changes neither, since a PDU
that is still to be written counts already.

**`EntityDB`.** `FileWhole` says that the file
is whole unless `marred`, which becomes true when the disk is full during a write
or when two requests have their common temporary file open at once. It is not
inductive: `WholeInv` adds that what the daemon is about to rename is whole, and
that the editors' temporary file is whole unless the editor that truncated it
still has it open, alone. Both exceptions are needed: two editors share a
temporary file, and a full disk during the daemon's save leaves half of one.
`SeenInv` follows memory and file through the daemon's reload and save, one clause
of `Mirrors` for each place where a crash or an edit may come; during a save the
file is memory *before* the row just entered (`RolledBack`). `TwiceInv` and
`GrantInv` build on it: the row entered was not there before, and what a reply
grants is backed by a row in the file at the moment it is sent and ever after.

**`ULReassembly`.** `BodyInv` counts: bodies joined are those served or waiting plus the
drop counter, and a mailbox between act and release holds a body already
served. `OwnInv` says where a demand can be: a station holds one slot at most,
with the last fragment heard from it (`SlotsTrue`), and a grant under way is for
the demand the station is in (`GrantsTrue`). `PromptInv` counts the timer of the slot
against the age of the fragment.

**`ReplyPath`.** Three clock domains meet. `Handshake` says what software can conclude
from a busy flag that is four cycles late: while it writes, the FSM is idle.
`OneBuild`, `MailboxHolds` and `WordHolds` follow the one reply that is on its
way (`Owed`) from mailbox to port, and `InOrder` relates the replies in the queue to the
GOs before it. `Loss` counts them: GOs of replies, less those queued, less the one on
its way, are at most the detaches. `NoLossInv` adds that a poll that finds busy after
the sleep can be charged to a detach (`Asleep`, `Patient`). `CyclesLeft` reads off the
states of the FSM and its builder how many edges a reply still needs; every edge takes one
away, and the last one appends the reply to the queue in one piece (`CountsDown`).

**`OwnWord`** (`PreReply`, as part of `ReplyPath`). The FSMs latch a PDU, and the shared encoder is started *twice* for it;
the word that is sent must not be another's. `WordInv` has `OneEncoding` (the encoder
works for the FSM that the arbiter serves), `Enough` (for each state of an FSM, how
long its source must still be silent: until the second encoding is over, behind
up to two of the other FSM) and `OwnJob` (what is latched, encoded
and sent belongs to one PDU).

**`DlDecoder`.** `TypeOK` and three invariants. `OwnCode` says that with the filter the code
in force is the own cell's and that the frame number has a value once the burst that was locked to is behind
(`FrameKnown`); `OwnBlocksRead` follows from it. `LabelsFollowCell` and
`ScheduleAgrees` rest on lemmas about mixed-radix time: adding a slot, and the
distance of two slots across the wraps of slot, frame, multiframe and hyperframe.

**`BenchVectors`.** No state, but operators on blocks. `Places` says of each of the four
pairs of block length and multiplier that `AirPlace` is a bijection: the multiplier has an
inverse modulo the length (`MultipliersInvertible`). With it the CHOOSE in the encoders'
interleaver finds the one place there is, and with `MotherApart` the one in the depuncturing.
`DecoderInput` composes the layers one by one (`Scrambled`, `Interleaved`, `Deinterleaved`, `Depunctured`);
it is why `Corrected` may take the wrong bits of a block for wrong inputs of the
decoder. `FadesTakenApart` is about the differences of places: those of bits up to ten
numbers apart are never within eight places, round the block (`NeighboursApart`). So a fade of nine
bits, the longest that `Corrected` asks of the decoder (of SCH/HU it asks three), comes to it as
single errors seven steps apart, while an input bit bears on five steps of coded bits.
What the decoder makes of such errors is left to the run. `LabelsCountOn` writes a slot number as hyperframe, multiframe, frame and slot
(`SlotIs`) and adds one in each of the four cases of carrying.

### What stays with TLC

* **Liveness**: `AbandonedCallsEnd`, `SetupCompletes`, `QueueDrains`,
  `StartedIsQueued`. Fairness is about ENABLED, which these provers do not treat. What is
  proved of them is the countdown, for all constants: `TimeRunsOutCorrect` (for the first two),
  `QueueMovesCorrect` and `ServedOnTimeCorrect` say that the time left is bounded, never grows and
  shrinks with every round, slot pulse or clock edge. That rounds, pulses and edges
  come is the fairness of section 6, and with it TLC checks the rest.
* **What parsers and decoders compute**: `RowsGetOwnPdu`, `WholeMessages`, `DelaysTrue`
  (`ReferenceCapture`), `ReadAsSent`, `ToolsAgree`, `DemandRejoined` (`PduBench`), `Corrected`,
  `NearMissRefused`, `VectorsAgree` (`CodeBench`). They follow from recursion over the bits
  of a block or the lines of a log: the CRC and scrambling registers, the Viterbi decoder and the log
  readers are folds, and an induction over data needs theorems that take an operator
  as a parameter, which no installed prover instantiates; the recursive operators of
  `BitFields` and `PduCli` turn the SMT solver off. Of `CodeBench` the layers around the
  convolutional code are proved, and the code itself is left to the runs.
* The two runs of section 4 that are expected to fail.

Every other property of a run is stated by a theorem above.

## 8. Simplifications

Station:

* Bodies of PDUs are names. Which builder a PDU passes through, which half of a
  slot it fills and whose address it bears are kept; its bits are not.
* Diagnostic counters, logs, send sequence numbers, the simplex and hook bits of
  call PDUs and the relay of D-STATUS are left out.
* The idle AACH patterns that rotate are one symbol.
* The grant hint crosses its clock domain at once. In `DownlinkSlot` the control
  channel's timeslot is a constant.
* In `ULReassembly` a frame boundary never falls on the clock edge of a burst, and a
  station gives up only when no grant for it is under way.
* A reader of a file sees one version of it: the file is read in one step, and a
  rename replaces it. Two writers of one open file overwrite it as a whole.
  `mv` is a rename: `/tmp` and the database are taken to be on one file system.
* `CallFSM` starts with cleared registers: a daemon that is restarted next to
  running hardware is not modelled.

Tool chain:

* What a filter, a correlation or a phase estimate does is an input: a burst is
  found or not, at its place, and a block decodes or not. Soft bits are small
  integers.
* A line of a log is a record of what the reader's regular expression takes from
  it. Names printed for codes, colours and layout are left out.
* Numbers are sequences of bits where they are wider than TLC's integers.
* Fields are named as the scripts' dictionaries name them; where two scripts have
  different names for one field, `PduBench` compares it by hand.
* Defined, since they translate the code, but evaluated by no run: the CRC and
  Viterbi bench scripts of `tb/vectors` (the first stops at its assertion, the second
  decodes to zeros, section 4), the direct mode scrambling code, the layers of a
  downlink burst, the header and the hypotheses of `decode_ul_raw.py`, the text
  printed for a message.

## 9. Not modelled

* **CMCE dispatch registers and the monitor** (`sw/tetra_ul_mon.c`, registers in
  `rtl/tetra_zynq_top.v`), **SDS delivery** beyond its first hop, **voice burst
  mailbox**, **time base**: within reach, first in the plan. Until then `CallFSM`
  takes any subset of requests as its input.
* **Uplink receiver in C**: used by tests and by the long-message service only.
* **Signal processing** in Verilog and in the scripts that filter, correlate,
  measure or draw random samples (`gen_rrc_filter_vectors.py`,
  `gen_timing_recovery_vectors.py`, `forensic_ul_nub.py`, `analyze_ila.py`,
  `sim_loopback.py` and others): numeric data paths over floating-point numbers,
  in which no state is kept that a property is about.
* **Channel coding in Verilog and C, speech codec**: pure functions of hundreds of
  bits with a mirror in Python, which is modelled; `etsi_codec` is vendored.
* **Driver, bus handshakes, board scripts, other CGI requests**: register accesses and
  start-up tables in sequence.
* **Reports, simulation runners, one-time source edits, flow graphs of GNU Radio,
  archive**: no part of the running system.

## 10. Plan

1. **`VoiceMailbox`** (`rtl/lmac/tetra_voice_nub_read_mailbox.v`,
   `rtl/rx/tetra_ul_nub_capture.v`, `sw/tetra_voice_pipe.c`): capture, 54 single
   reads and the acknowledgement against the next burst. No torn burst
   is relayed, a burst is relayed once, one that is acknowledged was read.
2. **`PduRegisters`** (CMCE dispatch and `sw/tetra_ul_mon.c`): a counter polled by
   one reader and a sticky bit cleared by another. What is dispatched
   was received whole; the monitor's clear loses nothing it has not seen.
3. **`SdsDelivery`**: acknowledgement before relay, one delivery at a time, the shared
   VOICE_ACTIVE_MASK; composed with `DownlinkSlot` (the fragment's slot and its
   AACH) and with `CallFSM` (the mask).
4. **`TdmaTimebase`, `FrameSync`**: counters with preload, schedule rewritten while it
   is read, lock with hysteresis. `DownlinkSlot`'s slot sequence becomes the
   abstract specification of the first, `ULReassembly`'s lock the one of the second.
5. **Compositions.** `ReplyPath` with `DownlinkSlot` (a round of the daemon that
   submits more than the queue holds), `CallFSM` with a restart of the daemon.

Theorems next: those of the planned modules, each from the invariant that its model
needs: for `VoiceMailbox` that a burst relayed was captured whole and once; for
`PduRegisters` that what is dispatched was received; for `SdsDelivery` that the shared
mask is what call control and delivery together ask for; for `TdmaTimebase` that it
implements the slot sequence of `DownlinkSlot`. For the compositions of item 5 the
theorems of their parts are the lemmas.
