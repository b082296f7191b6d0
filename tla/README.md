# Verification of the FK33 and JCM33 BitcoinIII / FJAR miner

TLA+ models of the miner in this repository, TLC runs over small instances of
them, and TLAPS proofs about them for every value of their constants. File
names below are relative to the repository unless they end in `.tla` or `.cfg`.

## The system

A pool speaks Stratum (JSON lines over TCP) to one host process per card. The
process turns block templates into 80-byte headers, sends them as framed jobs
over TCP to a JTAG server (`sqrl_bridge_rawjtag_coe`, a third-party binary),
and the server shifts them through the USER2 register of the FPGA. The FPGA
hashes nonces in a 216-stage SHA3t pipeline at one nonce per cycle, tests the
digests, and offers shares in a mailbox that the server reads byte by byte
through USER1 and USER3. The host recomputes each digest, drops what is stale,
wrong or repeated, and submits the rest. One percent of wall-clock time is
mined for the developer's wallet. Shell scripts and systemd units start,
qualify and stop all this.

| Component | State | Operations | Interacts with | What is hard |
|---|---|---|---|---|
| FJAR bridge, `src/runtime/fjar_bridge.py` 66-229, 319-627, and BitcoinIII bridge, `src/runtime/btc3_bridge.py` | job table by 8-bit tag, `submitted_shares`, `pending_submits`, extranonce and roll deadline, TCP buffer; the tables are module globals | `run_session`, `build_job`, `check_share`, `submit`, `HardwareTransport` | pool, JTAG server, fee schedule | state that outlives a session, tags that are reused, a wallet check that is not atomic with a submit, replies in any order |
| Developer fee, 232-267 | phase offset; otherwise a function of the time | `mode_at`, `seconds_until_switch` | bridge | window edges, restarts, the lag of the loop |
| Share mailbox, `fk33_bscan_transport.sv` 288-365 | frame, produced and consumed toggles, byte index, shift register | clk edge, capture, shift, status poll | miner, JTAG server, host reassembly (`_pop_frame` 161-229) | two clock domains without a synchroniser on one side, scans cut short, a host that restarts in the middle of a frame |
| Engine and top level, `ii1_500/*.sv` | job and candidate registers, synchronisers, pipeline, scanner | clock edges, job pulse, reset | mailbox | wide buses beside toggles, overwritten candidates, a lost clock |
| USER2 job parser, `fk33_bscan_transport.sv` 120-286 | parser state, payload, CRC, job toggle; on a JCM33 the bit slice it locked on | `consume_job_byte` | JTAG server, engine | recovery after a truncated frame, a slice learnt from one byte, a wide job beside a toggle |
| Canary runner, `run_jcm33_dualalign_btc3_650_canary.sh` | shell variables, background bridge, image of two FPGAs, log | preflight to classification, EXIT trap | programming bridge, signals | half-programmed carriers, signals in the cleanup, a bridge that dies or hangs |
| JCM33 dual miner, `jcm33_btc3_dual_miner.py` | the tables of the bridge, two lane buffers, one XVC connection | `run_session`, `build_job_pair`, `send_job_pair`, `pop_shares`, `check_one_share` | pool, XVC server, both FPGAs | a pair that reached one FPGA only or was cut inside a frame, one lane failing after the other was read, tags and extranonce2 values dealt to two lanes |
| JTAG chain of a JCM33, `jcm33_ir_lane_calibration.py` and the transport of the dual miner | two TAPs in series, USER1 and USER2 registers, the XVC program being shifted | `TapProgram`, `scan_reset_idcodes`, `measure_ir_delay`, `build_lane_job_ack`, `build_per_byte_write`, `build_lane_read` | both FPGAs | which bit is whose, requests that break off at any clock |
| Launchers, `start*.sh` | pid files, process groups | start, rollback, stop, status | all processes | partial starts, stale pid files |
| systemd fleet | unit state, cable ownership, readiness logs | start, wait, release | JTAG server | stale logs, restarts |
| 350 MHz scheduler | 80 cores with three tokens | job load, token rotation | mailbox | results of the previous job |

What makes each of them correct:

* the bridge sends each share once, with the wallet and extranonce of its own
  connection, and only real work that meets its target; it follows the fee
  schedule; new templates reach the card;
* the schedule gives each wallet its window and nothing else, however often the
  process stops;
* the two FPGAs of a carrier never search the same header, work on the newest
  pair (or find back to it after a cut frame), and shares are reported for the FPGA that found them; the pool sees a
  client with one wallet per connection that repeats nothing;
* a byte shifted into the chain reaches the lane it is meant for and no other,
  however requests end;
* the mailbox loses, repeats, tears and reorders nothing, or, when the link
  does lose bytes, recovers its framing;
* the job parser hands over whole jobs only, in the order of the host, and finds
  its way back after a truncated frame;
* the engine never mixes jobs or tags, and every real candidate becomes a share;
* the canary runner leaves a known image and tells the truth about it.

## Modules

| Module | Models | Runs |
|---|---|---|
| `Bridge` | the bridge of one card with its pool, JTAG link and card as environment | `bridge_shares`, `bridge_work` |
| `FeeSchedule` | `DevFeeSchedule` and the sessions that follow it | `fee_schedule` |
| `WalletSession` | abstract: pool connections with one wallet and one extranonce1 each | as a property of `dual_miner` |
| `DualMiner` | the JCM33 miner process with its pool and both FPGAs as environment | `dual_miner` |
| `JtagChain` | the chain of two FPGAs clock by clock, and the XVC programs of miner and calibration | `jtag_chain` |
| `ShareSlot` | abstract: a channel that holds one share | as a property of `mailbox_status` |
| `ShareMailbox` | the mailbox, the JTAG side and the host's reassembly | `mailbox_status`, `mailbox_lossy` |
| `JobChannel` | abstract: job registers that only move to later frames | as a property of `job_mailbox` |
| `JobMailbox` | the USER2 parser, the alignment of a JCM33 and the crossing to 200 MHz | `job_mailbox` |
| `MinerTop` | job and candidate crossings, engine control, scanner | `miner_sparse`, `miner_busy` |
| `Canary` | the qualification runner of the 650 MHz image | `canary`, `canary_pass` |
| `BridgeProofs`, `DualMinerProofs`, `ShareMailboxProofs`, `JobMailboxProofs`, `MinerTopProofs`, `CanaryProofs`, `FeeScheduleProofs`, `JtagChainProofs` | theorems about the module they are named for | checked by `tlapm` |

`MC...` modules hold the model values of the runs. Every definition that
translates code is listed under `map` in `PROJECT.json` with its lines.
`fjar_bridge.py` and `btc3_bridge.py` differ in addresses, ports and the worker
name only, so `Bridge`, `FeeSchedule`, `ShareMailbox` and `JobMailbox` stand for
both, and `map` names lines of either. The dual miner and the calibration are
byte-identical in the 525, 550 and 650 MHz directories.

### Bridge

`main` and `run_session` are one thread, but pool, card, clock and link move
between any two of its statements. The loop is therefore cut where it reads
something that others write: `pc` goes `idle`, `mode` (the wallet check, 492),
`share` (`check_share`, 497), `roll` (499), `recv` (524), `lines` (534), back to
`mode`; one `recv` may hold several lines, which are then handled without
another check. `idle` stands for `main` between two sessions: the pool socket is
closed, the tables keep their values, and `StartSession` clears them. A failed
write, read or connect leaves the session from the middle of a handler, after
whatever the handler had assigned already (`SendJobFails` follows
`RegisterJob`; `SubmitFails` follows `RegisterSubmit`).

A block template is a member of `PoolJobs`, a header is the record of what it
was built from (`Work`), SHA3t is injective (a digest is the work it was
computed from, or `Bad`), and nonce `n` meets difficulty `d` when `n >= d`.
`sent` and `late` are history: what was submitted on this connection, and how
many submits followed the last switch of the schedule. The card reports any
nonce of the job it holds, also twice and also mishashed; frames sent before a
disconnect are lost; the mailbox keeps its share meanwhile. Frames reach the card of
`Bridge` whole or not at all: `JobMailbox` and `DualMiner` have those that are cut.

### DualMiner

The same cuts as in `Bridge`: `idle`, `mode` (589), `A` and `B` (`pop_shares`
reads lane A, then lane B), `check` (`check_one_share` for each share of the
batch, without looking at the schedule again), `roll` (596), `recv`, `lines`. An
XVC request is synchronous, so nothing is queued towards a card. `send_job_pair`
calls its request atomic, but it can break off at any clock (`JtagChain`): before A,
inside A, between the frames, inside B, or with the answer lost (`SendPairFails`). A
cut inside a frame leaves the `parser` of that lane `inside` it, and no reconnect
resets it: it takes the next frame for the rest, and is inside again if the bytes left
over look like a header (`ParserAfter`, what `JobMailbox` does byte by byte). `whole`
counts, up to two, the frames a lane took since, and is history; `events` bounds
the shares found and the frames cut, together. A lane that cannot be read takes the
shares of the other with it (`ReadLaneFails`). `buffers` holds a frame whose end the
scans did not reach.
The pool decides on a line when the host reads it: a line sent earlier looks the
same to the host. The tables are cleared when a session starts, the tag counter
never is.

`WalletSession` is what the pool may rely on: `Open`, `Assign`, `Submit`, `Close`,
every share with the wallet and the extranonce1 of the connection and none twice.
`ImplementsSession` maps `wallet` to `feeMode`, `en1` to itself, and `shares` to
the history of what was sent, all empty while `pc` is `idle`.

### JtagChain

The state is that of the two TAP controllers, which move in step, the
instruction and data register of each lane, the bits of USER2 that have arrived
(`word`, `inbox`), the bytes waiting behind USER1 (`due`, `outbox`), and the request
of the host. A request is the program it was built as: a sequence of operations
(`Op`), which are the resets, the idle clocks and the IR and DR scans that `TapProgram`
appends, each standing for its bits of TMS and TDI (`Lead`, `Tms`, `Tdi`). `Clock`
takes one of them, at clock `at` of operation `op`, and `Record` keeps the bits of TDO
that fall into a read window. The programs are the ones the code builds:
ID codes and instruction delay at a connect, the pair of
writes, the read of a lane, and the calibration's write and read in one. The three
shifts of `scan_reset_idcodes` and `measure_ir_delay` that follow one another are
one request here, which `Cut` may break at the same places. `Cut`
ends a request after any clock and leaves everything as it is; the next
connection, of the miner or of the calibration, starts there. Registers and bytes
are shorter than in the hardware, their order and padding are the code's.
`write` (the last write begun), `stock` (what the cards held when the request began)
and `misread` (a calibration was cut) are history.

### FeeSchedule

Time is in whole seconds and `credit` records for whom each second was mined. A
session looks at the schedule at least every `MaxLag` seconds, because one
iteration of the loop is bounded by socket timeouts. `StopSession` covers lost
connections and the end of the process; `StartSession` may come any time later.

### ShareMailbox

One `ClkEdge` is one edge of the miner's clock with its three-stage synchroniser
of the consumed toggle; the host's scans are `Capture` and `ShiftByte`, or
`AbortScan` when TAP leaves the shift early. After an edge that stored a frame,
`settling` says that the JTAG side may sample the toggle and the frame while
they change: the three flip-flops that read the toggle (captured value, had-data
flag and the selection of the shift word) each choose for themselves, and a byte
may be the old one, the new one or garbage. `StatusFirst` tells whether the
server polls USER3 before a scan, and `MayFail` whether answers get lost and
hosts restart.

A byte is its position and its share, the six of the header being the same for every
share, and `Value` is the number it stands for. `Receive` is `_pop_frame` for one byte
more: it searches the magic (`FromMagic`), looks again behind the first byte of a
header with another version or more than `MaxPayload` bytes (`HeaderOk`), and otherwise
believes the length (`LengthOf`), whatever bytes it was read from: where a byte of the
header is lost, the tag is its high byte. The frame then ends `LengthOf` bytes later,
and the CRC passes for the payload of one share only. `misread` counts the headers
that announced more than a share. `ShareSlot` is what both ends expect of the mailbox.

### JobMailbox

A byte is the frame it belongs to, its position, and what it looks like to the
parser; on a JCM33 the ninth bit puts every byte in one of two slices of its
word, and a word also has what the wrong slice shows. `alignment` starts unknown
there, and starts right on an FK33, which has no ninth bit: one module stands for
both transports. Bytes of payload and CRC may look like the magic "FJ" in either
slice; a payload that shows all six bytes of a header is left out. The CRC passes
for the bytes of one frame only. `CutFrame` is a connection that fails in the
middle of `sendall`, `LoseWord` a scan that leaves the shift state before its last
bit. A word takes eight or nine TCK cycles and TCK is several times slower than
the 200 MHz clock, so at least one `ClkEdge` lies between two words (`ticked`);
that is all the speed the crossing is given. After a job is handed over, the first
sample of the toggle and of the bus may be old, new or `Mixed`. `whole`, `intact`,
`headLost`, `misled` and `jobs` are history.

### MinerTop

A job crosses from 200 MHz to the mining clock on a two-stage bus beside a
three-stage toggle, and a candidate crosses back likewise. The first sample after
a change may be old, new or `Mixed`. The edges of the clocks interleave with
`MinGap` to `MaxGap` mining edges between two 200 MHz edges (2 and 3 at
500 MHz). A pipeline entry is the job that entered it; a candidate carries the
tag latched with it, its job, and whether it meets the whole target. `KeepsUp`
restricts the hits to one in flight, and `MayReset` lets the clock generator lose
lock at any moment. A new job pulse comes only when the toggle of the previous
one has settled, since a job frame takes the host thousands of edges.

### Canary

`pc` is the phase of the script; a phase that only checks passes or dies. The
programming bridge erases and loads each device on its own time, dies or hangs;
`wait_for_loads` may time out at any moment, even when the log has just been
completed. INT and TERM arrive anywhere in the script, between the start of a
bridge in the background and the note of its pid (`SignalAtLaunch`, after which an
`orphan` goes on loading the candidate), and on the first two commands of the EXIT
trap, where they still have their handler.

## Runs

| Run | Checks | Bounds |
|---|---|---|
| `bridge_shares` | `SubmitsOwnSession`, `NoDuplicateSubmit`, `SubmitsTrueWork`, `ResponsesMatch`, `AtMostOneLateSubmit` | 1 template, 2 nonces, 2 difficulties, 2 submits, tags modulo 2, 1 job after the first per session, queues of 1 |
| `bridge_work` | `TypeOK`, `DistinctWork`, `RotationHappens`, `WorkReachesCard` | 2 templates, 2 jobs after the first per session, tags and extranonce2 modulo 2, no submits |
| `dual_miner` | `LanesDisjoint`, `PairInStep`, `AssignedIsPhysical`, `ImplementsSession`, `RollHappens` | 1 template, 2 pairs per session, tags and extranonce2 modulo 4, 1 line per `recv`, 2 events: shares the cards find and frames cut |
| `jtag_chain` | `WritesArrive`, `ReadsExact`, `ChainMeasured` | 2 lanes, instructions and bytes of 3 bits, frames of 2 bytes, 2 read scans, 8 requests, each cut at any clock |
| `mailbox_status` | `TypeOK`, `NoOverwrite`, `ImplementsSlot`, `EveryShareArrives` | 2 shares, payload of 1 byte (frames of 9), 3 shares accepted |
| `mailbox_lossy` | `DeliveredInOrder`, `LossIsBounded` | 2 shares, payload of 1 byte, lengths up to 10 believed, 5 shares accepted, 2 failures, any number of torn captures |
| `job_mailbox` | `TypeOK`, `AlignmentIsRight`, `RecoversInTime`, `ImplementsChannel`, `WholeFrameArrives` | 6 frames with a payload of 2 bytes, 2 failures |
| `miner_sparse` | `NoTornJob`, `EmittedIsGenuine`, `CandidateBecomesShare`, `JobReachesEngine` | 3 jobs, 2 pipeline stages, 2 to 3 edges |
| `miner_busy` | `EmittedIsCurrent`, `NoShareDropped` | 2 jobs, 1 stage, 2 edges, hits and resets on any cycle |
| `fee_schedule` | `CreditNearWindow`, `DevShareBounded` | cycle of 7 s with 2 s of fee, lag 2, 11 s, every phase |
| `canary` | `FailureRestores`, `ReportIsTrue`, `OnlyQualifiedStays`, `RunnerEnds` | both FPGAs, nothing bounded |
| `canary_pass` | `EveryOutcomeRestores`, violated | the same |

What the bounds keep: two tags are enough for a tag to come back for other work
while the card mines the old one and one share is in the mailbox and one in the
TCP buffer; one extranonce1 value lets a header of the last session come back as
it was, and shares of the old session still tell themselves apart by their wallet (the
theorem `BridgeOwnSession` is for any number of both); two nonces and two difficulties give shares that meet one job's target and not
another's, and a share that returns after another. Two pairs per session use tags 1 to 4 modulo 4, so a tag returns in the third pair,
which belongs to the next session, while a share of the first waits. Three-bit bytes
of two values tell a byte from its neighbour and from itself shifted by the bypass
bit; the three instruction bits keep BYPASS, USER1 and USER2 apart.
In the dual miner shares and cuts multiply the states, so they share one bound: two
events are two shares (a repeat, or one of each lane), a share and a cut, or two cuts,
which put both lanes inside a frame or one lane inside twice. Longer mixtures, and
several lines in one `recv`, are left to the theorems, which hold for any bound;
`RollHappens` has none and is checked with one line per `recv` only. In the
mailbox the header has its six bytes with version, type and length, and the payload one,
the tag. Behind a lost header byte one of the two tags is read as a length that is
believed (10), the other as one that is too long, and the false frame of 18 bytes
reaches over the next frame and further; the fifth share in the lossy run is there to
show recovery. `LossIsBounded` fails on it without the term for misread lengths. A payload of two bytes can
look like the magic or the end of it and can be joined from two frames; after two
failures at any place six frames leave two for the recovery to complete. Three jobs give a
candidate of the first that meets the third. The fee run is longer than a cycle,
so that a stretch of a whole cycle begins at every phase. In `canary` every loop is
finite and nothing is bounded; it ends, so it does not check for deadlock, and
`RunnerEnds` takes its place.

What the runs found out beyond passing:

* With the USER3 poll before each USER1 scan the missing synchroniser does no
  harm (`ImplementsSlot`). Without it a torn capture loses a frame; what is
  delivered is still real and in order, since the CRC and the digest check
  filter the rest, and the framing recovers after one more frame.
* One byte lost from the header of a share costs far more than the next frame: `_pop_frame`
  takes the tag for the high byte of the length, and for tags 1 to 16, whose false lengths
  it believes (up to 4096), it swallows as many bytes of good frames, up to 91 of them,
  before the CRC rejects them. `LossIsBounded` allows for exactly that: `Reach` shares for each
  header misread, and no more of these than failures. A torn capture never causes one, since only
  the first byte of a frame can be torn.
* A truncated job frame costs itself and, as the parser counts on through the next
  one, usually that one too (`RecoversInTime`). If it ends in bytes that look like
  "FJ" while the parser hunts, the head of the following frame is swallowed as well.
* A JCM33 parser locks its slice on the first word in which either slice shows an "F"
  and never looks again, while the comment above the states speaks of "the leading FJ
  magic". The lock is right for good if the head of the very first frame arrives
  (`AlignmentIsRight`); if that is lost, a later byte may lock the wrong slice, and the
  card takes no job until it is configured again.
* When hits come faster than the scanner judges them, `candidate_hold` is
  overwritten while it crosses: candidates get lost, and a candidate may be a
  mixture of two. `EmittedIsGenuine` then fails, which is why it is checked in
  `miner_sparse` only, where candidates come as fast as they are judged. The host's digest check drops the mixture. At pool
  difficulties hits are millions of cycles apart.
* After a loss of lock the engine may load a mixture for a cycle or two
  (`NoTornJob` is checked without resets): the toggle restarts at zero while
  the 200 MHz side keeps its own value. What is emitted is still tagged with the
  current job. If the toggle is zero anyway, the engine idles until the next job.
* A share may be submitted for the old wallet after the schedule has switched,
  but never two (`AtMostOneLateSubmit`).
* `FailureRestores` excludes exactly two windows: a second signal between the start
  of the EXIT trap and line 236 of the canary runner (`trap '' INT TERM`) makes the
  shell exit without the rollback, because the EXIT trap is disarmed on line 235 and
  INT still means `exit 130`; and a signal between `&` and `ACTIVE_PID=$!` (line 184)
  leaves a bridge that goes on loading the candidate behind the rollback.
* `send_job_pair` is documented as one atomic request, and it is one for the host, which ends
  the session when it fails. It is not one for the cards: a lane that was cut inside its frame
  swallows the first frame of the next session, which then goes on with that FPGA
  on the job of the old one, until the pair after that. `PairInStep` says that this is the only
  case: a lane to which two frames went uncut is on the newest pair.
* The two lanes of a carrier stay disjoint although a request may reach one FPGA only
  (`LanesDisjoint`): a pair takes two consecutive extranonce2 values and two
  consecutive tags, both moduli are even, and so lane A always has the even
  extranonce2 and the odd tag. Nothing else in the code keeps an FPGA that is left on an older pair
  apart from the other.
* A connect leaves the chain usable from every TAP state, and a write that breaks off
  after any clock leaves no word behind that the card takes for a byte: the byte comes
  before the bypass bit in the dual miner's frames, and the ninth bit is needed to
  hand a word over (`WritesArrive`). The calibration pads lane 1 in front instead. If it is cut
  after eight shifts of a byte of lane 1, the first clock of the next reset is the ninth,
  and one wrong word is handed over; `misread` marks these runs. It is a diagnostic, and
  the parser drops the word with the frame it is in.
* What a broken read had taken from a card is lost, never given to the other lane and
  never repeated (`ReadsExact`).

Finding: `canary_pass` shows that a canary that passes leaves the candidate on both
FPGAs (line 240 rolls back only on failure, line 283 says so), while
`src/research/jcm33_dualalign_btc3_650/README.md:69-70` and `PATCH_NOTES.txt:11-12`
say that the qualified image is restored after a pass too.

## Fairness

* `Bridge!FairSpec`: weak fairness of `BridgeStep` (the operating system schedules
  the process; every call in the loop has a timeout, and `main` retries for ever) and
  of `FpgaLoadsJob` (the card drains its input). None for the pool, the link, the clock
  or the shares of the card. A roll falls due only when it chooses to.
* `DualMiner!FairSpec`: weak fairness of `MinerStep`, for the same reasons; none for the
  cards, the pool's choice of lines, or the clock. `RollHappens` needs no more, because
  the loop passes the roll between any two calls of `recv`.
* `JtagChain` has safety properties only and states no fairness.
* `ShareMailbox!FairSpec`: the clock runs and the server polls in a loop. Scans may be cut
  short, but not every one of them: strong fairness of `ShiftByte`.
* `JobMailbox!FairSpec`: the clock runs, and a frame that was begun is shifted to its end
  unless it is cut.
* `MinerTop!FairSpec`: both clocks run and the host empties the mailbox.
* `Canary!FairSpec`: weak fairness of the shell. Each wait in the script has a deadline
  (`wait_for_loads` 120 s), which `LoadFails` and `RollbackFails` stand for; nothing is
  assumed of the bridge.

## Proofs

TLAPS proves every safety property of the runs for every value of the constants. Each
rests on an inductive invariant; TLC finds the properties true on the instances of the runs as well. In the list, what is assumed of the constants is what
the modules state with `ASSUME`, unless a hypothesis is named.

### Bridge (`BridgeProofs`)

* `BridgeTypes`, `BridgeNoDuplicates`, `BridgeTrueWork`, `BridgeOwnSession`,
  `BridgeOneLateSubmit`, all from `BridgeInv`. Assumed: the moduli are positive and
  `TagModulus <= En2Modulus`, difficulties and nonces are naturals, `Null` is no
  template or extranonce. The properties talk of `sent`, which is inductive only
  together with what the tables hold: every key of `sent` is in `submitted`
  (`SentRemembered`), every registered job carries this session's wallet and
  extranonce1 (`JobsOwnSession`), the extranonce1 is assigned once
  (`SubscribedOnce`: one reply to the subscribe request, in the buffer or
  handled) and before any job (`NoWorkBeforeSubscribe`), an idle process has no
  connection (`IdleConnection`), and a late share means the mode check is still ahead
  (`LateOnlyAfterFlip`). `SentMovers`, `SessionMovers` and `LateMovers` name the few
  actions that touch each group, so that each is proved over those alone.
* `BridgeDistinctWork`: the tag counter and the extranonce2 counter move together, so a job
  that was built `AgeOf(t)` jobs ago has the extranonce2 of that time (`WorkOfAge`). Two
  tags have different ages below `TagModulus`, and counters less than `En2Modulus`
  apart have different remainders (`CloseRemainders`): here `TagModulus <= En2Modulus`
  (256 and 2^32) is needed. The facts about `%` come first in each module that counts
  (`BridgeProofs`, `DualMinerProofs`, `FeeScheduleProofs`).
* `BridgeResponses`: `ResponsesMatch` alone is not inductive. `Answers` adds that an id is
  answered once (`AnswersDistinct`, `AnsweredNotOwed`), that ids are given out in
  ascending order (`PendingIssued`), and that a connection that was closed is
  owed nothing (`IdleOwesNothing`).

### DualMiner (`DualMinerProofs`)

* `DualTypes`, `DualInStep`, `DualAssigned`, `DualDisjoint`, all from `DualInv`. Both counters
  are even between two pairs (`EvenCounters`), so the jobs, frames and shares of lane A
  have odd tags and even extranonce2 values, those of lane B the others
  (`JobsInPlace`, `FramesInPlace`, `SharesInPlace`). That survives the wrap because both
  moduli are even (`EvenModulus`, `NextParity`), and holds across sessions, as it does not
  mention the session at all. It is what keeps the lanes apart after a request that
  reached one FPGA only, and what makes the lane of the job table the lane of the share.
  `DualInStep` adds that a lane inside a frame has no frames to its account (`CutIsCounted`): a
  lane that has two has a hunting parser, and took the last one.
* `DualImplementsSession`: every step of the miner is a step of `WalletSession` or a
  stutter. It needs `SentRemembered` for "none twice" and `OwnSession` for wallet and
  extranonce1: the second subscribe reply that would change `en1` is ruled out by
  `replied`.
* The proofs made two assumptions of the module explicit: `MaxLines` is a natural
  (`BoundAssumption`), and `Null` is none of the values it stands beside
  (`SentinelAssumption`), which Python's `None` gives.

### Share mailbox (`ShareMailboxProofs`)

* `MailboxTypes`, `MailboxNoOverwrite`: for every length of the payload, every limit on
  lengths and every value of the bytes, and for hosts that lose answers or restart. `Handshake` says which values the four
  copies of the consumed toggle may have: as long as a frame is outstanding, every copy
  is the old one (`Outstanding`), afterwards they change in order (`Returning`), a
  read under way means outstanding, and a torn capture can only hit the first byte.
* `MailboxImplementsSlot`: with a host that polls first and loses nothing (`ReliableHost`), the
  mailbox implements `ShareSlot` for every frame length and every set of shares. `Transfer`
  adds to `Handshake` that the buffer of the host is the first `byteIndex` bytes of the frame
  and that what is missing from `delivered` is the frame (`AssembledSoFar`, `FrameIsMissing`).
* `MailboxInOrder`, for every host and every failure. The delivered shares are `Picked` from
  the accepted ones in their order. The step that matters is that a frame passes the
  CRC only with the last byte of the frame that is out now: the scan shows a byte of
  that frame or none of any (`ScanShowsItsByte`), and the frame that is out is the last one
  accepted (`OutIsLast`) and not picked yet (`NoLongerOut`).
* `MailboxLossBounded`: an account. Each failure and each torn capture pays for two shares, each
  misread length for `Reach`; what is left is the `Credit`. `Aligned(m)` says that `m` shares
  are enough for what the buffer of the host may still swallow: a place in it where the frame
  being read begins is in step (`InStep`) and owes nothing, any other place where a frame
  may begin, and any header that was believed, ends a known number of bytes later, and the
  frames up to there are paid for (`StartPaid`, `HeaderPaid`). `Recovery` says that the credit
  covers such an `m`, with two to spare while a torn byte is on its way. Each byte
  uses up what it pays for; a failure or torn byte adds at most two frames (`ByteIsLost`,
  `TornShift`), and a header that is believed at most the longest payload (`StaleHeader`).
* That no failure makes the host misread two headers (the second half of `LossIsBounded`) needs
  `OneEach`: a length other than that of a share is read at a start that is out of step
  (`HeaderStale`) only, and a byte that comes never puts one there (`StaleWasStale`), while a
  header that is misread uses the only one up (`MisreadIsStale`).

### Job parser (`JobMailboxProofs`)

* `JobMailboxTypes`, `JobMailboxAlignment`, `JobMailboxImplementsChannel`: for every length
  of payload, any number of frames and of failures. `AlignInv` adds that a parser which
  has seen nothing is due the head of the first frame (`HeadIsDue`). `JobInv` relates the
  clock domains: accepting two jobs takes the parser more words than the synchroniser has
  stages (`Settling`), so at most one flip of the toggle is on its way (`OneFlip`),
  the bus is settled before the flip comes out (`BusAheadOfToggle`), and the mailbox never
  holds a frame older than the job (`LatestJob`).
* `JobMailboxRecovers`: the same kind of account, over the frames that were `Missed`. At each byte
  of a frame the parser is in step with it (`InStep`), or is busy with an older frame and
  will be searching again before this one ends (`Adrift`), or stands anywhere; then nothing, one frame
  or two frames are still paid for. A magic that shows up while the parser hunts is
  paid for by `misled`.

### MinerTop (`MinerTopProofs`)

For every depth of the pipeline and every ratio of the clocks.

* `MinerTypes`, and `MinerShareKept` without any hypothesis: `share_valid` is a pulse, raised at
  an empty mailbox (`ShareIsPulse`).
* `MinerShareCurrent`, if the jobs have different tags (`TagsDistinct`), also with losses of
  lock and hits on any cycle: a candidate keeps the tag of the job it was hashed from
  (`CandidatesOwnTag`), and before the first job there is none (`BeforeFirstJob`). The host
  numbers jobs modulo 256, so jobs of one tag are 256 jobs apart, while a candidate crosses
  in a few cycles. Without the hypothesis `TopInv` still gives the tag of the share.
* `MinerJobWhole`, if lock is never lost (`~MayReset`): where the toggle has come, the
  bus one flip-flop further on holds the new job (`JobCrossing`).
* `MinerShareGenuine`, if besides candidates are judged as fast as they come (`KeepsUp`):
  the same for the way back (`CandidateCrossing`). Both hypotheses are needed, as the section
  on the runs says; difficulties at which hits are millions of cycles apart justify
  `KeepsUp`.
* `JobAssumption` now says that no job, a mixture and the cleared register are three values.

### Canary (`CanaryProofs`)

* `CanaryTypes`, `CanaryRestores`, `CanaryReport`, `CanaryQualifies`, for every set of devices. `CanaryInv`
  says what the shell's variables tell of the board: untouched before the attempt is
  noted (`UntouchedBefore`), which bridge can run where (`BridgeFollowsShell`), what the log and
  `IMAGE_PROGRAMMED` say is on the devices (`LoadedIsOnBoard`, `ProgrammedIsLoaded`), that a
  rollback is run when it must be and passes on a restored board only
  (`RollbackIsDone`), and that exit code 0 means a complete canary (`SuccessIsQualified`).

### FeeSchedule (`FeeScheduleProofs`)

* `FeeTypes`, `CreditWindows`: for every cycle, fee, phase and lag.
  `FeeInv` adds `NotLongOverdue`, a session in the wrong mode has been so for less than
  its lag; the arithmetic rests on `NextPosition`, from `NextRemainder`.
* `DeveloperShare`: in any stretch of one cycle, the seconds credited to the developer
  have different positions in the cycle, all of them inside the window or one lag after
  it, so there are no more of them than such positions (an injection, and the cardinality
  of an interval).

### JTAG chain (`JtagChainProofs`)

For every width of instructions, bytes and ID codes, frames and outboxes of any length, any number
of read scans and of requests, and a cut after any clock. Two lanes are the
`LANE_COUNT` of the miner and stay fixed.

* `ChainInvariant` and `ChainTypes`: `ChainInv` says, of every clock of every request, what the
  position in the program implies. The TAPs are where the next bit of TMS needs them
  (`TapIsThere`; in the leading ones of a reset, closer to Test-Logic-Reset with each),
  the selected data registers hold their part of the stream that runs through them
  (`RegistersHold`), every card has the words of the scans so far and the bits of this one
  (`WordsAreRight`), and has given up the bytes of the windows so far
  (`StockIsRight`), the windows hold the bits they should (`WindowsAreRight`), and no word
  on its way is a wrong one (`NoneWrong`). The three properties are about
  requests that are answered; none is inductive without all of this.
* A scan is described by streams: a register sends out what it captured and then what it takes
  in, so that the k-th clock of a scan shifts the k-th bit of `IntoLane` into a lane, and a
  window is a prefix of `OutOf` lane 0 (`Flow`). The word
  a USER2 card completes is then cut out of a stream that the host chose, and a
  lemma per kind of scan computes it: the byte before the bypass bit for one lane, behind it
  for the other.
* A program is a sequence of scans whose length is a constant of the model. `Known` lists the
  kinds of operation a request can be at (`PauseAt`, `SelectAt`, `ProbeAt`, `IdsAt`, `WriteAt`,
  `ReadAt`), with what each adds to the words and windows and what the next data scan finds selected;
  `Positions` shows there are no others, so no induction over a program is needed.
* What survives a `Cut`, while the host is closed and up to the first clock of the next connect
  (`FromAnywhere`): wherever the TAPs stop, the words of the cards are
  a beginning of what was meant (`NoneWrong`), and the one clock that the next reset may still
  shift completes no wrong word (`NextIsRight`, from `LastBitIsRight`).
  That last fact is where the bypass bit behind the byte matters: the ninth bit of lane 1 is this
  bit, a zero as the reset sends it, and the ninth bit of lane 0 waits in the bypass register of
  lane 1 already. With the calibration's padding of lane 1 the ninth bit is one of the byte,
  hence `misread`.
* `ChainWrites`, `ChainReads` and `ChainIsMeasured` follow from `ChainInv`. For `ReadsExact` the windows
  with a clear flag are the first ones, as many as the card had bytes (`NthOf`), and at
  the offset of the lane each of them shows its byte. For `ChainMeasured` the answer to the
  probe is the two captured cells, the probe and ones (`IrAnswer`), and that the probe is found at one
  place only is `ProbeAssumption`: the code draws its 128 bits from a fixed seed,
  and `self_test` asserts this of them.

### Only model-checked

* The liveness properties (`RotationHappens`, `WorkReachesCard`, `RollHappens`, `EveryShareArrives`,
  `WholeFrameArrives`, `CandidateBecomesShare`, `JobReachesEngine`, `RunnerEnds`): fairness and
  ENABLED are out of the prover's reach.

## Not modelled

* Header layout, merkle and coinbase hashing, target arithmetic and the Keccak datapath:
  pure functions over data that TLC cannot enumerate.
* Real time: that a 32-bit nonce field lasts 6.6 s at 650 MHz and the roll comes after
  7.5 s wastes hashing, and is a matter of rates. The model allows repeats at any time.
* Payloads that look like the magic: in `ShareMailbox` those of shares, which might mislead the
  search for the next frame; in `JobMailbox` those that contain a whole job header. That a
  CRC passes by chance for bytes of two frames.
* In `JtagChain`: USER3 and the status poll of the third-party server (`ShareMailbox` has
  them), the diagnostic acknowledge frame and its search (`iter_jobacks`), which try every
  offset and only print what they find, and the TCK period.
* Evidence files and log formats of the canary script.
* The launchers (`start*.sh`) and the systemd fleet: pid files, readiness and restarts. Two
  of their hazards are listed in `PROJECT.json` with the lines: `die` does not run the rollback of
  `start`, and a start after a crash of the bridge overwrites the pid files of workers
  that still run, which `stop` then no longer finds.
* The 525 and 550 MHz canary runners, earlier versions of the one modelled; the 350 MHz
  bitstream.
* Vivado builds, installation, checksums and the third-party binaries.

## Plan

Modelled, checked and proved: everything in the table of modules. What is left:

1. Compositions: `JobMailbox` with `MinerTop` in place of `JobPulse`, the miner with the
   share mailbox (`shareReady` from the toggles), and the bridge over `ShareSlot`.
2. `Launcher`: start, rollback on a failed start, stop, stale pid files.
3. `Fleet`: readiness from logs, restarts, cable ownership.
