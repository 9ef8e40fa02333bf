# A TLA+ verification of satipclient

satipclient connects a Linux box (enigma2) to a SAT>IP server. The kernel's
virtual tuner device hands it tuning parameters and pid lists; satipclient turns
them into RTSP requests, keeps the session alive, reconnects when it is lost,
finds out which pids a CAM needs, and writes the received transport stream back
into the device. This directory models what decides whether a tuner keeps
working: ordering, timeouts, failures, threads and buffers. TLC checks the
models on small instances, and TLAPS proves the central invariants of the
session for every instance.

## The system

One process, one *session* per tuner of `/etc/vtuner.conf`. Main waits for a
signal. A session has a session thread and, unless `tcpdata:1` is set, an RTP
thread.

| component | state | operations | talks to |
|---|---|---|---|
| `satipConfig` (config.cpp) | frontend parameters, channel status, tune generation, pid table, requested pids, ca pids | kernel setters, `updatePidList`, `clearProperty`, `setCaPids`, `getSetupData`, `getPlayData` | written by the vtuner (session thread) and the PSI parser (RTP thread), read by the RTSP state machine |
| pid table (config.cpp) | `MAX_PIDS` slots with pid and status | `updatePidList`, `clearPidList`, `commitPidStates` | part of `satipConfig` |
| `satipRTSP` (rtsp.cpp) | status, awaited request, socket, session and stream id, receive buffer, three timers, backoff | `handleRTSPStatus`, `handlePollEvents`, `sendRequest`, `handleResponse`, `resetConnect`, timer handlers | server (TCP), `satipConfig`, over TCP also `satipRTP` |
| `satipSession` (session.cpp) | threads, wakeup pipe, `m_running` | `satipMainLoop`, `start`, `stop`, `join`, `wakeup` | calls all of the above in a fixed order per turn |
| `satipTimer` (timer.cpp) | active timers with their due times | `start`, `stop`, `callNextTimer`, `getNextTimerBegin` | `satipRTSP`, the poll of the session thread |
| `satipVtuner` (vtuner.cpp) | device, tone, tune tries, tune timeout | `vtunerEvent` and the messages it dispatches | kernel, `satipConfig`, `satipRTP` |
| `satipPSI` (psi.cpp) | PAT, CAT, PMTs, section assemblers, joined, watched and derived pids | `processTS`, `reset`, `setJoinedPids`, `recompute` | RTP thread, session thread, `satipConfig` |
| `satipRTP` (rtp.cpp) | sockets, thread, lock and signal values | `rtpDump`, `rtpTcpData`, `rtcpData`, `openRTP`, `start`, `stop` | kernel device, `satipPSI`, server |
| manager, main | sessions, signal flag | `satipStart`, `satipStop`, signal handler | `satipSession` |

What is hard here:

* a turn of the main loop looks at the timers and at one kernel message *between*
  `poll` and the handling of what `poll` reported;
* a request records its effect (pids committed, channel settled) when it is
  written, before anybody knows whether it reaches the server;
* the kernel may tune again, change pids or release the tuner at any point of
  the RTSP dialogue, and sends the parameters of one tuning in many messages;
* every failure goes through `resetConnect`, which must leave the tuner with a
  way back, but must not revive a released one;
* the PSI parser runs on two threads and reports while requests are being built;
  lock and signal values are shared without any lock;
* with `tcpdata:1` answers and stream packets share one receive buffer, and every
  packet restarts the watchdog;
* sections are put together from packets that may be lost, and tables change
  section by section.

## Modules

| module | models | composes |
|---|---|---|
| `PidList` | what the pid table promises: a status per pid, at most `MAX_PIDS` in use | |
| `PidTable` | the slots and the searches of `updatePidList` | implements `PidList` |
| `SatipConfig` | `satipConfig`, the kernel messages of `satipVtuner` that change it, the reports of the PSI parser; on its own, requests and lost connections come in any order | extends `PidList` |
| `RtspSession` | `satipRTSP` and the main loop of `satipSession` | extends `SatipConfig` and implements its specification |
| `Tuning` | the parameters behind `SatipConfig`'s `m_params`: property messages, DiSEqC, conversions, `getTuningData` | |
| `RxBuffer` | the receive buffer behind `RtspSession`'s `Receive...` actions, byte by byte | |
| `SessionClock` | `RtspSession`'s timers in seconds, against the server's session timeout | |
| `SatipTimer` | the timer list and the poll timeout in nanoseconds | |
| `SectionAssembler` | `processTS` and `feed` for one pid | |
| `Psi` | the tables of the PSI parser and `recompute` | |
| `CaThreads` | the way of a report from the parser to a request, lock by lock | |
| `FrontendStatus` | lock and signal values, store by store | |
| `Lifecycle` | main, manager, creation, stop, join and destruction of sessions and threads | |
| `PidTableProofs` | theorems about `PidTable`, the refinement of `PidList` included | |
| `RtspSessionProofs` | theorems about `SatipConfig` and `RtspSession` | |
| `SessionClockProofs` | theorems about `SessionClock` and `SatipTimer` | |
| `FramingProofs` | theorems about `SectionAssembler` and `RxBuffer` | |
| `PsiProofs`, `CaThreadsProofs`, `LifecycleProofs` | theorems about the module of that name | |
| `VtunerProofs` | theorems about `FrontendStatus` and `Tuning` | |
| `MC*` | instances for TLC | |

The modules after `RtspSession` refine what it abstracts, each for the questions
of its own: `RtspSession` says *that* a timer is active, `SessionClock` when it is
due and `SatipTimer` whether it is called then; `RtspSession` says that an answer
arrives, `RxBuffer` how; it lets a report come at any time, `Psi` says which
report, `SectionAssembler` from which bytes, and `CaThreads` how it gets there.

### How the state corresponds to the code

Variables have the names of the members they model. What differs:

**SatipConfig, RtspSession.** `m_params` stands for all frontend parameters: the
generation number of the `DTV_TUNE` that completed them, or 0 once one of them was
changed or cleared. `m_pid_list` is a function from pids to statuses in `PidList`
and an array (`slots`) in `PidTable`; the run `pid_table` and the theorem
`TableImplementsPidList` connect the two.
`server_tune` and `server_pids` are external: the tuning and the pids that the
requests sent on the current connection gave the server. A server that is tuned
anew starts without pids; that is what `getPlayData` relies on. `m_session` stands
for session id and stream id, `m_fd` for the socket, `m_timers` for the set of
active timers, `pc` for the position in the main loop and `revents` for what
`poll` reported. One turn of the loop is five actions: `HandleRTSPStatus`, `Poll`,
`HandleNextTimer`, `VtunerEvent`, `HandlePollEvents`. Everything a handler calls
is part of its action, e.g. `Play` includes `getPlayData`, `commitPidStates`,
`updatePidStatus`, the send, and the reset if the send fails. `RtpThread`, the
report of ca pids, may come between any two of them. `callNextTimer` can call only
one handler per turn, because `reset_connect`, the first in its list, stops
`keep_alive`, and no other two timers are ever active together (`TimersFitStatus`,
a conjunct of `SessionInv`). `ReceiveOkAndData` is the case in which the answer to
a request and the beginning of the stream arrive in one `recv`: `handleResponse`
digests the answer, goes back to `again:` and returns `RTSP_OK` instead of
`RTSP_RESPONSE_COMPLETE`.
`restarted` is history: the `recv` of this turn brought complete packets, which
restarted the watchdog (rtsp.cpp:288). It tells a stream from end of file and
from half a packet (`ReceiveNothing`), where the socket is readable too but the
timer runs on.

**Tuning.** One action per kernel message. `asked` keeps what the kernel said in
the kernel's units; `sent` is the result of `getTuningData` in the last request.
The frequency is converted when it arrives, with the tone of that moment. A code
rate is stored only if the code knows it, a terrestrial code rate message sets it
back to automatic, and `getTuningData` leaves out the ones without a name.

**RxBuffer.** The byte stream is a queue of messages with the number of bytes not
yet consumed; `m_rx_data_pos` bytes of it are in the buffer, `unread` in the
socket. `Recv` takes any number of bytes that fit; one turn of the `again:` loop
is one action. The length of a message is taken as given (`ConsumeMessage`).

**SessionClock.** Timers hold the seconds left. `Tick` is enabled only when no
turn of the loop would do anything: a turn takes no time. `tcp_data` is a variable
that never changes, so that one run covers both transports.

**SatipTimer.** `Later`, `Before` and `RoundUp` are the timespec arithmetic of
timer.h and timer.cpp, with C's truncating division. The time handlers take and
the delay of `poll` are inputs.

**SectionAssembler.** A byte is a pair of section and index. Of the buffered bytes
only matters whether they are the first ones of one section (`owner`) and how many
(`len`). A header glued from two sections announces any length.

**Psi.** A section is a record of what its bytes say. `packet` is the pid
`processTS` works on while it holds `m_lock`; `Recompute` is part of `Reset`,
`SetJoinedPids` and `EndPacket`, as in the code.

**CaThreads.** `pc` of each thread is the next lock, store, write or unlock.
A pid set is a model value.

**FrontendStatus.** `rtp` and `session` are the stores each thread has still to
make; each is a step, and so is the second read of `m_hasLock` before the quality
is stored. A report whose tuner part does not parse leaves its locals
uninitialised (rtp.cpp:176), so that any values are stored for it; `last` is what
the locals held.

**Lifecycle.** `pc` is main's step, `cur` the tuner it works on; the other
variables hold a value per tuner. Signals are delivered only where main has them
unblocked.

## Runs

| run | instance | checks |
|---|---|---|
| `pid_table` | 4 pids, 3 slots, every kernel array | `OneSlotPerPid`, refinement `ImplementsPidList` |
| `rtsp` | 1 pid, 1 slot, ca pids on, 2 retunes, stream over TCP | `SessionTypeOK`, `NeverStranded`, `TunedToLatest`, `BackoffBounded`, `SessionInv`, `NoLostPid`, refinement `ConfigSpec`, liveness `Recovers`, `KeptAlive`, `WaitEnds` |
| `claim_teardown` | the same without ca pids | `TornDownGoesWaiting` is violated |
| `tuning` | satellite, cable and terrestrial tuner; one value per parameter, one code rate that is known and one that is not, stream ids absent or in the old packed format, two switch commands | `SettledAsAsked` |
| `rx_buffer` | buffer of 10 bytes, packets of 4 and 9 bytes, answers of 4 and 13, 3 messages on the way | `InBuffer`, `BytesAccounted`, `NothingLeftBehind`, `CompleteIsAnswered`, liveness `AnswerReachesRequest` |
| `clock` | announced timeouts 3, 5 to 9 and 15 s, default 60 s, both transports | `SessionKept`, `GivenUpInTime`, `KeepAlivePaced` |
| `timer` | two timers of 1 and 600 ms, a clock just before a full second, handlers of 0 and 3.5 ms, 3 turns | `NoIdleTurn`, `NoOversleep` |
| `section_assembler` | 3 sections of 4, 5 and 9 bytes in 8 packets, limit 9 | `BufferBounds`, `UnbrokenHandled` |
| `psi` | 2 services, tables that change, limit 7 | `TablesFitPat`, `WithinLimit`, `NothingForeign`, `WholeServices`, `StaleOnlyByStreams`, liveness `NeededDerived` |
| `ca_threads` | 3 pid sets, pipe of 2 bytes | `NoLostWakeup`, `FlagIsTrue`, liveness `ReportRequested`; deadlock of the two locks |
| `frontend_status` | 4 `MSG_SET_FRONTEND` per tuning | `SignalFollowsReport`, `ToldAsReported` |
| `lifecycle` | 2 tuners, 2 devices, 2 signals, pipe of 2 bytes, UDP | `ThreadsEndFirst`, `DevicesOwned`, `NoSleepAfterStop`, liveness `SignalEndsProcess` |

What they show, and why the bounds are enough:

* `pid_table` has one pid more than slots, so that the table can be full while
  another pid is asked for, and slots with stale pids are reused and found again.
* `rtsp`: two retunes allow one to be served and one to be pending, which is what
  `m_attempted_generation` compares. The one pid can be wanted by the kernel, by
  the parser, by both and by neither. With `TcpData` the model has every behaviour
  of UDP and those of a shared socket besides. The instance is small because of the
  liveness properties; the safety properties are proved for every instance.
  `MaxTunes` is the only bound on a counter; `m_reconnect_attempts` bounds itself.
* `tuning` has one value per parameter because values never meet each other;
  what matters is whether one is set, cleared, or left over, under which tone
  it was converted, and that packed stream ids are taken apart. The committed
  switch bytes set, clear and leave alone.
* `rx_buffer`: the longest packet fills the buffer exactly, the shortest has an
  empty payload, the longer answer overflows, and three messages allow an answer between two packets.
* `clock`: timeouts around the 5 s margin and the 4 s watchdog, on both sides of
  twice the watchdog, and the default.
* `timer`: an interval that carries into the next second and one that does not,
  delays at both ends of a millisecond, handlers that outlast an interval.
* `section_assembler`: sections end with a packet, before a pointer field and
  before stuffing, share a packet, are cut in the header and in the body, have the
  minimal and the maximal length; any packet may be lost, and the pid forgotten.
* `psi`: more pids than the limit, services that come and go, a PAT in two
  sections, entries and CA systems that are skipped, a malformed PMT, a PMT that
  moves its streams and keeps its ECM pids.
* `ca_threads`, `frontend_status`: every interleaving of two threads; three pid
  sets tell "changed back" from "changed again"; the pipe can be full.
* `lifecycle`: a second tuner can want the device of a failed first one, a second
  signal kills. `CHECK_DEADLOCK FALSE` because the process ends; the timer run
  has it because its turns are bounded.

### Fairness

* `RtspSession`: `WF(MainLoop)`, since the session thread runs and `poll` returns at
  the latest when the next timer is due. For each timer: it is infinitely often
  inactive, infinitely often started again (the watchdog, by requests and packets)
  or its handler runs infinitely often. Weak fairness of the handlers would be too
  much: it would make a timer fire although every answer comes in time. A packet
  counts as a restart only if it was complete (`restarted`): a server that hung up
  and leaves the loop spinning at end of file (rtsp.cpp:265) restarts nothing, so
  that the watchdog ends that wait, over both transports. Nothing is
  assumed about server, kernel or RTP thread. The premises of `Recovers` and
  `WaitEnds` say what is needed of them; each one that is about the stream on the
  RTSP socket is needed there and holds by itself over UDP.
* `RxBuffer`: `WF(HandleResponse)`; `poll` is level triggered and a call returns.
* `CaThreads`: strong fairness for steps that take a lock, which is held for a few
  instructions; a byte in the pipe ends `poll`; a request is answered or given up.
  `poll` need not return for any other reason, as the next timer can be a minute
  away: that is what makes `ReportRequested` depend on the pipe.
* `Psi` (in `MCPsi`): the current sections are repeated and each is received again
  and again; any number of them may be lost.
* `Lifecycle`: every thread runs, a signal that is not blocked is delivered.

### What the code promises, and where it stops

`PROJECT.json` has one finding, the run `claim_teardown`: over TCP a `TEARDOWN`
answer that shares a `recv` with stream data leaves the session in
`SESSION_TEARDOWNING`, without a request to wait for, and without a timer if the
packet is incomplete. `NeverStranded` speaks of connecting, of unanswered requests
and of lost sessions and does not cover this state; `Recovers` names it as a
premise.

The properties are stated so that they hold of the code as it is. Behaviours a
reader should know when reading them:

* `updatePidList` adds before it deletes, so that a list that would fit is
  accepted only in part when the table is nearly full (config.cpp:212).
* The reset timer can close the socket between `poll` and `handlePollEvents`; the
  event then meets `CONFIG_WAITING` and is ignored (rtsp.cpp:900).
* Over TCP a `PLAY` answer that shares a `recv` with the stream repeats `PLAY`
  (rtsp.cpp:390), and a server that streams without answering keeps a request
  waiting, because every packet restarts the watchdog (rtsp.cpp:288).
* A retune that an open session served with `PLAY` is not recorded in
  `m_attempted_generation`, so that the retry after a loss counts as a new tuning
  and resets the backoff (rtsp.cpp:762).
* A tuner released while it connects still sends `SETUP`, without parameters
  (config.cpp:657). A second `DTV_TUNE` without a new pid list sends `PLAY` with the
  tuning and without pids and leaves nothing to send (config.cpp:715): hence the
  premise of `NoLostPid`.
* A PMT that moves streams and keeps its ECM pids is not acted upon before the
  next change (psi.cpp:440), an exception to src/README.md:28, where a service
  counts as received when the kernel asked for one of its streams; `StaleOnlyByStreams` says that this is the only way to
  get stale, and `WholeServices` that a stale report is still complete for the
  services it is about. `NeededDerived` holds all the same for tables that bring ECM pids.
* Services that share a PMT pid and version hide each other (psi.cpp:393); the
  instance of `psi` has one service per PMT pid.
* A half assembled section swallows the start of the next one (psi.cpp:197):
  `UnbrokenHandled` begins where the assembler is free.
* With `DTV_FREQUENCY` before the tone of its tuning the frequency is converted for
  the other band (vtuner.cpp:310); `Tuning` assumes the other order.
* A report of the transponder before that arrives after a retuning is told as a
  lock: a report does not name its tuning.
* While a report is being stored the lock is gone for a moment (rtp.cpp:171):
  `ToldAsReported` allows either answer then.
* A session timeout of 4 s or less cannot be kept (rtsp.cpp:990), as `SessionKept`
  says; with 5 s or less `OPTIONS` follows every answer without a pause: `KeepAlivePaced`
  says nothing there, only the guard against a second request bounds the rate.

## Proofs

Every invariant and every action property that a run checks is also a theorem,
for every value of the constants, and so are both refinements. Each module's
inductive invariant was first checked with TLC on the instance of its run. The
proofs use the named assumptions of the modules, which say what the code
guarantees of a constant: sizes are natural numbers, sets are finite where they
are in the code, `PSI_MAX_DERIVED_PIDS` leaves room for PAT and CAT, a section is
at least `MIN_SECTION_LEN` long.

**`PidTableProofs`** (`TableTypeCorrect`, `TableOneSlotPerPid`,
`TableImplementsPidList`). `OneSlotPerPid` is inductive once two things are
added: the types, and that a slot which never had a pid is `PID_INVALID`
(together `Sound`). `AddPidFact` says what one pid of the kernel's array does to
the statuses of all pids. `AddAllResult` carries it over the array by induction
on its prefixes: a pid seen so far is in the table, or no slot is free any more.
`FreeCount` counts: the slots that are not free correspond one to one to the pids
in the table. From both, `TakenAccepted` shows that a message accepts exactly as
many new pids as `PidList` says, although a slot may be taken from a stale pid
that comes later in the same array.

**`RtspSessionProofs`**, configuration (`ConfigTypeCorrect`, `ConfigInvariant`,
`ConfigNoLostPid`). `NoLostPid` alone is not inductive: it says nothing while a
difference is pending. `ConfigInv` says what is known then: the pids whose commit
the server heard of (`PID_VAILD` and `PID_DELETE`), with the ca pids, are the
requested ones. `updatePidList` does not change the committed pids
(`UpdateKeepsCommitted`), a request makes them the active ones
(`CommitRequests`), and with nothing pending committed and active pids are the
same (`StationaryMeansCommitted`).

Session thread:

* `SessionTypeCorrect` and `SessionInvariant` are proved together with the
  refinement. `SessionInv` joins `TimersFitStatus`, `NeverStranded`,
  `RequestFitsStatus`, `ConnectionState`, `TunedToLatest` and `RequestedDelivered`
  with `SessionFacts`, which they need: a channel stays unsettled until `SETUP`
  carries it (otherwise a failed connect would not schedule a retry), a session
  that is torn down has no settled channel, and a channel that changed while a
  retry was pending was tuned anew (otherwise a connect would leave the reconnect
  timer running). `ResetConnectStep` shows that `resetConnect` establishes the
  invariant from anywhere; every failure path cites it.
* `SessionNeverStranded`, `SessionTunedToLatest`: the conjuncts a reader will look
  for.
* `SessionImplementsConfig`: `SessionSpec => ConfigSpec`. The retry timer is a
  step of the configuration only because it checks that the channel is settled,
  and a failed connect only because the server knows nothing by then.
* `SessionNoLostPid` carries the configuration's theorem over to the session.
* `SessionBackoffBounded`: the shift count of the reconnect delay is at most 5.

**`SessionClockProofs`**, session (`ClockTypeCorrect`, `ClockGivenUpInTime`,
`ClockKeepAlivePaced`, `ClockSessionKept`). The timers are related to the
server's clock: while an answer is awaited `reset_connect + quiet` is at most the
reset delay (at most, because the model's clock stops beyond the longest
timeout), and `keep_alive + quiet` is at least the keep alive delay; that gives
the first properties. `SessionKept` needs the other side, `QuietBounded`:
`keep_alive + quiet` is at most the keep alive delay plus the reset delay, four
seconds that fit into the five the keep alive is early. `ClockSessionKept` has
one hypothesis, `AnswerTime <= ResetDelay`. It matters for TCP only, where each
packet restarts the watchdog, and is false of a server that streams without
answering: see rtsp.cpp:288 above.

Timer list (`TimerTypeCorrect`, `TimerNoIdleTurn`, `TimerNoOversleep`).
`RoundUpFact` is the heart: the timeout `getNextTimerBegin` computes is strictly
more than the difference of the two timespecs and at most two milliseconds more,
also where C truncates a negative difference toward zero. `WaitsLongEnough` keeps
the first half until `poll` returns; `NextIsFirst` shows that no active timer is
earlier than the one waited for.

**`FramingProofs`**, section assembler (`AssemblerTypeCorrect`,
`AssemblerBufferBounds`, `AssemblerUnbrokenHandled`). `UnbrokenHandled` speaks of
the last byte; `UnbrokenIsHeld` says what holds before it: the section received
without a gap is the one in the buffer, and an announced length is its own. For
every list of packets, every subset of them lost.

Receive buffer (`BufferTypeCorrect`, `BufferInBuffer`, `BufferBytesAccounted`,
`BufferNothingLeftBehind`, `BufferCompleteIsAnswered`). All of them need that the
bytes in the buffer and the socket are those of the messages, already to show that
the number of unread bytes is never negative. `BytesAddUp` says so without
recursion (partial sums exist), which is what an appended message, a shortened
first one and a flushed buffer preserve; `EndsAddUp` then shows, by induction on
the prefixes, that the recursive sum of `BytesAccounted` is the same.
`AwaitedSinceCall` ties the result of a call to the request that was pending when
the call began.

**`PsiProofs`** (`PsiTypeCorrect`, `PsiTablesFitPat`, `PsiWithinLimit`,
`PsiNothingForeign`, `PsiWholeServices`, and the action property
`PsiStaleOnlyByStreams`). `NothingForeign` speaks of the moments between packets;
the invariant keeps it within a packet until `m_dirty` says that a table has
changed (`WholeServices` likewise: a change of the ECM pids of any known service
raises `m_dirty`), and says that a packet which is looked at belongs to a table the parser
knows. The lemmas about `Truncated` (the cut by pid number has at most the limit,
keeps what the base pids need, and cutting a cut set again with some of its
sources changes nothing) rest on counting and on the least element of a set of
pids.

**`CaThreadsProofs`** (`ThreadsTypeCorrect`, `ThreadsLocksHeld`,
`ThreadsNoLostWakeup`, `ThreadsFlagIsTrue`). With `LocksHeld` (a thread between
lock and unlock is the holder) both properties are inductive: a store to shared
state is made by one thread while the other cannot be in the same section.

**`LifecycleProofs`** (`LifecycleTypeCorrect`, `LifecycleThreadsEndFirst`,
`LifecycleDevicesOwned`, `LifecycleNoSleepAfterStop`). The invariant follows main
through the tuners: which of them have been created (`CreatedInOrder`), whose RTP
thread was ended (`RtpThreadsEnded`), whose session thread was joined
(`SessionThreadsEnded`). `NoSleepAfterStop` holds because a stopped thread that
has tested the flag and is not yet in `poll` already has its byte (`FlagAndByte`).

**`VtunerProofs`**, status (`StatusTypeCorrect`, `StatusSignalFollowsReport`,
`StatusToldAsReported`). The stores each thread has still to make decide what a
member may hold: once its zero is stored no more than the last report
(`NoMoreThanReported`), without a tuning no less once its value is stored
(`NoLessThanReported`). A quality whose lock was read before the other thread
cleared it (`quality_held`) can only be of the last report.

Tuning (`TuningTypeCorrect`, `TuningSettledAsAsked`). `MembersAsAsked`: every
member is the conversion of what the kernel said last. The frequency is that only
while the kernel is not at the LNB, since it was converted with the tone of its
moment; `OscillatorUnits` shows that adding the oscillator after the division is
the same as before it.

Only model-checked: the liveness properties `Recovers`, `KeptAlive`, `WaitEnds`,
`NeededDerived`, `ReportRequested`, `AnswerReachesRequest` and
`SignalEndsProcess` (fairness and `ENABLED` are out of the prover's reach), the
absence of deadlock, and the finding.

## Abstractions, and what is not modelled

* `RtspSession`: an active timer may be due whenever the timers are looked at.
  Messages and packets arrive whole or not at all (`ReceiveNothing` stands for an
  incomplete one, for end of file and for a full buffer). `DESCRIBE` is never sent
  by the code. The parser reports any set that contains `BaseCaPids`. With
  `tcpdata:1` it runs inside `handleResponse`; reports commute with the rest of it
  and stay an action of their own. Requests are outcomes, not text.
* `RxBuffer` is about TCP data mode; over UDP the socket carries answers only. An
  answer that overflows the buffer is not cut within its final CRLF CRLF. An error
  result of `recv` (-1, added to the position at rtsp.cpp:272) is not modelled: what
  the byte before the buffer holds is outside the model, and `poll` has to report a
  socket as readable that then fails.
* `SessionClock`: a turn takes no time; a server that streams over TCP answers
  within 4 s; the product `(timeout - 5) * 1000` does not overflow.
* `Tuning`: an application sets up the LNB before the properties of a tuning. The
  symbol rate stands for the parameters that are stored and sent alike. Names of
  modulations and other enumerations are text and left out.
* `SectionAssembler`: the crc is right exactly for one whole section.
* `Psi`: descriptors other than CA descriptors, and how fields are cut out of the
  bytes, are left out; a section that does not parse is `well_formed = FALSE`.
* `FrontendStatus`: of strength and quality only "not zero" is kept; the products
  that scale them for the driver (vtuner.cpp:592) and the numbers of the report are
  data.
* `CaThreads` begins with an established session; `Lifecycle` reduces a turn of a
  thread to what it does to the flag and to the pipe.
* Not modelled: the option parser and the command line (pure parsing, before any
  thread exists), logging, daemonizing, moving stream packets to the device (one
  read and one write), the text of requests.

## Plan

1. Done: the session: `PidList`, `PidTable`, `SatipConfig`, `RtspSession`.
2. Done: the rest of the system: `Tuning`, `RxBuffer`, `SessionClock`,
   `SatipTimer`, `SectionAssembler`, `Psi`, `CaThreads`, `FrontendStatus`,
   `Lifecycle`.
3. Done: theorems for every invariant, every action property and both
   refinements.
4. To do: `Psi` and `SatipConfig` composed, with the reports of the parser as the
   refinement of `PsiReport`, and the proof that the copies of the derived set agree.
