# IPTV UDProxy in TLA+

A formal model of the Go program under `src/`: an HTTP proxy that turns IPTV
multicast into unicast streams, replaces sources by time rules and viewing
limits, and dials the IPTV line with pppd. The modules here state what its
concurrent parts promise, TLC checks them on small instances, and TLAPS proves
the central ones for every size. Line numbers refer to the files under
`src/`.

Contents: [the system](#1-the-system) ·
[modules and the code](#2-modules-and-the-code) · [runs](#3-runs) ·
[proofs](#4-proofs) · [findings](#5-what-the-code-does-not-do) ·
[not modelled](#6-not-modelled) · [order](#7-order-of-the-work)

## 1. The system

One process. `main` opens the JSON stores, starts the background goroutines
and serves HTTP; every viewer is one goroutine in `relay.ServeHTTP`.

    viewer --HTTP--> relay.ServeHTTP --claims--> reader pool --> mcast.Reader <== multicast
                      |   |   |   \--packets--> rtp.Depacketizer -> StreamSwitcher -> viewer
                      |   |   \--every 3 s----> rules.Resolve, limits.CheckLimit (stats)
                      |   \--end of stream----> stats.AddRange, limits.EndSession -> storeutil.WriteJSON
                      \--first / last stream--> pppoe Start, NotifyActivity, NotifyIdle -> pppd
    console --> api --> rules / limits / channels / settings -> storeutil.WriteJSON
                        settings.onChange --> pppoe, relay, routeguard

| Component | State | Operations | What is hard | What makes it correct |
|---|---|---|---|---|
| **reader pool** (`relay.go:784-849, 266-295`) | map address → reader with a reference count; a creation mutex per address | getOrCreateReader, releaseReader, sweepEmptyReaders | the socket is opened outside the global lock; slow and failing opens; releases against lookups | one socket per address; counts exact; a held reader is live; nothing leaks; every request is served |
| **mcast.Reader** (`mcast.go`) | socket, subscribers and their queues | Start, Stop, Subscribe, broadcast | a slow subscriber is removed under its owner; receivers run during a broadcast; Stop meets a blocked read | a subscriber gets every packet in order or an end before the first it misses; whoever is removed leaves; Stop ends the goroutine |
| **stream session** (`relay.go:324-782`) | current source, candidate, timer, override, reader references | packets, 3-second tick, candidate ready / refused / late, every way to end | rules, limits and sources change under a stream; a candidate has six ways to go | references equal sources; a candidate is watched; limits beat rules; lasting rules and limits take effect |
| **rtp.Depacketizer** (`depacketizer.go`) | SSRC, last sequence number, reorder buffer | Depacketize | 16-bit wrap, reordering, repetition, loss, new SSRC | output in order, buffer bounded, nothing held back |
| **StreamSwitcher** (`stream_switcher.go`) | canonical program, candidate, clocks, continuity counters | ProcessCurrent, ProcessCandidate, StartWaiting, AbortCandidate | 33-bit clocks of two sources; a refusal half way through | continuous output, across switches too; a refused candidate leaves clocks and counters alone |
| **pppoe.Manager** (`pppoe.go`) | command, status, generation, epoch, flags, timers | Start, Stop, Retry, Shutdown, waitLoop, reconnect, idle timer | launch outside the lock; Stop in every window; stale goroutines | one launch at a time; no pppd out of reach; a Stop voids the reconnects that still wait; a Shutdown is final |
| **idle link** (relay and pppoe together) | streams, subscriptions, idle timer, the line | dialling on demand, NotifyActivity, NotifyIdle, idleIfConsumersGone | two managers, each with its own lock, and consumers between their sections | no timer under a consumer; no line without one |
| **limits** (`limits.go`) | limits, pool, chains of sessions | CheckLimit, PickReplacement, EndSession, edits | several streams of a channel; midnight; week change | the time counted is the time watched |
| **rules** (`rules.go`) | rules | Resolve, edits | windows over midnight and weekdays | a rule holds exactly in its window |
| **stats** (`stats.go`) | seconds per channel and day | AddRange, Flush, ClearAll | concurrent saves; ranges over midnight | the totals are what was added; what was saved is not undone (section 5 has an exception) |
| **channels, settings** | one table, one record | edits with save; onChange | overlapping saves; order of callbacks | an edit reported as saved is in the file; one whose save failed is in the next |
| **storeutil** | files | WriteJSON, LoadJSON | failing steps, crash between them | old or new content, never half |
| **routeguard** (`guard.go`) | ticker, configuration; the kernel's routes | Start, Stop, RunOnce | commands of passes that run side by side; configuration changed between two passes; a kernel that outlives the process | the kernel becomes what the settings say |
| **api, config, main** | none of their own | HTTP calls, wiring, shutdown | order of the defers | every component is stopped once |
| **epg, record** | not in the repository | used by api and main | - | - |

The things a test of this code hardly reaches are listed, each at its line,
in `PROJECT.json` under `hazards`, with the properties that catch them or the
reason why none does.

## 2. Modules and the code

### SharedSource and ReaderPool

`SharedSource` is the promise: claims join and leave addresses; an address in
use has one socket, an address out of use none. `ReaderPool` is
`getOrCreateReader`, `releaseReader`, `sweepEmptyReaders` with
`mcast.Reader.Start / Stop / Subscribe`.

| Code | Module |
|---|---|
| a viewer's current source, its candidate, a recording (`AcquireSource`) | an element of `Claims` |
| `m.readers`, `m.keyMu`, `entry.key`, `entry.refCnt` | `readers`, `keyMu`, `key`, `refCnt` |
| the socket and the subscribers of a reader | `socket`, `subs` |
| the position in the call sequence, its arguments and locals | `pc`, `addr`, `mine` |
| each critical section of `m.mu`, the wait for the creation mutex, the open | `FastHit` ... `Insert`, `LockKey`, `Open`, `OpenFail` |

Reader objects are values of `Entries`; one that nothing refers to any more
may be used again, which stands for an allocation.

The refinement mapping takes as users of an address the claims that hold a
reader of it, and as its sockets the open readers with that key.

### PacketFeed and McastReader

`PacketFeed` is the promise of a multicast source: whoever joins is given every
packet sent from then on, one by one; a laggard may be cut off, and then
gets nothing after the cut. `McastReader` is `readLoop`, `broadcast`,
`Subscribe` with its cancel function, and `Stop`, with the goroutines behind the
subscriptions.

| Code | Module |
|---|---|
| `readLoop`: select on `done`, `ReadFromUDP`, before and inside `broadcast` | `loop`: "check", "read", "have", "serving" |
| `r.subscribers`, the map iteration of `broadcast` | `subs`, `unserved` (any order) |
| `ch`, `errCh` of a subscription | `queue`, `errCh` |
| the `select` of a handler | `Receive`, `ReceiveError`, `HangUp`, in any order |
| `r.mu` | `MuFree`: nobody subscribes or leaves while `loop` is "serving" |

A packet is its number. The refinement takes a user as joined until it has left, and
as cut off at the end of its channel once it is no longer in `subs`.

### IdleLink

Who keeps the line up in on-demand mode: the steps of `ServeHTTP` and
`AcquireSource / Release` that touch the line, around the critical sections of
`pppoe.Manager` they call. A consumer is a viewer or a recording; `Mixes` says
which of them a run looks at.

| Code | Module |
|---|---|
| `m.cmd`, `m.starting`, `IsUp` | `link`: "down", "starting", "registered", "up" |
| `m.stopped`, `m.idleTimer`, fired timers that wait for the lock | `stopped`, `timer`, `firings` |
| `m.streams`, the subscribers of all readers | `streams`, `subs` |
| IsUp, Start (three sections), reader and Subscribe, registration, NotifyActivity | `Request`, `Dial`, `Launch`, `Confirm`, `Open`, `Register`, `NotifyActivity` |
| end defer: count, save, NotifyIdle; unsub | `End`, `LastSaved` or `Saved`, `Unsub` |
| Release: unsub, idleIfConsumersGone, NotifyIdle | `EndRecording`, `Unsub`, `CheckGone`, `Arm` |

`Pppoe` has what goes on inside the manager; here a Stop waits for nobody. One
difference of detail: a Confirm that comes while another launch is "starting" leaves
no trace in the model, whereas the code sets the status early; the launch's own
Confirm follows in either case.

### StreamSession

The streams of one channel. `stores` holds the answers of the other
components that the handler asks for: what the rules say (`rule`), whether a
limit exists and is exceeded (`limited`, `exceeded`), and the replacement pool.
They change at any moment: the console edits them, time passes. The rest are
the handler's locals by their names; `byRule` is `rulesResolvedAddr #
multicastAddr`, `waiting` is "the switcher has a candidate", and
`refs[s][a]` counts the reader references of stream s on address a, which is
what the calls to the pool amount to for its owner.

One pass of the `select` loop is one step; the tick is two (`RuleTick`,
`LimitTick`), since each half may block opening a reader while the stores
change. The defers are steps of their own (`Deregister`, `ReleaseCurrent`).
What a packet contains is abstracted to its outcome: good, bad, refused
candidate, candidate ready.

### Depacketizer

A packet carries its source and its ordinal number; on the wire only the
number modulo `SeqSpace` (2^16 in the code) is visible, and every
decision of the model uses that residue. The ordinal exists so that
properties can say which payload came out. `Depacketize` is one action:
reset on a new SSRC, classification by the 16-bit difference, insertion,
flush, and the answer. The network (`Send`, `Lose`, repetition, any order in
which no packet is overtaken by `Span` others) is external.

### TransportStream and StreamSwitcher

`TransportStream` is what the switcher sees of a source: a pattern of packets,
repeated without end. The n-th packet's counter and time stamps follow from n,
so that only a position per source is state, and a lost packet is a position
nobody receives. PIDs are reduced to their role, SPS and PPS to one value, a
table to its version; the constants are the code's, but for `Clock` (2^33
there), which is small enough that a source's clocks wrap in the run.

| Code | Module |
|---|---|
| `canonical`, `canonicalPAT / PMT / SPS / PPS`, `psiVersion` | `tables` |
| `lastVideoPTS`, `videoStep`, `lastPCR` | `clock` |
| `lastCC`, `active`, `candidate` | the same names |
| `ProcessCurrent` before and after the first switch, its error | `PassOn`, `Continue`, `Break` |
| `ProcessCandidate`: no output, an error, the batch | `Wait`, `Refuse`, `Switch` |
| `StartWaiting`, `AbortCandidate` | the same names |

A call is one step, since both are made by the viewer's own goroutine. What the
caller in `relay.go` does with an answer is part of the step: a refused candidate is
aborted, an error of the current source ends the stream. `viewer` is
history: what the viewer's decoder knows after the packets it was sent, and so is
`newest` of a candidate, the packet each of its counters is from.

`Lose` takes any packet, with one limit: of the PID of a buffering candidate never
`CcSpace` in a row (`Telling`). The 4-bit counter would not tell such a hole, which is
therefore outside `BatchIsWhole`.
The module's `SwitcherInit`, `SwitcherNext` and `SwitcherSpec` bear their own names
because `McastProofs` extends it together with `McastReader`; for the same reason
`Persistence` has `StoreInit`, `StoreNext` and `StoreSpec`.

Two assumptions are about the sources and not checked by the code: the PCR is on the video
PID, and frames come in the order of their time stamps. A section fits in one packet.

### Pppoe

The fields of `Manager` under `m.mu`; `proc`, `loop`, `chan` for each pppd that
was launched, numbered by `generation`; `pc`, `then`, `my` for the goroutines that run
Start or Stop: callers and reconnect chains. Every critical section is a
step. Three encodings keep the state small:

- `epoch` is a counter that is only ever compared with a remembered value:
  `voided[c]` is that comparison;
- a channel is closed or replaced: `chan[g]` says what became of the `stopCh`
  that waitLoop g captured ("current", "closed", or "lost" when Start
  replaced it without closing), `cancel` and `cancelled` do it for
  `reconnectCancel`;
- `waitWg` counts the waitLoops that run.

`overtaken` is history: the chains whose wait (asleep, or before the epoch check) a Stop has
come into. `CheckEpoch` and the chain's `Reserve` are two steps, as in the code, where the
lock is released between them (455, 458).

`autoReconnect` is always true (nothing calls its setter). The delays of the
backoff are not modelled: any delay may end at any time. `IfaceTimeout` may happen at any time
too: the interface may be slow, or its unit may have been changed in the configuration.

### RuleWindow and ViewingTime

`RuleWindow` is the calendar (days, weekdays, minutes, in ticks shorter than a
second) and `activeAt` with `dayOK`; next to it stands what a window means, an
interval of time that opens on its weekday. `ViewingTime` extends it with the
limits' arithmetic over the statistics and with the calls a channel's streams make at
their beginning, on the tick and in their end defer.

| Code | Module |
|---|---|
| `aggr` of the channel, `sessions[address]` | `aggr`, `session` |
| the limit: disabled, enabled, with `ContinuousEnabled` | `limit`, edited by `SetLimit` |
| `liveInWindow`, `startOfToday`, `startOfISOWeek`, `HistoricalSum(Week)` | `LiveInWindow`, `Day`, `Monday`, `HistoricalSum(Week)` |
| `CheckLimit`: its answer and its side effect | `Verdict`; `CheckLimit` through `JudgeChain` |
| `chainContSecLocked`: `liveStart.Sub(st.LastEnd) > rest` | `Broken` |
| `AddRange`, `EndSession`, one after the other | `EndStats`, `EndLimits`: time may pass between them |

`added`, `ended`, `checked` and `alone` are history; the properties count from them
what was watched, tick by tick.

### RouteGuard

The way of a setting into the kernel: `settings.Store.Update` with the
callback of `main.go:163-185`, then the guard's pass, which also runs every five
seconds. A configuration is what the DROP rule depends on: the unit, as
an interface name, and whether its input is dropped.

| Code | Module |
|---|---|
| `s.cfg`, settings.json, `m.cfg.Unit` of pppoe, the guard's fields | `cfg`, `file`, `unit`, `guard` |
| Update, Save and its error, the callback's calls | `Update`, `Save`, `SaveFails`, `SetUnit`, `IfaceName`, `UpdateConfig`, `SetBlock` |
| RunOnce: copy, `iptables -C`, `-A` or `-D`, their errors | `Snapshot`, `Check`, `CheckFails`, `Change`, `ChangeFails` |
| the kernel's INPUT chain (external) | `drops`: the number of rules per interface |
| the end of the process, `main` again | `Restart` |

The interface of a callback is read twice: `SetUnit` writes pppoe's unit, `IfaceName` reads
it back, and another update may come between.

### Persistence

The five stores over `storeutil.WriteJSON`, by the moment at which they read
what they write: limits and rules under `mu` inside `saveMu` ("ordered"),
channels in one critical section ("locked"), stats before they wait for
`saveMu` ("early"), settings without a save mutex ("unlocked"). The content
of a store is the number of edits it has seen, so that "later" is "more".
`WriteJSON` writes a temporary file and renames it, so the rename is the
step that changes the file; any of its steps may fail (`WriteFails`). Two kinds of calls keep the
failure to themselves, `ImportM3U` of channels, which drops the error and answers with its count
(`channels.go:198-201`), and `EndSession` of limits, which logs it (`limits.go:373-375`): an
edit chooses whether it is of that kind (`MayBeQuiet`). What limits change without a save, a
session without an enabled limit and a chain that a check resets, is `EditUnsaved`.
`CrashRestart` drops the memory and loads the file. Three numbers are history: `acked`, the newest
edit a reporting call said is saved; `answered`, the newest any call returned from without an
error; `owed`, the newest since the start whose save failed.

## 3. Runs

| Run | Question | Bounds | Distinct states |
|---|---|---|---|
| `reader_pool` | Do counts, map and sockets agree, is SharedSource implemented, is everybody served? | 3 claims, 2 addresses, 3 readers | 136,296 |
| `mcast_reader` | Is PacketFeed implemented, does nobody stay behind? | 3 users, channels of 2, 4 packets | 87,182 |
| `pppoe` | Is a launch exclusive, is no pppd lost, does a Stop void what waits, is a Shutdown final? | 2 callers, 2 launches, both modes and the switch | 775,408 |
| `idle_link` | Is a line that is up somebody's, does it go down in the end? | 3 consumers, all viewers or all recordings, 2 fired timers | 126,704 |
| `rtp` | Is the output in order and complete? | 2 sources, numbers modulo 12, window 3, 5 packets each, 1 lost | 181,032 |
| `session` | Do references, candidate, timer and override agree; does a lasting rule win? | 1 stream, 3 addresses, a pool of up to two that overlaps the rules | 7,296 |
| `viewing_time` | Is the verdict right at midnight and at the end of the week, is the chain what was watched, do rules hold in their windows? | 2 streams, 3 sessions, 1 edit, 6 instants in 3 days, every window | 1,173,882 |
| `switcher` | Is the output one continuous program across switches? | 3 sources, 7 packets each, 1 or 2 in a datagram, any of them lost | 563,262 |
| `persistence` | Which disciplines keep what was reported as saved, and make up for failed saves? | 4 disciplines, 3 writers, 3 edits, 1 crash | 57,099 |
| `settings_guard` | Does the kernel become what the file says? | 2 updates, 3 passes at a time, 2 interfaces, 1 failure, 1 restart | 400,997 |
| `pppoe_two_retries`, `idle_recording` | Does the code do what this sentence says? No: see section 5. | as `pppoe`, two Retry calls; 1 recording, 2 viewers | |

Why the bounds are enough to be interesting:

- *reader_pool.* Three claims give a creator, one that waits for its mutex and one
  that releases at the same time; the two addresses keep the map's entries
  apart. A claim holds one reader, so three objects are as many as can be live.
- *pppoe.* Two generations are what an old goroutine and a new launch need;
  every thread may be anywhere in its call. Two callers and two chains already give
  four concurrent threads. With both launches used up the manager can do nothing
  more: this run does not check for deadlock.
- *mcast_reader.* A broadcast may have served one user, removed another and not yet
  come to the third while each of them receives or waits to leave; with a channel of
  two a user can make room between its turns, and four packets overflow it twice. The run
  ends when the packets are used up: no deadlock check.
- *idle_link.* One that leaves as the last, one that comes meanwhile and one whose
  launch is under way; two fired timers may overtake each other.
- *viewing_time.* Days have three seconds and seconds two ticks, so that
  truncation shows; the instants are odd and even, both midnights, and pauses of a
  rest exactly and of one tick more; Saturday to Monday contains the end of a week,
  and Sunday has a maximum of its own. Every window of a day and three sets of weekdays are
  compared at each instant. The run ends with the instants: no deadlock check. The
  streams are interchangeable (symmetry).
- *settings_guard.* Two updates can overlap anywhere in their callbacks, and their passes
  with the guard's own; one failure hits a save, a `-C` or a command, one restart any moment.
- *rtp.* `Firsts = {0, 9}` starts a source at the bottom of the number space or
  so that its five packets cross the wrap; with window 3 and span 3 a packet
  may arrive as late as the window allows. The code's 8 and 65536 differ from these in size only: every
  comparison is of the form `delta <= limit` or `delta < space / 2`, and the
  assumptions on the constants keep the two apart.
- *session.* Streams of a channel share only the stores and `limitBlocked`, no property
  speaks of two, so one is enough; the module takes any number. The pool may contain the rule's target, be one address or be empty.
- *switcher.* Seven packets are one pattern of each source and the beginning of the
  next, enough for two switches in a row. A's clocks wrap within
  them and its PCR is rare; B's parameters are others and it is refused unless it comes soon after
  a PCR of A; its audio header spans two packets; C's parameters come a frame
  before its key frame and its PCR after it. When every source is at its bound nothing is left to do: no deadlock check.
- *persistence.* A writer that writes, one that waits with an older copy and one that edits; any save fails, any call is one that reports it or not.

**Symmetry** is used in `pppoe` over the callers and in `viewing_time` over the
streams, runs without temporal properties.

**Fairness.** `ReaderPool!Fairness`: a goroutine that can take a step does (weak fairness). Go's
mutex goes into starvation mode after one millisecond and is then handed over
in the order of waiting, hence strong fairness for `LockKey`. Nobody is
forced to end a use. `StreamSession!Fairness`: the ticker, the timer and the
defers of a running handler are served (weak); the sources are assumed
usable: when a candidate is tried again and again, it opens and shows a key
frame some time (strong). Without that no rule need ever take effect, which is
the behaviour the code wants: it keeps the old source.
`McastReader!Fairness`: the loop runs when it can, a read of a closed socket
fails, an error that waits is received (a handler's `select` picks at random among
what is ready, and each write has a ten-second deadline, `relay.go:443`); strong
fairness for leaving, since the mutex is handed over in the order of waiting. That
packets arrive is not assumed. `IdleLink!Fairness`: timers and goroutines run; nobody
is forced to come or to end. `RouteGuard!Fairness`: commands return, the ticker
ticks, an update goes on; that a save succeeds is not assumed, failures are only bounded.

`persistence`, `pppoe`, `viewing_time`, `rtp` and `switcher` have no liveness: whether a save
succeeds is the disk's choice, whether a dial succeeds the network's, whether a
packet or a key frame comes the source's.

`TypeOK` of ViewingTime is a theorem (`ViewingTimeTypeOK`) and not checked by a run.

Every property of a run that holds has a mutant (listed in `PROJECT.json`): an operator that
changes one definition the way a plausible bug would, under which TLC finds that
property violated. The mutants stand in the modules next to what they
change, marked "bug".

## 4. Proofs

**ReaderPoolProofs** proves for any set of addresses, any finite set of claims and any set of
reader objects that `Spec` implies `TypeOK`, `RefsExact`, `OneSocketPerAddr`,
`HeldReaderIsLive`, `NoLeakedSocket` and that it implements `SharedSource`.

The invariant is `IInv`. `RefsExact` alone is not inductive: that the count is
positive at a release needs that the releaser is a holder, and that the
creator's blind write to the map does not overwrite another reader needs the
mutex. So `IInv` adds: who holds a reader and in which state (`Owners`); a
claim between the second check and the insertion owns the creation mutex
and the address is unmapped meanwhile (`Creators`); a held reader past its insertion is
the one the map has for its key, and what is mapped is open and in use (`Mapped`); an
open socket has a holder (`OpenIsHeld`). Each kind of step has a lemma
(`QuietStep`, `ShareStep`, `OpenStep`, `InsertStep`, `ReleaseStep`);
`SweepIsIdle` shows that the sweep never finds a reader to stop: it is
a safety net that the counts make superfluous. Counting uses the library's theorems
on finite sets through three small lemmas.

The refinement maps `Open` and every share to `Join`, `Release` to `Leave`
and everything else to a stutter.

**StreamSessionProofs** proves `TypeOK`, `ClaimsMatchSources`,
`CandidateIsWatched` and `OverridePlays` for any number of streams, any sets of rule
targets and pool addresses and any number of tolerated bad packets, however
the stores change meanwhile. The invariant `SInv` is `TypeOK` and, for each
stream, `StreamOK`: the three properties for that stream (`Watched`, `Plays`,
`Counted`) and what they need to be inductive. A handler outside its loop has no
candidate, or the last release would leave one behind; inside the loop it has counted fewer bad
packets than end it, or the count could pass its type; and the override a stream
begins with is already the source it will open. `OneStreamMoves` is the frame: a
step of one stream need only be shown to keep that stream's part. The steps are
proved by what they do to the candidate: none (`PlainStep`, `BeginStep`,
`OpenStep`, `ReturnStep`), cancelled (`CancelStep` for every way to lose it or to end), promoted
(`ReadyStep`), or one of the two with a new one after it (`RuleStep`, `LimitStep`, both through `TickStep`).

**StoreProofs** is about the JSON stores, in three parts. *How they are saved*:
`AckedSurvives`, `FailedSavesAreMadeUp` and `DiskNeverGoesBack` for any
number of writers, edits, failing saves and crashes. The first is about the calls that report how their
save went, and says nothing of `ImportM3U` and `EndSession`; the second is about every edit
whose save failed. The strengthening `DInv` says that for limits,
rules and channels holding `saveMu` is exactly being between the read and the
rename (`SaveMuExact`), and that a copy about to be written is at
least as new as the file and as the edit its call must save (`SnapIsFresh`) and contains
what a failed save left in memory (`OwedIsNoted`).
`StoreTypeOK` is the type invariant from the same invariant.

*What the limits compare*: `VerdictIsRight`, `WindowIsRight` and `TypeOK` of `ViewingTime`,
for any calendar, any set of instants that has a last one, and any
number of streams and sessions. The property counts what was watched tick by tick; the code
adds seconds, splits ranges at midnight and never looks back. The invariant `AInv` ties the
two together: each day's total in the statistics is the sum, over the ranges added so far,
of the ticks of that day counted one by one (`WatchedOn`), and every range lies between the
first instant and now. `NextAInv` has one interesting step, the end of a stream
(`AddRangeCounts`: `AddRange` gives each day what the range has in it); `TotalsAreRight` adds
the running stream (`LiveCounts`) and turns the code's loop over days into the property's
count (`LastMondayIs`). The community modules' sums are folds, that is CHOOSE over recursive
functions: `SumIsCount` shows them to be the cardinality of a set of units, and everything
else (`SumAdd`, `SumSame`, `SumSupport`) follows from the library's facts on
cardinality, which needs no induction over data. `DayBounds` and `NextMultiple` are the
arithmetic of the calendar, `ActiveInWindow` is `activeAt` against the intervals it stands for.

*The continuous chain*: `ChainIsContinuous`, by `CInv`. The entry in `sessions` is not
always the chain: it is stale after a rest until somebody asks. So the invariant says that it
belongs to the last session ended (`SessionIsLast`), that it is no less than
what the sessions carry unless the rest has already broken the chain for every stream that runs
or may yet begin (`NotLess`), and, if every session was judged, no more (`NotMore`). `ChainIs`
and the lemma of one more session relate the recursive look of `Chain` (the sessions from
the last long rest on) to one more session at its end.

**McastProofs**, first part: `TypeOK` and that `McastReader` implements
`PacketFeed`, for any number of users and packets and any capacity. The
invariant adds to the types what the mapping needs: a user's last packet
and its channel are consecutive numbers (`Consecutive`); with its channel a subscriber has
everything, but for the packet in hand while the broadcast has not come to it, and a
removed user has less (`UpToDate`); a channel holds at most `Capacity` packets, so that
a full one is a lag of more than that, which is when `PacketFeed` allows the cut
(`Bounded`); who is out has nothing left (`Places`). Then
`Broadcast` is `Send`, `Receive` is `Give`, `Overflow` is `CutOff`, `Unsub` is `Part`, and the rest are stutters.

Second part: `SwitcherTypeOK`, `BatchIsWhole`, `SmoothSwitch` and `CountersContinue`, for any
sources and patterns, any size of datagrams, clocks and counters, and any number of packets. The
invariant `SwInv` has two halves. *Fields*: the viewer's decoder knows what the switcher
believes it to know, tables, clocks and counters (`Agree`); without it a step that rewrites
from `lastCC` says nothing about the counters the viewer has. *Waiting*: a candidate's
buffer is one frame from its first packet on (`FrameOf`), whose `pts` and `pcr` are the first in
it, and its packets of a PID are the source's without a hole up to the newest that
came, whose counter is the one remembered, fewer than `CcSpace` packets of the PID ago
(`InBuffer`). That a gap shows is `NoneMissing`: counters are the number of payload packets modulo
`CcSpace`, one more than the remembered one, so modulo arithmetic (`ModSame`) leaves exactly one
packet between them (`CountSplit`).

The code's loops over the packets of a datagram are folds. `FoldRuns` shows that FoldLeft is the
last value of a run, a function from positions to values with one application at each step;
`UpInduction`, from the library's well-founded induction, then carries an invariant of the
loop along the run: `CollectStep` along `ProcessCandidate`, `TransformStep` along
`transformPackets` (`Rewritten`: what is out goes on where the viewer's counters were),
`FollowStep` along the observation of the first source, and
`BatchStep` along the rewriting of a candidate's buffer. The last keeps what a batch owes
to the buffer: every packet that is out is one of the buffer; all video is out, and all audio
but what came before the first start of an audio frame, which is why no hole is cut (`WholeBatch`); the
first time stamp is the frame's and the first PCR the buffer's, marked (`SmoothBatch`).

**IdleLinkProofs** proves `TypeOK` and, for any number of consumers of one kind,
`LinkIsWatched`. The argument: a line comes up in the hands of its launcher, who has yet
to register and end; whoever ends passes its duty on or is the last one. For that the
stream list must be exact between registration and end, and a subscription be of somebody
inside (both in `TypeOK`), there must be one launch at a time (`OneStart`) and each kind must take
its own way out (`OwnWay`). Nothing of this
survives a mixture of the two kinds: section 5.

**RouteGuardProofs** proves `TypeOK` and `FewDuplicates` for any savers, interfaces and
bounds. The count of rules alone is not inductive; `FewOf` adds to it the passes
that are about to add a rule. A pass decides to add either while there is none, and there
are no more passes than processes, or because its `-C` failed, which is one failure more.

**PppoeProofs** proves `TypeOK`, `StartIsExclusive`, `NoStrayPppd`, `StopVoidsReconnects` and
`ShutdownIsFinal` for any number of callers and launches. The invariant `PInv` has four parts.
*Launches*: a thread between reservation and registration is alone, carries the newest
generation, and `starting` says so (`Newest`, `Chained`). *Children*: each live pppd is
registered with a waitLoop, about to be, or about to be signalled (`NoStrayPppd`), and a
waitLoop past its select has seen its pppd exit (`Ended`). *Stops*: a reconnect that a Stop
found waiting remembers an epoch that is gone until it sees so (`Voids`), and while `stopped`
holds each one that waits is of that kind (`StopVoidsReconnects`, `LetGo`); a Shutdown's Stop stands
(`Shutting`). *Types*: `TypeOK` and where a thread returns to.

**DepacketizerProofs** proves all four properties of `Depacketizer`. `BufferInWindow` and `TypeOK`
hold for any width of the numbers, any
window of less than half of it and any network. The invariant `DInv` adds to the window that no two
held packets bear the same number. The core is `Flushed`: a packet that stays behind has a
number `d` missing before it, the flushed ones lie at distances 1 to d-1, so by the pigeonhole
principle there are fewer than `d`, and the baseline stops before the hole. `Closer` and
`SameDistance` are the arithmetic modulo `SeqSpace` this takes.

`InOrder` is not true of every network (section 5), and its theorems have hypotheses:
no sender sends more packets than there are numbers, less one window, whatever is
lost, repeated and overtaken (`InOrderBeforeWrap`); or one sender, no loss and packets overtaken by no more
than the window holds, for any number of packets and wraps (`InOrderWithoutLoss`). The
argument is the same: `OInv` says that what a held packet's number shows of its distance to the
baseline is the truth (the ordinals' difference), and a number is to be trusted (`Near`) in
the first case because numbers have not come round, in the second because nothing before the baseline
is missing (`Whole`) and disorder is bounded. `NothingHeldBack` needs the bound on the disorder
too, `Span <= reorderLimit`: without loss, every number between the baseline and what was
sent is held or on its way, so when nothing is on its way nothing is held (`NothingIsHeldBack`).
The run `rtp` is an instance of the first: a sender's five packets are fewer than 12 - 3 numbers,
although they may cross the wrap and one is lost.

Assumptions are the named ASSUMEs of the modules (claims are finite, the
null values are not members of the sets, it takes at least one bad packet to end a
stream, a channel has room for a packet); TLC evaluates them in the runs. `LinkWatched` has `Uniform`, consumers of one
kind, as its hypothesis.

Only model-checked: the liveness properties `Served`, `RuleTakesEffect`,
`NobodyIsLeftBehind`, `IdleLinkGoesDown` and `GuardConverges`, which TLAPS cannot prove (they
rest on ENABLED and fairness). No theorem covers `InOrder` with loss while numbers come round, nor
`LinkIsWatched` of mixed consumers: neither holds (section 5).
Every other property of the runs that hold is a theorem.

## 5. What the code does not do

Two runs end in a violation, each of a sentence in the repository:

1. `pppoe_two_retries`: a launch that Stop overtook gives its place back (`pppoe.go:166`) before it
   signals its pppd (170), and no waitLoop stands for that pppd, so that the Stop returns at once.
   Of two retries from the web page the second one's Start launches another pppd on the unit while the
   first, which nobody waits for, has not been signalled, against 237.
2. `idle_recording`: the end of a viewer's stream counts streams only (`relay.go:427`),
   so that the idle timer runs while a recording uses the line, against 240 and
   `relay_test.go:46`, and the line is cut under it.

More are stated as properties in their modules; TLC refutes each when it is
added to a configuration, and they have no run of their own:

- `Pppoe!NoDialAfterStop`: the epoch is checked in one critical section (`pppoe.go:449-455`), Start
  runs in another (458). A Stop that comes and goes between them is undone by the Start, which resets
  `stopped` and dials, against 447-448.
- `Pppoe!EveryStopWaits`: a Stop that finds another one under way returns without waiting
  (`pppoe.go:211-214`). A Retry whose Stop meets the one of a Start that gave up on its interface
  goes on to Start while the old waitLoop runs, against 271. (Both with the configuration of
  `pppoe_two_retries`.)
- `Persistence!AnsweredSurvives`: an import of channels whose save fails answers with its count all the
  same (`channels.go:198-201`) and a restart loses it, against the README's line 216 and what the page
  reports (`api.go:1076`). TLC needs five states with `Disciplines = {"locked"}`.
- `Pppoe!ReconnectGoesOn`: the interface timeout calls Stop (191), which makes the
  rescheduling give up (426), against 423 and 460: automatic reconnection ends
  without anybody having asked for it.
- `Pppoe!StaleLoopIsSilent`: waitLoop compares generations in one critical section and
  writes the status in another (375, 388), against the purpose given at 64.
- `Depacketizer!InOrder`, with more packets than numbers (`SeqSpace = 8`, 12 packets): a lost packet
  is never given up (`depacketizer.go:120`), the stream stands still until the
  numbers have come round, and then payloads of before the stall come out, against 31.
- `StreamSession!LimitTakesEffect`: `rulesResolvedAddr` is set once (`relay.go:342`), so
  a stream that began under a rule is never limited (735), against the README's line 14.
- `StreamSession!LimitSwitchKept`: a limit's candidate does not live for the five
  seconds of `relay.go:470` but is dropped by the next rule tick (681).
- `ViewingTime!RestEndsChain`: a stream that began under a rule is never checked, so the chain
  is not broken by the rest before it, yet `EndSession` adds it (`limits.go:364`), against
  the README's line 14.
- `StreamSwitcher!NewParametersAnnounced`: a candidate refused at the last test has left its
  parameter sets in the program (`stream_switcher.go:281`), against 433; the first source's
  next PAT resets the version (385), and when the candidate is tried again its
  parameters reach the viewer under the version it already has, against 280.
- `Persistence!StatsSurvive`: a Flush that took its copy before can undo ClearAll
  (`stats.go:173`), against 197.

And what the properties that hold make an exception for:

- `StopVoidsReconnects` is about reconnects asleep or before their epoch check when the Stop comes;
  one between its check and Start is outside it, and `NoDialAfterStop` above is what becomes of it.
- `AckedSurvives` is about calls that report how their save went. An import whose save failed
  (`channels.go:199`) and a session's end (`limits.go:373`) are lost if the process ends before
  the next save of the store succeeds; when one does, `FailedSavesAreMadeUp` has them in it.
- `LinkIsWatched` and `IdleLinkGoesDown` except a line that was `forsaken`: who dials and
  cannot open its reader returns before anything is deferred that would hang up (`relay.go:370`).
- The same with viewers and recordings mixed: a recording's last look
  sees the subscription of a viewer whose end has already counted it out, each leaves it to the
  other, and the line stays up. With viewers alone the reverse happens:
  NotifyIdle of one that left overtakes NotifyActivity of one that came (`relay.go:412`), or
  the timer has already fired (`pppoe.go:323`), and the line goes down under a viewer.
- `ChainIsContinuous` for streams one at a time: overlapping streams of a channel add their
  common time twice (`limits.go:364`) and reset each other's chain (336). It allows too long a chain
  after sessions no check judged, such as those while `ContinuousEnabled` was off.
- `GuardConverges` unless updates overlapped: they may be written in one order and applied in
  another (`settings.go:97`). After a failing save `s.cfg` is new and everything else old. The
  old interface's DROP rule stays after the unit was changed (`guard.go:93`).

## 6. Not modelled

- **api**: parsing, authentication and pages; its calls are the inputs of the
  modules. Its settings handler reads the managers, fills in the password and calls
  Update without a lock, which is no more than two overlapping updates.
- **config, main**: flags and wiring. The order of the shutdown matters for pppoe only (`CallShutdown`).
- **routeguard's other duties**: deleting default routes and writing `rp_filter`. Neither
  reads what another step writes. Start and Stop are called once each by `main`.
- **stats.Query, pruneLocked, Add**: tables for the pages; dates of more than 90 days ago.
- **ServeHTTP's counters** and the page that lists streams; `limitBlocked` over several
  streams of one channel, of which no text says what it should be.
- **The mode of the line** is fixed in IdleLink (on demand); `Pppoe` switches it at will.
- **Time** is a tick or a choice: no delay is longer or shorter than another, but in
  ViewingTime.
- **epg, record**: not in the repository; a recording is a claim of the pool.
- Bytes: the layout of TS, PES and RTP headers, JSON, HTTP. Their checks appear as an outcome.
- The data race on `m.ifaceName` (`relay.go:814`): the interface is not part of the pool's state.

## 7. Order of the work

The modules in the order in which they were written, the most important behaviour
first.

| | Module | Composes | Runs and properties | Proofs |
|---|---|---|---|---|
| 1 | SharedSource, ReaderPool | ReaderPool implements SharedSource | reader_pool | all safety and the refinement |
| 2 | Pppoe | | pppoe and a violation | all safety |
| 3 | Depacketizer | | rtp | all, the order under hypotheses |
| 4 | StreamSession | | session | all safety |
| 5 | Persistence | | persistence | all |
| 6 | TransportStream, StreamSwitcher | StreamSwitcher extends TransportStream | switcher | all |
| 7 | IdleLink | relay's streams and recordings with pppoe's timer and dialling | idle_link and a violation | safety for one kind of consumer |
| 8 | RuleWindow, ViewingTime | limits over stats, on the rules' calendar | viewing_time | all |
| 9 | PacketFeed, McastReader | McastReader implements PacketFeed | mcast_reader | types and the refinement |
| 10 | RouteGuard | settings, the callback, pppoe's unit, the guard and the kernel | settings_guard | types, FewDuplicates |

What could come next: the mode switch and the reconnect in IdleLink (a
composition with Pppoe itself), the default routes in RouteGuard, and the order of
`Depacketizer` with loss while numbers come round, under a bound on what is lost in a row.
