# Verification of profirust in TLA+

profirust is a PROFIBUS-DP stack in Rust.  This directory holds TLA+ models of
its core, the TLC runs that check them, and TLAPS proofs about them.  Paths are
relative to the repository, whose crate is `src/`.

## 1. The system

| Component | State | Operations | Here |
|---|---|---|---|
| Token ring, `fdl/token_ring.rs` | LAS (one bit per address), `LasState`, TS, NS, PS | `witness_token_pass`, `claim_token`, `set_next_station`, `remove_station` | `TokenRing`, `LasDiscovery` |
| FDL active station, `fdl/active.rs` | connectivity, `State`, `GapState`, time of the last bus activity, pending bytes, token times, next application | `set_online/offline`, `poll`, `poll_multi` | `FdlRing`, `TokenRight`, `Applications`, `BusActivity` |
| FDL parameters, `fdl/parameters.rs` | constants of a station | builder, timeouts | part of `FdlRing` |
| FDL telegrams, `fdl/telegram.rs` | `FrameCountBit` | encode, decode, `cycle` | `Telegram`; FCB in `DpPeripheral` |
| PHY interface, `phy/mod.rs` | receive buffer | `transmit_telegram`, `receive_telegram`, `receive_all_telegrams` | `Phy`; whole telegrams in `FdlRing` |
| PHY implementations, `phy/serial.rs`, `linux.rs`, `rp2040.rs`, `simulator.rs` | buffer, cursor, Rx or Tx | `poll_transmission`, `transmit_data`, `receive_data` | `Phy`, `BusActivity` |
| Live list, DP scanner, `fdl/live_list.rs`, `dp/scan.rs` | known stations, cursor, pending event | `FdlApplication` callbacks, `take_last_event` | `StationScan`, `Applications` |
| DP master, `dp/master.rs`, `dp/peripheral_set.rs` | operating state, cycle state, last events, slots of peripherals | `FdlApplication` callbacks, `enter_state`, `take_last_events`, `add` | `DpMaster` |
| DP peripheral, `dp/peripheral.rs` | `PeripheralState`, FCB, retry count, diagnostics flags, PIs | `transmit_telegram`, `receive_reply`, `reset_address`, `request_diagnostics` | `DpPeripheral` |
| Diagnostics, `dp/diagnostics.rs` | the last extended diagnostics, a cursor | `fill`, the iterator of blocks | `ExtDiagnostics` |
| GSD parser, `gsd-parser/src` | the description read so far, the bytes of user parameters | `parse_inner`, `PrmBuilder` | `GsdParser`, `PrmBuilder` |
| `gsdtool` | the answers and the output so far | the wizard, the interpretation of diagnostics | `Gsdtool` |
| Time, crate root, test helpers, `examples` | | | not modelled |

How they interact.  The user's program calls `FdlActiveStation::poll(now, phy, app)`
again and again.  A poll looks at the clock and the PHY, may read telegrams, may
send one, and calls the application (DP master, live list, scanner) while it
has the token: `transmit_telegram` to let it send, `receive_reply` or
`handle_timeout` for the answer.  Nothing runs concurrently inside a program;
the concurrency is that of several programs and slaves on one bus, each with
its own clock, that agree on who has the token by listening to each other only.

`gsdtool` works before that: it reads the description of a device, asks the user, and
prints the parameters and the configuration that a program gives to its
`Peripheral`; later it explains the diagnostics which that peripheral reports.

What is hard in it: timers of several stations that race telegrams (lost token,
slot time, sync pause); a token that is repeated although it was received; GAP
polls whose state goes stale when NS changes; joining a ring from observation
only; stations that vanish with the token; garbled telegrams; two stations with
one address; corner addresses (0, HSA - 1).  In the DP master: replies that are
interpreted by the state at their arrival, repeated requests that a slave takes for
new ones or new ones it takes for repeated, events kept for one poll only.  Between the applications:
a reply that is given to whoever has its turn at its arrival, and events that are
overwritten.  In the PHY: polls that cut the stream of bytes anywhere, garbage whose
count outlives it, reading that starts again in the middle of a telegram.  In the
device's description: statements in any order, parameters that share bytes, and
prompts that unwrap what the description promises.  The full list, with lines, is
`hazards` in `PROJECT.json`.

What makes each part correct:

* Token ring: the LAS of a listener becomes the ring, in a bounded number of
  rotations; NS and PS are always the neighbours in the LAS.
* Active stations: at most one token, no two senders at once, every station
  gets the token and keeps its place, new stations are found, everything
  recovers from faults, no panic.
* DP master and peripherals: the cycle visits every peripheral, replies reach
  the one that was asked, no event is lost or doubled, retries and FCB agree.
* Live list and scanner: every address is visited, the list follows the bus, and a
  program that takes the events knows the list.
* Applications: every one gets its turn, and the reply to what it asked.
* PHY: telegrams arrive whole, once and in order; nobody sends while somebody else does;
  garbage heals.
* Device description: what the user chose is what the device reads, and the tool gets to
  its end.  Diagnostics: the blocks are the report.

## 2. Modules

| Module | What it is |
|---|---|
| `TokenRing` | struct `TokenRing` as a record, each of its methods an operator from ring to ring |
| `LasDiscovery` | one listener that builds its LAS from the token passes of a ring it is not part of |
| `FdlRing` | several `FdlActiveStation`s, slaves and the bus between them |
| `MCFdlRing` | addresses of small instances for TLC |
| `TokenRight` | abstract specification: the right to use the bus |
| `DpPeripheral` | struct `Peripheral` as a record: what it sends, and what it makes of a reply |
| `DpMaster` | `DpMaster` with its peripherals, their slaves, and the program that uses it |
| `MCDpMaster` | addresses of small instances for TLC |
| `StationScan` | `LiveList` and `DpScanner` as a record, their callbacks as operators |
| `Applications` | an active station that hands its token from one application to the next |
| `MCApplications` | lists of applications for TLC |
| `Telegram` | telegrams to bytes, and bytes to telegrams |
| `Phy` | the drivers as a record, and the methods of `ProfibusPhy` that read telegrams |
| `BusActivity` | a station on its PHY, and the bus in byte times |
| `MCBusActivity` | replies of a slave for TLC |
| `PrmBuilder` | types, constraints and bytes of user parameters |
| `GsdParser` | the description that a sequence of statements makes |
| `ExtDiagnostics` | the buffer of extended diagnostics and the iterator over its blocks |
| `Gsdtool` | the commands of the tool, and the peripheral whose diagnostics they explain |
| `MCGsdtool` | statements, reports and answers for TLC |
| `TokenRingProofs` | what the methods of `TokenRing` keep |
| `LasDiscoveryProofs` | that a listener learns the ring |
| `FdlRingProofs` | that stations stay consistent, that there is one token, and that the abstract right is exclusive |
| `DpMasterProofs` | that replies find their peripherals, and that the events are right |
| `ApplicationsProofs` | that turns and replies are the applications' own |
| `FoldInduction` | induction over the elements of a sequence, for one operator at a time |
| `GsdtoolProofs` | that descriptions are consistent, the wizard ends, and blocks are the report |
| `BusActivityProofs` | that telegrams are sent whole, and are read back in order |

`FdlRing` and `LasDiscovery` extend `TokenRing`; `FdlRing` instantiates
`TokenRight` with a refinement mapping.  `DpMaster` extends `DpPeripheral`; the token ring
is not part of it, but for the choice when the station has the token.  `Applications`
extends `StationScan`, `BusActivity` extends `Phy`, which extends `Telegram`; `Gsdtool`
extends `GsdParser`, which extends `PrmBuilder`, and `ExtDiagnostics`.  The station is
thus looked at three times, from three sides: among other stations, among its
applications, and on its PHY; each of the modules leaves to the others what it abstracts.

### TokenRing and LasDiscovery

`active` is the set of addresses whose bit is set, 0..127 as in the bit array;
`next`, `prev`, `las`, `this` are the fields of the struct.  `Skips(sa, da, a)`
is the slice arithmetic of `verify_las_from_token_pass` and
`update_las_from_token_pass`; `WithActive` is `update_next_previous`, which ends
every change of the LAS.

In `LasDiscovery` the code is the listener (`Hear`); the ring is its environment,
made of what a correct ring does: it passes the token to the next station,
repeats a pass to a dead one three times and gives it up, admits stations in the
GAP of the holder, loses stations, and claims a lost token at the lowest address.
`changes` and `missed` bound the disturbances, `rotations` is a history variable
that counts the ends of rotations heard since the last one.

### FdlRing

Variables: `conn` is `connectivity_state`, `st` the `State` with its fields, `ring`
the `token_ring`, `gap` the `gap_state`.  `quiet` is the time since
`last_bus_activity` in slots, `rx` the telegrams in the PHY's buffer, `fresh` whether
`poll_pending_received_bytes` has grown since the last poll (`pending_bytes`).
`asked` is the request that a slave owes an answer to.

| Action | Code in `fdl/active.rs` |
|---|---|
| `SetOnline`, `SetOffline`, `Recreate`, `EnterListenToken` | `set_state`, `new`, start of `poll_inner` |
| `ListenTokenReply`, `ListenTokenReceive` | `do_listen_token` |
| `ActiveIdle` with `OwnTokenSeen`, `TokenPassSeen`, `TokenReceived`, `OtherTelegram` | `do_active_idle`, `handle_telegram` |
| `LostToken`, `ClaimSecondToken`, `ClaimScan`, `ClaimAwaitResponse`, `Scan` | `handle_lost_token`, `do_claim_token` |
| `GapPollResponse` | `await_gap_poll_response` |
| `UseTheToken`, `AwaitDataResponse`, `DataReply` | `do_use_token`, `do_await_data_response` |
| `PassTheToken`, `SendToken`, `GapOfRotation`, `NextGapPoll` | `do_pass_token`, `next_gap_poll` |
| `AwaitStatusResponse` | `do_await_status_response` |
| `RepeatTokenPass`, `CheckTokenPassReceive` | `do_check_token_pass` |
| `NoticeActivity`, `Silent`, `Receive`, `Drain`, `Send` | `check_for_bus_activity`, `mark_rx`, `mark_tx`, `receive_all_telegrams` |
| `Transmit`, `Slave`, `Tick` | outside the code: the bus, the slaves, time |

An action is one call of `poll()`, or one telegram of a call that reads several:
`receive_all_telegrams` handles each telegram on its own and knows of the others
only whether there are any (`IsLast`).  Where the code calls the next handler at
once ("immediately evaluate ..."), it is one action: `RepeatTokenPass` includes
the whole token pass, and the expiry of a slot in `ClaimAwaitResponse` and
`AwaitStatusResponse` the next poll or pass.

Abstractions, and in which direction they err:

* Time is counted in slots.  Everything that waits for no timeout, the sync pause
  included, happens in the slot in which it becomes possible, in any order; `Tick`
  waits for it, except in `MaxLate` slots.  Slots of different stations are
  aligned.
* A station may read its buffer any time within the slot, so that telegrams queue
  up more often than on a real bus: more behaviours than the code has.
* Transmissions that would coincide are put in an order.  Collisions on the wire
  are therefore not modelled; that the code never gets there without faults is
  property `NoContention`.
* A garbled telegram is either noticed, as bus activity, or not at all, by any set
  of its receivers.  Bytes and half telegrams are in `BusActivity`.
* A station that is offline buffers nothing.
* What an application sends is a choice: up to `MaxCycles` requests to slaves or
  broadcasts in one token hold.  `MaxCycles` stands for the token hold time; the round
  robin of applications is in `Applications`.
* `debug_assert!` is not part of a release build and of no action; the second one of
  `await_gap_poll_response` is property `PollMatchesGap`.  The other, that a station never
  polls itself (`active.rs:731`), does not hold: with NS = TS - 1, found by a poll, the
  scan of the GAP misses its end (`active.rs:714`).  A release build polls itself, waits a
  slot and goes on, which every run includes.
* The `Passive` state is left out: the code answers it with `todo!()`.

### TokenRight

What the ring promises, seen from outside: a set of holders and whether the right
is on its way.  `Claim` when nobody has it and it is not on its way, `Pass`, `Accept`,
and `Lose`, with a station.  `FdlRing` maps `holders` to the stations whose state has
the token, and `underway` to a token in a buffer or a pass that its sender has not
seen accepted.

### DpPeripheral and DpMaster

A peripheral is the record of `address`, `state`, `retry_count`, `fcb` and `diag_needed`.
`Sends`, `RequestOf`, `Sent` and `Skipped` are `Peripheral::transmit_telegram`: whether
it sends something, what, and what becomes of it in either case.  `ReceiveReply` returns
the peripheral after `Peripheral::receive_reply` and the event, by one operator for each
arm of its `match`.

Variables of `DpMaster`: `operating`, `cycle`, `events` and `slots` with `count` are
`operating_state`, `cycle_state`, `last_events` and the `PeripheralSet`; `control` is whether
a global control telegram was sent by the last call.  `bus` is the one request that is on
the way, or its reply; `slave` the slaves.  `done`, `failed` and `turns` are history
variables of the properties.

| Action | Code |
|---|---|
| `TransmitStopped`, `TransmitGlobalControl`, `TransmitAfterCycle` | the early returns of `DpMaster::transmit_telegram` |
| `TransmitCycle` with `TransmitRequest`, `TransmitNothing` | its loop over the peripherals, from the cycle's index to the first that sends, or the end |
| `Receive`, `NextIndex` | `receive_reply`, `increment_cycle_state` |
| `Timeout` | `handle_timeout` |
| `Add`, `EnterOperate`, `TakeLastEvents`, `RequestDiagnostics`, `ResetAddress` | the calls of a program |
| `Repeat`, `Serve`, `Lose`, `Restart`, `Forget` | outside the code: slaves and bus |

A slave waits for parameters, then for its configuration, then exchanges data, and
reports which in its diagnostics.  It keeps the frame count bit and the reply of the last
request; a request with the same bit, marked as valid, is a repetition and gets the
old reply again, whatever it asks for.  It may lose power, and may turn parameters or a
configuration down.

Abstractions:

* Contents of parameters, configuration, process images and diagnostics are left out,
  but for what the code decides by: the flags of diagnostics, the response status, and
  whether a peripheral has inputs.  `TakenAsInputs` lets a diagnostics response be as long as
  the inputs, since the code compares lengths only.
* Whether a global control telegram is due, and the priority of a call, is a choice,
  except that two of them are not sent by two calls in a row.
* Slots are filled from the front and none is ever emptied: the code has no call that
  removes a peripheral.  Vacant slots between filled ones do not exist.
* A reply that comes after the slot time is lost.  What `FdlRing` knows of late replies,
  `DpMaster` does not.
* The program enters Operate once it has a peripheral.  Without one, `transmit_telegram`
  would loop for ever (`dp/master.rs:299`).  `enter_stop` and `enter_clear` panic
  with `todo!()` and are not called.
* `Careful` and `Forgetful` state what the properties need of the environment.  A careful
  program calls `request_diagnostics` and `reset_address` only for a peripheral that does
  not owe a reply, for instance right after a poll has reported an event of it.  The code
  does not ask for it.  With `Careful = FALSE`, `reset_address` between request and reply
  leads to the `unreachable!()` of `receive_reply` (`dp/master.rs:383`), which
  `ReplyFindsPeripheral` excludes, and `request_diagnostics` there breaks
  `OfflineAfterRetries`: the valid data that arrive are rejected as diagnostics
  (`dp/peripheral.rs:557`), the request for diagnostics that follows has the same frame
  count bit, the slave repeats the data, and the peripheral is given up although its slave
  has answered every request.
* With `Forgetful = FALSE`, `KeepsExchanging` fails: `FrameCountBit::reset` is never called, so
  the first request to a peripheral that was given up may be a repetition to a slave that
  remembers the last one, and is answered with the old reply for ever.  Real slaves forget by
  their watchdog or when they lose power; `Forget` says so for slaves whose master has given
  them up.

### StationScan and Applications

A scan is the record of `stations`, `cursor`, `event` and `done`, the fields of both
`LiveList` and `DpScanner`; each callback is an operator from scan to scan.  Of the DP
master only its cycle is here: it asks its slave or sends a broadcast, and ends its cycle
when it likes.  The application `()` is one that always ends its cycle.

Variables: `st`, `address`, `next`, `first`, `cycleDone` are `State` with its data and
`next_application`; `over` says that the token hold time has ended; `count` is the length
of the program's list.  `ended` and `view` are history variables: the cycles ended on
this token, and what the program knows from the events it took.

| Action | Code in `fdl/active.rs` |
|---|---|
| `UseToken` with `Use`, `AppsTransmit`, `EndCycles` | `do_use_token`, `apps_transmit_telegram`, `schedule_next_application` |
| `Reply`, `ShortReply` with `Answered`, `UnexpectedTelegram` | `do_await_data_response` with a telegram |
| `Timeout` | its timeout, and the `do_use_token` that follows in the same poll |
| `TokenComes`, `SetOnline`, `SetOffline` | `transition_use_token`, `set_online`, `set_offline` |
| `TakeEvent` | `take_last_event`, and what a program makes of it |
| `Change` | outside the code: devices appear, change and disappear |

Abstractions:

* The ring is a token that comes and goes.  Whether the hold time is over is a choice at
  every use of the token, but stays once it is.
* The list of applications changes in `SetOnline` only, as the warning of `poll_multi`
  demands, and any prefix of the list is a list.
* `MaxSkips` is how many polls may pass with an event that nobody took; with 0 every event
  is taken before the next poll, which `ViewIsTrue` is about.
* Nobody answers at the station's own address.  A reply is a diagnostics response, another
  data telegram or a short confirmation; contents are left out.

### Telegram, Phy and BusActivity

`Serialize` and `Deserialize` are the functions of `fdl/telegram.rs`, byte for byte;
`IsTelegram` says what `serialize` can be given, by its types and its `assert!`.  A
driver is a record of mode and buffers; `PollTransmission`, `Transmit`, `Read` and `Drop`
distinguish the drivers, `ReceiveTelegram` and `ReceiveAllTelegrams` are the provided
methods of the trait; a turn of the loop of the latter is `ReceiveTurn`, and the loop a
recursive function that has as many turns as there are bytes, and one more.  `linux.rs` has the
logic of `serial.rs` line by line.

In `BusActivity` time passes in byte times.  The station has the states in which it
receives or waits: `ActiveIdle`, `UseToken`, `AwaitDataResponse`; `since` and `pending`
are `last_bus_activity` and `pending_bytes`.  One action is one poll:

| Action | Code in `fdl/active.rs` |
|---|---|
| `WaitForTransmission` | `check_for_ongoing_transmision` |
| `Since`, `Pending`, `MustWait`, `SlotExpired`, `Transmits`, `Reads` | `check_for_bus_activity`, `wait_synchronization_pause`, `check_slot_expired`, `mark_tx`, `mark_rx` |
| `AnswerStatusRequest`, `ReceiveInActiveIdle` | `do_active_idle` |
| `UseTheToken`, `SendOrPass` | `do_use_token`, and the token pass that follows |
| `ReplyArrives`, `NoReplyYet`, `ReplyTimesOut` | `do_await_data_response` |

Two others are on the bus: a master that passes the token, polls the GAP or talks to the
slave, and the slave.  A byte of a reply may be altered on the way.  `sending`, `coming`,
`lost` and `stale` are history variables: what the station is sending, which telegrams were
sent to it, whether bytes of them were altered, thrown away or lost by a full UART, and
whether bytes that `pending_bytes` counts were thrown away.

Abstractions: the token pass is not watched (`FdlRing` does that) and the ring is not
learned; the lost token is the other master's affair.  A byte arrives whole; `MaxPollGap`
byte times at most lie between two polls.  An altered byte becomes one of `Noise`.  The
simulator's bus alters nothing, and panics when two stations send; there the model stops.

### PrmBuilder, GsdParser, ExtDiagnostics and Gsdtool

A statement is what the grammar makes of it, a record.  `ParseStatement` is one turn of
the loop of `parse_inner`, `EndOfFile` what follows it.  Settings that are only stored
(names, speeds, timings, lengths) are left out.  `PrmBuilder` works on bytes.

| Action | Code |
|---|---|
| `Report`, `NextDiagBlock` | `handle_diagnostics_response` with `fill`; `ExtDiagBlockIter::next` |
| `RunConfigWizard`, `RunDiagnostics` | the command line |
| `Read`, `Refuse`, `Finish` | `parse_inner`, `parse_from_file` |
| `AskParameter`, `ParametersDone` | the loops over parameters, of the device and of each module |
| `SelectModule`, `PrintConfiguration` | the loop over slots, and what is printed |
| `Interpret` | `run_interp_diag` |

The user's answers are those that the prompts offer or accept.  An `unwrap`, `expect`,
slice or index that fails is the stage `Panicked`.  Numbers have the widths of the code
where it matters: every type of a parameter has its range (`Fits`), and the grammar lets any
number of a byte through as that of a bit, so that the shift of `Bit(8)` and the width of an
inverted bit area overflow (`ArithmeticOverflows`), as the sums of `config_inputs` and
`config_outputs` may.  An overflow panics in a debug build and wraps around in a release
build; the model allows both.  TLC's integers have 32 bits themselves, so that the upper bounds
of `Unsigned32` and `Signed32`, which are stated of the upper 16 bits, matter in the proofs only.

No property is about what `Interpret` does with a block beyond the block itself: that a bit
lies outside of it panics, and the condition in `Interpretable` would only be said twice.
The action is there so that both commands of the tool are.

## 3. Runs

All instances of `FdlRing` have two or three stations and HSA 5 (3 in
`highest_address`), `GapWait` 1.

| Run | Instance | Properties | States |
|---|---|---|---|
| `las_discovery` | listener 3, others from {1, 2, 4, 125}, 3 changes, 1 missed pass | `SettledLasIsTheRing`, `ReadyAfterThreeRotations`, `LasConverges` | 24 thousand |
| `ring_restart` | 0, 2, 3, one `set_offline` | `TypeOK`, `ImplementsTokenRight`, `RingForms`, `MembersAreKept`, `GapIsPolled` | 262 thousand |
| `ring_data` | 1, 3, slave 4, one message cycle, one `set_offline` | `OneToken`, `NoContention` | 448 thousand |
| `ring_late` | 1, 3, two garbled telegrams, one late slot | `OneTokenAgain`, `RingForms`, `Rotates` | 53 thousand |
| `duplicate_address` | 1, 3, 3 | `InRingKnowsLas`, `NeighboursOfLas`, `PollMatchesGap` | 343 thousand |
| `dp_cycle` | peripherals 4 with inputs, 7 without and with a slave that fails; `MaxRetry` 1, two faults, one call | `TypeOK`, `NoPanic`, `ReplyFindsPeripheral`, `EventsAreTrue`, `OfflineAfterRetries`, `ComingAndGoingIsReported`, `CycleVisitsAll`, `KeepsExchanging` | 293 thousand |
| `applications` | live list, DP master, DP scanner; addresses 0 to 2; two changes, one fault, once offline | `TypeOK`, `NextInRange`, `ReplyReachesAsker`, `EachCycleOnce`, `ViewIsTrue`, `EveryAddressAsked`, `ListsConverge` | 634 thousand |
| `phy` | three drivers, buffer 32, 4 bytes written at a time, three replies, slot 12, a poll every 3 byte times at least; one altered byte, one missed request | `InOrder`, `SendsWhole`, `NothingForged`, `NoCollision`, `TokenComesAgain` | 1.04 million |
| `gsdtool` | preambles of 0, 5 and 7 statements and up to 4 more of 21, five numbers typed, reports of up to 5 bytes | `UserPrmDataIsConsistent`, `DeviceReadsWhatWasChosen`, `SoundFilesConfigure`, `BlocksAreTheReport` | 1.51 million |

Why these bounds are enough to be interesting.  Addresses {0, 2, 3} and {1, 3}
have the wrap-around of the ring and of the GAP, address 0 and holes in the GAP;
HSA - 1 is free, as the code does not cope with a station there (`highest_address`).  Three stations
are the least with a bystander to a token pass.  `GapWait` 1 has waiting rotations
and polls within a few rotations.  One garbled telegram at any moment is enough to
drop a token, repeat one that was received, and evict a station; `ring_late` has a second one
that hits the recovery.  In
`las_discovery`, 125 and the listener's place amid the others have the wrap-around
on every side.  In `dp_cycle` the second peripheral may be added at any moment; `MaxRetry` 1
with two faults has a peripheral given up by losses alone, a lost reply followed by a
restart of the slave, and a repeated rejection.  In `applications` three applications are
the least with a round that can begin in its middle; lists of one, two and three occur;
the first, the last and the station's own address have their turns.  In `phy` the longest
reply is longer than a slot and its data look like telegrams when reading begins anew in
its middle; with a poll every three byte times, telegrams are cut at every byte, and several
wait at once; one altered byte makes a length, a delimiter or a short confirmation of any
other byte.  In `gsdtool` every statement comes before and after each of those it depends
on; the statements have two bits that share a byte with a constant, a bit area, one that is
inverted, a bit outside its byte, negative numbers, two modules of one name, a slot whose
default is not allowed, and lengths that are too short.  A report of four bytes has two blocks and a cut off one.

What needs which faults.  `OneToken` and `NoContention` are claims for a bus
without garbled telegrams: if NS's first telegram after a token pass is garbled
for its predecessor, the pass is repeated and there are two tokens.  With faults
the claim is `OneTokenAgain`.  `MembersAreKept` likewise: it is a claim for the time before
the first fault and before anybody was taken out by `set_offline`.  `NoPanic` of
`dp_cycle` holds because only one slave fails and there are two faults: `dp_both_offline` shows
what two failing slaves do, and a third fault would let one failing slave and two lost
telegrams to the other do the same.  If slaves neither lose power nor turn anything down,
it holds with any number of lost telegrams, which `NoAssertionFails` proves.

What the properties except, because the code does not do it:

* `NoCollision` holds unless bytes that `pending_bytes` counts were thrown away: after n bytes
  of garbage were discarded, the next n bytes go unnoticed (`active.rs:616`), and the sync
  pause and the slot time run in the middle of somebody's telegram.  A reply longer than a
  slot is then cut off by the timeout, which the comment at `active.rs:637` means to exclude,
  until another telegram has been read completely.
* `InOrder` holds until a byte is altered, thrown away or lost by a full UART.  `transmit_data`
  throws away what waits in the buffer, and the RP2040's driver all that follows the telegram it
  hands over (`phy/rp2040.rs:232`).  `NothingForged` is about data telegrams: the tail of a
  discarded one may be taken for a token or a short confirmation, which have no checksum.
* `ViewIsTrue` excepts the stations that a short confirmation made known: the live list enters
  them without an event (`fdl/live_list.rs:78`).
* `DeviceReadsWhatWasChosen` asks for parameters and modules that can be told apart by their
  names, for declared lengths that are those of the parameters (`PrmBuilder` does not look at
  them, so that the parameters of the modules that follow are shifted), and excepts bits
  that are set by default or by a constant: 0 is or-ed into them (`gsd-parser/src/lib.rs:201`).
  A bit area overwrites its whole byte, and `Signed16` refuses negative numbers.  Every chosen
  or default value must be one that its type stands for (`Holds`), with bits that lie within
  the byte: a release build shifts `Bit(9)` by one.
* `SoundFilesConfigure` is about files without warnings whose defaults are among their texts
  and values, with types that hold every value a prompt accepts and bits that lie within
  their byte (`Holds`); for others the tool panics at `main.rs:106`, `118`, `136` and `246`, in a
  debug build also at `gsd-parser/src/lib.rs:201`, `204` and `208`, and for more than 255 bytes of
  inputs or outputs at `main.rs:378`.  A reference to a parameter that is not defined panics in the parser.
* `UserPrmDataIsConsistent` says of legacy data that it fits its length unless that is 0, which
  counts as not set; that a file is refused for its legacy data although a later
  keyword supersedes them is no violation of it.
* `BlocksAreTheReport` excepts a block of length 0, which panics (`dp/diagnostics.rs:270`), and a
  peripheral without a buffer, whose iterator unwraps `None`.  The report is the last one that
  had extended diagnostics and fitted: a later one without leaves the old blocks
  (`dp/peripheral.rs:715`), against the comment at `dp/diagnostics.rs:44`, which promises an
  empty buffer when nothing was reported.

Hazards that are modelled, but that an assumption or such an exception keeps from the properties
(the notes in `PROJECT.json` say so): a program that asks a peripheral for diagnostics between
a request and its reply (`Careful`), a slave that remembers the last request for ever
(`Forgetful`), events of a scanner that are overwritten before they were taken (`MaxSkips` is
0), bytes that come after garbage (`stale`), blocks of length 0, stations known by a short
confirmation, bits and bit areas that overwrite others, and bits outside their byte.  Nothing
in the code or its documentation says that they do no harm.

Three runs show disagreements between the code and its own words, listed in
`PROJECT.json` as findings:

* `highest_address`: stations 0, 1, 2 and HSA 3.  `next_gap_poll` wraps from
  NS = HSA - 1 to address 0, finds the station there, and `set_next_station` evicts
  NS.  The ring never settles, although an active station may have any address
  below HSA (`parameters.rs:35`).
* `short_confirmation`: a short confirmation as first telegram after a token pass
  makes `do_check_token_pass` unwrap a source address that is not there
  (`active.rs:1409`).
* `dp_both_offline`: an unexpected reply advances the cycle but not the peripheral, whose
  retries go on counting.  Two slaves that turn their parameters down refuse the
  configuration that follows; both peripherals are then given up in the same call of
  `transmit_telegram`, whose `assert!` (`dp/master.rs:337`) fails, against "there can never be
  a situation where multiple peripherals go offline in the same poll cycle"
  (`dp/master.rs:335`).  No telegram is lost in it.

`PROJECT.json` also lists, for each property of the passing runs, a plausible bug
in a handler for which the property fails; the operators are marked "Mutant" in
the modules and used nowhere else.

### Fairness

`WF` of `SetOnline` and `Poll` of every station: the programs set their station
online and poll it for ever, as `poll` must be called.  `WF` of `Tick`: time passes.
`WF` of `Slave`: a slave answers, or lets the time for it pass.  No strong fairness
is used; nothing is assumed about garbled telegrams but that there are finitely
many, which is the bound.  In `LasDiscovery` the ring goes on passing its token.
In `DpMaster`, `WF` of `Poll`: the station gets the token again and again and calls its
application (`Rotates` of `FdlRing`); of `Slave`: a request that is not lost is answered; of
`EnterOperate`: the program starts; of `Forget`, see above.
In `Applications`, `WF` of `Station`: the program polls and the token keeps coming; of `TakeEvent`:
it takes the events; `SF` of `DpMasterEnds`: whenever the DP master has its turn again and again,
its cycle ends some time, since its retries are limited and its broadcasts are
50 slot times apart.  In `BusActivity`, `WF` of `ByteTime`, of the slave's reply and of the
other master's turn; the program polls again and again, and the station gets back to
`ActiveIdle` again and again, which is the token hold time; `SF` of `PeerPassesToken`: of its
many turns the other master uses some to pass the token.  `Gsdtool` ends, and has no liveness.
`TokenRight` has `WF` of its moves together, which `ImplementsTokenRight` shows the
stations to provide.

## 4. Proofs

For every number of stations, every assignment of addresses below HSA (also the
same to several), every HSA and GAP wait, and every number of faults; for the DP
master, for any peripherals, addresses, retry limit, faults and calls of the program; for the
applications, for any list of them, any addresses, and any number of changes, faults and times
offline; for a listener, for any ring, changes and missed passes; for the PHY, for any size of
the buffer and of the output queue, any replies, slot time, gap between polls and number of
altered bytes; for `gsdtool`, for any statements in any order, any numbers typed, and any reports:

| Theorem | Says |
|---|---|
| `TypeCorrect` | `Spec => []TypeOK`: no counter, attempt, address or poll leaves its range |
| `MembersKnowLas` | `Spec => []InRingKnowsLas`: a station in the ring has a valid LAS |
| `PollsMatchGap` | `Spec => []PollMatchesGap`: the response awaited is that of the `gap_state` |
| `NeighboursAreOfLas` | `Spec => []NeighboursOfLas`: NS and PS are the neighbours in the LAS |
| `WitnessKeepsRing` | a witnessed pass keeps a ring consistent and never invalidates a LAS |
| `SetNextStationSetsNext` | `set_next_station` makes the station NS and empties the GAP before it |
| `UpdatedLasVerifies`, `VerifiedLasIsKept` | what the proptest `test_las_update_correctness` samples |
| `RightIsExclusive` | at most one holder under `TokenRight` |
| `OneTokenAlways` | `Spec => []OneToken`, for distinct addresses: one token until the first fault |
| `NoContentionEver` | `Spec => []NoContention`, for distinct addresses |
| `StationsImplementRight` | `FdlRing` implements `TokenRight` step by step until the first fault |
| `FaultlessStationsImplementRight` | without faults, `Spec` implements all of it but its fairness |
| `SettledLasIsRing` | `Spec => []SettledLasIsTheRing` of `LasDiscovery`, for any ring and listener |
| `ThreeRotationsSuffice` | `Spec => []ReadyAfterThreeRotations` |
| `TypeCorrect` of `DpMasterProofs` | `Spec => []TypeOK`: retry counts and the cycle's index stay in range |
| `RepliesFindPeripheral` | `Spec => []ReplyFindsPeripheral`, for a careful program |
| `OfflineOnlyAfterRetries` | `Spec => OfflineAfterRetries`, for a careful program |
| `CyclesAreComplete` | `Spec => CycleVisitsAll`, for any program |
| `ComingAndGoingReported` | `Spec => ComingAndGoingIsReported`, for any program |
| `EventsTellTheTruth` | `Spec => EventsAreTrue`, for a careful program and distinct addresses |
| `NoAssertionFails` | `Spec => []NoPanic`, if besides no slave fails |
| `TypeCorrect` of `ApplicationsProofs` | `Spec => []TypeOK`: cursors, addresses and turns stay in range |
| `NeverOutOfRange` | `Spec => []NextInRange`: `next_application` indexes the list of every poll |
| `RepliesReachAskers` | `Spec => []ReplyReachesAsker` |
| `CyclesOnce` | `Spec => []EachCycleOnce` |
| `ViewsAreTrue` | `Spec => []ViewIsTrue` |
| `SendsWholeHolds` | `Spec => []SendsWhole` |
| `InOrderHolds` | `Spec => []InOrder` |
| `TelegramRoundTrip` | what `serialize` makes of a telegram `deserialize` reads as that telegram, whatever follows |
| `PartIsIncomplete` | a beginning of a telegram is neither a telegram nor garbage |
| `ReadsInOrder` | `receive_telegram` hands over the next telegram of the stream, or waits |
| `UserPrmHolds` | `Spec => []UserPrmDataIsConsistent`, if constants and legacy data can be told apart |
| `SoundFilesHold` | `Spec => []SoundFilesConfigure`: what the property excepts are the only panics of the wizard |
| `BlocksHold` | `Spec => []BlocksAreTheReport` |
| `FoldKeeps`, `FoldAppend` | what each step keeps a fold keeps; one more element is one more step |

Assumptions: `FdlAssumption`, the ranges that `ParametersBuilder` and
`debug_assert_consistency` enforce, that a slave's address is no active station's, and that
the stations are finitely many and none is the value `Nobody`; `PeripheralAssumption` and
`MasterAssumption`, the ranges of addresses, retry limit and slots;
`LasDiscoveryAssumption`, `LastAddressAssumption` and `ApplicationsAssumption`;
`PhyAssumption`, that `write` takes a byte or more; `BusAssumption`, that
addresses are below 126, that the slave's replies are telegrams and that altered bytes are bytes;
`GsdtoolAssumption`, and `DescriptionAssumption`, which says of every statement what the
grammar (`gsd.pest`) makes of it.  What is not always so is a hypothesis of the theorems that
need it:

* `DistinctAddresses`: every active station has an address of its own, as on a bus that is set
  up as PROFIBUS demands; `duplicate_address` has one that is not.
* `Careful`, see `DpMaster` above.
* `DistinctOrder`: the program adds every peripheral once.  `reset_address` keeps it so,
  by its guard in the model: the code does not look whether another peripheral has the new address.
* `Troubled = {}`, of `NoAssertionFails` only: slaves neither lose power nor turn down
  parameters or a configuration.  `dp_both_offline` shows that it is needed.
* `ToldApart`, of `UserPrmHolds` only: no constant of the extended parameters has the bytes of
  a statement of legacy data.  The property recognises legacy data by their bytes; the
  instance of `gsdtool` meets it.

The first half of `FdlRingProofs`.  The inductive invariant `IInv` consists of
`StationsOK`, a predicate `StationOK` of one station's connectivity, state, ring and
`gap_state`, with types for the bus (`BusOK`) and the bounds.  None of the four
properties is inductive alone.  That polls stay in range needs that `gap_state` is
below HSA; that `NS` and `PS` are neighbours needs that the ring is a well-formed
record over its own address (`Consistent`); that a station in the ring has a valid
LAS needs that no operator of `TokenRing` takes the validity back
(`WitnessKeepsRing`), and that the states which lead into the ring ask for it.  An
action changes one station: lemma `ChangeOne` lifts `StationOK` of its new values to
`StationsOK'`, so that each action has a lemma of its own (`...OK`) about one station,
and `PollOK` and `StepIInv` only distinguish the cases.

The second half of `FdlRingProofs`.  That there is one holder is not inductive: a second one
would be made by a telegram in a buffer, or by a timeout.  `TokenInv` therefore speaks of
everybody who could come to send.  `OneSpeaker`: of the stations that act at their next poll
(`Speaker`: a holder that does not wait, one that waits and has an answer to read, one that
owes an answer, or one whose newest telegram is addressed to it) and the slaves there is one
at most.  `HoldersOK`: one holder, and while there is one no token is in a buffer that would be
taken.  `BuffersOK`: what a station has in its buffer in which state.  Timeouts are excluded by
`AgesOK`: whoever waits has heard of the bus last of all, so that its slot time ends while all
others are at most as old, far from the token lost timeout; and while anybody has something to
read or to answer, nobody has aged.  `PassingOK` is about the overlap that the code has: the
sender of a token watches it in `CheckTokenPass` while the receiver may have taken it
already, and it may repeat the pass only as long as nobody has.  Each poll is one of a few steps
for `TokenInv`: a station that has the right says something (`SaysKeepsToken`), goes on
without saying anything (`GoesOnKeepsToken`), or reads and has no right after it
(`IdleKeepsToken`).  `RightStep`, proved along with it, is what the refinement needs besides:
the right changes hands through the silence only.  A repeated token pass with NS = TS needs
that the ring has no other member then (`KeptTokenIsOwn`).

The argument of `LasDiscoveryProofs`.  `HeardPart`: since the last end of rotation the LAS lists,
from the first station up to the holder, just the stations of the ring, because a pass
clears whom it skips and sets its sender.  At the next end the whole LAS is the ring's.  `HeardEnd`
is for a LAS that awaits verification: it contains the last station and nothing outside the
ring's span, so that the verification by the end of an undisturbed rotation succeeds.

The first half of `DpMasterProofs`.  Neither property is inductive: that a reply finds its
peripheral must be known from the request on, and that a peripheral was given up for
a reason must be known before it is.  `OwedToCycle` says that while a request is on the way,
the peripheral at the cycle's index is the one that sent it, still asks for the same, and
has a retry count above 0; the last is what keeps a careful program away from it.
`RetriesFailed` bounds every retry count by the history variable `failed`; a reply that resets
`failed` also resets the retry count (`ValidAnswerCounts`), for which the request must be the
one the peripheral is waiting for: hence the two are proved together.  What
`ReceiveReply` may do to a peripheral is lemma `ReplyTaken`.

The second half goes on from there.  `TurnsOK`: all slots below the
cycle's index have had their turn, the one at the index as soon as its request is out.  That one
event has room for all comings and goings of a call is lemma `OnlyOneLost`, by the
`assert!` in the loop, and `LiveTransmit`.  `EventsAreTrue` is about the frame count bit.  `LiveOK`:
a live peripheral's state claims only what its slave has served (`Accepted`), and if the
slave remembers the bit of the next request, then that request was made already, and the reply it
remembers is the answer to it; a repeated answer is therefore never one to another
request.  `BusOK` says the same of the reply on its way.  For `NoPanic`, `RetriesOK`: of the
live peripherals only the one at the cycle's index has a retry count above 0, since
a slave without trouble refuses nothing (`ParametersKept`, `ServedCounts`); so a call can
give up that one only.

The argument of `ApplicationsProofs`.  `IInv` adds three parts to the type invariant and the
properties.  `OfflineOK`: a station goes online with the first application, so that a list
which has become shorter is not indexed beyond its end.  `RoundOK`: since the token came,
the applications from the first up to the next one, counted in a circle, have ended their
cycle once, the others not at all; `EachCycleOnce` follows, but is not inductive without
it.  `ViewOK`: what the program knows, with the pending event, is what the scanner knows;
so a callback may only change the list together with the event, which `ViewIsTrue` says
once the event was taken.  Lemmas `ModSmall` and `ModWrap` replace the remainder in
`schedule_next_application` by its two cases, which the provers' arithmetic can do.

What `FoldInduction` is for.  The library's theorems of induction have an operator as a
parameter, which the provers cannot instantiate.  `FoldInduction` has the operator and the
predicate as CONSTANTS: `INSTANCE FoldInduction WITH Op <- ..., Inv <- ...` yields the
theorems for one fold.  They are proved from the least element of a set of naturals, and from
the definitions of `FoldLeft` and `FlattenSeq` in the community modules.  Where a predicate is not
about a fold, the proofs take the least element of the set of counterexamples in the same way.

The argument of `GsdtoolProofs`.  `ParserInv` says of the parser after any statements: the legacy
data, kept apart until the end of the file, fit into the length declared so far and refer to no
parameter; the station's extended parameters have nothing of them; the modules allowed in a slot
are modules of the file, and its default is one of them unless there was a warning.
Each statement keeps it, and so do the folds over the preamble, and over the settings of a
module and the slots of a definition, which are instances of `FoldInduction`.  `WizardInv`: what
was selected are modules of the file, so that a prompt finds what it unwraps, from the file's
soundness, which the reading of it fixed.  A value that a type stands for is neither refused
nor does its arithmetic overflow (`HoldsFits`), so that every write, and every fold of writes
of `PrmBuilder::new`, succeeds in both builds (`WriteSucceeds`, `BuilderSucceeds`).  `DiagInv`: the blocks seen so far, put one behind the
other, are the beginning of the buffer up to the cursor, and how the iteration has ended is true of
the rest; blocks whose channel type is invalid are excepted, whose bytes cannot be told any more.

The argument of `BusActivityProofs`.  `SendInv`: in Tx, queue and unsent bytes together are the
rest of the telegram; in Rx both are empty.  `SendsWhole` follows, but is not
inductive without the second, nor without the drivers' kind: the simulator submits at once.
`OrderInv` adds that the telegrams not read yet are telegrams, and that a driver in Tx has an
empty buffer (`HoldsNothing`): otherwise `make_rx`, which empties it, would lose what came
in.  That reading keeps the order has three parts.  On the wire (`TelegramRoundTrip`,
`PartIsIncomplete`): a telegram is read as itself behind whatever it is cut from and before
whatever follows, since its head determines its length.  In the stream
(`ReadsInOrder`, `CutTwice`): the buffer ends within the next telegram, and then nothing is dropped, or
behind it, and then just its bytes are.  In the loop of `receive_all_telegrams`
(`TurnKeepsFollowing`, an instance of `FoldInduction`): each turn reads the next telegram or is
the last one.  The RP2040's driver drops the rest of its buffer; then
`lost` is set, and until then the loop had one turn (`CutShort`).  What pauses on the wire do
to the bytes is a matter of `FlattenSeq` (`FlattenTogether`, `SpacedBytes`).

Before it was proved, TLC has checked `OrderInv` over all states of `phy`.

Only model-checked:

* `MembersAreKept`: it needs an invariant by which the LAS of all stations agree with the
  ring, up to the token passes and GAP polls that some have yet to read;
* everything with liveness (`LasConverges`, `RingForms`, `GapIsPolled`, `Rotates`, `OneTokenAgain`, `KeepsExchanging`,
  `EveryAddressAsked`, `ListsConverge`, `TokenComesAgain`, the fairness of `TokenRight`), which
  is out of TLAPS's reach, as ENABLED is;
* `OneToken` and the refinement after a fault: they do not hold then;
* `NothingForged` and `NoCollision`: they are no claims for every instance.  Bytes and
  replies can be chosen such that the rest of a discarded telegram is another one, checksum
  included; and the station may start to send in another one's telegram when polls are too
  rare for the slot time;
* `DeviceReadsWhatWasChosen`: what a device reads of numbers of one, two and four bytes is arithmetic
  with powers of two, which the provers do not do.

## 5. Plan

Done: all modules of the table above, with proofs of everything but what is said to be only
model-checked.  What could follow:

1. `MembersAreKept`, from `TokenInv` and the argument of `LasDiscoveryProofs` applied
   to every listener.
2. `DpMaster` with late replies, composed with the data exchange of `FdlRing`; an
   abstract specification of one peripheral, the configuration sequence that a slave
   demands, which the master implements.
3. The buffer of a PHY whose station is offline (`phy/mod.rs:128`).

Not modelled, and why:

* Time arithmetic and baud rates: the models count slots or byte times, and only the
  order of events matters to their properties.  The limits of 64 bit
  microseconds are out of reach of any run.
* Opening devices, UARTs and the kernel: input and output without state of this program.
  `linux.rs` has the logic of `serial.rs`, which `Phy` models.
* The `Passive` state, `enter_stop` and `enter_clear`: `todo!()` in the code.
* The grammar of GSD files and the settings that are only stored, the layout of what
  `gsdtool` prints, and its command `dump`: no state, nothing to go wrong in time.
* The crate root, test helpers and examples: programs that use what is modelled.
* Two hazards that are known and left: `rotation_count > gap_wait_rotations` waits one
  rotation more than documented (`active.rs:1283`), which changes no property, and the counting
  of tokens with the own address (`active.rs:915`), which only decides when a station
  leaves a ring that has two of its address.
