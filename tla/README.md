# Verification of the OPC Modbus Server

TLA+ models of the server in `src/`, the TLC configurations that check them on
small instances, and theorems about them checked by TLAPS. Paths below are
relative to `src/`.

## 1. The system

The server polls Modbus devices over serial lines and TCP, turns registers into
engineering values and offers them to OPC UA clients, who can write back. One
process holds a *generation* of the stack: one poller task per physical
channel, one tag engine, one OPC UA server with its value pump. A configuration
edit replaces the generation at run time; an MCP controller edits, scans and
starts or stops it.

```
 device <-> channel task --ChangeSet--> broadcast --> tag engine --> broadcast --> OPC UA pump --> clients
               ^  |                        |              (formulas, deadband)            |
               |  +-- TagCache <-----------+-- resync after Lagged                        |
               +------ command queue (64) <------------- write callback <-----------------+
                                         <------------- scans (MCP, GUI)
```

| Component | State it keeps | Operations | What makes it correct |
|---|---|---|---|
| Channel task, `crates/mb-poller/src/channel.rs` | connection, `swept`, `healthy_conn`, `consec_timeouts`, backoff delay | connect, poll a tick, serve a command, drain the queue, back off, stop | quality tells the truth about devices and outages; commands are answered once, in order, never after their deadline and never by another request's reply; nothing is starved; shutdown ends it |
| Device watchdog, `device.rs` | failure counter, online flag, next probe time, split overrides | success, communication failure, probe gate, split | a silent device turns Bad and stays Bad until it answers; it is probed back; one missing register strands no other |
| Command queue, `command.rs`, `lib.rs` | bounded mpsc of `WriteCommand`s with deadline and one-shot reply | submit, reply, expire | one reply each; nothing fires after an outage |
| Poll wheel, `schedule.rs` | one interval per distinct period | collect all elapsed periods into one batch by priority | no due period is lost |
| Plan and coalescing, `plan.rs`, `coalesce.rs` | none (built for each generation) | merge neighbouring registers into transactions | every field read once, PDU and address limits kept |
| Transport and errors, `crates/mb-proto/src/` | one tokio-modbus context | request, classification of errors | a reply is accepted for the request it answers |
| Tag cache, `cache.rs` | a slot per tag, batch sequence, broadcast ring | publish a batch, degrade a device, snapshot | a subscriber that resynchronises ends with the cache's content |
| OPC UA write path, `crates/opcua-gateway/src/write.rs` | write plans behind a reader-writer lock | convert, submit, await the reply | a client's answer agrees with what the task did |
| OPC UA server and pump, `crates/opcua-gateway/src/lib.rs` | node values, pump subscription | initial push, follow the stream, reconfigure | nodes converge to the store |
| Tag engine, `crates/tags-core/src/engine.rs` | typed store, last published values, retentive set | process a batch, resynchronise | worst quality of the inputs, deadband hides no drift |
| Retentive values and history, `persist.rs` | embedded database with a 500 ms flush | store, load | a restart restores what was flushed |
| Service host, `crates/svc-host/src/stack.rs` | the running generation, watcher | start, reload, stop | exactly one generation drives a channel; writes do not straddle a reload |
| MCP controller, `crates/svc-host/src/mcp/` | stack, file as last seen, applied and desired revision, scan jobs | edit with revision check, apply, start, stop, restart, scan, shut down | no lost update, no two users of one serial port, nothing left running |
| Owners of a configuration, `mcp/mod.rs` (`run_managed`), `mcp/transport.rs`, `gui/src/server.rs`, `gui/src/remote.rs` | lock file, endpoint file, stop marker, each process's idea of the owner | own, attach, start, stop, notice a loss, take over, detach | one runtime at a time, polling goes on, a shutdown is final |
| Configuration, `crates/config/` | none | parse, migrate, validate, resolve | what it accepts can be compiled, polled and written |
| Configurator window, `crates/gui/src/app.rs` | document, dirty flag, snapshot of the file | edit, save, save as, open, follow the file | nobody's saved change is lost; the window shows the file |
| Binary, service wrapper, logging, MQTT | | start and stop of processes | in `Owners`, else outside the models |

### What is hard

* **Interleaving.** The task is at one await at a time, but submitters, timers,
  the link and the operator move at every await: a command arrives while the
  connect is awaited, a deadline passes while the request is on the wire, a
  shutdown is requested while the drain loop runs.
* **Late replies.** A request that was given up leaves a reply under way. RTU
  frames carry no transaction id, so on a byte stream the next reply read is
  matched by unit, function code and length only.
* **Failure.** A connect fails, an I/O error ends a connection, a device is
  silent for good, a register is missing; each has its own effect on counters,
  qualities and the queue, and the effects outlive the connection.
* **Priorities.** Shutdown, then commands, then polls at the `select!`; commands
  again between transactions; a yield after a diagnostic.
* **Lagging subscribers and reloads.** Engine and pump may lose batches; a
  reload swaps tasks, stores and write plans under polls and client writes.
* **Several hands on one file.** MCP clients, windows and other programs edit
  the same configuration; a watcher polls it; the comparison that protects an
  edit and the write that carries it out are separate accesses to the disk.
* **Several processes.** A service and windows share one configuration; the
  owner may stop, close, fail or be killed, and the others learn of it from a
  poll every 250 ms, a lock and two files, each of which may be out of date.
* **Dropped futures.** A handler stops at any of its awaits when its client
  goes away.

Every hazard is listed with its line in `PROJECT.json`, with the property that
covers it or a note why none does.

## 2. The modules

| Module | Contents |
|---|---|
| `ChannelTask` | the channel task with its watchdog, queue, tag qualities and the wire |
| `CommandContract` | what a channel promises the submitters of commands (abstract) |
| `MCChannelTask` | small channels for TLC |
| `ChannelTaskProofs` | types, quality, latency, acknowledgements, own values and backoff, proved |
| `ChannelContractProofs` | the channel task implements the command contract, proved |
| `TagEngine` | raw cache, broadcast ring, tag engine, typed store and retentive values |
| `MCTagEngine` | a register and a formula over it for TLC |
| `TagEngineProofs` | types, currency, announcements, live values and retentive values, proved |
| `Generations` | the stack and its hot reload: watcher, generations of poller, engine and stores, the OPC UA pump, the write callbacks |
| `GenerationsProofs` | types, recipes, nodes, writes, statuses and readings across reloads, proved |
| `Controller` | one MCP controller: tools, revisions, scans, watcher, shutdown, clients that go away |
| `ControllerProofs` | types and the mutex, acknowledged and staged edits, the serial port, a clean end, proved |
| `Owners` | the processes that share a configuration and take it over from each other |
| `OwnersProofs` | types, one runtime, a final shutdown, proved |
| `Editor` | windows and MCP clients that edit the same files |
| `EditorProofs` | types and that no saved change is lost, proved |
| `Settings` | what validation accepts and what `resolve` makes of it (operators only) |
| `Registers` | plan, coalescing, splits, replies cut into tags, writes and their encoding |
| `RegistersProofs` | what is written reads back, a Good tag holds its own registers, the plan covers, proved |
| `MCGenerations`, `MCController`, `MCOwners`, `MCEditor`, `MCRegisters` | their instances for TLC |

`ChannelTask` and `TagEngine` show one task each in full detail. `Generations`
composes poller, engine, pump, reload and callbacks and abstracts what the first
two decide (priorities, retries, qualities, deadbands, formulas over several
tags). `Controller` uses the stack with the stages of its reload as
`Generations` has them, and abstracts values. `Owners` puts a controller into
every process and abstracts its tools; `Editor` does the same for the document.
`Registers` EXTENDS `Settings` and abstracts the scheduling of polls.

### ChannelTask: state

`pc` is the await (or loop head) `run_channel` is at:

| `pc` | code |
|---|---|
| `reconnect` | head of the outer loop |
| `connecting` | `connect_traced(...).await` |
| `select` | the biased `select!` of the inner loop |
| `yield` | after a diagnostic served at the `select!`, before a due poll is looked for |
| `dispatch` | inside `run_tick`, between transactions |
| `polling` | `poll_with_retry(...).await` |
| `boundary` | `drain_pending_writes` after a transaction |
| `writing` | the request of `service_write` |
| `backoff` | `backoff_or_stop` |
| `stopped` | the task has returned |

`groups`, `base`, `subs`, `retries` are the positions of the loops of
`run_tick` and `poll_with_retry`; `cur` and `draining` the command in service
and the caller of `service_write`. `swept`, `healthy`, `consec` and `backoff`
are the locals of `run_channel`; `online`, `fails`, `split` and `waiting` the
fields of `DeviceRuntime`, which outlive connections. `quality` is the quality
part of the `TagCache`. `queue`, `cmd` and `expired` are the mpsc channel, the
state of each one-shot reply, and the passed deadlines. `late` is the wire: the
requests that were given up and whose reply may still arrive, oldest first.

Four variables the code does not have record history for the properties:
`foreign` (tags whose Good value came from another request's reply), `forged`
(commands acknowledged by another request's reply), `passed` (polls begun since
a command was last served) and `settled` (transient faults are over).

Each action is the code from one await to the next, with every call it makes:
a poll timeout updates counter, online flag, probe time and qualities, and on
the second timeout of a byte stream ends the connection, answers the whole
queue and enters the backoff, in one step, because the code does so without
awaiting. Pieces used by several arms are operators named after the code's
functions: `OnSuccess`, `OnCommFailure`, `HandleException`, `EffectiveTxns`,
`FailPendingWrites`, `Scatter`.

### ChannelTask: abstractions

* Time: a timer is an action that may happen. The backoff is its number of
  doublings, a probe is `waiting` or due, a deadline has passed or not.
* A request's frame is its `Header` (unit and function code) and the `Length`
  of its normal reply; `LengthRule` is how `Transport::request` checks a length:
  registers exactly, bits at least, custom reads only in `scatter`, writes not.
  These are all a byte stream has to tell replies apart.
* The device is external: it answers from its register map (`BadTag` are the
  registers it does not have), may be busy, slow or silent, and may fall silent
  for good (`Mortal`).
* A command's deadline is checked when it is dequeued and its transmission begins
  in the same step: the code does not wait in between.
* Failure counters stop at the threshold, `consec` at 2, `passed` at 2, beyond
  which the code does not tell values apart.
* The plan is a set of constants; `BatchOf` is what the poll wheel makes of a
  set of elapsed periods.
* Metrics, tracing, values and time stamps are left out.

### CommandContract

Commands are taken in queue order, one at a time, only while the link is up;
each gets exactly one reply; a command whose deadline has passed is answered
without transmission; a success is reported only for a transmitted command;
losing the link answers and removes everything accepted before. `ChannelTask`
implements it with the link up exactly when `pc` is not in `Down`
(`KeepsContract`).

### TagEngine

`cache` are the slots of `TagCache`, which a channel writes one by one under a
slot lock (`WriteSlot`) before it announces the whole batch (`SendBatch`);
`batch` is what a channel is in the middle of. `raw` is the engine's receiver:
at most `Capacity` pending messages, of which the oldest are lost when it lags.
The engine is receiving (`recv`), freezing the raw inputs of the affected tags
slot by slot (`freeze`), or evaluating them (`eval`): `process` does not await,
but channel tasks run on other threads, so their writes fall between any two of
its reads. `calc` and `store` are the two typed stores (`calculated` and the
published one), `published` is `last_published`, `changed` the batch that
`send_batch` announces at the end. `disk` is what was handed to the database and
`durable` what a crash leaves of it. The history variable `unseen` collects the
tags that differ from what was last announced.

`Affected(S)` is the closure of S under dependents, which `affected` finds by a
search; `Evaluate` may take the tags in any order that puts dependencies first,
of which `graph.order` is one. `Computed` is the loop body up to the deadband:
worst quality, decode, formula, failure; the constant `Eval` is decode and
transform, and a failure is the value `Failed`. `Restart` is a new process with
what the database holds: `new`, `restore_retentive` and the subscription that
`run` relies on, at the start of the initial pass. A stop is only observed
between messages and flushes; a crash may come at any step.

Left out: time stamps, sequence numbers, text values (which the deadband does
not concern), history rings and failing database calls; `refresh`, which a
reload uses to run the initial pass early, is in `Generations`.

### Generations

A generation is a number; `cfg` and `rev` are the active configuration and its
revision, `raw[g]` and `typed[g]` the stores of generation g. `cacheOf` tells
whose raw cache a generation reads: a reload that does not change the polling
keeps the poller and the cache. A value is the recipe it was made by (the two
parts of `register_signatures`) and the number of the plant's change it stems
from, so that the properties can tell a stale value from a current one and one
of another recipe from its own.

`stage` is the await `start_stack` and `reload` are at: `pause`, `engine`
(drain), `poller` (drain), `swap`, `commit` (the pump's report), and the three
stages of the shutdown. `WatchTick` is a tick of the watcher with everything up
to the first await of the reload: reading, the debounce by two identical reads,
load, compile, every refusal of the preflight. `pump` is the pump task: the
generation it follows, whether it has subscribed, whether it lags, the batch it
holds. A callback is `asking` for the reader lock of the write plans, `sending`
into the bounded queue, `waiting` for the reply. It holds the lock until it
returns; `pause_writes` takes the writer lock, so a reload waits for it.
`Workers` are the threads: a callback or a reload that waits for the lock blocks
one (`PauseHolds`), a callback that awaits its reply does not (`FreeWorker` is
what `block_in_place` is for). A command ends in an answer of the device, a
refusal, a timeout, or `lost`: a fatal error, after which the device may or may
not have executed it (`write.rs` 328-335).

`Readable` are the tags that are polled; without them a run looks at writes
alone.

`missed` are changes announced between the pump's first push and its
subscription (`opcua-gateway/src/lib.rs` 182-199), which it shows when the tag
changes next; `applied` and `misdirected` record what reached the device.
Left out: the trial limit, metrics, certificates, failing database calls.

### Controller

`file` is the configuration, a set of features (`port`: it uses the serial
port; `tag`; others the instance may add). A tool call is `sent`, then at the
steps between which the code awaits or touches the disk: `saving` after the
check of the revision, `replace` after the second comparison, `reload` in one of
the stages of `RunningStack::reload`, `probe`, `stopping`, `again` (the second
half of a restart, or of `shutdown_controller`, which closes the controller
before it waits for the mutex). `lock` is the mutex over the state, held by a call, the
watcher or the shutdown. Jobs run outside it. `Leaves` drops the future of a
call of a `Leaver` at its present step, with the mutex and with whatever the
reload had taken out of the stack: that is what axum does when the connection
goes away. `promised`, `staged` and `lost` record acknowledged edits, revisions
that were only saved, and reloads that ended with nobody to record them; `left`
that the poller of a dropped stop or reload has still to release the port. A
read of the watcher may fail (`WatchFails`), which forgets what it has sighted.
Left out: adopting a running stack, `dry_run`, the audit log, read-only tools,
`write_tag`, scans over several targets, and `prepare`'s errors of the disk.

### Owners

A process is a service (`run_managed`) or a window (`EmbeddedServer`). `proc` is
where its loop is and what it remembers: `intent` (was the runtime running when
last heard of), `once` (`attached_once`), what `attach_controller` read from
the endpoint file, whether a start is due. `ctl` is its controller, from `new`
over `up` to the steps of its shutdown in the code's order: stop the server,
end the tasks, remove the endpoint, release the lock (`ending`, `ended`,
`closing`, `quiet`). `lease`, `sidecar` and `marker` are the three files.
Killing a process releases its lock and leaves its files. `keep` records
whether polling is wanted: `asked` for, `left` by a closed owner, or not.
Left out: the stdio bridge and `mcp-host` (`run_controller` owns but never takes
over), sessions, tokens, 15 s request timeouts and the trial limit.

### Editor

A content of a file is the set of changes somebody has made to it, so that a
lost change is one that is missing. A window has its document, the `dirty`
flag, `disk_snapshot`, what `watch_file` and `pump` have seen, and the state of
its embedded server. A frame is one step, except for `save` and `load_path`,
whose accesses to the disk are steps of their own since other processes run
between them. `exposed` are the changes written in the gap of somebody's save,
`skipped` that `watch_file` took a content for seen that the window did not
show. Left out: writes that are only half done, failing reads, the dialogs.

### Settings and Registers

`Errors` is `validate` for channels, devices, poll groups and entries, with the
PDU caps, the width of a word and the size of the address space as constants;
`Resolve` what is left of an accepted file; `ChargedRequests` the number of
requests the bus-load estimate charges. `Registers` takes a file from `Files`,
refuses it or runs it: `BuildAll` is `build_all` with `coalesce` as a fold over
the sorted intervals, `Poll` sends the next request of the plan, splits it when
the device refuses it and cuts a reply into tags, `Write` takes a client's
number through inverse, range check, rounding and encoding to the device.

Engineering values are doubles, of `Mantissa` bits, no finer than 2^-`Finest`
and no greater than `Mantissa` + `Coarsest` bits, counted in `Unit`s of the finest
spacing. `Double` rounds a quotient to the nearest, ties to even; each
operation of the code on `f64` is one `Double`: the conversion of a client's
number (`FromInt`), the subtraction and the division of the inverse (`RawOf`), the
product and the sum of the transform (`Apply`). `Rounded` is `f64::round`,
`OutOfRange` the comparison with the ends of 64 bits, which are doubles
themselves, and `Saturated` the cast. Scales, offsets and written values are
integers.
Left out: registers that hold floats, BCD, bits, ASCII, the deadband and history settings, the OPC
UA and MCP sections, airtime, and the parser of formulas.

## 3. The runs

| Run | Question | Instance |
|---|---|---|
| `ByteStream` | do qualities follow watchdog and outages; is a write passed by one poll at most; is every Good value the tag's own; is the backoff earned; all with faults that never cease | byte stream, devices d1 (two custom reads of one function and different lengths) and d2 (one read), one retry, a write and a command without a route, threshold 2, two doublings |
| `StreamCommands` | is a write acknowledged only by its own reply; is the command contract kept; is every command answered; is a shutdown honoured; does a silent device turn Bad although its timeouts cycle the connection; all with faults that never cease | byte stream, one device with one read that may fall silent for good, two writes that recur, queue of two, threshold 3 |
| `TcpChannel` | do tags come back once faults end; are due polls served under an endless scan when a timeout leaves the connection up | TCP, a coalesced read over a missing register with two splits, one retry, a write, a recurring diagnostic, threshold 1 |
| `Engine` | when nothing is under way, is the store what the raw cache computes to; is every change announced; does no restored value pass for a live one; does a clean stop keep retentive values | a register with a deadband, a formula over it and over its own register that can fail, a ring of one, marks, stops, crashes |
| `Reload` | does no value of an old recipe outlive a reload; do the nodes end up at the latest reading; do the readings of unchanged registers cross | two registers, a file that changes its formula, its source, does not compile or is torn; lags, a pump that dies |
| `ReloadLive` | is a valid file in force sooner or later | one register, one write, two worker threads, a queue of one, a file that changes its formula or is torn |
| `ReloadWrites` | does no write reach a device by an old plan; does the client's status agree with the device; does every write return | two writes, three worker threads, a queue of one, a reload, a stop, nothing polled |
| `Control` | is no acknowledged edit lost; does a staged revision stay staged; has the port one user; does a closed controller leave nothing running but what a dropped call left; is every change of the file looked at | two clients, one of which may vanish, ten tools, reads that fail, one scan job, an outside editor, three events |
| `Handover` | is there one runtime at most; is a shutdown final; is a killed owner replaced; do all end up rightly informed | a service and a window, six acts of operators and clients, one fault |
| `Registers` | is every compiled plan legal and complete and charged as it polls; is a Good value the own registers' content; does a missing register strand no other; does a write read back | four families of configurations: three reads of a menu of 11 in every arrangement and gap, two channels with three devices enabled or not, writable entries of every shape with 14 values, and mistakes |
| `Editor` | is nobody's saved change lost; does a window follow its file | two windows, two files, three changes of which one is invalid, one act |
| `WindowClosed` | *finding 7* | the `Handover` instance without faults |

**Bounds.** `MaxLate = 1` lets one late reply be under way: one suffices to take
the place of another's, and on a byte stream two timeouts end the connection and
discard what is late. `QueueCap` is 2 in place of 64: order, a full queue and
a queue answered as a whole need two. `OfflineAfter` 2 or 3 separates the first
timeout from the crossing (3 is more than the two timeouts that end a
connection, the case issue #2 is about); on TCP 1 is enough to go offline and
come back. `MaxRetries` is 0 or 1; `MaxBackoff` 2 is the least with which the
backoff can fall. Two devices are needed where one device's failure could touch
the other's tags; one otherwise. Commands are used once unless `Recurring`. In
`StreamCommands` both recur: the second is behind the first in the queue when
that times out, so that its reply is late while the next is awaited, and the
drain loop can go round for ever. `ByteStream` has one write, which is all that
`WriteLatency` needs.

In `Engine` a ring of one message loses messages after two announcements;
three register values and a deadband of 2 let a value drift by steps that are
each within the band; the formula sees the register ungated, reads the
register's quality, and fails on the largest value. One channel announces the
two tags in separate batches, so that a wave may freeze one of them between the
other's write and its announcement.

`Reload`, `ReloadLive` and `ReloadWrites` share `Generations`: values without
writes, one of each, and two writes without values, so that all finish. One
edit is two generations, and a stale batch, a torn file or a write that straddles
the swap each need one; a torn file and its completion make two contents. `ReloadWrites` has no outside
edit but a file that differs from the start, so that a reload pauses the
writes; one callback then waits for the lock behind the reload while the other
holds it, or for a place in the queue of one while the other's command is in it.
A callback blocks a worker only while it waits for the lock, and so does the
reload: `EveryWriteAnswered` takes a worker more than there are writes. What
happens with fewer is finding 8.

In `Control` three events are an edit under way, a second one and a scan or the
shutdown, in every order; `Feature` {port, tag} tells reloads that replace the
poller from those that do not. Two clients are needed for two edits with one
revision. `Handover` needs six acts for start, close, open again, shutdown and
start again; with two windows and two acts it is clean as well (510 000
states), and `Editor` with one window, three acts and three changes (305 000).

`Registers` uses words of 4 bits, an address space of 8 and caps of 4: caps,
the top of the address space, gaps 0 and 1, carries and signs are all reached
by small addresses and numbers, and none of the code's constants enters other
than as one of these bounds. Doubles of 10 bits (`Mantissa`), `Finest` 10 and
`Coarsest` 8 stand to numbers of 4, 8 and 16 bits as those of 53 bits do to 16, 32
and 64: one and two words are exact, four are not, and every end of a type is
far from overflow. The values written lie on both sides of 2^10, 2^15 and 2^16.
Up to four tags, three to a device: a merge is decided by neighbours, and a third
shows that the run is carried on.

**Deadlock.** The runs say `CHECK_DEADLOCK FALSE` where the system may stop:
after a shutdown the task, the stack or the controller has returned, all
processes may be off, and in `Registers` a refused file ends the matter.
`Editor` stops when its bounds are used up and everything is seen.

**Fairness** (`FairSpec`). Weak fairness of `Task`: tokio polls a runnable task,
and every await in it is bounded by a timer of its own (the connect and
request timeouts, the backoff sleep). `BackoffElapses` has its own, because
refusing commands during the backoff does not reset the sleep, which is one
pinned future. Intervals and probe times elapse because time passes. Faults
cease only where `Settles` is TRUE, and then for good: recovery is promised of
faults that end. Nothing is assumed of submitters or of the operator, and a
`Mortal` device may fall silent at any time.

`ShutdownStops`, `SilentDeviceTurnsBad` and `TagsRecover` excuse an endless stream
of commands, which none of the others does. The drain loop of a tick serves
writes for as long as they come (finding 5), and polls nothing meanwhile; a
recurring diagnostic to a unit that answers late makes every tick fatal at its
first boundary, since on TCP the late reply has the wrong transaction id for
what is awaited next, and the groups behind are not reached. Commands that end
some day are not excused: whatever they did, the task stops, the tags turn.

`Generations`: weak fairness of the stages of start, reload and stop, of the
pump, and of every callback and command, since each awaits something bounded;
a callback can only go on while a worker is free. The watcher's tick is a
timer: weakly fair for its first sight of a content, strongly for its second,
which an edit may put off but not for ever. Edits, polls, writes, failures and
the stop are free. `Controller`: the mutex of tokio is fair, so that a holder
goes on and a waiting call, the watcher and the shutdown get it; scans end
because their requests time out. Clients, the outside editor and `Leaves` are
free. `Owners`: every loop has a timer (250 ms, 2 s) and every wait a bound
(500 ms), so each process goes on; operators and faults are free. `Editor`:
frames are drawn while a window is open. `Registers`: the next poll comes.

## 4. Findings

Each is a disagreement of the code with its documentation or its own comments.
Finding 7 is the run `WindowClosed`; the others that have a configuration are
reproduced with `tlc -config <name>.cfg <MC module>`, and TLC finds them within
seconds to a minute.

1. `StreamAlias` (`MCChannelTask`, `GoodIsOwn`): on a byte stream the reply to a
   timed-out read is accepted as the answer to the next read of the same unit,
   function code and length, and published Good under the wrong tags
   (`channel.rs` 339). The design asks for a drained or reset stream after a
   timeout (`docs/phase1-design.md` 847); the code resets after the second one.
2. `OutageQueue` (`OutageEmptiesQueue`): a command that arrives while the connect
   is awaited (`channel.rs` 100) is neither refused nor failed and is carried
   out on the new connection, though `command.rs` 7 says it fails fast while
   disconnected.
3. `FatalPoll` (`FatalMarksTags`): a poll that ends in a fatal error leaves its
   tags Good when the device has not reached its threshold (`channel.rs` 305);
   the design's outcome table says Bad (`docs/phase1-design.md` 848).
4. `StreamScan` (`DuePollServed`): on a byte stream a scan over silent units
   starves due polls: each timeout reconnects (`channel.rs` 178-189) before the
   yield announced at `channel.rs` 191.
5. `WriteFlood` (`ShutdownStopsAlways`): the drain loop (`channel.rs` 492-514) never
   looks at the shutdown flag, so a submitter that refills the queue as fast as
   it is served keeps the task from ending, against `channel.rs` 252-255.
   `ShutdownStops` says that the task ends unless commands never cease.
6. `RestoredTags` (`MCTagEngine`, `RestoredIsUncertain`): a retentive value
   restored as Uncertain "until the first live read" (`store.rs` 175, `README.md`
   152) turns Bad in the engine's initial pass (`engine.rs` 321-329), which takes
   the never-read raw slot for a failed one.
7. `WindowClosed` (`MCOwners`, `PollingOutlivesWindow`): a window that owns the
   polling runtime stops it as the first step of closing; an attached service
   that asks for the status in that moment takes "not running" for its intent,
   takes over the lock and does not poll (`mcp/mod.rs` 422, 470-476, 484).
   `docs/MCP.md` 72-73 says polling continues, and the test
   `server_takes_over_when_configurator_owner_closes` passes when the service
   is not asking just then.
8. `Starved` (`MCGenerations`, `EveryWriteAnsweredAnyhow`): `pause_writes` waits
   for a write in flight and holds its worker thread while it does
   (`opcua-gateway/src/lib.rs` 72), and so does every further callback that waits
   for the reader lock behind it (`lib.rs` 489); neither wait is in
   `block_in_place`. When they are as many as the workers no task and no timer
   runs, so the write in flight does not end either, although `write.rs` 50-53
   says "The OPC UA callback stops waiting after this". On a machine with one
   core a single write in flight during a reload is enough. With a worker to
   spare for every write `EveryWriteAnswered` holds.
9. `ClientGone` (`MCController`, `PollingOutlivesClients`): a client that goes
   away in the middle of an edit, or whose bridge gives up after 15 s, drops the
   future of `RunningStack::reload` between the end of the old engine or poller
   and the start of the new one; nothing polls until somebody restarts the
   server, though `docs/MCP.md` 66-67 says that closing stdio stops neither
   server nor polling. The same drop in `server_stop` leaves `applied` and
   `active` stale, and in `shutdown_controller` a controller that is closed for
   ever and never gives up the lock, since `closed` is set before the mutex is
   awaited (`mcp/tools.rs` 399) and nobody is left to go on: `ClosedRuns`
   (`ClosedEnds`), which holds without clients that go away.
10. `Exclusive` in `Control.cfg`: after such a drop the poller of the dropped
    reload may hold the serial port while an offline scan or a request uses it;
    `mcp/mod.rs` 1-3 says that all requests use the owning queue while polling
    is active. `PortExclusive` excludes that case and holds. For the same reason
    the port may still be in use when the lease has been given back: `PortLeft`
    (`ClosedFreesPort`); `ClosedIsClean` admits that one user and no other.
11. `SaveAs` (`MCEditor`, `ShowsItsServer`): "save as" while the embedded server
    is starting or reloading leaves the window with the controller of the old
    file (`has_mcp` is false just then, `app.rs` 399).
12. `Unseen` (`MCEditor`, `EditorFollowsAll`): `watch_file` takes what is on disk
    for seen (`gui/src/server.rs` 363) even if the window shows something older;
    the window then stays behind until the next change, though `README.md`
    112-113 says it checks for external changes.
13. `Clipped` (`MCRegisters`, `RefusesOutOfRange`): `raw_to_typed` says it rejects
    "out-of-range values instead of wrapping" (`write.rs` 301-302), but compares
    with `u64::MAX as f64`, which is 2^64, and `i64::MAX as f64`, which is 2^63
    (311, 317). Exactly 2^64 on a `u64` tag (2^63 on an `i64` tag) passes, the cast
    saturates it, and the client is told Good.

Smaller ones, seen in the code and not checked by a run of their own:
every written value passes through `f64` (`write.rs` 284-299), so that a `UInt64`
of 2^53 + 1 is answered Good and reads back as 2^53, although tags without a
transform keep their native type everywhere else (`WritesReadBack` states
exactness only for what a double holds); `apply_config` compares the revision
outside the mutex and then re-reads the
file (`mcp/tools.rs` 389-395, against `docs/MCP.md` 117-118); `applied_revision`
stays at the old revision after a failed commit although the new generation is
active; the watcher never retries a foreign file it has refused because of an
offline scan (`mcp/mod.rs` 210-227); a writable coil with a formula and no inverse
passes validation (`validate.rs` 459-476) although `schema/v1.rs` 342-344 asks for
one; a coil with scale 0 is accepted and every write to it is out of range.

## 5. The proofs

Every theorem is about `Spec`, without fairness, and holds for every value of the
constants that satisfies the named assumptions. The types of the variables are
in each module's `TypeOK`, for `Registers` in `PlanInv`, `MemoryShape` and
`CacheShape`. Where an invariant is not inductive, the strengthening
that is has been given to TLC on the instances above before it was proved.

### ChannelTask

The theorems hold for every plan, every number of devices, tags and commands,
every threshold, retry budget and queue capacity that satisfy the named
assumptions of `ChannelTask`: `PlanAssumption` (shapes; the fields of a
transaction belong to its device, as `build_device` makes them),
`CommandAssumption`, `BoundAssumption`, and `HeaderAssumption`: no read has the
function code of a write. That last one is what the standard function codes
give; a custom read configured with a write's code only draws a warning from
`validate.rs` (392-397), and `AckGenuine` does not speak of such a channel.

| Theorem | Argument |
|---|---|
| `TypeCorrect` | `TypeOK` is inductive; it includes that `polling` has a transaction and `writing` a command, so that no arm takes the head of an empty list |
| `OfflineBad` | `OfflineIsBad` with `TypeOK` is inductive: a tag is only lifted in steps in which its device has answered or is online before and after, and every crossing sweeps the device |
| `OutageBad` | needs `OutageInv`: `swept` holds only between a failed connect and the next success, so no poll runs while it holds |
| `LatencyBounded` | needs `LatencyInv`: a poll that was begun past a waiting command is still in flight or at its boundary, with the queue not empty, so the drain loop runs before the next one |
| `AckGenuine` | needs `AckInv`: on a byte stream only reads are ever late, since a write that times out ends the connection, and no read has the header of a write; on TCP the transaction id decides |
| `OwnValues` | under `ToldApart`: the channel is Modbus TCP, or no two of its reads have the same unit, function code and length. With `AckInv` (what is late on a byte stream was asked by a read) a late reply passes for a read only if it is that read's own, or has the wrong length for a custom read, which turns Bad. Finding 1 is what happens without the hypothesis |
| `BackoffIsEarned` | step property; every `Reconnect` is called with the connection's own `healthy` or with FALSE |
| `ContractKept` | refinement, with `QueueInv` (the queue holds exactly the waiting commands, once each; the one `sent` command is `cur`) as the invariant under which each step maps to a contract step or a stutter |

### TagEngine

The theorems about `TagEngine` hold for every set of tags and channels, every
`Eval`, deadband and ring capacity, under `TagAssumption` (shapes),
`EvalAssumption` (a formula yields a value or fails) and `AcyclicAssumption`
(`DependencyGraph::build` rejects cycles).

| Theorem | Argument |
|---|---|
| `TypeCorrect` | `TypeOK` with `WaveInv`: no wave is left between messages, and a batch announces every tag it writes |
| `StoreCurrent` | needs `OrderInv` (a wave is closed under dependents; an evaluated tag depends on none still to come), `ResultInv` (a tag outside the wave is up to date or in flight; a frozen input is the cache's or in flight; an evaluated tag is what its frozen input gives) and `GateInv` (the last published value is the one shown; outside a wave the slot stands for the result). A tag is in flight while it is written, announced, or may have been in a lost message; a step takes a tag out of flight only by putting it into a wave |
| `AllAnnounced` | `AnnounceInv`: what differs from the last announcement is in the batch under construction |
| `GoodLive` | with `LiveInv`: a Good slot holds a value, and a frozen Good input was read |
| `StopKeeps` | `DiskInv`: the database was told of every retentive value that is shown |

### Generations

For every set of registers, writes and configurations, any number of edits,
readings and workers, and every queue capacity, under `ConfigAssumption` (a
configuration has a recipe for each register; what loads and compiles is a
configuration's own matter; `None` and `NoNode` are no values). The parts of the
inductive invariant `IInv`:

| Invariant | What it says, and what it is for |
|---|---|
| `EditInv` | a reload uses up an edit, so that a generation has a number; needed for the types |
| `CacheInv` | which generation's raw cache poller and engine work on, and whether the next one keeps it |
| `FutureInv` | stores of generations to come are empty, so that nothing stale is waiting in them |
| `RawInv`, `TypedInv` | raw and typed values are of the recipe of their configuration, in the active generation and in the one being prepared; a typed value has a raw one behind it |
| `NewsInv` | outside what the engine has still to process, the typed store is what the raw values compute to |
| `DiskInv` | what is on disk is of the active recipe, and before the swap also of the next one |
| `NodeInv` | a live pump shows the active generation, and a node it does not know to be behind shows the store |
| `PlansInv` | the write plans are the active generation's or none; nobody holds the lock while they are replaced; a command in the queue within its deadline has its callback waiting, which is why a reload cannot overtake it |
| `ToldInv` | where callback, command and device are relative to each other |

| Theorem | Argument |
|---|---|
| `TypeCorrect` | `TypeOK` with `EditInv` |
| `RecipesHold` | `RecipeKept` is the active half of `RawInv`, `TypedInv`, `DiskInv` and `NodeInv`. Their other half, about the generation being prepared, makes it inductive: what the preflight seeds, `EngineEnds` leaves on disk and `Swap` carries over must be right for the configuration that `Swap` makes active |
| `NodesFollow` | `NodeInv` and `NewsInv`: node = typed store = what the raw cache computes to |
| `WritesFresh` | `PlansInv`: `Enter` takes a plan of `rev`, and `rev` changes only behind the writer lock |
| `ClientsToldTruth` | `ToldInv` |
| `ReadingsKept` | an action property of `Swap`, the one step that changes `rev`: the raw values it takes over hold, for each register acquired the same way, the last reading of the old cache, and by the types of the stores what it publishes is computed from that reading alone |

### Controller

For every number of clients, jobs and resources, every set of tools, and clients
that may vanish in any call, under `ControllerAssumption` (names are distinct).

| Invariant | What it says, and what it is for |
|---|---|
| `MutexInv` | who is past the check of a tool, in a reload or in the shutdown holds the mutex |
| `StackInv` | a reload is of a running stack; without a stack there is no poller |
| `AckInv` | a call that is about to replace the file has every acknowledged edit in its base |
| `StageInv` | a staged revision is not running, is known to the watcher, and no reload is on its way to it |
| `StopInv`, `SyncInv` | a stopping call has taken the stack; the controller knows what runs, unless `lost` |
| `ScanInv`, `DrainInv`, `PortInv` | what an offline scan excludes, who waits for a drained poller, and that neither overlaps with polling on the port |
| `CloseInv` | what each stage of `Controller::shutdown` has achieved |
| `DoneInv` | once the lease is given back there is no call in progress and none can begin |

| Theorem | Argument |
|---|---|
| `TypeCorrect` | `TypeOK` with `MutexInv` |
| `EditsKept` | `AckInv`: the second comparison is made under the mutex, and nobody who follows the protocol replaces the file while another holds it; a change from outside ends the promise of what it removes |
| `StagedWaits` | `StageInv`, whose conjunct about the watcher's `seen` is what keeps the tick from taking a staged revision for a foreign change |
| `PortIsExclusive` | `PortInv`, `ScanInv` and `DrainInv`: the cardinality is at most one because each pair of users excludes the other. It takes `SyncInv`, since an offline scan is let in on what the controller believes to be running |
| `ShutdownClean` | `CloseInv` and `DoneInv`, with `StackInv` for the poller and `ScanInv` for the scans: every user of the port but the poller of a dropped stop or reload hangs on one of them |

### Owners

For every number of services and windows, under `OwnersAssumption` (they are
different processes).

| Theorem | Argument |
|---|---|
| `TypeCorrect` | `TypeOK` is inductive |
| `OneRuntimeHolds` | `HoldInv`: a controller exists only in the process that has the lock, through kills, failed starts and takeovers |
| `ShutdownFinal` | `FinalInv`: after a finished shutdown the marker is there and every process is in a place from which it ends; a service that still tries for the lock was attached once (`OnceInv`), finds the marker and stops |

### Editor

For every number of windows, files and changes, under `EditorAssumption`.

| Theorem | Argument |
|---|---|
| `TypeCorrect` | with `PathInv` (a window with a server shows a file) and `WindowInv` (what is written is a file's name) |
| `NothingIsLost` | an action property, by `WindowInv` and `ToolInv`: the snapshot a window compares with is in its document, and from its comparison to the end of the save the file lacks nothing of the document but what was exposed meanwhile; the same of a controller's edit. A step that writes therefore removes only exposed changes, or the user has agreed to overwrite another file |

### Settings and Registers

For every configuration of the schema, with any number of channels, devices,
groups and entries, every address space, word size and cap that satisfies
`CapsAssumption`, every precision and range of doubles that satisfies
`DoublesAssumption` (fractions as fine as the mantissa is long, and a range past
every register, as IEEE doubles have), every set of missing addresses and every
value a client writes. `FilesAssumption` says that `Files` are configurations of the schema
(`Configurations` follows `schema/v1.rs` field by field), `AmountsAssumption` that
a client writes integers, `NoneAssumption` that an absent formula is none;
validation is not assumed, it is `Accepted` in `Init`.

| Invariant | What it says, and what it is for |
|---|---|
| `WriteInv` | the file has the schema's shape and has no errors when it runs; every device has its areas and addresses; with `WritesReadBack` |
| `PlanInv` | the plan is what `BuildAll` makes of the file, which no step changes |
| `OwnInv` | `PlanInv`, the shape of the cache, and that the next request is one of the plan, whole or one of its parts; a split changes how many parts a request has, so that a poll after it must still find the next one |

| Theorem | Argument |
|---|---|
| `WritesReadBackAlways` | `DecodeEncode`: decoding what `Encode` makes of a number that fits gives it back, for one, two and four words, signed or not, in every word and byte order; `DoubleOf`: a double is off by half of its spacing at most; `ExactInt`: an integer of up to `Mantissa` bits is a double; `QuotientRounds`: rounding the double of a quotient is within half a step of the quotient, as long as doubles carry numerator and denominator with a bit to spare (`Carried`); `NativeWrite` and `NotClipped`: what the cast of an untransformed or a carried value may do; and that validation admits a writable entry only if its inverse or a scale other than 0 undoes the transform and its block lies inside the address space |
| `OwnRegistersAlways` | `PackedMore`: one step of the coalescer keeps every run inside cap and address space and every field the slice of its interval; so every request of the plan is an `OwnRequest`, whose fields stand at the addresses their tags state, and so is every part of a split one (`SplitRequest`). A poll then publishes the slice at those addresses |
| `PlanCoversAlways` | the same for the caps; `PlanList`: `BuildAll` lists every request of the configuration once, and `FeedsFrom`: the requests of a device and group have one field for each of its entries in the group and no other; and `SameCount` for the bus-load rule |

`SameCount` is the part a reviewer would doubt: the coalescer sorts by start and
keeps the order of equal ones, the rule of `validate.rs` sorts by start and end,
and the runs of the two need not be equal step by step. The proof goes through
what the runs have in common: a `Course` says at which addresses runs begin in
terms of the set of spans alone, a course has only one length (`CourseUnique`),
and both folds follow one (`CoursedMore`, `ChargedMore`).

A statement about a list of any length is proved by induction over its prefixes.
The induction theorems of the library take an operator as parameter and cannot
be cited here; `NatInd` states induction for a set and follows from the
well-foundedness of `<`, whose theorem takes none. For that `coalesce`,
`merge_runs`, `Pow2` and `Decode` are recursive functions, and filters and sorts
lists of positions (`Through`, `Ascending`, `Listed`), not RECURSIVE operators.

### Only model-checked

The liveness properties (`EveryCommandAnswered`, `ShutdownStops`,
`SilentDeviceTurnsBad`, `TagsRecover`, `DuePollServed`, `FileApplied`,
`EveryWriteAnswered`, `FileSettles`, `PollingResumes`, `Settles`, `EveryTagRead`,
`EditorFollows`), since liveness under fairness and ENABLED are beyond the prover.
Every safety property of a passing run is a theorem.

## 6. Plan

1. `ChannelTask`, `CommandContract` and their proofs: done.
2. `TagEngine` and its proofs: done.
3. `Generations`, `Controller`, `Owners`, `Settings` with `Registers`, `Editor`:
   modelled and checked.
4. `GenerationsProofs`, `ControllerProofs`, `OwnersProofs`, `EditorProofs`: every
   safety property that a run of these modules checks, done.
5. `RegistersProofs`: what the coalescer, the plan, the bus-load rule, the decoder
   and the encoder compute for every configuration, done.
6. What would come next: liveness by hand-made ranking arguments, once the prover
   handles ENABLED, and registers that hold floating point.

## 7. Not modelled

Floating-point registers, scales and offsets that are fractions, BCD, bits, text
and the formula parser (values, covered by tables of unit tests), the text format of the configuration and its
migrations, the OPC UA and MCP sections of validation, the forms, charts and log
view of the GUI, authentication, certificates, HTTP and JSON-RPC plumbing,
sessions and tokens of MCP, the stdio bridge, logging and the empty MQTT crate.
The trial limit only stops the server after a fixed time. tokio, tokio-modbus,
async-opcua, axum and sled are external; what the code in `src/` relies on is
part of the models (bounded mpsc, one-shot replies, biased `select!`, watch
channels, missed-tick behaviour of intervals, a writer-preferring lock,
`block_in_place`, futures dropped with their connection).
