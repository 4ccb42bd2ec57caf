# A TLA+ development for EdgeCompute

EdgeCompute holds three programs for edge devices: **EdgeFS**, a file store that
keeps files in the chunks of one big data file; **NatProbe**, which finds out
what kind of NAT a device is behind; and **PunchHole**, which lets two devices
behind NATs reach each other with the help of a rendezvous server. This directory
holds TLA+ models of the code under `src/`, the TLC configurations that check
them, and TLAPS proofs about them.

Each definition that stands for code is listed with its file and lines in
`PROJECT.json` ("map"). Names follow the source where TLA+ allows it.

## 1. Inventory

| Component | State it keeps | Operations | Hard behaviour |
|---|---|---|---|
| **EdgeFS write path** `EdgeFS.cpp:267-532`, `Bitmap.cpp` | index file (mapped): bitmap and one `MetaInfo` per chunk (`m_isUsed`, `m_sha1`, `m_idleLen`, `m_nextChunkid`); data file; `m_writeChunkNum` in memory | `write(name, buf, len)`: find the tail, compute the lengths, allocate chunks, fill the tail, fill new chunks, link them | colliding lists, partial failure, death of the process between stores, random allocation, rounding |
| **EdgeFS read path** `EdgeFS.cpp:534-720` | none of its own | `read(name, buf, len, offset)` | offset arithmetic, lists shared by files, ends of files |
| **EdgeFS start and roll-back** `EdgeFS.cpp:54-260`, `IndexMgr.cpp`, `DataMgr.cpp` | the two files, the header of the index file | `initFS`: check, compute sizes, open/truncate, create or reload; roll back by unlinking | death between steps of the creation, a changed configuration, 32-bit quotients |
| **AsyncLogging** `AsyncLogging.{h,cpp}`, `logger.cpp` | `m_shareQueue`, mutex, condition variable, `m_isStop`, the thread's private queue | `log`, `logOutput` (the thread), `stop` | lost wake-ups, unlocked reads, the thread logging through itself, stop |
| **NatProbe client** `nat_probe_client.c` | its socket, the server's IPs, the message id, the answers received | five questions in order: public, symmetric, full cone, restricted, port-restricted; each over the IPs with retries | UDP loss, late answers to a previous try, the order of the questions changes the router's filter |
| **NatProbe server** `nat_probe_server.c` | a table of sockets: for every IP of its domain one on port 61620 and one on the next | `read_callback` with one handler per question, each of which picks the socket it answers from by index; start, exit | index arithmetic over a table with holes, sockets that could not be bound |
| **PunchHole UDP** `p2p_transfer_udp/` | server: list of registered devices; peer: local and remote address | ping, query, punch command, hole punching, data | lost datagrams without retry, duplicate registrations, a callback that sleeps |
| **PunchHole TCP** `p2p_transfer_tcp/` | server: list of devices with their connection; peer: listening socket, `while (--retry)` connect loop | the same over TCP, connections that come and go | entries outliving their connection, simultaneous open |
| cJSON, sha1, log formatting, `StrStream`, demos, build files | - | - | not modelled: vendored or formatting code; the demos supply the calls |

**Interactions.** The application calls `initFS` once, then `read` and `write`
from one thread (the code has no lock around the index file). EdgeFS logs through
AsyncLogging, whose thread writes with the same `FileOper` as the data file and
logs its own failures. The NatProbe client and server exchange JSON datagrams;
the NAT between them is outside `src/`. The PunchHole server forwards punch
commands to peers it knows by the address or the connection it last saw.

**What makes each correct.**

* *EdgeFS*: what `write` reported is what `read` returns; a write to one file
  never harms another file; every list ends; the disk is refused only when full;
  death of the process costs bounded space and no other file's data; the reload
  accepts an index file only if it describes this disk.
* *AsyncLogging*: lines are written in order, none twice, none lost except for
  reasons one can name; a line is written in the end; `stop` returns.
* *NatProbe*: the type reported is the type of the NAT; a lost datagram never
  turns one type into another; a stale answer is not taken for a fresh one.
* *PunchHole*: two registered peers whose messages arrive learn each other's
  address; an answer never carries an address nobody registered; a peer that
  disconnects is not contacted through its dead connection.

The hazards behind these, each at the line where it bites, are listed in
`PROJECT.json` ("hazards").

## 2. The modules

| Module | What it models |
|---|---|
| `EdgeFS` | the write path: index file, data file, `write()` step by step, failing and short data writes, process deaths, the reload |
| `EdgeFSRead` | extends `EdgeFS`: `read()` as operators over the stored state, and the properties that relate reading to writing |
| `AppendStore` | the abstract specification of EdgeFS: files that grow at their end, one request at a time, all or nothing |
| `EdgeFSProofs` | extends `EdgeFS`: the TLAPS proofs about the write path |
| `EdgeFSReadProofs` | extends `EdgeFSRead`, `EdgeFSProofs`, `SetInduction`: the TLAPS proofs about the lists, reading and the refinement |
| `MCEdgeFS` | instances (files and hash functions) of the above for TLC |
| `EdgeFSInit` | `initFS()`: sizes, creation or reload of the two files, roll-back, deaths and failing calls |
| `EdgeFSInitProofs` | extends `EdgeFSInit`: the TLAPS proofs |
| `MCEdgeFSInit` | configurations for TLC |
| `AsyncLogging` | the logging queue, its thread and `stop()` |
| `AsyncLoggingProofs` | extends `AsyncLogging`: the TLAPS proofs |
| `NatProbeServer` | the NatProbe server: its table of sockets, the handlers, start and exit |
| `NatProbe` | extends `NatProbeServer`: the client, the router between them and the network |
| `NatProbeProofs` | extends `NatProbe`: the TLAPS proofs |
| `PunchHoleUdp` | the UDP rendezvous server, the peers, their routers and the network |
| `PunchHoleUdpProofs` | extends `PunchHoleUdp`: the TLAPS proofs |
| `PunchHoleTcp` | the TCP rendezvous server, the peers with their connect loops and listeners, their connections |
| `PunchHoleTcpProofs` | extends `PunchHoleTcp`: the TLAPS proofs |
| `SetInduction` | induction, recursion and least elements over an interval of numbers, stated for sets and functions; used by `EdgeFSReadProofs` and `PunchHoleUdpProofs` |

### EdgeFS

State. `bitmap`, `isUsed`, `sha1`, `idleLen`, `nextChunkid` are the mapped index
file; `disk` is the data file; `writeChunkNum` is `Bitmap::m_writeChunkNum`. `pc`
and `op` are the position and the locals of the `write()` in progress. `acked` and
`crashes` are history: what the callers were told, and how often the process died.
A byte on `disk` is the pair of the file it was written for and its position in
what the callers of that file passed, so that a reader can tell a right byte from
a wrong one. A file stands for its own sha1 (no digest collisions);
`HashKey` is `generateHashKey`, an arbitrary function.

Actions. `BeginWrite` is everything `write()` does before the first byte: both
lookups, `calcWriteVariable`, `generateIdleChunkids`, none of which changes stored
state, and the answer -1 on a full disk. `FillTail`/`LinkFirst` are the two
branches on `firstWriteLen`, `WriteChunk` one turn of the loop over the new
chunks, `Return` the return to the caller. `FillTailFails` and `WriteChunkFails`
are a data write that fails or is short (`FileOper::write` reports both as
failure; some bytes may be on disk). `WriteHangs` is `write()` on a cyclic list:
`findFileTailMetaInfo` never returns. The lookup of a list is stated by what it
finds (`FileTailIs`, `ChunkTailIs`) over `Walk`, the chunks met from the head.

The allocator. `generateIdleChunkids` takes the head chunk first when it is free,
then draws at random while less than half of the chunks were written by this
process (`m_writeChunkNum` starts at 0 after a restart), else searches upwards;
the draws may repeat a chunk, and the upward search after failed draws may return
one that was drawn. `IdleChunkidChoices` is the set of lists this can give.

Deaths. `Crash` is between two steps; `CrashInFill` and `CrashInChunk` are inside
a step, after any prefix of its stores: `StoresUpTo(n)` is the first *n* stores
into a new chunk's `MetaInfo`, in program order. Stores into the mapping survive
the death of the process in program order, bytes accepted by `pwrite` too. Loss
of power, where the kernel may lose or reorder pages, is not modelled: the code
never syncs, and nothing it does bears on that. `Reload` is `initFS` on a good
index file, which takes the mapping as found.

Reading. `ReadChunkids` is `generateReadChunkids`, whose loop over the list is
`Gathered`; `ReadInfo` is `calcReadVariable`; `Joined` is the copy loop of `read()`
over the pieces, and `Read` the whole call, for offsets inside the file. A read of the
data file that fails ends the loop, and `read()` returns the bytes it has so far:
`ReadBefore` is the call whose read of the (n+1)-th chunk fails. An offset at or beyond
the end is left out (see the hazard at `EdgeFS.cpp:648`).

### AppendStore and the refinement

`AppendStore` says what a caller may rely on: `Request` names a file and a length,
`Extend` adds some of the request's bytes at the end of that file only, `Done`
reports once nothing is owed, `Refuse` is allowed only if nothing was appended.
`EdgeFSRead!Store` maps the stored state to it: the content of a file is the
written part of its chunks in list order, up to the first chunk nobody uses
(`UsedWalk`; while `write()` runs, the list already leads to the chunk about to be filled).
`ImplementsAppendStore` is the abstract specification as a property of the
detailed one.

### EdgeFSInit

State. `data` and `idx` are the two files as a later start finds them: whether they
are there, their size, for the index file its header, and `bytes`: in the index file
the users' bytes its metadata stands for, in the data file how many of those it still
holds. `pc` and `field` are the position in `initFS`, `info` the `SystemInfo` passed.
`hist` is history: calls that failed on either file, deaths, configurations, and the
most that users had stored.

Actions. `StartRefused` and `Start` are `initFSCheckParam` and `initFSCalcVariable`
(`Sizes`, `Accepted`, with quotients modulo `Word`); then one action per system call
or store that a death can fall between: `OpenData`, `TruncData`, `OpenIdx` (which
decides between creating and reloading by whether the file is there), `TruncIdx`,
`MapNew` with its `memset`, `StoreHead` once per field, `MapOld`, `CheckHead`. Reading
the header of an empty file through its mapping kills the process (`CheckHeadDies`).
The roll-back unlinks both files, data first (`UnlinkData`, `UnlinkIdx`), but only the
data file when the failing call came before the index file had a path. A start that
is refused for its parameters unlinks nothing: no path is set yet. Every start is a
process of its own and calls `initFS` once, as the demos do.

`EdgeFS` begins where this module ends: `EdgeFS!Init` is a created file system, and
`EdgeFS!Reload` a reloaded one, which `RestartKeepsData` says is the one left behind.

### AsyncLogging

`queue`, `mutex`, `waiting`, `isStop` are the shared members. A caller goes
through `LogCheck` (the unlocked test of the size), `LogLock`, `LogPush`,
`LogNotify`; the logger thread through `LoopTest`, `Acquire`, `WaitIfEmpty`,
`WakeUp`, `Swap`, `WriteLine`, `BatchDone`, once more after the loop with
`last = TRUE`. `SetStop`, `StopNotify`, `Join` are `stop()`. A line whose write
fails is reported with `ReportCheck`/`ReportLock`/`ReportPush`, by the logger
thread on its own queue.

`m_shareQueue.size()` is read without the mutex. That is a data race: while some
thread holds the mutex, and so may be changing the queue, the model lets the read
give either answer; otherwise it gives the right one. `wait()` may return
spuriously, and the code does not test the queue again, which is harmless: an
empty batch is written. A notify when nobody waits is lost, as in POSIX. `stop()`
is called when the application's threads no longer log, which is how
`EdgeFS::unitFS` is used.

### NatProbeServer and NatProbe

The server's table is the function `Addr` from indexes to the address each entry is
bound to: two entries for each IP, as many again with IP zero (the loop that fills the
table runs over twice the number of IPs), zero behind them; `CreateSocket` leaves any
of the sockets unbound. `process` and
the two cone handlers compute the index of the socket that answers, as the code does;
`ReplyTo` is one `read_callback`. `Exit` ends the process, and it may start again.

The client is the loop of `np_send_and_recv_msg` (`i`, `j`, `retry`, `msgid`), with
one action for a send, an answer with the id in use, one with another id, a timeout
and each failing call; `Judge` is the verdict after the last IP of a question, and
goes to the next question or ends. An answer counts only by its id (`IsTheAnswer`).

`requests` and `replies` are the datagrams ever sent. Delivering one does not take it
out, so that a repeated, a late and a reordered datagram are all the same thing; one
that is never delivered is lost. `Recent` limits how many ids back a datagram may
come from. The router is external and is the NAT of RFC 3489 of the kind in `nat`:
`Mapped` is the address a server sees (a symmetric router has a port of its own for
each destination), `LetsIn` what it lets back in. Mappings do not expire during the
probe, which lasts seconds; a host on a public network has no firewall. `disturbed`
becomes true with the first loss, late answer, failing call or missing socket that
touches the probe. `is_local_ip()` reads the interfaces into 128 bytes, so that it may
miss the host's own address: a step that misses it disturbs the probe. The domain has
at most five IPs: beyond that the server's table overflows (`nat_probe_server.c:79`).

### PunchHoleUdp

`list` is the server's list, newest entry first as `list_add` makes it; `PingArrives`
adds without looking for an older entry, as the code does. `QueryArrives` is all of
`process_query_device_info_cmd()`: `Found` is what its loop has copied when it stops
at the second match, of whichever device; then come the punch command and the answer,
of which a failing send leaves out the rest and an interrupted one only itself
(`SAFE_SENDTO` goes on after `EINTR`).

A peer is `ping_cb` (run once: `event_active()` makes the one-shot event run and its
timer is deleted), `user_cb` (once, for every device but 2222), and `read_cb` with its
commands. `punch_hole()` sleeps five seconds in the callback: `pc[d] = "sleeping"`, in
which the peer reads nothing. How long five seconds are is not modelled; the data may
overtake the punch command, and `TooEarly` names that case.

The routers are external: port-restricted cones, as `ping_cb` reports of itself.
`mapping` counts the public addresses a peer has had, and changes only when it is
started again; `holes` are the addresses it has sent to. `net` holds the datagrams on
their way, in no order. At first all processes have been started; `Restart` is a death
and the next start in one step, because a peer that is not running does nothing: what
is in `net` meanwhile is either still there afterwards or lost with the old socket.
`Restart`, `ServerRestarts`, `Lose`, `Repeat` and every failing send are faults; `disturbed` collects the devices a fault concerns, so that the
rendezvous can be claimed for all others. The datagram that opens the hole
(`PUNCH_TO_PEER`) opens it in `PunchArrives`; whoever receives it ignores it
(`read_cb`'s default case), so it is not kept in `net`.

### PunchHoleTcp

The server keeps a connection per peer and the list. `list` is as over UDP, with the
connection in place of the address: the n-th connection of a peer (`Conns`) stands for
the address its router gave it and for the `bufferevent` in the entry. `open` are the
connections whose `bufferevent` exists; `ServerEof` is `conn_event_cb`, which frees it
and leaves the entry. A read callback takes one message, and what came with it stays in
the input buffer (`buf`, `inbuf`) until something else arrives: `ServerReads` and
`TargetReads` take in any number of the messages on their way, and handle the first one
in the buffer (`ServerTakes`, `TargetTakes`). `QueryArrives` looks for the `bufferevent` first, as the code does:
without one the assertion ends the server; with a freed one the outcome is undefined,
and the model allows an end of the server, no command at all, and the memory belonging
to the device's later connection. Other reuse of that memory is left out.

An asker is `user_cb`: `Ask` sends, `Answered` is the return of `recv()`, with a message
or because the connection has ended, after which it punches within the callback. For
Target `TargetReads` starts a thread. Both run the loop of `connect_peer()`, here an
*end* of the hole: `Connects` enters it, `Attempt` and `Fails` are its turns, `Meet`,
`ListenerAccepts` or the last `Fails` its end. Each end connects from the port it also
listens on. If both are connecting, TCP opens one connection simultaneously (`Meet`, in
which the asker's send and close and the thread's `recv` are one step, since nothing can
come between that others see); if one connects while the other is between two turns, the
listener of the other accepts, and its callback drops the socket: the address pair is in
use from then on (`held`, `InUse`).

Faults are a process killed and started again (`Restart`), a connection that is reset,
with or without what was on its way (`Break`), and a message whose first bytes arrive
alone (`ServerReadsPart`, `TargetReadsPart`, `AnsweredPart`): the part not yet there is
read as zeros (`Pieces`), and the other bytes (`Remainder`) come later. A head read from
them is an unknown command, and takes all of them, a part of them, or all of them and the
beginning of the message behind, of which then only a remainder is left (`Left`): so one
split message can spoil another device's. The rest of a split answer goes to
`conn_read_cb` of the asker, which handles no command. A remainder whose bytes happen to
read as a command is left out. `trouble` records what has gone wrong for whom, including what is
nobody's fault: a query before the registration ("early"), a message left in the buffer
("stranded", also said of one that a remainder has spoiled), a listener that accepted ("listener").

Left out: threads that can only fail (for the zero address, a dead connection, or a
second one for the same address); a failing `socket`, `bind`, `calloc` or start; the
second `close` of a descriptor in `SAFE_CLOSE` after `bufferevent_free`, which may hit
one that a thread has just opened.

## 3. The runs

| Run | Instance | What it shows |
|---|---|---|
| `edgefs_append` | 3 files (two share a slot), 4 chunks of 2 bytes, writes of 0, 1, 2 bytes, no faults | EdgeFS implements `AppendStore` (`ImplementsAppendStore`); every range of what was reported reads back and, when a read fails, the bytes before it do (`ReadBack`); lists end (`ListsEnd`); only a file's last chunk has room (`OnlyLastChunkPartial`); no chunk is lost to all lists (`EveryTakenChunkReachable`); -1 means full (`RefusedOnlyWhenFull`) |
| `edgefs_faults` | 2 files, 3 chunks of 2 bytes, writes of 1, 3, 4 bytes, failing writes, 2 deaths | types; a chunk in use has its bit; an owned chunk is in use; what `write()` looked up stays its own; a death costs at most one chunk; a write to one file never touches another's chunks (`OthersUntouched`) |
| `edgefs_duplicates` | as above, writes of 1 and 4 bytes, no faults | **violated** `ReportedBytesStored`: see findings |
| `edgefs_failed_write` | writes of 1 and 2 bytes, failing writes | **violated** `ListedChunksWritten` |
| `edgefs_read_past_end` | writes of 1 and 2 bytes, no faults | **violated** `ReadStaysInFile` |
| `edgefs_init` | 6 configurations (4 accepted, two of them the same geometry), chunks of 2 to 8 units, 1 failing call, 2 deaths | types; a start that succeeds has files of its own configuration (`MountedMatches`); deaths alone cost no data (`RestartKeepsData`); the only ways to mount metadata of lost bytes (`NoSilentLoss`); chunks cover the disk (`WholeDiskCovered`); starting again succeeds, or the index file is empty for good (`RestartMounts`) |
| `edgefs_init_memory` | memory 6..16, disk 1..60 units, no faults | **violated** `MemoryCoversDisk` |
| `nat_probe` | 2 IPs, every kind of network, a server that starts at most twice and misses at most one socket, datagrams up to 2 ids old | types; no verdict is more open than the network (`VerdictIsReal`); behind a symmetric router the two answers show two addresses (`SymmetricIsSeen`); an undisturbed probe names the network, but for the restricted cone (`CleanVerdict`); the server answers from sockets it bound (`RepliesFromOwnSockets`); the probe ends (`ProbeEnds`) |
| `nat_probe_restricted` | as above, all sockets bound | **violated** `RestrictedIsReported` |
| `punch_hole_udp` | 2 askers and the device they ask for, 1 fault, of the first asker, of the device asked for or of the server | types; only addresses pinged from are handed out and sent to (`AddressProvenance`); repeated registrations hide nobody but in the cases named (`LookupFinds`); each asker's data arrives unless something went wrong for this asker (`RendezvousWorks`) |
| `punch_hole_tcp` | 2 askers and the device they ask for, 2 turns of the connect loop, 1 fault, of the first asker or of the device asked for | types; what can stop the server (`ServerSurvives`); an address pair never carries two connections (`OneConnection`); askers leave their callback unless their query is stranded in the server's buffer or was split (`AskersReturn`); threads end unless the asker's listener took their connection (`ThreadsEnd`); every asker's data arrives unless something went wrong for it or for 2222 (`EveryAskerServed`) |
| `async_logging` | 1 caller with 4 lines, queue bound 1, 1 failed write, 1 spurious wake-up | types; mutual exclusion across `wait`; order, no loss and no duplicate (`InOrder`); what is missing after `stop()` is charged to failed writes (`JoinDrains`); every queued line is tried, but a report that comes too late and the rest of a last block at its limit (`EventuallyTried`); `stop()` returns or starves in one of two ways (`StopReturnsOrStarves`) |

**Why the bounds are enough.** Chunks of two bytes distinguish empty, partly
filled and full. Four chunks and three files give lists with another file's chunk
before, between and after a file's own, lists that merge (a list reaches a chunk
that is the head of another slot), and a full disk. Three chunks and writes of up
to two chunks reach both branches of the allocator, both of its modes, duplicates,
cycles and the hang. Two deaths allow a death, a reload, a write over the
remains, and a second death. For the logger a bound of 1 puts the queue below,
at and over its limit, and four lines fill one batch past the limit while another
is being written; one failed write is enough to make the logger its own caller.
One calling thread is what EdgeFS has, and `JoinDrains` says more for it: with two,
both may find the queue short of its limit and then fill it beyond what the last
block writes, so that lines are lost although no write failed. Two callers of two
lines each were checked as well (without spurious wake-ups, some 100 000 states), and
one caller with five lines and two failed writes, with the same answers.

For the start, two deaths and one failing call allow every pair of causes that
`NoSilentLoss` names (each of its disjuncts is reached), and a death during the
start that follows a death. The small sizes keep the relations of the real ones: a
head of several bytes, chunks aligned, clamped from below and from above.

For the probe two IPs are what the symmetric question compares; the proofs cover up
to five. Two starts allow an exit and a return in the middle of a question. Ids two
back are answers to an earlier attempt and to an earlier question. For the rendezvous
two askers share the server's list and the one receiver; one fault is one restart of a
device (a second entry in the list, with the old address or a new one), one repeated
ping, or one loss at any point, and the other asker goes on undisturbed. Over TCP two
turns (`Retry` = 3; the code has nine, from 10) are a last one and one before it, which
is all the loop distinguishes. The askers are alike, so in both runs the faults of one
of them and of 2222 stand for all (`Failing`). Over TCP, with one fault nobody but 2222 is sent a punch command, so that an
asker's own `conn_read_cb` has nothing to do.

**What `edgefs_append` assumes.** Its writes need at most one new chunk. A request
for two or more can be given the same chunk twice (`edgefs_duplicates`), after which
nothing in that list of properties can hold; the run shows that everything else
about the write path is right. `edgefs_faults` has no such restriction.

**Deadlock** is checked in `edgefs_append` and `edgefs_init`. It is off in `edgefs_faults`, where a
write on a cyclic list never returns, in the violation runs, in
`async_logging`, where the program ends (and `stop()` may really starve), in
`nat_probe`, where the probe ends and the starts are bounded, and in
`punch_hole_udp` and `punch_hole_tcp`, where each peer asks once.

**Fairness.** `EdgeFS` is checked for safety only: it has a single thread that does
what its caller asks. In `AsyncLogging` a thread that can run does (weak fairness
on the logger's and on `stop()`'s steps), and a mutex that is free again and again
is obtained in the end (strong fairness on the acquiring steps of the logger, of its
reports and of the callers). Nobody is obliged to log, to call `stop()` or to wake
spuriously, and a write may fail at any time. In `EdgeFSInit` a running `initFS` goes
on (weak fairness); nobody is obliged to start one, so `RestartMounts` supposes that
starts keep coming. In `NatProbe` the client goes on (weak fairness): `recvfrom` returns
because its socket has `SO_RCVTIMEO`. Nothing is asked of the network or the server.
In `PunchHoleUdp` event loops run, sleeps end, and what is on its way is read or
dropped by a router. One weak fairness condition on the disjunction of these steps is
enough, and weaker than one for each process: every behaviour of the model is finite
(each device asks once and every datagram is read once), so a system that goes on as
long as it can takes every step that stays possible. `PunchHoleTcp` is fair in the same
way to its loops, its threads and TCP's refusals. `ListenerAccepts` is not in it, and
neither is any fault: they may happen, and need not. Its one assumption on time is in
`Fails`: the last turn of an end does not fail while the other end is still on its way
to a first or next turn that would reach it (`Coming`). Nine turns with pauses of twenty
seconds take minutes, the way from the server fractions of a second.

## 4. Findings

* **One chunk twice** (`Bitmap.cpp:69`, run `edgefs_duplicates`). The random search
  rejects chunks whose bit is set but not those it has drawn for the same request.
  A request of two chunks may get one chunk twice; the second turn overwrites the
  first, and `write()` reports every byte.
* **Link before the data** (`EdgeFS.cpp:463`, run `edgefs_failed_write`). The list's
  last chunk is linked to the new one before the data write, and the link stays when
  that fails. The list then leads to an unused chunk whose `m_nextChunkid` is 0, from
  `memset`, not `kInvalidChunkid`: a later walk continues at chunk 0 or goes round.
* **Read past the end** (`EdgeFS.cpp:674`, run `edgefs_read_past_end`).
  `calcReadVariable` computes the length written to the last chunk and does not use it.
* **Memory that does not cover** (`EdgeFS.cpp:125`, run `edgefs_init_memory`). The
  number of chunks is computed from the memory without room for the bitmap and again
  from the rounded-down chunk size; a configuration is refused for want of memory unless
  the chunk size was clamped up to its minimum.
* `RestartMounts` and `NoSilentLoss` document what a start can leave behind: an empty
  index file, which kills every later start (`IndexMgr.cpp:20`), and metadata of data that
  was cut or unlinked (`EdgeFS.cpp:66`, `DataMgr.cpp:26`), which a later start mounts.
* `StopReturnsOrStarves` documents that `stop()` need not return: it sets `m_isStop`
  and notifies without the mutex, so the notify may precede the wait; and the block
  after the loop waits on an empty queue with nobody left to notify.
* **A restricted cone is reported as a full one** (`nat_probe_client.c:473`, run
  `nat_probe_restricted`). The symmetric question sends to two IPs of the server. The
  full-cone answer leaves from the second of them, which a restricted cone now lets in;
  so the full-cone question succeeds and the restricted one is never asked.
  `src/NatProbe/ReadMe:8` lists `RESTRICTED_CONE_NAT` among the types detected. (The
  comment at `nat_probe_server.c:271`, same port and another IP, does not describe line
  272, which takes the other port of the other IP; with the same port a port-restricted
  cone would be taken for a full one as well.)
* **A second ping hides a device** (`p2p_transfer_server.c:46`; no run of its own). The
  server adds an entry for every ping, and the search stops at the second match of
  either device. When 2222 has pinged twice since the asker registered, the asker is
  not found, 2222 is told to punch to the zero address, and the asker gets the older
  of 2222's two addresses. `LookupFinds` states the cases in which this does not
  happen; the source has a TODO for the missing test. Over TCP it is the same
  (`p2p_transfer_tcp/.../p2p_transfer_server.c:110`).
* **Over TCP a query can stop the server** (`p2p_transfer_server.c:222`; the cases are
  the disjuncts of `ServerSurvives`). The command for the device asked for is sent before
  the test that it was found (line 236), through a pointer that is asserted not to be
  NULL: an asker that comes before 2222 has registered ends the server for everybody.
  With an entry whose connection has ended the pointer is to freed memory (line 296).
* **Over TCP a rendezvous may be lost without a sign** (`AskersReturn`, `ThreadsEnd`,
  `EveryAskerServed`). A query that arrives with the ping before it stays in the server's
  buffer (`conn_read_cb` takes one message), and the asker waits in `recv()` for good,
  its whole loop with it. When the other end's listener takes the connection, an asker
  reports "p2p send success" although nobody reads, and a thread waits in `recv()`.

## 5. Proofs

`EdgeFSProofs` proves, for every number and size of chunks, every set of files and
hash function, every set of write lengths, with faults and any number of deaths:

| Theorem | Statement |
|---|---|
| `Invariance` | `Spec => []IInv`, the inductive invariant |
| `TypeCorrect` | `Spec => []TypeOK`; in particular `m_idleLen` stays in 0..chunkSize though it is computed by unsigned subtraction, and no link leaves the chunk array |
| `UsedMarked` | a chunk in use is marked in the bitmap, between any two stores |
| `OwnsTargets` | what `write()` looked up is still true when it acts on it |
| `Isolation` | no step of a write changes bytes, length, owner or use of another file's chunk |
| `OwnedUsed` | a chunk with an owner is in use, between any two stores |
| `LeakBounded` | the chunks marked but owned by nobody are at most as many as the deaths |

*Assumptions*: those declared in `EdgeFS` (`SizeAssumption`, `FilesAssumption`,
`HashKeyAssumption`, `WriteLensAssumption`, `FaultAssumption`), which TLC evaluates
in every run.

*The inductive invariant* is `TypeOK /\ UsedChunkMarked /\ OwnedChunkUsed /\
WriterOwnsTargets`. Isolation is not inductive: that the chunk about to be filled is
not another file's rests on the allocator having returned chunks whose bit is clear,
which are free by `UsedChunkMarked`, and on those staying free or the file's own until
their turn, which is `WriterOwnsTargets` (with duplicates, a chunk later in the list
may already have been filled for the same file). The tail is the file's own by the
lookup, and in use by `OwnedChunkUsed`, which `WriterOwnsTargets` needs to say that
the room computed for it is the room it has. Both middle parts hold in the middle of
the stores because of their order: the bit first, the sha1 after `m_isUsed`.

*The argument*: lemmas bound the arithmetic (`NeedChunkNumType`,
`LastChunkWriteLenRange`), show what the allocator can return
(`IdleChunkidsFree`), and what the data write and any prefix of the stores change
(`BytesLandEffect`, `StoresEffect`); one lemma per action shows `IInv` and
`OthersKept` for the step; `NextStep` joins them. `LeakBounded` rests on `LeakedStep`:
only a death inside `WriteChunk`, between the store of the bit and that of the sha1,
adds a chunk to the lost ones, and only the one being filled.

`EdgeFSReadProofs` proves, for every number and size of chunks, every set of files and
every hash function:

| Theorem | Statement |
|---|---|
| `RefusedWhenFull` | `write()` answers -1 only when fewer chunks are free than it needs; with faults and deaths, for requests of any length |
| `InPlaceKept` | `Spec => []InPlace`, the inductive invariant of the lists and their contents |
| `ListsAlwaysEnd` | every list that `read()` or `write()` follows ends |
| `LastChunkPartial` | only a file's last chunk has room |
| `TakenReachable` | every chunk marked in the bitmap is gathered by `read()` for its file |
| `ReadsBack` | every range of what `write()` reported is returned by `read()`, byte for byte, and its first bytes when a read of the data file fails |
| `AppendsOnly` | `Spec => ImplementsAppendStore`, the refinement |

*Assumptions*: `RefusedWhenFull` needs those of `EdgeFS` only. The others assume
`Faultless`: data writes do not fail, the process does not die, and no request is
longer than a chunk. That is what the run `edgefs_append` assumes, and less would be
false: a failed write leaves a link to an unused chunk, a death before or in `WriteChunk` leaves
such a link or a chunk without an owner, and a request for two new chunks may get one
twice (section 4). A request may still fill a tail and go on in a new chunk, so a
file has any number of chunks, with other files' chunks between them.

*The inductive invariant* is `\E rank : Layout(rank) /\ Stored(rank)`. The lists of two
files merge where a list reaches the head of another slot, so the lists do not divide the
chunks among the files. What orders the chunks of all lists is the time at which they
were taken, which the code does not store: `rank` is that order, and a step exhibits
the next one (a new chunk gets the number of chunks used so far). `Layout` says that
taken, used and owned are the same, that a link leads to a chunk of higher rank or to the
chunk about to be filled, that only a file's latest chunk has room, and that each chunk is
on the list of its file. The last is `Leads`: the chunk is in every set that holds the
head and is closed under links, which says reachability without a walk of some length.
`Pending` keeps what `write()` found by its lookup true until it stores. `Stored` says
where the bytes are: a chunk starts where an earlier one of the file ends, full
(`Contiguous`), its bytes are consecutive (`BytesInPlace`), the latest ends the file
(`EndsAtTotal`), and the lengths `write()` computed add up (`PendingBytes`).

*The argument*: links lead forward in a finite set, so a walk ends, and a chunk that
`Leads` reaches is met by the walk; the chunks gathered for a file are therefore all its
chunks, in the order of `rank` (`UsedWalkOnList`, `ChunksFollow`), and the i-th of them
starts i - 1 chunks into the file (`ChunkAt`). `ReadInfo` then cuts the range at the
borders of the chunks (`Covers`, `ReadInfoCovers`), a piece is the bytes of its part of
the range (`PieceOfFile`), and pieces that follow each other join to their range
(`JoinedRuns`). The induction over the turns of a loop is done on the set of turns after
which a fact holds, with `InductionUpTo` of `SetInduction`.

*The refinement*: the content a reader sees is the first `Total(f)` bytes of the file
(`SeesTotal`), in every state, also between the steps of a write. `BeginWrite` maps to
`Request`, `FillTail` and `WriteChunk` to `Extend` by the bytes they place
(`ExtendStep`), `LinkFirst` to a stutter, `Return` to `Done`, or to `Refuse` with the
answer -1, and no other step is possible (`FaultlessSteps`).

`EdgeFSInitProofs` proves, for every set of configurations, all sizes and word widths,
and any number of failing calls and deaths:

| Theorem | Statement |
|---|---|
| `StartInvariance` | `Spec => []IInv` |
| `StartTypeCorrect` | types; the sizes computed from the configuration stay in range |
| `MountedFilesMatch` | a start that succeeds has files of its own configuration |
| `RestartKeeps` | deaths alone cost no data |
| `SilentLossCauses` | the causes of metadata without its data |
| `WholeDisk` | the chunks cover the disk up to less than one |

*Assumptions*: `InfosAssumption`, `UnitsAssumption`, `FaultBounds`. *The inductive
invariant* follows the order of `initFS` (`DataReady`, `IdxReady`) and rests on one
observation: `bitmapSize` is the last field stored and never 0, so a header that has it
is whole, describes the file it is in and is that of an earlier accepted start
(`HeadTells`). A roll-back therefore means that nothing was stored yet, that a call
failed, or that the configuration changed (`RollBackCaused`); losses are traced through
the start that will turn them into one of the causes (`LossAccounted`). `DiskCovered`
is the arithmetic, from two lemmas on division.

`AsyncLoggingProofs` proves, for every set of calling threads, every bound on the queue,
any number of lines, failed writes and spurious wake-ups:

| Theorem | Statement |
|---|---|
| `LoggingInvariance` | `Spec => []IInv` |
| `LoggingTypeCorrect` | types |
| `QueueExclusion` | at most one thread is where the queue is changed or tested under the mutex |
| `LinesInOrder` | what entered the queue is tried once and in the order of entry |
| `StopDrains` | what `stop()` leaves behind is charged to failed writes |

*Assumptions*: `CallersAssumption`, `BoundsAssumption`; fairness is not used. *The
inductive invariant* adds to `InOrder` that the mutex is held exactly by the thread in a
section (`Holds`), that a swap finds the thread's own queue empty (`BatchTaken`), and what
`stop()` can rely on (`StopOrder`): once it was called no caller logs, so in the last block
only reports of failed writes enter the queue (`OnlyReports`). With one caller the queue
passes its bound by one and by two for each failed write at most (`QueueBounded`): the
unlocked test of `log()` may give the wrong answer only while the thread swaps, and then
the queue is empty when the caller gets the mutex, or while a report is pushed.
`LastBounded` carries this bound into the last block.

`NatProbeProofs` proves, for two to five IPs in every order of resolving them, every
kind of network, and any loss, delay, repetition and restart:

| Theorem | Statement |
|---|---|
| `ProbeInvariance` | `Spec => []IInv` |
| `ProbeTypeCorrect` | types |
| `NoOpenerVerdict` | no verdict is more open than the network |
| `SymmetricShows` | behind a symmetric router the two answers differ |
| `OwnSockets` | the index arithmetic only finds sockets the server bound |
| `CleanVerdictGiven` | an undisturbed probe names the network, but for the restricted cone |

*Assumptions*: `IpsAssumption`, `BoundsAssumption`. *The inductive invariant* says that
what carries the id in use belongs to the question and the IP it was made for
(`Current`), and that all ids in flight have been made (`Flight`); so an accepted
answer is the answer to the question asked, and what it passed through says something
of the router (`Answers`). `VerdictIsReal` alone is not inductive: it holds only
because of where the accepted answers came from. `CleanVerdictGiven` adds `Clean`: while
nothing has gone wrong the question that names the network is not passed over, and once
it is asked every attempt has brought its answer, only the full-cone question possibly
lacking the one from the last IP of the server's table (`NamingQuestionAnswered`).

`PunchHoleUdpProofs` proves, for every set of devices and any number of faults:

| Theorem | Statement |
|---|---|
| `Rendezvous` | `Spec => []IInv` |
| `PunchTypeCorrect` | types; no entry and no hole has the zero address |
| `OnlyPingedAddresses` | only addresses pinged from are handed out and sent to |
| `LookupHolds` | when the search finds both devices |

*Assumptions*: `DevicesAssumption`, `AddressAssumption`. *The inductive invariant*
follows an address from the ping (`PeersKnown`: a peer past its ping has pinged from
the address it has now) through the list, the datagrams, the sleeping peer and the
holes. That a punch command is sent to no unknown address rests on the answer's cmd
and the found entry being set together (`AnswerCmd`). `LookupHolds` needs of the
invariant only that the list is one: it is a fact about the loop over it, that the two
entries it stops after are then the asker's and Target's newest (`LeastIndex` gives the
newest, from the library's well-founded order of finite sets).

`PunchHoleTcpProofs` proves, for every set of devices, every number of turns of the
connect loop and any number of faults:

| Theorem | Statement |
|---|---|
| `TcpTypeCorrect` | types; the countdown of `connect_peer()` stays in its range |
| `OneConnectionHolds` | an address pair carries at most one connection |
| `ServerSurvival` | what can end the server |

*Assumptions*: `DevicesAssumption`, `BoundsAssumption`; the timing assumption in
`Fails` is not used. *The inductive invariant* has three parts. `TypeInv` adds to the
types that each fault starts at most one peer again (`IncBound`, so that a new
connection is one of `Conns`), that an end in its loop has a turn left, and that Target
never asks. `HoleInv` is about the two ends of one address pair: nothing has happened
for a connection that is still to come or whose asker has not been answered, an end
whose listener has accepted does not connect, two ends that met had no listener accept
between them, and the two listeners never both accept. `OneConnection` alone is not
inductive: it says nothing of an end that is connecting while its own listener holds a
connection, from where the next step would break it. `CalmInv` is about the time in
which none of the four causes has occurred: each peer's ping is the first thing it
sends and the server reads it before anything else on that connection (`UpOrder`,
`BufOrder`), so the list has one entry for a device and its address is the device's
only connection (`OneEntry`); the search then stops no earlier than at Target's entry
(`LookupFindsTarget`), and that connection is open. It needs `TypeInv` but not `HoleInv`.

*Left to TLC*: every invariant, both action properties and the refinement that the runs
check are theorems. What is not is the liveness, under the fairness of section 3:
`RestartMounts`, `EventuallyTried`, `StopReturnsOrStarves`, `ProbeEnds`,
`RendezvousWorks`, `AskersReturn`, `ThreadsEnd`, `EveryAskerServed`. It needs `ENABLED`
and, mostly, induction over what is left to do, which the provers used here do not do.
The five violation runs are counterexamples, which need no proof.

## 6. Plan

In this order; each item names its module, what it composes with, its run and its
theorems.

1. `EdgeFSRead`: what follows from the refinement for two readers, that bytes once seen
   never change, as an action property with a run, and its theorem.
2. `EdgeFSReadProofs`: which parts of `InPlace` survive failed writes and deaths (the
   bytes of the chunks in use, the layout up to the broken link).
3. A run of its own for the second ping of `PunchHoleUdp`.

Not planned: cJSON, sha1 and the log formatter (vendored or pure formatting),
`StrStream` (no caller), the demos and the build files.
