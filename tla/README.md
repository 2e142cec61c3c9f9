# Cyrenus: a TLA+ verification of the XDP firewall and its daemon

Cyrenus is an XDP/eBPF firewall (`ebpf/xdp_prog.c`) and the daemon that loads
it, configures it, reads what it records, follows the log of Tetragon and
serves a web interface (`src/`).  This directory holds TLA+ models of the parts
where interleavings, order and boundaries decide whether the program is right,
the TLC configurations that check them on small instances, and proofs that
TLAPS checks.  Paths below are relative to the root of the repository.

## Inventory

| component | state it keeps | operations | what is hard |
|---|---|---|---|
| XDP per-source checks (`ebpf/xdp_prog.c:307-500, 545-649`) | one LRU hash map per check, keyed by source address: a date and counters, shared by all CPUs | `check_syn_flood`, `check_dns_amplification`, `check_udp_flood`, `handle_fragment`, the ICMP bucket of `early_filter` | no locks: lookup, load, store and link are separate steps; the element may be evicted, replaced or handed out to another source while a CPU uses it; clock readings of several CPUs; unsigned arithmetic; window boundaries |
| XDP verdict pipeline (`ebpf/xdp_prog.c:502-543, 600-612, 651-879`) | rules, blocked countries, flow table, per-CPU statistics | `xdp_prog`, `early_filter`, `check_geoip`, `apply_rule` | rules looked up one by one while they change; pointers to reused elements; plain increments of shared flows |
| Attack log (`ebpf/xdp_prog.c:212-247`, `src/attack_info.c`) | array of attacks and a count, in BPF arrays | `update_attack_info`, `get_attack_info` | read-modify-write of the count by several CPUs, records copied piece by piece, full array, walk while it changes |
| Thresholds and options (`src/runtime_config.c`, `src/config_handler.c`, `src/api/system.c`) | `runtime_config`, `config_map` | defaults, environment, arguments, file, `POST /settings` | two copies of the same settings; order of sources; failing map updates; a new map at each start |
| WebSocket server (`src/websocket_server.c`) | one message buffer and its id, the id each connection has got | `ws_broadcast_message`, `callback_cyrenus`, the service thread | producers, service thread and connections interleave; one buffer; wake-ups |
| Tetragon monitor (`src/tetragon_events.c`) | position in the log, inotify watch, statistics | start, open, poll, read, process a line | appends between reads, against the watch and in the middle of lines; rotation; failing insertions |
| Statistics thread (`src/main.c:70-120`) | previous totals | once a second: read the per-CPU counters, broadcast | failed lookups, differences of unsigned totals |
| Daemon life cycle (`src/main.c`, `src/bpf_loader.c`) | what is initialised, attached, running | start, failure half-way, signals, shutdown, restart | detached threads use the database and the lws context while they are closed; detaching fails; the attached program outlives the process |
| SaaS uplink (`src/saas_uplink.c`) | none | a thread that sleeps in a loop and sends nothing | - |
| HTTP server and authentication (`src/http_server.c`, `src/api/auth.c`, `src/api/keys.c`) | sessions and keys in the database | login, validate, create and delete a key, the test in front of the protected routes | expiry against the clock; products of days in an `int`; a generator that nothing seeds; a database that outlives the process; a single thread, so requests do not overlap |
| Rules API (`src/api/rules.c`) | rules in the map of the program | create, list, delete | changes while packets look rules up; ports beyond 16 bits; ids that do not parse; a walk that begins behind the first key |
| Security policy API (`src/api/security.c`) | policy files, deployed files, what Tetragon has read | save, deploy and delete a policy, save the configuration | several files and a restart, any of which may fail or be cut short by the end of the process; names that go into paths as they come; nothing is synced |
| Database (`src/database.c`) | SQLite tables | one statement per operation | use during close |
| Web interface (`web/src`) | the lists it shows, a token, a WebSocket | log in, show and edit the rules, block an address, show the events | calls in flight together, refused, answered out of order or lost; messages of the WebSocket against the answers; a daemon that goes away |
| GeoIP, IP lists, traffic API, scripts | none of interest | formatting, constants | - |

How they interact: every packet runs the pipeline, which calls the checks; the
UDP check appends to the attack log; the checks read `config_map`, which only
the settings handler writes.  The HTTP thread reads the attack log.  The
statistics thread and the Tetragon monitor call `ws_broadcast_message`; the
service thread delivers.  Start-up creates the map, the database and the
threads in turn, and shutdown takes them away without waiting for the threads.
The page calls the HTTP server and learns of events from the WebSocket; the map
of rules ends with the process, the database and the files of Tetragon do not.

## Plan

Done: the per-source checks, the flow table and the attack log, the thresholds,
the WebSocket server, the Tetragon monitor, the rules with the verdict pipeline
and the statistics thread, the life of the daemon, and what its HTTP server
offers (sessions and keys, policies, the page); proofs for what holds of the
five checks and the flow table with several CPUs and with one, the attack log,
the WebSocket server, the verdict of the rules, the rate, the safety of the
Tetragon monitor, the life of the daemon and its thresholds, the policies, the
keys, and what the page shows.

Left: liveness of the page.  It asks for nothing again when its WebSocket is
reopened, so all that can be promised needs a message to come.

## Modules

| module | what it is |
|---|---|
| `LruEntry` | what the per-source checks share: the entry of one source in an LRU hash map, the clock, the CPUs |
| `SynFlood`, `DnsAmp`, `UdpFlood`, `FragTrack`, `IcmpBucket` | one check each, EXTENDS `LruEntry` |
| `FlowTable` | the entry of one flow, which is an entry of the same kind: accounting and `is_established_flow` |
| `AttackLog` | `update_attack_info` against `get_attack_info` |
| `SourceChecks` | the five checks, the flow table and the attack log side by side, so that one run covers all; the properties the runs check |
| `DefenseConfig` | the thresholds: defaults, settings requests, `config_map`; state and actions without a specification of their own |
| `Lifecycle` | the daemon from start to end and start again, EXTENDS `DefenseConfig` |
| `LatestValue` | abstract: a register of the latest message that clients observe |
| `WsBroadcast` | the WebSocket server, which implements `LatestValue` |
| `TetragonMonitor` | the thread that follows the log, against a writer and the file system |
| `XdpPipeline` | the rules of a packet, the rules API and the statistics thread |
| `Accounts` | sessions and API keys against the clock; state and actions without a specification of their own |
| `Dashboard` | the page, its calls and its WebSocket, the rules and the events it shows, EXTENDS `Accounts` |
| `PolicyStore` | the policies and the configuration of Tetragon, step by step; state and actions without a specification of their own |
| `Console` | the daemon as its clients see it, killed and started again, EXTENDS `Dashboard` and `PolicyStore` |
| `SynFloodProofs`, `AttackLogProofs`, `SourceChecksProofs` | theorems about `SynFlood`, about `AttackLog`, and about `SourceChecks` with its other checks and the flow table |
| `LifecycleProofs`, `WsBroadcastProofs`, `XdpPipelineProofs`, `TetragonMonitorProofs`, `ConsoleProofs` | theorems |
| `MC...` | instances for TLC |

Definitions whose comment begins with "Mutation" are not part of the models.
Each is a plausible mistake in the definition that follows; replacing that
definition by it makes one of the properties fail, which shows that the
property depends on what the code does there.

### The per-source checks

*State.*  One source address is followed, since each source has its own key.
`entry` is the element linked for the key, or `NoElem`; `mem` is what the
elements hold (`last` is `last_update`, then the counters).  A lookup returns
the element (`cpu[c].elem`, the pointer of the C code), and the CPU keeps using
it: `Evict` (the kernel recycles the entry) and the link of a new element
(`bpf_map_update_elem` with `BPF_ANY`) can happen at any time, and the map hands
elements out again at once, to this source or to any other.  `Intrude` is what
other sources do to an element that this one has linked or a CPU still points
to: their packets store their own counters and date in it, whether it was handed
out to them or is used through a stale pointer of theirs, and a CPU of this
source goes on with what it finds.  `others` counts such stores and what they
have added to the counter, and `Unshared` says that there was none.  Each label
of a CPU is the next statement that loads or stores shared memory;
`cpu[c].now` is the clock reading and `cpu[c].arg` the result of an earlier
load (`time_diff` of the UDP check, the refilled tokens).  `__sync` additions
are one step; all other loads and stores are steps of their own, in the order
in which the code performs them.

*Arithmetic.*  `Tick` advances the clock between any two steps.  Differences of
dates are unsigned (`% U64`), which matters when another CPU has stored a later
date.  The products of 32 bits wrap (`% U32`): the lenient thresholds
(`ebpf/xdp_prog.c:358, 430`), the unanswered SYN-ACKs (line 579) and the refill
of the bucket.  The counters themselves are 32 bits wide too and are assumed
not to wrap: that takes 2^32 packets of one source.

*Inputs.*  The kinds of packets that the check tells apart.  Whether a flow is
established (`is_established_flow`) depends on another map, and a source has
flows of any age: it is part of the packet.

*Histories.*  `received` and `passed` hold dated packets, `opened` the dates
stored with a packet that was let through, of this source or another,
`evicted` whether the kernel has taken an element away.  Only `others` is read
by an action, for its bound.

*Left out.*  `total_size` and `byte_count`, which are written and never read;
output; the record of an attack, which is in `AttackLog`: that a datagram is
recorded changes no verdict.

*The flow table* follows one flow in the same way.  A datagram asks for the age
of its flow with the clock its check has read, then is accounted for: the
counters are loaded and stored plainly, and the element that was looked up is
linked once more, with whatever it holds by then, the counters of another flow
included.

### The verdict pipeline, the rules and the statistics

`XdpPipeline` takes a packet from its arrival to its verdict: counted, screened
by the checks (any verdict is possible: their maps are not in this module), then
judged by the rules, which are looked up one by one.  `linked` is the set of the
elements in the map of rules, `slot` what all elements hold.  A CPU keeps the
pointer of its lookup (`cpu[c].elem`) and reads the action through it in a step
of its own; meanwhile the API may replace or delete the rule, and the element
may be given to another key.  `PostRule` and `DeleteRule` are one step each,
since a request changes the map in one call and requests come one at a time.
`settled` remembers the CPUs whose packet has met no change of the rules for its
own keys, since for the others either verdict is right.  `monitor_thread` copies
the counters CPU by CPU.

### The Tetragon monitor

A file is a sequence of pieces: a line with its newline, one half of a line, a
line that lacks its newline, a newline.  The writer appends pieces, renames the
file and creates another one.  The thread opens, seeks, sets the watch, polls
inotify, and reads lines until `fgets` returns NULL; `Joined` says when `fgets`
returns two pieces as one line, `eof` is the indicator that makes the next call
return NULL although there is more by then.  A line is stored, broadcast,
counted as an alert and counted, in four steps.  The insertion may fail.

### The attack log

`info` is `attack_info_array`, `count` is `attack_count[0]`.  An update reads
the count (`Detect`), copies a record into an element (`Write`) and stores the
count plus one (`Bump`).  A request walks the array with `get_next_key`: it
copies the next element (`Copy`), keeps the copy if it has a timestamp and
packets (`Scan`), and answers at the end, or at once with nothing if there is no
memory (`Refuse`).  A record is about a hundred bytes, and update and lookup of
an array element copy it without a lock; here it is cut in two halves, which are
copied in any order, so that a record can be torn in the array and in the copy.
An attack is its number in the order of detection, 0 a half never written.

### The thresholds

`config` is the daemon's copy, `config_map` that of the program attached last. A
process begins with the defaults (`InitDefaults`), a program with zeros
(`NewMap`).  A request changes some fields (`Post`), then replaces the element,
which may fail (`Publish`); `json_object_get_int` cuts integers to 32 bits
(`Saturated`), and they become `uint32_t` (`Stored`).  `InUse` is what a check
of the program reads at any time.

### The daemon

`main` is the next step of `main()`: each step of start-up may fail and end the
process (`End`), and shutdown takes things away in the order of the code.
`ws_server_cleanup` and `database_close` are three steps each, since the service
thread and the event monitor go on meanwhile: they test a flag, then use the
context or the connection (`ws`, `tetragon`).  `unsafe` collects the threads that
have used what had been taken away; what happens then is undefined, and the
model lets the process go on or be killed.  The HTTP thread handles settings or
a request that uses the database (`query`), and is waited for.

Outside the process there is `attached`: the process, by number, whose program
an interface runs.  Five things about the kernel and the libraries are taken
from their documentation and marked external or said at the definition: a
program attached in the generic mode is refused where there is one already; a
request to detach that names no mode acts on the mode of the driver where the
driver implements XDP (`Native`), and reports success though nothing was
attached there; any request to detach may fail for other reasons, and so may the
lookup of the interface in front of it (`Detach`, `undetached`); SQLite does not
close a connection with a statement in progress; `MHD_stop_daemon` waits for its
thread.

The interface stands for all the options that arguments, environment and file
can give; `InForce` is the order in which `main` reads them.

### What the server offers

`Console` is the daemon while it answers requests: it may be killed
(`Kill`), with the machine (`PowerCut`), and started again (`Launch`).  A
behaviour is about one of four clients, which share nothing but the daemon and
its clock: the rules on the page, the events on the page, the policies, the keys.

*Sessions and keys* (`Accounts`).  A token is the number of the login, since
tokens come from `/dev/urandom`; the value of a key is the number of keys that
this process has generated, since `rand` is not seeded and each process generates
the same ones.  Rows outlive the process; a statement may fail.  `AsInt` is the
product of the days and 86400 in an `int`, and `Expiry` the date that is stored,
`NULL` unless it is positive.

*Policies* (`PolicyStore`).  `store` is the directory of the policies that were
saved, `deployed` the one that Tetragon reads, `enforced` what it has read and
accepted since its last start, `starting` that it has still to read.  A request
is a job: what it asks and its next step.  Its name is what follows in the URL,
and goes into the paths as it came (`src/http_server.c:290`), so it may also
lead to the directory of the copies: `place` says where the first path of the
request ends.  A save opens the file, which empties it, and writes it, which may
leave it `Torn` and is not looked at; a deployment is `cp` (`Copy` empties the
target, `Fill` writes it), then `systemctl restart`, each of which may fail
alone; a deletion unlinks the file, then the copy, whose failure is ignored,
then restarts.  That the restart has succeeded says that Tetragon was started:
it reads its files later (`Read`) and may refuse any of them; others may start
it too (`StartAnew`).  `KillJob` ends the job between any two steps.  Nothing is
synced, so after a power failure (`Reboot`) both directories hold anything.  The
configuration takes the same way from a temporary file.

*The page* (`Dashboard`).  `calls` is the set of the calls in flight, since the
page awaits each one and goes on meanwhile.  The server handles one at any time
(`Handle`), unless the session has expired, and its answer is delivered at any
time later, or lost (`Lose`).  `Deliver` is what the page does with it: show the
list, ask for it again after an edit, go on with UDP after TCP, or leave for the
login page after a 401.  `message` is the message of the WebSocket that the page
has not seen, as in `LatestValue`: the next one replaces it.  `fresh`,
`elsewhere` and `missed` are histories for the provisos of the two properties.
`stored` holds the dates of the events, in whole seconds and 0 for a line without
a time (`src/tetragon_events.c:131-139`), since the page asks for the newest 50
only (`EventLimit`), and among equal dates the query may choose.

### The WebSocket server

One step per statement that touches shared state: a producer locks, fills the
buffer (two steps: it is torn in between), increments the id, unlocks; the
service thread accepts connections, delivers when the socket has room, and
between calls of `lws_service` copies the id under the lock and asks for
callbacks.  libwebsockets is modelled from how the file uses it.  A message is
the number of the call that broadcast it.  `lws_write` may fail.

`LatestValue` promises what a client can rely on: it observes the latest
message, perhaps skipping some, never going back.  `Implements` maps `seen` to
`last_msg_id` and the histories to themselves, fairness included.

## Runs

| run | question | bounds |
|---|---|---|
| `SourceSmp` | what holds of every drop, flow and report of attacks when CPUs interleave | 2 CPUs, 2 elements, 3 packets, 3 clock values, window of 2 ticks, 1 store of another source of a count of 0 or 2 with any date; 2 CPUs that record 4 attacks in an array of 3 |
| `SourceSerial` | that each check drops and limits exactly as its window, run or bucket says | 1 CPU, 2 elements, 4 packets, 6 clock values, window of 2 ticks, no other source, 32-bit numbers below 6 |
| `Lifecycle` | what filters the interface, with which thresholds, what is left behind and what is used too late | 2 processes, 2 interfaces of which one driver implements XDP, every combination of options, 2 fields, 2 requests in each process that give an integer below the smallest |
| `WsBroadcast` | consistency, wake-ups, order, catching up, refinement | 2 producers, 2 clients, 2 messages |
| `TetragonMonitor` | lines overlooked, out of order or never handled | 3 lines, 2 files, lines that fill the buffer and lines that kill |
| `XdpPipeline` | whether the verdict is what the rules say, and the reported rate | 2 CPUs, 2 elements, 2 packets, 6 requests of which 3 are made, 2 reports |
| `Console` | what the page shows, which policies are enforced, how long keys last | 2 logins, 1 address, 2 edits and 1 change by others, 2 events of which 1 is asked for, 1 policy and the configuration with 2 contents, 3 keys for 0, 1, 2, 17 or 33 days with ints up to 15, 3 dates, an hour and a day of one tick each, 1 kill |
| `SynWindow`, `TetragonRotation`, `AttackShows`, `EvictsOldest`, `ArgumentsOverruled` | what a comment, a document or a test says and the code does not do | as above, or the smallest that shows it |

Why the bounds are enough.  Rates are 1 or 2, so two packets more than the rate
fit in a run: one that opens the window, those that fill it, one that is judged
over it and one that follows.  Two CPUs suffice for a CPU that holds an element
while another one unlinks, relinks or resets it; two elements suffice for an
element that is recycled while it is held.  One store of another source, at any
time and with any date, is enough to make a count or a date foreign; the
theorems hold for any number of them.  An array of three records in two halves
and two CPUs let a record be torn by two updates, by an update under the walk,
and in a full array.  The clock passes the end of a window at least once (twice
with one CPU).  An array of three has a first, a middle and a last element, and
four attacks overflow it.  Two messages and two clients allow a message to be
overwritten before it is delivered and one client to be served while the other
one waits; the safety properties are proved for any number of them.  Three lines
allow one to be read before, one while and one after another is processed, and
two files one rotation.  With two elements a rule can be deleted and its element
given to a third rule while a CPU holds the pointer; `RulesDecide` too is proved
for any number.  The moduli are larger than any value a run reaches, except
through the wrap-around they are there for: in `SourceSerial` the lenient
threshold for DNS wraps to a small number and so does the product of two
unanswered SYN-ACKs; among the days of a key there is one whose product wraps to
a negative number (17) and one where it wraps to a small positive one (33).  Two
edits of the rules put up to four calls in flight with the lists they ask for,
two events one before and one after the answer that shows the other, of which
the page may show only one.  One kill meets every step of every request, since
nothing is left of a process but what is in the state.  Two processes are one
that leaves something behind and one that meets it; the options of each are any.

Liveness is checked in `WsBroadcast` and in `TetragonMonitor`.  The fairness of
the first says that threads run, that a thread waiting for the lock gets it in
the end (the others hold it for a few instructions, then wait 50 ms or a
second), that `lws_service` returns, and that an open connection has room again
and again; nobody has to connect, disconnect or broadcast.  The second assumes
only that the monitor thread runs; Tetragon need not write.  No run assumes that
packets arrive, so the XDP models have no liveness.  Deadlock is checked except
in the runs of `TetragonMonitor`, where the thread really ends if there is no
log and the writer may stop, of `Lifecycle`, where after the last process has
ended there is none, and of `Console`, where users and clients need not go on;
`Finished` is the end of a run of the per-source checks and of the pipeline.

### What the properties say

Per-source checks, several CPUs: a SYN, datagram, fragment or ICMP packet is
never dropped before as many packets as the limit were sent by the source, or
counted by others in an element it shared with them (`SynDropsNeedRate`,
`DropsNeedBurst`): counters may lose increments and be reset late, but never
overstate what passed through them.  A source is never shut out: shortly before
any drop for the rate a packet was let through that stored the date of the
window in that element, of the source or of another that the element was handed
out to (`SynNotShutOut`, `DnsNotShutOut`).

One CPU, and an element that no other source is handed: a drop is justified by a
second in which the source exceeded the threshold, and fragments are dropped
exactly when their run is too long (`DropsJustified`); what passes in a second
is at most twice the rate, of DNS packets twice the rate of new flows and two
large responses (`RatesCapped`); and the bucket conforms and does not starve
(`IcmpConforms`).  The justification and capping properties do not hold with
several CPUs; the run `SynWindow` shows why. The threshold that a drop has
exceeded is the one the code computes, wrapped if the rate is large.

The attack log: the used elements come first (`NoHoles`), no report is shorter
than the one before (`ReportNeverShrinks`), no two records of a report have a
part of the same attack and none has one that was not detected, and while
updates do not overlap only the last record can be torn, and only once the array
is full (`ReportIsGenuine`); a full array and overlapping updates are all that
loses attacks, one for each update that began during another
(`OnlyOverlapsLose`).

The flow table: with several CPUs a flow never shows more packets than it
received and other flows have added to an element it shared with them, although
increments get lost and an evicted element may be linked again
(`FlowCountsAtMost`); with one CPU and an element for itself it shows exactly
what passed, and is established exactly after five seconds (`FlowExact`).

The rules: a packet that reaches them is dropped exactly if the most specific
rule of its source or of its destination says so (`RulesDecide`).  What makes it
hold is that a lookup and the use of its pointer see one rule per key, that a
rule that is replaced is replaced in one step, and that an element is only
reused after the rule it held is gone: then the rules of that packet have
changed.  The reported rate never exceeds the packets that arrived since the
last reading began (`RateIsReal`), unless a lookup of the counters fails: then
the unsigned difference wraps.

The Tetragon monitor: the list of events is in the order of the log
(`StoredInOrder`), the thread never sleeps on lines written since it set the
watch (`NothingOverlooked`), and each line written in one piece is in the end
parsed, broadcast and counted (`Handled`).  A line that the thread meets half
written is lost.

The daemon: while requests are answered the program of this very process filters
the interface (`ServingIsFiltering`), which takes the failures of start-up, the
programs of earlier processes and the order of shutdown to be right.
`LeftBehind` says when a program can outlive its process: after a kill or a
signal during start-up, after a map was not found (`src/bpf_loader.c:68`
returns without detaching), where the driver implements XDP, since the request
to detach names no mode (line 162), or when detaching failed, which is only
reported (lines 50-52, 157-163); and the next start is refused for it in the last
two cases only.  `LateUse` says that no request is cut off from what it uses, and
how early the other two threads may first use what is gone: they may, because
`main` does not wait for them (`src/main.c:338-348`).  `SettingsInForce` and
`MapWasConfigured` relate the two copies of the thresholds, across restarts.

What the server offers: while the last answer is that a policy was deployed and
power has not failed, its copy is what is saved, whole or torn, and Tetragon
enforces no other version of it (`DeployedIsCurrent`): this one, or none if it
has refused it or not read it yet.  A policy is deployed and has no file only
since power failed, since its deletion was cut short, or since a request named
the copy itself (`NoOrphan`); and then no request removes or replaces the copy
but saving the policy anew, its deletion included, unless it names the copy
itself (`OrphansStay`).  A key lasts exactly the days it was asked for, across
restarts, provided that the product fits and no other row holds the same value
(`KeyLastsItsDays`).  When nothing is under way the page shows the rules that
the server lists (`RulesShown`) and the events, but for those no newer than the
50 that it shows (`EventsShown`), provided that the answer to its last question
arrived, and last, and that it was told of what has changed.  The provisos are
the cases in which the page does show something else; each was found by leaving
it out.

### Where code and documentation disagree

- `SynWindow`: at the end of a window the date is stored before the counters
  are reset (`ebpf/xdp_prog.c:587-594`); a second CPU counts onto the old
  counter in between, and drops a SYN of a source below the rate.
- `TetragonRotation`: the log is opened once (`src/tetragon_events.c:346`).
  After the hourly rotation that `docs/tetragon-integration.md:247` describes,
  the thread goes on reading the renamed file.  It also ends for good when there
  is no log at start-up, where the comment at line 404 expects one later.
- `AttackShows`: the walk starts after key 0 (`src/attack_info.c:62`), so the
  first attack is never listed.
- `EvictsOldest`: a full array of attacks overwrites its newest element, while
  the comment and the message say the oldest is evicted
  (`ebpf/xdp_prog.c:225-229`).
- `ArgumentsOverruled`: the second pass over the arguments (`src/main.c:144`)
  finds none left, since `getopt_long` goes on where the first pass ended; file
  and environment overrule the arguments, where the comment at line 135 says the
  opposite.

More were seen while modelling and have no run of their own.  `config_map` is an
array, never empty, so the defaults for an unpopulated map
(`ebpf/xdp_prog.c:192`) are never used; until the first settings request all
thresholds are zero (`MapWasConfigured`).  An alert that another message follows
before the service thread wakes up is never sent (`src/websocket_server.c:109`;
`docs/tetragon-integration.md:136` speaks of real-time alerts).
`unload_bpf_program`, which `include/bpf_loader.h:12` describes as detaching and
unloading, leaves the program attached where the driver implements XDP or
detaching fails.  The lenient thresholds of established flows wrap in 32 bits
for very large rates (lines 358 and 430), and are then stricter than the strict
ones.  Datagrams less than 100 ms apart are never judged (line 343): a flood
that leaves no such pause is let through, although `test_fix6.sh:36-49` sends
one that "should trigger" and takes it for inconclusive that nothing is listed.
Each datagram moves `last_update` (line 376), so the window of the UDP check
does not slide (line 329): its counter covers all datagrams since the last
silent second, and a steady sender below the threshold is dropped.  A rule for
port 0 blocks one protocol, not "all traffic from an IP" (line 525): the key of
a rule holds a protocol, and packets other than TCP, UDP and ICMP never reach
the rules. Of the server and its page: "Blocked" is shown (`web/src/app.ts:328`)
also when both requests were refused; errors of the `/security/` routes are
answered with status 200, since nothing passes on the code of the answer
(`src/http_server.c:270-335`), and so the page takes them for success; the lists
of rules begin behind the all-zero key (`src/api/rules.c:28-32`), so a rule that
is about no valid address hides itself and what comes before it; the page
deletes the TCP rule where the protocol has no name (`web/src/app.ts:262`); a
WebSocket that is opened again asks for nothing (line 19); a key for more than
24855 days is one that lasts for ever, or for a few days (`src/api/keys.c:115`).

## Proofs

The theorems hold for every value of the constants that the named assumptions
of the modules allow (finite sets of CPUs, `NoElem` not an element, a modulus
above the clock, and so on; each is evaluated by TLC in the runs).

`SynFloodProofs`:

- `TypeCorrect`.  Beyond types: past the branch of the failed lookup a CPU
  holds an element.
- `NotShutOut`.  The property is not inductive: it speaks of CPUs about to
  drop.  The invariant `Windows` adds that the date of every element in use,
  linked or pointed to by a CPU, was stored with a packet let through
  (`DatesOpened`), of whatever source, and that every CPU past the test of the
  window has read a clock value within a second of such a date (`InWindow`).
  `FreshIsRecent` is the arithmetic: an unsigned difference below the window did
  not wrap.
- `NoDropBelowRate`.  The invariant `Counted` says that in every element, also a
  recycled one, the SYN counter plus the number of CPUs that run a SYN no
  counter has accounted for yet is at most the number of SYNs received and of
  those that other sources have added (`others.gain`).  It needs the second
  summand: several CPUs may each be about to increment the same counter.  The
  proof counts with the theorems on finite sets.

`AttackLogProofs` has the invariants of the record of attacks.  `Filled`: the
used elements are a prefix of the array and whole, at least as long as the
count, and the index that an update has read lies within it or at its end; so
two updates that overlap cost an attack but leave no hole.  `Reported`: a walk
has kept exactly as many copies as it has passed elements, and the prefix only
grows, so the next report is at least as long.  `Genuine`: what an attack has
written lies in one element (`Once`), so a half that a walk has copied differs
from all that it has still to pass (`Behind`, `Distinct`), and no two of its
copies share an attack (`Unmixed`).  `Serial`: without overlap the record of an
attack is the whole of its element (`Proper`), and only the last element is
written twice; so a copy that is torn is of that one.  `Lossless`: the count,
and what any update in progress will make it, is at least the number detected
less the number of overlaps, up to the size of the array.

`SourceChecksProofs` carries all these over to `SourceChecks`, whose properties
the runs check, and adds the other checks and the flow table:

- `TypesAlways`.  All of them are entries of one kind, so the types are proved
  of an entry in general (`Typed`, with the labels and the kinds of packets as
  parameters; `StepTyped`), and each action only has to show that what it stores
  fits.  `IntrudeTyped` does it for other sources, `RefilledFits` for the refill
  of the bucket.
- `DnsNotShutOutAlways` follows the argument of `Windows`: `DnsWindows`.
- `DropsNeedBurstAlways` has three parts. For the counts of the UDP and fragment
  checks, `Charged` says of every element, also a recycled one, that its counter
  plus the packets that are `Owed` to it (one for each CPU on the way to an
  increment) is at most the `Charge`: the packets received and what other
  sources have added. For ICMP, `IcmpSpending` says that every bucket in use has
  the tokens that the packets `Served` have not taken (tokens plus packets served
  exceed the rate, where what others took counts as served), and so has every
  copy that a CPU is about to store, since plain stores overwrite each other; a
  refill only adds (`RefillKeeps`). The last is the premise `IcmpRefillsAdd` of
  the property: if another CPU has stored a later date, the elapsed time wraps,
  and that earns a full bucket as a rule. With the code's moduli, 2^64 ns are
  1266874889 tokens in the 32 bits of the counter, less what the lateness would
  have earned; at a rate of 100 the premise holds of runs of up to 146 days, and
  beyond it nothing is said.
- `FlowCountsAtMostAlways` counts like `Charged`; an element that is linked once
  more after it was evicted takes its count with it, another flow's too.
- `DropsJustifiedOnOneCpu`, `RatesCappedOnOneCpu`, `IcmpConformsOnOneCpu` and
  `FlowExactOnOneCpu` assume `OneCpu`: `CPU` has one element.  As long as no other
  source is handed the element (`Unshared`, which the properties ask for), nothing
  then changes between two statements but the clock, and the entry by an eviction,
  so the invariants can say label by label what the entry has to do with the
  histories.  None of them restricts the rates or the widths: a threshold that
  has wrapped is the threshold, and a bucket whose refill does not fit the counter
  (`IcmpFits`) is excepted by the property, not by an assumption.
  - A drop is justified (`SynUnshared`, `DnsUnshared`): what has arrived is in
    the order of its dates (`InOrder`), and the counter is at most the number of
    packets that arrived since the window opened.  All of them lie in the second
    that begins at `last_update`, and so does the packet that is dropped.  The
    source's element is followed even when it is evicted under the CPU.
  - A rate is capped (`SynPlain`, `DnsPlain`): `Capped` says that the packets let
    through since the window opened are at most the rate, and so are those of
    the second before; whatever second is chosen, it overlaps no more than these
    two when it is still open to new packets.  A rate of zero lets one through,
    since the packet that opens a window is not judged.
  - `FragUnshared`: the count is the length of the run; how the run goes on when a
    fragment is added to it (`RunGrows`) is the same test that the code makes.
  - The bucket (`IcmpUnshared`): `Spent` says of each packet let through that the
    tokens left and the packets since are at most what the bucket held and has
    earned since its date.  A refill keeps it because two times earn no more
    apart than together (`EarnAdds`; the quotients are rounded down), and one that
    wraps earns less.  Nobody starves because a drop leaves the date of the last
    packet let through, and what has been earned since then rounds to nothing, or
    does not fit.
  - `FlowUnshared`: the start is the date of the first packet and the count the
    number of packets, plus one between the increment and the second insertion.
  They do not hold without `OneCpu`: the run `SynWindow` shows it of the first.

`LifecycleProofs`: the invariant says, label by label of `main`, what has been
set up.  `FilterInv`: the program of this process is on its interface and on no
other from the attachment until it is unloaded, and before the attachment
nothing is there unless the driver implements XDP or detaching has failed.
`ServerInv`: requests are handled only while the server runs.  `UseInv`: from
which label to which the connection is live, and that a service thread inside
libwebsockets has a live context until it is destroyed.  `SettingsInv`: a
process that serves has begun with the defaults, and each threshold of the
daemon is one of its configured ones. Together with the types and `LeftBehind`
they are inductive (`Inductive`), and the other properties of the run follow.

`ConsoleProofs`: the policies change only by their own steps (`StepOfPolicies`),
so `PolicyInv`, proved of those alone, holds whatever page, keys, kills and
restarts do.  `JobOrder` says what each step of a request has already achieved:
at the restart of a deployment the copy is there and equals the file; the
restart stops Tetragon, and then it reads nothing but the copy. `OrphanStep`
goes through the steps that write a copy: one whose policy has no file is the
source of none.  `KeyDates` says that the stored date is what was asked for, if
the product fits; rows never change.

For the page, `RulesShown` and `EventsShown` speak of a page with nothing under
way; the invariant `Followed` says what each call in flight will be worth.  Of
the calls for a list one is the latest (`OneLatest`).  `RulesFollowed`: unless
an edit is under way that has perhaps changed the rules (`Editing`), the answer
to the latest call lists the rules as they are, and if there is no such call the
page shows them.  An edit is under way until the page has asked again: the
answer of the server, not its arrival, decides.  `EventsFollowed` is the same,
with the message of the WebSocket in place of the edit, and the newest events,
which a new one can only push out (`NewestLeavesOut`), in place of the rules.
Two lemmas, `AskedEdit` and `AskedList`, do all steps in which the page asks for
something.  The types (`TypesAlways`) need two facts that are no types: a number
that tells a call apart exists (`AddCallAdds`, by the pigeonhole principle), and
the rule about no valid address is never shown, so that what the page deletes is
a rule.

`WsBroadcastProofs`: one invariant `IInv` (who holds the lock, what the buffer
holds in the critical section, which callback is in progress) gives
`TypeCorrect`, `BufferConsistent`, `WakeupNotLost` and `InOrderDelivery`;
`Refinement` shows `Spec => LV!LVSpec`.

`XdpPipelineProofs`: `TypeCorrect`, `VerdictCorrect` and `RateIsRealAlways`.
`RulesDecide` speaks of CPUs that have decided; the invariant `Tracked` says
what a settled CPU has established at each label: which keys have no rule, that
the pointer it holds is of the decisive rule of that end, that the source has
been found innocent once the destination is looked up.  A step of the API keeps
it, because the rules for the keys of a settled packet are kept (`TrackKept`),
and the step that reads the action needs that the map holds one rule for a key
(`OneDecides`). `RateIsReal` compares sums over the CPUs, and a sum defined by
recursion would need an induction over the set.  The proof sums without one:
each packet counted is a mark, a pair of a CPU and a number up to its counter,
and the sum of the counters is the cardinality of the set of marks (`MarksOfOne`
and `MarksMore` are the two steps: a CPU is read, a packet is counted).  The
invariant `Honest` says that all the marks are the packets received, and follows
what a reading is worth, `Seen`: the sum so far and the marks of the CPUs still
to be read.  It grows only with packets, from those received when the reading
began; so a total is never less than the one before, unless that was the 0 of a
reading whose lookup failed, and the difference does not wrap.

`TetragonMonitorProofs`: `IInv` gives the types and the shape of the log (what
is written is at most the line begun, and half a line is followed by its end)
and of the thread (what it holds at each label); `TypeCorrect` follows.  For
`NeverOverlooked` it is not enough to look at the thread asleep: `Awake` says
that whenever there is more behind the end that the reader has met, an event of
the watch is queued, which an append keeps because it queues one itself.  For
`EventsInOrder` the stored events are compared with what is still to come:
`Sorted` says that beginnings of lines are in order in each file, and `Follows`
that each event stored and the one in hand are of lines before all that is
unread; `FurtherOn` is the step of the reader.

Only model-checked is liveness (`CaughtUp`, `Handled` and the fairness part of
`Implements`), which is out of the prover's reach; every invariant and every
action property of a passing run is stated by a theorem.  The proofs do not
depend on a fast machine: every leaf holds in a tenth of the provers' default
time on an ordinary one.

## Not modelled

- The headers `web_app.h`, `web_index.h`, `web_styles.h` and `web_login.h`, by far
  most of the lines under `include`, are dumps of the built page; what is modelled
  is its source under `web/src`.
- The uplink thread does nothing but sleep; GeoIP has a map that is never filled,
  and the handlers of the IP lists answer constants; the tables of the database
  for attacks, IP lists, GeoIP rules and statistics are created and never filled.
- Of the page: charts, forms and the lists of traffic, attacks, settings, keys and
  statistics, which are asked for like the two that are modelled.
- Receiving a body in pieces, choosing a handler by its path, and the formatting
  and parsing of JSON, except where a conversion changes a number.
- `save_attack_info`, which writes a file that nothing reads, and
  `tetragon_stop_monitor`, `tetragon_cleanup` and `rate_limit`, which nothing
  calls.
- The scripts for installation and building.
