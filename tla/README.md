# caddy-trojan: a verification development

This directory holds a formal model of [caddy-trojan](../src), the Caddy
plugin that serves the trojan protocol: TLA+ modules translated from its Go
code, TLC configurations that check them on small instances, and theorems with
proofs checked by TLAPS. `PROJECT.json` lists the components, the runs, the
mutants, the code lines that each definition stands for (`map`), the findings,
the hazards and the theorems.

Check a module with `tlc -workers 2 -config X.cfg M`, a proof module with
`tlapm M.tla`.

## 1. The system

| component | code | state | operations | talks to |
|---|---|---|---|---|
| user store, `MemoryUpstream` | `app/upstream.go` 62-241 | map `mm` from key to traffic under a mutex, task channel `ch` (16), worker goroutine, `closed` through the channel | Provision, Add, Delete, Range, Validate, Consume, Cleanup | called by admin requests, tunnels and `App.Provision`; sends tasks to its worker, which calls the persistent upstream |
| persistent store, `CaddyUpstream` | `app/upstream.go` 243-351 | one JSON record per user in a certmagic storage, and that storage's locks | Add, Delete, Range, Validate, Consume | certmagic storage (file system or plug-in, may fail) |
| app | `app/app.go` | upstream, proxy, named proxies | Provision, Start, Stop, Cleanup | loads upstream and proxies, adds the configured users |
| admin API | `modules/admin/admin.go` | none | GetUsers, AddUser, DeleteUser | the upstream |
| CONNECT rate limiter | `modules/handler/handler.go` 64-82, 306-450 | `failState` per remote address under `failMu`, cleanup goroutine, `cleanupDone` | isRateLimited, recordFailure, cleanupTick, Cleanup | called by the handler; clock |
| HTTP handler | `modules/handler/handler.go` | none of its own; a read deadline on an upgraded connection | ServeHTTP (CONNECT and WebSocket) | limiter, upstream, `trojan.HandleWithDialer` |
| listener wrapper | `modules/listener/listener.go` | channels `conns` (8) and `closed`, a goroutine per connection | loop, sniff, Accept, Close | wrapped listener, HTTP server, upstream, tunnels |
| TCP tunnel | `pkgs/trojan/trojan_tcp.go`, `wakeable.go` | two goroutines, copy buffers, `errCh`, three deadlines | HandleTCP | client connection, remote connection |
| UDP session | `pkgs/trojan/trojan_udp.go` | two goroutines, buffers, last address `bb`/`tt`, `errCh`, three deadlines | HandleUDP | client stream, packet socket |
| request header | `pkgs/trojan/trojan.go` | none | HandleWithDialer | tunnels |
| address codec | `pkgs/socks/addr.go` | none | ReadAddr, String, ResolveUDPAddr, ... | header, UDP frames |
| rewound connection | `pkgs/rawconn/conn.go` | the bytes to give back | Read, CloseWrite | listener, HTTP proxy |
| WebSocket connection | `pkgs/websocket/websocket.go` | current message reader | Read, Write, deadlines | handler |
| domain tree | `pkgs/domaintree/domaintree.go`, `BlockDomain` in `app/proxy.go` | tree of labels | Put, Get | `BlockDomain.Provision`, `Dial` |
| outbound proxies | `app/proxy*.go` | next proxy (`pre_proxy`), cipher, device | Provision, Dial, ListenPacket, Close | each other along the chain of pre_proxies, network libraries |
| configuration | `app/caddyfile.go`, `pkgs/x/utils.go` | none | parsers | Caddy |

What is hard, and what correct means, by component:

* **User store.** Callers change `mm` under the mutex and send their task after
  it; sends block on a full channel and panic (recovered) on a closed one; the
  process may crash and starts again from storage. Traffic must be neither lost
  silently nor counted twice, over restarts too; every call must return; a
  shutdown must drain the queue; memory and storage must agree on who is a user,
  though the storage may fail and the worker ignores its errors.
* **Persistent store.** Consume is a read-modify-write under a storage lock, Add
  and Delete take none, everything may fail. Concurrent Consumes must not lose
  updates; a lock must not be kept.
* **Rate limiter.** Requests overlap: several are between the check and the
  record of their failure; records are dropped by three parties. A block must be
  earned within one window, last as long as it says, not be prolonged; the map
  must not grow.
* **TCP tunnel, UDP session.** Two goroutines that each block in a Read and wait
  for each other, and wake each other by deadlines. Half-closes must not cut the
  other direction, the session must end, buffers must not be freed under the
  reader, and the bytes billed must be the bytes delivered.
* **Listener.** A connection goes from the loop to a goroutine and then to a
  tunnel, or over a channel to the server, while Close may come at any time. It
  must have one owner, no left-over deadline, and give back what was read.
* **Request and outbound proxies.** A request goes through a header that may stop
  anywhere, a dial down and up a chain of proxies in which each step may fail with
  the connection already open, and a tunnel. It must end up where its header says,
  be reported once on every way out, release both connections, and lose no byte
  that a proxy has read ahead; a client that has not been validated must not hold it.
* **Domain tree.** Exact labels and two wildcards with precedence and no
  backtracking: what a list blocks must follow from the list, not from its order.

## 2. Modules

| module | models | composed from |
|---|---|---|
| `AccountStore` | accounts (functions from users to traffic) and what Add, Delete and Consume do to one | |
| `AtomicStore` | abstract: a persistent upstream whose operations take effect in one step or not at all | `AccountStore` |
| `Tunnel` | abstract: what a tunnel promises to the one who bills it | |
| `MemoryUpstream` | user store, its worker, start, shutdown, crash, restart; App.Provision's part and the admin calls | `AccountStore` for memory and storage |
| `CaddyUpstream` | persistent store, one step per storage operation | `AccountStore`; implements `AtomicStore` |
| `RateLimiter` | limiter and the CONNECT path around it | |
| `TunnelTCP` | HandleTCP with its peers | implements `Tunnel` |
| `TunnelUDP` | HandleUDP with its peers | `SocksAddr`; implements `Tunnel` |
| `Listener` | listener wrapper with server and clients | |
| `DomainTree` | Put and Get, and the list of BlockDomain | |
| `SocksAddr` | a wire address and the text that `Addr.String` makes of it | |
| `Outbound` | one Dial or ListenPacket through a chain of proxies | `SocksAddr` |
| `Request` | ServeHTTP and the listener's goroutine after the sniff, HandleWithDialer, the WebSocket connection | `Outbound`; implements `Tunnel` as its report |
| `MCRequest` | the chains and addresses of the run `request` | `Request` |
| `MCTunnelUDP` | the addresses of the runs of UDP sessions | `TunnelUDP` |
| `SumTheorems` | lemmas: sums of functions over a finite set, and the induction they need | |
| `*Proofs` | theorems about the module they extend | `MemoryUpstreamProofs` and `CaddyUpstreamProofs` use `SumTheorems` |

The two stores are composed by refinement: MemoryUpstream uses the storage
through the operators of AccountStore, each in one step of its worker, and these
are the steps of AtomicStore (a failed operation is a stutter of it), which
`StorageIsAtomic` proves; CaddyUpstream, whose operations are several steps that
can fail, is shown to implement AtomicStore.
With failures on both sides the composition has no step that one module makes
and the other does not know.

The request's path is composed by stages: `Listener` follows a connection up to
its hand-over to a tunnel, `RateLimiter` a CONNECT up to its acceptance;
`Request` begins at both places and takes the two tunnels as what their modules
show them to be: something that moves bytes in order both ways, ends, closes the
outbound connection and returns what it moved. The part of this that the bill
rests on is `Tunnel`: pieces move up or down one at a time, the end comes once
with a result that says how many, and nothing moves behind it. `IsATunnel` proves
it of TunnelTCP, with what the remote and the client have been given as `up` and
`down`, and of TunnelUDP, with the frames that the reader has counted as `up` and
0 as `down`; `BilledAsATunnel` of Request, with its reports as the results. So the
result that Consume is called with is one that the two tunnels can give.

### MemoryUpstream

State: `mm`, `up`, `chan`/`ch`, `pending[c]` (the Task a caller has made and
will send), `worker` and `task`, `storage`, `tun[c]` (the user whose tunnel a
goroutine serves) and `life`, the stage of the process. The ghosts `consumed`,
`lost` and `deleted` are what properties compare with. `Provision`,
`RestoreKey`, `Restored`, `BootAdd`, `Booted` are Provision in its order (the
replay runs while `u.up` is nil, so that it queues nothing); `Add`, `Delete`,
`Validate` and `Consume` change `mm` in one step (under the mutex), and
`Send`/`SendOnClosed` are sendTask after the unlock. `Apply` is one operation of
the worker, which is `Done` or `NotDone`: either way the worker goes on, and the
ghost `failed` remembers whose record may now differ from memory. Range may skip
a record that it cannot load or all of them (`SkipKeys`). Between the upstream
and the configured users App.Provision loads the proxies (`LoadProxies`), and a
failure there (`LoadProxiesFails`) leaves a configuration that is only cleaned
up. `Crash` can follow any
state, and `Provision` may then start the process with another list of users.
Up and Down are one number: every statement treats them alike. The key of a
user and its password are one value.

### CaddyUpstream

`call[c]` is the call that a goroutine is in, with the value Load gave it. Each
of `AddExists`, `AddStore`, `DeleteExists`, `DeleteDelete`, `Lock`, `Load`,
`Store`, `Unlock`, `UnlockFails` is one storage operation; a failed Store or Delete has taken
effect or not. `env` says which calls may overlap: "quiet" (Add and Delete
alone with their user, as under the one worker of a MemoryUpstream), "shared"
(any), "unlocked" (any, and Lock and Unlock may fail, whose errors lines 329 and
330 drop). A lock whose Unlock has failed is `Abandoned`, for good: how a storage
gets rid of stale locks is its own affair.

### RateLimiter

`failState` as in the code, with integers for times (0 the zero Time);
`req[r]` is where a CONNECT request is: "checking" (past isRateLimited),
"failed", "recording". `Arrive`, `RecordFailure`, `CleanupTick`, `Cleanup` are
the four critical sections of failMu. Constants stand for the limit, window,
cooldown and the clamps of the ticker's interval.

### TunnelTCP

`reader` and `main` are the two goroutines of HandleTCP, `pc` where they are;
`client` and `remote` are what the peers have sent, had read, been given;
`dl` the three deadlines. `CopyReturns` and `AfterCopy` are the code after
main's copyBuffer, with `RemoteEnded`, `TakeResult`, `Drain`, `GiveUp`, `Abort`
its branches. `env` says whether `w` has SetReadDeadline (an HTTP/2 stream has
none), whether Writes on `w` can time out and whether the peers read.

### TunnelUDP

As above with frames: `sent` the frames of the client's stream (whole, with a
bad terminator, cut), each naming an address on the wire (`SocksAddr`), `cache`
the pair bb/tt, `out` where datagrams went, `inbox` what waits at the socket.
`Resolved` is ResolveUDPAddr: the text of the address, since a domain goes
through `Addr.String` (addr.go 164) with its byte arithmetic, and `ResolveFails`
its lookup that fails. An address without a text panics (`ResolvePanics`) in the
reader goroutine, which nobody recovers: it still waits to give main its result,
and then ends the process (`AwaitPanic`), before HandleUDP returns or after. The code never increases `nw`, so the download
traffic of UDP sessions is not billed; `Request` returns 0 for it as the code does.

### Listener

Per connection: `at` (who has it), `go` (its goroutine), `dl` (its deadline),
`n` (the sniff loop's index), `taken`, `replay` and `holes` (bytes read, put
back, skipped by a Read of (0, nil)). `queue` is `conns`.

### SocksAddr, Outbound

`Text` is String with its index expressions in a byte (`Uint8`), `NoText` the
panic. In `Outbound` a call is in hop `at` of `chain` and goes `"down"`, each
proxy asking the next (`Descend`: `asked`), until the innermost one opens the
connection (`Connect`), and then `"up"`, where each hop does its handshake and
so tells its server where to go (`Handshake`: `told`). HttpProxy waits for a
response (`"reply"`), which `ReadResponse` takes together with whatever else has
arrived, as bufio does: `arrived` is what is unread on the connection, `ahead`
what rawconn gives first, with the (0, nil) that it returns once (`Nothing`).
Refusals, failed dials, handshakes, responses and lookups are steps of their own,
and so is the panic of BlockDomain's lookup (`BlockPanics`): a name with a label
"**" below an entry that begins with "**" comes to that entry's nil node
(domaintree.go 84-86). `NilHosts` stands for such names as `BlockedHosts` does for
the blocked ones; which they are, `DomainTree` says. The read lock that Exist then
keeps holds nobody up: nothing takes the write lock once the list is built.

### Request

`pc` is the stage of the request's goroutine, `inbound` and `timer` the client's
connection and its read deadline, `reader` the `Reader` field of the WebSocket
connection, `known` whether Validate accepted. `Upgrade`, `ReadHeader`,
`Validated`/`UnknownUser` are ServeHTTP's WebSocket path; `AcceptConnect` its
CONNECT path after the limiter; a `"tcp"` request is one that the listener's
goroutine has validated. `ReadPart`, `BadPart`, `DialTCP`, `DialPanics`,
`DialUDP` are HandleWithDialer up to its dispatch, `ReadSome` and `ReadFails`
what a Read can do at any of its stages. A Write to a client that has gone loses
what was read and leaves main waiting for the reader (`DownloadFails`, stage
`"drain"`). `Report` is Consume with what HandleWithDialer returned, and the
deferred Closes. The three panics are `DialPanics`, `LookupPanics` and
`TunnelPanics`.

### DomainTree

`node` is the tree as nested functions, `Nil` the nil node of "**"; `store`
and `load` are recursive as in the code. `Known`, `Leads` and `Reaches` are the
reference, written over the list alone.

## 3. What the runs check

Each run answers one question; a passing one finishes its whole state space.
The mutants in `PROJECT.json`, one per property, replace a definition by one
with a plausible bug (an operator marked "Mutant" in the module) and make that
property fail, so each property depends on the code it is about.

**upstream** (`MemoryUpstream.cfg`: one user, an admin, two tunnels, a channel
of two tasks, traffic up to two, with and without persistence).
`TrafficAccountedFor`: each reported byte of a persisted user is exactly once in
the record, on its way, or given up in one of the ways the code has (dropped on
the closed channel, lost in a crash, refused by the storage, no record,
deleted). `UsersAgree`: while the app serves, a stored user is let in or has a
Delete under way, and one that is let in is stored or has an Add under way;
exempt are users for whom the storage failed, and users that were deleted, whom a
tunnel may put back in memory (`deleted_stays_out` shows that). `CallsReturnAndDrain`: no call
stays blocked, and after Cleanup the worker works off the channel and ends,
whatever the storage answers. One user is enough: every operation reads and
writes one user's account, and users share the channel only through its
capacity (`deleted_stays_out` runs with two). Three callers fill the channel of two and leave a
sender blocked behind it, with the worker busy. There is one admin because with
two `UsersAgree` does not hold: the tasks of two requests for one user may be
queued in the other order than `mm` was changed (listed as a hazard). Section 5
says what does hold with any number of them.

**caddy_upstream** (one user, two admins, three tunnels). `NeverOverbilled`
holds in every environment; it bounds a record from above, so it says nothing of
updates that are lost, as they are without the lock or beside an Add or a Delete.
`LockIsReleased`: Consume gives each lock it takes to Unlock on every way out,
failed Lock included; a lock whose Unlock itself fails is exempt.
`ImplementsAtomicStore` (no update is lost) in "quiet" behaviours. Records of
different users do not touch each other, so one user is enough; three tunnels
give a holder, a waiter, and one that releases the lock it never had.

**rate_limiter** (two overlapping requests, two sources, threshold and window
2, cooldown 3, six units of time). `EntryAgeBound`, `BlockIsEarned`,
`BlockNeverProlonged`, `BlockEndsEarlyOnlyByLateFailure`, `UnloadReleases`. The
bound on time covers a window, a block, its end and a clean-up tick after it.

**tunnel_tcp** (two chunks each way, all sixteen environments).
`BuffersOutliveReader`, `TrafficIsDelivered`, `UploadComplete`,
`DownloadComplete`, and `TunnelEnds`, which says for each way to end (the
remote, the client, a broken client) which peers it needs. Two chunks are needed for one to be
delivered before and one after a half-close.

**tunnel_udp** (names of 252, 253 and 254 bytes, three frames; 1.1 million
states). `DestinationIsNamed`: a datagram goes to the host of its own frame, and to
its port up to names of 252 bytes. `BuffersOutliveReader`, `UplinkIsBilled`, both
but for the process that a name of 254 bytes ends; `CleanEndIsNil`, `SessionEnds`
(on silence, and once main is cleaning up). Three frames make an address be cached,
replaced and used again; the lengths are the last that fits, the one with a wrong
port and one that panics.

**listener** (two connections, three header bytes, a channel of one).
`HandedOverOnce`, `SniffDeadlineCleared`, `ReplayIsFaithful`,
`NobodyStaysBlocked` (the sniff, an offer, the loop). Two connections and a channel of one make one
offer block while Close comes; three bytes are a first, a middle and a last index.

**request** (`Request.cfg`: the three transports, sixteen chains of one to four
proxies, two bytes up and three down). Each kind of proxy stands alone or in
front of a direct dial, and before and behind the proxies that it changes
something for: a relay over a relay, BlockDomain before and behind one,
Shadowsocks over each socket. Names have the length 7, or 252 to 255, where
String's byte arithmetic begins to wrap; or are blocked, not parsed, or not
split, or lead BlockDomain's lookup to a nil node; and there are both kinds of IP
address. Three bytes down are one read
with the response, one read ahead by it and one that comes later.
* `PeersAreToldAsNamed`: each server is asked for what the relay before it was
  set up with, the last for the header's address. The address is exact up to names of 252 bytes. With
  253 the low byte of the port is read from the type byte. A
  blocked name reaches nobody when BlockDomain precedes the first relay; behind
  a relay it sees only the relay's server.
* `NothingLeftOpen`: whatever fails, neither connection is left open. Two places
  are excepted because the code does leave it: UnixProxy.Dial after a failed
  handshake and Shadowsocks' ListenPacket after a failed lookup.
* `TrafficReportedOnce`: every validated request is reported once with what was
  moved, unless a panic ends it. There are three: the header of a TCP request
  names a host of 254 or 255 bytes, for which String panics, or one whose lookup
  BlockDomain cannot make (both before anything is moved; net/http recovers them
  in a handler, nobody does in the listener's goroutine); and a frame of a UDP
  session names a host of 254 or 255 bytes, which ends the process from the
  session's reader goroutine, also after traffic has been moved. No WebSocket is
  read again after a failed Read of it, which would dereference its nil Reader.
* `DownloadIsWhole`: the client gets the target's bytes in order, without a gap
  and without a response head, those read ahead included: until a Write to it
  fails, what it has got and what is on its way hold the bytes sent so far, each
  once and in order.
* `HeaderDeadline`: a silent client is dropped before it is validated, and the
  deadline is off once it is, also when it has just expired.

**domain_tree** (lists of up to three entries of up to three labels).
`TreeIsTheList`: the tree is what the list spells out, in any order, and building it
fails only on an entry below "**" (which, put before its "**", is overwritten
instead). `MostSpecificDecides`: lookups against the
reference, and a lookup that panics only for a name with a label "**". `FreedByMoreSpecificOnly`: what one more entry may let through. A
label that entries have, one that they do not, and both wildcards are all that a
lookup tells apart at a level.

Runs that must find a violation, each of something that the repository says of
the code and the code does not do:

| run | what happens |
|---|---|
| `deleted_stays_out` | Validate, Delete, end of the tunnel: Consume writes the deleted user back to memory, where Validate finds it |
| `block_lasts` | cleanupTick goes by the first failure, a block by the last: the record is dropped under a running block |
| `offered_stranded` | after Close the select of an offer may still choose the buffered channel, which nobody reads: the connection is never closed |
| `reader_ends_session` | main's deadline overwrites the one by which the reader interrupts it, and the UDP session lasts until the remotes are silent |

`PROJECT.json` quotes the comments and tests. Each of the four is checked on an
instance smaller than its component's, which is enough for the trace.

## 4. Fairness and assumptions

* A goroutine that can run does run (weak fairness of its steps). A blocked
  channel send has strong fairness: Go's runtime serves blocked senders in order,
  so a send is not passed over for ever.
* An armed deadline expires. In TunnelUDP time passes while main is blocked with
  nothing to read: data that keeps coming keeps a session alive, as in the code.
* RateLimiter's clock does not pass a due tick (`Tick`): the cleanup goroutine
  is scheduled within a unit of time. `EntryAgeBound` needs it.
* The HTTP server accepts until its Accept fails, and Accept on a closed inner
  listener returns an error. Clients and tunnels owe nothing.
* A caller of CaddyUpstream goes on with a storage operation that can proceed. The
  storage grants its lock to anyone waiting; no claim is made about who, and none
  about a caller that waits for a lock whose Unlock has failed.
* `UnloadReleases` is checked with `DrainFirst`: Caddy unloads a handler with no
  request in it. Without that a late recordFailure re-creates the map, and may
  start a goroutine that nothing stops: the property does not see those unloads.
* `TunnelEnds` and `SessionEnds` need a `w` with SetReadDeadline on the ways out
  that wake the reader; `wakeReader` does nothing otherwise. After an ordinary
  half-close `TunnelEnds` needs peers that read: HandleTCP sets no write
  deadline on those paths.
* In `Request` the deadline expires and a Read past it, or of a client that has
  gone, fails. Nothing is assumed of peers: a dial may never return (HttpProxy
  reads the response without a deadline).
* The worker's operations return (with or without an error), and loading the
  proxies does.
* `Close` of the listener is called through net/http, which does so once.
* `Storage.Exists` of certmagic is taken as exact: it has no error to return.

CHECK_DEADLOCK is off where the system stops by itself: a tunnel, session or
listener that has ended, a clock at its bound, a list that is read.

## 5. What is proved

For all values of the constants, from the named `ConstantsAssumption` of each
module. Those assume that keys and callers are finite sets, which they are at any
time: a process has so many goroutines and a storage so many records.

* `SumTheorems` has no state. The library's induction theorems take an operator
  as a parameter, which the provers cannot instantiate, so the inductions here
  are made with sets: a set of naturals has a least element (`LeastNatural`,
  from the library's theorem on well-founded relations), hence one that holds 0
  and each successor is Nat, hence a family of subsets of a finite set that
  holds the empty one and grows by elements holds the set (`SubsetInduction`).
  From it: what `SumFunction` is for one changed value (`SumChange`), one more
  element at the end of a sequence (`SumAppended`), the loss of the first
  (`SumShifted`).
* `MemoryUpstreamProofs`: `TypeCorrect`, from `TypeInv` = TypeOK with what stage
  the worker and the process may be in together (`WorkerInv`, `StageInv`).
  `TrafficIsAccountedFor`: each action moves an amount between two of the places
  that `Balanced` adds up, so the sum stays; the lemmas on sums say so for
  the tasks of the callers and of the channel.
  `UsersAgreeWhileUndisputed`: UsersAgree holds of every behaviour in which no two
  calls are at the same time about to send an Add or a Delete of the same user
  (`Undisputed`, the condition without which the code does not promise it).
  It is not inductive: what a stored record will be depends on the order of the
  tasks for it. `AgreementInv` gives for each user the last Add or Delete that is
  on its way, looking at the callers first (there is at most one such
  call, and it comes after everything queued), then at the channel from its end, then
  at the task in the worker: if there is one, it is an Add exactly when memory
  lets the user in; if there is none, storage and memory agree.
  `UsersAgreeWithOneAdmin` discharges the condition when there is only one admin:
  a task of Add or Delete that waits to be sent is then that admin's.
  `StorageIsAtomic`: the storage changes by steps of AtomicStore only, with the
  amounts that connections report (`ReportedInv`: the stored totals replayed at a
  start are in no task). CaddyUpstream's `Refinement` is of the same AtomicStore:
  the operations that the worker relies on are those that CaddyUpstream, in
  "quiet" behaviours, carries out in one step or not at all.
  `NoTaskIsAbandoned`, from `ServedInv` (u.up, the channel and the worker are there
  together, and the worker ends only on a closed and empty channel): a call that is
  to send has a worker that receives, or finds the channel closed.
* `RateLimiterProofs`: `TypeCorrect`, `AgeBounded`, `NeverProlonged`,
  `EarnedBlocks`, `EndedByLateFailure`. Age needs
  that every record has a first failure, that a record is not younger than the
  clock, and that while there are records the loop runs and its next tick is at
  most an interval ahead; then Tick cannot pass the age at which the tick drops the
  record. `NeverProlonged` follows from the type invariant: a running block was set
  once, and a window that restarts it clears it; it assumes Threshold > 1 (the
  code's is 5), because at 1 the same failure would set the next block.
  `EarnedBlocks` adds `EarnedInv`: the failures that a record has counted are the
  last ones of its source, none of them before its first failure, however often
  the record was dropped and made again. `EndedByLateFailure` adds `PassedInv`:
  whoever is past isRateLimited passed it before the block of its source began,
  because a running block lets nobody pass and one that is over is dropped by the
  next request that comes. `UnloadedForGood`, from `Released`: after an unload with
  no request running there is no record, nor a step that makes one, and a goroutine
  that runs has its channel closed.
* `TunnelTCPProofs`: `TypeCorrect`, `NoUseAfterFree`, `BilledAsDelivered`, from
  `TunnelInv` = TypeOK, `HandOver` (the reader is done exactly when main has
  taken its result: it is then in a later round, draining or done) and `Counts`
  (each goroutine's counter is what its peer was given). `UploadIsComplete` and
  `DownloadIsComplete` add `UploadInv` and `DownloadInv`: as long as nothing has
  cut a direction short, what its sender sent is unread, in the one buffer or
  delivered, its goroutine stops only at the end of the stream, and the
  deadlines that could fail it are not set (upload) or lead to the drain loop
  (download). `IsATunnel` adds to `TunnelInv` that only the two Writes deliver and
  that main is at none of them when it returns. `NoWakeUpIsLost`, from
  `PeerIsWoken`: a reader that offers its result has set a deadline on rc, a main
  that waits for it one on the client's connection (if that has deadlines), and
  neither the drain loop nor the other's own deadlines take it off again.
* `CaddyUpstreamProofs`: `TypeCorrect`, `Refinement`, `NoOverbilling`. The
  invariant of the refinement says that
  a Consume between Lock and Unlock holds the lock, that what it has read is
  still the record, that what an Add has not found is still missing and that an
  Add or Delete is alone with its user, all in "quiet" behaviours. With it
  every step of CaddyUpstream is a step of AtomicStore or a stutter.
  `NoOverbilling` is for all environments, those without a lock included: `Covered` says
  that what is in the record, or what a Consume has read of it, together
  with what calls have yet to add does not exceed what was reported.
  `NoLockIsLeft` and `MutualExclusion`, from `LockInv`: who holds a lock is a
  Consume with its Unlock to come, or one whose Unlock has failed (in every
  environment, also one in which Lock failed and the Unlock is of somebody else's
  lock), and where Lock works a Consume
  between Lock and Unlock is the holder.
* `TunnelUDPProofs`: `TypeCorrect`, `NoUseAfterFree`, `SentAsNamed`,
  `UplinkAsSent`, from `SessionInv` = `HandOver`, `Counts` (nr is the number of
  datagrams sent, plus one from the header to the WriteTo), `Cached` (tt is what
  bb resolves to, the address of the frame in hand) and `Named`; what a name
  that fits resolves to comes from the definition of `Text`, for names of any
  length; `CleanEnds` from
  `Blamed`: without a fault there is no error anywhere, and main's own timeout is
  gone when it returns. `IsATunnel` as for TunnelTCP; `WaitsAreBounded`: main reads
  rc only under a deadline and waits for the reader only after it has interrupted it.
* `RequestProofs`, for any chains, addresses and amounts of traffic, from
  `HostsAssumption`, `ChainsAssumption` (a chain ends in a proxy that opens a
  connection or refuses), `MaxDownAssumption`, `WireAssumption` and
  `TextAssumption`: `TypeCorrect`, `ConnectionsReleased`, `ReportedOnce`,
  `ToldAsNamed`, `DownloadsAreWhole`, and of `HeaderDeadline` the half that is a
  safety property (`TunnelsHaveNoDeadline`). `ConnInv` says at which stage of the dial and of the request
  each connection may be open; `ReportInv` that nothing is moved before the
  tunnel and nothing reported before the end, and that a failed WebSocket Read
  is never followed by another; with `PeerInv`, a BlockDomain that panics with no
  relay before it was asked for the header's name. For `ToldAsNamed`, `PeerInv` says of each hop
  that the call has reached that it is asked for the server of the last relay
  before it or for the header's address, that what it told is what it was asked, and that a
  BlockDomain that has been passed was not asked for a blocked name.
  For `DownloadsAreWhole`, `WholeInv` says position by position what is unread:
  while a relay is still to be told nothing has arrived, a response that is awaited
  has nothing read ahead in front of it and only bytes behind it, and from then
  on what rawconn gives first and what follows go on where the client's bytes end.
  `BilledAsATunnel` uses `ReportInv`.
* `ListenerProofs`: `TypeCorrect`, `OneOwner`, `DeadlineCleared`,
  `RewoundAsRead`. `ConnInv` says for each place of a goroutine who has the
  connection, that the index is the bytes read and skipped so far, and that no
  sniff deadline is left from the check on; `QueueInv` that the channel holds
  the queued connections once each. `NoConnectionIsLeaked` and `NoEndlessWait` add
  that a connection which is neither handed over nor closed has a goroutine, that
  a sniffing goroutine has a deadline, and that who stops accepting does so because
  the listener is closed.

Every invariant and action property that a run checks is proved, but for
DomainTree's. Only model-checked are:

* all liveness (fairness and ENABLED are out of the prover's reach):
  `CallsReturnAndDrain`, `UnloadReleases`, `TunnelEnds`, `SessionEnds`,
  `NobodyStaysBlocked`, `LockIsReleased` and the second half of `HeaderDeadline`.
  What each of them needs of the state is proved: `NoTaskIsAbandoned`,
  `UnloadedForGood`, `NoWakeUpIsLost`, `WaitsAreBounded`, `NoEndlessWait`,
  `NoLockIsLeft` and `TunnelsHaveNoDeadline` say that whoever waits has somebody or
  a deadline to end the wait; that the end comes is left to the runs, under their
  fairness;
* `DomainTree`: its tree is a nested function of any depth, its operators are
  recursive over that depth, and the prover has no recursive operators.

The invariants were checked with TLC before they were proved: `AgreementInv` on
two keys and one admin, and on two admins with `Undisputed` as a constraint;
`Covered`, `EarnedInv`, `PassedInv` and `WholeInv` on the instances of their runs,
`ReportedInv` and `Atomic!Spec` on that of the user store's; `Abstract!Spec`,
`Billed!Spec`, `TasksAreServed`, `LockInv`, `PeerIsWoken`, `NoneIsForgotten`,
`WaitsEnd`, `Released` and TunnelUDP's `NoEndlessWait` on those of their
components' runs.

## 6. Not modelled

* Inside the proxies: the protocols of SOCKS5, of Shadowsocks' cipher and of
  WireGuard, and how ssPacketConn frames datagrams. The environment's dialer is
  one that passes on what it is asked for.
* App.Stop, which closes the proxies: only WireGuard's device has something to
  close, and nothing in the code orders that against its dials.
* ParseAddr, ResolveAddr and ResolveTCPAddr: pure. What the resolver answers for a
  name: TunnelUDP keeps the name, or the lookup fails. Caddyfile parsing and the module registrations keep no
  state. Listing users only reads.
* Two configurations that overlap at a reload, that is two MemoryUpstreams over
  one storage: which of them serves, and for how long, is decided by Caddy, of
  whose order of steps this repository says nothing. CaddyUpstream is checked
  with any callers ("shared"), as they would be.
* A UDP session asks `ListenPacket("udp", "")`, which BlockDomain passes on: the
  tree is asked for TCP names only.
* Wording of errors, logging, sizes of buffers, values of traffic beyond the sum.

## 7. Plan

1. Done: user store, persistent store and its refinement, limiter, tunnels,
   listener, domain tree; theorems of limiter, tunnels, listener, persistent store.
2. Done: failures of the storage and of the start in `MemoryUpstream`; the
   request from its arrival to its report, the address codec, the WebSocket
   connection and the chain of proxies (`SocksAddr`, `Outbound`, `Request`), with
   the theorems of `RequestProofs`.
3. Done: theorems of `MemoryUpstream` and of sums, of `CaddyUpstream`'s bill, and
   the last invariants and action properties of `RateLimiter` and `Request`.
4. Done: the composition of the two stores, `StorageIsAtomic`.
5. Done: the abstract tunnel that TunnelTCP, TunnelUDP and Request implement; the
   safety parts of the liveness properties, as theorems.
