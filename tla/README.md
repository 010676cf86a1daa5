# TLA+ models of port

`port` exposes services of a private network on a public server. A client inside the private network
keeps one multiplexed (smux) connection to the server; visitors reach ports or virtual hosts of the
server and are joined, stream by stream, with local services of the client.

This directory models the server's control plane and registry, the data plane between server and
client, the client process, and the way of the bytes of one visit. It states what makes them
correct, checks it with TLC on small instances, and proves every safety property that the runs
confirm with TLAPS for every size. What is left to TLC alone is liveness.

## 1. Inventory

| component | state | operations | how it interacts |
|---|---|---|---|
| sessions (`server/session.go`, `server/server.go`) | `Server.sessions`; per session `conn`, `closeOnce`, `proxies` | `handleControlConn`, `login`, `controlLoop`, `Close`, `dropSession`, shutdown in `Run` | one goroutine per connection; `Server.mu` guards the tables; `Close` may be called by the handler, by a newer login of the client, and by `Run` |
| proxy registry (`server/proxy.go`, `server/server.go`) | `proxies`, `byPort`, `vhost`, the listeners, `Session.proxies` | `registerTCPProxy`, `registerHTTPProxy`, `closeProxy`, `removeProxyLocked`, `allocPortLocked` | called from control loops and from `dropSession`, always under `Server.mu` |
| data plane (`server/server.go`, `session.go`, `vhost.go`) | `Proxy.visitors` (capacity 32), visitor connections, data streams | `proxyAcceptLoop`, `handleVhostConn`, `deliverVisitor`, `handleDataStream`, the drain in `removeProxyLocked` | visitors, streams and removals meet at the channel without a lock; notifications go over the control stream |
| client (`client/client.go`) | `session`, `writeCh`, `proxies`, `pending`, `reqSeq` | `Run`, `runOnce`, `controlLoop`, `writerLoop`, `pingLoop`, `registerProxy`, `closeProxyRPC`, `handleWorkConn`, `Reload` | five kinds of goroutines share one connection; `Reload` runs on SIGHUP |
| timing | read deadlines, ping ticker, backoff | heartbeat 15 s / 90 s, reconnect 1 s to 60 s | both ends |
| relay (`mux/mux.go`, `vhostConn`) | two copy loops | `Join`, head replay | both ends |
| wire format (`proto`), authentication (`auth`), configuration (`config`) | none | framing, HMAC with clock window, port ranges, set comparison | used by both ends |
| dashboard (`server/dashboard.go`) | none of its own | `snapshot` | reads sessions and proxies under `Server.mu` |
| logger, commands, scripts | the client's SIGHUP channel | start-up, reload, restart | `main` of the client drives `Reload` |

What is hard here: several goroutines close one session (`sync.Once` with waiting); a login replaces
a session whose control loop still runs; five tables must agree; visitors enter a queue while it is
drained; notifications are anonymous, so streams and visitors are matched only by count; the
client's channel is closed while others send; reloads overlap with reconnects.

What correct means, by component:

- sessions: the table leads to live sessions only, none is forgotten, nobody waits forever for
  somebody else's `Close`, and an ended session holds nothing;
- registry: tables agree, an endpoint belongs to one proxy, only whitelisted ports are bound, a
  repeated registration succeeds;
- data plane: a visitor is in one place, it is served or closed, and none is left without a
  notification;
- client: no panic, every call returns with its own answer, a dead connection is left, and the
  server ends up with the configured proxies;
- relay: no byte lost, reordered or invented, exact counters, both ends closed;
- dashboard: what it lists is so, and it leaves nothing out without reason.

## 2. Modules

| module | models |
|---|---|
| `GoMap` | Go maps as functions: `Put`, `PutAll`, `Del` |
| `Exposure` | abstract specification: leases of ports and hosts |
| `Registry` | control plane and proxy registry |
| `MCRegistry` | instances of `Registry` for TLC |
| `RegistryProofs` | invariants of `Registry`, and that it implements `Exposure` |
| `Visitors` | data plane of one session |
| `VisitorsProofs` | invariants of `Visitors` |
| `Client` | the client process: connections, RPCs, reload, restart |
| `MCClient` | instances of `Client` for TLC |
| `ClientProofs` | invariants of `Client`, up to what the server has when the client is at rest |
| `Reconnect` | the waits between connection attempts |
| `ReconnectProofs` | bounds and growth of the waits |
| `Relay` | the bytes of one visit, from visitor to local service and back |
| `MCRelay` | instances of `Relay` for TLC |
| `RelayProofs` | invariants of `Relay`: transparency, counters, the last word |

The definitions named "Mutant" in the comments are deliberately wrong variants of the definition
that follows them. No specification uses them; with one put in place of the original, the property
it belongs to must fail.

### Registry

A session is one control connection. `pc` is where `handleControlConn` is: `new`, `login` (TLS,
smux, first frame, authentication), `kick` (in `old.Close()`), `greet` (writing LoginResp), `serve`
(`controlLoop`), `close` (its own `se.Close()`) and `gone`. Everything the code does under
`Server.mu` is one step. `Session.Close` takes two steps, `DropSession` and `CloseConn`, because
other goroutines see the state between `dropSession` and `conn.Close`; `once` names the goroutine
that runs the body, and every other caller waits until the connection is closed, as `sync.Once`
does. `inbox` counts control frames that smux has buffered: they are handed out even after the
connection was closed. What a frame contains is chosen when it is handled.

`HandleNewProxy` is the whole branch of the control loop: checks, tables, listener and answer.
`net.Listen` can always fail. Client ids and names are sequences of the segments between slashes,
because `proxyKey` joins them with one: the concatenation makes the same keys coincide as in the
code. Hosts are sequences of DNS labels; `normalizeHost` folds case and drops one trailing dot.
Removing a proxy here touches the tables and the listener; that its queued visitors are closed is
part of `Visitors`. `snapshot` is what the dashboard shows: it runs under the lock, so it is a
function of the state and needs no action.

`Exposure` knows neither sessions' connections nor names' keys: a proxy without endpoints gets a
free port or a set of free hosts, and proxies of one session lose all they have at once. The
refinement maps `byPort` and `vhost` to leases of the owning session and name.

### Visitors

One session with its proxies. A proxy object is `<<name, i>>`, the i-th registration of a name; late
goroutines may still hold an object whose name was registered again. `acc` follows the goroutine
that accepted a visitor: `arrived` (has the proxy object), `notify` (in the queue, not yet
announced), `done`. `deliverVisitor` takes no lock between enqueueing and announcing, so these are
two steps with anything in between. Notifications, client goroutines and streams are anonymous and
are counted per stage. A unit may get lost at each of them: the client gives up (`GiveUp`, the early
returns of `handleWorkConn`), the server cannot read StreamMeta and closes the stream of a proxy
that is registered (`StreamRejected`), or the server closes the connection before a notification is
read (`NoticeLost`). `lost` counts these; it is history only. Registration is possible even after
the session was dropped, because the registry allows it (section 4, `registry_kick`).

### Client

`run` follows `Run` and `runOnce`: `dial`, `list` (logged in, about to copy the proxy map), `reg`
(registering), `wait` (for the control loop's error), `unwind` (channel closed, ping loop not yet
stopped), `clear`, `backoff`, and `crashed` after a panic. `cn` is the latest connection with its
goroutines (`ctrl`, `writer`, `pinging`) and its write channel; earlier channels are all closed, and
a caller that still holds one only has its number (`call[g].ch`). `registerProxy` runs in two
callers, `runOnce` and `Reload`, each with a record in `call`: reading `c.writeCh`, sending, and
waiting for the answer are steps of their own, because the connection can be replaced in between.
`rl` follows `Reload`: `check` (map replaced, session not yet looked at), `new`, `reg`, `old`. `hup`
is the signal channel of capacity 1.

Of the server, the model has what each session of this client has registered: `net.table` for the
latest one, `past[k].table` for what the k-th left over. A message is taken from the channel when
the server handles it (`ServeNewProxy`, `ServeCloseProxy`, `ServePing`); until then it is under way.
When `writerLoop` fails, the messages it had written stay in `cn.sent` and may still be handled;
`Inbound` is what the server may still get. `registerProxy` is the server's: a name it knows is
answered by `sameConfig`, whoever owns it, so that the answer may be OK for a proxy the asking
session does not have, and NAME_EXISTS for a repeated `remote_port: 0` (`AnyPort`); a new name is
registered if name and endpoint are free, or refused for reasons outside this client. Entries are
records with a name, a type, a local address and an endpoint, so that set difference is
`proxyEqual`. `Panic` is the whole process: all its state is gone, and `Restart` is what systemd
does. `slip` is history: it records whether, on this connection, something outside the client
(`other`) or its own order of requests (`own`) kept a request from taking effect. Without it nothing
could be said about what the server has.

`runOnce` does not close the connection it leaves (client.go:196), and `writerLoop` goes on writing
what the closed channel still holds. `Abandoned` moves these requests to `past[k].inbox`. The next
login drops the session of the old connection, but its control loop may handle such a request
afterwards (`LateNewProxy`, `LateCloseProxy`), and what it registers then nobody releases: the
finding `registry_kick` seen from the client. `Login` therefore starts with an empty table of its
own session next to the left-overs (`Held`), which hold their names and endpoints against it. Late
requests may be handled in any order; one that came before the drop, is refused or never arrives
changes nothing and stays under way. Data streams of the old connection are the subject of
`Visitors`.

`Reconnect` is the same loop seen by its clock: the only facts the code looks at are whether five
minutes have passed since `Run` started, and whether a stop signal came.

### Relay

Three connections in a row, `visitor`, `stream` and `local`, each with two directions and two ends.
Bytes are numbered; those of the StreamMeta frame are negative numbers, so that one that leaks into
the reply is seen. On the vhost side a byte of the request stands for a line: `Fill` is the
`bufio.Reader`, `ReadLine` parses, `head` is what will be replayed. The code limits the head to 16
KiB, looks at its length after each line but the first and the empty one, and has no limit for a
single line; so each visit comes with the number of lines that its lengths let pass (`fits`, any
positive number), and the bound on `head` in `TypeOK` is that of its own visit. The client writes
the frame in two writes (`WriteHeader`, `WritePayload`), either of which may be cut off; the server
reads it with `ReadFrame`, which may get it in pieces and together with data behind it. Each copy
loop of `Join` is a reader and a writer with a buffer: `Read`, `Write`, `ReadStops`, `WriteStops`
(with part of the buffer written) and `closeBoth`. A close may overtake the other loop at any point.
`last` is history: it names the side that closed while nothing of the other side was under way. Who
is joined with whom, and what becomes of a visitor nobody takes, is the subject of `Visitors`.

## 3. Runs

| run | instance | checks | states |
|---|---|---|---|
| `registry_tables` | 2 sessions, clients `a` and `a/b`, 8 requests, 2 ports, 1 buffered frame | `TypeOK`, `Consistent`, `SelfClosedOwnsNothing`, `DashboardTrue`, `ImplementsExposure`, `ReleasedEnds` | 105 932 |
| `registry_logins` | 3 sessions, 1 client, no frames | `HandlerStages`, `TableLive`, `NoneForgotten`, `LoginResolved`, `ShutdownEnds` | 41 136 |
| `visitors` | 3 visitors, 1 name, 2 registrations, queue of 2 | `TypeOK`, `Matched`, `OnePlace`, `ServedUnlessLost` | 164 229 |
| `client` | 2 logins, 1 edit among 4 files, write channel of 1, 1 answer under way | `TypeOK`, `PendingExact`, `OwnAnswer`, `Converged`, `CallsReturn`, `DeadConnLeft` | 593 493 |
| `relay` | 5 visits, chunks of 2, pipes of 2, frame of 1 + 1, 1 failing connection | `TypeOK`, `Transparent`, `CountsExact`, `LastWord`, `EndsTogether` | 328 310 |

What the last three show. `Matched`, `ServedUnlessLost`: a queued visitor of a registered proxy has
a notification or stream on its way or one of its proxy's name was lost, and without such a loss it
is served. `PendingExact`, `OwnAnswer`: over timeouts, reconnects and two concurrent callers, the
pending table has exactly the calls under way, a call gets the answer to its own request, and the
control loop never blocks handing one over. `Converged`: when all is at rest the client's session
has what the file says, whatever edits, signals, reconnects and crashes came before and whatever
frames of earlier connections come in late, unless on this connection a request was refused, lost,
given up on or answered in the name of a left-over of an earlier session, or a reload overlapped
with the first registrations. What the left-overs themselves hold is not claimed. `CallsReturn`,
`DeadConnLeft`: every registration returns, and a connection whose link or writer is gone is left.
`Transparent`: the bytes received and the bytes under way are together, in order, what was sent.
`CountsExact`: the session's counters are the bytes that left the server, also after a write that
failed half-way. `LastWord`: a side that closes when nothing comes the other way loses nothing of
what it sent. `EndsTogether`: the end of one connection of a joined visit ends all.

Bounds. Two sessions suffice for any conflict over a port, a host or a key, and for one kick; the
names and clients are chosen so that keys collide (`a` + `b/w`, `a/b` + `w`) and two spellings name
one host. One buffered frame is enough for a frame to be handled after the session was dropped.
Three sessions of one client are the smallest number for which a login is replaced while it is
closing its predecessor; no frames are needed for that (`Request = {}`). Three visitors and a queue
of two make the queue overflow, and let a failed notification remove a visitor other than its own;
two registrations let goroutines hold an object whose successor is live. `Tcp = {}` in that run:
visitors of an http proxy are delivered concurrently, which includes every order the single accept
loop of a tcp proxy can produce. Two logins of the client are enough for a caller that holds the
channel of an earlier connection, for a late answer, and for a request of the first connection that
is handled after the second login; a channel of capacity 1 is full after one message, so every send
meets both outcomes; the files move a proxy from a port of the server's choice to one of its own,
delete it, or do not load (a name twice). One edit and any number of signals (`Sighup`) make reloads
overlap with everything else; with `MaxEdit = 2` an edit also meets a reload that is changing
something: the invariants hold there too (5 144 073 states), the liveness properties were not run at
that size. `ClientReload.cfg` has the renamed proxy that keeps its endpoint. In `relay` the head (3
lines) is longer than a chunk, a body follows it in the same buffer, the reply of the tcp visit
fills a pipe, and one failing connection meets every combination of closes; the refused visits are
one without a host, one with a bad first line, and one whose head is too long. `MaxInbox`, `MaxGen`,
`BackCap`, `MaxConn`, `MaxEdit` and `MaxBreak` are bounds of the model, as are the contents of
`Visit` and `File`; all others are parameters of the system. Deadlock is not checked because all of
these systems may come to rest (no more connections, everything closed); what must not get stuck is
stated as liveness.

Fairness. `FairSpec` assumes weak fairness of steps a goroutine takes by itself: locks are held
briefly, writes have deadlines (10 s), dials have one (5 s), a read on a connection the server has
closed fails. Nothing forces a client to log in (`AcceptStream` has no deadline), an idle open
connection to end, a session to be dropped, or a joined pair to end. In `Visitors` a notification on
an open connection is eventually read, or the connection is dead and the missing heartbeat makes the
server drop the session (`Timeout`); the same holds for a stream on its way to the server. On a
closed connection a notification need not be read: it is read or lost (`NoticeLost`), and a stream
is placed or rejected. The client's goroutine opens a stream or gives up, and a stream that waits
takes a visitor that is there. In `Client` goroutines run, timers fire and reads on a broken
connection fail; the server closes a connection on which it hears nothing, which is fair only once
the writer has ended (`~cn.writer /\ BreakLink`): a healthy connection need not end, and no login
need succeed. In `Relay` the copy loops run, and the two far programs read what reaches them. The
last is an assumption about those programs: `Join` has no idle timeout, and a peer that stops
reading stalls the pair for as long as it likes.

## 4. Disagreements between code and documentation

Each of these runs checks one sentence of the repository and TLC refutes it.

- `registry_kick`, `GoneOwnsNothing`: "客户端断线即释放端口" (`docs/design.md:95`). A newer login runs
  `dropSession` on the old session while its control loop still has a NewProxy to handle. The
  registration happens after the release, `se.Close()` of the old handler does nothing, and the port,
  listener and name stay taken. `SelfClosedOwnsNothing` is the part that does hold: a session that
  ended by itself holds nothing. The next session of the client meets the left-over: its NewProxy of
  that name is answered OK or NAME_EXISTS without a look at the owner (`proxy.go:63`), and its
  CloseProxy does nothing. `Client` has this case; `Converged` has to except it.
- `registry_repeat`, `Idempotent`: "重复 NewProxy 同名代理直接返回成功" (`docs/design.md:171`). With
  `remote_port: 0`, `sameConfig` compares the allocated port with 0 and answers NAME_EXISTS.
- `visitors_dial`, `QueuedResolved`: "服务端侧访客会在超时后收到连接重置" (`client.go:341`). No timeout
  exists on the server for a queued visitor; after a failed dial it waits as long as the session
  lasts. `ServedUnlessLost` is the part that holds: without such a failure every visitor is served.
- `visitors_drop`, `NobodyHangs`: "服务端立即关闭该客户端所有访客连接" (`docs/design.md:176`). A visitor
  enqueued after the drain and announced before `conn.Close` is never closed.
- `client_panic`, `NoPanic`: "实现并发安全的 RPC" (`client.go:5`). `runOnce` closes `writeCh` before it
  stops the ping loop and before it clears `c.writeCh`; a tick, a registration or a close message in
  between is a send on a closed channel, which ends the process.
- `client_reload`, `ReloadApplied`: "新增/变更的代理即时注册,删除的立即下线" (`client.go:421`). A proxy
  renamed with its port kept is refused, because the deleted name is closed last; afterwards neither
  is registered. `Converged` is the part that holds.
- `reconnect`, `ResetOnlyWhenStable`: "连续稳定运行超过 5 分钟后退避重置" (`client.go:73`). `stableAt` is
  set once, so five minutes after the start every failed attempt resets the wait to its base.

## 5. Proofs

All theorems hold for every value of the constants that satisfies the named assumptions: `Registry`
needs `NoSession` and `Main` to differ from sessions, well-formed port ranges (what
`ParsePortRanges` accepts), non-empty client ids, and lists of domains in requests; `Visitors` needs
a finite set of visitors and a positive queue capacity; `Client` needs files that are sequences of
entries, a value that is no entry, and positive bounds; `Relay` needs positive sizes and a
connection that takes a whole chunk or StreamMeta frame (smux and TCP buffers are far larger than
the 32 KiB buffer of `Join` and than a frame with a name in it), but requests and replies are of any
length; `Reconnect` needs a base not above the maximum, which `LoadClient` enforces
(`config.go:240`). The invariants were checked with TLC, on the instances of section 3, before they
were proved.

`RegistryProofs`: the inductive invariant `IInv` is the conjunction of `TypeOK`, `HandlerStages`,
`Consistent`, `TableLive`, `NoneForgotten` and `SelfClosedOwnsNothing`. None of them is inductive
alone. Types need `HandlerStages`, which says that a session that registers has logged in, so its
keys are keys of a client. `SelfClosedOwnsNothing` needs it too: a session that runs its own `Close`
has left the control loop. `NoneForgotten` needs `TableLive` for the case where `dropSession`
removes an entry. The centre is `Consistent`. `RemoveExact` shows that removing proxies of one
session takes exactly their entries out of all tables, because two proxies that share a key, port or
host are equal; `EnterConsistent` shows that a new proxy takes a key, a port and hosts that no table
held. `DashboardCorrect` follows from `IInv`: what a session owns holds its endpoints
(`Consistent`), and a session with proxies that is not in the table is being closed
(`NoneForgotten`) or was closed by another goroutine (`SelfClosedOwnsNothing`). From the same facts
`RegistryImplementsExposure` shows that every step is a step of `Exposure` or leaves the leases
alone.

`VisitorsProofs`: the invariant adds `Arrivals` to `TypeOK`, `OnePlace` and `Matched`: objects not
yet registered have an empty queue, and a visitor about to be enqueued is open and in no queue.
`HeadGone` covers every way a visitor leaves a queue. `BoundStep` shows for each action that the
balance behind `Matched` is kept: a visitor that enters is paid for by the goroutine that will
announce it, and each unit moves from notification to client goroutine to stream, is counted as lost
(by `GiveUp`, `StreamRejected` or `NoticeLost`), or leaves together with a visitor. In particular
`NotifyFails` keeps the balance although it may remove somebody else's visitor.

`ClientProofs`: `IInv` adds seven parts to `TypeOK`. `Calls` ties the two callers' calls to
`pending` by ids not above `reqSeq`; with it `PendingExact` is immediate. `OwnAnswer` is not
inductive: an answer is its caller's own only because a request is in one place at a time. `Wire`
says so for ids in `Inbound`, in the answers under way and in the mail of a call; a late answer of a
call that gave up has an id that no call will get again. `Strays` says that a late request asks for
an entry, so that left-overs are entries; their ids do not matter, because their answers go nowhere.
`Phase` and `Agenda` say what `runOnce` and `Reload` may rely on while the other runs: a map has one
entry per name, `Reload` works off differences of the map it put in place, and a crashed process has
no calls. `Loaded` ties the map to the file unless a signal is still to be handled. The centre is
`Outcome`, the invariant behind `Converged`, which itself speaks only of states at rest. It is about
what the server will have once it has handled the messages in the channel (`Upcoming`): on a
connection where nothing went wrong the writer is alive, every entry of the map is upcoming, or
`runOnce` or `Reload` has still to send it, and whatever is upcoming but not in the map is something
`Reload` has still to close. `HoldsAppend` and `HoldsTail` say how queueing a message and handling
one change what is upcoming; `UpcomingServed` shows that a request that takes effect changes nothing
there. At rest nothing is left to send, the channel is empty, and map and table are equal.

`RelayProofs`: bytes are kept in sequences, so most lemmas are about cutting and joining them
(`Cut`, `CutConcat`, `CutCut`, `Shift...`). `Before[d]` and `Beyond[d]` chain the places of
direction `d` up to and behind the server's writes. `Flow` is the main lemma: every step leaves both
chains alone (`Kept`), moves a piece from the end of one to the front of the other (`Crossed`), or
adds the next byte at the sender (`Sent`). Its cases are the ways a byte takes: `PeerFlow` (sent and
received by the far programs), `HeadFlow` (the vhost's buffer and head), `HandlersFlow` (dial,
frame, start), `ReadFlow` and `WriteFlow` (the copy loops, the latter with writes that fail
half-way), and `QuietFlow` (closes and failures). `Transparent` and `CountsExact` follow from `Flow`
in one step each, given `Stages`: a loop holds bytes only between its read and its write, and the
StreamMeta frame is counted byte by byte, by where the client is in writing it and how much the
server has read, so that the server stops reading exactly at its end. `LastWord` needs `Farewell`.
While a side has said its last word and the other is silent, only the copy loops close anything, and
a host that has begun to close has nothing of that direction before it or in it (`Drained`): a loop
ends only on the end of its source, which is seen only when the pipe is empty and its writer closed,
and `Drained` of the host before it holds by then (`LoopEnds`). Drained hosts stay drained because
nothing can enter (`DrainedStays`), and when the last connection is closed everything has been
received (`EndComesLast`).

`ReconnectProofs`: the wait is that of `backoff`, which stays between base and maximum, and until
five minutes have passed no wait exceeds the `backoff` that follows it. So the waits are bounded,
and they shrink only after these five minutes (`ResetOnlyWhenAged`), the part of the documented rule
that holds; the rule itself is refuted by the run `reconnect`.

Only model-checked: the liveness properties (`LoginResolved`, `ReleasedEnds`, `ShutdownEnds`,
`ServedUnlessLost`, `CallsReturn`, `DeadConnLeft`, `EndsTogether`), since fairness and ENABLED are
beyond the prover. Every invariant of a passing run, and the refinement of `Exposure`, is proved.

## 6. Not modelled, and plan

Not modelled: logger, command lines other than signals and restart, scripts, the dashboard's HTML,
JSON and basic auth, the contents of TLS, smux and HMAC, YAML and string parsing. Clocks: heartbeat
deadlines and the clock window of a login are nondeterministic outcomes, which includes every real
timing; consequently nothing is said about how soon things happen, nor about configurations with
which healthy connections time out (`config.go:237` accepts an interval above the timeout). The
bytes of the control stream: frames there arrive whole. The jitter of the reconnect wait is always 0
in the code (client.go:93) and therefore in `Reconnect`; that SIGTERM is noticed only between
connections (client.go:86) is part of `Reconnect`, but no document promises otherwise.

Plan:

1. Safety lemmas that the liveness arguments rest on, as theorems of their own: that a goroutine
   waiting for a `Close` waits for one that can run, and that a queued visitor without a lost
   notification has a stream or a notification to wake it.
2. Composition of `Client` with `Registry` in place of the server part of `Client`, which has the
   left-overs of a kick but neither other clients nor the sessions' handlers.
