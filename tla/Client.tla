------------------------------- MODULE Client -------------------------------
(***************************************************************************)
(* The client process: the reconnect loop (Run, runOnce), the goroutines   *)
(* of one connection (writerLoop, pingLoop, controlLoop), registerProxy    *)
(* with its table of pending requests, and the goroutine that reloads the  *)
(* configuration on SIGHUP.  They share c.proxies, c.writeCh and pending.  *)
(*                                                                         *)
(* Connections are numbered.  When runOnce returns it has closed the write *)
(* channel of its connection, so the latest channel is the only one that   *)
(* takes messages.  Of the server there is what it has registered for this *)
(* client, by session.  A frame under way counts as still in the channel.  *)
(* A request that an abandoned connection still carries may reach the      *)
(* server after a newer login has dropped the session of that connection:  *)
(* its control loop goes on, and what it registers then is left over (run  *)
(* registry_kick).  Such requests may come in any order: one that comes    *)
(* before the drop, is refused or never arrives stays under way for good.  *)
(* Time limits may run out whenever the awaited event has not happened.    *)
(* Messages the control loop only logs are left out; StartWorkConn belongs *)
(* to Visitors.                                                            *)
(***************************************************************************)
EXTENDS Integers, Sequences, GoMap

CONSTANTS
    Entry,          \* proxy entries: [name, type, local, endpoint]
    NoEntry,        \* no entry
    AnyPort,        \* endpoint of an entry with remote_port 0: the server chooses
    ValidLocal,     \* local addresses net.SplitHostPort accepts
    File,           \* contents of the configuration file: sequences of entries
    StartFile,      \* the contents at the first start
    ChanCap,        \* capacity of writeCh (64)
    BackCap,        \* answers on the way to the client (bound)
    MaxConn,        \* logins (bound)
    MaxEdit         \* edits of the configuration file (bound)

ASSUME EntryAssumption == NoEntry \notin Entry

ASSUME FileAssumption == File \subseteq Seq(Entry) /\ StartFile \subseteq File

ASSUME BoundAssumption == {ChanCap, BackCap, MaxConn, MaxEdit} \subseteq Nat \ {0}

VARIABLES
    file,           \* what the configuration file says
    edits,          \* how often it was edited
    hup,            \* a SIGHUP waits in the signal channel (capacity 1)
    proxies,        \* c.proxies
    run,            \* where Run / runOnce is
    todo,           \* proxies runOnce has still to register
    cur,            \* c.session and c.writeCh: number of the connection, 0 for nil
    conn,           \* number of the latest connection
    cn,             \* that connection: its goroutines and its write channel
    call,           \* registerProxy in each of its two callers, with the answer channel
    pending,        \* c.pending: request id -> caller
    reqSeq,         \* c.reqSeq
    rl,             \* Reload: [pc, at, old, fresh]
    net,            \* the link works, answers on the way, entries of its session
    past,           \* connections that were left: requests still under way, and what
                    \* their sessions registered after they were dropped
    slip            \* why net.table may differ from proxies (history)

conf == <<file, edits, hup>>
rpc == <<call, pending, reqSeq>>
rest == <<conf, proxies, rpc, rl, past, slip>>
vars == <<run, todo, cur, conn, cn, net, rest>>

-----------------------------------------------------------------------------
(* Configuration *)

Named(S, n) == {p \in S : p.name = n}

\* The entries of a file; the map has one per name, because names are distinct.
buildProxyMap(f) == {f[i] : i \in DOMAIN f}

\* LoadClient accepts the entries of the file.
LoadClient(f) == /\ \A i \in DOMAIN f : /\ f[i].name # ""
                                        /\ f[i].type \in {"tcp", "http"}
                                        /\ f[i].local \in ValidLocal
                 /\ \A i, j \in DOMAIN f : f[i].name = f[j].name => i = j

-----------------------------------------------------------------------------
(* Connections, calls and messages *)

\* controlLoop is "none", "up" or "err" (its error waits in ctrlErr).
\* sent: what a writerLoop that has failed left under way.
NoConn == [ctrl |-> "none", writer |-> FALSE, pinging |-> FALSE, sent |-> << >>, chan |-> << >>,
           closed |-> FALSE]
NewConn == [ctrl |-> "up", writer |-> TRUE, pinging |-> TRUE, sent |-> << >>, chan |-> << >>,
            closed |-> FALSE]
Net(l) == [link |-> l, back |-> << >>, table |-> {}]

\* The frames that may still reach the server.
Inbound == IF cn.writer THEN cn.chan ELSE cn.sent

\* The connections that may be followed by another one.
Earlier == 1..(MaxConn - 1)

NothingLeft == [inbox |-> {}, table |-> {}]

\* The connection is left with what is still under way.
Abandoned == [k \in Earlier |->
    IF k = conn
    THEN [past[k] EXCEPT !.inbox =
             @ \union {m \in {Inbound[i] : i \in DOMAIN Inbound} : m.type # "ping"}]
    ELSE past[k]]

Caller == {"run", "reload"}

NoAnswer == [id |-> 0, name |-> "", ok |-> FALSE]
NoCall == [st |-> "none", entry |-> NoEntry, ch |-> 0, id |-> 0, mail |-> NoAnswer]
IdleReload == [pc |-> "idle", at |-> NoEntry, old |-> {}, fresh |-> {}]

NewProxy(p, i) == [type |-> "new", entry |-> p, id |-> i]
CloseProxy(p) == [type |-> "close", entry |-> p, id |-> 0]
Ping == [type |-> "ping", entry |-> NoEntry, id |-> 0]

\* "own" when only the client's own order of requests is to blame.
Worse(why) == IF slip = "other" THEN "other" ELSE why

\* A channel is closed for good when its connection is no longer the latest.
ClosedCh(ch) == ch < conn \/ cn.closed

\* Mutant: the channel takes one message too many.
RoomForOneMore == Len(cn.chan) <= ChanCap

\* A send on the write channel does not block.
Room == Len(cn.chan) < ChanCap

Queued(m) == [cn EXCEPT !.chan = Append(@, m)]

\* A send on a closed channel ends the process, and with it the connection.
Panic == /\ run' = "crashed" /\ proxies' = {} /\ todo' = {} /\ cur' = 0
         /\ cn' = NoConn /\ net' = Net(FALSE) /\ past' = Abandoned
         /\ call' = [g \in Caller |-> NoCall] /\ pending' = Empty /\ reqSeq' = 0
         /\ rl' = IdleReload /\ hup' = FALSE /\ slip' = "none"
         /\ UNCHANGED <<file, edits, conn>>

Running == run # "crashed"

\* main loads the file, New builds the map, Run starts.
Init == /\ file \in {f \in StartFile : LoadClient(f)} /\ edits = 0 /\ hup = FALSE
        /\ proxies = buildProxyMap(file)
        /\ run = "dial" /\ todo = {} /\ cur = 0 /\ conn = 0
        /\ cn = NoConn /\ net = Net(FALSE)
        /\ call = [g \in Caller |-> NoCall] /\ pending = Empty /\ reqSeq = 0
        /\ rl = IdleReload /\ slip = "none"
        /\ past = [k \in Earlier |-> NothingLeft]

-----------------------------------------------------------------------------
(* Run and runOnce *)

Go(from, to) == run = from /\ run' = to

\* Dialing, TLS, smux, or the login fails; runOnce returns.
DialFails == /\ Go("dial", "backoff")
             /\ UNCHANGED <<todo, cur, conn, cn, net, rest>>

\* The login succeeds: the session is published and its goroutines start.  The
\* server has dropped the session before; the new one has no proxies.
Login == /\ Go("dial", "list")
         /\ conn < MaxConn
         /\ conn' = conn + 1 /\ cur' = conn + 1
         /\ cn' = NewConn /\ net' = Net(TRUE) /\ slip' = "none"
         /\ UNCHANGED <<todo, conf, proxies, rpc, rl, past>>

\* proxyList copies the map.
ListProxies == /\ Go("list", "reg")
               /\ todo' = proxies
               /\ UNCHANGED <<cur, conn, cn, net, rest>>

\* All are registered, or given up on.
Ready == /\ Go("reg", "wait")
         /\ todo = {}
         /\ UNCHANGED <<todo, cur, conn, cn, net, rest>>

\* The control loop's error arrives: close(writeCh).
CloseChan == /\ Go("wait", "unwind")
             /\ cn.ctrl = "err"
             /\ cn' = [cn EXCEPT !.ctrl = "none", !.closed = TRUE]
             /\ UNCHANGED <<todo, cur, conn, net, rest>>

\* Deferred, in this order: close(stopPing), then clearSession.
StopPing == /\ Go("unwind", "clear")
            /\ cn' = [cn EXCEPT !.pinging = FALSE]
            /\ UNCHANGED <<todo, cur, conn, net, rest>>

\* The connection itself is not closed: its writerLoop goes on with what the closed
\* channel still holds.
clearSession == /\ Go("clear", "backoff")
                /\ cur' = 0 /\ cn' = [NoConn EXCEPT !.closed = TRUE] /\ net' = Net(FALSE)
                /\ past' = Abandoned
                /\ UNCHANGED <<todo, conn, conf, proxies, rpc, rl, slip>>

\* The wait before the next attempt is over; runOnce starts.
BackoffOver == /\ Go("backoff", "dial")
               /\ UNCHANGED <<todo, cur, conn, cn, net, rest>>

-----------------------------------------------------------------------------
(* The goroutines of a connection *)

\* Mutant: the loop trusts the writer to find out that the connection is broken.
ReadFailsWithWriter == net.back = << >> /\ ~net.link /\ ~cn.writer

\* The connection is broken.  A frame that cannot be read, or none within the
\* timeout, counts as a break too, since runOnce then leaves the connection.
ReadFails == net.back = << >> /\ ~net.link

controlLoopEnds == /\ cn.ctrl = "up"
                   /\ ReadFails
                   /\ cn' = [cn EXCEPT !.ctrl = "err"]
                   /\ UNCHANGED <<run, todo, cur, conn, net, rest>>

\* Mutant: an answer goes to whoever waits.
AnyWaiting(id) == {pending[i] : i \in DOMAIN pending}

\* The call an answer is for, if it still waits.
Waiting(id) == {pending[i] : i \in {id} \intersect DOMAIN pending}

\* NewProxyResp: the send blocks while the answer channel of that call is full.
deliverPending ==
    LET a == Head(net.back)
    IN  /\ cn.ctrl = "up" /\ net.back # << >>
        /\ \A g \in Waiting(a.id) : call[g].mail = NoAnswer
        /\ net' = [net EXCEPT !.back = Tail(@)]
        /\ call' = [g \in Caller |-> IF g \in Waiting(a.id) THEN [call[g] EXCEPT !.mail = a]
                                                            ELSE call[g]]
        /\ UNCHANGED <<run, todo, cur, conn, past, cn, conf, proxies, pending, reqSeq, rl, slip>>

\* The k-th write fails (broken connection, deadline) with those before it under way,
\* or the closed channel is empty.  A frame whose write failed may have been sent.
writerLoopEnds ==
    /\ cn.writer
    /\ \E k \in 0..Len(cn.chan) :
          /\ k > 0 \/ (cn.chan = << >> /\ cn.closed)
          /\ cn' = [cn EXCEPT !.writer = FALSE, !.sent = SubSeq(cn.chan, 1, k),
                              !.chan = SubSeq(cn.chan, k + 1, Len(cn.chan))]
    /\ slip' = Worse("other")
    /\ UNCHANGED <<run, todo, cur, conn, past, net, conf, proxies, rpc, rl>>

\* The ticker fires: Ping is queued unless the channel is full.
pingLoop == /\ cn.pinging /\ ~cn.closed
            /\ cn' = IF Room THEN Queued(Ping) ELSE cn
            /\ UNCHANGED <<run, todo, cur, conn, net, rest>>

\* The ticker fires between close(writeCh) and close(stopPing): the send panics.
PingPanics == cn.pinging /\ cn.closed /\ Panic

-----------------------------------------------------------------------------
(* registerProxy *)

\* The caller is about to register p.
Registering(g, p) == /\ call[g] = NoCall
                     /\ \/ g = "run" /\ run = "reg" /\ p \in todo
                        \/ g = "reload" /\ rl.pc = "reg" /\ p = rl.at

\* registerProxy returns to its caller, which goes on to its next proxy.
Return(g, p) ==
    /\ todo' = IF g = "run" THEN todo \ {p} ELSE todo
    /\ rl' = IF g = "run" THEN rl
                          ELSE [rl EXCEPT !.pc = "new", !.at = NoEntry, !.fresh = @ \ {p}]

nextReqID == reqSeq + 1

\* It reads c.writeCh, takes an id and enters itself in pending.
RegisterBegin(g, p) ==
    /\ Registering(g, p)
    /\ cur # 0
    /\ reqSeq' = nextReqID
    /\ call' = [call EXCEPT ![g] = [st |-> "send", entry |-> p, ch |-> cur, id |-> nextReqID,
                                    mail |-> NoAnswer]]
    /\ pending' = Put(pending, nextReqID, g)
    /\ UNCHANGED <<run, todo, cur, conn, past, cn, net, conf, proxies, rl, slip>>

\* There is no connection.
RegisterUnconnected(g, p) ==
    /\ Registering(g, p)
    /\ cur = 0
    /\ Return(g, p)
    /\ UNCHANGED <<run, cur, conn, past, cn, net, conf, proxies, rpc, slip>>

\* The request enters the write channel.
RegisterSend(g) ==
    /\ call[g].st = "send" /\ ~ClosedCh(call[g].ch)
    /\ Room
    /\ cn' = Queued(NewProxy(call[g].entry, call[g].id))
    /\ call' = [call EXCEPT ![g].st = "await"]
    /\ UNCHANGED <<run, todo, cur, conn, past, net, conf, proxies, pending, reqSeq, rl, slip>>

\* The channel was closed in the meantime: the send panics.
RegisterPanics(g) == call[g].st = "send" /\ ClosedCh(call[g].ch) /\ Panic

\* Mutant: a call that is over leaves its entry behind.
ForgetNothing(g) == pending

\* The deferred delete.
Forget(g) == Del(pending, {call[g].id})

EndCall(g) == /\ call' = [call EXCEPT ![g] = NoCall]
              /\ pending' = Forget(g)
              /\ Return(g, call[g].entry)
              /\ UNCHANGED <<run, cur, conn, past, cn, net, conf, proxies, reqSeq>>

\* Mutant: no time limit for the answer.
TimedOutSending(g) == call[g].st = "send" /\ ~ClosedCh(call[g].ch) /\ ~Room

\* The channel stays full for 5 s, or no answer comes within 10 s.
TimedOut(g) == \/ call[g].st = "send" /\ ~ClosedCh(call[g].ch) /\ ~Room
               \/ call[g].st = "await" /\ call[g].mail = NoAnswer

RegisterTimeout(g) == TimedOut(g) /\ EndCall(g) /\ slip' = Worse("other")

\* The answer is there; a refusal is only logged.
RegisterAnswered(g) == /\ call[g].st = "await" /\ call[g].mail # NoAnswer
                       /\ EndCall(g)
                       /\ UNCHANGED slip

-----------------------------------------------------------------------------
(* Reload *)

\* The file loads: the map is replaced.  slip: runOnce goes on with its older copy.
ReloadLoad ==
    /\ Running /\ hup /\ rl.pc = "idle" /\ LoadClient(file)
    /\ hup' = FALSE
    /\ proxies' = buildProxyMap(file)
    /\ rl' = [IdleReload EXCEPT !.pc = "check", !.old = proxies]
    /\ slip' = IF run = "reg" /\ ~(todo \subseteq proxies') THEN Worse("own") ELSE slip
    /\ UNCHANGED <<run, todo, cur, conn, past, cn, net, file, edits, rpc>>

\* The file does not load: the configuration stays.
ReloadRejected ==
    /\ Running /\ hup /\ rl.pc = "idle" /\ ~LoadClient(file)
    /\ hup' = FALSE
    /\ UNCHANGED <<run, todo, cur, conn, past, cn, net, file, edits, proxies, rpc, rl, slip>>

\* The entries that are not, by proxyEqual, what they were before.
Changed == proxies \ rl.old

\* Without a session there is nothing to do: runOnce will register the new map.
\* Otherwise new and changed proxies come first.
ReloadCheck ==
    /\ rl.pc = "check"
    /\ rl' = IF cur = 0 THEN IdleReload ELSE [rl EXCEPT !.pc = "new", !.fresh = Changed]
    /\ UNCHANGED <<run, todo, cur, conn, past, cn, net, conf, proxies, rpc, slip>>

\* CloseProxy enters the channel; without connection or room it is dropped.  After
\* c.writeCh is read the channel can only be closed, which ends as ReloadPanics does.
closeProxyRPC(o) ==
    \/ cur = 0 /\ UNCHANGED <<cn, slip>>
    \/ cur # 0 /\ ~cn.closed /\ Room /\ cn' = Queued(CloseProxy(o)) /\ UNCHANGED slip
    \/ cur # 0 /\ ~cn.closed /\ ~Room /\ UNCHANGED cn /\ slip' = Worse("other")

\* The next new entry; what the server has under its name is closed first.
ReloadNext(p) ==
    /\ rl.pc = "new" /\ p \in rl.fresh
    /\ \/ Named(rl.old, p.name) = {} /\ UNCHANGED <<cn, slip>>
       \/ \E o \in Named(rl.old, p.name) : closeProxyRPC(o)
    /\ rl' = [rl EXCEPT !.pc = "reg", !.at = p]
    /\ UNCHANGED <<run, todo, cur, conn, past, net, conf, proxies, rpc>>

\* Then the deleted ones.
ReloadTurn ==
    /\ rl.pc = "new" /\ rl.fresh = {}
    /\ rl' = [rl EXCEPT !.pc = "old", !.fresh = {o \in rl.old : Named(proxies, o.name) = {}}]
    /\ UNCHANGED <<run, todo, cur, conn, past, cn, net, conf, proxies, rpc, slip>>

ReloadCloseOld(o) ==
    /\ rl.pc = "old" /\ o \in rl.fresh
    /\ closeProxyRPC(o)
    /\ rl' = [rl EXCEPT !.fresh = @ \ {o}]
    /\ UNCHANGED <<run, todo, cur, conn, past, net, conf, proxies, rpc>>

\* The channel is closed, c.writeCh not yet cleared: the send panics.
ReloadPanics == /\ \/ rl.pc = "new" /\ \E p \in rl.fresh : Named(rl.old, p.name) # {}
                   \/ rl.pc = "old" /\ rl.fresh # {}
                /\ cur # 0 /\ cn.closed
                /\ Panic

ReloadDone == /\ rl.pc = "old" /\ rl.fresh = {}
              /\ rl' = IdleReload
              /\ UNCHANGED <<run, todo, cur, conn, past, cn, net, conf, proxies, rpc, slip>>

-----------------------------------------------------------------------------
(* The server's session, the network and the operator *)

\* The entry is at odds with another one of the session.
Conflicts(p) == \E q \in net.table :
    q # p /\ (q.name = p.name \/ (q.endpoint = p.endpoint /\ p.endpoint # AnyPort))

\* What the server has for this client, left-overs of earlier sessions included.
Held == net.table \union UNION {past[k].table : k \in DOMAIN past}

\* The answer ok of sameConfig to a request p under the name of q.  A port the server
\* chose is never the 0 that was asked for, and it may be the one asked for now.
sameConfig(q, p, ok) ==
    \/ ok = (q = p /\ p.endpoint # AnyPort)
    \/ /\ ok
       /\ q.endpoint = AnyPort /\ p.endpoint # AnyPort
       /\ p = [q EXCEPT !.endpoint = p.endpoint]

Free(p) == \A q \in Held :
    q.name # p.name /\ (q.endpoint = p.endpoint => p.endpoint = AnyPort)

\* A session with the proxies T asks for p, gets the answer ok and has U.  A known name
\* is answered without a look at whose proxy it is; a new one may also be refused for
\* reasons outside this client.
registerProxy(T, p, ok, U) ==
    \/ U = T /\ \E q \in Named(Held, p.name) : sameConfig(q, p, ok)
    \/ U = T /\ ~ok /\ Named(Held, p.name) = {}
    \/ U = T \union {p} /\ ok /\ Free(p)

Without(T, p) == T \ Named(T, p.name)

Answer(m, ok) == [id |-> m.id, name |-> m.entry.name, ok |-> ok]

\* writerLoop has written the next message and the server's control loop handles it.
Serve(type) == /\ net.link
               /\ Inbound # << >> /\ Head(Inbound).type = type
               /\ cn' = IF cn.writer THEN [cn EXCEPT !.chan = Tail(@)]
                                     ELSE [cn EXCEPT !.sent = Tail(@)]
               /\ UNCHANGED <<run, todo, cur, conn, past, conf, proxies, rpc, rl>>

\* slip: the session does not have the entry now, whatever the answer says.
Blame(p) == Worse(IF Conflicts(p) THEN "own" ELSE "other")

ServeNewProxy ==
    LET m == Head(Inbound)
        p == m.entry
    IN  /\ Serve("new")
        /\ Len(net.back) < BackCap
        /\ \E ok \in BOOLEAN, U \in {net.table, net.table \union {p}} :
              /\ registerProxy(net.table, p, ok, U)
              /\ net' = [net EXCEPT !.table = U, !.back = Append(@, Answer(m, ok))]
              /\ slip' = IF p \in U THEN slip ELSE Blame(p)

ServeCloseProxy == /\ Serve("close")
                   /\ net' = [net EXCEPT !.table = Without(@, Head(Inbound).entry)]
                   /\ UNCHANGED slip

\* Pong only refreshes the client's read deadline.
ServePing == Serve("ping") /\ UNCHANGED <<net, slip>>

\* The control loop of a session that a newer login has dropped handles a message that
\* was still under way, and the session has U.  The answer goes nowhere.
LateServed(k, m, U) ==
    /\ k < conn /\ m \in past[k].inbox
    /\ past' = [past EXCEPT ![k] = [inbox |-> @.inbox \ {m}, table |-> U]]
    /\ UNCHANGED <<run, todo, cur, conn, cn, net, conf, proxies, rpc, rl, slip>>

LateNewProxy(k, m) == /\ m.type = "new" /\ Free(m.entry)
                      /\ LateServed(k, m, past[k].table \union {m.entry})

LateCloseProxy(k, m) == m.type = "close" /\ LateServed(k, m, Without(past[k].table, m.entry))

\* The connection breaks, or the server closes it and drops the session; some
\* answers have arrived already.
BreakLink == /\ net.link
             /\ \E k \in 0..Len(net.back) :
                   net' = [Net(FALSE) EXCEPT !.back = SubSeq(net.back, 1, k)]
             /\ UNCHANGED <<run, todo, cur, conn, cn, rest>>

\* Mutant: a signal is dropped while the goroutine is busy.
SignalledWhenIdle == Running /\ rl.pc = "idle"

\* A signal reaches the channel.
Signalled == Running

\* The operator changes the file and sends SIGHUP; the signal channel holds one.
Edit(f) == /\ edits < MaxEdit
           /\ edits' = edits + 1
           /\ file' = f
           /\ hup' = Signalled
           /\ UNCHANGED <<run, todo, cur, conn, past, cn, net, proxies, rpc, rl, slip>>

\* SIGHUP without a change.
Sighup == /\ Signalled /\ ~hup
          /\ hup' = TRUE
          /\ UNCHANGED <<run, todo, cur, conn, past, cn, net, file, edits, proxies, rpc>>
          /\ UNCHANGED <<rl, slip>>

\* systemd starts the process again (Restart=always).
Restart == /\ Go("crashed", "dial")
           /\ LoadClient(file)
           /\ proxies' = buildProxyMap(file)
           /\ UNCHANGED <<todo, cur, conn, past, cn, net, conf, rpc, rl, slip>>

-----------------------------------------------------------------------------
Next == \/ DialFails \/ Login \/ ListProxies \/ Ready
        \/ CloseChan \/ StopPing \/ clearSession \/ BackoffOver
        \/ controlLoopEnds \/ deliverPending \/ writerLoopEnds
        \/ pingLoop \/ PingPanics
        \/ \E g \in Caller :
              \/ RegisterSend(g) \/ RegisterPanics(g)
              \/ RegisterTimeout(g) \/ RegisterAnswered(g)
              \/ \E p \in Entry : RegisterBegin(g, p) \/ RegisterUnconnected(g, p)
        \/ ReloadLoad \/ ReloadRejected \/ ReloadCheck
        \/ ReloadTurn \/ ReloadPanics \/ ReloadDone
        \/ \E p \in Entry : ReloadNext(p) \/ ReloadCloseOld(p)
        \/ ServeNewProxy \/ ServeCloseProxy \/ ServePing
        \/ \E k \in Earlier : \E m \in past[k].inbox : LateNewProxy(k, m) \/ LateCloseProxy(k, m)
        \/ BreakLink \/ Sighup \/ Restart
        \/ \E f \in File : Edit(f)

Spec == Init /\ [][Next]_vars

\* Goroutines run, timers fire, and a broken connection makes reads fail.  The
\* server closes a connection on which it hears nothing (heartbeat timeout), which
\* happens once writerLoop has ended.  No login need succeed, no healthy
\* connection need end, and nobody need send a signal.
Fairness ==
    /\ WF_vars(DialFails \/ Login) /\ WF_vars(BackoffOver)
    /\ WF_vars(ListProxies) /\ WF_vars(Ready)
    /\ WF_vars(CloseChan) /\ WF_vars(StopPing) /\ WF_vars(clearSession)
    /\ WF_vars(controlLoopEnds) /\ WF_vars(deliverPending)
    /\ WF_vars(~cn.writer /\ BreakLink)
    /\ \A g \in Caller :
          /\ WF_vars(RegisterSend(g) \/ RegisterTimeout(g) \/ RegisterPanics(g))
          /\ WF_vars(RegisterAnswered(g) \/ RegisterTimeout(g))
          /\ WF_vars(\E p \in Entry : RegisterBegin(g, p) \/ RegisterUnconnected(g, p))

FairSpec == Spec /\ Fairness

-----------------------------------------------------------------------------
(* Properties *)

Msg == [type : {"new", "close", "ping"}, entry : Entry \union {NoEntry}, id : Nat]
Resp == [id : Nat, name : {p.name : p \in Entry} \union {""}, ok : BOOLEAN]
ConnType == [ctrl : {"none", "up", "err"}, writer : BOOLEAN, pinging : BOOLEAN,
             sent : Seq(Msg), chan : Seq(Msg), closed : BOOLEAN]
PastType == [inbox : SUBSET Msg, table : SUBSET Entry]
NetType == [link : BOOLEAN, back : Seq(Resp), table : SUBSET Entry]
CallType == [st : {"none", "send", "await"}, entry : Entry \union {NoEntry},
             ch : Nat, id : Nat, mail : Resp]
ReloadType == [pc : {"idle", "check", "new", "reg", "old"}, at : Entry \union {NoEntry},
               old : SUBSET Entry, fresh : SUBSET Entry]

TypeOK ==
    /\ file \in File /\ edits \in 0..MaxEdit /\ hup \in BOOLEAN
    /\ proxies \subseteq Entry /\ todo \subseteq Entry
    /\ cur \in 0..conn /\ conn \in 0..MaxConn
    /\ run \in {"dial", "list", "reg", "wait", "unwind", "clear", "backoff", "crashed"}
    /\ cn \in ConnType /\ Len(cn.chan) <= ChanCap
    /\ net \in NetType /\ Len(net.back) <= BackCap
    /\ past \in [Earlier -> PastType]
    /\ call \in [Caller -> CallType] /\ IsMap(pending, Nat, Caller) /\ reqSeq \in Nat
    /\ rl \in ReloadType
    /\ slip \in {"none", "own", "other"}

\* pending holds exactly the calls under way, each under its own id, whatever
\* timeouts, reconnects and concurrent reloads happen (client.go:271-280).
PendingExact == /\ DOMAIN pending = {call[g].id : g \in {x \in Caller : call[x].st # "none"}}
                /\ \A i \in DOMAIN pending : call[pending[i]].id = i

\* A call is given the answer to its own request, never that of a concurrent or an
\* earlier call, and an answer never finds the channel of its call occupied, so
\* that controlLoop cannot block in deliverPending (client.go:324-331).
OwnAnswer ==
    /\ \A g \in Caller : call[g].mail # NoAnswer => /\ call[g].st = "await"
                                                    /\ call[g].mail.id = call[g].id
                                                    /\ call[g].mail.name = call[g].entry.name
    /\ \A i \in DOMAIN net.back : \A g \in Waiting(net.back[i].id) : call[g].mail = NoAnswer

\* Nothing is under way, and the connection works.
Settled == /\ run = "wait" /\ rl.pc = "idle" /\ ~hup
           /\ net.link /\ cn.ctrl = "up" /\ cn.writer /\ cn.chan = << >>

\* When all has come to rest the session at the server has what the file last loaded
\* says: after any reconnects, crashes, edits and coalesced signals, whatever frames
\* of earlier connections come in late, unless on this very connection a request was
\* refused, lost, given up on or answered in the name of a left-over of an earlier
\* session, or a reload overlapped with runOnce's registrations (client.go:184,
\* 423-457, server/proxy.go:62-68).
Converged == /\ Settled /\ slip = "none" => net.table = proxies
             /\ Settled /\ LoadClient(file) => proxies = buildProxyMap(file)

\* No call of registerProxy lasts for ever: it returns to its caller, or the process
\* dies (client.go:264-306).
CallsReturn == \A g \in Caller : []<>(call[g].st = "none")

\* client.go:234 "a failed write means the connection is dead, the read side will
\* trigger the reconnect": runOnce does not wait for ever on a connection that broke,
\* or lost its writer.
DeadConnLeft == []<>~(run = "wait" /\ (~net.link \/ ~cn.writer))

\* client.go:5 "concurrency-safe RPC": no goroutine of the client sends on the
\* closed write channel, which would end the process with a panic.
NoPanic == run # "crashed"

\* client.go:421, README:86 "new and changed proxies are registered at once, deleted
\* ones are taken down": with no fault outside the client, the server ends up with
\* the reloaded proxies.
ReloadApplied == Settled /\ slip # "other" => net.table = proxies
=============================================================================
