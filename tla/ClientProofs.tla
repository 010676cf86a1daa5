---------------------------- MODULE ClientProofs ----------------------------
(***************************************************************************)
(* Proofs about the client, for any set of entries and files, any capacity *)
(* of the channels and any number of connections, edits and crashes.       *)
(***************************************************************************)
EXTENDS Client, SequenceTheorems, TLAPS

-----------------------------------------------------------------------------
(* The inductive invariant *)

Active(g) == call[g].st # "none"

\* A call under way has an id that was given out, and is in pending under it;
\* pending holds nothing else.
Calls ==
    /\ \A g \in Caller :
          /\ ~Active(g) => call[g] = NoCall
          /\ Active(g) => /\ call[g].entry \in Entry
                          /\ call[g].id \in 1..reqSeq
                          /\ call[g].id \in DOMAIN pending
                          /\ pending[call[g].id] = g
    /\ \A i \in DOMAIN pending : Active(pending[i]) /\ call[pending[i]].id = i

IsNew(m) == m.type = "new"

\* A request is in one place at a time: on its way to the server, or its answer on the
\* way, or in the mail of its call; and that fits the call that waits for it.
Wire ==
    /\ \A i \in DOMAIN Inbound : IsNew(Inbound[i]) => /\ Inbound[i].entry \in Entry
                                                      /\ Inbound[i].id \in 1..reqSeq
    /\ \A i \in DOMAIN net.back : net.back[i].id \in 1..reqSeq
    /\ \A i, j \in DOMAIN Inbound :
          IsNew(Inbound[i]) /\ IsNew(Inbound[j]) /\ Inbound[i].id = Inbound[j].id => i = j
    /\ \A i, j \in DOMAIN net.back : net.back[i].id = net.back[j].id => i = j
    /\ \A i \in DOMAIN Inbound, j \in DOMAIN net.back :
          IsNew(Inbound[i]) => Inbound[i].id # net.back[j].id
    /\ \A g \in Caller, i \in DOMAIN Inbound :
          IsNew(Inbound[i]) /\ Inbound[i].id = call[g].id =>
              call[g].st = "await" /\ call[g].mail = NoAnswer /\ call[g].entry = Inbound[i].entry
    /\ \A g \in Caller, i \in DOMAIN net.back :
          net.back[i].id = call[g].id =>
              /\ call[g].st = "await" /\ call[g].mail = NoAnswer
              /\ call[g].entry.name = net.back[i].name
    /\ \A g \in Caller :
          call[g].mail # NoAnswer => /\ call[g].st = "await"
                                     /\ call[g].mail.id = call[g].id
                                     /\ call[g].mail.name = call[g].entry.name

\* The requests under way on connections that were left are for entries.
Strays == \A k \in Earlier : \A m \in past[k].inbox : IsNew(m) => m.entry \in Entry

\* Where the goroutines are, as far as others rely on it.
Phase ==
    /\ run \in {"list", "reg", "wait"} => cur # 0
    /\ net.link => run \in {"list", "reg", "wait", "unwind", "clear"}
    /\ run = "crashed" => rl = IdleReload /\ ~Active("run") /\ ~Active("reload")
    /\ Active("run") => run = "reg" /\ call["run"].entry \in todo
    /\ Active("reload") => rl.pc = "reg" /\ call["reload"].entry = rl.at

OneName(S) == \A p, q \in S : p.name = q.name => p = q

\* What Reload still has to do, taken from the two maps it compares.
Agenda ==
    /\ OneName(proxies) /\ OneName(rl.old)
    /\ rl.pc \in {"new", "reg"} => rl.fresh \subseteq proxies
    /\ rl.pc = "reg" => rl.at \in rl.fresh
    /\ rl.pc = "old" => \A o \in rl.fresh : Named(proxies, o.name) = {}
    /\ rl.pc = "idle" => rl = IdleReload

\* The map is that of the file unless a signal is still to be handled.
Loaded == Running /\ ~hup /\ LoadClient(file) => proxies = buildProxyMap(file)

IsClose(m, n) == m.type = "close" /\ m.entry.name = n

\* The server, which has T, has q once it has handled the messages s.
Holds(T, s, q) ==
    \/ q \in T /\ \A j \in DOMAIN s : ~IsClose(s[j], q.name)
    \/ \E i \in DOMAIN s : /\ IsNew(s[i]) /\ s[i].entry = q
                           /\ \A j \in DOMAIN s : j > i => ~IsClose(s[j], q.name)

Upcoming == {q \in Entry : Holds(net.table, cn.chan, q)}

\* runOnce, or Reload, has still to send the request for p.
RunWill(p) == run = "reg" /\ p \in todo /\ ~(call["run"].st = "await" /\ call["run"].entry = p)
ReloadWill(p) ==
    \/ rl.pc = "check" /\ p \notin rl.old
    \/ rl.pc \in {"new", "reg"} /\ p \in rl.fresh /\ ~(p = rl.at /\ call["reload"].st = "await")

\* Reload has still to close what goes by the name of q.
ReloadCloses(q) ==
    \/ rl.pc = "check" /\ q \in rl.old
    \/ /\ rl.pc \in {"new", "reg"} /\ Named(rl.old, q.name) # {}
       /\ \/ Named(proxies, q.name) = {}
          \/ \E p \in rl.fresh : p.name = q.name /\ ~(rl.pc = "reg" /\ p = rl.at)
    \/ rl.pc = "old" /\ Named(rl.fresh, q.name) # {}

Live == net.link /\ slip = "none" /\ run \in {"list", "reg", "wait"}

\* On a connection where nothing went wrong, what its session at the server will have
\* differs from the map only by what runOnce and Reload have still to send.
Outcome ==
    Live => /\ cn.writer
            /\ run = "reg" => todo \subseteq proxies
            /\ run # "list" => \A p \in proxies : p \in Upcoming \/ RunWill(p) \/ ReloadWill(p)
            /\ \A q \in Upcoming \ proxies : ReloadCloses(q)

IInv == TypeOK /\ Calls /\ Wire /\ Strays /\ Phase /\ Agenda /\ Loaded /\ Outcome

-----------------------------------------------------------------------------
(* Channels *)

\* Taking the head off a sequence.
LEMMA TailFacts ==
    ASSUME NEW S, NEW s \in Seq(S), s # << >>
    PROVE  /\ Head(s) \in S
           /\ Head(s) = s[1]
           /\ Tail(s) \in Seq(S)
           /\ Len(Tail(s)) = Len(s) - 1
           /\ Len(s) \in Nat \ {0}
           /\ 1 \in DOMAIN s
           /\ \A i \in DOMAIN Tail(s) : /\ i \in Nat /\ i >= 1
                                        /\ i + 1 \in DOMAIN s /\ Tail(s)[i] = s[i + 1]
           /\ \A i \in DOMAIN s : i \in Nat /\ i >= 1 /\ (i # 1 => i - 1 \in DOMAIN Tail(s))
OBVIOUS

\* Appending to a sequence.
LEMMA AppendFacts ==
    ASSUME NEW S, NEW s \in Seq(S), NEW v \in S
    PROVE  /\ Append(s, v) \in Seq(S)
           /\ Len(Append(s, v)) = Len(s) + 1
           /\ Len(s) \in Nat
           /\ DOMAIN s = 1 .. Len(s)
           /\ DOMAIN Append(s, v) = 1 .. Len(s) + 1
           /\ Append(s, v)[Len(s) + 1] = v
           /\ \A i \in DOMAIN s : Append(s, v)[i] = s[i]
OBVIOUS

\* A prefix of a sequence.
LEMMA PrefixFacts ==
    ASSUME NEW S, NEW s \in Seq(S), NEW k \in 0..Len(s)
    PROVE  /\ SubSeq(s, 1, k) \in Seq(S)
           /\ Len(SubSeq(s, 1, k)) = k
           /\ DOMAIN SubSeq(s, 1, k) \subseteq DOMAIN s
           /\ \A i \in DOMAIN SubSeq(s, 1, k) : SubSeq(s, 1, k)[i] = s[i]
OBVIOUS

\* What is left of a sequence after a prefix.
LEMMA SuffixFacts ==
    ASSUME NEW S, NEW s \in Seq(S), NEW k \in 0..Len(s)
    PROVE  LET t == SubSeq(s, k + 1, Len(s))
           IN  t \in Seq(S) /\ Len(t) \in Nat /\ Len(t) <= Len(s)
OBVIOUS

-----------------------------------------------------------------------------
(* Types *)

\* The fresh values.
LEMMA FreshTypes ==
    /\ NoConn \in ConnType /\ NewConn \in ConnType
    /\ Len(NoConn.chan) <= ChanCap /\ Len(NewConn.chan) <= ChanCap
    /\ [NoConn EXCEPT !.closed = TRUE] \in ConnType
    /\ NothingLeft \in PastType
    /\ \A l \in BOOLEAN : Net(l) \in NetType /\ Len(Net(l).back) <= BackCap
    /\ NoCall \in CallType
    /\ NoAnswer \in Resp /\ IdleReload \in ReloadType
    /\ IsMap(Empty, Nat, Caller)
<1>1. << >> \in Seq(Msg) /\ << >> \in Seq(Resp) /\ Len(<< >>) = 0
    OBVIOUS
<1>2. NoConn \in ConnType /\ NewConn \in ConnType /\ [NoConn EXCEPT !.closed = TRUE] \in ConnType
    BY <1>1 DEF NoConn, NewConn, ConnType
<1>3. NoConn.chan = << >> /\ NewConn.chan = << >>
    BY DEF NoConn, NewConn
<1>4. \A l \in BOOLEAN : Net(l) \in NetType /\ Net(l).back = << >>
    BY <1>1 DEF Net, NetType
<1>5. NoAnswer \in Resp
    BY DEF NoAnswer, Resp
<1>6. NoCall \in CallType
    BY <1>5 DEF NoCall, CallType
<1>7. IsMap(Empty, Nat, Caller)
    BY DEF Empty, IsMap
<1>8. IdleReload \in ReloadType
    BY DEF IdleReload, ReloadType
<1>9. NothingLeft \in PastType
    BY DEF NothingLeft, PastType
<1> QED BY <1>1, <1>2, <1>3, <1>4, <1>5, <1>6, <1>7, <1>8, <1>9, BoundAssumption

\* A message is queued.
LEMMA QueuedType ==
    ASSUME cn \in ConnType, NEW m \in Msg, Room
    PROVE  /\ Queued(m) \in ConnType /\ Len(Queued(m).chan) <= ChanCap
           /\ Queued(m).chan = Append(cn.chan, m)
           /\ Queued(m).writer = cn.writer /\ Queued(m).sent = cn.sent
<1>1. cn.chan \in Seq(Msg)
    BY DEF ConnType
<1>2. PICK s : s = Append(cn.chan, m)
    OBVIOUS
<1>3. s \in Seq(Msg) /\ Len(s) = Len(cn.chan) + 1 /\ Len(cn.chan) \in Nat
    BY <1>1, <1>2, AppendFacts
<1>4. Queued(m) = [cn EXCEPT !.chan = s]
    BY <1>2 DEF Queued
<1>5. /\ Queued(m) \in ConnType /\ Queued(m).chan = s
      /\ Queued(m).writer = cn.writer /\ Queued(m).sent = cn.sent
    BY <1>3, <1>4 DEF ConnType
<1> QED BY <1>2, <1>3, <1>5, BoundAssumption DEF Room

\* What is under way to the server is a sequence of messages.
LEMMA InboundType ==
    ASSUME cn \in ConnType
    PROVE  Inbound \in Seq(Msg)
BY DEF Inbound, ConnType

\* The server handles a message.
LEMMA ServedType ==
    ASSUME cn \in ConnType, Len(cn.chan) <= ChanCap, NEW ty, Serve(ty)
    PROVE  /\ cn' \in ConnType /\ Len(cn'.chan) <= ChanCap /\ cn'.writer = cn.writer
           /\ Inbound \in Seq(Msg) /\ Inbound # << >> /\ Inbound' = Tail(Inbound)
           /\ Head(Inbound) \in Msg /\ Head(Inbound) = Inbound[1] /\ 1 \in DOMAIN Inbound
           /\ Head(Inbound).type = ty
<1>1. /\ Inbound \in Seq(Msg) /\ Inbound # << >> /\ Head(Inbound).type = ty
      /\ cn.chan \in Seq(Msg) /\ cn.sent \in Seq(Msg)
    BY InboundType DEF Serve, ConnType
<1>2. PICK s : s = Tail(Inbound)
    OBVIOUS
<1>3. /\ s \in Seq(Msg) /\ Len(s) = Len(Inbound) - 1 /\ Len(Inbound) \in Nat
      /\ Head(Inbound) \in Msg /\ Head(Inbound) = Inbound[1] /\ 1 \in DOMAIN Inbound
    BY <1>1, <1>2, TailFacts
<1>4. CASE cn.writer
    <2>1. Inbound = cn.chan /\ cn' = [cn EXCEPT !.chan = s]
        BY <1>2, <1>4 DEF Serve, Inbound
    <2>2. cn' \in ConnType /\ cn'.chan = s /\ cn'.writer = cn.writer
        BY <1>3, <2>1 DEF ConnType
    <2>3. Len(s) <= ChanCap
        BY <1>3, <2>1, BoundAssumption
    <2>4. Inbound' = s
        BY <1>4, <2>2 DEF Inbound
    <2> QED BY <1>1, <1>2, <1>3, <2>2, <2>3, <2>4
<1>5. CASE ~cn.writer
    <2>1. cn' = [cn EXCEPT !.sent = s]
        BY <1>2, <1>5 DEF Serve, Inbound
    <2>2. cn' \in ConnType /\ cn'.sent = s /\ cn'.writer = cn.writer /\ cn'.chan = cn.chan
        BY <1>3, <2>1 DEF ConnType
    <2>3. Inbound' = s
        BY <1>5, <2>2 DEF Inbound
    <2> QED BY <1>1, <1>2, <1>3, <2>2, <2>3
<1> QED BY <1>4, <1>5

\* The writer ends with a part of the channel under way.
LEMMA WriterEndsType ==
    ASSUME cn \in ConnType, Len(cn.chan) <= ChanCap, writerLoopEnds
    PROVE  /\ cn' \in ConnType /\ Len(cn'.chan) <= ChanCap
           /\ Inbound \in Seq(Msg)
           /\ \E k \in 0..Len(Inbound) : Inbound' = SubSeq(Inbound, 1, k)
<1>1. cn.chan \in Seq(Msg) /\ cn.writer /\ Inbound = cn.chan /\ Len(cn.chan) \in Nat
    BY DEF writerLoopEnds, ConnType, Inbound
<1>2. PICK k \in 0..Len(cn.chan) :
         cn' = [cn EXCEPT !.writer = FALSE, !.sent = SubSeq(cn.chan, 1, k),
                          !.chan = SubSeq(cn.chan, k + 1, Len(cn.chan))]
    BY DEF writerLoopEnds
<1>3. PICK s, t : s = SubSeq(cn.chan, 1, k) /\ t = SubSeq(cn.chan, k + 1, Len(cn.chan))
    OBVIOUS
<1>4. s \in Seq(Msg) /\ t \in Seq(Msg) /\ Len(t) <= Len(cn.chan) /\ Len(t) \in Nat
    BY <1>1, <1>3, SuffixFacts, PrefixFacts
<1>5. cn' = [cn EXCEPT !.writer = FALSE, !.sent = s, !.chan = t]
    BY <1>2, <1>3
<1>6. cn' \in ConnType /\ cn'.chan = t /\ cn'.sent = s /\ ~cn'.writer
    BY <1>4, <1>5 DEF ConnType
<1>7. Len(t) <= ChanCap
    BY <1>1, <1>4, BoundAssumption
<1>8. Inbound' = s
    BY <1>6 DEF Inbound
<1> QED BY <1>1, <1>3, <1>6, <1>7, <1>8

\* A connection is left.
LEMMA AbandonedType ==
    ASSUME TypeOK
    PROVE  /\ Abandoned \in [Earlier -> PastType]
           /\ \A k \in Earlier : \A m \in Abandoned[k].inbox :
                 m \in past[k].inbox \/ \E i \in DOMAIN Inbound : m = Inbound[i]
<1> DEFINE S == {m \in {Inbound[i] : i \in DOMAIN Inbound} : m.type # "ping"}
<1>1. past \in [Earlier -> PastType] /\ Inbound \in Seq(Msg)
    BY InboundType DEF TypeOK
<1>2. S \subseteq Msg
    BY <1>1
<1>3. \A m \in S : \E i \in DOMAIN Inbound : m = Inbound[i]
    OBVIOUS
<1>4. Abandoned = [k \in Earlier |-> IF k = conn THEN [past[k] EXCEPT !.inbox = @ \union S]
                                                 ELSE past[k]]
    BY DEF Abandoned
<1> HIDE DEF S
<1>5. \A k \in Earlier : LET x == [past[k] EXCEPT !.inbox = @ \union S]
                         IN  x \in PastType /\ x.inbox = past[k].inbox \union S
    BY <1>1, <1>2 DEF PastType
<1> QED BY <1>1, <1>3, <1>4, <1>5

\* The parts of a file are entries.
LEMMA FileType ==
    ASSUME NEW f \in File
    PROVE  buildProxyMap(f) \subseteq Entry /\ \A i \in DOMAIN f : f[i] \in Entry
BY FileAssumption DEF buildProxyMap

\* Changing a map of calls keeps its type.
LEMMA MapTypes ==
    ASSUME NEW m, IsMap(m, Nat, Caller)
    PROVE  /\ \A i \in Nat, g \in Caller : IsMap(Put(m, i, g), Nat, Caller)
           /\ \A I : IsMap(Del(m, I), Nat, Caller)
BY DEF IsMap, Put, Del

\* The process dies.
LEMMA PanicType ==
    ASSUME TypeOK, Panic
    PROVE  TypeOK'
<1>1. cn' \in ConnType /\ Len(cn'.chan) <= ChanCap /\ net' \in NetType /\ Len(net'.back) <= BackCap
    BY FreshTypes DEF Panic
<1>2. call' \in [Caller -> CallType] /\ IsMap(pending', Nat, Caller) /\ rl' \in ReloadType
    BY FreshTypes DEF Panic
<1>3. cur' \in 0..conn'
    BY BoundAssumption DEF Panic, TypeOK
<1>4. past' \in [Earlier -> PastType]
    BY AbandonedType DEF Panic
<1> QED BY <1>1, <1>2, <1>3, <1>4 DEF Panic, TypeOK

\* Every step keeps the types.
LEMMA TypeStep ==
    ASSUME TypeOK, Calls, Wire, Strays, [Next]_vars
    PROVE  TypeOK'
<1> USE BoundAssumption DEF conf, rpc, rest
<1>0. /\ cn \in ConnType /\ Len(cn.chan) <= ChanCap
      /\ net \in NetType /\ Len(net.back) <= BackCap
      /\ call \in [Caller -> CallType] /\ rl \in ReloadType
    BY DEF TypeOK
<1> USE <1>0
<1>1. CASE DialFails \/ ListProxies \/ Ready \/ BackoffOver
    BY <1>1 DEF TypeOK, DialFails, ListProxies, Ready, BackoffOver, Go
<1>2. CASE Login
    <2>1. cn' \in ConnType /\ Len(cn'.chan) <= ChanCap
          /\ net' \in NetType /\ Len(net'.back) <= BackCap
        BY <1>2, FreshTypes DEF Login
    <2>2. cur' \in 0..conn' /\ conn' \in 0..MaxConn
        BY <1>2 DEF Login, TypeOK
    <2> QED BY <1>2, <2>1, <2>2 DEF Login, Go, TypeOK
<1>3. CASE CloseChan \/ StopPing \/ controlLoopEnds
    <2>1. cn' \in ConnType /\ cn'.chan = cn.chan
        BY <1>3 DEF CloseChan, StopPing, controlLoopEnds, ConnType
    <2> QED BY <1>3, <2>1 DEF CloseChan, StopPing, controlLoopEnds, Go, TypeOK
<1>4. CASE clearSession
    <2>1. cn' \in ConnType /\ Len(cn'.chan) <= ChanCap
          /\ net' \in NetType /\ Len(net'.back) <= BackCap
        <3>1. [NoConn EXCEPT !.closed = TRUE].chan = NoConn.chan
            BY DEF NoConn
        <3> QED BY <1>4, <3>1, FreshTypes DEF clearSession
    <2>2. cur' \in 0..conn'
        BY <1>4 DEF clearSession, TypeOK
    <2>3. past' \in [Earlier -> PastType]
        BY <1>4, AbandonedType DEF clearSession
    <2> QED BY <1>4, <2>1, <2>2, <2>3 DEF clearSession, Go, TypeOK
<1>5. CASE deliverPending
    <2>1. PICK a : a = Head(net.back) /\ net' = [net EXCEPT !.back = Tail(@)]
                   /\ call' = [g \in Caller |-> IF g \in Waiting(a.id)
                                                THEN [call[g] EXCEPT !.mail = a] ELSE call[g]]
        BY <1>5 DEF deliverPending
    <2>2. net.back \in Seq(Resp) /\ net.back # << >>
        BY <1>5 DEF deliverPending, NetType
    <2>3. a \in Resp /\ Tail(net.back) \in Seq(Resp) /\ Len(Tail(net.back)) = Len(net.back) - 1
          /\ Len(net.back) \in Nat
        BY <2>1, <2>2, TailFacts
    <2>4. net' \in NetType /\ net'.back = Tail(net.back)
        BY <2>1, <2>3 DEF NetType
    <2>5. Len(net'.back) <= BackCap
        BY <2>4, <2>3
    <2>6. call' \in [Caller -> CallType]
        <3>1. \A g \in Caller : [call[g] EXCEPT !.mail = a] \in CallType /\ call[g] \in CallType
            BY <2>3 DEF CallType
        <3> QED BY <2>1, <3>1
    <2> QED BY <1>5, <2>4, <2>5, <2>6 DEF deliverPending, TypeOK
<1>6. CASE writerLoopEnds
    <2>1. cn' \in ConnType /\ Len(cn'.chan) <= ChanCap
        BY <1>6, WriterEndsType
    <2> QED BY <1>6, <2>1 DEF writerLoopEnds, Worse, TypeOK
<1>7. CASE pingLoop
    <2>1. Ping \in Msg
        BY DEF Ping, Msg
    <2>2. cn' \in ConnType /\ Len(cn'.chan) <= ChanCap
        BY <1>7, <2>1, QueuedType DEF pingLoop
    <2> QED BY <1>7, <2>2 DEF pingLoop, TypeOK
<1>8. CASE PingPanics \/ ReloadPanics \/ \E g \in Caller : RegisterPanics(g)
    BY <1>8, PanicType DEF PingPanics, ReloadPanics, RegisterPanics
<1>9. ASSUME NEW g \in Caller, RegisterSend(g) PROVE TypeOK'
    <2>1. NewProxy(call[g].entry, call[g].id) \in Msg
        BY DEF NewProxy, Msg, CallType
    <2>2. cn' \in ConnType /\ Len(cn'.chan) <= ChanCap
        BY <1>9, <2>1, QueuedType DEF RegisterSend
    <2>3. call' \in [Caller -> CallType]
        BY <1>9 DEF RegisterSend, CallType
    <2> QED BY <1>9, <2>2, <2>3 DEF RegisterSend, TypeOK
<1>10. ASSUME NEW g \in Caller, RegisterTimeout(g) \/ RegisterAnswered(g) PROVE TypeOK'
    <2>0. EndCall(g) /\ slip' \in {"none", "own", "other"}
        BY <1>10 DEF RegisterTimeout, RegisterAnswered, Worse, TypeOK
    <2>1. call' \in [Caller -> CallType]
        BY <2>0, FreshTypes DEF EndCall
    <2>2. IsMap(pending', Nat, Caller)
        BY <2>0, MapTypes DEF EndCall, Forget, TypeOK
    <2>3. todo' \subseteq Entry
        BY <2>0 DEF EndCall, Return, TypeOK
    <2>4. rl' \in ReloadType
        BY <2>0 DEF EndCall, Return, ReloadType, TypeOK
    <2> QED BY <2>0, <2>1, <2>2, <2>3, <2>4 DEF EndCall, TypeOK
<1>11. ASSUME NEW g \in Caller, NEW p \in Entry, RegisterBegin(g, p) PROVE TypeOK'
    <2>0. nextReqID \in Nat /\ cur \in Nat
        BY DEF nextReqID, TypeOK
    <2>1. [st |-> "send", entry |-> p, ch |-> cur, id |-> nextReqID, mail |-> NoAnswer] \in CallType
        BY <2>0, FreshTypes DEF CallType
    <2>2. call' \in [Caller -> CallType]
        BY <1>11, <2>1 DEF RegisterBegin, TypeOK
    <2>3. IsMap(pending', Nat, Caller)
        BY <1>11, <2>0, MapTypes DEF RegisterBegin, TypeOK
    <2> QED BY <1>11, <2>2, <2>3 DEF RegisterBegin, nextReqID, TypeOK
<1>12. ASSUME NEW g \in Caller, NEW p \in Entry, RegisterUnconnected(g, p) PROVE TypeOK'
    <2>1. todo' \subseteq Entry
        BY <1>12 DEF RegisterUnconnected, Return, TypeOK
    <2>2. rl' \in ReloadType
        BY <1>12 DEF RegisterUnconnected, Return, ReloadType, TypeOK
    <2> QED BY <1>12, <2>1, <2>2 DEF RegisterUnconnected, TypeOK
<1>13. CASE ReloadLoad
    <2>1. proxies' \subseteq Entry
        BY <1>13, FileType DEF ReloadLoad, TypeOK
    <2>2. rl' \in ReloadType
        BY <1>13 DEF ReloadLoad, IdleReload, ReloadType, TypeOK
    <2> QED BY <1>13, <2>1, <2>2 DEF ReloadLoad, IdleReload, Worse, TypeOK
<1>14. CASE ReloadRejected \/ ReloadCheck \/ ReloadTurn \/ ReloadDone
    <2>1. rl' \in ReloadType
        <3>1. IdleReload \in ReloadType
            BY FreshTypes
        <3>2. CASE ReloadCheck
            BY <3>1, <3>2 DEF ReloadCheck, Changed, ReloadType, TypeOK
        <3>3. CASE ReloadTurn
            BY <3>3 DEF ReloadTurn, ReloadType
        <3> QED BY <1>14, <3>1, <3>2, <3>3 DEF ReloadRejected, ReloadDone
    <2> QED BY <1>14, <2>1 DEF ReloadRejected, ReloadCheck, ReloadTurn, ReloadDone, TypeOK
<1>15. ASSUME NEW o \in Entry, closeProxyRPC(o)
       PROVE  cn' \in ConnType /\ Len(cn'.chan) <= ChanCap /\ slip' \in {"none", "own", "other"}
    <2>1. CloseProxy(o) \in Msg
        BY DEF CloseProxy, Msg
    <2> QED BY <1>15, <2>1, QueuedType DEF closeProxyRPC, Worse, TypeOK
<1>16. ASSUME NEW p \in Entry, ReloadNext(p) PROVE TypeOK'
    <2>1. cn' \in ConnType /\ Len(cn'.chan) <= ChanCap /\ slip' \in {"none", "own", "other"}
        <3>1. CASE UNCHANGED <<cn, slip>>
            BY <3>1 DEF TypeOK
        <3>2. ASSUME NEW o \in Named(rl.old, p.name), closeProxyRPC(o)
              PROVE  cn' \in ConnType /\ Len(cn'.chan) <= ChanCap
                     /\ slip' \in {"none", "own", "other"}
            <4>1. o \in Entry
                BY DEF Named, ReloadType
            <4> QED BY <3>2, <4>1, <1>15
        <3> QED BY <1>16, <3>1, <3>2 DEF ReloadNext
    <2>2. rl' \in ReloadType
        BY <1>16 DEF ReloadNext, ReloadType, TypeOK
    <2> QED BY <1>16, <2>1, <2>2 DEF ReloadNext, TypeOK
<1>17. ASSUME NEW o \in Entry, ReloadCloseOld(o) PROVE TypeOK'
    <2>1. cn' \in ConnType /\ Len(cn'.chan) <= ChanCap /\ slip' \in {"none", "own", "other"}
        BY <1>17, <1>15 DEF ReloadCloseOld
    <2>2. rl' \in ReloadType
        BY <1>17 DEF ReloadCloseOld, ReloadType, TypeOK
    <2> QED BY <1>17, <2>1, <2>2 DEF ReloadCloseOld, TypeOK
<1>18. ASSUME NEW ty, Serve(ty)
       PROVE  cn' \in ConnType /\ Len(cn'.chan) <= ChanCap /\ Head(Inbound) = Inbound[1]
              /\ Head(Inbound) \in Msg /\ 1 \in DOMAIN Inbound
    BY <1>18, ServedType
<1>19. CASE ServeNewProxy
    <2>0. PICK m : m = Head(Inbound)
        OBVIOUS
    <2>1. m.entry \in Entry /\ m.id \in Nat
        BY <1>19, <1>18, <2>0 DEF ServeNewProxy, Serve, Wire, IsNew, Msg
    <2>2. \A ok \in BOOLEAN : Answer(m, ok) \in Resp
        BY <2>1 DEF Answer, Resp
    <2>3. net.back \in Seq(Resp) /\ Len(net.back) < BackCap
        BY <1>19 DEF ServeNewProxy, NetType
    <2>4. \A ok \in BOOLEAN : Append(net.back, Answer(m, ok)) \in Seq(Resp)
                              /\ Len(Append(net.back, Answer(m, ok))) <= BackCap
        BY <2>2, <2>3, AppendFacts
    <2>5. PICK ok \in BOOLEAN, U \in {net.table, net.table \union {m.entry}} :
             /\ net' = [net EXCEPT !.table = U, !.back = Append(@, Answer(m, ok))]
             /\ slip' = IF m.entry \in U THEN slip ELSE Blame(m.entry)
        BY <1>19, <2>0 DEF ServeNewProxy
    <2>6. U \subseteq Entry
        BY <2>1 DEF NetType
    <2>7. net' \in NetType /\ Len(net'.back) <= BackCap
        BY <2>4, <2>5, <2>6 DEF NetType
    <2>8. slip' \in {"none", "own", "other"}
        BY <2>5 DEF Blame, Worse, TypeOK
    <2> QED BY <1>18, <1>19, <2>7, <2>8 DEF ServeNewProxy, Serve, TypeOK
<1>20. CASE ServeCloseProxy
    <2>1. net' \in NetType /\ net'.back = net.back
        BY <1>20 DEF ServeCloseProxy, Without, NetType
    <2> QED BY <1>20, <1>18, <2>1 DEF ServeCloseProxy, Serve, TypeOK
<1>21. CASE ServePing
    BY <1>21, <1>18 DEF ServePing, Serve, TypeOK
<1>27. ASSUME NEW k \in Earlier, NEW m \in past[k].inbox, LateNewProxy(k, m) \/ LateCloseProxy(k, m)
       PROVE  TypeOK'
    <2>0. past \in [Earlier -> PastType] /\ past[k] \in PastType
        BY DEF TypeOK
    <2>1. PICK U : LateServed(k, m, U) /\ U \subseteq Entry
        <3>1. CASE LateNewProxy(k, m)
            <4>1. m.entry \in Entry
                BY <3>1 DEF LateNewProxy, Strays, IsNew
            <4> QED BY <2>0, <3>1, <4>1 DEF LateNewProxy, PastType
        <3>2. CASE LateCloseProxy(k, m)
            BY <2>0, <3>2 DEF LateCloseProxy, Without, PastType
        <3> QED BY <1>27, <3>1, <3>2
    <2>2. [inbox |-> past[k].inbox \ {m}, table |-> U] \in PastType
        BY <2>0, <2>1 DEF PastType
    <2>3. past' \in [Earlier -> PastType]
        BY <2>0, <2>1, <2>2 DEF LateServed
    <2> QED BY <2>1, <2>3 DEF LateServed, TypeOK
<1>22. CASE BreakLink
    <2>1. PICK k \in 0..Len(net.back) : net' = [Net(FALSE) EXCEPT !.back = SubSeq(net.back, 1, k)]
        BY <1>22 DEF BreakLink
    <2>2. SubSeq(net.back, 1, k) \in Seq(Resp) /\ Len(SubSeq(net.back, 1, k)) = k
        BY PrefixFacts DEF NetType
    <2>3. net' \in NetType /\ net'.back = SubSeq(net.back, 1, k)
        BY <2>1, <2>2 DEF Net, NetType
    <2>4. Len(net.back) \in Nat
        BY DEF NetType
    <2>5. Len(net'.back) <= BackCap
        BY <2>2, <2>3, <2>4
    <2> QED BY <1>22, <2>3, <2>5 DEF BreakLink, TypeOK
<1>23. CASE Sighup
    BY <1>23 DEF Sighup, TypeOK
<1>24. CASE Restart
    BY <1>24, FileType DEF Restart, Go, TypeOK
<1>25. ASSUME NEW f \in File, Edit(f) PROVE TypeOK'
    BY <1>25 DEF Edit, Signalled, Running, TypeOK
<1>26. CASE UNCHANGED vars
    BY <1>26 DEF vars, TypeOK
<1> QED
    BY <1>1, <1>2, <1>3, <1>4, <1>5, <1>6, <1>7, <1>8, <1>9, <1>10, <1>11, <1>12, <1>13, <1>14,
       <1>16, <1>17, <1>19, <1>20, <1>21, <1>22, <1>23, <1>24, <1>25, <1>26, <1>27 DEF Next

-----------------------------------------------------------------------------
(* Calls and pending *)

\* The callers of pending's entries are callers.
LEMMA PendingType ==
    ASSUME TypeOK, NEW i \in DOMAIN pending
    PROVE  pending[i] \in Caller /\ i \in Nat
BY DEF TypeOK, IsMap

\* After a crash no call is under way.
LEMMA PanicCalls ==
    ASSUME Panic
    PROVE  Calls'
<1>1. \A g \in Caller : ~Active(g)' /\ call'[g] = NoCall
    BY DEF Panic, Active, NoCall
<1>2. DOMAIN pending' = {}
    BY DEF Panic, Empty
<1> QED BY <1>1, <1>2 DEF Calls

\* Every step keeps the calls and pending in agreement.
LEMMA CallsStep ==
    ASSUME TypeOK, TypeOK', Calls, [Next]_vars
    PROVE  Calls'
<1> USE DEF conf, rpc, rest
<1>1. CASE UNCHANGED rpc
    BY <1>1 DEF Calls, Active
<1>2. CASE Panic
    BY <1>2, PanicCalls
<1>0. call \in [Caller -> CallType]
    BY DEF TypeOK
<1>3. ASSUME UNCHANGED <<pending, reqSeq>>,
             \A g \in Caller : /\ call'[g].entry = call[g].entry /\ call'[g].id = call[g].id
                               /\ call'[g].st # "none" <=> call[g].st # "none"
                               /\ call[g].st = "none" => call'[g] = call[g]
      PROVE  Calls'
    BY <1>3, PendingType DEF Calls, Active
<1>4. CASE deliverPending
    <2>1. PICK a : call' = [g \in Caller |-> IF g \in Waiting(a.id)
                                             THEN [call[g] EXCEPT !.mail = a] ELSE call[g]]
        BY <1>4 DEF deliverPending
    <2>2. \A g \in Caller : call[g].st = "none" => g \notin Waiting(a.id)
        BY DEF Waiting, Calls, Active
    <2>3. \A g \in Caller : LET c == [call[g] EXCEPT !.mail = a]
                             IN  c.entry = call[g].entry /\ c.id = call[g].id /\ c.st = call[g].st
        BY <1>0 DEF CallType
    <2>4. ASSUME NEW g \in Caller
          PROVE  /\ call'[g].entry = call[g].entry /\ call'[g].id = call[g].id
                 /\ call'[g].st # "none" <=> call[g].st # "none"
                 /\ call[g].st = "none" => call'[g] = call[g]
        BY <2>1, <2>2, <2>3
    <2> QED BY <1>3, <1>4, <2>4 DEF deliverPending
<1>5. ASSUME NEW g \in Caller, RegisterSend(g) PROVE Calls'
    <2>1. call' = [call EXCEPT ![g].st = "await"] /\ call[g].st = "send"
          /\ UNCHANGED <<pending, reqSeq>>
        BY <1>5 DEF RegisterSend
    <2>2. ASSUME NEW h \in Caller
          PROVE  /\ call'[h].entry = call[h].entry /\ call'[h].id = call[h].id
                 /\ call'[h].st # "none" <=> call[h].st # "none"
                 /\ call[h].st = "none" => call'[h] = call[h]
        BY <1>0, <2>1 DEF CallType
    <2> QED BY <1>3, <2>1, <2>2
<1>6. ASSUME NEW g \in Caller, NEW p \in Entry, RegisterBegin(g, p) PROVE Calls'
    <2> DEFINE n == nextReqID
    <2>1. /\ reqSeq \in Nat /\ reqSeq' = n /\ n = reqSeq + 1
          /\ pending' = Put(pending, n, g) /\ call[g] = NoCall
          /\ call' = [call EXCEPT ![g] = [st |-> "send", entry |-> p, ch |-> cur, id |-> n,
                                          mail |-> NoAnswer]]
        BY <1>6 DEF RegisterBegin, Registering, nextReqID, TypeOK
    <2>2. call \in [Caller -> CallType]
        BY DEF TypeOK
    <2>3. n \notin DOMAIN pending
        BY <2>1, PendingType DEF Calls
    <2>4. ~Active(g)
        BY <2>1 DEF Active, NoCall
    <2>5. \A h \in Caller : h # g => call'[h] = call[h]
        BY <2>1, <2>2
    <2>6. call'[g].st = "send" /\ call'[g].entry = p /\ call'[g].id = n
        BY <2>1, <2>2
    <2>7. /\ DOMAIN pending' = DOMAIN pending \union {n} /\ pending'[n] = g
          /\ \A j \in DOMAIN pending : pending'[j] = pending[j]
        BY <2>1, <2>3 DEF Put
    <2> HIDE DEF n
    <2>8. ASSUME NEW h \in Caller
          PROVE  /\ ~Active(h)' => call'[h] = NoCall
                 /\ Active(h)' => /\ call'[h].entry \in Entry
                                  /\ call'[h].id \in 1..reqSeq'
                                  /\ call'[h].id \in DOMAIN pending'
                                  /\ pending'[call'[h].id] = h
        BY <2>1, <2>5, <2>6, <2>7 DEF Calls, Active
    <2>9. ASSUME NEW i \in DOMAIN pending'
          PROVE  Active(pending[i])' /\ call'[pending'[i]].id = i
        BY <2>1, <2>3, <2>4, <2>5, <2>6, <2>7, PendingType DEF Calls, Active
    <2> QED BY <2>8, <2>9 DEF Calls
<1>7. ASSUME NEW g \in Caller, RegisterTimeout(g) \/ RegisterAnswered(g) PROVE Calls'
    <2>1. /\ call' = [call EXCEPT ![g] = NoCall] /\ UNCHANGED reqSeq
          /\ pending' = Del(pending, {call[g].id})
        BY <1>7 DEF RegisterTimeout, RegisterAnswered, EndCall, Forget
    <2>2. Active(g)
        BY <1>7 DEF RegisterTimeout, RegisterAnswered, TimedOut, Active
    <2>3. call \in [Caller -> CallType]
        BY DEF TypeOK
    <2>4. call'[g] = NoCall /\ \A h \in Caller : h # g => call'[h] = call[h]
        BY <2>1, <2>3
    <2>5. /\ DOMAIN pending' = DOMAIN pending \ {call[g].id}
          /\ \A j \in DOMAIN pending' : pending'[j] = pending[j]
        BY <2>1 DEF Del
    <2>6. \A h \in Caller : h # g /\ Active(h) => call[h].id # call[g].id
        BY <2>2 DEF Calls
    <2>7. ASSUME NEW h \in Caller
          PROVE  /\ ~Active(h)' => call'[h] = NoCall
                 /\ Active(h)' => /\ call'[h].entry \in Entry
                                  /\ call'[h].id \in 1..reqSeq'
                                  /\ call'[h].id \in DOMAIN pending'
                                  /\ pending'[call'[h].id] = h
        <3>1. CASE h = g
            BY <2>4, <3>1 DEF Active, NoCall
        <3>2. CASE h # g
            <4>1. call'[h] = call[h] /\ Active(h)' = Active(h)
                BY <2>4, <3>2 DEF Active
            <4>2. ~Active(h) => call[h] = NoCall
                BY DEF Calls
            <4>3. ASSUME Active(h)
                  PROVE  /\ call[h].entry \in Entry /\ call[h].id \in 1..reqSeq
                         /\ call[h].id \in DOMAIN pending' /\ pending'[call[h].id] = h
                BY <2>5, <2>6, <3>2, <4>3 DEF Calls
            <4> QED BY <2>1, <4>1, <4>2, <4>3
        <3> QED BY <3>1, <3>2
    <2>8. ASSUME NEW i \in DOMAIN pending'
          PROVE  Active(pending[i])' /\ call'[pending'[i]].id = i
        <3>1. i \in DOMAIN pending /\ pending'[i] = pending[i] /\ i # call[g].id
            BY <2>5
        <3>2. pending[i] \in Caller /\ pending[i] # g
            BY <3>1, PendingType DEF Calls
        <3> QED BY <2>4, <3>1, <3>2 DEF Calls, Active
    <2> QED BY <2>7, <2>8 DEF Calls
<1>8. CASE UNCHANGED vars
    BY <1>1, <1>8 DEF vars
<1> QED
    BY <1>1, <1>2, <1>4, <1>5, <1>6, <1>7, <1>8 DEF Next, DialFails, Login, ListProxies, Ready,
       CloseChan, StopPing, clearSession, BackoffOver, controlLoopEnds, writerLoopEnds, pingLoop,
       PingPanics, ReloadPanics, RegisterPanics, RegisterUnconnected, ReloadLoad, ReloadRejected,
       ReloadCheck, ReloadTurn, ReloadDone, ReloadNext, ReloadCloseOld, ServeNewProxy,
       ServeCloseProxy, ServePing, Serve, LateNewProxy, LateCloseProxy, LateServed, BreakLink,
       Sighup, Restart, Edit

-----------------------------------------------------------------------------
(* Requests and answers on the way *)

\* Fewer requests and answers are on the way, and calls may have ended.
LEMMA WireShrinks ==
    ASSUME TypeOK, Wire, reqSeq' = reqSeq,
           NEW a \in Nat, NEW b \in Nat,
           \A i \in DOMAIN Inbound' : /\ i \in Nat
                                      /\ IsNew(Inbound'[i]) => /\ i + a \in DOMAIN Inbound
                                                               /\ Inbound'[i] = Inbound[i + a],
           \A i \in DOMAIN net'.back : /\ i \in Nat /\ i + b \in DOMAIN net.back
                                       /\ net'.back[i] = net.back[i + b],
           \A g \in Caller : call'[g] = call[g] \/ call'[g] = NoCall
    PROVE  Wire'
<1>1. /\ \A i \in DOMAIN Inbound' : IsNew(Inbound'[i]) => /\ Inbound'[i].entry \in Entry
                                                          /\ Inbound'[i].id \in 1..reqSeq'
      /\ \A i \in DOMAIN net'.back : net'.back[i].id \in 1..reqSeq'
    BY DEF Wire
<1>2. \A i, j \in DOMAIN Inbound' :
         IsNew(Inbound'[i]) /\ IsNew(Inbound'[j]) /\ Inbound'[i].id = Inbound'[j].id => i = j
    BY DEF Wire
<1>3. \A i, j \in DOMAIN net'.back : net'.back[i].id = net'.back[j].id => i = j
    BY DEF Wire
<1>4. \A i \in DOMAIN Inbound', j \in DOMAIN net'.back :
         IsNew(Inbound'[i]) => Inbound'[i].id # net'.back[j].id
    BY DEF Wire
<1>5. ASSUME NEW g \in Caller
      PROVE  /\ \A i \in DOMAIN Inbound' :
                   IsNew(Inbound'[i]) /\ Inbound'[i].id = call'[g].id =>
                       /\ call'[g].st = "await" /\ call'[g].mail = NoAnswer
                       /\ call'[g].entry = Inbound'[i].entry
             /\ \A i \in DOMAIN net'.back :
                   net'.back[i].id = call'[g].id =>
                       /\ call'[g].st = "await" /\ call'[g].mail = NoAnswer
                       /\ call'[g].entry.name = net'.back[i].name
             /\ call'[g].mail # NoAnswer => /\ call'[g].st = "await"
                                            /\ call'[g].mail.id = call'[g].id
                                            /\ call'[g].mail.name = call'[g].entry.name
    <2>1. CASE call'[g] = call[g]
        BY <2>1 DEF Wire
    <2>2. CASE call'[g] = NoCall
        <3>1. call'[g].id = 0 /\ call'[g].mail = NoAnswer
            BY <2>2 DEF NoCall
        <3>2. 0 \notin 1..reqSeq'
            BY DEF TypeOK
        <3> QED BY <1>1, <3>1, <3>2
    <2> QED BY <2>1, <2>2
<1> QED BY <1>1, <1>2, <1>3, <1>4, <1>5 DEF Wire

\* A queued message is under way unless the writer has ended.
LEMMA InboundQueued ==
    ASSUME TypeOK, NEW m \in Msg, Room, cn' = Queued(m)
    PROVE  /\ Inbound \in Seq(Msg)
           /\ Inbound' = Inbound \/ Inbound' = Append(Inbound, m)
<1>1. cn \in ConnType
    BY DEF TypeOK
<1>2. cn'.chan = Append(cn.chan, m) /\ cn'.writer = cn.writer /\ cn'.sent = cn.sent
    BY <1>1, QueuedType
<1> QED BY <1>1, <1>2, InboundType DEF Inbound

\* Only pings and CloseProxy messages are added.
LEMMA WireQueues ==
    ASSUME TypeOK, Wire, NEW m \in Msg, ~IsNew(m), Room, cn' = Queued(m),
           reqSeq' = reqSeq, net' = net, call' = call
    PROVE  Wire'
<1>1. /\ Inbound \in Seq(Msg)
      /\ Inbound' = Inbound \/ Inbound' = Append(Inbound, m)
    BY InboundQueued
<1>2. \A i \in DOMAIN Inbound' :
         i \in Nat /\ (IsNew(Inbound'[i]) => /\ i + 0 \in DOMAIN Inbound
                                            /\ Inbound'[i] = Inbound[i + 0])
    BY <1>1, AppendFacts
<1>3. \A i \in DOMAIN net'.back : /\ i \in Nat /\ i + 0 \in DOMAIN net.back
                                  /\ net'.back[i] = net.back[i + 0]
    BY DEF TypeOK, NetType
<1> QED BY <1>2, <1>3, WireShrinks

\* Every step keeps requests and answers where they belong.
LEMMA WireStep ==
    ASSUME TypeOK, TypeOK', Calls, Wire, [Next]_vars
    PROVE  Wire'
<1> USE DEF conf, rpc, rest
<1>0. /\ cn \in ConnType /\ net \in NetType /\ call \in [Caller -> CallType] /\ reqSeq \in Nat
      /\ Inbound \in Seq(Msg) /\ net.back \in Seq(Resp)
    BY InboundType DEF TypeOK, NetType
<1>same. /\ \A i \in DOMAIN Inbound : i \in Nat /\ i + 0 = i
         /\ \A i \in DOMAIN net.back : i \in Nat /\ i + 0 = i
    BY <1>0
<1>1. CASE Inbound' = Inbound /\ net'.back = net.back /\ call' = call /\ reqSeq' = reqSeq
    BY <1>1 DEF Wire
<1>19. CASE UNCHANGED <<cn, net, rpc>>
    <2>1. Inbound' = Inbound
        BY <1>19 DEF Inbound
    <2> QED BY <1>1, <1>19, <2>1
<1>2. ASSUME Inbound' = << >>, net'.back = << >>,
             \A g \in Caller : call'[g] = call[g] \/ call'[g] = NoCall
      PROVE  Wire'
    <2>1. DOMAIN Inbound' = {} /\ DOMAIN net'.back = {}
        BY <1>2
    <2> QED BY <1>2, <2>1 DEF Wire, NoCall
<1>3. CASE Panic
    <2>1. Inbound' = << >> /\ net'.back = << >>
        BY <1>3 DEF Panic, NoConn, Net, Inbound
    <2> QED BY <1>2, <1>3, <2>1 DEF Panic
<1>4. CASE Login \/ clearSession
    <2>1. Inbound' = << >> /\ net'.back = << >> /\ call' = call
        BY <1>4 DEF Login, clearSession, NoConn, NewConn, Net, Inbound
    <2> QED BY <1>2, <2>1
<1>5. ASSUME Inbound # << >>, Inbound' = Tail(Inbound), net'.back = net.back, UNCHANGED rpc
      PROVE  Wire'
    <2>1. \A i \in DOMAIN Inbound' : i \in Nat /\ i + 1 \in DOMAIN Inbound
                                     /\ Inbound'[i] = Inbound[i + 1]
        BY <1>0, <1>5, TailFacts
    <2>2. \A i \in DOMAIN net'.back : /\ i \in Nat /\ i + 0 \in DOMAIN net.back
                                      /\ net'.back[i] = net.back[i + 0]
        BY <1>5, <1>same
    <2>3. call' = call /\ reqSeq' = reqSeq
        BY <1>5
    <2> QED BY <2>1, <2>2, <2>3, WireShrinks
<1>6. CASE writerLoopEnds
    <2>1. UNCHANGED rpc /\ UNCHANGED net
        BY <1>6 DEF writerLoopEnds
    <2>2. PICK k \in 0..Len(Inbound) : Inbound' = SubSeq(Inbound, 1, k)
        BY <1>6, WriterEndsType DEF TypeOK
    <2>3. \A i \in DOMAIN Inbound' : /\ i \in Nat /\ i + 0 \in DOMAIN Inbound
                                     /\ Inbound'[i] = Inbound[i + 0]
        BY <1>0, <1>same, <2>2, PrefixFacts
    <2> QED BY <1>same, <2>1, <2>3, WireShrinks
<1>7. CASE ServePing \/ ServeCloseProxy
    <2>1. Inbound # << >> /\ Inbound' = Tail(Inbound)
        BY <1>7, ServedType DEF ServePing, ServeCloseProxy, TypeOK
    <2>2. net'.back = net.back /\ UNCHANGED rpc
        BY <1>0, <1>7 DEF ServePing, ServeCloseProxy, Serve, NetType
    <2> QED BY <1>5, <2>1, <2>2
<1>8. CASE pingLoop
    <2>1. Ping \in Msg /\ ~IsNew(Ping)
        BY DEF Ping, Msg, IsNew
    <2> QED BY <1>8, <1>19, <2>1, WireQueues DEF pingLoop
<1>9. ASSUME NEW o \in Entry, closeProxyRPC(o), UNCHANGED <<net, rpc>> PROVE Wire'
    <2>1. CloseProxy(o) \in Msg /\ ~IsNew(CloseProxy(o))
        BY DEF CloseProxy, Msg, IsNew
    <2> QED BY <1>9, <1>19, <2>1, WireQueues DEF closeProxyRPC
<1>10. ASSUME NEW p \in Entry, ReloadNext(p) PROVE Wire'
    <2>1. UNCHANGED <<net, rpc>>
        BY <1>10 DEF ReloadNext
    <2>2. Named(rl.old, p.name) \subseteq Entry
        BY DEF Named, TypeOK, ReloadType
    <2> QED BY <1>9, <1>10, <1>19, <2>1, <2>2 DEF ReloadNext
<1>11. ASSUME NEW o \in Entry, ReloadCloseOld(o) PROVE Wire'
    BY <1>9, <1>11 DEF ReloadCloseOld
<1>12. CASE BreakLink
    <2>1. PICK k \in 0..Len(net.back) : net' = [Net(FALSE) EXCEPT !.back = SubSeq(net.back, 1, k)]
        BY <1>12 DEF BreakLink
    <2>2. net'.back = SubSeq(net.back, 1, k) /\ Inbound' = Inbound /\ UNCHANGED rpc
        BY <1>12, <2>1 DEF BreakLink, Net, Inbound
    <2>3. \A i \in DOMAIN net'.back : /\ i \in Nat /\ i + 0 \in DOMAIN net.back
                                      /\ net'.back[i] = net.back[i + 0]
        <3>1. \A i \in DOMAIN net'.back : i \in DOMAIN net.back /\ net'.back[i] = net.back[i]
            BY <1>0, <2>2, PrefixFacts
        <3> QED BY <1>same, <3>1
    <2>4. \A i \in DOMAIN Inbound' : /\ i \in Nat /\ i + 0 \in DOMAIN Inbound
                                     /\ Inbound'[i] = Inbound[i + 0]
        BY <1>same, <2>2
    <2> QED BY <2>2, <2>3, <2>4, WireShrinks
<1>13. ASSUME NEW g \in Caller, RegisterTimeout(g) \/ RegisterAnswered(g) PROVE Wire'
    <2>1. call' = [call EXCEPT ![g] = NoCall] /\ UNCHANGED <<cn, net, reqSeq>>
        BY <1>13 DEF RegisterTimeout, RegisterAnswered, EndCall
    <2>2. \A h \in Caller : call'[h] = call[h] \/ call'[h] = NoCall
        BY <1>0, <2>1
    <2>3. Inbound' = Inbound
        BY <2>1 DEF Inbound
    <2> QED BY <1>same, <2>1, <2>2, <2>3, WireShrinks
<1>14. ASSUME NEW g \in Caller, NEW p \in Entry, RegisterBegin(g, p) PROVE Wire'
    <2>1. /\ UNCHANGED <<cn, net>> /\ reqSeq' = reqSeq + 1
          /\ call' = [call EXCEPT ![g] = [st |-> "send", entry |-> p, ch |-> cur,
                                          id |-> reqSeq + 1, mail |-> NoAnswer]]
        BY <1>14 DEF RegisterBegin, nextReqID
    <2>2. \A h \in Caller : h # g => call'[h] = call[h]
        BY <1>0, <2>1
    <2>3. call'[g].id = reqSeq + 1 /\ call'[g].mail = NoAnswer
        BY <1>0, <2>1
    <2>4. \A i \in 1..reqSeq : i \in 1..reqSeq' /\ i # reqSeq + 1
        BY <1>0, <2>1
    <2>5. ASSUME NEW h \in Caller
          PROVE  /\ \A i \in DOMAIN Inbound :
                       IsNew(Inbound[i]) /\ Inbound[i].id = call'[h].id =>
                           /\ call'[h].st = "await" /\ call'[h].mail = NoAnswer
                           /\ call'[h].entry = Inbound[i].entry
                 /\ \A i \in DOMAIN net.back :
                       net.back[i].id = call'[h].id =>
                           /\ call'[h].st = "await" /\ call'[h].mail = NoAnswer
                           /\ call'[h].entry.name = net.back[i].name
                 /\ call'[h].mail # NoAnswer => /\ call'[h].st = "await"
                                                /\ call'[h].mail.id = call'[h].id
                                                /\ call'[h].mail.name = call'[h].entry.name
        BY <2>2, <2>3, <2>4 DEF Wire
    <2>6. Inbound' = Inbound
        BY <2>1 DEF Inbound
    <2> QED BY <2>1, <2>4, <2>5, <2>6 DEF Wire
<1>15. ASSUME NEW g \in Caller, RegisterSend(g) PROVE Wire'
    <2> DEFINE m == NewProxy(call[g].entry, call[g].id)
    <2>1. /\ UNCHANGED <<net, reqSeq>> /\ call[g].st = "send"
          /\ call' = [call EXCEPT ![g].st = "await"] /\ Room /\ cn' = Queued(m)
        BY <1>15 DEF RegisterSend
    <2>2. /\ m \in Msg /\ IsNew(m) /\ m.entry = call[g].entry /\ m.id = call[g].id
        BY <1>0 DEF NewProxy, Msg, CallType, IsNew
    <2>3. Inbound' = Inbound \/ Inbound' = Append(Inbound, m)
        BY <2>1, <2>2, InboundQueued
    <2> HIDE DEF m
    <2>4. \E n : /\ n \notin DOMAIN Inbound
                 /\ DOMAIN Inbound' \subseteq DOMAIN Inbound \union {n}
                 /\ n \in DOMAIN Inbound' => Inbound'[n] = m
                 /\ \A i \in DOMAIN Inbound : Inbound'[i] = Inbound[i]
        <3>1. Len(Inbound) + 1 \notin DOMAIN Inbound
            BY <1>0, <2>2, AppendFacts
        <3>2. CASE Inbound' = Inbound
            BY <3>1, <3>2
        <3>3. CASE Inbound' = Append(Inbound, m)
            BY <1>0, <2>2, <3>1, <3>3, AppendFacts
        <3> QED BY <2>3, <3>2, <3>3
    <2>n. PICK n : /\ n \notin DOMAIN Inbound
                   /\ DOMAIN Inbound' \subseteq DOMAIN Inbound \union {n}
                   /\ n \in DOMAIN Inbound' => Inbound'[n] = m
                   /\ \A i \in DOMAIN Inbound : Inbound'[i] = Inbound[i]
        BY <2>4
    <2>5. /\ call'[g].st = "await" /\ call'[g].id = call[g].id
          /\ call'[g].entry = call[g].entry /\ call'[g].mail = call[g].mail
          /\ \A h \in Caller : h # g => call'[h] = call[h]
        BY <1>0, <2>1 DEF CallType
    <2>6. call[g].entry \in Entry /\ call[g].id \in 1..reqSeq /\ call[g].mail = NoAnswer
        BY <2>1 DEF Calls, Active, Wire
    <2>7. /\ \A i \in DOMAIN Inbound : IsNew(Inbound[i]) => Inbound[i].id # call[g].id
          /\ \A i \in DOMAIN net.back : net.back[i].id # call[g].id
        BY <2>1 DEF Wire
    <2>8. \A h \in Caller : h # g => call[h].id # call[g].id
        <3>1. Active(g)
            BY <2>1 DEF Active
        <3>2. \A h \in Caller : ~Active(h) => call[h].id = 0
            BY DEF Calls, NoCall
        <3> QED BY <1>0, <2>6, <3>1, <3>2 DEF Calls
    <2>9. \A i \in DOMAIN Inbound' :
             IsNew(Inbound'[i]) => Inbound'[i].entry \in Entry /\ Inbound'[i].id \in 1..reqSeq
        BY <2>2, <2>n, <2>6 DEF Wire
    <2>10. \A i, j \in DOMAIN Inbound' :
              IsNew(Inbound'[i]) /\ IsNew(Inbound'[j]) /\ Inbound'[i].id = Inbound'[j].id => i = j
        BY <2>2, <2>n, <2>7 DEF Wire
    <2>11. \A i \in DOMAIN Inbound', j \in DOMAIN net.back :
              IsNew(Inbound'[i]) => Inbound'[i].id # net.back[j].id
        BY <2>2, <2>n, <2>7 DEF Wire
    <2>12. ASSUME NEW h \in Caller
           PROVE  /\ \A i \in DOMAIN Inbound' :
                        IsNew(Inbound'[i]) /\ Inbound'[i].id = call'[h].id =>
                            /\ call'[h].st = "await" /\ call'[h].mail = NoAnswer
                            /\ call'[h].entry = Inbound'[i].entry
                  /\ \A i \in DOMAIN net.back :
                        net.back[i].id = call'[h].id =>
                            /\ call'[h].st = "await" /\ call'[h].mail = NoAnswer
                            /\ call'[h].entry.name = net.back[i].name
                  /\ call'[h].mail # NoAnswer => /\ call'[h].st = "await"
                                                 /\ call'[h].mail.id = call'[h].id
                                                 /\ call'[h].mail.name = call'[h].entry.name
        <3>1. CASE h = g
            BY <3>1, <2>2, <2>n, <2>5, <2>6, <2>7
        <3>2. CASE h # g
            BY <3>2, <2>2, <2>n, <2>5, <2>8 DEF Wire
        <3> QED BY <3>1, <3>2
    <2> QED BY <2>1, <2>9, <2>10, <2>11, <2>12 DEF Wire
<1>16. CASE deliverPending
    <2>1. PICK a : /\ a = Head(net.back) /\ net.back # << >>
                   /\ net' = [net EXCEPT !.back = Tail(@)] /\ UNCHANGED <<cn, reqSeq>>
                   /\ call' = [g \in Caller |-> IF g \in Waiting(a.id)
                                                THEN [call[g] EXCEPT !.mail = a] ELSE call[g]]
        BY <1>16 DEF deliverPending
    <2>2. net'.back = Tail(net.back)
        BY <1>0, <2>1 DEF NetType
    <2>3. /\ a = net.back[1] /\ 1 \in DOMAIN net.back
          /\ \A i \in DOMAIN net'.back : /\ i \in Nat /\ i + 1 \in DOMAIN net.back /\ i + 1 # 1
                                         /\ net'.back[i] = net.back[i + 1]
        BY <1>0, <2>1, <2>2, TailFacts
    <2>4. \A i \in DOMAIN net'.back : net'.back[i].id # a.id
        BY <2>3 DEF Wire
    <2>5. ASSUME NEW g \in Caller
          PROVE  IF g \in Waiting(a.id)
                 THEN /\ call[g].id = a.id /\ call[g].st = "await"
                      /\ call[g].entry.name = a.name
                      /\ call'[g].st = "await" /\ call'[g].id = a.id /\ call'[g].mail = a
                      /\ call'[g].entry = call[g].entry
                 ELSE call'[g] = call[g]
        <3>1. CASE g \in Waiting(a.id)
            <4>1. call[g].id = a.id
                BY <3>1 DEF Waiting, Calls
            <4>2. call[g].st = "await" /\ call[g].entry.name = a.name
                BY <2>3, <4>1 DEF Wire
            <4>3. call'[g] = [call[g] EXCEPT !.mail = a]
                BY <2>1, <3>1
            <4> QED BY <1>0, <3>1, <4>1, <4>2, <4>3 DEF CallType
        <3>2. CASE g \notin Waiting(a.id)
            BY <2>1, <3>2
        <3> QED BY <3>1, <3>2
    <2>6. \A i \in DOMAIN Inbound : IsNew(Inbound[i]) => Inbound[i].id # a.id
        BY <2>3 DEF Wire
    <2>7. ASSUME NEW g \in Caller
          PROVE  /\ \A i \in DOMAIN Inbound :
                       IsNew(Inbound[i]) /\ Inbound[i].id = call'[g].id =>
                           /\ call'[g].st = "await" /\ call'[g].mail = NoAnswer
                           /\ call'[g].entry = Inbound[i].entry
                 /\ \A i \in DOMAIN net'.back :
                       net'.back[i].id = call'[g].id =>
                           /\ call'[g].st = "await" /\ call'[g].mail = NoAnswer
                           /\ call'[g].entry.name = net'.back[i].name
                 /\ call'[g].mail # NoAnswer => /\ call'[g].st = "await"
                                                /\ call'[g].mail.id = call'[g].id
                                                /\ call'[g].mail.name = call'[g].entry.name
        <3>1. CASE g \in Waiting(a.id)
            BY <3>1, <2>4, <2>5, <2>6
        <3>2. CASE g \notin Waiting(a.id)
            BY <3>2, <2>3, <2>5 DEF Wire
        <3> QED BY <3>1, <3>2
    <2>8. /\ \A i \in DOMAIN net'.back : net'.back[i].id \in 1..reqSeq
          /\ \A i, j \in DOMAIN net'.back : net'.back[i].id = net'.back[j].id => i = j
          /\ \A i \in DOMAIN Inbound, j \in DOMAIN net'.back :
                IsNew(Inbound[i]) => Inbound[i].id # net'.back[j].id
        BY <2>3 DEF Wire
    <2>9. Inbound' = Inbound
        BY <2>1 DEF Inbound
    <2> QED BY <2>1, <2>7, <2>8, <2>9 DEF Wire
<1>17. CASE ServeNewProxy
    <2> DEFINE n == Len(net.back) + 1
    <2>1. PICK m, ok : /\ m = Head(Inbound) /\ m.type = "new" /\ Inbound # << >>
                       /\ UNCHANGED rpc
                       /\ ok \in BOOLEAN /\ net'.back = Append(net.back, Answer(m, ok))
        <3>1. PICK b \in BOOLEAN, U \in {net.table, net.table \union {Head(Inbound).entry}} :
                 net' = [net EXCEPT !.table = U, !.back = Append(@, Answer(Head(Inbound), b))]
            BY <1>17 DEF ServeNewProxy
        <3>2. net'.back = Append(net.back, Answer(Head(Inbound), b))
            BY <1>0, <3>1 DEF NetType
        <3> QED BY <3>2, <1>17 DEF ServeNewProxy, Serve
    <2>2. Inbound' = Tail(Inbound)
        BY <1>17, ServedType DEF ServeNewProxy, TypeOK
    <2>3. /\ m = Inbound[1] /\ 1 \in DOMAIN Inbound
          /\ \A i \in DOMAIN Inbound' : /\ i \in Nat /\ i + 1 \in DOMAIN Inbound /\ i + 1 # 1
                                        /\ Inbound'[i] = Inbound[i + 1]
        BY <1>0, <2>1, <2>2, TailFacts
    <2>4. IsNew(m) /\ m.entry \in Entry /\ m.id \in 1..reqSeq
        BY <2>1, <2>3 DEF Wire, IsNew
    <2>5. Answer(m, ok) \in Resp /\ Answer(m, ok).id = m.id /\ Answer(m, ok).name = m.entry.name
        <3>1. m.id \in Nat /\ m.entry.name \in {p.name : p \in Entry}
            BY <1>0, <2>4
        <3> QED BY <2>1, <3>1 DEF Answer, Resp
    <2>6. /\ DOMAIN net'.back = DOMAIN net.back \union {n} /\ n \notin DOMAIN net.back
          /\ net'.back[n] = Answer(m, ok)
          /\ \A i \in DOMAIN net.back : net'.back[i] = net.back[i]
        BY <1>0, <2>1, <2>5, AppendFacts
    <2> HIDE DEF n
    <2>7. /\ \A i \in DOMAIN net.back : net.back[i].id # m.id
          /\ \A i \in DOMAIN Inbound' : IsNew(Inbound'[i]) => Inbound'[i].id # m.id
        BY <2>3, <2>4 DEF Wire
    <2>8. /\ \A i \in DOMAIN Inbound' : IsNew(Inbound'[i]) => /\ Inbound'[i].entry \in Entry
                                                              /\ Inbound'[i].id \in 1..reqSeq
          /\ \A i, j \in DOMAIN Inbound' :
               IsNew(Inbound'[i]) /\ IsNew(Inbound'[j]) /\ Inbound'[i].id = Inbound'[j].id => i = j
        BY <2>3 DEF Wire
    <2>9. /\ \A i \in DOMAIN net'.back : net'.back[i].id \in 1..reqSeq
          /\ \A i, j \in DOMAIN net'.back : net'.back[i].id = net'.back[j].id => i = j
        BY <2>4, <2>5, <2>6, <2>7 DEF Wire
    <2>10. \A i \in DOMAIN Inbound', j \in DOMAIN net'.back :
              IsNew(Inbound'[i]) => Inbound'[i].id # net'.back[j].id
        BY <2>3, <2>5, <2>6, <2>7 DEF Wire
    <2>11. ASSUME NEW g \in Caller
           PROVE  /\ \A i \in DOMAIN Inbound' :
                        IsNew(Inbound'[i]) /\ Inbound'[i].id = call[g].id =>
                            /\ call[g].st = "await" /\ call[g].mail = NoAnswer
                            /\ call[g].entry = Inbound'[i].entry
                  /\ \A i \in DOMAIN net'.back :
                        net'.back[i].id = call[g].id =>
                            /\ call[g].st = "await" /\ call[g].mail = NoAnswer
                            /\ call[g].entry.name = net'.back[i].name
                  /\ call[g].mail # NoAnswer => /\ call[g].st = "await"
                                                /\ call[g].mail.id = call[g].id
                                                /\ call[g].mail.name = call[g].entry.name
        BY <2>3, <2>4, <2>5, <2>6 DEF Wire
    <2>12. call' = call /\ reqSeq' = reqSeq
        BY <2>1
    <2> QED BY <2>8, <2>9, <2>10, <2>11, <2>12 DEF Wire
<1>18. CASE CloseChan \/ StopPing \/ controlLoopEnds
    <2>1. Inbound' = Inbound /\ UNCHANGED <<net, rpc>>
        BY <1>0, <1>18 DEF CloseChan, StopPing, controlLoopEnds, ConnType, Inbound
    <2> QED BY <1>1, <2>1
<1>20. CASE UNCHANGED vars
    BY <1>19, <1>20 DEF vars
<1> QED
    BY <1>3, <1>4, <1>6, <1>7, <1>8, <1>10, <1>11, <1>12, <1>13, <1>14, <1>15, <1>16, <1>17,
       <1>18, <1>19, <1>20
       DEF Next, DialFails, ListProxies, Ready, BackoffOver, PingPanics, ReloadPanics,
           RegisterPanics, RegisterUnconnected, ReloadLoad, ReloadRejected, ReloadCheck,
           ReloadTurn, ReloadDone, LateNewProxy, LateCloseProxy, LateServed, Sighup, Restart, Edit

\* Every step keeps the requests of abandoned connections well-formed.
LEMMA StraysStep ==
    ASSUME TypeOK, Wire, Strays, [Next]_vars
    PROVE  Strays'
<1> USE DEF conf, rpc, rest
<1>1. CASE UNCHANGED past
    BY <1>1 DEF Strays
<1>2. CASE past' = Abandoned
    <2> SUFFICES ASSUME NEW k \in Earlier, NEW m \in Abandoned[k].inbox, IsNew(m)
                 PROVE  m.entry \in Entry
        BY <1>2 DEF Strays
    <2>1. CASE m \in past[k].inbox
        BY <2>1 DEF Strays
    <2>2. ASSUME NEW i \in DOMAIN Inbound, m = Inbound[i] PROVE m.entry \in Entry
        BY <2>2 DEF Wire
    <2> QED BY <2>1, <2>2, AbandonedType
<1>3. ASSUME NEW k \in Earlier, NEW m, NEW U, LateServed(k, m, U) PROVE Strays'
    <2>1. past' = [past EXCEPT ![k] = [inbox |-> past[k].inbox \ {m}, table |-> U]]
        BY <1>3 DEF LateServed
    <2>2. past \in [Earlier -> PastType]
        BY DEF TypeOK
    <2>3. \A j \in Earlier : past'[j].inbox \subseteq past[j].inbox
        BY <2>1, <2>2
    <2> QED BY <2>3 DEF Strays
<1>4. ASSUME NEW k \in Earlier, NEW m, LateNewProxy(k, m) \/ LateCloseProxy(k, m) PROVE Strays'
    BY <1>3, <1>4 DEF LateNewProxy, LateCloseProxy
<1>5. CASE Panic \/ clearSession
    BY <1>2, <1>5 DEF Panic, clearSession
<1>6. CASE UNCHANGED vars
    BY <1>1, <1>6 DEF vars
<1> QED
    BY <1>1, <1>4, <1>5, <1>6
       DEF Next, DialFails, Login, ListProxies, Ready, CloseChan, StopPing, BackoffOver,
           controlLoopEnds, deliverPending, writerLoopEnds, pingLoop, PingPanics, ReloadPanics,
           RegisterPanics, RegisterSend, RegisterBegin, RegisterUnconnected, RegisterTimeout,
           RegisterAnswered, EndCall, ReloadLoad, ReloadRejected, ReloadCheck, ReloadTurn,
           ReloadDone, ReloadNext, ReloadCloseOld, ServeNewProxy, ServeCloseProxy, ServePing,
           Serve, BreakLink, Sighup, Restart, Edit

-----------------------------------------------------------------------------
(* Where the goroutines are *)

\* A call that ends is no longer active; the other caller is as before.
LEMMA EndedCall ==
    ASSUME TypeOK, NEW g \in Caller, call' = [call EXCEPT ![g] = NoCall]
    PROVE  ~Active(g)' /\ \A h \in Caller : h # g => call'[h] = call[h]
BY DEF TypeOK, Active, NoCall

\* Every step keeps the goroutines where the others expect them.
LEMMA PhaseStep ==
    ASSUME TypeOK, TypeOK', Calls, Phase, [Next]_vars
    PROVE  Phase'
<1> USE DEF conf, rpc, rest
<1>0. /\ call \in [Caller -> CallType] /\ net \in NetType /\ rl \in ReloadType /\ conn \in Nat
      /\ "run" \in Caller /\ "reload" \in Caller
    BY BoundAssumption DEF TypeOK, Caller
<1>1. CASE UNCHANGED <<run, cur, rl, call, todo>> /\ (net'.link => net.link)
    BY <1>1 DEF Phase, Active
<1>2. CASE Panic
    BY <1>0, <1>2 DEF Panic, Phase, Active, Net, NoCall
<1>3. CASE Login
    <2>1. /\ run = "dial" /\ run' = "list" /\ cur' = conn + 1 /\ UNCHANGED <<call, rl>>
        BY <1>3 DEF Login, Go
    <2>2. cur' # 0
        BY <1>0, <2>1
    <2> QED BY <2>1, <2>2 DEF Phase, Active
<1>4. CASE DialFails \/ ListProxies \/ Ready \/ CloseChan \/ StopPing \/ BackoffOver
    BY <1>4 DEF DialFails, ListProxies, Ready, CloseChan, StopPing, BackoffOver, Go, Phase, Active
<1>5. CASE clearSession
    BY <1>5 DEF clearSession, Go, Phase, Active, Net
<1>6. CASE Restart
    BY <1>6 DEF Restart, Go, Phase, Active
<1>7. CASE controlLoopEnds \/ writerLoopEnds \/ pingLoop \/ ServePing \/ Sighup \/ ReloadRejected
           \/ \E f \in File : Edit(f)
    BY <1>1, <1>7 DEF controlLoopEnds, writerLoopEnds, pingLoop, ServePing, Serve, Sighup,
        ReloadRejected, Edit
<1>8. CASE ServeNewProxy \/ ServeCloseProxy
    <2>1. net'.link = net.link
        BY <1>0, <1>8 DEF ServeNewProxy, ServeCloseProxy, NetType
    <2> QED BY <1>1, <1>8, <2>1 DEF ServeNewProxy, ServeCloseProxy, Serve
<1>9. CASE BreakLink
    <2>1. ~net'.link
        BY <1>9 DEF BreakLink, Net
    <2> QED BY <1>1, <1>9, <2>1 DEF BreakLink
<1>10. ASSUME UNCHANGED <<run, cur, rl, todo>>, net'.link = net.link,
              \A g \in Caller : call'[g].st # "none" <=> call[g].st # "none",
              \A g \in Caller : call'[g].entry = call[g].entry
       PROVE  Phase'
    BY <1>0, <1>10 DEF Phase, Active
<1>11. CASE deliverPending
    <2>1. PICK a : call' = [g \in Caller |-> IF g \in Waiting(a.id)
                                             THEN [call[g] EXCEPT !.mail = a] ELSE call[g]]
        BY <1>11 DEF deliverPending
    <2>2. \A g \in Caller : LET c == [call[g] EXCEPT !.mail = a]
                            IN  c.entry = call[g].entry /\ c.st = call[g].st
        BY <1>0 DEF CallType
    <2>3. net'.link = net.link /\ UNCHANGED <<run, cur, rl, todo>>
        BY <1>0, <1>11 DEF deliverPending, NetType
    <2> QED BY <1>10, <2>1, <2>2, <2>3
<1>12. ASSUME NEW g \in Caller, RegisterSend(g) PROVE Phase'
    <2>1. call' = [call EXCEPT ![g].st = "await"] /\ call[g].st = "send"
          /\ UNCHANGED <<run, cur, rl, todo, net>>
        BY <1>12 DEF RegisterSend
    <2>2. \A h \in Caller : /\ call'[h].st # "none" <=> call[h].st # "none"
                            /\ call'[h].entry = call[h].entry
        BY <1>0, <2>1 DEF CallType
    <2> QED BY <1>10, <2>1, <2>2
<1>13. ASSUME NEW g \in Caller, NEW p \in Entry, RegisterBegin(g, p) PROVE Phase'
    <2>1. /\ UNCHANGED <<run, cur, rl, todo, net>> /\ Registering(g, p)
          /\ call' = [call EXCEPT ![g] = [st |-> "send", entry |-> p, ch |-> cur, id |-> nextReqID,
                                          mail |-> NoAnswer]]
        BY <1>13 DEF RegisterBegin
    <2>2. call'[g].entry = p /\ \A h \in Caller : h # g => call'[h] = call[h]
        BY <1>0, <2>1
    <2>3. run # "crashed"
        BY <2>1 DEF Registering, Phase, IdleReload
    <2> QED BY <1>0, <2>1, <2>2, <2>3 DEF Phase, Active, Registering, Caller
<1>14. ASSUME NEW g \in Caller, NEW p \in Entry, RegisterUnconnected(g, p) PROVE Phase'
    <2>1. /\ g = "reload" /\ rl.pc = "reg" /\ call["reload"] = NoCall
        BY <1>14 DEF RegisterUnconnected, Registering, Phase
    <2>2. /\ UNCHANGED <<run, cur, call, net, todo>>
        BY <1>14, <2>1 DEF RegisterUnconnected, Return
    <2>3. ~Active("reload")
        BY <2>1 DEF Active, NoCall
    <2>4. run # "crashed"
        BY <2>1 DEF Phase, IdleReload
    <2> QED BY <2>2, <2>3, <2>4 DEF Phase, Active
<1>15. ASSUME NEW g \in Caller, RegisterTimeout(g) \/ RegisterAnswered(g) PROVE Phase'
    <2>1. /\ call' = [call EXCEPT ![g] = NoCall] /\ UNCHANGED <<run, cur, net>>
          /\ Return(g, call[g].entry)
        BY <1>15 DEF RegisterTimeout, RegisterAnswered, EndCall
    <2>2. ~Active(g)' /\ \A h \in Caller : h # g => call'[h] = call[h]
        BY <2>1, EndedCall
    <2>3. Active(g)
        BY <1>15 DEF RegisterTimeout, RegisterAnswered, TimedOut, Active
    <2>4. run # "crashed"
        BY <2>3 DEF Phase, Caller
    <2>5. CASE g = "run"
        BY <1>0, <2>1, <2>2, <2>4, <2>5 DEF Return, Phase, Active
    <2>6. CASE g = "reload"
        BY <1>0, <2>1, <2>2, <2>4, <2>6 DEF Return, Phase, Active
    <2> QED BY <2>5, <2>6 DEF Caller
<1>16. CASE ReloadLoad
    <2>1. UNCHANGED <<run, cur, net, todo, call>> /\ run # "crashed" /\ rl.pc = "idle"
        BY <1>16 DEF ReloadLoad, Running
    <2> QED BY <2>1 DEF Phase, Active
<1>17. CASE ReloadCheck \/ ReloadTurn \/ ReloadDone
    <2>1. UNCHANGED <<run, cur, net, todo, call>> /\ rl.pc \in {"check", "new", "old"}
        BY <1>17 DEF ReloadCheck, ReloadTurn, ReloadDone
    <2> QED BY <2>1 DEF Phase, Active, IdleReload
<1>18. ASSUME NEW p \in Entry, ReloadNext(p) \/ ReloadCloseOld(p) PROVE Phase'
    <2>1. UNCHANGED <<run, cur, net, todo, call>> /\ rl.pc \in {"new", "old"}
        BY <1>18 DEF ReloadNext, ReloadCloseOld
    <2> QED BY <2>1 DEF Phase, Active, IdleReload
<1>19. ASSUME NEW k, NEW m, LateNewProxy(k, m) \/ LateCloseProxy(k, m) PROVE Phase'
    BY <1>1, <1>19 DEF LateNewProxy, LateCloseProxy, LateServed
<1>20. CASE UNCHANGED vars
    BY <1>1, <1>20 DEF vars
<1> QED
    BY <1>2, <1>3, <1>4, <1>5, <1>6, <1>7, <1>8, <1>9, <1>11, <1>12, <1>13, <1>14, <1>15, <1>16,
       <1>17, <1>18, <1>19, <1>20 DEF Next, PingPanics, ReloadPanics, RegisterPanics

-----------------------------------------------------------------------------
(* The map and the agenda of Reload *)

\* A file that loads has every name once.
LEMMA LoadedNames ==
    ASSUME NEW f \in File, LoadClient(f)
    PROVE  OneName(buildProxyMap(f))
BY DEF LoadClient, OneName, buildProxyMap

\* Every step keeps Reload's agenda.
LEMMA AgendaStep ==
    ASSUME TypeOK, Calls, Phase, Agenda, [Next]_vars
    PROVE  Agenda'
<1> USE DEF conf, rpc, rest
<1>0. rl \in ReloadType /\ file \in File
    BY DEF TypeOK
<1>1. CASE UNCHANGED <<proxies, rl>>
    BY <1>1 DEF Agenda
<1>2. CASE Panic
    BY <1>2 DEF Panic, Agenda, IdleReload, OneName
<1>3. CASE Restart
    <2>1. run = "crashed" /\ rl' = rl /\ proxies' = buildProxyMap(file) /\ LoadClient(file)
        BY <1>3 DEF Restart, Go
    <2>2. rl = IdleReload
        BY <2>1 DEF Phase
    <2>3. OneName(proxies')
        BY <1>0, <2>1, LoadedNames
    <2> QED BY <2>1, <2>2, <2>3 DEF Agenda, IdleReload
<1>4. CASE ReloadLoad
    <2>1. /\ proxies' = buildProxyMap(file) /\ LoadClient(file)
          /\ rl' = [IdleReload EXCEPT !.pc = "check", !.old = proxies]
        BY <1>4 DEF ReloadLoad
    <2>2. OneName(proxies')
        BY <1>0, <2>1, LoadedNames
    <2>3. rl'.pc = "check" /\ rl'.old = proxies
        BY <2>1 DEF IdleReload
    <2> QED BY <2>2, <2>3 DEF Agenda
<1>5. CASE ReloadCheck
    <2>1. CASE cur = 0
        BY <1>5, <2>1 DEF ReloadCheck, Agenda, IdleReload, OneName
    <2>2. CASE cur # 0
        BY <1>0, <1>5, <2>2 DEF ReloadCheck, Agenda, Changed, ReloadType
    <2> QED BY <2>1, <2>2
<1>6. CASE ReloadTurn
    BY <1>0, <1>6 DEF ReloadTurn, Agenda, ReloadType
<1>7. CASE ReloadDone
    BY <1>7 DEF ReloadDone, Agenda, IdleReload, OneName
<1>8. ASSUME NEW p \in Entry, ReloadNext(p) PROVE Agenda'
    BY <1>0, <1>8 DEF ReloadNext, Agenda, ReloadType
<1>9. ASSUME NEW o \in Entry, ReloadCloseOld(o) PROVE Agenda'
    BY <1>0, <1>9 DEF ReloadCloseOld, Agenda, ReloadType
<1>10. ASSUME NEW g \in Caller, NEW p, Return(g, p), UNCHANGED proxies,
              g = "reload" => rl.pc = "reg"
       PROVE  Agenda'
    <2>1. CASE g = "run"
        BY <1>1, <1>10, <2>1 DEF Return
    <2>2. CASE g # "run"
        BY <1>0, <1>10, <2>2 DEF Return, Agenda, ReloadType, Caller
    <2> QED BY <2>1, <2>2
<1>11. ASSUME NEW g \in Caller, NEW p \in Entry, RegisterUnconnected(g, p) PROVE Agenda'
    BY <1>10, <1>11 DEF RegisterUnconnected, Registering
<1>12. ASSUME NEW g \in Caller, RegisterTimeout(g) \/ RegisterAnswered(g) PROVE Agenda'
    <2>1. Active(g)
        BY <1>12 DEF RegisterTimeout, RegisterAnswered, TimedOut, Active
    <2> QED BY <1>10, <1>12, <2>1 DEF RegisterTimeout, RegisterAnswered, EndCall, Phase
<1>13. CASE UNCHANGED vars
    BY <1>1, <1>13 DEF vars
<1> QED
    BY <1>1, <1>2, <1>3, <1>4, <1>5, <1>6, <1>7, <1>8, <1>9, <1>11, <1>12, <1>13
       DEF Next, DialFails, Login, ListProxies, Ready, CloseChan, StopPing, clearSession,
           BackoffOver, controlLoopEnds, deliverPending, writerLoopEnds, pingLoop, PingPanics,
           ReloadPanics, RegisterPanics, RegisterSend, RegisterBegin, ReloadRejected,
           ServeNewProxy, ServeCloseProxy, ServePing, Serve, LateNewProxy, LateCloseProxy,
           LateServed, BreakLink, Sighup, Edit

\* Every step keeps the map that of the file, unless a signal waits.
LEMMA LoadedStep ==
    ASSUME Loaded, [Next]_vars
    PROVE  Loaded'
<1> USE DEF conf, rpc, rest
<1>1. CASE UNCHANGED <<file, hup, proxies>> /\ (run = "crashed" => run' = "crashed")
    BY <1>1 DEF Loaded, Running
<1>2. CASE Panic
    BY <1>2 DEF Panic, Loaded, Running
<1>3. CASE Restart \/ ReloadLoad
    BY <1>3 DEF Restart, ReloadLoad, Loaded, Running
<1>4. CASE ReloadRejected
    BY <1>4 DEF ReloadRejected, Loaded, Running
<1>5. CASE Sighup \/ \E f \in File : Edit(f)
    BY <1>5 DEF Sighup, Edit, Signalled, Loaded, Running
<1>6. CASE UNCHANGED vars
    BY <1>1, <1>6 DEF vars
<1> QED
    BY <1>1, <1>2, <1>3, <1>4, <1>5, <1>6
       DEF Next, DialFails, Login, ListProxies, Ready, CloseChan, StopPing, clearSession,
           BackoffOver, Go, controlLoopEnds, deliverPending, writerLoopEnds, pingLoop, PingPanics,
           ReloadPanics, RegisterPanics, RegisterSend, RegisterBegin, RegisterUnconnected,
           RegisterTimeout, RegisterAnswered, EndCall, ReloadCheck, ReloadTurn, ReloadDone,
           ReloadNext, ReloadCloseOld, ServeNewProxy, ServeCloseProxy, ServePing, Serve,
           LateNewProxy, LateCloseProxy, LateServed, BreakLink

-----------------------------------------------------------------------------
(* What the server will have *)

\* A message at the end of the channel is handled last.
LEMMA HoldsAppend ==
    ASSUME NEW T, NEW s \in Seq(Msg), NEW m \in Msg, NEW q
    PROVE  Holds(T, Append(s, m), q) <=>
               \/ Holds(T, s, q) /\ ~IsClose(m, q.name)
               \/ IsNew(m) /\ m.entry = q
<1> DEFINE t == Append(s, m)
           n == Len(s) + 1
<1>1. /\ DOMAIN t = DOMAIN s \union {n} /\ t[n] = m /\ n \notin DOMAIN s
      /\ \A i \in DOMAIN s : t[i] = s[i] /\ i < n /\ ~(i > n) /\ n > i
      /\ ~(n > n)
    BY AppendFacts
<1>2. ~(IsNew(m) /\ IsClose(m, q.name))
    BY DEF IsNew, IsClose
<1> HIDE DEF t, n
<1> SUFFICES Holds(T, t, q) <=> \/ Holds(T, s, q) /\ ~IsClose(m, q.name)
                                \/ IsNew(m) /\ m.entry = q
    BY DEF t
<1>3. (q \in T /\ \A j \in DOMAIN t : ~IsClose(t[j], q.name)) <=>
          (q \in T /\ \A j \in DOMAIN s : ~IsClose(s[j], q.name)) /\ ~IsClose(m, q.name)
    BY <1>1
<1>4. ASSUME NEW i \in DOMAIN s
      PROVE  (\A j \in DOMAIN t : j > i => ~IsClose(t[j], q.name)) <=>
             (\A j \in DOMAIN s : j > i => ~IsClose(s[j], q.name)) /\ ~IsClose(m, q.name)
    BY <1>1
<1>5. (\A j \in DOMAIN t : j > n => ~IsClose(t[j], q.name))
    BY <1>1
<1>6. (\E i \in DOMAIN t : /\ IsNew(t[i]) /\ t[i].entry = q
                           /\ \A j \in DOMAIN t : j > i => ~IsClose(t[j], q.name)) <=>
      \/ /\ \E i \in DOMAIN s : /\ IsNew(s[i]) /\ s[i].entry = q
                                /\ \A j \in DOMAIN s : j > i => ~IsClose(s[j], q.name)
         /\ ~IsClose(m, q.name)
      \/ IsNew(m) /\ m.entry = q
    BY <1>1, <1>4, <1>5
<1> QED BY <1>2, <1>3, <1>6 DEF Holds

\* A message that leaves the channel and is handled changes nothing about the end.
LEMMA HoldsTail ==
    ASSUME NEW T, NEW U, NEW s \in Seq(Msg), s # << >>, NEW q,
           \/ IsNew(s[1]) /\ (q \in U <=> q \in T \/ q = s[1].entry)
           \/ s[1].type = "close" /\ (q \in U <=> q \in T /\ q.name # s[1].entry.name)
           \/ s[1].type = "ping" /\ (q \in U <=> q \in T)
    PROVE  Holds(U, Tail(s), q) <=> Holds(T, s, q)
<1> DEFINE t == Tail(s)
<1>1. /\ \A i \in DOMAIN t : i \in Nat /\ i >= 1 /\ i + 1 \in DOMAIN s /\ t[i] = s[i + 1]
      /\ \A i \in DOMAIN s : i \in Nat /\ i >= 1 /\ (i # 1 => i - 1 \in DOMAIN t)
      /\ 1 \in DOMAIN s
    BY TailFacts
<1> HIDE DEF t
<1>2. \A i \in DOMAIN s : i # 1 => i - 1 \in DOMAIN t /\ s[i] = t[i - 1]
    BY <1>1
<1>3. ASSUME NEW i \in DOMAIN t
      PROVE  (\A j \in DOMAIN t : j > i => ~IsClose(t[j], q.name)) <=>
             (\A j \in DOMAIN s : j > i + 1 => ~IsClose(s[j], q.name))
    <2>1. ASSUME \A j \in DOMAIN t : j > i => ~IsClose(t[j], q.name), NEW j \in DOMAIN s, j > i + 1
          PROVE  ~IsClose(s[j], q.name)
        <3>1. j - 1 \in DOMAIN t /\ s[j] = t[j - 1] /\ j - 1 > i
            BY <1>1, <1>2, <2>1
        <3> QED BY <2>1, <3>1
    <2>2. ASSUME \A j \in DOMAIN s : j > i + 1 => ~IsClose(s[j], q.name), NEW j \in DOMAIN t, j > i
          PROVE  ~IsClose(t[j], q.name)
        <3>1. j + 1 \in DOMAIN s /\ t[j] = s[j + 1] /\ j + 1 > i + 1
            BY <1>1, <2>2
        <3> QED BY <2>2, <3>1
    <2> QED BY <2>1, <2>2
<1>4. (\A j \in DOMAIN t : ~IsClose(t[j], q.name)) <=>
          (\A j \in DOMAIN s : j > 1 => ~IsClose(s[j], q.name))
    <2>1. ASSUME \A j \in DOMAIN t : ~IsClose(t[j], q.name), NEW j \in DOMAIN s, j > 1
          PROVE  ~IsClose(s[j], q.name)
        <3>1. j - 1 \in DOMAIN t /\ s[j] = t[j - 1]
            BY <1>1, <1>2, <2>1
        <3> QED BY <2>1, <3>1
    <2>2. ASSUME \A j \in DOMAIN s : j > 1 => ~IsClose(s[j], q.name), NEW j \in DOMAIN t
          PROVE  ~IsClose(t[j], q.name)
        <3>1. j + 1 \in DOMAIN s /\ t[j] = s[j + 1] /\ j + 1 > 1
            BY <1>1, <2>2
        <3> QED BY <2>2, <3>1
    <2> QED BY <2>1, <2>2
<1>5. (\A j \in DOMAIN s : ~IsClose(s[j], q.name)) <=>
          ~IsClose(s[1], q.name) /\ \A j \in DOMAIN t : ~IsClose(t[j], q.name)
    <2>1. \A j \in DOMAIN s : j = 1 \/ j > 1
        BY <1>1
    <2> QED BY <1>1, <1>4, <2>1
<1> DEFINE A(i) == /\ IsNew(s[i]) /\ s[i].entry = q
                   /\ \A j \in DOMAIN s : j > i => ~IsClose(s[j], q.name)
           B(i) == /\ IsNew(t[i]) /\ t[i].entry = q
                   /\ \A j \in DOMAIN t : j > i => ~IsClose(t[j], q.name)
<1>6. \A i \in DOMAIN t : B(i) <=> A(i + 1)
    BY <1>1, <1>3
<1>7. A(1) <=> IsNew(s[1]) /\ s[1].entry = q /\ \A j \in DOMAIN t : ~IsClose(t[j], q.name)
    BY <1>4
<1> HIDE DEF A, B
<1>8. (\E i \in DOMAIN s : A(i)) <=> A(1) \/ \E i \in DOMAIN t : B(i)
    <2>1. ASSUME NEW i \in DOMAIN s, A(i), ~A(1) PROVE \E k \in DOMAIN t : B(k)
        <3>1. i # 1 /\ i - 1 \in DOMAIN t /\ (i - 1) + 1 = i
            BY <1>1, <1>2, <2>1
        <3> QED BY <1>6, <2>1, <3>1
    <2>2. ASSUME NEW i \in DOMAIN t, B(i) PROVE \E k \in DOMAIN s : A(k)
        BY <1>1, <1>6, <2>2
    <2> QED BY <1>1, <2>1, <2>2
<1>9. Holds(T, s, q) <=> (q \in T /\ \A j \in DOMAIN s : ~IsClose(s[j], q.name))
                         \/ \E i \in DOMAIN s : A(i)
    BY DEF Holds, A
<1>10. Holds(U, t, q) <=> (q \in U /\ \A j \in DOMAIN t : ~IsClose(t[j], q.name))
                          \/ \E i \in DOMAIN t : B(i)
    BY DEF Holds, B
<1>11. Holds(U, t, q) <=> Holds(T, s, q)
    BY <1>5, <1>7, <1>8, <1>9, <1>10 DEF IsNew, IsClose
<1> QED BY <1>11 DEF t

\* A message is queued.
LEMMA UpcomingQueued ==
    ASSUME TypeOK, NEW m \in Msg, Room, cn' = Queued(m), net' = net, NEW q \in Entry
    PROVE  /\ cn'.writer = cn.writer
           /\ q \in Upcoming' <=> \/ q \in Upcoming /\ ~IsClose(m, q.name)
                                  \/ IsNew(m) /\ m.entry = q
<1>1. cn'.chan = Append(cn.chan, m) /\ cn.chan \in Seq(Msg) /\ cn'.writer = cn.writer
    BY QueuedType DEF TypeOK, ConnType
<1> QED BY <1>1, HoldsAppend DEF Upcoming

\* Reload queues a CloseProxy, or the connection is no longer one where all went well.
LEMMA UpcomingClose ==
    ASSUME TypeOK, NEW o \in Entry, closeProxyRPC(o), cur # 0, net' = net, slip' = "none",
           NEW q \in Entry
    PROVE  /\ slip = "none" /\ cn'.writer = cn.writer
           /\ q \in Upcoming' <=> q \in Upcoming /\ q.name # o.name
<1>1. CloseProxy(o) \in Msg /\ ~IsNew(CloseProxy(o))
      /\ (IsClose(CloseProxy(o), q.name) <=> q.name = o.name)
    BY DEF CloseProxy, Msg, IsNew, IsClose
<1>2. slip = "none" /\ Room /\ cn' = Queued(CloseProxy(o))
    BY DEF closeProxyRPC, Worse
<1> QED BY <1>1, <1>2, UpcomingQueued

\* The server handles a message, and the session has what was asked for.
LEMMA UpcomingServed ==
    ASSUME TypeOK, cn.writer, ServeNewProxy \/ ServeCloseProxy \/ ServePing, slip' = "none"
    PROVE  Upcoming' = Upcoming /\ slip = "none" /\ net'.link = net.link /\ cn'.writer
<1>1. cn \in ConnType /\ net \in NetType /\ cn.chan \in Seq(Msg)
    BY DEF TypeOK, ConnType
<1>2. /\ cn.chan # << >> /\ cn'.chan = Tail(cn.chan) /\ cn'.writer
      /\ Inbound = cn.chan /\ Head(cn.chan) = cn.chan[1]
    <2>1. PICK ty : Serve(ty)
        BY DEF ServeNewProxy, ServeCloseProxy, ServePing
    <2>2. cn'.writer = cn.writer /\ Inbound # << >> /\ Inbound' = Tail(Inbound)
          /\ Head(Inbound) = Inbound[1]
        BY <2>1, ServedType DEF TypeOK
    <2> QED BY <2>2 DEF Inbound
<1> DEFINE m == cn.chan[1]
<1>3. CASE ServeNewProxy
    <2>1. PICK ok, U : /\ U \in {net.table, net.table \union {m.entry}}
                       /\ net' = [net EXCEPT !.table = U, !.back = Append(@, Answer(m, ok))]
                       /\ slip' = IF m.entry \in U THEN slip ELSE Blame(m.entry)
        BY <1>2, <1>3 DEF ServeNewProxy
    <2>2. slip = "none" /\ m.entry \in U
        BY <2>1 DEF Blame, Worse
    <2>3. net'.table = U /\ net'.link = net.link
        BY <1>1, <2>1 DEF NetType
    <2>4. IsNew(m)
        BY <1>2, <1>3 DEF ServeNewProxy, Serve, IsNew
    <2>5. \A q : q \in net'.table <=> q \in net.table \/ q = m.entry
        BY <2>1, <2>2, <2>3
    <2>6. \A q \in Entry : Holds(net'.table, cn'.chan, q) <=> Holds(net.table, cn.chan, q)
        BY <1>1, <1>2, <2>4, <2>5, HoldsTail
    <2> QED BY <1>2, <2>2, <2>3, <2>6 DEF Upcoming
<1>4. CASE ServeCloseProxy
    <2>1. slip = "none" /\ m.type = "close" /\ net' = [net EXCEPT !.table = Without(@, m.entry)]
        BY <1>2, <1>4 DEF ServeCloseProxy, Serve
    <2>2. net'.table = Without(net.table, m.entry) /\ net'.link = net.link
        BY <1>1, <2>1 DEF NetType
    <2>3. \A q \in Entry : Holds(net'.table, cn'.chan, q) <=> Holds(net.table, cn.chan, q)
        <3> SUFFICES ASSUME NEW q \in Entry
                     PROVE  Holds(net'.table, cn'.chan, q) <=> Holds(net.table, cn.chan, q)
            OBVIOUS
        <3>1. q \in net'.table <=> q \in net.table /\ q.name # m.entry.name
            BY <2>2 DEF Without, Named
        <3> QED BY <1>1, <1>2, <2>1, <3>1, HoldsTail
    <2> QED BY <1>2, <2>1, <2>2, <2>3 DEF Upcoming
<1>5. CASE ServePing
    <2>1. slip = "none" /\ m.type = "ping" /\ net' = net
        BY <1>2, <1>5 DEF ServePing, Serve
    <2>2. \A q \in Entry : Holds(net'.table, cn'.chan, q) <=> Holds(net.table, cn.chan, q)
        BY <1>1, <1>2, <2>1, HoldsTail
    <2> QED BY <1>2, <2>1, <2>2 DEF Upcoming
<1> QED BY <1>3, <1>4, <1>5

\* Nothing that Outcome speaks of has changed.
LEMMA OutcomeSame ==
    ASSUME Outcome, UNCHANGED <<run, todo, proxies, rl>>, slip' = "none" => slip = "none",
           net'.link => net.link, Upcoming' = Upcoming, cn.writer => cn'.writer,
           \A g \in Caller : /\ call'[g].st = "await" => call[g].st = "await"
                             /\ call'[g].st = "await" => call'[g].entry = call[g].entry
    PROVE  Outcome'
<1>1. "run" \in Caller /\ "reload" \in Caller
    BY DEF Caller
<1>2. Live' => Live
    BY DEF Live
<1>3. \A p : (RunWill(p) => RunWill(p)') /\ (ReloadWill(p) => ReloadWill(p)')
    BY <1>1 DEF RunWill, ReloadWill
<1>4. \A q : ReloadCloses(q) => ReloadCloses(q)'
    BY DEF ReloadCloses, Named
<1> QED BY <1>2, <1>3, <1>4 DEF Outcome

\* Every step keeps the difference between map and server on somebody's agenda.
LEMMA OutcomeStep ==
    ASSUME TypeOK, TypeOK', Calls, Wire, Phase, Agenda, Outcome, [Next]_vars
    PROVE  Outcome'
<1> USE DEF conf, rpc, rest
<1>0. /\ cn \in ConnType /\ net \in NetType /\ call \in [Caller -> CallType] /\ rl \in ReloadType
      /\ proxies \subseteq Entry /\ todo \subseteq Entry
      /\ "run" \in Caller /\ "reload" \in Caller
    BY DEF TypeOK, Caller
<1>1. ASSUME run' \notin {"list", "reg", "wait"} \/ slip' # "none" \/ ~net'.link PROVE Outcome'
    BY <1>1 DEF Outcome, Live
<1>2. CASE Panic \/ Restart \/ DialFails \/ BackoffOver \/ CloseChan \/ StopPing \/ clearSession
    BY <1>1, <1>2 DEF Panic, Restart, DialFails, BackoffOver, CloseChan, StopPing, clearSession, Go
<1>3. CASE writerLoopEnds \/ BreakLink \/ \E g \in Caller : RegisterTimeout(g)
    BY <1>1, <1>3 DEF writerLoopEnds, BreakLink, RegisterTimeout, Net, Worse
<1>4. CASE controlLoopEnds \/ Sighup \/ ReloadRejected \/ \E f \in File : Edit(f)
    <2>1. cn'.chan = cn.chan /\ cn'.writer = cn.writer /\ net' = net
          /\ UNCHANGED <<run, todo, proxies, rl, slip, call>>
        BY <1>0, <1>4 DEF controlLoopEnds, Sighup, ReloadRejected, Edit, ConnType
    <2>2. Upcoming' = Upcoming
        BY <2>1 DEF Upcoming
    <2> QED BY <2>1, <2>2, OutcomeSame
<1>5. CASE pingLoop
    <2>1. Ping \in Msg /\ ~IsNew(Ping) /\ \A q : ~IsClose(Ping, q.name)
        BY DEF Ping, Msg, IsNew, IsClose
    <2>2. net' = net /\ UNCHANGED <<run, todo, proxies, rl, slip, call>>
        BY <1>5 DEF pingLoop
    <2>3. Upcoming' = Upcoming /\ cn'.writer = cn.writer
        <3>1. CASE Room
            <4>1. cn'.writer = cn.writer /\ cn'.chan = Append(cn.chan, Ping)
                BY <1>0, <1>5, <2>1, <3>1, QueuedType DEF pingLoop
            <4>2. \A q \in Entry : q \in Upcoming' <=> q \in Upcoming
                BY <1>5, <2>1, <2>2, <3>1, UpcomingQueued DEF pingLoop
            <4> QED BY <4>1, <4>2 DEF Upcoming
        <3>2. CASE ~Room
            BY <1>5, <2>2, <3>2 DEF pingLoop, Upcoming
        <3> QED BY <3>1, <3>2
    <2> QED BY <2>2, <2>3, OutcomeSame
<1>6. CASE deliverPending
    <2>1. PICK a : call' = [g \in Caller |-> IF g \in Waiting(a.id)
                                             THEN [call[g] EXCEPT !.mail = a] ELSE call[g]]
        BY <1>6 DEF deliverPending
    <2>2. \A g \in Caller : LET c == [call[g] EXCEPT !.mail = a]
                            IN  c.entry = call[g].entry /\ c.st = call[g].st
        BY <1>0 DEF CallType
    <2>3. net'.link = net.link /\ net'.table = net.table
          /\ UNCHANGED <<cn, run, todo, proxies, rl, slip>>
        BY <1>0, <1>6 DEF deliverPending, NetType
    <2>4. Upcoming' = Upcoming
        BY <2>3 DEF Upcoming
    <2> QED BY <2>1, <2>2, <2>3, <2>4, OutcomeSame
<1>7. CASE ServeNewProxy \/ ServeCloseProxy \/ ServePing
    <2>1. UNCHANGED <<run, todo, proxies, rl, call>> /\ net.link
        BY <1>7 DEF ServeNewProxy, ServeCloseProxy, ServePing, Serve
    <2>2. CASE Live'
        <3>1. slip' = "none" /\ run \in {"list", "reg", "wait"}
            BY <2>1, <2>2 DEF Live
        <3>2. slip = "none"
            BY <1>7, <3>1 DEF ServeNewProxy, ServeCloseProxy, ServePing, Blame, Worse
        <3>3. cn.writer
            BY <2>1, <3>1, <3>2 DEF Outcome, Live
        <3> QED BY <1>7, <2>1, <3>1, <3>3, UpcomingServed, OutcomeSame
    <2>3. CASE ~Live'
        BY <2>3 DEF Outcome
    <2> QED BY <2>2, <2>3
<1>8. CASE Login
    <2>1. run' = "list" /\ net'.table = {} /\ cn'.chan = << >> /\ cn'.writer
        BY <1>8 DEF Login, Go, NewConn, Net
    <2>2. Upcoming' = {}
        BY <2>1 DEF Upcoming, Holds
    <2> QED BY <2>1, <2>2 DEF Outcome
<1>9. CASE ListProxies \/ Ready
    <2>1. UNCHANGED <<cn, net, proxies, rl, slip, call>> /\ run \in {"list", "reg"}
        BY <1>9 DEF ListProxies, Ready, Go
    <2>2. Upcoming' = Upcoming /\ (Live' => Live)
        BY <2>1 DEF Upcoming, Live
    <2>3. \A q : (ReloadCloses(q) => ReloadCloses(q)') /\ (ReloadWill(q) => ReloadWill(q)')
        BY <2>1 DEF ReloadCloses, ReloadWill, Named
    <2>4. CASE ListProxies
        <3>1. run = "list" /\ run' = "reg" /\ todo' = proxies
            BY <2>4 DEF ListProxies, Go
        <3>2. call["run"].st # "await"
            BY <3>1 DEF Phase, Active
        <3>3. \A p \in proxies : RunWill(p)'
            BY <2>1, <3>1, <3>2 DEF RunWill
        <3> QED BY <2>1, <2>2, <2>3, <3>1, <3>3 DEF Outcome
    <2>5. CASE Ready
        <3>1. run = "reg" /\ run' = "wait" /\ todo = {}
            BY <2>5 DEF Ready, Go
        <3>2. \A p : ~RunWill(p)
            BY <3>1 DEF RunWill
        <3> QED BY <2>1, <2>2, <2>3, <3>1, <3>2 DEF Outcome
    <2> QED BY <1>9, <2>4, <2>5
<1>10. ASSUME NEW g \in Caller, NEW p \in Entry, RegisterBegin(g, p) PROVE Outcome'
    <2>1. /\ UNCHANGED <<run, todo, cn, net, proxies, rl, slip>>
          /\ call' = [call EXCEPT ![g] = [st |-> "send", entry |-> p, ch |-> cur, id |-> nextReqID,
                                          mail |-> NoAnswer]]
        BY <1>10 DEF RegisterBegin
    <2>2. call'[g].st = "send" /\ \A h \in Caller : h # g => call'[h] = call[h]
        BY <1>0, <2>1
    <2>3. Upcoming' = Upcoming
        BY <2>1 DEF Upcoming
    <2> QED BY <2>1, <2>2, <2>3, OutcomeSame
<1>11. ASSUME NEW g \in Caller, NEW p \in Entry, RegisterUnconnected(g, p) PROVE Outcome'
    <2>1. cur = 0 /\ run' = run
        BY <1>11 DEF RegisterUnconnected
    <2> QED BY <1>1, <2>1 DEF Phase
<1>12. ASSUME NEW g \in Caller, RegisterSend(g) PROVE Outcome'
    <2> DEFINE p == call[g].entry
               m == NewProxy(p, call[g].id)
    <2>1. /\ UNCHANGED <<run, todo, net, proxies, rl, slip>> /\ call[g].st = "send"
          /\ call' = [call EXCEPT ![g].st = "await"] /\ Room /\ cn' = Queued(m)
        BY <1>12 DEF RegisterSend
    <2>2. m \in Msg /\ IsNew(m) /\ m.entry = p /\ \A q : ~IsClose(m, q.name)
        BY <1>0 DEF NewProxy, Msg, CallType, IsNew, IsClose
    <2>3. \A q \in Entry : q \in Upcoming' <=> q \in Upcoming \/ q = p
        BY <2>1, <2>2, UpcomingQueued
    <2>w. cn'.writer = cn.writer
        BY <1>0, <2>1, <2>2, QueuedType
    <2> HIDE DEF m
    <2>4. /\ \A h \in Caller : h # g => call'[h] = call[h]
          /\ call'[g].entry = p
        BY <1>0, <2>1 DEF CallType
    <2>5. Active(g) /\ p \in Entry
        BY <2>1 DEF Active, Calls
    <2>6. ASSUME Live PROVE p \in proxies
        <3>1. CASE g = "run"
            BY <2>5, <2>6, <3>1 DEF Phase, Outcome
        <3>2. CASE g = "reload"
            BY <2>5, <3>2 DEF Phase, Agenda
        <3> QED BY <3>1, <3>2 DEF Caller
    <2>7. Live' => Live
        BY <2>1 DEF Live
    <2>8. \A q : ReloadCloses(q) => ReloadCloses(q)'
        BY <2>1 DEF ReloadCloses, Named
    <2>9. \A q : q # p => (RunWill(q) => RunWill(q)') /\ (ReloadWill(q) => ReloadWill(q)')
        <3>1. CASE g = "run"
            BY <1>0, <2>1, <2>4, <3>1 DEF RunWill, ReloadWill
        <3>2. CASE g = "reload"
            <4>1. p = rl.at /\ rl.pc = "reg"
                BY <2>5, <3>2 DEF Phase
            <4> QED BY <1>0, <2>1, <2>4, <3>2, <4>1 DEF RunWill, ReloadWill
        <3> QED BY <3>1, <3>2 DEF Caller
    <2>10. ASSUME Live, NEW q \in proxies, run # "list"
           PROVE  q \in Upcoming' \/ RunWill(q)' \/ ReloadWill(q)'
        BY <1>0, <2>3, <2>5, <2>9, <2>10 DEF Outcome
    <2>11. ASSUME Live, NEW q \in Upcoming' \ proxies PROVE ReloadCloses(q)'
        <3>1. q \in Entry
            BY DEF Upcoming
        <3> QED BY <2>3, <2>6, <2>8, <2>11, <3>1 DEF Outcome
    <2> QED BY <2>1, <2>7, <2>10, <2>11, <2>w DEF Outcome
<1>13. ASSUME NEW g \in Caller, RegisterAnswered(g) PROVE Outcome'
    <2>1. /\ UNCHANGED <<run, cn, net, proxies, slip>> /\ call[g].st = "await"
          /\ call' = [call EXCEPT ![g] = NoCall] /\ Return(g, call[g].entry)
        BY <1>13 DEF RegisterAnswered, EndCall
    <2>2. Upcoming' = Upcoming /\ (Live' => Live)
        BY <2>1 DEF Upcoming, Live
    <2>3. Active(g)
        BY <2>1 DEF Active
    <2>4. ~Active(g)' /\ \A h \in Caller : h # g => call'[h] = call[h]
        BY <2>1, EndedCall
    <2>5. CASE g = "run"
        <3>1. todo' = todo \ {call["run"].entry} /\ rl' = rl
            BY <2>1, <2>5 DEF Return
        <3>2. \A p : RunWill(p) => RunWill(p)'
            BY <2>1, <2>4, <2>5, <3>1 DEF RunWill, Active
        <3>3. \A q : (ReloadWill(q) => ReloadWill(q)') /\ (ReloadCloses(q) => ReloadCloses(q)')
            BY <1>0, <2>1, <2>4, <2>5, <3>1 DEF ReloadWill, ReloadCloses, Named
        <3> QED BY <2>1, <2>2, <3>1, <3>2, <3>3 DEF Outcome
    <2>6. CASE g = "reload"
        <3>1. todo' = todo /\ call["reload"].entry = rl.at /\ rl.pc = "reg"
            BY <2>1, <2>3, <2>6 DEF Return, Phase
        <3>2. rl'.pc = "new" /\ rl'.fresh = rl.fresh \ {rl.at} /\ rl'.old = rl.old
            BY <1>0, <2>1, <2>6, <3>1 DEF Return, ReloadType
        <3>3. \A p : RunWill(p) => RunWill(p)'
            BY <1>0, <2>1, <2>4, <2>6, <3>1 DEF RunWill
        <3>4. \A p : ReloadWill(p) => ReloadWill(p)'
            <4>1. call'["reload"].st = "none"
                BY <2>4, <2>6 DEF Active
            <4> QED BY <2>1, <2>6, <3>1, <3>2, <4>1 DEF ReloadWill
        <3>5. \A q : ReloadCloses(q) => ReloadCloses(q)'
            BY <2>1, <3>1, <3>2 DEF ReloadCloses, Named
        <3> QED BY <2>1, <2>2, <3>1, <3>3, <3>4, <3>5 DEF Outcome
    <2> QED BY <2>5, <2>6 DEF Caller
<1>14. CASE ReloadLoad
    <2>1. /\ UNCHANGED <<run, todo, cn, net, call>> /\ rl.pc = "idle"
          /\ rl' = [IdleReload EXCEPT !.pc = "check", !.old = proxies]
          /\ slip' = IF run = "reg" /\ ~(todo \subseteq proxies') THEN Worse("own") ELSE slip
        BY <1>14 DEF ReloadLoad
    <2>2. rl'.pc = "check" /\ rl'.old = proxies
        BY <2>1 DEF IdleReload
    <2>3. Upcoming' = Upcoming
        BY <2>1 DEF Upcoming
    <2>4. Live' => Live /\ (run = "reg" => todo \subseteq proxies')
        BY <2>1 DEF Live, Worse
    <2>5. \A q : ~ReloadCloses(q) /\ ~ReloadWill(q)
        BY <2>1 DEF ReloadCloses, ReloadWill
    <2>6. \A q : (RunWill(q) => RunWill(q)') /\ (q \notin proxies => ReloadWill(q)')
                 /\ (q \in proxies => ReloadCloses(q)')
        BY <2>1, <2>2 DEF RunWill, ReloadWill, ReloadCloses
    <2> QED BY <2>1, <2>3, <2>4, <2>5, <2>6 DEF Outcome
<1>15. CASE ReloadCheck
    <2>1. UNCHANGED <<run, todo, cn, net, call, proxies, slip, cur>> /\ rl.pc = "check"
        BY <1>15 DEF ReloadCheck
    <2>2. CASE cur = 0
        BY <1>1, <2>1, <2>2 DEF Phase
    <2>3. CASE cur # 0
        <3>1. rl'.pc = "new" /\ rl'.fresh = proxies \ rl.old /\ rl'.old = rl.old /\ rl'.at = rl.at
            BY <1>0, <1>15, <2>3 DEF ReloadCheck, Changed, ReloadType
        <3>2. Upcoming' = Upcoming /\ (Live' => Live)
            BY <2>1 DEF Upcoming, Live
        <3>3. call["reload"].st # "await"
            BY <2>1 DEF Phase, Active
        <3>4. \A p \in proxies : (RunWill(p) => RunWill(p)') /\ (ReloadWill(p) => ReloadWill(p)')
            BY <2>1, <3>1, <3>3 DEF RunWill, ReloadWill
        <3>5. ASSUME NEW q, q \notin proxies, ReloadCloses(q) PROVE ReloadCloses(q)'
            <4>1. q \in rl.old /\ q \in Named(rl.old, q.name)
                BY <2>1, <3>5 DEF ReloadCloses, Named
            <4>2. CASE Named(proxies, q.name) = {}
                BY <2>1, <3>1, <4>1, <4>2 DEF ReloadCloses
            <4>3. CASE Named(proxies, q.name) # {}
                <5>1. PICK p \in proxies : p.name = q.name
                    BY <4>3 DEF Named
                <5>2. p \notin rl.old
                    BY <3>5, <4>1, <5>1 DEF Agenda, OneName
                <5>3. p \in rl'.fresh
                    BY <3>1, <5>1, <5>2
                <5> QED BY <2>1, <3>1, <4>1, <5>1, <5>3 DEF ReloadCloses
            <4> QED BY <4>2, <4>3
        <3> QED BY <2>1, <3>2, <3>4, <3>5 DEF Outcome
    <2> QED BY <2>2, <2>3
<1>16. ASSUME NEW p \in Entry, ReloadNext(p) PROVE Outcome'
    <2>1. /\ UNCHANGED <<run, todo, net, call, proxies, cur>> /\ rl.pc = "new" /\ p \in rl.fresh
          /\ rl' = [rl EXCEPT !.pc = "reg", !.at = p]
        BY <1>16 DEF ReloadNext
    <2>2. rl'.pc = "reg" /\ rl'.at = p /\ rl'.fresh = rl.fresh /\ rl'.old = rl.old
        BY <1>0, <2>1 DEF ReloadType
    <2>3. p \in proxies /\ call["reload"].st # "await"
        BY <2>1 DEF Agenda, Phase, Active
    <2>4. SUFFICES ASSUME Live' PROVE Outcome'
        BY DEF Outcome
    <2>5. cur # 0 /\ slip' = "none"
        BY <2>1, <2>4 DEF Live, Phase
    <2>6. /\ slip = "none" /\ cn'.writer = cn.writer
          /\ \A q \in Entry : q \in Upcoming' =>
                q \in Upcoming /\ (q.name = p.name => Named(rl.old, q.name) = {})
          /\ \A q \in Entry : q \in Upcoming /\ q.name # p.name => q \in Upcoming'
        <3>1. CASE Named(rl.old, p.name) = {} /\ UNCHANGED <<cn, slip>>
            BY <2>1, <2>5, <3>1 DEF Upcoming
        <3>2. ASSUME NEW o \in Named(rl.old, p.name), closeProxyRPC(o)
              PROVE  /\ slip = "none" /\ cn'.writer = cn.writer
                     /\ \A q \in Entry : q \in Upcoming' <=> q \in Upcoming /\ q.name # p.name
            <4>1. o \in Entry /\ o.name = p.name
                BY <1>0 DEF Named, ReloadType
            <4> QED BY <2>1, <2>5, <3>2, <4>1, UpcomingClose
        <3> QED BY <1>16, <3>1, <3>2 DEF ReloadNext
    <2>7. Live
        BY <2>1, <2>4, <2>6 DEF Live
    <2>8. \A q \in proxies : (RunWill(q) => RunWill(q)') /\ (ReloadWill(q) => ReloadWill(q)')
        BY <2>1, <2>2, <2>3 DEF RunWill, ReloadWill
    <2>9. ReloadWill(p)'
        BY <2>1, <2>2, <2>3 DEF ReloadWill
    <2>10. ASSUME NEW q \in proxies, run # "list"
           PROVE  q \in Upcoming' \/ RunWill(q)' \/ ReloadWill(q)'
        <3>1. CASE q.name = p.name
            BY <2>3, <2>9, <3>1 DEF Agenda, OneName
        <3>2. CASE q.name # p.name
            BY <1>0, <2>6, <2>7, <2>8, <2>10, <3>2 DEF Outcome
        <3> QED BY <3>1, <3>2
    <2>11. ASSUME NEW q \in Upcoming' \ proxies PROVE ReloadCloses(q)'
        <3>1. q \in Entry
            BY DEF Upcoming
        <3>2. q \in Upcoming /\ ReloadCloses(q) /\ (q.name = p.name => Named(rl.old, q.name) = {})
            BY <2>6, <2>7, <2>11, <3>1 DEF Outcome
        <3>3. q.name # p.name
            BY <2>1, <3>2 DEF ReloadCloses
        <3> QED BY <2>1, <2>2, <3>2, <3>3 DEF ReloadCloses
    <2> QED BY <2>1, <2>6, <2>7, <2>10, <2>11 DEF Outcome
<1>17. CASE ReloadTurn \/ ReloadDone
    <2>1. UNCHANGED <<run, todo, cn, net, call, proxies, slip>> /\ rl.fresh = {}
        BY <1>17 DEF ReloadTurn, ReloadDone
    <2>2. Upcoming' = Upcoming /\ (Live' => Live)
        BY <2>1 DEF Upcoming, Live
    <2>3. \A q : ~ReloadWill(q) /\ (RunWill(q) => RunWill(q)')
        BY <1>17, <2>1 DEF ReloadTurn, ReloadDone, ReloadWill, RunWill
    <2>4. \A q : ReloadCloses(q) => ReloadCloses(q)'
        <3>1. CASE ReloadTurn
            <4>1. rl.pc = "new" /\ rl'.pc = "old"
                  /\ rl'.fresh = {o \in rl.old : Named(proxies, o.name) = {}}
                BY <1>0, <3>1 DEF ReloadTurn, ReloadType
            <4> QED BY <2>1, <4>1 DEF ReloadCloses, Named
        <3>2. CASE ReloadDone
            BY <2>1, <3>2 DEF ReloadDone, ReloadCloses, Named
        <3> QED BY <1>17, <3>1, <3>2
    <2> QED BY <2>1, <2>2, <2>3, <2>4 DEF Outcome
<1>18. ASSUME NEW o \in Entry, ReloadCloseOld(o) PROVE Outcome'
    <2>1. /\ UNCHANGED <<run, todo, net, call, proxies, cur>> /\ rl.pc = "old" /\ o \in rl.fresh
          /\ rl'.pc = "old" /\ rl'.fresh = rl.fresh \ {o} /\ closeProxyRPC(o)
        BY <1>0, <1>18 DEF ReloadCloseOld, ReloadType
    <2>2. SUFFICES ASSUME Live' PROVE Outcome'
        BY DEF Outcome
    <2>3. cur # 0 /\ slip' = "none"
        BY <2>1, <2>2 DEF Live, Phase
    <2>4. /\ slip = "none" /\ cn'.writer = cn.writer
          /\ \A q \in Entry : q \in Upcoming' <=> q \in Upcoming /\ q.name # o.name
        BY <2>1, <2>3, UpcomingClose
    <2>5. Live
        BY <2>1, <2>2, <2>4 DEF Live
    <2>6. \A q \in proxies : q.name # o.name
        BY <2>1 DEF Agenda, Named
    <2>7. \A q : ~ReloadWill(q) /\ (RunWill(q) => RunWill(q)')
        BY <2>1 DEF ReloadWill, RunWill
    <2>8. \A q : q.name # o.name /\ ReloadCloses(q) => ReloadCloses(q)'
        BY <2>1 DEF ReloadCloses, Named
    <2>9. \A q \in Upcoming' : q \in Upcoming /\ q.name # o.name
        BY <2>4 DEF Upcoming
    <2> QED BY <1>0, <2>1, <2>4, <2>5, <2>6, <2>7, <2>8, <2>9 DEF Outcome
<1>19. ASSUME UNCHANGED vars \/ \E k \in Earlier : \E m \in past[k].inbox :
                                      LateNewProxy(k, m) \/ LateCloseProxy(k, m)
       PROVE  Outcome'
    <2>1. UNCHANGED <<run, todo, proxies, rl, slip, cn, net, call>>
        BY <1>19 DEF vars, LateNewProxy, LateCloseProxy, LateServed
    <2>2. Upcoming' = Upcoming
        BY <2>1 DEF Upcoming
    <2> QED BY <2>1, <2>2, OutcomeSame
<1> QED
    BY <1>2, <1>3, <1>4, <1>5, <1>6, <1>7, <1>8, <1>9, <1>10, <1>11, <1>12, <1>13, <1>14, <1>15,
       <1>16, <1>17, <1>18, <1>19 DEF Next, PingPanics, ReloadPanics, RegisterPanics

-----------------------------------------------------------------------------
(* The invariant and what follows from it *)

\* It holds when the process has started.
LEMMA InitIInv ==
    ASSUME Init
    PROVE  IInv
<1>1. /\ file \in File /\ LoadClient(file) /\ proxies = buildProxyMap(file) /\ edits = 0
      /\ run = "dial" /\ cn = NoConn /\ net = Net(FALSE) /\ rl = IdleReload /\ reqSeq = 0
      /\ call = [g \in Caller |-> NoCall] /\ pending = Empty
      /\ past = [k \in Earlier |-> NothingLeft]
    BY FileAssumption DEF Init
<1>2. TypeOK
    <2>1. proxies \subseteq Entry
        BY <1>1, FileType
    <2>2. /\ cn \in ConnType /\ Len(cn.chan) <= ChanCap /\ net \in NetType
          /\ Len(net.back) <= BackCap /\ rl \in ReloadType
          /\ call \in [Caller -> CallType] /\ IsMap(pending, Nat, Caller)
          /\ past \in [Earlier -> PastType]
        BY <1>1, FreshTypes
    <2>3. conn = 0 /\ cur = 0 /\ todo = {} /\ hup = FALSE /\ slip = "none"
        BY DEF Init
    <2>4. edits \in 0..MaxEdit /\ conn \in 0..MaxConn /\ cur \in 0..conn /\ reqSeq \in Nat
        BY <1>1, <2>3, BoundAssumption
    <2>5. hup \in BOOLEAN
        BY <2>3
    <2> QED BY <1>1, <2>1, <2>2, <2>3, <2>4, <2>5 DEF TypeOK
<1>3. Calls
    BY <1>1 DEF Calls, Active, NoCall, Empty
<1>4. Wire
    <2>1. DOMAIN Inbound = {} /\ DOMAIN net.back = {}
        BY <1>1 DEF NoConn, Net, Inbound
    <2> QED BY <1>1, <2>1 DEF Wire, NoCall
<1>9. Strays
    BY <1>1 DEF Strays, NothingLeft
<1>5. Phase
    BY <1>1 DEF Phase, Active, NoCall, Net, Caller
<1>6. Agenda
    BY <1>1, LoadedNames DEF Agenda, IdleReload, OneName
<1>7. Loaded
    BY <1>1 DEF Loaded
<1>8. Outcome
    BY <1>1 DEF Outcome, Live
<1> QED BY <1>2, <1>3, <1>4, <1>5, <1>6, <1>7, <1>8, <1>9 DEF IInv

\* The client keeps, through timeouts, crashes, reconnects and reloads, what the
\* properties below rest on (client.go:58-463).
THEOREM Invariance == Spec => []IInv
<1>1. ASSUME IInv, [Next]_vars PROVE IInv'
    <2>1. TypeOK'
        BY <1>1, TypeStep DEF IInv
    <2> QED BY <1>1, <2>1, CallsStep, WireStep, StraysStep, PhaseStep, AgendaStep,
               LoadedStep, OutcomeStep DEF IInv
<1> QED BY <1>1, InitIInv, PTL DEF Spec

\* The client's state has its types, and the channels stay within their capacities
\* (client.go:33-52, 172, 272).
THEOREM Types == Spec => []TypeOK
<1>1. IInv => TypeOK
    BY DEF IInv
<1> QED BY <1>1, Invariance, PTL

\* pending holds exactly the calls under way, each under its own id (client.go:271-280).
THEOREM PendingIsExact == Spec => []PendingExact
<1>1. ASSUME IInv PROVE PendingExact
    <2>1. Calls /\ TypeOK
        BY <1>1 DEF IInv
    <2>2. DOMAIN pending \subseteq {call[g].id : g \in {x \in Caller : call[x].st # "none"}}
        BY <2>1, PendingType DEF Calls, Active
    <2>3. {call[g].id : g \in {x \in Caller : call[x].st # "none"}} \subseteq DOMAIN pending
        BY <2>1 DEF Calls, Active
    <2> QED BY <2>1, <2>2, <2>3 DEF PendingExact, Calls
<1> QED BY <1>1, Invariance, PTL

\* A call is given the answer to its own request only, and no answer finds the
\* channel of its call occupied (client.go:324-331).
THEOREM AnswersAreOwn == Spec => []OwnAnswer
<1>1. ASSUME IInv PROVE OwnAnswer
    <2>1. \A i \in DOMAIN net.back : \A g \in Waiting(net.back[i].id) : call[g].mail = NoAnswer
        <3> SUFFICES ASSUME NEW i \in DOMAIN net.back, NEW g \in Waiting(net.back[i].id)
                     PROVE  call[g].mail = NoAnswer
            OBVIOUS
        <3>1. g \in Caller /\ call[g].id = net.back[i].id
            BY <1>1, PendingType DEF Waiting, IInv, Calls
        <3> QED BY <1>1, <3>1 DEF IInv, Wire
    <2> QED BY <1>1, <2>1 DEF OwnAnswer, IInv, Wire
<1> QED BY <1>1, Invariance, PTL

\* Whatever happened before, and whatever frames of earlier connections come in late, a
\* client at rest on a connection where no request was refused, lost, overtaken or
\* answered in the name of a left-over has with its session what its file says
\* (client.go:184, 423-457, server/proxy.go:62-68).
THEOREM Convergence == Spec => []Converged
<1>1. ASSUME IInv, Settled, slip = "none" PROVE net.table = proxies
    <2>1. /\ run = "wait" /\ rl.pc = "idle" /\ net.link /\ cn.chan = << >>
          /\ net.table \subseteq Entry /\ proxies \subseteq Entry
        BY <1>1 DEF Settled, IInv, TypeOK, NetType
    <2>2. Upcoming = net.table
        BY <2>1 DEF Upcoming, Holds
    <2>3. \A q : ~RunWill(q) /\ ~ReloadWill(q) /\ ~ReloadCloses(q)
        BY <2>1 DEF RunWill, ReloadWill, ReloadCloses
    <2> QED BY <1>1, <2>1, <2>2, <2>3 DEF IInv, Outcome, Live
<1>2. ASSUME IInv, Settled, LoadClient(file) PROVE proxies = buildProxyMap(file)
    BY <1>2 DEF Settled, IInv, Loaded, Running
<1>3. IInv => Converged
    BY <1>1, <1>2 DEF Converged
<1> QED BY <1>3, Invariance, PTL

=============================================================================
