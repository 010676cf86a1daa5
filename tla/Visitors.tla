------------------------------ MODULE Visitors ------------------------------
(***************************************************************************)
(* The data plane of one client session: visitors that reach a proxy wait  *)
(* in the proxy's queue, the server notifies the client on the control     *)
(* stream, the client dials its local service and opens a data stream, and *)
(* the server joins the stream with the visitor at the head of the queue.  *)
(* Notifications and streams name a proxy, not a visitor.                  *)
(*                                                                         *)
(* A proxy object (Go: Proxy) is a pair <<name, i>>: the i-th registration *)
(* of that name.  Streams are anonymous, so they are counted by stage.     *)
(***************************************************************************)
EXTENDS Integers, Sequences, FiniteSets

CONSTANTS
    Visitor,        \* connections to a public endpoint
    Name,           \* proxy names
    Tcp,            \* the names of tcp proxies; the others are http (vhost)
    QueueCap,       \* capacity of Proxy.visitors (32 in the code)
    MaxGen          \* registrations of a name (bound)

ASSUME TcpAssumption == Tcp \subseteq Name
ASSUME CapAssumption == QueueCap \in Nat \ {0}
ASSUME GenAssumption == MaxGen \in Nat
ASSUME VisitorAssumption == IsFiniteSet(Visitor)

Proxy == Name \X (1..MaxGen)

VARIABLES
    sess,           \* the session: "open", "dropped" (dropSession done) or "closed"
    gen,            \* name -> number of registrations so far
    live,           \* the names registered now (Session.proxies)
    queue,          \* proxy -> visitors waiting in Proxy.visitors
    acc,            \* visitor -> where the goroutine that accepted it is
    target,         \* visitor -> the proxy object that goroutine holds
    vconn,          \* visitor -> state of its connection
    notices,        \* name -> StartWorkConn messages under way
    work,           \* name -> client goroutines in handleWorkConn that have not opened a stream
    opening,        \* name -> streams whose StreamMeta the server has not looked up
    waiting,        \* proxy -> streams waiting for a visitor in handleDataStream
    lost            \* name -> notifications given up on the way from the notice to the
                    \* lookup of its stream's proxy (history variable)

client == <<work, lost>>
vars == <<sess, gen, live, queue, acc, target, vconn, notices, client, opening, waiting>>

\* The proxy object registered under a live name.
Current(n) == <<n, gen[n]>>

IsLive(p) == p[1] \in live /\ p = Current(p[1])

InQueue(v, p) == \E i \in DOMAIN queue[p] : queue[p][i] = v

Init == /\ sess = "open"
        /\ gen = [n \in Name |-> 0]
        /\ live = {}
        /\ queue = [p \in Proxy |-> << >>]
        /\ acc = [v \in Visitor |-> "idle"]
        /\ target = [v \in Visitor |-> << >>]
        /\ vconn = [v \in Visitor |-> "none"]
        /\ notices = [n \in Name |-> 0]
        /\ work = [n \in Name |-> 0]
        /\ lost = [n \in Name |-> 0]
        /\ opening = [n \in Name |-> 0]
        /\ waiting = [p \in Proxy |-> 0]

-----------------------------------------------------------------------------
(* Registration and removal, as far as the data plane sees them *)

\* A name that is not registered gets a new proxy object with an empty queue.  The
\* control loop may do so even after another goroutine has dropped the session.
Register(n) == /\ n \notin live
               /\ gen[n] < MaxGen
               /\ gen' = [gen EXCEPT ![n] = @ + 1]
               /\ live' = live \union {n}
               /\ UNCHANGED <<sess, queue, acc, target, vconn, notices, client, opening, waiting>>

\* removeProxyLocked for the live proxies in N: their queued visitors are closed.
Remove(N) ==
    LET gone == {Current(n) : n \in N \intersect live}
    IN  /\ live' = live \ N
        /\ queue' = [p \in Proxy |-> IF p \in gone THEN << >> ELSE queue[p]]
        /\ vconn' = [v \in Visitor |-> IF \E p \in gone : InQueue(v, p) THEN "closed" ELSE vconn[v]]

\* The client takes a proxy down.
CloseProxy(n) == /\ n \in live
                 /\ Remove({n})
                 /\ UNCHANGED <<sess, gen, acc, target, notices, client, opening, waiting>>

\* The session ends: first all its proxies are removed,
DropSession == /\ sess = "open"
               /\ sess' = "dropped"
               /\ Remove(Name)
               /\ UNCHANGED <<gen, acc, target, notices, client, opening, waiting>>

\* then the connection is closed.
CloseConn == /\ sess = "dropped"
             /\ sess' = "closed"
             /\ UNCHANGED <<gen, live, queue, acc, target, vconn>>
             /\ UNCHANGED <<notices, client, opening, waiting>>

-----------------------------------------------------------------------------
(* Visitors arrive *)

\* A tcp proxy has one accept loop, which delivers one visitor at a time.
Busy(p) == \E w \in Visitor : target[w] = p /\ acc[w] \in {"arrived", "notify"}

\* proxyAcceptLoop accepts, or handleVhostConn finds the host in the table.
Arrive(v, n) == /\ acc[v] = "idle"
                /\ n \in live
                /\ n \in Tcp => ~Busy(Current(n))
                /\ acc' = [acc EXCEPT ![v] = "arrived"]
                /\ target' = [target EXCEPT ![v] = Current(n)]
                /\ vconn' = [vconn EXCEPT ![v] = "open"]
                /\ UNCHANGED <<sess, gen, live, queue, notices, client, opening, waiting>>

\* handleVhostConn: no request head in time, no Host, or a host nobody registered.
Refuse(v) == /\ acc[v] = "idle"
             /\ acc' = [acc EXCEPT ![v] = "done"]
             /\ vconn' = [vconn EXCEPT ![v] = "closed"]
             /\ UNCHANGED <<sess, gen, live, queue, target, notices, client, opening, waiting>>

\* Mutant: the queue takes one visitor too many.
RoomPastCap(p) == Len(queue[p]) <= QueueCap

Room(p) == Len(queue[p]) < QueueCap

\* deliverVisitor, first half: into the queue, or closed when the queue is full.
Enqueue(v) ==
    LET p == target[v]
    IN  /\ acc[v] = "arrived"
        /\ \/ /\ Room(p)
              /\ queue' = [queue EXCEPT ![p] = Append(@, v)]
              /\ acc' = [acc EXCEPT ![v] = "notify"]
              /\ UNCHANGED vconn
           \/ /\ ~Room(p)
              /\ acc' = [acc EXCEPT ![v] = "done"]
              /\ vconn' = [vconn EXCEPT ![v] = "closed"]
              /\ UNCHANGED queue
        /\ UNCHANGED <<sess, gen, live, target, notices, client, opening, waiting>>

\* deliverVisitor, second half: StartWorkConn is written to the control stream.
Notify(v) == /\ acc[v] = "notify"
             /\ sess # "closed"
             /\ acc' = [acc EXCEPT ![v] = "done"]
             /\ notices' = [notices EXCEPT ![target[v][1]] = @ + 1]
             /\ UNCHANGED <<sess, gen, live, queue, target, vconn, client, opening, waiting>>

\* Mutant: the connection at the head is closed, but stays in the queue.
HeadKept(q) == q

\* A receive that does not wait.
HeadTaken(q) == IF q = << >> THEN q ELSE Tail(q)

\* The write fails: whoever is at the head of the queue is taken out and closed,
\* and the visitor's own connection is closed, wherever it is.
NotifyFails(v) ==
    LET p == target[v]
        head == IF queue[p] = << >> THEN {} ELSE {Head(queue[p])}
    IN  /\ acc[v] = "notify"
        /\ acc' = [acc EXCEPT ![v] = "done"]
        /\ queue' = [queue EXCEPT ![p] = HeadTaken(@)]
        /\ vconn' = [w \in Visitor |-> IF w \in head \union {v} THEN "closed" ELSE vconn[w]]
        /\ UNCHANGED <<sess, gen, live, target, notices, client, opening, waiting>>

-----------------------------------------------------------------------------
(* The client *)

\* Mutant: a notification is dropped while another one of that name is worked on.
StartedOnce(k) == 1

\* One more goroutine.
Started(k) == k + 1

\* controlLoop reads StartWorkConn and starts handleWorkConn.
ReadNotice(n) == /\ notices[n] > 0
                 /\ notices' = [notices EXCEPT ![n] = @ - 1]
                 /\ work' = [work EXCEPT ![n] = Started(@)]
                 /\ UNCHANGED <<sess, gen, live, queue, acc, target, vconn, lost, opening, waiting>>

\* The server closes the connection before the client has read the message.
NoticeLost(n) == /\ notices[n] > 0
                 /\ sess = "closed"
                 /\ notices' = [notices EXCEPT ![n] = @ - 1]
                 /\ lost' = [lost EXCEPT ![n] = @ + 1]
                 /\ UNCHANGED <<sess, gen, live, queue, acc, target, vconn, work, opening, waiting>>

\* The local service answers; the stream is opened and its StreamMeta written.
OpenStream(n) == /\ work[n] > 0
                 /\ sess # "closed"
                 /\ work' = [work EXCEPT ![n] = @ - 1]
                 /\ opening' = [opening EXCEPT ![n] = @ + 1]
                 /\ UNCHANGED <<sess, gen, live, queue, acc, target, vconn, notices, lost, waiting>>

\* No session, an unknown name, no local service, or no stream: the client gives up silently.
GiveUp(n) == /\ work[n] > 0
             /\ work' = [work EXCEPT ![n] = @ - 1]
             /\ lost' = [lost EXCEPT ![n] = @ + 1]
             /\ UNCHANGED <<sess, gen, live, queue, acc, target, vconn, notices, opening, waiting>>

-----------------------------------------------------------------------------
(* Data streams at the server *)

\* handleDataStream reads StreamMeta and looks the proxy up.
LookUp(n) == /\ opening[n] > 0
             /\ n \in live
             /\ opening' = [opening EXCEPT ![n] = @ - 1]
             /\ waiting' = [waiting EXCEPT ![Current(n)] = @ + 1]
             /\ UNCHANGED <<sess, gen, live, queue, acc, target, vconn, notices, client>>

\* No StreamMeta within 10 s, a frame of another type or one without a name: the
\* stream is closed, whether the proxy is registered or not.  Nobody is told.
StreamRejected(n) == /\ opening[n] > 0
                     /\ opening' = [opening EXCEPT ![n] = @ - 1]
                     /\ lost' = [lost EXCEPT ![n] = @ + 1]
                     /\ UNCHANGED <<sess, gen, live, queue, acc, target, vconn>>
                     /\ UNCHANGED <<notices, work, waiting>>

\* The name is unknown: the stream is closed.
LookUpFails(n) == /\ opening[n] > 0
                  /\ n \notin live
                  /\ opening' = [opening EXCEPT ![n] = @ - 1]
                  /\ UNCHANGED <<sess, gen, live, queue, acc, target, vconn>>
                  /\ UNCHANGED <<notices, client, waiting>>

\* Mutant: the visitor is joined and stays in the queue.
Unchanged(q) == q

Received(q) == Tail(q)

\* The stream takes the visitor at the head of the queue; Join with a connection
\* that is closed already ends at once.
Take(p) == /\ waiting[p] > 0
           /\ queue[p] # << >>
           /\ waiting' = [waiting EXCEPT ![p] = @ - 1]
           /\ queue' = [queue EXCEPT ![p] = Received(@)]
           /\ vconn' = [vconn EXCEPT ![Head(queue[p])] = IF @ = "open" THEN "joined" ELSE @]
           /\ UNCHANGED <<sess, gen, live, acc, target, notices, client, opening>>

\* No visitor within 15 s: the stream is closed.  A visitor that is there is taken at once.
StreamTimeout(p) == /\ waiting[p] > 0
                    /\ queue[p] = << >>
                    /\ waiting' = [waiting EXCEPT ![p] = @ - 1]
                    /\ UNCHANGED <<sess, gen, live, queue, acc, target, vconn>>
                    /\ UNCHANGED <<notices, client, opening>>

\* One end of a joined pair ends or fails: Join closes both.
JoinEnds(v) == /\ vconn[v] = "joined"
               /\ vconn' = [vconn EXCEPT ![v] = "closed"]
               /\ UNCHANGED <<sess, gen, live, queue, acc, target>>
               /\ UNCHANGED <<notices, client, opening, waiting>>

-----------------------------------------------------------------------------
Next == \/ DropSession \/ CloseConn
        \/ \E n \in Name : \/ Register(n) \/ CloseProxy(n)
                           \/ ReadNotice(n) \/ NoticeLost(n) \/ OpenStream(n) \/ GiveUp(n)
                           \/ LookUp(n) \/ StreamRejected(n) \/ LookUpFails(n)
        \/ \E p \in Proxy : Take(p) \/ StreamTimeout(p)
        \/ \E v \in Visitor : \/ Refuse(v) \/ Enqueue(v) \/ Notify(v) \/ NotifyFails(v)
                              \/ JoinEnds(v)
                              \/ \E n \in Name : Arrive(v, n)

Spec == Init /\ [][Next]_vars

\* The connection is dead with k messages under way: heartbeats miss, the session ends.
Timeout(k) == k > 0 /\ DropSession

\* Goroutines of the server and of the client run, and dials, reads and writes have
\* deadlines.  What is under way on an open connection arrives, or the connection is
\* dead and the missing heartbeat ends the session.  A joined pair may last forever, and
\* nothing forces a session to end while its messages arrive, or a proxy.
Fairness ==
    /\ WF_vars(CloseConn)
    /\ \A v \in Visitor : /\ WF_vars(Enqueue(v))
                          /\ WF_vars(Notify(v) \/ NotifyFails(v))
    /\ \A n \in Name : /\ WF_vars(ReadNotice(n) \/ NoticeLost(n) \/ Timeout(notices[n]))
                       /\ WF_vars(OpenStream(n) \/ GiveUp(n))
                       /\ WF_vars(\/ LookUp(n) \/ StreamRejected(n) \/ LookUpFails(n)
                                  \/ Timeout(opening[n]))
    /\ \A p \in Proxy : WF_vars(Take(p))

FairSpec == Spec /\ Fairness

-----------------------------------------------------------------------------
(* Properties *)

TypeOK ==
    /\ sess \in {"open", "dropped", "closed"}
    /\ gen \in [Name -> 0..MaxGen]
    /\ live \subseteq Name
    /\ queue \in [Proxy -> Seq(Visitor)]
    /\ \A p \in Proxy : Len(queue[p]) <= QueueCap
    /\ acc \in [Visitor -> {"idle", "arrived", "notify", "done"}]
    /\ target \in [Visitor -> Proxy \union {<< >>}]
    /\ vconn \in [Visitor -> {"none", "open", "joined", "closed"}]
    /\ notices \in [Name -> Nat]
    /\ work \in [Name -> Nat]
    /\ lost \in [Name -> Nat]
    /\ opening \in [Name -> Nat]
    /\ waiting \in [Proxy -> Nat]

\* The goroutines that have put a visitor into p's queue and not yet told the client.
Notifying(p) == {v \in Visitor : target[v] = p /\ acc[v] = "notify"}

\* No visitor waits without a stream on its way: while a proxy is registered, its
\* queue is no longer than the notifications about to be sent, sent, being worked
\* on and answered by a stream, plus the ones that were lost: given up by the client
\* without a stream, by the server with the stream it could not place, or with the
\* connection.
Matched == \A n \in live :
    LET p == Current(n)
    IN  Len(queue[p]) <= Cardinality(Notifying(p)) + notices[n] + work[n] + opening[n]
                           + waiting[p] + lost[n]

\* A queued visitor is in one queue only, once, that of the proxy object it came
\* to, whatever removals, new registrations and failed notifications happen in
\* between, and it is not joined to a stream at the same time.
OnePlace == \A p \in Proxy : \A i \in DOMAIN queue[p] :
    /\ target[queue[p][i]] = p
    /\ acc[queue[p][i]] \in {"notify", "done"}
    /\ vconn[queue[p][i]] \in {"open", "closed"}
    /\ \A j \in DOMAIN queue[p] : queue[p][i] = queue[p][j] => i = j

\* A visitor in the queue of a registered proxy is taken out again, unless a
\* notification for that very name was lost on its way to a stream.
Queued(v) == \E p \in Proxy : IsLive(p) /\ InQueue(v, p)

ServedUnlessLost == \A v \in Visitor :
    Queued(v) ~> (~Queued(v) \/ lost[target[v][1]] > 0)

\* client.go:341, README:74 "if the local service cannot be reached, no stream is
\* opened and the visitor's connection is reset after a timeout": while the session
\* lasts, a visitor in the queue of a registered proxy leaves it, to be joined or closed.
QueuedResolved == \A v \in Visitor : Queued(v) ~> (~Queued(v) \/ sess # "open")

\* design.md:176 "the server closes all visitors of the client at once when the
\* connection breaks": nobody is left hanging once all proxies are gone and
\* everything has come to rest.
Quiet == /\ sess = "closed"
         /\ live = {}
         /\ \A v \in Visitor : acc[v] \in {"idle", "done"}
         /\ \A p \in Proxy : waiting[p] = 0

NobodyHangs == Quiet => \A v \in Visitor : vconn[v] # "open"
=============================================================================
