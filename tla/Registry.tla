------------------------------ MODULE Registry ------------------------------
(***************************************************************************)
(* The server's control plane: logins, kicks, control loops, the proxy     *)
(* registry (names, ports, virtual hosts) and shutdown.                    *)
(*                                                                         *)
(* A session is one control connection; its handler (handleControlConn)    *)
(* is a goroutine whose program counter is pc[se].  Everything the code    *)
(* does under Server.mu is one step.  Session.Close runs once, in two      *)
(* steps (dropSession under the lock, then conn.Close), in whichever       *)
(* goroutine called it first: the handler itself, a handler that logged in *)
(* under the same client id, or the main goroutine during shutdown.        *)
(***************************************************************************)
EXTENDS Integers, Sequences, FiniteSetsExt, GoMap

CONSTANTS
    Session,        \* control connections
    NoSession,      \* nil *Session
    Main,           \* the goroutine of Server.Run
    Client,         \* client ids, split at "/": non-empty sequences of segments
    Request,        \* NewProxy messages a client may send
    ValidLocal,     \* local addresses net.SplitHostPort accepts
    ranges,         \* Server.ranges: sequence of [min, max] records
    vhostHTTPPort,  \* cfg.VhostHTTPPort, 0 when vhost is off
    vhostDomain,    \* cfg.VhostDomain as a sequence of DNS labels
    Fold,           \* strings.ToLower on the labels that occur
    MaxInbox        \* control frames smux holds for the handler (bound)

\* proxy names, split at "/" like client ids
Name == {np.name : np \in Request}

ASSUME SessionAssumption == /\ NoSession \notin Session
                            /\ Main \notin Session
                            /\ Main # NoSession

\* ParsePortRanges rejects everything else (and ports above 65535).
PortRange == [min : Nat \ {0}, max : Nat]

ASSUME RangesAssumption ==
    /\ ranges \in Seq(PortRange)
    /\ \A i \in DOMAIN ranges : ranges[i].min <= ranges[i].max

ASSUME ClientAssumption == \A c \in Client : c # << >>

ASSUME RequestAssumption == \A np \in Request : np.customDomains \in Seq(Seq(STRING))

ASSUME InboxAssumption == MaxInbox \in Nat

VARIABLES
    up,             \* the control listener accepts connections
    sessions,       \* Server.sessions: client id -> session
    proxies,        \* Server.proxies: proxyKey -> proxy
    byPort,         \* Server.byPort: port -> proxy
    vhost,          \* Server.vhost: host -> proxy
    listening,      \* ports with an open outbound listener (Proxy.ln)
    owned,          \* Session.proxies: session -> (name -> proxy)
    clientID,       \* Session.clientID, << >> before the login
    pc,             \* where the session's handler is
    conn,           \* Session.conn as the server sees it
    once,           \* Session.closeOnce: the goroutine that runs (ran) the body
    victim,         \* goroutine -> the session it is closing (login's old)
    toClose,        \* Run's snapshot of the sessions still to be closed
    inbox           \* session -> number of buffered control frames

registry == <<sessions, proxies, byPort, vhost, listening, owned>>
handlers == <<clientID, pc, conn, once, victim, inbox>>
vars == <<up, toClose, registry, handlers>>

-----------------------------------------------------------------------------
(* Names, ports and hosts *)

\* clientID + "/" + name
proxyKey(c, n) == c \o n

Key == {proxyKey(c, n) : c \in Client, n \in Name}

\* No domain: the empty string is the sequence with one empty label.
NoDomain == <<"">>

\* Lower case and one trailing dot (an empty last label) removed; a label has no blanks.
normalizeHost(d) ==
    LET f == [i \in DOMAIN d |-> Fold[d[i]]]
    IN  IF Len(f) > 1 /\ f[Len(f)] = "" THEN SubSeq(f, 1, Len(f) - 1) ELSE f

\* The hosts an http request asks for.
Hosts(np) ==
    {normalizeHost(np.customDomains[i]) : i \in DOMAIN np.customDomains}
      \union (IF np.subdomain = NoDomain THEN {}
              ELSE {normalizeHost(np.subdomain) \o normalizeHost(vhostDomain)})

Host == UNION {Hosts(np) : np \in {r \in Request : r.type = "http"}}

portAllowed(q) == \E i \in DOMAIN ranges : q \in ranges[i].min .. ranges[i].max

\* Mutant: the scan of a range runs one port too far.
FreePortsPastEnd(r) == {q \in r.min .. r.max + 1 : q \notin DOMAIN byPort}

FreePorts(r) == {q \in r.min .. r.max : q \notin DOMAIN byPort}

\* The first free port of the first range that has one, 0 when all are taken.
allocPortLocked ==
    LET open == {i \in DOMAIN ranges : FreePorts(ranges[i]) # {}}
    IN  IF open = {} THEN 0 ELSE Min(FreePorts(ranges[Min(open)]))

Port == UNION {ranges[i].min .. ranges[i].max : i \in DOMAIN ranges}

Proxy == [session : Session, np : Request, remotePort : Nat]

\* Equal as multisets: the same elements, each as often.
SameStrings(a, b) ==
    /\ Len(a) = Len(b)
    /\ \A i \in DOMAIN a : Cardinality({j \in DOMAIN a : a[j] = a[i]})
                             = Cardinality({j \in DOMAIN b : b[j] = a[i]})

sameConfig(p, np) ==
    /\ p.np.type = np.type
    /\ p.np.local = np.local
    /\ \/ np.type = "tcp" /\ p.remotePort = np.remotePort
       \/ /\ np.type # "tcp"
          /\ p.np.subdomain = np.subdomain
          /\ SameStrings(p.np.customDomains, np.customDomains)

-----------------------------------------------------------------------------
(* Registration *)

\* The checks made before the lock is taken.
WellFormed(np) ==
    \/ /\ np.type = "tcp"
       /\ np.local \in ValidLocal
       /\ np.remotePort # 0 => portAllowed(np.remotePort)
    \/ /\ np.type = "http"
       /\ vhostHTTPPort # 0
       /\ np.subdomain # NoDomain \/ np.customDomains # << >>
       /\ np.subdomain # NoDomain => vhostDomain # NoDomain
       /\ np.local \in ValidLocal

\* The port a tcp request is given: the one it names, or one from the pool.
AskedPort(np) == IF np.remotePort = 0 THEN allocPortLocked ELSE np.remotePort

\* Mutant: hosts are not checked, the last registration wins.
HostsFreeAlways(np) == TRUE

HostsFree(np) == Hosts(np) \intersect DOMAIN vhost = {}

\* Nobody holds what the request asks for.
EndpointsFree(np) ==
    \/ /\ np.type = "tcp"
       /\ AskedPort(np) # 0
       /\ AskedPort(np) \notin DOMAIN byPort
    \/ np.type = "http" /\ HostsFree(np)

\* registerProxy passes every check and creates a proxy (tcp: if net.Listen succeeds).
Registers(se, np) == /\ WellFormed(np)
                     /\ proxyKey(clientID[se], np.name) \notin DOMAIN proxies
                     /\ EndpointsFree(np)

\* The answer is OK: a new proxy, or a live one of that key with the same configuration.
AnswersOK(se, np) ==
    LET key == proxyKey(clientID[se], np.name)
    IN  \/ Registers(se, np)
        \/ WellFormed(np) /\ key \in DOMAIN proxies /\ sameConfig(proxies[key], np)

\* The new proxy enters the tables; a tcp proxy also opens its listener.
Enter(se, np, p) ==
    /\ proxies' = Put(proxies, proxyKey(clientID[se], np.name), p)
    /\ owned' = [owned EXCEPT ![se] = Put(@, np.name, p)]
    /\ \/ /\ np.type = "tcp"
          /\ p.remotePort \notin listening
          /\ byPort' = Put(byPort, p.remotePort, p)
          /\ listening' = listening \union {p.remotePort}
          /\ UNCHANGED vhost
       \/ /\ np.type = "http"
          /\ vhost' = PutAll(vhost, Hosts(np), p)
          /\ UNCHANGED <<byPort, listening>>
    /\ UNCHANGED sessions

NewProxyRecord(se, np) ==
    [session |-> se, np |-> np,
     remotePort |-> IF np.type = "tcp" THEN AskedPort(np) ELSE 0]

\* net.Listen may fail for reasons of the operating system: nothing is registered.
registerProxy(se, np) ==
    \/ Registers(se, np) /\ Enter(se, np, NewProxyRecord(se, np))
    \/ ~(Registers(se, np) /\ np.type = "http") /\ UNCHANGED registry

\* Mutant: the hosts of a removed proxy stay in the host map.
HostsForgotten(P) == {}

\* The entries of the host map that go with the proxies in P.
HostsOf(P) == UNION {Hosts(p.np) : p \in {x \in P : x.np.type = "http"}}

\* Removes the proxies in P, all of session se, with their ports, hosts and listeners.
removeProxiesLocked(se, P) ==
    LET portsOf == {p.remotePort : p \in {x \in P : x.remotePort # 0}}
    IN  /\ proxies' = Del(proxies, {proxyKey(clientID[se], p.np.name) : p \in P})
        /\ owned' = [owned EXCEPT ![se] = Del(@, {p.np.name : p \in P})]
        /\ byPort' = Del(byPort, portsOf)
        /\ vhost' = Del(vhost, HostsOf(P))
        /\ listening' = listening \ portsOf

OwnedBy(se) == {owned[se][n] : n \in DOMAIN owned[se]}

-----------------------------------------------------------------------------
(* The life of a control connection *)

Init == /\ up = TRUE
        /\ sessions = Empty
        /\ proxies = Empty
        /\ byPort = Empty
        /\ vhost = Empty
        /\ listening = {}
        /\ owned = [se \in Session |-> Empty]
        /\ clientID = [se \in Session |-> << >>]
        /\ pc = [se \in Session |-> "new"]
        /\ conn = [se \in Session |-> "none"]
        /\ once = [se \in Session |-> NoSession]
        /\ victim = [g \in Session \union {Main} |-> NoSession]
        /\ toClose = {}
        /\ inbox = [se \in Session |-> 0]

\* acceptLoop: a connection arrives and gets a handler.
Accept(se) == /\ up
              /\ pc[se] = "new"
              /\ pc' = [pc EXCEPT ![se] = "login"]
              /\ conn' = [conn EXCEPT ![se] = "open"]
              /\ UNCHANGED <<up, toClose, registry, clientID, once, victim, inbox>>

\* TLS or smux setup fails, the first frame is late or no Login, or the login is refused.
Reject(se) == /\ pc[se] = "login"
              /\ pc' = [pc EXCEPT ![se] = "gone"]
              /\ conn' = [conn EXCEPT ![se] = "closed"]
              /\ UNCHANGED <<up, toClose, registry, clientID, once, victim, inbox>>

\* An authenticated login takes the client's place in the sessions table.
Login(se, c) ==
    /\ pc[se] = "login"
    /\ clientID' = [clientID EXCEPT ![se] = c]
    /\ sessions' = Put(sessions, c, se)
    /\ victim' = [victim EXCEPT ![se] = IF c \in DOMAIN sessions THEN sessions[c] ELSE NoSession]
    /\ pc' = [pc EXCEPT ![se] = IF c \in DOMAIN sessions THEN "kick" ELSE "greet"]
    /\ UNCHANGED <<up, toClose, proxies, byPort, vhost, listening, owned, conn, once, inbox>>

\* Goroutine g is inside se.Close().
Closing(g, se) == \/ g = se /\ pc[se] = "close"
                  \/ victim[g] = se

\* Mutant: the entry of the client is deleted although a successor holds it.
AnyEntry(se) == {clientID[se]}

\* Mutant: the entry of the client stays behind.
KeptEntry(se) == {}

\* The entry of the client, if it is still this session's.
EntryOf(se) == {c \in {clientID[se]} \intersect DOMAIN sessions : sessions[c] = se}

\* Mutant: a session that was replaced in the table is taken for released.
ReleasedIfCurrent(se) == IF EntryOf(se) = {} THEN {} ELSE OwnedBy(se)

Released(se) == OwnedBy(se)

\* The body of closeOnce starts in g: dropSession releases all that the session holds.
DropSession(g, se) ==
    /\ Closing(g, se)
    /\ once[se] = NoSession
    /\ once' = [once EXCEPT ![se] = g]
    /\ sessions' = Del(sessions, EntryOf(se))
    /\ removeProxiesLocked(se, Released(se))
    /\ UNCHANGED <<up, toClose, clientID, pc, conn, victim, inbox>>

\* Mutant: Close waits for the control loop to end before it closes the connection.
AfterLoop(se) == once[se] # NoSession /\ pc[se] \in {"close", "gone"}

\* dropSession has returned.
Dropped(se) == once[se] # NoSession

\* The body of closeOnce ends: the connection is closed.
CloseConn(se) == /\ Dropped(se)
                 /\ conn[se] = "open"
                 /\ conn' = [conn EXCEPT ![se] = "closed"]
                 /\ UNCHANGED <<up, toClose, registry, clientID, pc, once, victim, inbox>>

\* Mutant: Close returns only where it also runs.
ReturnsToRunner(g, se) == once[se] = g /\ conn[se] = "closed"

\* Mutant: the handler does not call Close (a missing defer).
NotCalled(g, se) == g = se \/ (once[se] # NoSession /\ conn[se] = "closed")

\* A call of Close by g returns once the body is done, whoever ran it.
CloseReturns(g, se) == once[se] # NoSession /\ conn[se] = "closed"

\* old.Close() returns in login.
Kicked(se) == /\ pc[se] = "kick"
              /\ CloseReturns(se, victim[se])
              /\ pc' = [pc EXCEPT ![se] = "greet"]
              /\ victim' = [victim EXCEPT ![se] = NoSession]
              /\ UNCHANGED <<up, toClose, registry, clientID, conn, once, inbox>>

\* Where a handler goes after writing to its control stream: a write can always
\* fail, and does fail once the connection is closed.
AfterWrite(se) == {"close"} \union (IF conn[se] = "open" THEN {"serve"} ELSE {})

\* LoginResp is written.
Greet(se) == /\ pc[se] = "greet"
             /\ \E next \in AfterWrite(se) : pc' = [pc EXCEPT ![se] = next]
             /\ UNCHANGED <<up, toClose, registry, clientID, conn, once, victim, inbox>>

\* smux reads a control frame from an open connection and buffers it.
Receive(se) == /\ conn[se] = "open"
               /\ pc[se] \in {"kick", "greet", "serve"}
               /\ inbox[se] < MaxInbox
               /\ inbox' = [inbox EXCEPT ![se] = @ + 1]
               /\ UNCHANGED <<up, toClose, registry, clientID, pc, conn, once, victim>>

\* controlLoop takes the next buffered frame; smux hands out buffered frames
\* even after the connection is closed.
TakeFrame(se) == /\ pc[se] = "serve"
                 /\ inbox[se] > 0
                 /\ inbox' = [inbox EXCEPT ![se] = @ - 1]
                 /\ UNCHANGED <<up, toClose, clientID, conn, once, victim>>

\* NewProxy: register, then answer.
HandleNewProxy(se, np) == /\ TakeFrame(se)
                          /\ registerProxy(se, np)
                          /\ \E next \in AfterWrite(se) : pc' = [pc EXCEPT ![se] = next]

\* CloseProxy: remove the session's proxy of that name, if it has one; no answer.
HandleCloseProxy(se, n) ==
    /\ TakeFrame(se)
    /\ removeProxiesLocked(se, {p \in OwnedBy(se) : p.np.name = n})
    /\ UNCHANGED <<sessions, pc>>

\* Ping is answered with Pong.
HandlePing(se) == /\ TakeFrame(se)
                  /\ \E next \in AfterWrite(se) : pc' = [pc EXCEPT ![se] = next]
                  /\ UNCHANGED registry

\* A frame of another type, or one that does not decode, is skipped.
SkipFrame(se) == /\ TakeFrame(se)
                 /\ UNCHANGED <<registry, pc>>

\* ReadFrame fails: a frame above the size limit.
HandleBadFrame(se) == /\ TakeFrame(se)
                      /\ pc' = [pc EXCEPT ![se] = "close"]
                      /\ UNCHANGED registry

\* Mutant: the loop goes on after read errors other than the heartbeat timeout.
ReadTimesOut(se) == inbox[se] = 0 /\ conn[se] = "open"

NothingToRead(se) == inbox[se] = 0

\* ReadFrame fails with nothing buffered: heartbeat timeout, or the connection is lost.
ReadError(se) == /\ pc[se] = "serve"
                 /\ NothingToRead(se)
                 /\ pc' = [pc EXCEPT ![se] = "close"]
                 /\ UNCHANGED <<up, toClose, registry, clientID, conn, once, victim, inbox>>

\* The handler's own se.Close() returns and the handler ends.
Exit(se) == /\ pc[se] = "close"
            /\ CloseReturns(se, se)
            /\ pc' = [pc EXCEPT ![se] = "gone"]
            /\ UNCHANGED <<up, toClose, registry, clientID, conn, once, victim, inbox>>

-----------------------------------------------------------------------------
(* Shutdown *)

\* ctx is cancelled: the listener closes and Run copies the sessions table.
BeginShutdown == /\ up
                 /\ up' = FALSE
                 /\ toClose' = {sessions[c] : c \in DOMAIN sessions}
                 /\ UNCHANGED <<registry, handlers>>

\* Run calls Close on the next session of its copy.
ShutdownClose(se) == /\ se \in toClose
                     /\ victim[Main] = NoSession
                     /\ toClose' = toClose \ {se}
                     /\ victim' = [victim EXCEPT ![Main] = se]
                     /\ UNCHANGED <<up, registry, clientID, pc, conn, once, inbox>>

\* That Close returns.
ShutdownClosed == /\ victim[Main] # NoSession
                  /\ CloseReturns(Main, victim[Main])
                  /\ victim' = [victim EXCEPT ![Main] = NoSession]
                  /\ UNCHANGED <<up, toClose, registry, clientID, pc, conn, once, inbox>>

-----------------------------------------------------------------------------
(* The dashboard *)

\* Mutant: the proxies are found by the prefix of their key.
snapshotByKey == [c \in DOMAIN sessions |->
    {proxies[k] : k \in {x \in DOMAIN proxies : SubSeq(x, 1, Len(c)) = c}}]

\* snapshot lists the clients of the sessions table, each with its session's proxies.
snapshot == [c \in DOMAIN sessions |-> OwnedBy(sessions[c])]

-----------------------------------------------------------------------------
Next == \/ BeginShutdown
        \/ ShutdownClosed
        \/ \E se \in Session :
              \/ Accept(se) \/ Reject(se) \/ Kicked(se) \/ Greet(se)
              \/ CloseConn(se) \/ Exit(se) \/ ShutdownClose(se)
              \/ Receive(se) \/ HandlePing(se) \/ SkipFrame(se)
              \/ HandleBadFrame(se) \/ ReadError(se)
              \/ \E c \in Client : Login(se, c)
              \/ \E g \in Session \union {Main} : DropSession(g, se)
              \/ \E np \in Request : HandleNewProxy(se, np)
              \/ \E n \in Name : HandleCloseProxy(se, n)

Spec == Init /\ [][Next]_vars

\* One iteration of controlLoop.
HandleFrame(se) == \/ HandlePing(se) \/ SkipFrame(se) \/ HandleBadFrame(se)
                   \/ \E np \in Request : HandleNewProxy(se, np)
                   \/ \E n \in Name : HandleCloseProxy(se, n)

\* Every goroutine that can run does run: locks are held briefly, writes have a
\* deadline of 10 s, and reads fail on a connection the server has closed.  A
\* connection may stay without a login (AcceptStream has no deadline), and one
\* that stays open may stay forever: no fairness on Login, Reject and its ReadError.
Fairness ==
    /\ WF_vars(ShutdownClosed)
    /\ WF_vars(\E se \in Session : ShutdownClose(se))
    /\ \A se \in Session :
          /\ WF_vars(\E g \in Session \union {Main} : DropSession(g, se))
          /\ WF_vars(CloseConn(se))
          /\ WF_vars(Kicked(se))
          /\ WF_vars(Greet(se))
          /\ WF_vars(HandleFrame(se))
          /\ WF_vars(conn[se] = "closed" /\ ReadError(se))
          /\ WF_vars(Exit(se))

FairSpec == Spec /\ Fairness

-----------------------------------------------------------------------------
(* Safety *)

TypeOK ==
    /\ up \in BOOLEAN
    /\ IsMap(sessions, Client, Session)
    /\ IsMap(proxies, Key, Proxy)
    /\ IsMap(byPort, Port, Proxy)
    /\ IsMap(vhost, Host, Proxy)
    /\ listening \subseteq Port
    /\ DOMAIN owned = Session
    /\ \A se \in Session : IsMap(owned[se], Name, Proxy)
    /\ clientID \in [Session -> Client \union {<< >>}]
    /\ pc \in [Session -> {"new", "login", "kick", "greet", "serve", "close", "gone"}]
    /\ conn \in [Session -> {"none", "open", "closed"}]
    /\ once \in [Session -> Session \union {Main, NoSession}]
    /\ victim \in [Session \union {Main} -> Session \union {NoSession}]
    /\ toClose \subseteq Session
    /\ inbox \in [Session -> 0..MaxInbox]

\* The five tables that registerTCPProxy, registerHTTPProxy and removeProxyLocked
\* update one after the other never disagree: whatever a session owns is under
\* its key in the registry and holds exactly its port or its hosts, and no entry
\* of the registry, of the port map or of the host map is left without owner.
Holds(p) == \/ /\ p.np.type = "tcp"
               /\ p.remotePort \in DOMAIN byPort
               /\ byPort[p.remotePort] = p
            \/ /\ p.np.type = "http"
               /\ p.remotePort = 0
               /\ \A h \in Hosts(p.np) : h \in DOMAIN vhost /\ vhost[h] = p

IsOwned(p) == /\ p.np.name \in DOMAIN owned[p.session]
              /\ owned[p.session][p.np.name] = p

OwnedAgrees == \A se \in Session : \A n \in DOMAIN owned[se] :
    LET p == owned[se][n]
        key == proxyKey(clientID[se], n)
    IN  /\ p.session = se /\ p.np.name = n
        /\ key \in DOMAIN proxies /\ proxies[key] = p
        /\ Holds(p)

ProxiesAgree == \A key \in DOMAIN proxies :
    /\ IsOwned(proxies[key])
    /\ key = proxyKey(clientID[proxies[key].session], proxies[key].np.name)

PortsAgree == /\ listening = DOMAIN byPort
              /\ \A q \in DOMAIN byPort : /\ IsOwned(byPort[q])
                                          /\ byPort[q].np.type = "tcp"
                                          /\ byPort[q].remotePort = q

HostsAgree == \A h \in DOMAIN vhost : /\ IsOwned(vhost[h])
                                      /\ vhost[h].np.type = "http"
                                      /\ h \in Hosts(vhost[h].np)

Consistent == OwnedAgrees /\ ProxiesAgree /\ PortsAgree /\ HostsAgree

\* What the handler of a session may rely on at each stage.  Before the login it
\* has nothing and nobody closes it; it waits in login for a Close exactly while it
\* closes another session, never itself; a session whose Close it runs itself has
\* left the control loop; and no handler of a logged-in session ends, and no
\* connection of one is closed, without the session having been released.
HandlerStages ==
    /\ \A se \in Session :
          /\ pc[se] \in {"new", "login"} => clientID[se] = << >> /\ conn[se] # "closed"
          /\ pc[se] \in {"kick", "greet", "serve", "close"} => clientID[se] # << >>
          /\ clientID[se] = << >> => DOMAIN owned[se] = {} /\ once[se] = NoSession
          /\ pc[se] = "kick" <=> victim[se] # NoSession
          /\ once[se] = se => pc[se] \in {"close", "gone"}
          /\ (clientID[se] # << >> /\ (pc[se] = "gone" \/ conn[se] = "closed"))
               => once[se] # NoSession
    /\ \A g \in Session \union {Main} :
          victim[g] # NoSession => victim[g] # g /\ clientID[victim[g]] # << >>
    /\ \A se \in toClose : clientID[se] # << >>

\* The sessions table never leads to a session that dropSession has already
\* released, nor to one of another client: a late Close of a replaced session
\* leaves the entry of its successor alone (server.go:180).
TableLive == \A c \in DOMAIN sessions : /\ clientID[sessions[c]] = c
                                        /\ once[sessions[c]] = NoSession

\* No session is forgotten: one that logged in and has not been released is in
\* the sessions table, or some goroutine is about to close it.
NoneForgotten == \A se \in Session :
    (clientID[se] # << >> /\ once[se] = NoSession)
       => \/ clientID[se] \in DOMAIN sessions /\ sessions[clientID[se]] = se
          \/ \E g \in Session \union {Main} : Closing(g, se)

\* A session that ended by itself (lost connection, heartbeat timeout, failed
\* write) holds no port, host or name any more, and never will again.
SelfClosedOwnsNothing == \A se \in Session : once[se] = se => DOMAIN owned[se] = {}

\* What the dashboard shows is true and complete: a proxy is listed under the client
\* that registered it and serves its endpoints, and a live proxy that is not listed
\* belongs to a session that is being closed, or was closed by others while its
\* control loop went on (dashboard.go:34).
DashboardTrue ==
    /\ \A c \in DOMAIN snapshot : \A p \in snapshot[c] : clientID[p.session] = c /\ Holds(p)
    /\ \A k \in DOMAIN proxies :
          LET se == proxies[k].session
          IN  \/ \E c \in DOMAIN snapshot : proxies[k] \in snapshot[c]
              \/ \E g \in Session \union {Main} : Closing(g, se)
              \/ once[se] \notin {NoSession, se}

\* design.md:95 "release the port as soon as the client is disconnected": once the
\* handler of a session has ended, the session holds nothing.
GoneOwnsNothing == \A se \in Session : pc[se] = "gone" => DOMAIN owned[se] = {}

\* proxy.go:47, design.md:171: repeating the NewProxy that created a live proxy succeeds.
Idempotent == \A se \in Session : \A n \in DOMAIN owned[se] : AnswersOK(se, owned[se][n].np)

-----------------------------------------------------------------------------
(* Liveness *)

\* However many logins of one client replace each other while they wait for each
\* other's Close, each accepted one is answered or ends: old.Close() in login never
\* waits forever for the closeOnce of another goroutine.
LoginResolved == \A se \in Session : pc[se] \in {"kick", "greet"} ~> pc[se] \in {"serve", "gone"}

\* A session that was released, by whomever, comes to its end: its connection is
\* closed and its handler stops.
ReleasedEnds == \A se \in Session : once[se] # NoSession ~> pc[se] = "gone"

\* Run gets through its list of sessions and can return.
ShutdownEnds == ~up ~> (toClose = {} /\ victim[Main] = NoSession)

-----------------------------------------------------------------------------
(* The registry implements the lease of public endpoints *)

OwnerOf(p) == <<p.session, p.np.name>>

leasedPorts == [q \in DOMAIN byPort |-> OwnerOf(byPort[q])]
leasedHosts == [h \in DOMAIN vhost |-> OwnerOf(vhost[h])]

Leases == INSTANCE Exposure WITH ports <- leasedPorts, hosts <- leasedHosts

\* Every step of the control plane grants free endpoints to a proxy that held
\* none, or withdraws all endpoints of some proxies of one session, or changes
\* no endpoint at all.
ImplementsExposure == Leases!Spec
=============================================================================
