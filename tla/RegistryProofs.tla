--------------------------- MODULE RegistryProofs ---------------------------
(***************************************************************************)
(* Proofs about the control plane of the server, for any set of sessions,  *)
(* clients, requests and port ranges.                                      *)
(***************************************************************************)
EXTENDS Registry, WellFoundedInduction, TLAPS

-----------------------------------------------------------------------------
(* The operators the registry is built from *)

\* A non-empty set of natural numbers contains its minimum: what allocPortLocked
\* picks from a non-empty set of free ports is one of them.
LEMMA MinInSet ==
    ASSUME NEW S \in SUBSET Nat, S # {}
    PROVE  Min(S) \in S
<1>1. PICK x \in S : \A y \in S : ~(<<y, x>> \in OpToRel(<, Nat))
    BY NatLessThanWellFounded, WFMin
<1>2. \A y \in S : x <= y
    <2> SUFFICES ASSUME NEW y \in S PROVE x <= y
        OBVIOUS
    <2>1. ~(y < x)
        BY <1>1, Zenon DEF OpToRel
    <2> QED BY <2>1
<1> QED BY <1>2 DEF Min

\* allocPortLocked returns 0 or a port of the whitelist that nobody holds.
LEMMA AllocatedPort ==
    /\ allocPortLocked \in Port \union {0}
    /\ allocPortLocked # 0 => allocPortLocked \notin DOMAIN byPort
<1> DEFINE open == {i \in DOMAIN ranges : FreePorts(ranges[i]) # {}}
<1>1. CASE open = {}
    BY <1>1 DEF allocPortLocked
<1>2. CASE open # {}
    <2>1. open \in SUBSET Nat
        BY RangesAssumption
    <2>2. Min(open) \in open
        BY <1>2, <2>1, MinInSet
    <2> DEFINE r == ranges[Min(open)]
    <2>3. FreePorts(r) # {} /\ Min(open) \in DOMAIN ranges
        BY <2>2
    <2>4. r \in PortRange
        BY <2>3, RangesAssumption
    <2>5. FreePorts(r) \in SUBSET Nat
        BY <2>4 DEF FreePorts, PortRange
    <2>6. Min(FreePorts(r)) \in FreePorts(r)
        BY <2>3, <2>5, MinInSet
    <2>7. allocPortLocked = Min(FreePorts(r))
        BY <1>2 DEF allocPortLocked
    <2> QED BY <2>3, <2>6, <2>7, Zenon DEF FreePorts, Port
<1> QED BY <1>1, <1>2

\* Whatever port a well-formed tcp request is given is 0 or on the whitelist.
LEMMA AskedPortType ==
    ASSUME NEW np \in Request, np.type = "tcp", WellFormed(np)
    PROVE  AskedPort(np) \in Port \union {0}
BY AllocatedPort DEF AskedPort, WellFormed, portAllowed, Port

\* The whitelist holds positive port numbers only.
LEMMA PortType == Port \subseteq Nat \ {0}
<1> SUFFICES ASSUME NEW i \in DOMAIN ranges, NEW q \in ranges[i].min .. ranges[i].max
             PROVE  q \in Nat \ {0}
    BY DEF Port
<1>1. ranges[i] \in PortRange
    BY RangesAssumption
<1> QED BY <1>1 DEF PortRange

\* Go maps keep the types of their keys and values.
LEMMA PutType ==
    ASSUME NEW K, NEW V, NEW m, IsMap(m, K, V), NEW k \in K, NEW v \in V
    PROVE  IsMap(Put(m, k, v), K, V)
BY DEF IsMap, Put

\* The same for several keys at once,
LEMMA PutAllType ==
    ASSUME NEW K, NEW V, NEW m, IsMap(m, K, V), NEW X \in SUBSET K, NEW v \in V
    PROVE  IsMap(PutAll(m, X, v), K, V)
BY DEF IsMap, PutAll

\* for deletions,
LEMMA DelType ==
    ASSUME NEW K, NEW V, NEW m, IsMap(m, K, V), NEW X
    PROVE  IsMap(Del(m, X), K, V)
BY DEF IsMap, Del

\* and for the map without entries.
LEMMA EmptyType ==
    ASSUME NEW K, NEW V
    PROVE  IsMap(Empty, K, V)
BY DEF IsMap, Empty

\* The record a successful registration stores.
LEMMA NewProxyType ==
    ASSUME NEW se \in Session, NEW np \in Request, Registers(se, np)
    PROVE  /\ NewProxyRecord(se, np) \in Proxy
           /\ NewProxyRecord(se, np).session = se
           /\ NewProxyRecord(se, np).np = np
           /\ np.type = "tcp" => NewProxyRecord(se, np).remotePort \in Port
           /\ np.type # "tcp" => NewProxyRecord(se, np).remotePort = 0
<1>1. CASE np.type = "tcp"
    <2>1. AskedPort(np) \in Port
        BY <1>1, AskedPortType DEF Registers, EndpointsFree, HostsFree
    <2>2. AskedPort(np) \in Nat
        BY <2>1, PortType
    <2> QED BY <1>1, <2>1, <2>2 DEF NewProxyRecord, Proxy
<1>2. CASE np.type # "tcp"
    BY <1>2 DEF NewProxyRecord, Proxy
<1> QED BY <1>1, <1>2

-----------------------------------------------------------------------------
(* Types *)

\* Removing proxies keeps the types of all five tables.
LEMMA RemoveType ==
    ASSUME TypeOK, NEW se \in Session, NEW P, removeProxiesLocked(se, P)
    PROVE  /\ IsMap(proxies', Key, Proxy)
           /\ IsMap(byPort', Port, Proxy)
           /\ IsMap(vhost', Host, Proxy)
           /\ listening' \subseteq Port
           /\ DOMAIN owned' = Session
           /\ \A x \in Session : IsMap(owned'[x], Name, Proxy)
<1>1. \A x \in Session : IsMap(owned'[x], Name, Proxy)
    <2> SUFFICES ASSUME NEW x \in Session PROVE IsMap(owned'[x], Name, Proxy)
        OBVIOUS
    <2>1. IsMap(owned[x], Name, Proxy)
        BY DEF TypeOK
    <2>2. owned'[x] = owned[x] \/ \E X : owned'[x] = Del(owned[x], X)
        BY DEF TypeOK, removeProxiesLocked, HostsOf
    <2> QED BY <2>1, <2>2, DelType
<1> QED BY <1>1, DelType DEF removeProxiesLocked, TypeOK, HostsOf

\* So does entering a new proxy.
LEMMA EnterType ==
    ASSUME TypeOK, NEW se \in Session, NEW np \in Request, clientID[se] \in Client,
           Registers(se, np), Enter(se, np, NewProxyRecord(se, np))
    PROVE  /\ IsMap(proxies', Key, Proxy)
           /\ IsMap(byPort', Port, Proxy)
           /\ IsMap(vhost', Host, Proxy)
           /\ listening' \subseteq Port
           /\ DOMAIN owned' = Session
           /\ \A x \in Session : IsMap(owned'[x], Name, Proxy)
<1> DEFINE p == NewProxyRecord(se, np)
<1>1. /\ p \in Proxy
      /\ np.type = "tcp" => p.remotePort \in Port
    BY NewProxyType
<1>2. proxyKey(clientID[se], np.name) \in Key /\ np.name \in Name
    BY DEF Key, Name
<1>3. np.type = "http" => Hosts(np) \in SUBSET Host
    BY DEF Host
<1> HIDE DEF p
<1>4. IsMap(proxies', Key, Proxy)
    BY <1>1, <1>2, PutType DEF Enter, TypeOK, p
<1>5. \A x \in Session : IsMap(owned'[x], Name, Proxy)
    <2> SUFFICES ASSUME NEW x \in Session PROVE IsMap(owned'[x], Name, Proxy)
        OBVIOUS
    <2>1. IsMap(owned[x], Name, Proxy)
        BY DEF TypeOK
    <2>2. owned'[x] = owned[x] \/ owned'[x] = Put(owned[x], np.name, p)
        BY DEF TypeOK, Enter, p
    <2> QED BY <1>1, <1>2, <2>1, <2>2, PutType
<1>6. IsMap(byPort', Port, Proxy) /\ listening' \subseteq Port
    <2>1. CASE np.type = "tcp"
        <3>1. byPort' = Put(byPort, p.remotePort, p) /\ listening' = listening \union {p.remotePort}
            BY <2>1 DEF Enter, p
        <3> QED BY <1>1, <2>1, <3>1, PutType DEF TypeOK
    <2>2. CASE np.type # "tcp"
        BY <2>2 DEF Enter, TypeOK
    <2> QED BY <2>1, <2>2
<1>7. IsMap(vhost', Host, Proxy)
    <2>1. CASE np.type = "http"
        <3>1. vhost' = PutAll(vhost, Hosts(np), p)
            BY <2>1 DEF Enter, p
        <3> QED BY <1>1, <1>3, <2>1, <3>1, PutAllType DEF TypeOK
    <2>2. CASE np.type # "http"
        BY <2>2 DEF Enter, TypeOK
    <2> QED BY <2>1, <2>2
<1>8. DOMAIN owned' = Session
    BY DEF Enter, TypeOK
<1> QED BY <1>4, <1>5, <1>6, <1>7, <1>8

\* A step keeps the types; HandlerStages says that a registering session has logged in.
LEMMA TypeStep ==
    ASSUME TypeOK, HandlerStages, [Next]_vars
    PROVE  TypeOK'
<1> USE SessionAssumption, InboxAssumption DEF TypeOK
<1>1. CASE BeginShutdown
    <2>1. toClose' \subseteq Session
        BY <1>1 DEF BeginShutdown, IsMap
    <2> QED BY <1>1, <2>1 DEF BeginShutdown, registry, handlers
<1>2. CASE ShutdownClosed
    BY <1>2 DEF ShutdownClosed, registry, CloseReturns
<1>3. ASSUME NEW se \in Session, Accept(se) PROVE TypeOK'
    BY <1>3 DEF Accept, registry
<1>4. ASSUME NEW se \in Session, Reject(se) PROVE TypeOK'
    BY <1>4 DEF Reject, registry
<1>5. ASSUME NEW se \in Session, Kicked(se) PROVE TypeOK'
    BY <1>5 DEF Kicked, registry, CloseReturns
<1>6. ASSUME NEW se \in Session, Greet(se) PROVE TypeOK'
    BY <1>6 DEF Greet, registry, AfterWrite
<1>7. ASSUME NEW se \in Session, CloseConn(se) PROVE TypeOK'
    BY <1>7 DEF CloseConn, registry, Dropped
<1>8. ASSUME NEW se \in Session, Exit(se) PROVE TypeOK'
    BY <1>8 DEF Exit, registry, CloseReturns
<1>9. ASSUME NEW se \in Session, ShutdownClose(se) PROVE TypeOK'
    BY <1>9 DEF ShutdownClose, registry
<1>10. ASSUME NEW se \in Session, Receive(se) PROVE TypeOK'
    BY <1>10 DEF Receive, registry
<1>11. ASSUME NEW se \in Session, HandlePing(se) PROVE TypeOK'
    BY <1>11 DEF HandlePing, TakeFrame, AfterWrite, registry
<1>12. ASSUME NEW se \in Session, SkipFrame(se) PROVE TypeOK'
    BY <1>12 DEF SkipFrame, TakeFrame, registry
<1>13. ASSUME NEW se \in Session, HandleBadFrame(se) PROVE TypeOK'
    BY <1>13 DEF HandleBadFrame, TakeFrame, registry
<1>14. ASSUME NEW se \in Session, ReadError(se) PROVE TypeOK'
    BY <1>14 DEF ReadError, registry, NothingToRead
<1>15. ASSUME NEW se \in Session, NEW c \in Client, Login(se, c) PROVE TypeOK'
    <2>1. IsMap(sessions', Client, Session)
        BY <1>15, PutType DEF Login
    <2>2. victim' \in [Session \union {Main} -> Session \union {NoSession}]
        BY <1>15 DEF Login, IsMap
    <2> QED BY <1>15, <2>1, <2>2 DEF Login
<1>16. ASSUME NEW se \in Session, NEW g \in Session \union {Main}, DropSession(g, se) PROVE TypeOK'
    <2>1. IsMap(sessions', Client, Session)
        BY <1>16, DelType DEF DropSession, EntryOf, Released
    <2>2. once' \in [Session -> Session \union {Main, NoSession}]
        BY <1>16 DEF DropSession, EntryOf, Released
    <2> QED BY <1>16, <2>1, <2>2, RemoveType DEF DropSession, EntryOf, Released
<1>17. ASSUME NEW se \in Session, NEW np \in Request, HandleNewProxy(se, np) PROVE TypeOK'
    <2>1. clientID[se] \in Client
        BY <1>17 DEF HandleNewProxy, TakeFrame, HandlerStages
    <2>2. /\ pc' \in [Session -> {"new", "login", "kick", "greet", "serve", "close", "gone"}]
          /\ inbox' \in [Session -> 0..MaxInbox]
          /\ UNCHANGED <<up, toClose, clientID, conn, once, victim>>
        BY <1>17 DEF HandleNewProxy, TakeFrame, AfterWrite
    <2>3. CASE Registers(se, np) /\ Enter(se, np, NewProxyRecord(se, np))
        <3>1. UNCHANGED sessions
            BY <2>3 DEF Enter
        <3> QED BY <2>1, <2>2, <2>3, <3>1, EnterType
    <2>4. CASE UNCHANGED registry
        BY <2>2, <2>4 DEF registry
    <2> QED BY <1>17, <2>3, <2>4 DEF HandleNewProxy, registerProxy
<1>18. ASSUME NEW se \in Session, NEW n \in Name, HandleCloseProxy(se, n) PROVE TypeOK'
    BY <1>18, RemoveType DEF HandleCloseProxy, TakeFrame
<1>19. CASE UNCHANGED vars
    BY <1>19 DEF vars, registry, handlers
<1> QED BY <1>1, <1>2, <1>3, <1>4, <1>5, <1>6, <1>7, <1>8, <1>9, <1>10, <1>11, <1>12,
           <1>13, <1>14, <1>15, <1>16, <1>17, <1>18, <1>19 DEF Next

-----------------------------------------------------------------------------
(* Handlers and the sessions table *)

\* What the handlers rely on at each stage is kept by every step.
LEMMA StagesStep ==
    ASSUME TypeOK, HandlerStages, TableLive, [Next]_vars
    PROVE  HandlerStages'
<1> USE SessionAssumption DEF TypeOK, HandlerStages
<1>1. CASE BeginShutdown
    <2>1. \A se \in toClose' : clientID[se] # << >>
        BY <1>1, ClientAssumption DEF BeginShutdown, TableLive, IsMap
    <2> QED BY <1>1, <2>1 DEF BeginShutdown, registry, handlers
<1>2. CASE ShutdownClosed
    BY <1>2 DEF ShutdownClosed, registry, CloseReturns
<1>3. ASSUME NEW se \in Session, Accept(se) PROVE HandlerStages'
    BY <1>3 DEF Accept, registry
<1>4. ASSUME NEW se \in Session, Reject(se) PROVE HandlerStages'
    BY <1>4 DEF Reject, registry
<1>5. ASSUME NEW se \in Session, Kicked(se) PROVE HandlerStages'
    BY <1>5 DEF Kicked, registry, CloseReturns
<1>6. ASSUME NEW se \in Session, Greet(se) PROVE HandlerStages'
    BY <1>6 DEF Greet, registry, AfterWrite
<1>7. ASSUME NEW se \in Session, CloseConn(se) PROVE HandlerStages'
    BY <1>7 DEF CloseConn, registry, Dropped
<1>8. ASSUME NEW se \in Session, Exit(se) PROVE HandlerStages'
    BY <1>8 DEF Exit, registry, CloseReturns
<1>9. ASSUME NEW se \in Session, ShutdownClose(se) PROVE HandlerStages'
    BY <1>9 DEF ShutdownClose, registry
<1>10. ASSUME NEW se \in Session, Receive(se) PROVE HandlerStages'
    BY <1>10 DEF Receive, registry
<1>11. ASSUME NEW se \in Session, HandlePing(se) PROVE HandlerStages'
    BY <1>11 DEF HandlePing, TakeFrame, AfterWrite, registry
<1>12. ASSUME NEW se \in Session, SkipFrame(se) PROVE HandlerStages'
    BY <1>12 DEF SkipFrame, TakeFrame, registry
<1>13. ASSUME NEW se \in Session, HandleBadFrame(se) PROVE HandlerStages'
    BY <1>13 DEF HandleBadFrame, TakeFrame, registry
<1>14. ASSUME NEW se \in Session, ReadError(se) PROVE HandlerStages'
    BY <1>14 DEF ReadError, registry, NothingToRead
<1>15. ASSUME NEW se \in Session, NEW c \in Client, Login(se, c) PROVE HandlerStages'
    <2>1. c # << >>
        BY ClientAssumption
    <2>2. c \in DOMAIN sessions =>
             sessions[c] \in Session /\ sessions[c] # se /\ clientID[sessions[c]] # << >>
        BY <1>15, <2>1 DEF Login, TableLive, IsMap
    <2> QED BY <1>15, <2>1, <2>2 DEF Login
<1>16. ASSUME NEW se \in Session, NEW g \in Session \union {Main}, DropSession(g, se)
       PROVE  HandlerStages'
    <2>1. clientID[se] # << >> /\ (g = se => pc[se] \in {"close", "gone"})
        BY <1>16 DEF DropSession, Closing, EntryOf, Released
    <2>2. \A x \in Session : x # se => owned'[x] = owned[x]
        BY <1>16 DEF DropSession, removeProxiesLocked, HostsOf, EntryOf, Released
    <2>3. g # NoSession
        OBVIOUS
    <2> QED BY <1>16, <2>1, <2>2, <2>3 DEF DropSession, EntryOf, Released
<1>17. ASSUME NEW se \in Session, NEW np \in Request, HandleNewProxy(se, np) PROVE HandlerStages'
    <2>1. clientID[se] # << >>
        BY <1>17 DEF HandleNewProxy, TakeFrame
    <2>2. \A x \in Session : x # se => owned'[x] = owned[x]
        BY <1>17 DEF HandleNewProxy, registerProxy, Enter, registry
    <2> QED BY <1>17, <2>1, <2>2 DEF HandleNewProxy, TakeFrame, AfterWrite
<1>18. ASSUME NEW se \in Session, NEW n \in Name, HandleCloseProxy(se, n) PROVE HandlerStages'
    <2>1. clientID[se] # << >>
        BY <1>18 DEF HandleCloseProxy, TakeFrame
    <2>2. \A x \in Session : x # se => owned'[x] = owned[x]
        BY <1>18 DEF HandleCloseProxy, removeProxiesLocked, HostsOf
    <2> QED BY <1>18, <2>1, <2>2, ZenonT(60) DEF HandleCloseProxy, TakeFrame
<1>19. CASE UNCHANGED vars
    BY <1>19 DEF vars, registry, handlers
<1> QED BY <1>1, <1>2, <1>3, <1>4, <1>5, <1>6, <1>7, <1>8, <1>9, <1>10, <1>11, <1>12,
           <1>13, <1>14, <1>15, <1>16, <1>17, <1>18, <1>19 DEF Next

\* The sessions table keeps leading to live sessions of the right client.
LEMMA TableStep ==
    ASSUME TypeOK, HandlerStages, TableLive, [Next]_vars
    PROVE  TableLive'
<1> USE DEF TableLive
<1>1. ASSUME NEW se \in Session, NEW c \in Client, Login(se, c) PROVE TableLive'
    <2>1. once[se] = NoSession /\ clientID[se] = << >>
        BY <1>1 DEF Login, HandlerStages
    <2>2. ASSUME NEW d \in DOMAIN sessions', d # c
          PROVE  clientID'[sessions'[d]] = d /\ once'[sessions'[d]] = NoSession
        <3>1. d \in DOMAIN sessions /\ sessions'[d] = sessions[d]
            BY <1>1, <2>2 DEF Login, Put
        <3>2. d # << >>
            BY <3>1, ClientAssumption DEF TypeOK, IsMap
        <3>3. sessions[d] # se
            BY <2>1, <3>1, <3>2
        <3> QED BY <1>1, <3>1, <3>3 DEF Login, TypeOK
    <2>3. sessions'[c] = se
        BY <1>1 DEF Login, Put
    <2> QED BY <1>1, <2>1, <2>2, <2>3 DEF Login, TypeOK
<1>2. ASSUME NEW se \in Session, NEW g \in Session \union {Main}, DropSession(g, se) PROVE TableLive'
    <2> SUFFICES ASSUME NEW c \in DOMAIN sessions'
                 PROVE  clientID'[sessions'[c]] = c /\ once'[sessions'[c]] = NoSession
        OBVIOUS
    <2>1. c \in DOMAIN sessions /\ sessions'[c] = sessions[c]
        BY <1>2 DEF DropSession, Del, EntryOf, Released
    <2>2. sessions[c] # se
        BY <1>2, <2>1 DEF DropSession, Del, EntryOf, Released
    <2> QED BY <1>2, <2>1, <2>2 DEF DropSession, TypeOK, EntryOf, Released
<1>3. ASSUME NEW se \in Session, NEW np \in Request, HandleNewProxy(se, np) PROVE TableLive'
    BY <1>3 DEF HandleNewProxy, TakeFrame, registerProxy, Enter, registry
<1>4. ASSUME NEW se \in Session, NEW n \in Name, HandleCloseProxy(se, n) PROVE TableLive'
    BY <1>4 DEF HandleCloseProxy, TakeFrame
<1>5. CASE UNCHANGED <<sessions, clientID, once>>
    BY <1>5
<1> QED BY <1>1, <1>2, <1>3, <1>4, <1>5
        DEF Next, vars, registry, handlers, BeginShutdown, ShutdownClosed, Accept, Reject, Kicked,
            Greet, CloseConn, Exit, ShutdownClose, Receive, HandlePing, SkipFrame, HandleBadFrame,
            ReadError, TakeFrame, Dropped, CloseReturns, NothingToRead

\* A session that closed itself has left the control loop for good, so it cannot
\* register anything again.
LEMMA SelfClosedStep ==
    ASSUME TypeOK, OwnedAgrees, HandlerStages, SelfClosedOwnsNothing, [Next]_vars
    PROVE  SelfClosedOwnsNothing'
<1> USE DEF SelfClosedOwnsNothing
<1>1. ASSUME NEW se \in Session, NEW g \in Session \union {Main}, DropSession(g, se)
      PROVE  SelfClosedOwnsNothing'
    <2>1. \A x \in Session : x # se => owned'[x] = owned[x]
        BY <1>1 DEF DropSession, removeProxiesLocked, TypeOK, HostsOf, EntryOf, Released
    <2>2. g = se => DOMAIN owned'[se] = {}
        <3>1. owned'[se] = Del(owned[se], {p.np.name : p \in OwnedBy(se)})
            BY <1>1 DEF DropSession, removeProxiesLocked, TypeOK, HostsOf, EntryOf, Released
        <3>2. \A n \in DOMAIN owned[se] : owned[se][n].np.name = n
            BY DEF OwnedAgrees
        <3> QED BY <3>1, <3>2 DEF Del, OwnedBy
    <2> QED BY <1>1, <2>1, <2>2 DEF DropSession, TypeOK, EntryOf, Released
<1>2. ASSUME NEW se \in Session, NEW np \in Request, HandleNewProxy(se, np)
      PROVE  SelfClosedOwnsNothing'
    <2>1. once[se] # se
        <3>1. pc[se] = "serve"
            BY <1>2 DEF HandleNewProxy, TakeFrame
        <3> QED BY <3>1 DEF HandlerStages
    <2>2. \A x \in Session : x # se => owned'[x] = owned[x]
        BY <1>2 DEF HandleNewProxy, registerProxy, Enter, registry, TypeOK
    <2> QED BY <1>2, <2>1, <2>2 DEF HandleNewProxy, TakeFrame
<1>3. ASSUME NEW se \in Session, NEW n \in Name, HandleCloseProxy(se, n)
      PROVE  SelfClosedOwnsNothing'
    <2>1. once[se] # se
        BY <1>3 DEF HandleCloseProxy, TakeFrame, HandlerStages
    <2>2. \A x \in Session : x # se => owned'[x] = owned[x]
        BY <1>3 DEF HandleCloseProxy, removeProxiesLocked, TypeOK, HostsOf
    <2> QED BY <1>3, <2>1, <2>2 DEF HandleCloseProxy, TakeFrame
<1>4. CASE UNCHANGED <<owned, once>>
    BY <1>4
<1> QED BY <1>1, <1>2, <1>3, <1>4
        DEF Next, vars, registry, handlers, BeginShutdown, ShutdownClosed, Accept, Reject, Kicked,
            Greet, CloseConn, Exit, ShutdownClose, Receive, HandlePing, SkipFrame, HandleBadFrame,
            ReadError, TakeFrame, Login, Dropped, CloseReturns, NothingToRead

\* A logged-in session that is not released stays in the table or under a pending Close.
LEMMA ForgottenStep ==
    ASSUME TypeOK, HandlerStages, TableLive, NoneForgotten, [Next]_vars
    PROVE  NoneForgotten'
<1> USE SessionAssumption DEF TypeOK, NoneForgotten, Closing
<1>1. CASE BeginShutdown
    BY <1>1 DEF BeginShutdown, registry, handlers
<1>2. CASE ShutdownClosed
    BY <1>2 DEF ShutdownClosed, registry, CloseReturns
<1>3. ASSUME NEW se \in Session, Accept(se) PROVE NoneForgotten'
    BY <1>3 DEF Accept, registry
<1>4. ASSUME NEW se \in Session, Reject(se) PROVE NoneForgotten'
    BY <1>4 DEF Reject, registry
<1>5. ASSUME NEW se \in Session, Kicked(se) PROVE NoneForgotten'
    BY <1>5 DEF Kicked, registry, CloseReturns
<1>6. ASSUME NEW se \in Session, Greet(se) PROVE NoneForgotten'
    BY <1>6 DEF Greet, registry, AfterWrite
<1>7. ASSUME NEW se \in Session, CloseConn(se) PROVE NoneForgotten'
    BY <1>7 DEF CloseConn, registry, Dropped
<1>8. ASSUME NEW se \in Session, Exit(se) PROVE NoneForgotten'
    BY <1>8 DEF Exit, registry, CloseReturns
<1>9. ASSUME NEW se \in Session, ShutdownClose(se) PROVE NoneForgotten'
    BY <1>9 DEF ShutdownClose, registry
<1>10. ASSUME NEW se \in Session, Receive(se) PROVE NoneForgotten'
    BY <1>10 DEF Receive, registry
<1>11. ASSUME NEW se \in Session, HandlePing(se) PROVE NoneForgotten'
    BY <1>11, SMTT(30) DEF HandlePing, TakeFrame, AfterWrite, registry
<1>12. ASSUME NEW se \in Session, SkipFrame(se) PROVE NoneForgotten'
    BY <1>12 DEF SkipFrame, TakeFrame, registry
<1>13. ASSUME NEW se \in Session, HandleBadFrame(se) PROVE NoneForgotten'
    BY <1>13 DEF HandleBadFrame, TakeFrame, registry
<1>14. ASSUME NEW se \in Session, ReadError(se) PROVE NoneForgotten'
    BY <1>14 DEF ReadError, registry, NothingToRead
<1>15. ASSUME NEW se \in Session, NEW c \in Client, Login(se, c) PROVE NoneForgotten'
    <2> SUFFICES ASSUME NEW x \in Session, clientID'[x] # << >>, once'[x] = NoSession
                 PROVE  \/ clientID'[x] \in DOMAIN sessions' /\ sessions'[clientID'[x]] = x
                        \/ \E g \in Session \union {Main} : Closing(g, x)'
        OBVIOUS
    <2>1. CASE x = se
        BY <1>15, <2>1 DEF Login, Put
    <2>2. CASE x # se
        <3>1. clientID'[x] = clientID[x] /\ once[x] = NoSession /\ pc'[x] = pc[x]
            BY <1>15, <2>2 DEF Login
        <3>2. CASE clientID[x] \in DOMAIN sessions /\ sessions[clientID[x]] = x /\ clientID[x] # c
            BY <1>15, <3>1, <3>2 DEF Login, Put
        <3>3. CASE clientID[x] \in DOMAIN sessions /\ sessions[clientID[x]] = x /\ clientID[x] = c
            BY <1>15, <3>3 DEF Login
        <3>4. ASSUME NEW g \in Session \union {Main}, Closing(g, x)
              PROVE  Closing(g, x)'
            <4>1. victim[se] = NoSession
                BY <1>15 DEF Login, HandlerStages
            <4> QED BY <1>15, <3>1, <3>4, <4>1 DEF Login
        <3> QED BY <3>1, <3>2, <3>3, <3>4
    <2> QED BY <2>1, <2>2
<1>16. ASSUME NEW se \in Session, NEW g \in Session \union {Main}, DropSession(g, se)
       PROVE  NoneForgotten'
    <2> SUFFICES ASSUME NEW x \in Session, clientID[x] # << >>, once'[x] = NoSession
                 PROVE  \/ clientID[x] \in DOMAIN sessions' /\ sessions'[clientID[x]] = x
                        \/ \E h \in Session \union {Main} : Closing(h, x)
        BY <1>16 DEF DropSession, EntryOf, Released
    <2>1. x # se /\ once[x] = NoSession
        BY <1>16 DEF DropSession, EntryOf, Released
    <2> QED BY <1>16, <2>1 DEF DropSession, Del, EntryOf, Released
<1>17. ASSUME NEW se \in Session, NEW np \in Request, HandleNewProxy(se, np) PROVE NoneForgotten'
    <2>1. UNCHANGED sessions
        BY <1>17 DEF HandleNewProxy, registerProxy, Enter, registry
    <2> QED BY <1>17, <2>1, SMTT(30) DEF HandleNewProxy, TakeFrame, AfterWrite
<1>18. ASSUME NEW se \in Session, NEW n \in Name, HandleCloseProxy(se, n) PROVE NoneForgotten'
    BY <1>18 DEF HandleCloseProxy, TakeFrame
<1>19. CASE UNCHANGED vars
    BY <1>19 DEF vars, registry, handlers
<1> QED BY <1>1, <1>2, <1>3, <1>4, <1>5, <1>6, <1>7, <1>8, <1>9, <1>10, <1>11, <1>12,
           <1>13, <1>14, <1>15, <1>16, <1>17, <1>18, <1>19 DEF Next

-----------------------------------------------------------------------------
(* Agreement of the tables *)

\* Every table loses the entries of the proxies in P and keeps all others.
LosesExactly(P) ==
    /\ DOMAIN proxies' = {k \in DOMAIN proxies : proxies[k] \notin P}
    /\ DOMAIN byPort' = {q \in DOMAIN byPort : byPort[q] \notin P}
    /\ DOMAIN vhost' = {h \in DOMAIN vhost : vhost[h] \notin P}
    /\ \A k \in DOMAIN proxies' : proxies'[k] = proxies[k]
    /\ \A q \in DOMAIN byPort' : byPort'[q] = byPort[q]
    /\ \A h \in DOMAIN vhost' : vhost'[h] = vhost[h]
    /\ listening' = DOMAIN byPort'
    /\ \A x \in Session : /\ DOMAIN owned'[x] = {n \in DOMAIN owned[x] : owned[x][n] \notin P}
                          /\ \A n \in DOMAIN owned'[x] : owned'[x][n] = owned[x][n]

\* Removing proxies of one session, found by name, key, port and host, takes
\* exactly their entries out of every table.
LEMMA RemoveExact ==
    ASSUME TypeOK, Consistent, NEW se \in Session, NEW P \in SUBSET OwnedBy(se),
           removeProxiesLocked(se, P)
    PROVE  LosesExactly(P)
<1> DEFINE keysOf == {proxyKey(clientID[se], p.np.name) : p \in P}
           namesOf == {p.np.name : p \in P}
           portsOf == {p.remotePort : p \in {x \in P : x.remotePort # 0}}
           hostsOf == UNION {Hosts(p.np) : p \in {x \in P : x.np.type = "http"}}
<1>1. ASSUME NEW p \in P
      PROVE  /\ p.session = se
             /\ p.np.name \in DOMAIN owned[se]
             /\ owned[se][p.np.name] = p
             /\ proxyKey(clientID[se], p.np.name) \in DOMAIN proxies
             /\ proxies[proxyKey(clientID[se], p.np.name)] = p
             /\ Holds(p)
    BY DEF Consistent, OwnedAgrees, OwnedBy
<1>2. \A k \in DOMAIN proxies : k \in keysOf <=> proxies[k] \in P
    BY <1>1 DEF Consistent, ProxiesAgree
<1>3. \A q \in DOMAIN byPort : q \in portsOf <=> byPort[q] \in P
    <2> SUFFICES ASSUME NEW q \in DOMAIN byPort PROVE q \in portsOf <=> byPort[q] \in P
        OBVIOUS
    <2>1. q # 0
        BY PortType DEF TypeOK, IsMap
    <2>2. q \in portsOf => byPort[q] \in P
        BY <1>1 DEF Holds
    <2>3. byPort[q] \in P => q \in portsOf
        BY <2>1 DEF Consistent, PortsAgree
    <2> QED BY <2>2, <2>3
<1>4. \A h \in DOMAIN vhost : h \in hostsOf <=> vhost[h] \in P
    <2> SUFFICES ASSUME NEW h \in DOMAIN vhost PROVE h \in hostsOf <=> vhost[h] \in P
        OBVIOUS
    <2>1. h \in hostsOf => vhost[h] \in P
        BY <1>1 DEF Holds
    <2>2. vhost[h] \in P => h \in hostsOf
        BY DEF Consistent, HostsAgree
    <2> QED BY <2>1, <2>2
<1>5. \A n \in DOMAIN owned[se] : n \in namesOf <=> owned[se][n] \in P
    BY <1>1 DEF Consistent, OwnedAgrees
<1>6. \A x \in Session \ {se} : \A n \in DOMAIN owned[x] : owned[x][n] \notin P
    BY <1>1 DEF Consistent, OwnedAgrees
<1>7. /\ proxies' = Del(proxies, keysOf)
      /\ byPort' = Del(byPort, portsOf)
      /\ vhost' = Del(vhost, hostsOf)
      /\ listening' = listening \ portsOf
      /\ owned' = [owned EXCEPT ![se] = Del(@, namesOf)]
    BY DEF removeProxiesLocked, HostsOf
<1> HIDE DEF keysOf, namesOf, portsOf, hostsOf
<1>8. /\ DOMAIN proxies' = {k \in DOMAIN proxies : proxies[k] \notin P}
      /\ \A k \in DOMAIN proxies' : proxies'[k] = proxies[k]
    BY <1>2, <1>7 DEF Del
<1>9. /\ DOMAIN byPort' = {q \in DOMAIN byPort : byPort[q] \notin P}
      /\ \A q \in DOMAIN byPort' : byPort'[q] = byPort[q]
      /\ listening' = DOMAIN byPort'
    BY <1>3, <1>7 DEF Del, Consistent, PortsAgree
<1>10. /\ DOMAIN vhost' = {h \in DOMAIN vhost : vhost[h] \notin P}
       /\ \A h \in DOMAIN vhost' : vhost'[h] = vhost[h]
    BY <1>4, <1>7 DEF Del
<1>11. ASSUME NEW x \in Session
       PROVE  /\ DOMAIN owned'[x] = {n \in DOMAIN owned[x] : owned[x][n] \notin P}
              /\ \A n \in DOMAIN owned'[x] : owned'[x][n] = owned[x][n]
    <2>1. CASE x = se
        BY <1>5, <1>7, <2>1 DEF Del, TypeOK
    <2>2. CASE x # se
        BY <1>6, <1>7, <2>2 DEF TypeOK
    <2> QED BY <2>1, <2>2
<1> QED BY <1>8, <1>9, <1>10, <1>11 DEF LosesExactly

\* What remains after a removal still agrees.
LEMMA RemoveConsistent ==
    ASSUME TypeOK, Consistent, NEW se \in Session, NEW P \in SUBSET OwnedBy(se),
           removeProxiesLocked(se, P), UNCHANGED clientID
    PROVE  Consistent'
<1>0. LosesExactly(P)
    BY RemoveExact
<1>1. ASSUME NEW o \in Proxy, o \notin P, IsOwned(o)
      PROVE  IsOwned(o)'
    <2>1. o.session \in Session
        BY DEF Proxy
    <2> QED BY <1>0, <1>1, <2>1 DEF LosesExactly, IsOwned
<1>2. ASSUME NEW o \in Proxy, o \notin P, Holds(o)
      PROVE  Holds(o)'
    BY <1>0, <1>2 DEF LosesExactly, Holds
<1>3. ASSUME NEW x \in Session, NEW n \in DOMAIN owned'[x], NEW o, o = owned'[x][n]
      PROVE  /\ o.session = x
             /\ o.np.name = n
             /\ proxyKey(clientID'[x], n) \in DOMAIN proxies'
             /\ proxies'[proxyKey(clientID'[x], n)] = o
             /\ Holds(o)'
    <2>1. n \in DOMAIN owned[x] /\ o = owned[x][n] /\ o \notin P
        BY <1>0, <1>3 DEF LosesExactly
    <2>2. o \in Proxy
        BY <2>1 DEF TypeOK, IsMap
    <2>3. /\ o.session = x
          /\ o.np.name = n
          /\ proxyKey(clientID[x], n) \in DOMAIN proxies
          /\ proxies[proxyKey(clientID[x], n)] = o
          /\ Holds(o)
        BY <2>1 DEF Consistent, OwnedAgrees
    <2>4. Holds(o)'
        BY <1>2, <2>1, <2>2, <2>3
    <2> QED BY <1>0, <2>1, <2>3, <2>4 DEF LosesExactly
<1>4. ASSUME NEW k \in DOMAIN proxies', NEW o, o = proxies'[k]
      PROVE  IsOwned(o)' /\ k = proxyKey(clientID'[o.session], o.np.name)
    <2>1. k \in DOMAIN proxies /\ o = proxies[k] /\ o \notin P
        BY <1>0, <1>4 DEF LosesExactly
    <2>2. o \in Proxy
        BY <2>1 DEF TypeOK, IsMap
    <2> QED BY <1>1, <2>1, <2>2 DEF Consistent, ProxiesAgree
<1>5. ASSUME NEW q \in DOMAIN byPort', NEW o, o = byPort'[q]
      PROVE  IsOwned(o)' /\ o.np.type = "tcp" /\ o.remotePort = q
    <2>1. q \in DOMAIN byPort /\ o = byPort[q] /\ o \notin P
        BY <1>0, <1>5 DEF LosesExactly
    <2>2. o \in Proxy
        BY <2>1 DEF TypeOK, IsMap
    <2> QED BY <1>1, <2>1, <2>2 DEF Consistent, PortsAgree
<1>6. ASSUME NEW h \in DOMAIN vhost', NEW o, o = vhost'[h]
      PROVE  IsOwned(o)' /\ o.np.type = "http" /\ h \in Hosts(o.np)
    <2>1. h \in DOMAIN vhost /\ o = vhost[h] /\ o \notin P
        BY <1>0, <1>6 DEF LosesExactly
    <2>2. o \in Proxy
        BY <2>1 DEF TypeOK, IsMap
    <2> QED BY <1>1, <2>1, <2>2 DEF Consistent, HostsAgree
<1>7. OwnedAgrees'
    BY <1>3 DEF OwnedAgrees, Holds
<1>8. ProxiesAgree'
    BY <1>4 DEF ProxiesAgree, IsOwned
<1>9. PortsAgree'
    BY <1>0, <1>5 DEF PortsAgree, IsOwned, LosesExactly
<1>10. HostsAgree'
    BY <1>6 DEF HostsAgree, IsOwned
<1> QED BY <1>7, <1>8, <1>9, <1>10 DEF Consistent

\* A new proxy takes a key, a port and hosts that no table held before.
LEMMA EnterConsistent ==
    ASSUME TypeOK, Consistent, NEW se \in Session, NEW np \in Request,
           Registers(se, np), Enter(se, np, NewProxyRecord(se, np)), UNCHANGED clientID
    PROVE  Consistent'
<1> PICK p : p = NewProxyRecord(se, np)
    OBVIOUS
<1> PICK key : key = proxyKey(clientID[se], np.name)
    OBVIOUS
<1>1. /\ p \in Proxy /\ p.session = se /\ p.np = np
      /\ np.type # "tcp" => p.remotePort = 0
    BY NewProxyType
<1>2. key \notin DOMAIN proxies /\ np.name \notin DOMAIN owned[se]
    BY DEF Registers, Consistent, OwnedAgrees
<1>3. np.type = "tcp" => p.remotePort \notin DOMAIN byPort
    BY DEF Registers, EndpointsFree, NewProxyRecord, HostsFree
<1>4. np.type = "http" => Hosts(np) \intersect DOMAIN vhost = {}
    BY DEF Registers, EndpointsFree, HostsFree
<1>5. /\ proxies' = Put(proxies, key, p)
      /\ owned' = [owned EXCEPT ![se] = Put(@, np.name, p)]
      /\ np.type = "tcp" => /\ byPort' = Put(byPort, p.remotePort, p)
                            /\ listening' = listening \union {p.remotePort}
                            /\ UNCHANGED vhost
      /\ np.type = "http" => /\ vhost' = PutAll(vhost, Hosts(np), p)
                             /\ UNCHANGED <<byPort, listening>>
      /\ np.type \in {"tcp", "http"}
    BY DEF Enter
<1>6. /\ DOMAIN proxies' = DOMAIN proxies \union {key}
      /\ proxies'[key] = p
      /\ \A k \in DOMAIN proxies : proxies'[k] = proxies[k]
    BY <1>2, <1>5 DEF Put
<1>7. /\ DOMAIN owned'[se] = DOMAIN owned[se] \union {np.name}
      /\ owned'[se][np.name] = p
      /\ \A n \in DOMAIN owned[se] : owned'[se][n] = owned[se][n]
      /\ \A x \in Session \ {se} : owned'[x] = owned[x]
    BY <1>2, <1>5 DEF Put, TypeOK
<1>8. /\ DOMAIN byPort \subseteq DOMAIN byPort'
      /\ \A q \in DOMAIN byPort : byPort'[q] = byPort[q]
      /\ \A q \in DOMAIN byPort' \ DOMAIN byPort :
            byPort'[q] = p /\ np.type = "tcp" /\ q = p.remotePort
      /\ np.type = "tcp" => p.remotePort \in DOMAIN byPort' /\ byPort'[p.remotePort] = p
      /\ listening' = DOMAIN byPort'
    <2>0. listening = DOMAIN byPort
        BY DEF Consistent, PortsAgree
    <2>1. CASE np.type = "tcp"
        BY <1>3, <1>5, <2>0, <2>1 DEF Put
    <2>2. CASE np.type = "http"
        BY <1>5, <2>0, <2>2
    <2> QED BY <1>5, <2>1, <2>2
<1>9. /\ DOMAIN vhost \subseteq DOMAIN vhost'
      /\ \A h \in DOMAIN vhost : vhost'[h] = vhost[h]
      /\ \A h \in DOMAIN vhost' \ DOMAIN vhost :
            vhost'[h] = p /\ np.type = "http" /\ h \in Hosts(np)
      /\ np.type = "http" => \A h \in Hosts(np) : h \in DOMAIN vhost' /\ vhost'[h] = p
    <2>1. CASE np.type = "tcp"
        BY <1>5, <2>1
    <2>2. CASE np.type = "http"
        BY <1>4, <1>5, <2>2 DEF PutAll
    <2> QED BY <1>5, <2>1, <2>2
<1>10. ASSUME NEW o \in Proxy, IsOwned(o) PROVE IsOwned(o)'
    <2>1. o.session \in Session
        BY DEF Proxy
    <2> QED BY <1>7, <1>10, <2>1 DEF IsOwned
<1>11. IsOwned(p)'
    BY <1>1, <1>7 DEF IsOwned
<1>12. ASSUME NEW o \in Proxy, Holds(o) PROVE Holds(o)'
    BY <1>8, <1>9, <1>12 DEF Holds
<1>13. Holds(p)'
    BY <1>1, <1>5, <1>8, <1>9 DEF Holds
<1>14. ASSUME NEW x \in Session, NEW n \in DOMAIN owned'[x], NEW o, o = owned'[x][n]
       PROVE  /\ o.session = x
              /\ o.np.name = n
              /\ proxyKey(clientID'[x], n) \in DOMAIN proxies'
              /\ proxies'[proxyKey(clientID'[x], n)] = o
              /\ Holds(o)'
    <2>1. CASE x = se /\ n = np.name
        BY <1>1, <1>6, <1>7, <1>13, <1>14, <2>1
    <2>2. CASE ~(x = se /\ n = np.name)
        <3>1. n \in DOMAIN owned[x] /\ o = owned[x][n]
            BY <1>7, <1>14, <2>2
        <3>2. o \in Proxy
            BY <3>1 DEF TypeOK, IsMap
        <3>3. /\ o.session = x
              /\ o.np.name = n
              /\ proxyKey(clientID[x], n) \in DOMAIN proxies
              /\ proxies[proxyKey(clientID[x], n)] = o
              /\ Holds(o)
            BY <3>1 DEF Consistent, OwnedAgrees
        <3> QED BY <1>6, <1>12, <3>2, <3>3
    <2> QED BY <2>1, <2>2
<1>15. ASSUME NEW k \in DOMAIN proxies', NEW o, o = proxies'[k]
       PROVE  IsOwned(o)' /\ k = proxyKey(clientID'[o.session], o.np.name)
    <2>1. CASE k = key
        BY <1>1, <1>6, <1>11, <1>15, <2>1
    <2>2. CASE k # key
        <3>1. k \in DOMAIN proxies /\ o = proxies[k]
            BY <1>6, <1>15, <2>2
        <3>2. o \in Proxy
            BY <3>1 DEF TypeOK, IsMap
        <3> QED BY <1>10, <3>1, <3>2 DEF Consistent, ProxiesAgree
    <2> QED BY <2>1, <2>2
<1>16. ASSUME NEW q \in DOMAIN byPort', NEW o, o = byPort'[q]
       PROVE  IsOwned(o)' /\ o.np.type = "tcp" /\ o.remotePort = q
    <2>1. CASE q \in DOMAIN byPort
        <3>1. o = byPort[q] /\ o \in Proxy
            BY <1>8, <1>16, <2>1 DEF TypeOK, IsMap
        <3> QED BY <1>10, <2>1, <3>1 DEF Consistent, PortsAgree
    <2>2. CASE q \notin DOMAIN byPort
        BY <1>1, <1>8, <1>11, <1>16, <2>2
    <2> QED BY <2>1, <2>2
<1>17. ASSUME NEW h \in DOMAIN vhost', NEW o, o = vhost'[h]
       PROVE  IsOwned(o)' /\ o.np.type = "http" /\ h \in Hosts(o.np)
    <2>1. CASE h \in DOMAIN vhost
        <3>1. o = vhost[h] /\ o \in Proxy
            BY <1>9, <1>17, <2>1 DEF TypeOK, IsMap
        <3> QED BY <1>10, <2>1, <3>1 DEF Consistent, HostsAgree
    <2>2. CASE h \notin DOMAIN vhost
        BY <1>1, <1>9, <1>11, <1>17, <2>2
    <2> QED BY <2>1, <2>2
<1>18. OwnedAgrees'
    BY <1>14 DEF OwnedAgrees, Holds
<1>19. ProxiesAgree'
    BY <1>15 DEF ProxiesAgree, IsOwned
<1>20. PortsAgree'
    BY <1>8, <1>16 DEF PortsAgree, IsOwned
<1>21. HostsAgree'
    BY <1>17 DEF HostsAgree, IsOwned
<1> QED BY <1>18, <1>19, <1>20, <1>21 DEF Consistent

\* Every step keeps the tables in agreement.
LEMMA ConsistentStep ==
    ASSUME TypeOK, HandlerStages, Consistent, [Next]_vars
    PROVE  Consistent'
<1>1. ASSUME NEW se \in Session, NEW c \in Client, Login(se, c) PROVE Consistent'
    <2>1. DOMAIN owned[se] = {}
        BY <1>1 DEF Login, HandlerStages
    <2>2. \A x \in Session \ {se} : clientID'[x] = clientID[x]
        BY <1>1 DEF Login, TypeOK
    <2>3. UNCHANGED <<proxies, byPort, vhost, listening, owned>>
        BY <1>1 DEF Login
    <2>4. OwnedAgrees'
        BY <2>1, <2>2, <2>3 DEF Consistent, OwnedAgrees, Holds
    <2>5. ProxiesAgree'
        <3>1. \A k \in DOMAIN proxies : proxies[k].session \in Session \ {se}
            BY <2>1 DEF Consistent, ProxiesAgree, IsOwned, TypeOK, IsMap, Proxy
        <3> QED BY <2>2, <2>3, <3>1 DEF Consistent, ProxiesAgree, IsOwned
    <2>6. PortsAgree' /\ HostsAgree'
        BY <2>3 DEF Consistent, PortsAgree, HostsAgree, IsOwned
    <2> QED BY <2>4, <2>5, <2>6 DEF Consistent
<1>2. ASSUME NEW se \in Session, NEW g \in Session \union {Main}, DropSession(g, se) PROVE Consistent'
    BY <1>2, RemoveConsistent DEF DropSession, EntryOf, Released
<1>3. ASSUME NEW se \in Session, NEW n \in Name, HandleCloseProxy(se, n) PROVE Consistent'
    <2> PICK P : P = {p \in OwnedBy(se) : p.np.name = n}
        OBVIOUS
    <2>1. P \in SUBSET OwnedBy(se) /\ removeProxiesLocked(se, P) /\ UNCHANGED clientID
        BY <1>3 DEF HandleCloseProxy, TakeFrame
    <2> QED BY <2>1, RemoveConsistent
<1>4. ASSUME NEW se \in Session, NEW np \in Request, HandleNewProxy(se, np) PROVE Consistent'
    <2>1. UNCHANGED clientID
        BY <1>4 DEF HandleNewProxy, TakeFrame
    <2>2. CASE Registers(se, np) /\ Enter(se, np, NewProxyRecord(se, np))
        BY <2>1, <2>2, EnterConsistent
    <2>3. CASE UNCHANGED registry
        BY <2>1, <2>3 DEF registry, Consistent, OwnedAgrees, ProxiesAgree, PortsAgree, HostsAgree,
                          IsOwned, Holds
    <2> QED BY <1>4, <2>2, <2>3 DEF HandleNewProxy, registerProxy
<1>5. CASE UNCHANGED <<registry, clientID>>
    BY <1>5 DEF registry, Consistent, OwnedAgrees, ProxiesAgree, PortsAgree, HostsAgree,
                IsOwned, Holds
<1> QED BY <1>1, <1>2, <1>3, <1>4, <1>5
        DEF Next, vars, handlers, BeginShutdown, ShutdownClosed, Accept, Reject, Kicked,
            Greet, CloseConn, Exit, ShutdownClose, Receive, HandlePing, SkipFrame, HandleBadFrame,
            ReadError, TakeFrame, Dropped, CloseReturns, NothingToRead

-----------------------------------------------------------------------------
(* The theorems *)

\* The inductive invariant: the parts need each other.  The tables agree only
\* because a session owns nothing before its login (HandlerStages); a table entry
\* is live only because a session logs in once; a self-closed session stays empty
\* only because what it owned was found by name (OwnedAgrees).
IInv == /\ TypeOK
        /\ HandlerStages
        /\ Consistent
        /\ TableLive
        /\ NoneForgotten
        /\ SelfClosedOwnsNothing

\* The initial state satisfies the inductive invariant.
LEMMA InitInv == Init => IInv
<1> SUFFICES ASSUME Init PROVE IInv
    OBVIOUS
<1> USE SessionAssumption, InboxAssumption DEF Init
<1>1. TypeOK
    BY EmptyType DEF TypeOK
<1>2. HandlerStages
    BY DEF HandlerStages, Empty
<1>3. Consistent
    BY DEF Consistent, OwnedAgrees, ProxiesAgree, PortsAgree, HostsAgree, Empty
<1>4. TableLive /\ NoneForgotten /\ SelfClosedOwnsNothing
    BY DEF TableLive, NoneForgotten, SelfClosedOwnsNothing, Empty
<1> QED BY <1>1, <1>2, <1>3, <1>4 DEF IInv

\* IInv is an invariant of the control plane.
THEOREM Invariance == Spec => []IInv
<1>1. IInv /\ [Next]_vars => IInv'
    <2> SUFFICES ASSUME IInv, [Next]_vars PROVE IInv'
        OBVIOUS
    <2>1. OwnedAgrees
        BY DEF IInv, Consistent
    <2> QED BY <2>1, TypeStep, StagesStep, ConsistentStep, TableStep, ForgottenStep, SelfClosedStep
            DEF IInv
<1> QED BY InitInv, <1>1, PTL DEF Spec

\* The types of the server's tables, for any clients, requests and port ranges:
\* in particular only whitelisted ports are ever bound (listening, byPort).
THEOREM TypeCorrect == Spec => []TypeOK
BY Invariance, PTL DEF IInv

\* Names, ports, hosts and listeners always agree with what the sessions own.
THEOREM RegistryConsistent == Spec => []Consistent
BY Invariance, PTL DEF IInv

\* The sessions table leads to live sessions of the right client only.
THEOREM SessionTableLive == Spec => []TableLive
BY Invariance, PTL DEF IInv

\* A session that logged in is in the table, or released, or about to be released.
THEOREM NoSessionForgotten == Spec => []NoneForgotten
BY Invariance, PTL DEF IInv

\* A session that ended by itself has given back all it held.
THEOREM SelfClosedReleased == Spec => []SelfClosedOwnsNothing
BY Invariance, PTL DEF IInv

\* The stages of the handlers.
THEOREM StagesKept == Spec => []HandlerStages
BY Invariance, PTL DEF IInv

\* The dashboard shows nothing that is not so and leaves out only proxies of sessions
\* that others close: what a session owns holds its endpoints, and a session that is
\* not in the table is being closed or has been.
THEOREM DashboardCorrect == Spec => []DashboardTrue
<1>1. IInv => DashboardTrue
    <2> SUFFICES ASSUME IInv PROVE DashboardTrue
        OBVIOUS
    <2> USE DEF IInv
    <2>1. ASSUME NEW c \in DOMAIN snapshot, NEW p \in snapshot[c]
          PROVE  clientID[p.session] = c /\ Holds(p)
        <3>1. c \in DOMAIN sessions /\ sessions[c] \in Session /\ p \in OwnedBy(sessions[c])
            BY <2>1 DEF snapshot, TypeOK, IsMap
        <3> QED BY <3>1 DEF OwnedBy, Consistent, OwnedAgrees, TableLive
    <2>2. ASSUME NEW k \in DOMAIN proxies, NEW se, se = proxies[k].session,
                 ~ \E g \in Session \union {Main} : Closing(g, se),
                 once[se] \in {NoSession, se}
          PROVE  \E c \in DOMAIN snapshot : proxies[k] \in snapshot[c]
        <3>1. se \in Session /\ proxies[k] \in OwnedBy(se)
            <4>1. proxies[k] \in Proxy
                BY <2>2 DEF TypeOK, IsMap
            <4>2. IsOwned(proxies[k])
                BY <2>2 DEF Consistent, ProxiesAgree
            <4> QED BY <2>2, <4>1, <4>2 DEF Proxy, IsOwned, OwnedBy
        <3>2. once[se] = NoSession /\ clientID[se] # << >>
            BY <2>2, <3>1 DEF OwnedBy, SelfClosedOwnsNothing, HandlerStages
        <3>3. clientID[se] \in DOMAIN sessions /\ sessions[clientID[se]] = se
            BY <2>2, <3>1, <3>2 DEF NoneForgotten
        <3> QED BY <3>1, <3>3 DEF snapshot
    <2> QED BY <2>1, <2>2 DEF DashboardTrue
<1> QED BY <1>1, Invariance, PTL

-----------------------------------------------------------------------------
(* Refinement *)

\* Two live proxies of one session under one name are the same proxy.
LEMMA OwnerUnique ==
    ASSUME NEW o \in Proxy, NEW p \in Proxy, IsOwned(o), IsOwned(p), OwnerOf(o) = OwnerOf(p)
    PROVE  o = p
BY DEF IsOwned, OwnerOf

\* Removing proxies of one session withdraws exactly their leases.
LEMMA RemoveWithdraws ==
    ASSUME TypeOK, Consistent, NEW se \in Session, NEW P \in SUBSET OwnedBy(se),
           removeProxiesLocked(se, P)
    PROVE  Leases!Next
<1> PICK N : N = {p.np.name : p \in P}
    OBVIOUS
<1>1. ASSUME NEW p \in P
      PROVE  p \in Proxy /\ p.session = se /\ p.np.name \in Name /\ IsOwned(p)
    BY DEF Consistent, OwnedAgrees, OwnedBy, IsOwned, TypeOK, IsMap
<1>2. ASSUME NEW o \in Proxy, IsOwned(o)
      PROVE  o \in P <=> OwnerOf(o) \in {se} \X N
    <2>1. o \in P => OwnerOf(o) \in {se} \X N
        BY <1>1 DEF OwnerOf
    <2>2. OwnerOf(o) \in {se} \X N => o \in P
        <3> SUFFICES ASSUME OwnerOf(o) \in {se} \X N PROVE o \in P
            OBVIOUS
        <3>1. PICK p \in P : p.np.name = o.np.name /\ o.session = se
            BY DEF OwnerOf
        <3>2. OwnerOf(o) = OwnerOf(p)
            BY <1>1, <3>1 DEF OwnerOf
        <3> QED BY <1>1, <1>2, <3>2, OwnerUnique
    <2> QED BY <2>1, <2>2
<1>3. LosesExactly(P)
    BY RemoveExact
<1>4. \A q \in DOMAIN byPort : byPort[q] \in P <=> OwnerOf(byPort[q]) \in {se} \X N
    BY <1>2 DEF Consistent, PortsAgree, TypeOK, IsMap
<1>5. \A h \in DOMAIN vhost : vhost[h] \in P <=> OwnerOf(vhost[h]) \in {se} \X N
    BY <1>2 DEF Consistent, HostsAgree, TypeOK, IsMap
<1>6. leasedPorts' = Del(leasedPorts, {q \in DOMAIN leasedPorts : leasedPorts[q] \in {se} \X N})
    BY <1>3, <1>4 DEF LosesExactly, leasedPorts, Del
<1>7. leasedHosts' = Del(leasedHosts, {h \in DOMAIN leasedHosts : leasedHosts[h] \in {se} \X N})
    BY <1>3, <1>5 DEF LosesExactly, leasedHosts, Del
<1>8. Leases!Withdraw({se} \X N)
    BY <1>6, <1>7 DEF Leases!Withdraw, Leases!Del, Del
<1>9. N \in SUBSET Name
    BY <1>1
<1> QED BY <1>8, <1>9 DEF Leases!Next

\* Registering a proxy leases free endpoints to an owner that had none.
LEMMA EnterExposes ==
    ASSUME TypeOK, Consistent, NEW se \in Session, NEW np \in Request,
           Registers(se, np), Enter(se, np, NewProxyRecord(se, np))
    PROVE  Leases!Next
<1> PICK p : p = NewProxyRecord(se, np)
    OBVIOUS
<1>1. /\ p.session = se /\ p.np = np
      /\ np.type = "tcp" => p.remotePort \in Port
    BY NewProxyType
<1>2. OwnerOf(p) = <<se, np.name>> /\ OwnerOf(p) \in Session \X Name
    BY <1>1 DEF OwnerOf, Name
<1>3. np.name \notin DOMAIN owned[se]
    BY DEF Registers, Consistent, OwnedAgrees
<1>4. ASSUME NEW o \in Proxy, IsOwned(o) PROVE OwnerOf(o) # OwnerOf(p)
    BY <1>2, <1>3, <1>4 DEF IsOwned, OwnerOf
<1>5. OwnerOf(p) \notin Leases!Owners
    <2>1. \A q \in DOMAIN byPort : byPort[q] \in Proxy /\ IsOwned(byPort[q])
        BY DEF TypeOK, IsMap, Consistent, PortsAgree
    <2>2. \A h \in DOMAIN vhost : vhost[h] \in Proxy /\ IsOwned(vhost[h])
        BY DEF TypeOK, IsMap, Consistent, HostsAgree
    <2> QED BY <1>4, <2>1, <2>2 DEF Leases!Owners, leasedPorts, leasedHosts
<1>6. CASE np.type = "tcp"
    <2>1. p.remotePort \notin DOMAIN byPort
        BY <1>6 DEF Registers, EndpointsFree, NewProxyRecord, HostsFree
    <2>2. byPort' = Put(byPort, p.remotePort, p) /\ UNCHANGED vhost
        BY <1>6 DEF Enter
    <2>3. leasedPorts' = Put(leasedPorts, p.remotePort, OwnerOf(p))
        BY <2>1, <2>2 DEF leasedPorts, Put
    <2>4. leasedHosts' = leasedHosts
        BY <2>2 DEF leasedHosts
    <2>5. p.remotePort \notin DOMAIN leasedPorts
        BY <2>1 DEF leasedPorts
    <2>6. Leases!ExposePort(OwnerOf(p), p.remotePort)
        BY <1>5, <2>3, <2>4, <2>5 DEF Leases!ExposePort, Leases!Put, Put
    <2> QED BY <1>1, <1>2, <1>6, <2>6 DEF Leases!Next, Leases!Owner
<1>7. CASE np.type = "http"
    <2>1. Hosts(np) \intersect DOMAIN vhost = {}
        BY <1>7 DEF Registers, EndpointsFree, HostsFree
    <2>2. vhost' = PutAll(vhost, Hosts(np), p) /\ UNCHANGED byPort
        BY <1>7 DEF Enter
    <2>3. leasedHosts' = PutAll(leasedHosts, Hosts(np), OwnerOf(p))
        BY <2>1, <2>2 DEF leasedHosts, PutAll
    <2>4. leasedPorts' = leasedPorts
        BY <2>2 DEF leasedPorts
    <2>5. Hosts(np) \intersect DOMAIN leasedHosts = {}
        BY <2>1 DEF leasedHosts
    <2>6. Hosts(np) # {}
        <3>1. CASE np.subdomain # NoDomain
            BY <3>1 DEF Hosts
        <3>2. CASE np.subdomain = NoDomain
            <4>1. np.customDomains # << >> /\ np.customDomains \in Seq(Seq(STRING))
                BY <1>7, <3>2, RequestAssumption DEF Registers, WellFormed
            <4>2. 1 \in DOMAIN np.customDomains
                BY <4>1
            <4> QED BY <4>2 DEF Hosts
        <3> QED BY <3>1, <3>2
    <2>7. Leases!ExposeHosts(OwnerOf(p), Hosts(np))
        BY <1>5, <2>3, <2>4, <2>5, <2>6 DEF Leases!ExposeHosts, Leases!PutAll, PutAll
    <2>8. Hosts(np) \in SUBSET Host
        BY <1>7 DEF Host
    <2> QED BY <1>2, <2>7, <2>8 DEF Leases!Next, Leases!Owner
<1> QED BY <1>6, <1>7 DEF Enter

\* The control plane implements the lease of public endpoints: a port or a host is
\* never taken over while somebody holds it, whatever logins, kicks, registrations,
\* removals and shutdowns overlap.
THEOREM RegistryImplementsExposure == Spec => ImplementsExposure
<1>1. Init => Leases!Init
    BY DEF Init, Leases!Init, leasedPorts, leasedHosts, Empty, Leases!Empty
<1>2. IInv /\ [Next]_vars => [Leases!Next]_(Leases!lease)
    <2> SUFFICES ASSUME IInv, [Next]_vars PROVE [Leases!Next]_(Leases!lease)
        OBVIOUS
    <2> USE DEF IInv
    <2>1. ASSUME NEW se \in Session, NEW g \in Session \union {Main}, DropSession(g, se)
          PROVE  Leases!Next
        BY <2>1, RemoveWithdraws DEF DropSession, EntryOf, Released
    <2>2. ASSUME NEW se \in Session, NEW n \in Name, HandleCloseProxy(se, n)
          PROVE  Leases!Next
        <3> PICK P : P = {p \in OwnedBy(se) : p.np.name = n}
            OBVIOUS
        <3>1. P \in SUBSET OwnedBy(se) /\ removeProxiesLocked(se, P)
            BY <2>2 DEF HandleCloseProxy
        <3> QED BY <3>1, RemoveWithdraws
    <2>3. CASE UNCHANGED <<byPort, vhost>>
        BY <2>3 DEF Leases!lease, leasedPorts, leasedHosts
    <2>4. ASSUME NEW se \in Session, NEW np \in Request, HandleNewProxy(se, np)
          PROVE  [Leases!Next]_(Leases!lease)
        BY <2>3, <2>4, EnterExposes DEF HandleNewProxy, registerProxy, registry
    <2> QED BY <2>1, <2>2, <2>3, <2>4
            DEF Next, vars, registry, handlers, BeginShutdown, ShutdownClosed, Accept, Reject,
                Kicked, Greet, CloseConn, Exit, ShutdownClose, Receive, HandlePing, SkipFrame,
                HandleBadFrame, ReadError, TakeFrame, Login, Dropped, CloseReturns, NothingToRead
<1> QED BY <1>1, <1>2, Invariance, PTL DEF Spec, ImplementsExposure, Leases!Spec
=============================================================================
