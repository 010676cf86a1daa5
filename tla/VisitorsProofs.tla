--------------------------- MODULE VisitorsProofs ---------------------------
(***************************************************************************)
(* Proofs about the data plane, for any number of visitors, proxy names    *)
(* and registrations and any capacity of the queues.                       *)
(***************************************************************************)
EXTENDS Visitors, FiniteSetTheorems, TLAPS

-----------------------------------------------------------------------------
\* Nobody has to do with a proxy object before it is registered, and a visitor on
\* its way into a queue is open and knows its proxy.
Arrivals ==
    /\ \A n \in live : gen[n] > 0
    /\ \A n \in Name, i \in 1..MaxGen : i > gen[n] => queue[<<n, i>>] = << >>
    /\ \A v \in Visitor :
          /\ acc[v] \in {"arrived", "notify"} =>
                target[v] \in Proxy /\ target[v][2] <= gen[target[v][1]]
          /\ acc[v] = "arrived" => vconn[v] = "open"

\* The inductive invariant.
IInv == TypeOK /\ Arrivals /\ OnePlace /\ Matched

-----------------------------------------------------------------------------
(* Sequences of visitors *)

\* Taking the head off a queue keeps the rest in order.
LEMMA TailFacts ==
    ASSUME NEW s \in Seq(Visitor), s # << >>
    PROVE  /\ Head(s) \in Visitor
           /\ Head(s) = s[1]
           /\ Tail(s) \in Seq(Visitor)
           /\ Len(Tail(s)) = Len(s) - 1
           /\ Len(s) \in Nat \ {0}
           /\ 1 \in DOMAIN s
           /\ \A i \in DOMAIN Tail(s) : i + 1 \in DOMAIN s /\ Tail(s)[i] = s[i + 1]
OBVIOUS

\* Appending keeps what was there and adds one element.
LEMMA AppendFacts ==
    ASSUME NEW s \in Seq(Visitor), NEW v \in Visitor
    PROVE  /\ Append(s, v) \in Seq(Visitor)
           /\ Len(Append(s, v)) = Len(s) + 1
           /\ Len(s) \in Nat
           /\ DOMAIN s = 1 .. Len(s)
           /\ DOMAIN Append(s, v) = 1 .. Len(s) + 1
           /\ Append(s, v)[Len(s) + 1] = v
           /\ \A i \in DOMAIN s : Append(s, v)[i] = s[i]
OBVIOUS

\* Both stay within the capacity of the queue.
LEMMA TailFits ==
    ASSUME NEW q \in Seq(Visitor), q # << >>, Len(q) <= QueueCap
    PROVE  Tail(q) \in Seq(Visitor) /\ Len(Tail(q)) <= QueueCap
BY TailFacts, CapAssumption

\* Appending to a queue below its capacity.
LEMMA AppendFits ==
    ASSUME NEW q \in Seq(Visitor), NEW v \in Visitor, Len(q) < QueueCap
    PROVE  Append(q, v) \in Seq(Visitor) /\ Len(Append(q, v)) <= QueueCap
BY AppendFacts, CapAssumption

\* The object under a live name is a proxy object.
LEMMA CurrentType ==
    ASSUME TypeOK, Arrivals, NEW n \in live
    PROVE  Current(n) \in Proxy /\ n \in Name
BY GenAssumption DEF TypeOK, Arrivals, Current, Proxy

-----------------------------------------------------------------------------
(* Types *)

\* Every step keeps the types.
LEMMA TypeStep ==
    ASSUME TypeOK, Arrivals, [Next]_vars
    PROVE  TypeOK'
<1> USE GenAssumption, CapAssumption DEF TypeOK, client
<1>1. CASE DropSession
    BY <1>1 DEF DropSession, Remove
<1>2. CASE CloseConn
    BY <1>2 DEF CloseConn
<1>3. ASSUME NEW n \in Name, Register(n) PROVE TypeOK'
    BY <1>3 DEF Register
<1>4. ASSUME NEW n \in Name, CloseProxy(n) PROVE TypeOK'
    BY <1>4 DEF CloseProxy, Remove
<1>5. ASSUME NEW n \in Name, ReadNotice(n) PROVE TypeOK'
    BY <1>5, SMTT(30) DEF ReadNotice, Started
<1>6. ASSUME NEW n \in Name, OpenStream(n) PROVE TypeOK'
    BY <1>6, SMTT(30) DEF OpenStream
<1>7. ASSUME NEW n \in Name, GiveUp(n) PROVE TypeOK'
    BY <1>7, SMTT(30) DEF GiveUp
<1>8. ASSUME NEW n \in Name, LookUp(n) PROVE TypeOK'
    <2>1. Current(n) \in Proxy
        BY <1>8, CurrentType DEF LookUp
    <2>2. waiting' \in [Proxy -> Nat]
        BY <1>8, <2>1 DEF LookUp
    <2>3. opening' \in [Name -> Nat]
        BY <1>8 DEF LookUp
    <2>4. UNCHANGED <<sess, gen, live, queue, acc, target, vconn, notices, work, lost>>
        BY <1>8 DEF LookUp
    <2> QED BY <2>2, <2>3, <2>4
<1>9. ASSUME NEW n \in Name, LookUpFails(n) PROVE TypeOK'
    BY <1>9, SMTT(30) DEF LookUpFails
<1>10. ASSUME NEW p \in Proxy, Take(p) PROVE TypeOK'
    <2>1. PICK q : q = Tail(queue[p])
        OBVIOUS
    <2>2. q \in Seq(Visitor) /\ Len(q) <= QueueCap
        BY <1>10, <2>1, TailFits DEF Take, Received
    <2>3. queue' = [queue EXCEPT ![p] = q]
        BY <1>10, <2>1 DEF Take, Received
    <2> QED BY <1>10, <2>2, <2>3 DEF Take, Received
<1>11. ASSUME NEW p \in Proxy, StreamTimeout(p) PROVE TypeOK'
    BY <1>11 DEF StreamTimeout
<1>12. ASSUME NEW v \in Visitor, Refuse(v) PROVE TypeOK'
    BY <1>12 DEF Refuse
<1>13. ASSUME NEW v \in Visitor, Enqueue(v) PROVE TypeOK'
    <2>1. target[v] \in Proxy
        BY <1>13 DEF Enqueue, Arrivals, Room
    <2>2. CASE Len(queue[target[v]]) < QueueCap
        <3>1. PICK q : q = Append(queue[target[v]], v)
            OBVIOUS
        <3>2. q \in Seq(Visitor) /\ Len(q) <= QueueCap
            BY <2>1, <2>2, <3>1, AppendFits
        <3>3. queue' = [queue EXCEPT ![target[v]] = q]
            BY <1>13, <2>1, <2>2, <3>1 DEF Enqueue, Room
        <3> QED BY <1>13, <2>1, <3>2, <3>3 DEF Enqueue, Room
    <2>3. CASE ~(Len(queue[target[v]]) < QueueCap)
        BY <1>13, <2>3 DEF Enqueue, Room
    <2> QED BY <2>2, <2>3
<1>14. ASSUME NEW v \in Visitor, Notify(v) PROVE TypeOK'
    <2>1. target[v][1] \in Name
        BY <1>14 DEF Notify, Arrivals, Proxy
    <2> QED BY <1>14, <2>1, SMTT(30) DEF Notify
<1>15. ASSUME NEW v \in Visitor, NotifyFails(v) PROVE TypeOK'
    <2>1. target[v] \in Proxy
        BY <1>15 DEF NotifyFails, Arrivals, HeadTaken
    <2>2. PICK q : q = IF queue[target[v]] = << >> THEN << >> ELSE Tail(queue[target[v]])
        OBVIOUS
    <2>3. q \in Seq(Visitor) /\ Len(q) <= QueueCap
        BY <2>1, <2>2, TailFits
    <2>4. queue' = [queue EXCEPT ![target[v]] = q]
        BY <1>15, <2>1, <2>2 DEF NotifyFails, HeadTaken
    <2>5. vconn' \in [Visitor -> {"none", "open", "joined", "closed"}]
        BY <1>15 DEF NotifyFails, HeadTaken
    <2> QED BY <1>15, <2>1, <2>3, <2>4, <2>5 DEF NotifyFails, HeadTaken
<1>16. ASSUME NEW v \in Visitor, JoinEnds(v) PROVE TypeOK'
    BY <1>16 DEF JoinEnds
<1>17. ASSUME NEW v \in Visitor, NEW n \in Name, Arrive(v, n) PROVE TypeOK'
    <2>1. Current(n) \in Proxy
        BY <1>17, CurrentType DEF Arrive
    <2> QED BY <1>17, <2>1 DEF Arrive
<1>18. ASSUME NEW n \in Name, NoticeLost(n) PROVE TypeOK'
    BY <1>18, SMTT(30) DEF NoticeLost
<1>19. ASSUME NEW n \in Name, StreamRejected(n) PROVE TypeOK'
    BY <1>19, SMTT(30) DEF StreamRejected
<1>20. CASE UNCHANGED vars
    BY <1>20 DEF vars
<1> QED BY <1>1, <1>2, <1>3, <1>4, <1>5, <1>6, <1>7, <1>8, <1>9, <1>10, <1>11, <1>12,
           <1>13, <1>14, <1>15, <1>16, <1>17, <1>18, <1>19, <1>20 DEF Next

-----------------------------------------------------------------------------
(* Where visitors are *)

\* Every queued visitor has been put there, so one that has not been enqueued is
\* in no queue.
LEMMA NotQueued ==
    ASSUME OnePlace, NEW v \in Visitor, acc[v] \notin {"notify", "done"}
    PROVE  \A p \in Proxy : \A i \in DOMAIN queue[p] : queue[p][i] # v
BY DEF OnePlace

\* A removal empties the queues of the proxies that go, leaves the others alone,
\* and closes nobody but queued visitors.
LEMMA RemoveFacts ==
    ASSUME TypeOK, Arrivals, OnePlace, NEW N \in SUBSET Name, Remove(N)
    PROVE  /\ live' = live \ N
           /\ \A p \in Proxy : queue'[p] = queue[p] \/ queue'[p] = << >>
           /\ \A n \in live \ N : queue'[Current(n)] = queue[Current(n)]
           /\ \A v \in Visitor : vconn'[v] = vconn[v] \/ vconn'[v] = "closed"
           /\ \A v \in Visitor : acc[v] = "arrived" => vconn'[v] = vconn[v]
<1>1. PICK gone : gone = {Current(n) : n \in N \intersect live}
    OBVIOUS
<1>2. /\ live' = live \ N
      /\ queue' = [p \in Proxy |-> IF p \in gone THEN << >> ELSE queue[p]]
      /\ vconn' = [v \in Visitor |-> IF \E p \in gone : InQueue(v, p) THEN "closed" ELSE vconn[v]]
    BY <1>1 DEF Remove
<1>3. \A n \in live \ N : Current(n) \in Proxy /\ Current(n) \notin gone
    BY <1>1, CurrentType DEF Current
<1>4. gone \subseteq Proxy
    BY <1>1, CurrentType
<1>5. \A v \in Visitor : acc[v] = "arrived" => \A p \in gone : ~InQueue(v, p)
    BY <1>4, NotQueued DEF InQueue
<1> QED BY <1>2, <1>3, <1>5

\* Every step keeps Arrivals.
LEMMA ArrivalsStep ==
    ASSUME TypeOK, Arrivals, OnePlace, [Next]_vars
    PROVE  Arrivals'
<1> USE GenAssumption DEF Arrivals, client
<1>1. CASE DropSession
    BY <1>1, RemoveFacts DEF DropSession, Proxy
<1>2. CASE CloseConn
    BY <1>2 DEF CloseConn
<1>3. ASSUME NEW n \in Name, Register(n) PROVE Arrivals'
    BY <1>3, SMTT(30) DEF Register, TypeOK, Proxy
<1>4. ASSUME NEW n \in Name, CloseProxy(n) PROVE Arrivals'
    BY <1>4, RemoveFacts DEF CloseProxy, Proxy
<1>5. ASSUME NEW n \in Name, ReadNotice(n) PROVE Arrivals'
    BY <1>5 DEF ReadNotice, Started
<1>6. ASSUME NEW n \in Name, OpenStream(n) PROVE Arrivals'
    BY <1>6 DEF OpenStream
<1>7. ASSUME NEW n \in Name, GiveUp(n) PROVE Arrivals'
    BY <1>7 DEF GiveUp
<1>8. ASSUME NEW n \in Name, LookUp(n) PROVE Arrivals'
    BY <1>8 DEF LookUp
<1>9. ASSUME NEW n \in Name, LookUpFails(n) PROVE Arrivals'
    BY <1>9 DEF LookUpFails
<1>10. ASSUME NEW p \in Proxy, Take(p) PROVE Arrivals'
    <2>1. \A x \in Proxy : queue[x] = << >> => queue'[x] = << >>
        BY <1>10 DEF Take, TypeOK, Received
    <2>2. PICK h : h = Head(queue[p])
        OBVIOUS
    <2>3. h \in Visitor /\ acc[h] # "arrived"
        <3>1. h = queue[p][1] /\ 1 \in DOMAIN queue[p] /\ h \in Visitor
            BY <1>10, <2>2, TailFacts DEF Take, TypeOK, Received
        <3> QED BY <3>1 DEF OnePlace
    <2>4. \A v \in Visitor : v # h => vconn'[v] = vconn[v]
        BY <1>10, <2>2, <2>3 DEF Take, TypeOK, Received
    <2> QED BY <1>10, <2>1, <2>3, <2>4 DEF Take, Proxy, Received
<1>11. ASSUME NEW p \in Proxy, StreamTimeout(p) PROVE Arrivals'
    BY <1>11 DEF StreamTimeout
<1>12. ASSUME NEW v \in Visitor, Refuse(v) PROVE Arrivals'
    BY <1>12 DEF Refuse, TypeOK
<1>13. ASSUME NEW v \in Visitor, Enqueue(v) PROVE Arrivals'
    <2>1. \A n \in Name, i \in 1..MaxGen : i > gen[n] => queue'[<<n, i>>] = << >>
        <3>1. \A x \in Proxy : x # target[v] => queue'[x] = queue[x]
            BY <1>13 DEF Enqueue, TypeOK, Room
        <3>2. \A n \in Name, i \in 1..MaxGen : i > gen[n] => <<n, i>> \in Proxy /\ <<n, i>> # target[v]
            BY <1>13, SMTT(30) DEF Enqueue, TypeOK, Proxy, Room
        <3> QED BY <3>1, <3>2
    <2> QED BY <1>13, <2>1 DEF Enqueue, TypeOK, Room
<1>14. ASSUME NEW v \in Visitor, Notify(v) PROVE Arrivals'
    BY <1>14 DEF Notify, TypeOK
<1>15. ASSUME NEW v \in Visitor, NotifyFails(v) PROVE Arrivals'
    <2>1. \A x \in Proxy : queue[x] = << >> => queue'[x] = << >>
        BY <1>15 DEF NotifyFails, TypeOK, HeadTaken
    <2>2. \A w \in Visitor : acc[w] = "arrived" => vconn'[w] = vconn[w]
        <3>1. target[v] \in Proxy
            BY <1>15 DEF NotifyFails, HeadTaken
        <3>2. queue[target[v]] # << >> =>
                 /\ Head(queue[target[v]]) = queue[target[v]][1]
                 /\ 1 \in DOMAIN queue[target[v]]
            BY <3>1, TailFacts DEF TypeOK
        <3>3. \A w \in Visitor : acc[w] = "arrived" /\ queue[target[v]] # << >> =>
                 w # Head(queue[target[v]])
            BY <3>1, <3>2, NotQueued
        <3> QED BY <1>15, <3>3 DEF NotifyFails, HeadTaken
    <2>3. acc' = [acc EXCEPT ![v] = "done"] /\ UNCHANGED <<live, gen, target>>
        BY <1>15 DEF NotifyFails, HeadTaken
    <2> QED BY <2>1, <2>2, <2>3 DEF Proxy, TypeOK
<1>16. ASSUME NEW v \in Visitor, JoinEnds(v) PROVE Arrivals'
    BY <1>16 DEF JoinEnds, TypeOK
<1>17. ASSUME NEW v \in Visitor, NEW n \in Name, Arrive(v, n) PROVE Arrivals'
    <2>1. Current(n) \in Proxy /\ Current(n)[1] = n /\ Current(n)[2] = gen[n]
        BY <1>17, CurrentType DEF Arrive, Current
    <2> QED BY <1>17, <2>1, SMTT(30) DEF Arrive, TypeOK
<1>18. ASSUME NEW n \in Name, NoticeLost(n) PROVE Arrivals'
    BY <1>18 DEF NoticeLost
<1>19. ASSUME NEW n \in Name, StreamRejected(n) PROVE Arrivals'
    BY <1>19 DEF StreamRejected
<1>20. CASE UNCHANGED vars
    BY <1>20 DEF vars
<1> QED BY <1>1, <1>2, <1>3, <1>4, <1>5, <1>6, <1>7, <1>8, <1>9, <1>10, <1>11, <1>12,
           <1>13, <1>14, <1>15, <1>16, <1>17, <1>18, <1>19, <1>20 DEF Next

\* Emptying queues and closing queued visitors keeps everybody in one place.
LEMMA RemoveOnePlace ==
    ASSUME TypeOK, Arrivals, OnePlace, NEW N \in SUBSET Name, Remove(N), UNCHANGED <<acc, target>>
    PROVE  OnePlace'
<1>1. ASSUME NEW p \in Proxy, NEW i \in DOMAIN queue'[p]
      PROVE  queue'[p] = queue[p] /\ queue[p][i] \in Visitor
    <2>1. queue'[p] = queue[p]
        BY <1>1, RemoveFacts
    <2> QED BY <1>1, <2>1 DEF TypeOK
<1>2. \A v \in Visitor : vconn'[v] = vconn[v] \/ vconn'[v] = "closed"
    BY RemoveFacts
<1> QED BY <1>1, <1>2 DEF OnePlace

\* Taking the head off one queue keeps everybody in one place, whatever happens
\* to the one who leaves, when the others are at most closed or done.
LEMMA HeadGone ==
    ASSUME TypeOK, OnePlace, NEW p \in Proxy, queue[p] # << >>,
           queue' = [queue EXCEPT ![p] = Tail(queue[p])], UNCHANGED target,
           \A w \in Visitor : acc'[w] \in {acc[w], "done"},
           \A w \in Visitor : w = Head(queue[p]) \/ vconn'[w] \in {vconn[w], "closed"}
    PROVE  OnePlace'
<1>1. PICK q \in Seq(Visitor) : q = queue[p]
    BY DEF TypeOK
<1>2. PICK r \in Seq(Visitor) : r = Tail(q)
    BY <1>1, TailFacts
<1>3. /\ \A i \in DOMAIN r : i + 1 \in DOMAIN q /\ r[i] = q[i + 1] /\ i \in Nat \ {0}
      /\ Head(q) = q[1] /\ 1 \in DOMAIN q
    BY <1>1, <1>2, TailFacts
<1>4. queue'[p] = r /\ \A x \in Proxy : x # p => queue'[x] = queue[x]
    BY <1>1, <1>2 DEF TypeOK
<1>5. ASSUME NEW x \in Proxy, NEW i \in DOMAIN queue[x], queue[x][i] # Head(q)
      PROVE  /\ target'[queue[x][i]] = x
             /\ acc'[queue[x][i]] \in {"notify", "done"}
             /\ vconn'[queue[x][i]] \in {"open", "closed"}
    <2>1. queue[x][i] \in Visitor
        BY DEF TypeOK
    <2> QED BY <1>1, <1>5, <2>1 DEF OnePlace
<1>6. \A i \in DOMAIN r : r[i] # Head(q) /\ \A j \in DOMAIN r : r[i] = r[j] => i = j
    <2>1. \A i \in DOMAIN q : \A j \in DOMAIN q : q[i] = q[j] => i = j
        BY <1>1 DEF OnePlace
    <2> QED BY <1>3, <2>1
<1>7. \A x \in Proxy : x # p => \A i \in DOMAIN queue[x] : queue[x][i] # Head(q)
    BY <1>1, <1>3 DEF OnePlace
<1>8. ASSUME NEW i \in DOMAIN r
      PROVE  /\ target'[r[i]] = p
             /\ acc'[r[i]] \in {"notify", "done"}
             /\ vconn'[r[i]] \in {"open", "closed"}
    <2>1. PICK j \in DOMAIN queue[p] : r[i] = queue[p][j]
        BY <1>1, <1>3
    <2> QED BY <1>5, <1>6, <2>1
<1>9. ASSUME NEW x \in Proxy, x # p, NEW i \in DOMAIN queue[x]
      PROVE  /\ target'[queue[x][i]] = x
             /\ acc'[queue[x][i]] \in {"notify", "done"}
             /\ vconn'[queue[x][i]] \in {"open", "closed"}
             /\ \A j \in DOMAIN queue[x] : queue[x][i] = queue[x][j] => i = j
    BY <1>5, <1>7, <1>9 DEF OnePlace
<1>10. ASSUME NEW x \in Proxy, NEW i \in DOMAIN queue'[x]
       PROVE  /\ target'[queue'[x][i]] = x
              /\ acc'[queue'[x][i]] \in {"notify", "done"}
              /\ vconn'[queue'[x][i]] \in {"open", "closed"}
              /\ \A j \in DOMAIN queue'[x] : queue'[x][i] = queue'[x][j] => i = j
    <2>1. CASE x = p
        BY <1>4, <1>6, <1>8, <2>1
    <2>2. CASE x # p
        BY <1>4, <1>9, <2>2
    <2> QED BY <2>1, <2>2
<1> QED BY <1>10 DEF OnePlace

\* Every step keeps OnePlace.
LEMMA OnePlaceStep ==
    ASSUME TypeOK, Arrivals, OnePlace, [Next]_vars
    PROVE  OnePlace'
<1> USE DEF client
<1>1. CASE DropSession
    <2>1. UNCHANGED <<acc, target>> /\ Remove(Name)
        BY <1>1 DEF DropSession
    <2> QED BY <2>1, RemoveOnePlace
<1>2. CASE CloseConn
    BY <1>2 DEF CloseConn, OnePlace
<1>3. ASSUME NEW n \in Name, Register(n) PROVE OnePlace'
    BY <1>3 DEF Register, OnePlace
<1>4. ASSUME NEW n \in Name, CloseProxy(n) PROVE OnePlace'
    <2>1. UNCHANGED <<acc, target>> /\ Remove({n})
        BY <1>4 DEF CloseProxy
    <2> QED BY <2>1, RemoveOnePlace
<1>5. ASSUME NEW n \in Name, ReadNotice(n) PROVE OnePlace'
    BY <1>5 DEF ReadNotice, OnePlace, Started
<1>6. ASSUME NEW n \in Name, OpenStream(n) PROVE OnePlace'
    BY <1>6 DEF OpenStream, OnePlace
<1>7. ASSUME NEW n \in Name, GiveUp(n) PROVE OnePlace'
    BY <1>7 DEF GiveUp, OnePlace
<1>8. ASSUME NEW n \in Name, LookUp(n) PROVE OnePlace'
    BY <1>8 DEF LookUp, OnePlace
<1>9. ASSUME NEW n \in Name, LookUpFails(n) PROVE OnePlace'
    BY <1>9 DEF LookUpFails, OnePlace
<1>10. ASSUME NEW p \in Proxy, Take(p) PROVE OnePlace'
    <2>1. PICK h : h = Head(queue[p])
        OBVIOUS
    <2>2. queue' = [queue EXCEPT ![p] = Tail(queue[p])] /\ UNCHANGED <<acc, target>>
        BY <1>10 DEF Take, Received
    <2>3. \A w \in Visitor : w = h \/ vconn'[w] = vconn[w]
        BY <1>10, <2>1 DEF Take, TypeOK, Received
    <2> QED BY <1>10, <2>1, <2>2, <2>3, HeadGone DEF Take, Received
<1>11. ASSUME NEW p \in Proxy, StreamTimeout(p) PROVE OnePlace'
    BY <1>11 DEF StreamTimeout, OnePlace
<1>12. ASSUME NEW v \in Visitor, Refuse(v) PROVE OnePlace'
    <2>1. \A p \in Proxy : \A i \in DOMAIN queue[p] : queue[p][i] # v
        BY <1>12, NotQueued DEF Refuse
    <2> QED BY <1>12, <2>1 DEF Refuse, OnePlace, TypeOK
<1>13. ASSUME NEW v \in Visitor, Enqueue(v) PROVE OnePlace'
    <2>1. target[v] \in Proxy /\ vconn[v] = "open" /\ acc[v] = "arrived"
        BY <1>13 DEF Enqueue, Arrivals, Room
    <2>2. \A x \in Proxy : \A i \in DOMAIN queue[x] : queue[x][i] # v
        BY <2>1, NotQueued
    <2>3. CASE Len(queue[target[v]]) < QueueCap
        <3>1. PICK t \in Proxy : t = target[v]
            BY <2>1
        <3>2. PICK q \in Seq(Visitor) : q = queue[t]
            BY <2>1 DEF TypeOK
        <3>3. PICK r : r = Append(q, v)
            OBVIOUS
        <3>4. /\ queue' = [queue EXCEPT ![t] = r]
              /\ acc' = [acc EXCEPT ![v] = "notify"]
              /\ UNCHANGED <<vconn, target>>
            BY <1>13, <2>3, <3>1, <3>2, <3>3, CapAssumption DEF Enqueue, TypeOK, Room
        <3>5. /\ DOMAIN q = 1 .. Len(q) /\ DOMAIN r = 1 .. Len(q) + 1 /\ Len(q) \in Nat
              /\ r[Len(q) + 1] = v
              /\ \A i \in DOMAIN q : r[i] = q[i] /\ q[i] # v
            BY <2>2, <3>2, <3>3, AppendFacts
        <3>6. \A i \in DOMAIN r : (i \in DOMAIN q /\ r[i] = q[i]) \/ (i = Len(q) + 1 /\ r[i] = v)
            BY <3>5
        <3>7. \A i \in DOMAIN r : \A j \in DOMAIN r : r[i] = r[j] => i = j
            BY <3>2, <3>5, <3>6 DEF OnePlace
        <3>8. \A i \in DOMAIN r : /\ target'[r[i]] = t
                                  /\ acc'[r[i]] \in {"notify", "done"}
                                  /\ vconn'[r[i]] \in {"open", "closed"}
            <4>1. ASSUME NEW i \in DOMAIN q
                  PROVE  /\ target[q[i]] = t
                         /\ acc'[q[i]] \in {"notify", "done"}
                         /\ vconn[q[i]] \in {"open", "closed"}
                BY <3>2, <3>4, <3>5 DEF OnePlace, TypeOK
            <4>2. target[v] = t /\ acc'[v] = "notify" /\ vconn[v] = "open"
                BY <2>1, <3>1, <3>4 DEF TypeOK
            <4> QED BY <3>4, <3>6, <4>1, <4>2
        <3>9. queue'[t] = r /\ \A x \in Proxy : x # t => queue'[x] = queue[x]
            BY <3>4 DEF TypeOK
        <3>10. ASSUME NEW x \in Proxy, x # t, NEW i \in DOMAIN queue[x]
               PROVE  /\ target'[queue[x][i]] = x
                      /\ acc'[queue[x][i]] \in {"notify", "done"}
                      /\ vconn'[queue[x][i]] \in {"open", "closed"}
                      /\ \A j \in DOMAIN queue[x] : queue[x][i] = queue[x][j] => i = j
            BY <2>2, <3>4 DEF OnePlace, TypeOK
        <3> QED BY <3>7, <3>8, <3>9, <3>10 DEF OnePlace
    <2>4. CASE ~(Len(queue[target[v]]) < QueueCap)
        BY <1>13, <2>2, <2>4 DEF Enqueue, OnePlace, TypeOK, Room
    <2> QED BY <2>3, <2>4
<1>14. ASSUME NEW v \in Visitor, Notify(v) PROVE OnePlace'
    BY <1>14 DEF Notify, OnePlace, TypeOK
<1>15. ASSUME NEW v \in Visitor, NotifyFails(v) PROVE OnePlace'
    <2>1. target[v] \in Proxy
        BY <1>15 DEF NotifyFails, Arrivals, HeadTaken
    <2>2. /\ acc' = [acc EXCEPT ![v] = "done"]
          /\ UNCHANGED target
          /\ \A w \in Visitor : vconn'[w] \in {vconn[w], "closed"}
        BY <1>15 DEF NotifyFails, HeadTaken
    <2>3. CASE queue[target[v]] = << >>
        <3>1. queue' = queue
            BY <1>15, <2>1, <2>3 DEF NotifyFails, TypeOK, HeadTaken
        <3> QED BY <2>2, <3>1 DEF OnePlace, TypeOK
    <2>4. CASE queue[target[v]] # << >>
        <3>1. PICK t \in Proxy : t = target[v]
            BY <2>1
        <3>2. queue' = [queue EXCEPT ![t] = Tail(queue[t])]
            BY <1>15, <2>4, <3>1 DEF NotifyFails, HeadTaken
        <3>3. \A w \in Visitor : acc'[w] \in {acc[w], "done"}
            BY <2>2 DEF TypeOK
        <3> QED BY <2>2, <2>4, <3>1, <3>2, <3>3, HeadGone
    <2> QED BY <2>3, <2>4
<1>16. ASSUME NEW v \in Visitor, JoinEnds(v) PROVE OnePlace'
    BY <1>16 DEF JoinEnds, OnePlace, TypeOK
<1>17. ASSUME NEW v \in Visitor, NEW n \in Name, Arrive(v, n) PROVE OnePlace'
    <2>1. \A p \in Proxy : \A i \in DOMAIN queue[p] : queue[p][i] # v
        BY <1>17, NotQueued DEF Arrive
    <2> QED BY <1>17, <2>1 DEF Arrive, OnePlace, TypeOK
<1>18. ASSUME NEW n \in Name, NoticeLost(n) PROVE OnePlace'
    BY <1>18 DEF NoticeLost, OnePlace
<1>19. ASSUME NEW n \in Name, StreamRejected(n) PROVE OnePlace'
    BY <1>19 DEF StreamRejected, OnePlace
<1>20. CASE UNCHANGED vars
    BY <1>20 DEF vars, OnePlace
<1> QED BY <1>1, <1>2, <1>3, <1>4, <1>5, <1>6, <1>7, <1>8, <1>9, <1>10, <1>11, <1>12,
           <1>13, <1>14, <1>15, <1>16, <1>17, <1>18, <1>19, <1>20 DEF Next

-----------------------------------------------------------------------------
(* Nobody waits without a stream on its way *)

\* What Matched says of one proxy object p under the name n.
Bound(n, p) == Len(queue[p]) <= Cardinality(Notifying(p)) + notices[n] + work[n] + opening[n]
                                  + waiting[p] + lost[n]

\* Matched is the bound for every registered proxy.
LEMMA MatchedBound == Matched <=> \A n \in live : Bound(n, Current(n))
BY DEF Matched, Bound

\* Sets of visitors are finite.
LEMMA VisitorSets ==
    ASSUME NEW S \in SUBSET Visitor
    PROVE  IsFiniteSet(S) /\ Cardinality(S) \in Nat
BY VisitorAssumption, FS_Subset, FS_CardinalityType

\* One visitor less.
LEMMA LeaveOne ==
    ASSUME NEW S \in SUBSET Visitor, NEW v \in S
    PROVE  Cardinality(S \ {v}) = Cardinality(S) - 1
<1>1. IsFiniteSet(S)
    BY VisitorSets
<1>2. Cardinality(S \ {v}) = IF v \in S THEN Cardinality(S) - 1 ELSE Cardinality(S)
    BY <1>1, FS_RemoveElement, Zenon
<1> QED BY <1>2

\* The quantities of a bound are natural numbers.
LEMMA BoundTypes ==
    ASSUME TypeOK, NEW n \in Name, NEW p \in Proxy
    PROVE  /\ Len(queue[p]) \in Nat /\ notices[n] \in Nat /\ work[n] \in Nat
           /\ opening[n] \in Nat /\ waiting[p] \in Nat /\ lost[n] \in Nat
           /\ Cardinality(Notifying(p)) \in Nat /\ IsFiniteSet(Notifying(p))
<1>1. Notifying(p) \in SUBSET Visitor
    BY DEF Notifying
<1> QED BY <1>1, VisitorSets DEF TypeOK

\* A step that keeps a registered proxy object under its name keeps its bound.
LEMMA BoundStep ==
    ASSUME TypeOK, TypeOK', Arrivals, NEW n \in Name, NEW p \in Proxy, p = Current(n),
           n \in live, n \in live', Bound(n, p), [Next]_vars
    PROVE  Bound(n, p)'
<1>0. Notifying(p) \in SUBSET Visitor
    BY DEF Notifying
<1>1. PICK l \in Nat, c \in Nat, a \in Nat, w \in Nat, o \in Nat, t \in Nat, x \in Nat :
          /\ l = Len(queue[p]) /\ c = Cardinality(Notifying(p)) /\ a = notices[n] /\ w = work[n]
          /\ o = opening[n] /\ t = waiting[p] /\ x = lost[n]
    BY BoundTypes
<1>2. PICK l1 \in Nat, c1 \in Nat, a1 \in Nat, w1 \in Nat, o1 \in Nat, t1 \in Nat, x1 \in Nat :
          /\ l1 = Len(queue'[p]) /\ c1 = Cardinality(Notifying(p)') /\ a1 = notices'[n]
          /\ w1 = work'[n] /\ o1 = opening'[n] /\ t1 = waiting'[p] /\ x1 = lost'[n]
    <2>1. Notifying(p)' \in SUBSET Visitor
        BY DEF Notifying
    <2>2. Cardinality(Notifying(p)') \in Nat
        BY <2>1, VisitorSets
    <2>3. /\ Len(queue'[p]) \in Nat /\ notices'[n] \in Nat /\ work'[n] \in Nat
          /\ opening'[n] \in Nat /\ waiting'[p] \in Nat /\ lost'[n] \in Nat
        BY DEF TypeOK
    <2> QED BY <2>2, <2>3
<1> DEFINE Goal == l1 <= c1 + a1 + w1 + o1 + t1 + x1
<1>3. l <= c + a + w + o + t + x
    BY <1>1 DEF Bound
<1>4. ASSUME Goal PROVE Bound(n, p)'
    BY <1>2, <1>4 DEF Bound
<1>5. /\ UNCHANGED queue => l1 = l
      /\ UNCHANGED notices => a1 = a
      /\ UNCHANGED work => w1 = w
      /\ UNCHANGED opening => o1 = o
      /\ UNCHANGED waiting => t1 = t
      /\ UNCHANGED lost => x1 = x
      /\ Notifying(p)' = Notifying(p) => c1 = c
    BY <1>1, <1>2
<1>6. UNCHANGED <<acc, target>> => c1 = c
    BY <1>1, <1>2 DEF Notifying
<1>7. l1 = l /\ c1 = c /\ a1 = a /\ w1 = w /\ o1 = o /\ t1 = t /\ x1 = x => Goal
    BY <1>3
<1>8. queue'[p] = << >> => Goal
    <2>1. queue'[p] = << >> => l1 = 0
        BY <1>2
    <2> QED BY <2>1
<1>9. p[1] = n
    BY DEF Current
<1> HIDE DEF Goal
<1>10. ASSUME DropSession PROVE Goal
    BY <1>10 DEF DropSession, Remove, TypeOK
<1>11. ASSUME CloseConn PROVE Goal
    BY <1>11, <1>5, <1>6, <1>7 DEF CloseConn, client
<1>12. ASSUME NEW m \in Name, Register(m) PROVE Goal
    BY <1>12, <1>5, <1>6, <1>7 DEF Register, client
<1>13. ASSUME NEW m \in Name, CloseProxy(m) PROVE Goal
    <2>1. n # m /\ p # Current(m)
        BY <1>13 DEF CloseProxy, Remove, Current
    <2>2. queue'[p] = queue[p] /\ UNCHANGED <<acc, target, notices, work, opening, waiting, lost>>
        BY <1>13, <2>1 DEF CloseProxy, Remove, client
    <2> QED BY <2>2, <1>1, <1>2, <1>5, <1>6, <1>7
<1>14. ASSUME NEW m \in Name, ReadNotice(m) PROVE Goal
    <2>1. (a1 = a /\ w1 = w) \/ (a1 = a - 1 /\ w1 = w + 1)
        BY <1>14, <1>1, <1>2 DEF ReadNotice, TypeOK, Started
    <2>2. c1 = c /\ l1 = l /\ o1 = o /\ t1 = t /\ x1 = x
        BY <1>14, <1>5, <1>6 DEF ReadNotice, client, Started
    <2> QED BY <2>1, <2>2, <1>3 DEF Goal
<1>15. ASSUME NEW m \in Name, OpenStream(m) PROVE Goal
    <2>1. (w1 = w /\ o1 = o) \/ (w1 = w - 1 /\ o1 = o + 1)
        BY <1>15, <1>1, <1>2 DEF OpenStream, TypeOK
    <2>2. c1 = c /\ l1 = l /\ a1 = a /\ t1 = t /\ x1 = x
        BY <1>15, <1>5, <1>6 DEF OpenStream, client
    <2> QED BY <2>1, <2>2, <1>3 DEF Goal
<1>16. ASSUME NEW m \in Name, GiveUp(m) PROVE Goal
    <2>1. (w1 = w /\ x1 = x) \/ (w1 = w - 1 /\ x1 = x + 1)
        BY <1>16, <1>1, <1>2 DEF GiveUp, TypeOK
    <2>2. c1 = c /\ l1 = l /\ a1 = a /\ o1 = o /\ t1 = t
        BY <1>16, <1>5, <1>6 DEF GiveUp, client
    <2> QED BY <2>1, <2>2, <1>3 DEF Goal
<1>17. ASSUME NEW m \in Name, LookUp(m) PROVE Goal
    <2>1. c1 = c /\ l1 = l /\ a1 = a /\ w1 = w /\ x1 = x
        BY <1>17, <1>5, <1>6 DEF LookUp, client
    <2>2. CASE m = n
        <3>1. o1 = o - 1 /\ t1 = t + 1
            BY <1>17, <2>2, <1>1, <1>2 DEF LookUp, TypeOK
        <3> QED BY <2>1, <3>1, <1>3 DEF Goal
    <2>3. CASE m # n
        <3>1. Current(m) # p
            BY <2>3 DEF Current
        <3>2. o1 = o /\ t1 = t
            BY <1>17, <2>3, <3>1, <1>1, <1>2 DEF LookUp, TypeOK
        <3> QED BY <2>1, <3>2, <1>7
    <2> QED BY <2>2, <2>3
<1>18. ASSUME NEW m \in Name, LookUpFails(m) PROVE Goal
    <2>1. c1 = c /\ l1 = l /\ a1 = a /\ w1 = w /\ t1 = t /\ x1 = x
        BY <1>18, <1>5, <1>6 DEF LookUpFails, client
    <2>2. o1 = o
        BY <1>18, <1>1, <1>2 DEF LookUpFails, TypeOK
    <2> QED BY <2>1, <2>2, <1>7
<1>19. ASSUME NEW y \in Proxy, Take(y) PROVE Goal
    <2>1. c1 = c /\ a1 = a /\ w1 = w /\ o1 = o /\ x1 = x
        BY <1>19, <1>5, <1>6 DEF Take, client, Received
    <2>2. CASE y = p
        <3>1. waiting'[p] = waiting[p] - 1 /\ queue'[p] = Tail(queue[p]) /\ queue[p] # << >>
            BY <1>19, <2>2 DEF Take, TypeOK, Received
        <3>2. Len(queue'[p]) = Len(queue[p]) - 1
            BY <3>1, TailFacts DEF TypeOK
        <3>3. l1 = l - 1 /\ t1 = t - 1
            BY <3>1, <3>2, <1>1, <1>2
        <3> QED BY <2>1, <3>3, <1>3 DEF Goal
    <2>3. CASE y # p
        <3>1. l1 = l /\ t1 = t
            BY <1>19, <2>3, <1>1, <1>2 DEF Take, TypeOK, Received
        <3> QED BY <2>1, <3>1, <1>7
    <2> QED BY <2>2, <2>3
<1>20. ASSUME NEW y \in Proxy, StreamTimeout(y) PROVE Goal
    <2>1. c1 = c /\ l1 = l /\ a1 = a /\ w1 = w /\ o1 = o /\ x1 = x
        BY <1>20, <1>5, <1>6 DEF StreamTimeout, client
    <2>2. CASE y = p
        BY <1>20, <2>2, <1>8 DEF StreamTimeout
    <2>3. CASE y # p
        <3>1. t1 = t
            BY <1>20, <2>3, <1>1, <1>2 DEF StreamTimeout, TypeOK
        <3> QED BY <2>1, <3>1, <1>7
    <2> QED BY <2>2, <2>3
<1>21. ASSUME NEW v \in Visitor, Refuse(v) PROVE Goal
    <2>1. Notifying(p)' = Notifying(p)
        BY <1>21 DEF Refuse, Notifying, TypeOK
    <2> QED BY <1>21, <2>1, <1>5, <1>7 DEF Refuse, client
<1>22. ASSUME NEW v \in Visitor, Enqueue(v) PROVE Goal
    <2>1. UNCHANGED target /\ acc[v] = "arrived" /\ Len(queue[target[v]]) \in Nat
        BY <1>22 DEF Enqueue, TypeOK, Arrivals, Room
    <2>2. a1 = a /\ w1 = w /\ o1 = o /\ t1 = t /\ x1 = x
        BY <1>22, <1>5 DEF Enqueue, client, Room
    <2>3. CASE Len(queue[target[v]]) < QueueCap /\ target[v] = p
        <3>1. queue'[p] = Append(queue[p], v) /\ acc' = [acc EXCEPT ![v] = "notify"]
            BY <1>22, <2>1, <2>3, CapAssumption DEF Enqueue, TypeOK, Room
        <3>2. Len(queue'[p]) = Len(queue[p]) + 1
            BY <3>1, AppendFacts DEF TypeOK
        <3>3. Notifying(p)' = Notifying(p) \union {v} /\ v \notin Notifying(p)
            <4>1. /\ acc'[v] = "notify" /\ acc[v] # "notify"
                  /\ \A u \in Visitor : u # v => acc'[u] = acc[u]
                BY <2>1, <3>1 DEF TypeOK
            <4> QED BY <2>1, <2>3, <4>1 DEF Notifying
        <3>4. Cardinality(Notifying(p)') = Cardinality(Notifying(p)) + 1
            BY <3>3, BoundTypes, FS_AddElement
        <3>5. l1 = l + 1 /\ c1 = c + 1
            BY <3>2, <3>4, <1>1, <1>2
        <3> QED BY <2>2, <3>5, <1>3 DEF Goal
    <2>4. CASE Len(queue[target[v]]) >= QueueCap
        <3>1. queue' = queue /\ acc' = [acc EXCEPT ![v] = "done"]
            BY <1>22, <2>1, <2>4, CapAssumption DEF Enqueue, Room
        <3>2. Notifying(p)' = Notifying(p)
            BY <2>1, <3>1 DEF Notifying, TypeOK
        <3> QED BY <2>2, <3>1, <3>2, <1>5, <1>7
    <2>5. CASE target[v] # p
        <3>1. queue'[p] = queue[p] /\ acc' \in {[acc EXCEPT ![v] = "notify"], [acc EXCEPT ![v] = "done"]}
            BY <1>22, <2>5 DEF Enqueue, TypeOK, Room
        <3>2. Notifying(p)' = Notifying(p)
            BY <2>1, <2>5, <3>1 DEF Notifying, TypeOK
        <3>3. l1 = l /\ c1 = c
            BY <3>1, <3>2, <1>1, <1>2
        <3> QED BY <2>2, <3>3, <1>7
    <2> QED BY <2>1, <2>3, <2>4, <2>5, CapAssumption
<1>23. ASSUME NEW v \in Visitor, Notify(v) PROVE Goal
    <2>1. l1 = l /\ w1 = w /\ o1 = o /\ t1 = t /\ x1 = x
        BY <1>23, <1>5 DEF Notify, client
    <2>2. CASE target[v] = p
        <3>1. Notifying(p)' = Notifying(p) \ {v} /\ v \in Notifying(p)
            BY <1>23, <2>2 DEF Notify, Notifying, TypeOK
        <3>2. Cardinality(Notifying(p)') = Cardinality(Notifying(p)) - 1
            BY <3>1, <1>0, LeaveOne
        <3>3. notices'[n] = notices[n] + 1
            BY <1>23, <2>2, <1>9 DEF Notify, TypeOK
        <3>4. c1 = c - 1 /\ a1 = a + 1
            BY <3>2, <3>3, <1>1, <1>2
        <3> QED BY <2>1, <3>4, <1>3 DEF Goal
    <2>3. CASE target[v] # p
        <3>1. Notifying(p)' = Notifying(p)
            BY <1>23, <2>3 DEF Notify, Notifying, TypeOK
        <3>2. a1 = a \/ a1 = a + 1
            BY <1>23, <1>1, <1>2 DEF Notify, TypeOK
        <3>3. c1 = c
            BY <3>1, <1>5
        <3> QED BY <2>1, <3>2, <3>3, <1>3 DEF Goal
    <2> QED BY <2>2, <2>3
<1>24. ASSUME NEW v \in Visitor, NotifyFails(v) PROVE Goal
    <2>1. a1 = a /\ w1 = w /\ o1 = o /\ t1 = t /\ x1 = x /\ UNCHANGED target
        BY <1>24, <1>5 DEF NotifyFails, client, HeadTaken
    <2>2. CASE target[v] = p /\ queue[p] # << >>
        <3>1. queue'[p] = Tail(queue[p])
            BY <1>24, <2>2 DEF NotifyFails, TypeOK, HeadTaken
        <3>2. Len(queue'[p]) = Len(queue[p]) - 1
            BY <2>2, <3>1, TailFacts DEF TypeOK
        <3>3. Notifying(p)' = Notifying(p) \ {v} /\ v \in Notifying(p)
            BY <1>24, <2>1, <2>2 DEF NotifyFails, Notifying, TypeOK, HeadTaken
        <3>4. Cardinality(Notifying(p)') = Cardinality(Notifying(p)) - 1
            BY <3>3, <1>0, LeaveOne
        <3>5. l1 = l - 1 /\ c1 = c - 1
            BY <3>2, <3>4, <1>1, <1>2
        <3> QED BY <2>1, <3>5, <1>3 DEF Goal
    <2>3. CASE target[v] = p /\ queue[p] = << >>
        <3>1. queue'[p] = << >>
            BY <1>24, <2>3 DEF NotifyFails, TypeOK, HeadTaken
        <3> QED BY <3>1, <1>8
    <2>4. CASE target[v] # p
        <3>1. queue'[p] = queue[p]
            BY <1>24, <2>4 DEF NotifyFails, TypeOK, HeadTaken
        <3>2. Notifying(p)' = Notifying(p)
            BY <1>24, <2>1, <2>4 DEF NotifyFails, Notifying, TypeOK, HeadTaken
        <3>3. l1 = l /\ c1 = c
            BY <3>1, <3>2, <1>1, <1>2
        <3> QED BY <2>1, <3>3, <1>7
    <2> QED BY <2>2, <2>3, <2>4
<1>25. ASSUME NEW v \in Visitor, JoinEnds(v) PROVE Goal
    BY <1>25, <1>5, <1>6, <1>7 DEF JoinEnds, client
<1>26. ASSUME NEW v \in Visitor, NEW m \in Name, Arrive(v, m) PROVE Goal
    <2>1. Notifying(p)' = Notifying(p)
        BY <1>26 DEF Arrive, Notifying, TypeOK
    <2> QED BY <1>26, <2>1, <1>5, <1>7 DEF Arrive, client
<1>27. ASSUME NEW m \in Name, NoticeLost(m) PROVE Goal
    <2>1. (a1 = a /\ x1 = x) \/ (a1 = a - 1 /\ x1 = x + 1)
        BY <1>27, <1>1, <1>2 DEF NoticeLost, TypeOK
    <2>2. c1 = c /\ l1 = l /\ w1 = w /\ o1 = o /\ t1 = t
        BY <1>27, <1>5, <1>6 DEF NoticeLost
    <2> QED BY <2>1, <2>2, <1>3 DEF Goal
<1>28. ASSUME NEW m \in Name, StreamRejected(m) PROVE Goal
    <2>1. (o1 = o /\ x1 = x) \/ (o1 = o - 1 /\ x1 = x + 1)
        BY <1>28, <1>1, <1>2 DEF StreamRejected, TypeOK
    <2>2. c1 = c /\ l1 = l /\ a1 = a /\ w1 = w /\ t1 = t
        BY <1>28, <1>5, <1>6 DEF StreamRejected
    <2> QED BY <2>1, <2>2, <1>3 DEF Goal
<1>29. ASSUME UNCHANGED vars PROVE Goal
    BY <1>29, <1>5, <1>6, <1>7 DEF vars, client
<1> QED BY <1>4, <1>10, <1>11, <1>12, <1>13, <1>14, <1>15, <1>16, <1>17, <1>18, <1>19, <1>20,
           <1>21, <1>22, <1>23, <1>24, <1>25, <1>26, <1>27, <1>28, <1>29 DEF Next

\* Every step keeps Matched: a proxy object stays and keeps its bound, or it is new
\* and its queue is empty.
LEMMA MatchedStep ==
    ASSUME TypeOK, TypeOK', Arrivals, Matched, [Next]_vars
    PROVE  Matched'
<1>1. SUFFICES ASSUME NEW n \in live' PROVE Bound(n, Current(n))'
    BY DEF Matched, Bound
<1>2. n \in Name
    BY DEF TypeOK
<1>3. CASE n \in live /\ gen'[n] = gen[n]
    <2>1. PICK p \in Proxy : p = Current(n)
        BY <1>3, CurrentType
    <2>2. Bound(n, p)
        BY <1>3, <2>1, MatchedBound
    <2>3. Bound(n, p)'
        BY <1>1, <1>2, <1>3, <2>1, <2>2, BoundStep
    <2>4. Current(n)' = p
        BY <1>3, <2>1 DEF Current
    <2> QED BY <2>3, <2>4 DEF Bound, Notifying
<1>4. CASE ~(n \in live /\ gen'[n] = gen[n])
    <2>1. Register(n)
        <3>1. (\E m \in Name : Register(m)) \/ (gen' = gen /\ live' \subseteq live)
            BY DEF Next, vars, DropSession, CloseConn, CloseProxy, Remove, ReadNotice,
                   NoticeLost, OpenStream, GiveUp, LookUp, StreamRejected, LookUpFails, Take,
                   StreamTimeout, Refuse,
                   Enqueue, Notify, NotifyFails, JoinEnds, Arrive, Room, HeadTaken, Started, Received
        <3>2. ASSUME NEW m \in Name, Register(m), m # n PROVE FALSE
            BY <1>1, <1>2, <1>4, <3>2 DEF Register, TypeOK
        <3> QED BY <1>1, <1>4, <3>1, <3>2
    <2>2. PICK p : p = <<n, gen'[n]>>
        OBVIOUS
    <2>3. p \in Proxy /\ queue'[p] = << >>
        BY <2>1, <2>2, <1>2, GenAssumption DEF Register, TypeOK, Arrivals, Proxy
    <2>4. Notifying(p)' \in SUBSET Visitor
        BY DEF Notifying
    <2>5. PICK l \in Nat, c \in Nat, a \in Nat, w \in Nat, o \in Nat, t \in Nat, x \in Nat :
              /\ l = Len(queue'[p]) /\ c = Cardinality(Notifying(p)') /\ a = notices'[n] /\ w = work'[n]
              /\ o = opening'[n] /\ t = waiting'[p] /\ x = lost'[n]
        BY <2>3, <2>4, <1>2, VisitorSets DEF TypeOK
    <2>6. l = 0
        BY <2>3, <2>5
    <2>7. l <= c + a + w + o + t + x
        BY <2>6
    <2> QED BY <2>2, <2>5, <2>7 DEF Bound, Current
<1> QED BY <1>3, <1>4

-----------------------------------------------------------------------------
(* The theorems *)

\* The data plane keeps the inductive invariant.
THEOREM Invariance == Spec => []IInv
<1>1. Init => IInv
    <2>1. ASSUME Init PROVE TypeOK
        BY <2>1, GenAssumption, CapAssumption DEF Init, TypeOK
    <2>2. ASSUME Init PROVE Arrivals
        BY <2>2, GenAssumption DEF Init, Arrivals, Proxy
    <2>3. ASSUME Init PROVE OnePlace
        BY <2>3 DEF Init, OnePlace
    <2>4. ASSUME Init PROVE Matched
        BY <2>4 DEF Init, Matched
    <2> QED BY <2>1, <2>2, <2>3, <2>4 DEF IInv
<1>2. IInv /\ [Next]_vars => IInv'
    BY TypeStep, ArrivalsStep, OnePlaceStep, MatchedStep DEF IInv
<1> QED BY <1>1, <1>2, PTL DEF Spec

\* Every variable keeps its type; in particular no queue grows past its capacity.
THEOREM TypeCorrect == Spec => []TypeOK
<1>1. IInv => TypeOK
    BY DEF IInv
<1> QED BY <1>1, Invariance, PTL

\* A visitor is in one queue at most, once, the queue of the proxy object it came
\* to, and it is not joined as long as it is queued: deliverVisitor, removeProxyLocked
\* and handleDataStream never duplicate or misplace a visitor.
THEOREM VisitorInOnePlace == Spec => []OnePlace
<1>1. IInv => OnePlace
    BY DEF IInv
<1> QED BY <1>1, Invariance, PTL

\* While a proxy is registered, every visitor in its queue is matched by a
\* notification or a stream on its way, or by one that was lost: the client gave up
\* before it opened a stream, the server rejected the stream, or the connection ended.
THEOREM NoVisitorUnannounced == Spec => []Matched
<1>1. IInv => Matched
    BY DEF IInv
<1> QED BY <1>1, Invariance, PTL
=============================================================================
