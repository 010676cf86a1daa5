------------------------------ MODULE Exposure ------------------------------
(***************************************************************************)
(* What the server promises about its public endpoints, without clients,   *)
(* logins or connections: every port and every virtual host is leased to   *)
(* at most one proxy, a lease is granted only while the endpoint is free,  *)
(* all hosts of a proxy are granted and withdrawn together, and one step   *)
(* withdraws proxies of one session only.                                  *)
(***************************************************************************)
EXTENDS GoMap

CONSTANTS Session,      \* the sessions that may hold proxies
          Name,         \* proxy names
          Port,         \* ports that may be leased
          Host          \* host names that may be leased

VARIABLES ports,        \* port -> the proxy that holds it
          hosts         \* virtual host -> the proxy that holds it

lease == <<ports, hosts>>

\* A proxy is known by the session that registered it and its name.
Owner == Session \X Name

Owners == {ports[q] : q \in DOMAIN ports} \union {hosts[h] : h \in DOMAIN hosts}

Init == /\ ports = Empty
        /\ hosts = Empty

\* A new proxy is given a port nobody holds.
ExposePort(o, q) == /\ o \notin Owners
                    /\ q \notin DOMAIN ports
                    /\ ports' = Put(ports, q, o)
                    /\ UNCHANGED hosts

\* A new proxy is given a set of hosts none of which anybody holds.
ExposeHosts(o, H) == /\ o \notin Owners
                     /\ H # {}
                     /\ H \intersect DOMAIN hosts = {}
                     /\ hosts' = PutAll(hosts, H, o)
                     /\ UNCHANGED ports

\* Proxies of one session go, each with everything it holds.
Withdraw(O) == /\ ports' = Del(ports, {q \in DOMAIN ports : ports[q] \in O})
               /\ hosts' = Del(hosts, {h \in DOMAIN hosts : hosts[h] \in O})

Next == \/ \E o \in Owner, q \in Port : ExposePort(o, q)
        \/ \E o \in Owner, H \in SUBSET Host : ExposeHosts(o, H)
        \/ \E se \in Session, N \in SUBSET Name : Withdraw({se} \X N)

Spec == Init /\ [][Next]_lease

=============================================================================
