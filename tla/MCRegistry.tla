---------------------------- MODULE MCRegistry ----------------------------
(* Small instances of Registry for TLC. *)
EXTENDS Registry

Req(name, type, local, port, sub, domains) ==
    [name |-> name, type |-> type, local |-> local, remotePort |-> port,
     subdomain |-> sub, customDomains |-> domains]

\* "a" and "a/b": with the names "w" and "b/w" two keys coincide.
MCClient == {<<"a">>, <<"a", "b">>}

MCRanges == <<[min |-> 1, max |-> 1], [min |-> 3, max |-> 3]>>
MCDomain == <<"d">>
MCFold == [l \in {"", "s", "S", "d"} |-> IF l = "S" THEN "s" ELSE l]

W == <<"w">>
BW == <<"b", "w">>

Tcp0 == Req(W, "tcp", "l", 0, NoDomain, << >>)        \* any port
Tcp1 == Req(BW, "tcp", "l", 1, NoDomain, << >>)       \* port 1
SubS == Req(W, "http", "l", 0, <<"s">>, << >>)        \* s.d
CusS == Req(BW, "http", "l", 0, NoDomain, <<<<"S", "d", "">>>>)   \* S.d. = s.d

Refused == { Req(W, "tcp", "l", 2, NoDomain, << >>),     \* port not allowed
             Req(W, "tcp", "bad", 1, NoDomain, << >>),   \* bad local address
             Req(W, "http", "l", 0, NoDomain, << >>),    \* no host
             Req(W, "udp", "l", 1, NoDomain, << >>) }    \* unknown type

MCRequest == {Tcp0, Tcp1, SubS, CusS} \union Refused

\* One client whose logins replace each other.
OneClient == {<<"a">>}

\* One port asked for by number, or left to the server.
GivenPort == {Tcp1}
AnyPort == {Tcp0}
=============================================================================
