------------------------------ MODULE MCClient ------------------------------
(* Small instances of Client for TLC. *)
EXTENDS Client

Tcp(name, endpoint) == [name |-> name, type |-> "tcp", local |-> "l", endpoint |-> endpoint]

X1 == Tcp("x", 1)
XAny == Tcp("x", AnyPort)
Y1 == Tcp("y", 1)

\* x moves from a port of the server's choice to a port of its own, or is deleted; a
\* file with a name twice does not load.
MCEntry == {X1, XAny}
MCFile == {<<XAny>>, <<X1>>, << >>, <<X1, XAny>>}
MCStart == {<<XAny>>}

\* x is renamed to y and keeps its endpoint.
RenameEntry == {X1, Y1}
RenameFile == {<<X1>>, <<Y1>>}
=============================================================================
