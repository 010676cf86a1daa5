------------------------------- MODULE MCRelay ------------------------------
(* Small instances of Relay for TLC. *)
EXTENDS Relay

Http(lines, fits, reply) == [vhost |-> TRUE, lines |-> lines, fits |-> fits, reply |-> reply]
Tcp(lines, reply) == [vhost |-> FALSE, lines |-> lines, fits |-> 1, reply |-> reply]

\* A request with a body, three that are refused, and a visitor of a tcp proxy that
\* receives more than it sends.
MCVisit == {Http(<<"start", "host", "blank", "other">>, 2, 1),
            Http(<<"bad">>, 1, 0),
            Http(<<"start", "blank">>, 1, 0),
            Http(<<"start", "other", "other">>, 2, 0),
            Tcp(<<"other">>, 2)}
=============================================================================
