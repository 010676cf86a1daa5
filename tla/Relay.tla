------------------------------- MODULE Relay -------------------------------
(***************************************************************************)
(* The way of the bytes between one visitor and one local service: the     *)
(* visitor's connection, the request head the vhost listener reads and     *)
(* replays, the data stream with its StreamMeta frame, the connection to   *)
(* the local service, and Join at the server and at the client.            *)
(*                                                                         *)
(* Three connections in a row, each with a left end (towards the visitor)  *)
(* and a right end.  Bytes are numbered in the order they are sent; those  *)
(* of the StreamMeta frame are negative.  A byte of the request stands for *)
(* a line where lines matter.  A connection that fails keeps the bytes it  *)
(* never delivers, so that nothing leaves the model except by delivery.    *)
(***************************************************************************)
EXTENDS Integers, Sequences, FiniteSets

CONSTANTS
    Visit,          \* [vhost, lines, fits, reply]: what visitor and service will send, and
                    \* how many lines the limit for a request head lets pass
    HeaderLen,      \* length of a frame header (5)
    PayloadLen,     \* length of the payload of a StreamMeta frame
    Chunk,          \* buffer of copyLoop (32 KiB)
    PipeCap,        \* bytes a connection takes in before a write waits
    MaxBreak        \* connections that fail (bound)

\* Lines differ in length: the limit is 16 KiB.  The first line is not checked.
ASSUME VisitAssumption ==
    Visit \subseteq [vhost : BOOLEAN, lines : Seq({"start", "bad", "host", "other", "blank"}),
                    fits : Nat \ {0}, reply : Nat]

ASSUME SizeAssumption ==
    /\ MaxBreak \in Nat
    /\ {HeaderLen, PayloadLen, Chunk, PipeCap} \subseteq Nat \ {0}
    /\ PipeCap >= Chunk /\ PipeCap >= HeaderLen + PayloadLen

Conn == {"visitor", "stream", "local"}
Dir == {"up", "down"}
Host == {"server", "client"}

VARIABLES
    visit,          \* this visit
    at,             \* the visitor at the server: "head", "queued", "joined", "refused"
    head,           \* vhostConn.head: bytes read while parsing, to be replayed
    rd,             \* contents of the bufio.Reader
    work,           \* handleWorkConn: "idle", "open", "header", "payload", "join", "gone"
    meta,           \* bytes of the StreamMeta frame the server has read
    stream,         \* handleDataStream: "none", "meta", "wait", "join", "gone"
    loop,           \* the copy loops: [pc, buf]
    pipe,           \* bytes on the way, per connection and direction
    shut,           \* ends that are closed
    broken,         \* connections that failed
    sent,           \* bytes the visitor and the service have sent
    got,            \* bytes the service and the visitor have received
    count,          \* bytesOut ("up") and bytesIn ("down") of the session
    last            \* which side ended while the other was silent (history)

inside == <<visit, head, rd, meta, loop>>
bytes == <<sent, got, count>>
handlers == <<at, work, stream>>
ends == <<shut, broken>>
vars == <<inside, pipe, bytes, last, handlers, ends>>

WriteEnd(d) == IF d = "up" THEN "left" ELSE "right"
ReadEnd(d) == IF d = "up" THEN "right" ELSE "left"

\* Where the copy loop of a host reads and writes.
Src(h, d) == CASE h = "server" /\ d = "up" -> "visitor"
               [] h = "client" /\ d = "down" -> "local"
               [] OTHER -> "stream"
Dst(h, d) == Src(h, IF d = "up" THEN "down" ELSE "up")

\* The ends a host holds: server between visitor and stream, client between stream and local.
EndsOf(h) == IF h = "server" THEN {<<"visitor", "right">>, <<"stream", "left">>}
                             ELSE {<<"stream", "right">>, <<"local", "left">>}

FirstN(s, n) == SubSeq(s, 1, n)
FromN(s, n) == SubSeq(s, n + 1, Len(s))
Upto(m, n) == IF m < n THEN m ELSE n

FrameLen == HeaderLen + PayloadLen

StreamMeta == [i \in 1..FrameLen |-> -i]

Init == /\ visit \in Visit
        /\ at = IF visit.vhost THEN "head" ELSE "queued"
        /\ head = << >>
        /\ rd = << >>
        /\ work = "idle"
        /\ meta = 0
        /\ stream = "none"
        /\ loop = [h \in Host |-> [d \in Dir |-> [pc |-> "off", buf |-> << >>]]]
        /\ pipe = [c \in Conn |-> [d \in Dir |-> << >>]]
        /\ shut = {}
        /\ broken = {}
        /\ sent = [d \in Dir |-> 0]
        /\ got = [d \in Dir |-> << >>]
        /\ count = [d \in Dir |-> 0]
        /\ last = "none"

-----------------------------------------------------------------------------
(* Connections *)

\* A write of s succeeds.
Puts(c, d, s) == /\ <<c, WriteEnd(d)>> \notin shut
                 /\ c \notin broken
                 /\ Len(pipe[c][d]) + Len(s) <= PipeCap
                 /\ pipe' = [pipe EXCEPT ![c][d] = @ \o s]

\* A write may fail: the end is closed, the connection failed, or the peer has closed.
WriteMayFail(c, d) == c \in broken \/ {<<c, "left">>, <<c, "right">>} \intersect shut # {}

\* A read has bytes to return.
Readable(c, d) == <<c, ReadEnd(d)>> \notin shut /\ pipe[c][d] # << >>

\* A read reports the end of the stream or an error.
ReadsEnd(c, d) == \/ <<c, ReadEnd(d)>> \in shut
                  \/ c \in broken
                  \/ <<c, WriteEnd(d)>> \in shut /\ pipe[c][d] = << >>

\* The bytes of a direction that have been sent and not delivered.
InFlight(d) == sent[d] - Len(got[d])

-----------------------------------------------------------------------------
(* The visitor and the local service *)

\* The two programs at the far ends: which connection and end they have.
PeerConn(d) == IF d = "up" THEN "visitor" ELSE "local"
Other(d) == IF d = "up" THEN "down" ELSE "up"

Exists(c) == CASE c = "visitor" -> TRUE
               [] c = "stream" -> work \notin {"idle", "open"}
               [] c = "local" -> work # "idle"

\* The sender of a direction sends a byte.
PeerSends(d) == /\ Exists(PeerConn(d))
                /\ sent[d] < (IF d = "up" THEN Len(visit.lines) ELSE visit.reply)
                /\ Puts(PeerConn(d), d, <<sent[d] + 1>>)
                /\ sent' = [sent EXCEPT ![d] = @ + 1]
                /\ last' = IF last = "none" THEN "none" ELSE "void"
                /\ UNCHANGED <<inside, got, count, handlers, ends>>

\* The receiver of a direction takes what has arrived.
PeerReads(d) == LET c == PeerConn(Other(d))
                IN  /\ Readable(c, d)
                    /\ got' = [got EXCEPT ![d] = @ \o pipe[c][d]]
                    /\ pipe' = [pipe EXCEPT ![c][d] = << >>]
                    /\ UNCHANGED <<inside, sent, count, last, handlers, ends>>

\* The sender of a direction closes its connection.
PeerCloses(d) == LET e == <<PeerConn(d), WriteEnd(d)>>
                 IN  /\ Exists(PeerConn(d))
                     /\ e \notin shut
                     /\ shut' = shut \union {e}
                     /\ last' = IF last = "none" /\ InFlight(Other(d)) = 0 THEN d ELSE "void"
                     /\ UNCHANGED <<inside, pipe, bytes, handlers, broken>>

\* A connection fails.
Break(c) == /\ Exists(c)
            /\ c \notin broken
            /\ Cardinality(broken) < MaxBreak
            /\ broken' = broken \union {c}
            /\ last' = "void"
            /\ UNCHANGED <<inside, pipe, bytes, handlers, shut>>

-----------------------------------------------------------------------------
(* The server reads the request head (handleVhostConn) *)

\* The bufio.Reader takes what has arrived.
Fill == /\ at = "head"
        /\ rd = << >>
        /\ Readable("visitor", "up")
        /\ rd' = pipe["visitor"]["up"]
        /\ pipe' = [pipe EXCEPT !["visitor"]["up"] = << >>]
        /\ UNCHANGED <<visit, head, meta, loop, bytes, last, handlers, ends>>

Kind(b) == visit.lines[b]

\* The connection is closed, with or without an HTTP error.
Refuse == /\ at' = "refused"
          /\ shut' = shut \union {<<"visitor", "right">>}
          /\ last' = "void"

\* A line of any length is read.  The first must have two words; after each other one
\* but the last the head must not be too long; it ends with an empty line and needs a
\* Host that is registered.
ReadLine ==
    /\ at = "head"
    /\ rd # << >>
    /\ head' = Append(head, Head(rd))
    /\ rd' = Tail(rd)
    /\ LET k == Kind(Head(rd))
           first == head = << >>
           hosts == {i \in 2..Len(head) : Kind(head[i]) = "host"}
       IN  \/ first /\ k # "bad" /\ UNCHANGED <<at, shut, last>>
           \/ first /\ k = "bad" /\ Refuse
           \/ ~first /\ k = "blank" /\ hosts # {} /\ at' = "queued" /\ UNCHANGED <<shut, last>>
           \/ ~first /\ k = "blank" /\ Refuse
           \/ ~first /\ k # "blank" /\ Len(head) < visit.fits /\ UNCHANGED <<at, shut, last>>
           \/ ~first /\ k # "blank" /\ Len(head) >= visit.fits /\ Refuse
    /\ UNCHANGED <<visit, meta, loop, pipe, bytes, work, stream, broken>>

\* No complete line within 10 s, or the connection ends.
ReadLineFails == /\ at = "head"
                 /\ rd = << >>
                 /\ Refuse
                 /\ UNCHANGED <<inside, pipe, bytes, work, stream, broken>>

-----------------------------------------------------------------------------
(* The client opens the stream (handleWorkConn) *)

\* StartWorkConn has arrived and the service accepts.
DialLocal == /\ at = "queued"
             /\ work = "idle"
             /\ work' = "open"
             /\ UNCHANGED <<inside, pipe, bytes, last, at, stream, ends>>

\* The stream is opened; the server accepts it.
OpenStream == /\ work = "open"
              /\ work' = "header"
              /\ stream' = "meta"
              /\ UNCHANGED <<inside, pipe, bytes, last, at, ends>>

\* WriteFrame: the header, then the payload; then Join starts.
WriteHeader == /\ work = "header"
               /\ Puts("stream", "down", FirstN(StreamMeta, HeaderLen))
               /\ work' = "payload"
               /\ UNCHANGED <<inside, bytes, last, at, stream, ends>>

Start(h) == loop' = [loop EXCEPT ![h] = [d \in Dir |-> [pc |-> "read", buf |-> << >>]]]

WritePayload == /\ work = "payload"
                /\ Puts("stream", "down", FromN(StreamMeta, HeaderLen))
                /\ work' = "join"
                /\ Start("client")
                /\ UNCHANGED <<visit, head, rd, meta, bytes, last, at, stream, ends>>

\* No stream, or a write that fails or exceeds its deadline with part of the bytes
\* gone: both ends are closed.
OpenFails ==
    /\ work \in {"open", "header", "payload"}
    /\ \/ work = "open" /\ UNCHANGED pipe
       \/ /\ work # "open"
          /\ LET part == IF work = "header" THEN FirstN(StreamMeta, HeaderLen)
                                            ELSE FromN(StreamMeta, HeaderLen)
             IN  \E k \in 0..(Len(part) - 1) :
                     pipe' = [pipe EXCEPT !["stream"]["down"] = @ \o FirstN(part, k)]
    /\ work' = "gone"
    /\ shut' = shut \union (IF work = "open" THEN {<<"local", "left">>} ELSE EndsOf("client"))
    /\ last' = "void"
    /\ UNCHANGED <<inside, bytes, at, stream, broken>>

-----------------------------------------------------------------------------
(* The server takes the stream (handleDataStream) *)

\* Mutant: the frame is read through a buffer, which takes whatever has arrived.
FrameWantAll == PipeCap

\* ReadFrame asks for the rest of the header, or of the payload.
FrameWant == (IF meta < HeaderLen THEN HeaderLen ELSE FrameLen) - meta

ReadFrame ==
    LET n == Upto(FrameWant, Len(pipe["stream"]["down"]))
    IN  /\ stream = "meta"
        /\ Readable("stream", "down")
        /\ pipe' = [pipe EXCEPT !["stream"]["down"] = FromN(@, n)]
        /\ meta' = meta + n
        /\ stream' = IF meta + n >= FrameLen THEN "wait" ELSE "meta"
        /\ UNCHANGED <<visit, head, rd, loop, bytes, last, at, work, ends>>

\* No frame within 10 s, an unknown proxy, or no visitor within 15 s.
StreamGivenUp == /\ stream \in {"meta", "wait"}
                 /\ stream' = "gone"
                 /\ shut' = shut \union {<<"stream", "left">>}
                 /\ last' = "void"
                 /\ UNCHANGED <<inside, pipe, bytes, at, work, broken>>

\* The visitor is taken from the queue; Join starts.
TakeVisitor == /\ stream = "wait"
               /\ at = "queued"
               /\ stream' = "join"
               /\ at' = "joined"
               /\ Start("server")
               /\ UNCHANGED <<visit, head, rd, meta, pipe, bytes, last, work, ends>>

-----------------------------------------------------------------------------
(* Join *)

\* A loop has read the first bytes of s, up to a chunk; Rest(s) is what it left.
Got(h, d, s) ==
    loop' = [loop EXCEPT ![h][d] = [pc |-> "write", buf |-> FirstN(s, Upto(Chunk, Len(s)))]]
Rest(s) == FromN(s, Upto(Chunk, Len(s)))

\* Mutant: the head counts as replayed after one read.
HeadDone == << >>

HeadLeft == Rest(head)

Replaying(h, d) == h = "server" /\ d = "up" /\ head \o rd # << >>

\* copyLoop reads.  A vhost connection first gives the head, then what the reader
\* had buffered, then what arrives.
Read(h, d) ==
    LET c == Src(h, d)
    IN  /\ loop[h][d].pc = "read"
        /\ \/ /\ Replaying(h, d) /\ head # << >>
              /\ Got(h, d, head) /\ head' = HeadLeft
              /\ UNCHANGED <<rd, pipe>>
           \/ /\ Replaying(h, d) /\ head = << >>
              /\ Got(h, d, rd) /\ rd' = Rest(rd)
              /\ UNCHANGED <<head, pipe>>
           \/ /\ ~Replaying(h, d) /\ Readable(c, d)
              /\ Got(h, d, pipe[c][d]) /\ pipe' = [pipe EXCEPT ![c][d] = Rest(@)]
              /\ UNCHANGED <<head, rd>>
        /\ UNCHANGED <<visit, meta, bytes, last, handlers, ends>>

\* Mutant: the end is acted on before the bytes in front of it.
EndSeenEarly(h, d) == ReadsEnd(Src(h, d), d) \/ <<Src(h, d), WriteEnd(d)>> \in shut

\* The read reports EOF or an error.
EndSeen(h, d) == ~Replaying(h, d) /\ ReadsEnd(Src(h, d), d)

ReadStops(h, d) ==
    /\ loop[h][d].pc = "read"
    /\ EndSeen(h, d)
    /\ loop' = [loop EXCEPT ![h][d].pc = "close"]
    /\ UNCHANGED <<visit, head, rd, meta, pipe, bytes, last, handlers, ends>>

\* Mutant: a write counts as a whole.
AllOf(h, d, n) == Len(loop[h][d].buf)

\* What the callback is given: the bytes written.
Written(h, d, n) == n

\* The server counts what it has written.
Counted(h, d, n) ==
    count' = IF h = "server" THEN [count EXCEPT ![d] = @ + Written(h, d, n)] ELSE count

Write(h, d) ==
    LET s == loop[h][d].buf
    IN  /\ loop[h][d].pc = "write"
        /\ Puts(Dst(h, d), d, s)
        /\ Counted(h, d, Len(s))
        /\ loop' = [loop EXCEPT ![h][d] = [pc |-> "read", buf |-> << >>]]
        /\ UNCHANGED <<visit, head, rd, meta, sent, got, last, handlers, ends>>

\* The write fails after n bytes.
WriteStops(h, d) ==
    LET s == loop[h][d].buf
        c == Dst(h, d)
    IN  /\ loop[h][d].pc = "write"
        /\ WriteMayFail(c, d)
        /\ \E n \in 0..(Len(s) - 1) :
              /\ n > 0 => <<c, WriteEnd(d)>> \notin shut /\ Len(pipe[c][d]) + n <= PipeCap
              /\ pipe' = [pipe EXCEPT ![c][d] = @ \o FirstN(s, n)]
              /\ Counted(h, d, n)
              /\ loop' = [loop EXCEPT ![h][d] = [pc |-> "close", buf |-> FromN(s, n)]]
        /\ UNCHANGED <<visit, head, rd, meta, sent, got, last, handlers, ends>>

\* Mutant: a loop that ends closes only the connection it read from.
SrcOnly(h, d) == {<<Src(h, d), ReadEnd(d)>>}

\* The loop that ends closes both connections, so that the other one ends as well.
Closes(h, d) == EndsOf(h)

closeBoth(h, d) ==
    /\ loop[h][d].pc = "close"
    /\ loop' = [loop EXCEPT ![h][d].pc = "done"]
    /\ shut' = shut \union Closes(h, d)
    /\ UNCHANGED <<visit, head, rd, meta, pipe, bytes, last, handlers, broken>>

-----------------------------------------------------------------------------
Next == \/ Fill \/ ReadLine \/ ReadLineFails
        \/ DialLocal \/ OpenStream \/ WriteHeader \/ WritePayload \/ OpenFails
        \/ ReadFrame \/ StreamGivenUp \/ TakeVisitor
        \/ \E d \in Dir : PeerSends(d) \/ PeerReads(d) \/ PeerCloses(d)
        \/ \E c \in Conn : Break(c)
        \/ \E h \in Host, d \in Dir : \/ Read(h, d) \/ ReadStops(h, d)
                                      \/ Write(h, d) \/ WriteStops(h, d) \/ closeBoth(h, d)

Spec == Init /\ [][Next]_vars

\* The copy loops run, and the two programs read what reaches them.  Nobody need
\* send, close or fail.
Fairness ==
    /\ \A h \in Host, d \in Dir : /\ WF_vars(Read(h, d) \/ ReadStops(h, d))
                                  /\ WF_vars(Write(h, d) \/ WriteStops(h, d))
                                  /\ WF_vars(closeBoth(h, d))
    /\ \A d \in Dir : WF_vars(PeerReads(d))

FairSpec == Spec /\ Fairness

-----------------------------------------------------------------------------
(* Properties *)

Byte == Int
LoopType == [pc : {"off", "read", "write", "close", "done"}, buf : Seq(Byte)]
Numbers(n) == [i \in 1..n |-> i]

TypeOK ==
    /\ visit \in Visit
    /\ at \in {"head", "queued", "joined", "refused"}
    /\ work \in {"idle", "open", "header", "payload", "join", "gone"}
    /\ stream \in {"none", "meta", "wait", "join", "gone"}
    /\ head \in Seq(Byte) /\ rd \in Seq(Byte) /\ Len(head) <= visit.fits + 1
    /\ meta \in 0..FrameLen
    /\ loop \in [Host -> [Dir -> LoopType]]
    /\ \A h \in Host, d \in Dir : Len(loop[h][d].buf) <= Chunk
    /\ pipe \in [Conn -> [Dir -> Seq(Byte)]]
    /\ shut \subseteq Conn \X {"left", "right"} /\ broken \subseteq Conn
    /\ sent \in [Dir -> Nat] /\ got \in [Dir -> Seq(Byte)] /\ count \in [Dir -> Nat]
    /\ last \in {"none", "up", "down", "void"}

\* The bytes of the stream behind the StreamMeta frame, once that is written.
Reply == IF work = "join" THEN FromN(pipe["stream"]["down"], FrameLen - meta) ELSE << >>

\* What has left the server, and what is still before it, in the order of sending.
Beyond == [up |-> got["up"] \o pipe["local"]["up"] \o loop["client"]["up"].buf
                    \o pipe["stream"]["up"],
           down |-> got["down"] \o pipe["visitor"]["down"]]
Before == [up |-> loop["server"]["up"].buf \o head \o rd \o pipe["visitor"]["up"],
           down |-> loop["server"]["down"].buf \o Reply \o loop["client"]["down"].buf
                      \o pipe["local"]["down"]]

\* vhost.go:12 "loses no byte": what the visitor sent is, in order and once, what
\* the service has received and what is on its way, parsed head included, and the
\* same for the reply, which contains no byte of the StreamMeta frame.  A failure
\* may keep bytes from moving on but never makes a gap (vhost.go:19-26, mux.go:28-45,
\* proto.go:103-134).
Transparent == \A d \in Dir : Beyond[d] \o Before[d] = Numbers(sent[d])

\* The session's traffic counters equal the bytes that left the server, also when a
\* write fails half-way (mux.go:34, session.go:256).
CountsExact == \A d \in Dir : count[d] = Len(Beyond[d])

\* A side that closes while nothing of the other side is under way is not cut short:
\* its peer sees the end only after all it sent (mux.go:37-43).
LastWord == \A d \in Dir :
    last = d /\ ReadsEnd(PeerConn(Other(d)), d) => Len(got[d]) = sent[d]

\* mux.go:21 "either end that ends closes both, so that no half-open connection is
\* left": once visitor and service are joined, the end of any connection reaches
\* every end that server and client hold.
EndsTogether ==
    (at = "joined" /\ work = "join" /\ (shut # {} \/ broken # {}))
        ~> (EndsOf("server") \union EndsOf("client") \subseteq shut)
=============================================================================
