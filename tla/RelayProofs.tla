----------------------------- MODULE RelayProofs -----------------------------
(***************************************************************************)
(* Proofs about the relay, for requests and replies of any length and any  *)
(* size of the head, the frame, the copy buffer and the connections.       *)
(***************************************************************************)
EXTENDS Relay, SequenceTheorems, TLAPS

-----------------------------------------------------------------------------
(* The inductive invariant *)

\* How much of the StreamMeta frame is on the stream or read, by where the client
\* is in writing it: n bytes of the stream are not read yet.
FrameAt(n) ==
    /\ work \in {"idle", "open", "header"} => n + meta = 0
    /\ work = "payload" => n + meta = HeaderLen
    /\ work = "gone" => n + meta < FrameLen
    /\ work = "join" => n + meta >= FrameLen

\* A copy loop runs only after the frame has been written, or read; between a read
\* and the end of the write, and only then, it holds bytes.
Stages ==
    /\ \A d \in Dir : loop["client"][d].pc # "off" => work = "join"
    /\ \A d \in Dir : loop["server"][d].pc # "off" => stream = "join"
    /\ \A h \in Host, d \in Dir :
          /\ loop[h][d].pc \in {"off", "read"} => loop[h][d].buf = << >>
          /\ loop[h][d].pc = "write" => loop[h][d].buf # << >>
    /\ at = "head" => Len(head) <= visit.fits
    /\ stream \in {"wait", "join"} => meta = FrameLen
    /\ FrameAt(Len(pipe["stream"]["down"]))

\* Nothing of direction d is left before, or in, host h.
Drained(h, d) ==
    /\ d = "up" \/ h = "server" => Before[d] = << >>
    /\ d = "down" \/ h = "client" => /\ pipe[Src("client", d)][d] = << >>
                                     /\ loop["client"][d].buf = << >>

\* Host h has begun to close its connections.
Ended(h) == \/ EndsOf(h) \intersect shut # {}
            \/ \E d \in Dir : loop[h][d].pc \in {"close", "done"}

\* Once a side has closed while the other was silent, nobody but the copy loops
\* closes anything, and no host does before it has passed on all there was.
Farewell ==
    /\ last = "none" => /\ shut = {} /\ broken = {}
                        /\ \A h \in Host : ~Ended(h)
    /\ \A d \in Dir : last = d =>
          /\ broken = {} /\ InFlight(Other(d)) = 0
          /\ <<PeerConn(Other(d)), ReadEnd(d)>> \notin shut
          /\ \A h \in Host : Ended(h) => Drained(h, d)

IInv == TypeOK /\ Stages /\ Transparent /\ CountsExact /\ Farewell

-----------------------------------------------------------------------------
(* Sequences of bytes *)

\* Cutting a sequence in two.
LEMMA Cut ==
    ASSUME NEW s \in Seq(Byte), NEW n \in 0..Len(s)
    PROVE  /\ FirstN(s, n) \in Seq(Byte) /\ FromN(s, n) \in Seq(Byte)
           /\ Len(FirstN(s, n)) = n /\ Len(FromN(s, n)) = Len(s) - n
           /\ s = FirstN(s, n) \o FromN(s, n)
           /\ Len(s) \in Nat
<1>1. Len(s) \in Nat
    OBVIOUS
<1>2. /\ FirstN(s, n) \in Seq(Byte) /\ Len(FirstN(s, n)) = n
      /\ \A i \in 1..n : FirstN(s, n)[i] = s[i]
    BY <1>1 DEF FirstN
<1>3. /\ FromN(s, n) \in Seq(Byte) /\ Len(FromN(s, n)) = Len(s) - n
      /\ \A i \in 1..(Len(s) - n) : FromN(s, n)[i] = s[n + i]
    BY <1>1 DEF FromN
<1>4. s = FirstN(s, n) \o FromN(s, n)
    <2>1. 1 \in 1..(Len(s) + 1) /\ n \in (1 - 1)..Len(s) /\ Len(s) \in n..Len(s)
        BY <1>1
    <2>2. SubSeq(s, 1, n) \o SubSeq(s, n + 1, Len(s)) = SubSeq(s, 1, Len(s))
        BY <2>1, ConcatAdjacentSubSeq
    <2>3. SubSeq(s, 1, Len(s)) = s
        BY SubSeqFull
    <2> QED BY <2>2, <2>3 DEF FirstN, FromN
<1> QED BY <1>1, <1>2, <1>3, <1>4

\* Cutting does not see what is appended behind the cut.
LEMMA CutConcat ==
    ASSUME NEW s \in Seq(Byte), NEW t \in Seq(Byte), NEW n \in 0..Len(s)
    PROVE  FromN(s \o t, n) = FromN(s, n) \o t
<1>1. Len(s) \in Nat /\ Len(t) \in Nat /\ s \o t \in Seq(Byte) /\ Len(s \o t) = Len(s) + Len(t)
    OBVIOUS
<1>2. n \in 0..Len(s \o t)
    BY <1>1
<1>3. /\ FromN(s, n) \in Seq(Byte) /\ Len(FromN(s, n)) = Len(s) - n
      /\ \A i \in 1..(Len(s) - n) : FromN(s, n)[i] = s[n + i]
    BY <1>1 DEF FromN
<1>4. /\ FromN(s \o t, n) \in Seq(Byte) /\ Len(FromN(s \o t, n)) = Len(s) + Len(t) - n
      /\ \A i \in 1..(Len(s) + Len(t) - n) : FromN(s \o t, n)[i] = (s \o t)[n + i]
    BY <1>1, <1>2 DEF FromN
<1>5. PICK u : u = FromN(s, n)
    OBVIOUS
<1>6. u \o t \in Seq(Byte) /\ Len(u \o t) = Len(s) + Len(t) - n
    <2>1. u \in Seq(Byte) /\ Len(u) = Len(s) - n
        BY <1>3, <1>5
    <2>2. u \o t \in Seq(Byte) /\ Len(u \o t) = Len(u) + Len(t)
        BY <2>1, ConcatProperties
    <2> QED BY <1>1, <2>1, <2>2
<1>7. ASSUME NEW i \in 1..(Len(s) + Len(t) - n) PROVE (u \o t)[i] = (s \o t)[n + i]
    <2>1. Len(u) = Len(s) - n /\ u \in Seq(Byte) /\ n \in Nat /\ i \in Nat
        BY <1>1, <1>3, <1>5
    <2>2. i \in 1..(Len(u) + Len(t)) /\ n + i \in 1..(Len(s) + Len(t))
        BY <1>1, <2>1
    <2>3. (u \o t)[i] = IF i <= Len(u) THEN u[i] ELSE t[i - Len(u)]
        BY <2>1, <2>2, ConcatProperties
    <2>4. (s \o t)[n + i] = IF n + i <= Len(s) THEN s[n + i] ELSE t[n + i - Len(s)]
        BY <2>2, ConcatProperties
    <2>5. i <= Len(u) <=> n + i <= Len(s)
        BY <1>1, <2>1
    <2>6. i - Len(u) = n + i - Len(s)
        BY <1>1, <2>1
    <2>7. i <= Len(u) => u[i] = s[n + i]
        BY <1>1, <1>3, <1>5, <2>1
    <2>8. CASE i <= Len(u)
        <3>1. (u \o t)[i] = u[i] /\ (s \o t)[n + i] = s[n + i]
            BY <2>3, <2>4, <2>5, <2>8
        <3> QED BY <2>7, <2>8, <3>1
    <2>9. CASE ~(i <= Len(u))
        <3>1. (u \o t)[i] = t[i - Len(u)] /\ (s \o t)[n + i] = t[n + i - Len(s)]
            BY <2>3, <2>4, <2>5, <2>9
        <3> QED BY <2>6, <3>1
    <2> QED BY <2>8, <2>9
<1> QED BY <1>4, <1>5, <1>6, <1>7, SeqEqual

\* Cutting twice is cutting once.
LEMMA CutCut ==
    ASSUME NEW s \in Seq(Byte), NEW n \in 0..Len(s), NEW k \in n..Len(s)
    PROVE  FromN(FromN(s, n), k - n) = FromN(s, k)
<1>1. Len(s) \in Nat /\ n \in Nat /\ k \in 0..Len(s)
    OBVIOUS
<1> DEFINE t == FromN(s, n)
<1>2. /\ t \in Seq(Byte) /\ Len(t) = Len(s) - n
      /\ \A i \in 1..(Len(s) - n) : t[i] = s[n + i]
    BY <1>1 DEF FromN
<1>3. /\ FromN(s, k) \in Seq(Byte) /\ Len(FromN(s, k)) = Len(s) - k
      /\ \A i \in 1..(Len(s) - k) : FromN(s, k)[i] = s[k + i]
    BY <1>1 DEF FromN
<1> HIDE DEF t
<1>4. /\ FromN(t, k - n) \in Seq(Byte) /\ Len(FromN(t, k - n)) = Len(s) - k
      /\ \A i \in 1..(Len(s) - k) : FromN(t, k - n)[i] = t[k - n + i]
    BY <1>1, <1>2 DEF FromN
<1>5. \A i \in 1..(Len(s) - k) : t[k - n + i] = s[k + i]
    BY <1>1, <1>2
<1>6. FromN(t, k - n) = FromN(s, k)
    BY <1>3, <1>4, <1>5, SeqEqual
<1> QED BY <1>6 DEF t

\* Concatenation is associative, and lengths add up.
LEMMA Concat ==
    ASSUME NEW a \in Seq(Byte), NEW b \in Seq(Byte)
    PROVE  /\ a \o b \in Seq(Byte) /\ Len(a \o b) = Len(a) + Len(b)
           /\ Len(a) \in Nat /\ Len(b) \in Nat
           /\ a \o << >> = a /\ << >> \o a = a
           /\ \A c \in Seq(Byte) : (a \o b) \o c = a \o (b \o c)
           /\ (Len(a) = 0 <=> a = << >>)
           /\ (a \o b = << >> <=> a = << >> /\ b = << >>)
<1>1. /\ a \o b \in Seq(Byte) /\ Len(a \o b) = Len(a) + Len(b) /\ Len(a) \in Nat /\ Len(b) \in Nat
    OBVIOUS
<1>2. a \o << >> = a /\ << >> \o a = a
    BY ConcatEmptySeq
<1>3. \A c \in Seq(Byte) : (a \o b) \o c = a \o (b \o c)
    BY ConcatAssociative
<1>4. \A z \in Seq(Byte) : Len(z) = 0 <=> z = << >>
    BY EmptySeq
<1>5. a \o b = << >> <=> a = << >> /\ b = << >>
    <2>1. a \o b = << >> <=> Len(a) + Len(b) = 0
        BY <1>1, <1>4
    <2>2. Len(a) + Len(b) = 0 <=> Len(a) = 0 /\ Len(b) = 0
        BY <1>1
    <2> QED BY <1>4, <2>1, <2>2
<1>6. Len(a) = 0 <=> a = << >>
    BY <1>4
<1> QED BY <1>1, <1>2, <1>3, <1>5, <1>6

\* A byte at the end of the numbers.
LEMMA OneMore ==
    ASSUME NEW n \in Nat
    PROVE  Numbers(n) \in Seq(Byte) /\ Len(Numbers(n)) = n
           /\ Numbers(n + 1) = Numbers(n) \o <<n + 1>>
<1>1. \A k \in Nat : Numbers(k) \in Seq(Byte) /\ Len(Numbers(k)) = k
                     /\ \A i \in 1..k : Numbers(k)[i] = i
    BY DEF Numbers, Byte
<1>2. PICK a, b : a = Numbers(n) /\ b = <<n + 1>>
    OBVIOUS
<1>3. a \in Seq(Byte) /\ b \in Seq(Byte) /\ Len(a) = n /\ Len(b) = 1 /\ b[1] = n + 1
    BY <1>1, <1>2 DEF Byte
<1>4. a \o b \in Seq(Byte) /\ Len(a \o b) = n + 1
      /\ \A i \in 1..(n + 1) : (a \o b)[i] = IF i <= n THEN a[i] ELSE b[i - n]
    <2>1. /\ a \o b \in Seq(Byte) /\ Len(a \o b) = Len(a) + Len(b)
          /\ \A i \in 1..(Len(a) + Len(b)) :
                (a \o b)[i] = IF i <= Len(a) THEN a[i] ELSE b[i - Len(a)]
        BY <1>3, ConcatProperties
    <2> QED BY <1>3, <2>1
<1>5. ASSUME NEW i \in 1..(n + 1) PROVE (a \o b)[i] = i
    <2>1. (a \o b)[i] = IF i <= n THEN a[i] ELSE b[i - n]
        BY <1>4
    <2>2. i <= n => a[i] = i
        BY <1>1, <1>2
    <2>3. ~(i <= n) => i - n = 1 /\ i = n + 1
        OBVIOUS
    <2> QED BY <1>3, <2>1, <2>2, <2>3
<1> QED BY <1>1, <1>2, <1>4, <1>5, SeqEqual

-----------------------------------------------------------------------------
(* Updates *)

SetPipe(c, d, x) == pipe' = [pipe EXCEPT ![c][d] = x]
SetLoop(h, d, x) == loop' = [loop EXCEPT ![h][d] = x]

\* One pipe is replaced.
LEMMA PipeAt ==
    ASSUME TypeOK, NEW c \in Conn, NEW d \in Dir, NEW x \in Seq(Byte), SetPipe(c, d, x)
    PROVE  /\ pipe' \in [Conn -> [Dir -> Seq(Byte)]]
           /\ pipe'[c][d] = x
           /\ \A e \in Conn, f \in Dir : e # c \/ f # d => pipe'[e][f] = pipe[e][f]
<1>1. pipe \in [Conn -> [Dir -> Seq(Byte)]]
    BY DEF TypeOK
<1>2. PICK S : S = Seq(Byte)
    OBVIOUS
<1>3. pipe \in [Conn -> [Dir -> S]] /\ x \in S
    BY <1>1, <1>2
<1>4. pipe' \in [Conn -> [Dir -> S]] /\ pipe'[c][d] = x
    BY <1>3 DEF SetPipe
<1>5. \A e \in Conn, f \in Dir : e # c \/ f # d => pipe'[e][f] = pipe[e][f]
    BY <1>3 DEF SetPipe
<1> QED BY <1>2, <1>4, <1>5

\* One loop is replaced.
LEMMA LoopAt ==
    ASSUME TypeOK, NEW h \in Host, NEW d \in Dir, NEW x \in LoopType, Len(x.buf) <= Chunk,
           SetLoop(h, d, x)
    PROVE  /\ loop' \in [Host -> [Dir -> LoopType]]
           /\ \A e \in Host, f \in Dir : Len(loop'[e][f].buf) <= Chunk
           /\ loop'[h][d] = x
           /\ \A e \in Host, f \in Dir : e # h \/ f # d => loop'[e][f] = loop[e][f]
<1>1. /\ loop \in [Host -> [Dir -> LoopType]]
      /\ \A e \in Host, f \in Dir : Len(loop[e][f].buf) <= Chunk
    BY DEF TypeOK
<1>2. /\ loop' \in [Host -> [Dir -> LoopType]] /\ loop'[h][d] = x
      /\ \A e \in Host, f \in Dir : e # h \/ f # d => loop'[e][f] = loop[e][f]
    BY <1>1 DEF SetLoop
<1>3. ASSUME NEW e \in Host, NEW f \in Dir PROVE Len(loop'[e][f].buf) <= Chunk
    BY <1>1, <1>2
<1> QED BY <1>2, <1>3

\* A pipe and a loop have their types.
LEMMA Parts ==
    ASSUME TypeOK
    PROVE  /\ \A c \in Conn, d \in Dir : pipe[c][d] \in Seq(Byte)
           /\ \A h \in Host, d \in Dir : /\ loop[h][d] \in LoopType
                                         /\ loop[h][d].buf \in Seq(Byte)
                                         /\ Len(loop[h][d].buf) <= Chunk
           /\ \A d \in Dir : got[d] \in Seq(Byte) /\ sent[d] \in Nat /\ count[d] \in Nat
BY DEF TypeOK, LoopType

\* The names of the connections, directions and hosts.
LEMMA Names ==
    /\ "visitor" \in Conn /\ "stream" \in Conn /\ "local" \in Conn
    /\ "up" \in Dir /\ "down" \in Dir
    /\ "server" \in Host /\ "client" \in Host
BY DEF Conn, Dir, Host

\* Where the loops read and write.
LEMMA Route ==
    /\ Src("server", "up") = "visitor" /\ Dst("server", "up") = "stream"
    /\ Src("client", "up") = "stream" /\ Dst("client", "up") = "local"
    /\ Src("client", "down") = "local" /\ Dst("client", "down") = "stream"
    /\ Src("server", "down") = "stream" /\ Dst("server", "down") = "visitor"
    /\ \A h \in Host, d \in Dir : Src(h, d) \in Conn /\ Dst(h, d) \in Conn
BY DEF Src, Dst, Host, Dir, Conn

\* What a loop takes from s and what it leaves.
LEMMA Taken ==
    ASSUME NEW s \in Seq(Byte), s # << >>, NEW x, x = FirstN(s, Upto(Chunk, Len(s)))
    PROVE  /\ x \in Seq(Byte) /\ x # << >> /\ Len(x) <= Chunk
           /\ Rest(s) \in Seq(Byte) /\ s = x \o Rest(s) /\ Len(Rest(s)) <= Len(s)
<1>1. Len(s) \in Nat /\ Len(s) # 0 /\ Chunk \in Nat \ {0}
    BY SizeAssumption, EmptySeq
<1>2. PICK n : n = Upto(Chunk, Len(s))
    OBVIOUS
<1>3. n \in 0..Len(s) /\ n <= Chunk /\ n # 0
    BY <1>1, <1>2 DEF Upto
<1>4. x = FirstN(s, n) /\ Rest(s) = FromN(s, n)
    BY <1>2 DEF Rest
<1>5. /\ x \in Seq(Byte) /\ FromN(s, n) \in Seq(Byte) /\ Len(x) = n
      /\ Len(FromN(s, n)) = Len(s) - n /\ s = x \o FromN(s, n)
    BY <1>3, <1>4, Cut
<1>6. x # << >>
    BY <1>3, <1>5
<1> QED BY <1>1, <1>3, <1>4, <1>5, <1>6

AddPipe(c, d, s) == pipe' = [pipe EXCEPT ![c][d] = @ \o s]

\* A write adds its bytes to one pipe.
LEMMA PutsFacts ==
    ASSUME TypeOK, NEW c \in Conn, NEW d \in Dir, NEW s \in Seq(Byte), AddPipe(c, d, s)
    PROVE  /\ pipe' \in [Conn -> [Dir -> Seq(Byte)]]
           /\ pipe'[c][d] = pipe[c][d] \o s
           /\ \A e \in Conn, f \in Dir : e # c \/ f # d => pipe'[e][f] = pipe[e][f]
<1>1. pipe[c][d] \in Seq(Byte)
    BY Parts
<1>2. PICK x : x = pipe[c][d] \o s
    OBVIOUS
<1>3. x \in Seq(Byte)
    BY <1>1, <1>2, Concat
<1>4. SetPipe(c, d, x)
    BY <1>2 DEF SetPipe, AddPipe
<1>5. /\ pipe' \in [Conn -> [Dir -> Seq(Byte)]] /\ pipe'[c][d] = x
      /\ \A e \in Conn, f \in Dir : e # c \/ f # d => pipe'[e][f] = pipe[e][f]
    BY <1>3, <1>4, PipeAt
<1> QED BY <1>2, <1>5

\* Loop d of h has taken x: from the head, from the reader or from its connection.
Took(h, d, x) ==
    /\ x # << >>
    /\ loop' \in [Host -> [Dir -> LoopType]]
    /\ \A e \in Host, f \in Dir : Len(loop'[e][f].buf) <= Chunk
    /\ loop'[h][d] = [pc |-> "write", buf |-> x]
    /\ \A e \in Host, f \in Dir : e # h \/ f # d => loop'[e][f] = loop[e][f]
    /\ \/ /\ h = "server" /\ d = "up" /\ head' \in Seq(Byte) /\ head = x \o head'
          /\ head # << >> /\ Len(head') <= Len(head) /\ UNCHANGED <<rd, pipe>>
       \/ /\ h = "server" /\ d = "up" /\ rd' \in Seq(Byte) /\ rd = x \o rd'
          /\ head = << >> /\ rd # << >> /\ UNCHANGED <<head, pipe>>
       \/ /\ h = "server" /\ d = "up" => head = << >> /\ rd = << >>
          /\ pipe' \in [Conn -> [Dir -> Seq(Byte)]]
          /\ pipe[Src(h, d)][d] = x \o pipe'[Src(h, d)][d]
          /\ pipe[Src(h, d)][d] # << >>
          /\ \A e \in Conn, f \in Dir : e # Src(h, d) \/ f # d => pipe'[e][f] = pipe[e][f]
          /\ UNCHANGED <<head, rd>>

\* A read moves the first bytes of a source into the buffer of a loop.
LEMMA ReadFacts ==
    ASSUME TypeOK, NEW h \in Host, NEW d \in Dir, Read(h, d)
    PROVE  \E x \in Seq(Byte) : Took(h, d, x)
<1> USE DEF Took
<1>0. head \in Seq(Byte) /\ rd \in Seq(Byte) /\ Src(h, d) \in Conn
    BY Route DEF TypeOK
<1>1. ASSUME NEW s \in Seq(Byte), s # << >>, Got(h, d, s)
      PROVE  \E x \in Seq(Byte) :
                /\ x # << >> /\ s = x \o Rest(s)
                /\ Rest(s) \in Seq(Byte) /\ Len(Rest(s)) <= Len(s)
                /\ loop' \in [Host -> [Dir -> LoopType]]
                /\ \A e \in Host, f \in Dir : Len(loop'[e][f].buf) <= Chunk
                /\ loop'[h][d] = [pc |-> "write", buf |-> x]
                /\ \A e \in Host, f \in Dir : e # h \/ f # d => loop'[e][f] = loop[e][f]
    <2>1. PICK x : x = FirstN(s, Upto(Chunk, Len(s)))
        OBVIOUS
    <2>2. /\ x \in Seq(Byte) /\ x # << >> /\ Len(x) <= Chunk
          /\ Rest(s) \in Seq(Byte) /\ s = x \o Rest(s) /\ Len(Rest(s)) <= Len(s)
        BY <1>1, <2>1, Taken
    <2>3. PICK l : l = [pc |-> "write", buf |-> x]
        OBVIOUS
    <2>4. l \in LoopType /\ Len(l.buf) <= Chunk /\ SetLoop(h, d, l)
        BY <1>1, <2>1, <2>2, <2>3 DEF LoopType, Got, SetLoop
    <2>5. /\ loop' \in [Host -> [Dir -> LoopType]]
          /\ \A e \in Host, f \in Dir : Len(loop'[e][f].buf) <= Chunk
          /\ loop'[h][d] = l
          /\ \A e \in Host, f \in Dir : e # h \/ f # d => loop'[e][f] = loop[e][f]
        BY <2>4, LoopAt
    <2> QED BY <2>2, <2>3, <2>5
<1>2. CASE Replaying(h, d) /\ head # << >> /\ Got(h, d, head) /\ head' = HeadLeft
           /\ UNCHANGED <<rd, pipe>>
    BY <1>0, <1>1, <1>2 DEF Replaying, HeadLeft
<1>3. CASE Replaying(h, d) /\ head = << >> /\ Got(h, d, rd) /\ rd' = Rest(rd)
           /\ UNCHANGED <<head, pipe>>
    <2>1. rd # << >> /\ h = "server" /\ d = "up"
        BY <1>0, <1>3, Concat DEF Replaying
    <2> QED BY <1>0, <1>1, <1>3, <2>1
<1>4. CASE ~Replaying(h, d) /\ Readable(Src(h, d), d) /\ Got(h, d, pipe[Src(h, d)][d])
           /\ pipe' = [pipe EXCEPT ![Src(h, d)][d] = Rest(@)] /\ UNCHANGED <<head, rd>>
    <2>1. h = "server" /\ d = "up" => head = << >> /\ rd = << >>
        BY <1>0, <1>4, Concat DEF Replaying
    <2>2. PICK c, z : c = Src(h, d) /\ z = pipe[c][d]
        OBVIOUS
    <2>3. c \in Conn /\ z \in Seq(Byte) /\ z # << >>
        BY <1>0, <1>4, <2>2, Parts DEF Readable
    <2>4. PICK x \in Seq(Byte) :
                /\ x # << >> /\ z = x \o Rest(z) /\ Rest(z) \in Seq(Byte)
                /\ loop' \in [Host -> [Dir -> LoopType]]
                /\ \A e \in Host, f \in Dir : Len(loop'[e][f].buf) <= Chunk
                /\ loop'[h][d] = [pc |-> "write", buf |-> x]
                /\ \A e \in Host, f \in Dir : e # h \/ f # d => loop'[e][f] = loop[e][f]
        BY <1>1, <1>4, <2>2, <2>3
    <2>5. PICK y : y = Rest(z)
        OBVIOUS
    <2>6. y \in Seq(Byte) /\ SetPipe(c, d, y)
        BY <1>4, <2>2, <2>4, <2>5 DEF SetPipe
    <2>7. /\ pipe' \in [Conn -> [Dir -> Seq(Byte)]] /\ pipe'[c][d] = y
          /\ \A e \in Conn, f \in Dir : e # c \/ f # d => pipe'[e][f] = pipe[e][f]
        BY <2>3, <2>6, PipeAt
    <2> QED BY <1>4, <2>1, <2>2, <2>3, <2>4, <2>5, <2>7
<1> QED BY <1>2, <1>3, <1>4 DEF Read

\* Loop d of h has passed on x and still holds y.
Passed(h, d, x, y) ==
    /\ loop[h][d].pc = "write" /\ loop[h][d].buf = x \o y
    /\ loop' \in [Host -> [Dir -> LoopType]]
    /\ \A e \in Host, f \in Dir : Len(loop'[e][f].buf) <= Chunk
    /\ loop'[h][d].buf = y
    /\ \A e \in Host, f \in Dir : e # h \/ f # d => loop'[e][f] = loop[e][f]
    /\ \/ Write(h, d) /\ loop'[h][d].pc = "read" /\ y = << >>
       \/ WriteStops(h, d) /\ loop'[h][d].pc = "close"
    /\ pipe' \in [Conn -> [Dir -> Seq(Byte)]]
    /\ pipe'[Dst(h, d)][d] = pipe[Dst(h, d)][d] \o x
    /\ \A e \in Conn, f \in Dir : e # Dst(h, d) \/ f # d => pipe'[e][f] = pipe[e][f]
    /\ count' = IF h = "server" THEN [count EXCEPT ![d] = @ + Len(x)] ELSE count

\* A write, whole or in part, moves the first bytes of a buffer into a pipe, and the
\* server counts them.
LEMMA WriteFacts ==
    ASSUME TypeOK, NEW h \in Host, NEW d \in Dir, Write(h, d) \/ WriteStops(h, d)
    PROVE  \E x, y \in Seq(Byte) : Passed(h, d, x, y)
<1>0. Dst(h, d) \in Conn /\ loop[h][d].buf \in Seq(Byte) /\ Len(loop[h][d].buf) <= Chunk
      /\ Len(loop[h][d].buf) \in Nat /\ Chunk \in Nat
    BY Parts, Route, SizeAssumption
<1>1. PICK z : z = loop[h][d].buf
    OBVIOUS
<1>2. z \in Seq(Byte) /\ Len(z) \in Nat /\ Len(z) <= Chunk
    BY <1>0, <1>1
<1>3. ASSUME NEW n \in 0..Len(z), NEW pc \in {"read", "close"},
             AddPipe(Dst(h, d), d, FirstN(z, n)),
             Counted(h, d, n),
             SetLoop(h, d, [pc |-> pc, buf |-> FromN(z, n)])
      PROVE  /\ FirstN(z, n) \in Seq(Byte) /\ FromN(z, n) \in Seq(Byte)
             /\ loop[h][d].buf = FirstN(z, n) \o FromN(z, n)
             /\ loop' \in [Host -> [Dir -> LoopType]]
             /\ \A e \in Host, f \in Dir : Len(loop'[e][f].buf) <= Chunk
             /\ loop'[h][d].buf = FromN(z, n) /\ loop'[h][d].pc = pc
             /\ \A e \in Host, f \in Dir : e # h \/ f # d => loop'[e][f] = loop[e][f]
             /\ pipe' \in [Conn -> [Dir -> Seq(Byte)]]
             /\ pipe'[Dst(h, d)][d] = pipe[Dst(h, d)][d] \o FirstN(z, n)
             /\ \A e \in Conn, f \in Dir : e # Dst(h, d) \/ f # d => pipe'[e][f] = pipe[e][f]
             /\ count' = IF h = "server" THEN [count EXCEPT ![d] = @ + Len(FirstN(z, n))]
                                         ELSE count
    <2>1. PICK x, y : x = FirstN(z, n) /\ y = FromN(z, n)
        OBVIOUS
    <2>2. /\ x \in Seq(Byte) /\ y \in Seq(Byte) /\ z = x \o y /\ Len(x) = n
          /\ Len(y) = Len(z) - n
        BY <1>2, <2>1, Cut
    <2>3. Len(y) <= Chunk
        BY <1>0, <1>2, <2>2
    <2>4. PICK l : l = [pc |-> pc, buf |-> y]
        OBVIOUS
    <2>5. l \in LoopType /\ l.pc = pc /\ l.buf = y
        <3>1. pc \in {"off", "read", "write", "close", "done"}
            OBVIOUS
        <3> QED BY <2>2, <2>4, <3>1 DEF LoopType
    <2>6. SetLoop(h, d, l)
        BY <1>3, <2>1, <2>4
    <2>7. Len(l.buf) <= Chunk
        BY <2>3, <2>5
    <2>8. /\ loop' \in [Host -> [Dir -> LoopType]]
          /\ \A e \in Host, f \in Dir : Len(loop'[e][f].buf) <= Chunk
          /\ loop'[h][d] = l
          /\ \A e \in Host, f \in Dir : e # h \/ f # d => loop'[e][f] = loop[e][f]
        BY <2>5, <2>6, <2>7, LoopAt
    <2>9. AddPipe(Dst(h, d), d, x)
        BY <1>3, <2>1
    <2>10. /\ pipe' \in [Conn -> [Dir -> Seq(Byte)]]
           /\ pipe'[Dst(h, d)][d] = pipe[Dst(h, d)][d] \o x
           /\ \A e \in Conn, f \in Dir : e # Dst(h, d) \/ f # d => pipe'[e][f] = pipe[e][f]
        BY <1>0, <2>2, <2>9, PutsFacts
    <2>11. count' = IF h = "server" THEN [count EXCEPT ![d] = @ + Len(x)] ELSE count
        BY <1>3, <2>2 DEF Counted, Written
    <2> QED BY <1>1, <2>1, <2>2, <2>5, <2>8, <2>10, <2>11
<1>4. CASE Write(h, d)
    <2>1. PICK n : n = Len(z)
        OBVIOUS
    <2>2. n \in 0..Len(z) /\ FirstN(z, n) = z /\ FromN(z, n) = << >>
        BY <1>2, <2>1, SubSeqFull, SubSeqEmpty DEF FirstN, FromN
    <2>3. /\ loop[h][d].pc = "write"
          /\ AddPipe(Dst(h, d), d, FirstN(z, n))
          /\ Counted(h, d, n)
          /\ SetLoop(h, d, [pc |-> "read", buf |-> FromN(z, n)])
        BY <1>1, <1>4, <2>1, <2>2 DEF Write, Puts, AddPipe, SetLoop
    <2>4. Passed(h, d, FirstN(z, n), FromN(z, n))
        BY <1>3, <1>4, <2>2, <2>3 DEF Passed
    <2> QED BY <1>3, <2>2, <2>3, <2>4
<1>5. CASE WriteStops(h, d)
    <2>1. PICK n \in 0..(Len(z) - 1) :
                /\ AddPipe(Dst(h, d), d, FirstN(z, n))
                /\ Counted(h, d, n)
                /\ SetLoop(h, d, [pc |-> "close", buf |-> FromN(z, n)])
        BY <1>1, <1>5 DEF WriteStops, AddPipe, SetLoop
    <2>2. n \in 0..Len(z) /\ loop[h][d].pc = "write"
        <3>1. loop[h][d].pc = "write"
            BY <1>5 DEF WriteStops
        <3> QED BY <1>2, <2>1, <3>1
    <2>3. Passed(h, d, FirstN(z, n), FromN(z, n))
        BY <1>3, <1>5, <2>1, <2>2 DEF Passed
    <2> QED BY <1>3, <2>1, <2>2, <2>3
<1> QED BY <1>4, <1>5

-----------------------------------------------------------------------------
(* Types *)

\* The sizes, and the two parts of the StreamMeta frame.
LEMMA Sizes ==
    /\ HeaderLen \in Nat \ {0} /\ PayloadLen \in Nat \ {0} /\ Chunk \in Nat \ {0}
    /\ FrameLen \in Nat /\ FrameLen = HeaderLen + PayloadLen
    /\ StreamMeta \in Seq(Byte) /\ Len(StreamMeta) = FrameLen
    /\ FirstN(StreamMeta, HeaderLen) \in Seq(Byte)
    /\ Len(FirstN(StreamMeta, HeaderLen)) = HeaderLen
    /\ FromN(StreamMeta, HeaderLen) \in Seq(Byte)
    /\ Len(FromN(StreamMeta, HeaderLen)) = PayloadLen
<1>1. /\ HeaderLen \in Nat \ {0} /\ PayloadLen \in Nat \ {0} /\ Chunk \in Nat \ {0}
      /\ FrameLen \in Nat /\ FrameLen = HeaderLen + PayloadLen
    BY SizeAssumption DEF FrameLen
<1>2. StreamMeta \in Seq(Byte) /\ Len(StreamMeta) = FrameLen
    BY <1>1 DEF StreamMeta, Byte
<1>3. HeaderLen \in 0..Len(StreamMeta) /\ Len(StreamMeta) - HeaderLen = PayloadLen
    BY <1>1, <1>2
<1> QED BY <1>1, <1>2, <1>3, Cut

\* At least the first line of a request passes.
LEMMA FitsType == \A v \in Visit : v.fits \in Nat \ {0}
BY VisitAssumption

\* An empty buffer is no longer than a chunk.
LEMMA NothingFits == \A s : s = << >> => Len(s) <= Chunk
<1>1. Len(<< >>) = 0 /\ 0 <= Chunk
    BY Sizes
<1> QED BY <1>1

\* Part of the frame goes onto the stream.
LEMMA FrameOut ==
    ASSUME TypeOK, WriteHeader \/ WritePayload \/ OpenFails
    PROVE  \E x \in Seq(Byte) :
              /\ pipe' \in [Conn -> [Dir -> Seq(Byte)]]
              /\ pipe'["stream"]["down"] = pipe["stream"]["down"] \o x
              /\ \A e \in Conn, f \in Dir :
                    e # "stream" \/ f # "down" => pipe'[e][f] = pipe[e][f]
              /\ WriteHeader => Len(x) = HeaderLen
              /\ WritePayload => Len(x) = PayloadLen
              /\ OpenFails /\ work = "open" => Len(x) = 0
              /\ OpenFails /\ work = "header" => Len(x) < HeaderLen
              /\ OpenFails /\ work = "payload" => Len(x) < PayloadLen
<1>0. "stream" \in Conn /\ "down" \in Dir
    BY DEF Conn, Dir
<1> DEFINE hd == FirstN(StreamMeta, HeaderLen)
           pl == FromN(StreamMeta, HeaderLen)
<1>1. hd \in Seq(Byte) /\ Len(hd) = HeaderLen /\ pl \in Seq(Byte) /\ Len(pl) = PayloadLen
      /\ HeaderLen \in Nat \ {0} /\ PayloadLen \in Nat \ {0}
    BY Sizes
<1>2. ASSUME NEW x \in Seq(Byte), AddPipe("stream", "down", x)
      PROVE  /\ pipe' \in [Conn -> [Dir -> Seq(Byte)]]
             /\ pipe'["stream"]["down"] = pipe["stream"]["down"] \o x
             /\ \A e \in Conn, f \in Dir :
                   e # "stream" \/ f # "down" => pipe'[e][f] = pipe[e][f]
    BY <1>0, <1>2, PutsFacts
<1>3. ASSUME WriteHeader
      PROVE  work = "header" /\ AddPipe("stream", "down", hd)
    BY <1>3 DEF WriteHeader, Puts, AddPipe
<1>4. ASSUME WritePayload
      PROVE  work = "payload" /\ AddPipe("stream", "down", pl)
    BY <1>4 DEF WritePayload, Puts, AddPipe
<1> HIDE DEF hd, pl
<1>5. CASE WriteHeader
    <2>1. ~WritePayload /\ ~OpenFails
        BY <1>5 DEF WriteHeader, WritePayload, OpenFails
    <2> QED BY <1>1, <1>2, <1>3, <1>5, <2>1
<1>6. CASE WritePayload
    <2>1. ~WriteHeader /\ ~OpenFails
        BY <1>6 DEF WriteHeader, WritePayload, OpenFails
    <2> QED BY <1>1, <1>2, <1>4, <1>6, <2>1
<1>7. CASE OpenFails
    <2>1. ~WriteHeader /\ ~WritePayload
        BY <1>7 DEF WriteHeader, WritePayload, OpenFails
    <2>2. CASE work = "open"
        <3>1. pipe' = pipe /\ pipe \in [Conn -> [Dir -> Seq(Byte)]]
            BY <1>7, <2>2 DEF OpenFails, TypeOK
        <3>2. << >> \in Seq(Byte) /\ Len(<< >>) = 0
            OBVIOUS
        <3>3. pipe["stream"]["down"] \o << >> = pipe["stream"]["down"]
            BY <1>0, Parts, Concat
        <3> QED BY <2>1, <2>2, <3>1, <3>2, <3>3
    <2>3. CASE work \in {"header", "payload"}
        <3>1. PICK part : part = IF work = "header" THEN hd ELSE pl
            OBVIOUS
        <3>2. PICK k \in 0..(Len(part) - 1) :
                    AddPipe("stream", "down", FirstN(part, k))
            BY <1>7, <2>3, <3>1 DEF OpenFails, hd, pl, AddPipe
        <3>3. part \in Seq(Byte) /\ Len(part) \in Nat /\ k \in 0..Len(part) /\ k < Len(part)
            BY <1>1, <3>1
        <3>4. FirstN(part, k) \in Seq(Byte) /\ Len(FirstN(part, k)) = k
            BY <3>3, Cut
        <3> QED BY <1>1, <1>2, <2>1, <2>3, <3>1, <3>2, <3>3, <3>4
    <2> QED BY <1>7, <2>2, <2>3 DEF OpenFails
<1> QED BY <1>5, <1>6, <1>7

\* The server reads part of the frame and no byte beyond it.
LEMMA FrameIn ==
    ASSUME TypeOK, ReadFrame
    PROVE  \E n \in 0..Len(pipe["stream"]["down"]) :
              /\ pipe' \in [Conn -> [Dir -> Seq(Byte)]]
              /\ pipe'["stream"]["down"] = FromN(pipe["stream"]["down"], n)
              /\ \A e \in Conn, f \in Dir :
                    e # "stream" \/ f # "down" => pipe'[e][f] = pipe[e][f]
              /\ meta' = meta + n /\ meta' \in 0..FrameLen
              /\ stream' = IF meta' >= FrameLen THEN "wait" ELSE "meta"
<1>0. "stream" \in Conn /\ "down" \in Dir
    BY DEF Conn, Dir
<1>1. PICK z, n : z = pipe["stream"]["down"] /\ n = Upto(FrameWant, Len(z))
    OBVIOUS
<1>2. z \in Seq(Byte) /\ z # << >>
    BY <1>0, <1>1, Parts DEF ReadFrame, Readable
<1>3. Len(z) \in Nat /\ Len(z) # 0
    BY <1>2, EmptySeq
<1>4. meta' = meta + n /\ pipe' = [pipe EXCEPT !["stream"]["down"] = FromN(@, n)]
      /\ stream' = IF meta + n >= FrameLen THEN "wait" ELSE "meta"
    BY <1>1 DEF ReadFrame
<1>5. n \in 0..Len(z) /\ meta + n \in 0..FrameLen
    <2>1. meta \in 0..FrameLen
        BY DEF TypeOK
    <2>2. FrameWant \in Nat /\ meta + FrameWant <= FrameLen
        BY <2>1, Sizes DEF FrameWant
    <2>3. n \in Nat /\ n <= FrameWant /\ n <= Len(z)
        BY <1>1, <1>3, <2>2 DEF Upto
    <2> QED BY <1>3, <2>1, <2>2, <2>3, Sizes
<1>6. PICK y : y = FromN(z, n)
    OBVIOUS
<1>7. y \in Seq(Byte)
    BY <1>2, <1>5, <1>6, Cut
<1>8. SetPipe("stream", "down", y)
    BY <1>1, <1>4, <1>6 DEF SetPipe
<1>9. /\ pipe' \in [Conn -> [Dir -> Seq(Byte)]] /\ pipe'["stream"]["down"] = y
      /\ \A e \in Conn, f \in Dir : e # "stream" \/ f # "down" => pipe'[e][f] = pipe[e][f]
    BY <1>0, <1>7, <1>8, PipeAt
<1> QED BY <1>1, <1>4, <1>5, <1>6, <1>9

\* A host starts its two loops.
LEMMA Started ==
    ASSUME TypeOK, NEW h \in Host, Start(h)
    PROVE  /\ loop' \in [Host -> [Dir -> LoopType]]
           /\ \A d \in Dir : loop'[h][d].pc = "read" /\ loop'[h][d].buf = << >>
           /\ \A e \in Host, d \in Dir : e # h => loop'[e][d] = loop[e][d]
<1>1. PICK l : l = [pc |-> "read", buf |-> << >>]
    OBVIOUS
<1>2. l \in LoopType /\ l.pc = "read" /\ l.buf = << >>
    BY <1>1 DEF LoopType
<1>3. PICK f : f = [d \in Dir |-> l]
    OBVIOUS
<1>4. loop' = [loop EXCEPT ![h] = f] /\ f \in [Dir -> LoopType] /\ \A d \in Dir : f[d] = l
    BY <1>1, <1>2, <1>3 DEF Start
<1>5. loop \in [Host -> [Dir -> LoopType]]
    BY DEF TypeOK
<1> QED BY <1>2, <1>4, <1>5

\* A loop moves to another place with what it holds.
LEMMA Moved ==
    ASSUME TypeOK, NEW h \in Host, NEW d \in Dir, ReadStops(h, d) \/ closeBoth(h, d)
    PROVE  /\ loop' \in [Host -> [Dir -> LoopType]]
           /\ loop'[h][d].pc \in {"close", "done"}
           /\ \A e \in Host, f \in Dir : /\ loop'[e][f].buf = loop[e][f].buf
                                         /\ e # h \/ f # d => loop'[e][f] = loop[e][f]
<1>0. PICK pc \in {"close", "done"} : loop' = [loop EXCEPT ![h][d].pc = pc]
    BY DEF ReadStops, closeBoth
<1>1. PICK l : l = [loop[h][d] EXCEPT !.pc = pc]
    OBVIOUS
<1>2. loop[h][d] \in LoopType /\ loop \in [Host -> [Dir -> LoopType]]
    BY DEF TypeOK
<1>3. l \in LoopType /\ l.pc = pc /\ l.buf = loop[h][d].buf
    <2>1. pc \in {"off", "read", "write", "close", "done"}
        OBVIOUS
    <2> QED BY <1>1, <1>2, <2>1 DEF LoopType
<1>4. loop' = [loop EXCEPT ![h][d] = l]
    BY <1>0, <1>1, <1>2
<1>5. /\ loop' \in [Host -> [Dir -> LoopType]] /\ loop'[h][d] = l
      /\ \A e \in Host, f \in Dir : e # h \/ f # d => loop'[e][f] = loop[e][f]
    BY <1>2, <1>3, <1>4
<1> QED BY <1>3, <1>5

\* The visitor and the service send and receive.
LEMMA PeerFacts ==
    ASSUME TypeOK, NEW d \in Dir
    PROVE  /\ PeerSends(d) =>
                /\ pipe' \in [Conn -> [Dir -> Seq(Byte)]]
                /\ pipe'[PeerConn(d)][d] = pipe[PeerConn(d)][d] \o <<sent[d] + 1>>
                /\ \A e \in Conn, f \in Dir :
                      e # PeerConn(d) \/ f # d => pipe'[e][f] = pipe[e][f]
                /\ sent' \in [Dir -> Nat] /\ sent'[d] = sent[d] + 1
                /\ \A f \in Dir : f # d => sent'[f] = sent[f]
           /\ PeerReads(d) =>
                /\ pipe' \in [Conn -> [Dir -> Seq(Byte)]]
                /\ pipe'[PeerConn(Other(d))][d] = << >>
                /\ \A e \in Conn, f \in Dir :
                      e # PeerConn(Other(d)) \/ f # d => pipe'[e][f] = pipe[e][f]
                /\ got' \in [Dir -> Seq(Byte)]
                /\ got'[d] = got[d] \o pipe[PeerConn(Other(d))][d]
                /\ \A f \in Dir : f # d => got'[f] = got[f]
<1>0. PeerConn(d) \in Conn /\ PeerConn(Other(d)) \in Conn
    BY DEF PeerConn, Conn, Other, Dir
<1>1. ASSUME PeerSends(d)
      PROVE  /\ pipe' \in [Conn -> [Dir -> Seq(Byte)]]
             /\ pipe'[PeerConn(d)][d] = pipe[PeerConn(d)][d] \o <<sent[d] + 1>>
             /\ \A e \in Conn, f \in Dir :
                   e # PeerConn(d) \/ f # d => pipe'[e][f] = pipe[e][f]
             /\ sent' \in [Dir -> Nat] /\ sent'[d] = sent[d] + 1
             /\ \A f \in Dir : f # d => sent'[f] = sent[f]
    <2>1. PICK s : s = <<sent[d] + 1>>
        OBVIOUS
    <2>2. s \in Seq(Byte)
        BY <2>1, Parts DEF Byte
    <2>3. AddPipe(PeerConn(d), d, s)
        BY <1>1, <2>1 DEF PeerSends, Puts, AddPipe
    <2>4. /\ pipe' \in [Conn -> [Dir -> Seq(Byte)]]
          /\ pipe'[PeerConn(d)][d] = pipe[PeerConn(d)][d] \o s
          /\ \A e \in Conn, f \in Dir :
                e # PeerConn(d) \/ f # d => pipe'[e][f] = pipe[e][f]
        BY <1>0, <2>2, <2>3, PutsFacts
    <2>5. /\ sent' \in [Dir -> Nat] /\ sent'[d] = sent[d] + 1
          /\ \A f \in Dir : f # d => sent'[f] = sent[f]
        BY <1>1 DEF PeerSends, TypeOK
    <2> QED BY <2>1, <2>4, <2>5
<1>2. ASSUME PeerReads(d)
      PROVE  /\ pipe' \in [Conn -> [Dir -> Seq(Byte)]]
             /\ pipe'[PeerConn(Other(d))][d] = << >>
             /\ \A e \in Conn, f \in Dir :
                   e # PeerConn(Other(d)) \/ f # d => pipe'[e][f] = pipe[e][f]
             /\ got' \in [Dir -> Seq(Byte)]
             /\ got'[d] = got[d] \o pipe[PeerConn(Other(d))][d]
             /\ \A f \in Dir : f # d => got'[f] = got[f]
    <2>1. PICK c, z : c = PeerConn(Other(d)) /\ z = got[d] \o pipe[c][d]
        OBVIOUS
    <2>2. c \in Conn /\ z \in Seq(Byte)
        BY <1>0, <2>1, Parts, Concat
    <2>3. got' = [got EXCEPT ![d] = z] /\ pipe' = [pipe EXCEPT ![c][d] = << >>]
        BY <1>2, <2>1 DEF PeerReads
    <2>4. /\ pipe' \in [Conn -> [Dir -> Seq(Byte)]] /\ pipe'[c][d] = << >>
          /\ \A e \in Conn, f \in Dir : e # c \/ f # d => pipe'[e][f] = pipe[e][f]
        BY <2>2, <2>3 DEF TypeOK
    <2>5. /\ got' \in [Dir -> Seq(Byte)] /\ got'[d] = z
          /\ \A f \in Dir : f # d => got'[f] = got[f]
        BY <2>2, <2>3 DEF TypeOK
    <2> QED BY <2>1, <2>4, <2>5
<1> QED BY <1>1, <1>2

LEMMA TypeInit == Init => TypeOK
<1> SUFFICES ASSUME Init PROVE TypeOK
    OBVIOUS
<1>1. [pc |-> "off", buf |-> << >>] \in LoopType
    BY DEF LoopType
<1>2. loop \in [Host -> [Dir -> LoopType]] /\ pipe \in [Conn -> [Dir -> Seq(Byte)]]
    BY <1>1 DEF Init
<1>3. \A h \in Host, d \in Dir : Len(loop[h][d].buf) <= Chunk
    BY Sizes DEF Init
<1>4. head \in Seq(Byte) /\ rd \in Seq(Byte) /\ Len(head) <= visit.fits + 1 /\ meta \in 0..FrameLen
    BY Sizes, FitsType DEF Init
<1>5. sent \in [Dir -> Nat] /\ got \in [Dir -> Seq(Byte)] /\ count \in [Dir -> Nat]
    BY DEF Init
<1> QED BY <1>2, <1>3, <1>4, <1>5 DEF Init, TypeOK

LEMMA TypeStep ==
    ASSUME TypeOK, Stages, [Next]_vars
    PROVE  TypeOK'
<1> USE DEF inside, bytes, handlers, ends
<1>1. \A h \in Host : EndsOf(h) \subseteq Conn \X {"left", "right"}
    BY DEF EndsOf, Conn, Host
<1>0. /\ shut \subseteq Conn \X {"left", "right"}
      /\ {<<"visitor", "right">>, <<"stream", "left">>, <<"local", "left">>}
            \subseteq Conn \X {"left", "right"}
    BY Names DEF TypeOK
<1>2. CASE Fill
    <2>1. pipe' \in [Conn -> [Dir -> Seq(Byte)]] /\ rd' \in Seq(Byte)
        BY <1>2, Names DEF Fill, TypeOK
    <2> QED BY <1>2, <2>1 DEF Fill, TypeOK
<1>3. CASE ReadLine
    <2>1. head \in Seq(Byte) /\ rd \in Seq(Byte) /\ rd # << >> /\ Len(head) <= visit.fits
        BY <1>3 DEF ReadLine, TypeOK, Stages
    <2>2. PICK b : b = Head(rd)
        OBVIOUS
    <2>3. b \in Byte /\ Tail(rd) \in Seq(Byte)
        BY <2>1, <2>2
    <2>4. head' = Append(head, b) /\ rd' = Tail(rd)
        BY <1>3, <2>2 DEF ReadLine
    <2>5. head' \in Seq(Byte) /\ Len(head') = Len(head) + 1 /\ Len(head) \in Nat
        BY <2>1, <2>3, <2>4
    <2>6. Len(head') <= visit'.fits + 1
        BY <1>3, <2>1, <2>5, FitsType DEF ReadLine, TypeOK
    <2>7. /\ at' \in {"head", "queued", "refused"}
          /\ shut' = shut \/ shut' = shut \union {<<"visitor", "right">>}
          /\ last' = last \/ last' = "void"
        BY <1>3 DEF ReadLine, Refuse
    <2>8. shut' \subseteq Conn \X {"left", "right"}
        BY <1>0, <2>7
    <2> QED BY <1>3, <2>3, <2>4, <2>5, <2>6, <2>7, <2>8 DEF ReadLine, TypeOK
<1>4. CASE ReadLineFails
    <2>1. shut' \subseteq Conn \X {"left", "right"}
        BY <1>0, <1>4 DEF ReadLineFails, Refuse
    <2> QED BY <1>4, <2>1 DEF ReadLineFails, Refuse, TypeOK
<1>5. CASE DialLocal \/ OpenStream
    BY <1>5 DEF DialLocal, OpenStream, TypeOK
<1>6. CASE WriteHeader
    <2>1. pipe' \in [Conn -> [Dir -> Seq(Byte)]]
        BY <1>6, FrameOut
    <2> QED BY <1>6, <2>1 DEF WriteHeader, TypeOK
<1>7. CASE WritePayload
    <2>1. pipe' \in [Conn -> [Dir -> Seq(Byte)]]
        BY <1>7, FrameOut
    <2>2. /\ loop' \in [Host -> [Dir -> LoopType]]
          /\ \A d \in Dir : loop'["client"][d].pc = "read" /\ loop'["client"][d].buf = << >>
          /\ \A e \in Host, d \in Dir : e # "client" => loop'[e][d] = loop[e][d]
        BY <1>7, Started, Names DEF WritePayload
    <2>3. \A h \in Host, d \in Dir : Len(loop'[h][d].buf) <= Chunk
        BY <2>2, Parts, NothingFits
    <2> QED BY <1>7, <2>1, <2>2, <2>3 DEF WritePayload, TypeOK
<1>8. CASE OpenFails
    <2>1. pipe' \in [Conn -> [Dir -> Seq(Byte)]]
        BY <1>8, FrameOut
    <2>2. shut' \subseteq Conn \X {"left", "right"}
        BY <1>0, <1>1, <1>8, Names DEF OpenFails
    <2> QED BY <1>8, <2>1, <2>2 DEF OpenFails, TypeOK
<1>9. CASE ReadFrame
    <2>1. /\ pipe' \in [Conn -> [Dir -> Seq(Byte)]]
          /\ meta' \in 0..FrameLen /\ stream' \in {"wait", "meta"}
        BY <1>9, FrameIn
    <2> QED BY <1>9, <2>1 DEF ReadFrame, TypeOK
<1>10. CASE StreamGivenUp
    <2>1. shut' \subseteq Conn \X {"left", "right"}
        BY <1>0, <1>10 DEF StreamGivenUp
    <2> QED BY <1>10, <2>1 DEF StreamGivenUp, TypeOK
<1>11. CASE TakeVisitor
    <2>2. /\ loop' \in [Host -> [Dir -> LoopType]]
          /\ \A d \in Dir : loop'["server"][d].pc = "read" /\ loop'["server"][d].buf = << >>
          /\ \A e \in Host, d \in Dir : e # "server" => loop'[e][d] = loop[e][d]
        BY <1>11, Started, Names DEF TakeVisitor
    <2>3. \A h \in Host, d \in Dir : Len(loop'[h][d].buf) <= Chunk
        BY <2>2, Parts, NothingFits
    <2> QED BY <1>11, <2>2, <2>3 DEF TakeVisitor, TypeOK
<1>12. ASSUME NEW d \in Dir, PeerSends(d) PROVE TypeOK'
    <2>1. pipe' \in [Conn -> [Dir -> Seq(Byte)]] /\ sent' \in [Dir -> Nat]
        BY <1>12, PeerFacts
    <2> QED BY <1>12, <2>1 DEF PeerSends, TypeOK
<1>13. ASSUME NEW d \in Dir, PeerReads(d) PROVE TypeOK'
    <2>1. pipe' \in [Conn -> [Dir -> Seq(Byte)]] /\ got' \in [Dir -> Seq(Byte)]
        BY <1>13, PeerFacts
    <2> QED BY <1>13, <2>1 DEF PeerReads, TypeOK
<1>14. ASSUME NEW d \in Dir, PeerCloses(d) PROVE TypeOK'
    <2>1. shut' \subseteq Conn \X {"left", "right"} /\ last' \in {"up", "down", "void"}
        <3>1. PeerConn(d) \in Conn /\ WriteEnd(d) \in {"left", "right"}
            BY Names DEF PeerConn, WriteEnd
        <3>2. shut' = shut \union {<<PeerConn(d), WriteEnd(d)>>} /\ last' \in {d, "void"}
            BY <1>14 DEF PeerCloses
        <3> QED BY <1>0, <3>1, <3>2 DEF Dir
    <2> QED BY <1>14, <2>1 DEF PeerCloses, TypeOK
<1>15. ASSUME NEW c \in Conn, Break(c) PROVE TypeOK'
    BY <1>15 DEF Break, TypeOK
<1>16. ASSUME NEW h \in Host, NEW d \in Dir, Read(h, d) PROVE TypeOK'
    <2>1. /\ loop' \in [Host -> [Dir -> LoopType]]
          /\ \A e \in Host, f \in Dir : Len(loop'[e][f].buf) <= Chunk
          /\ pipe' \in [Conn -> [Dir -> Seq(Byte)]]
          /\ head' \in Seq(Byte) /\ rd' \in Seq(Byte) /\ Len(head') <= Len(head)
        <3>1. /\ head \in Seq(Byte) /\ rd \in Seq(Byte) /\ pipe \in [Conn -> [Dir -> Seq(Byte)]]
              /\ Len(head) \in Nat
            BY DEF TypeOK
        <3>2. PICK x \in Seq(Byte) : Took(h, d, x)
            BY <1>16, ReadFacts
        <3>3. /\ loop' \in [Host -> [Dir -> LoopType]]
              /\ \A e \in Host, f \in Dir : Len(loop'[e][f].buf) <= Chunk
            BY <3>2 DEF Took
        <3>4. /\ pipe' = pipe \/ pipe' \in [Conn -> [Dir -> Seq(Byte)]]
              /\ rd' = rd \/ rd' \in Seq(Byte)
              /\ head' = head \/ (head' \in Seq(Byte) /\ Len(head') <= Len(head))
            BY <3>2 DEF Took
        <3>5. pipe' \in [Conn -> [Dir -> Seq(Byte)]] /\ rd' \in Seq(Byte)
            BY <3>1, <3>4
        <3>6. head' \in Seq(Byte) /\ Len(head') <= Len(head)
            <4>1. CASE head' = head
                BY <3>1, <4>1
            <4> QED BY <3>4, <4>1
        <3> QED BY <3>3, <3>5, <3>6
    <2>2. Len(head') <= visit'.fits + 1
        <3>1. head \in Seq(Byte) /\ Len(head) <= visit.fits + 1 /\ visit' = visit
              /\ visit.fits \in Nat
            BY <1>16, FitsType DEF Read, TypeOK
        <3> QED BY <2>1, <3>1
    <2> QED BY <1>16, <2>1, <2>2 DEF Read, TypeOK
<1>17. ASSUME NEW h \in Host, NEW d \in Dir, ReadStops(h, d) PROVE TypeOK'
    <2>1. /\ loop' \in [Host -> [Dir -> LoopType]]
          /\ \A e \in Host, f \in Dir : loop'[e][f].buf = loop[e][f].buf
        BY <1>17, Moved
    <2> QED BY <1>17, <2>1 DEF ReadStops, TypeOK
<1>18. ASSUME NEW h \in Host, NEW d \in Dir, Write(h, d) \/ WriteStops(h, d) PROVE TypeOK'
    <2>0. PICK x, y \in Seq(Byte) : Passed(h, d, x, y)
        BY <1>18, WriteFacts
    <2>1. /\ loop' \in [Host -> [Dir -> LoopType]]
          /\ \A e \in Host, f \in Dir : Len(loop'[e][f].buf) <= Chunk
          /\ pipe' \in [Conn -> [Dir -> Seq(Byte)]]
          /\ count' = IF h = "server" THEN [count EXCEPT ![d] = @ + Len(x)] ELSE count
        BY <2>0 DEF Passed
    <2>2. count' \in [Dir -> Nat]
        <3>1. Len(x) \in Nat /\ count \in [Dir -> Nat] /\ count[d] + Len(x) \in Nat
            BY <2>0 DEF TypeOK
        <3>2. CASE h = "server"
            BY <2>1, <3>1, <3>2
        <3>3. CASE h # "server"
            BY <2>1, <3>1, <3>3
        <3> QED BY <3>2, <3>3
    <2>3. UNCHANGED <<visit, at, work, stream, head, rd, meta, shut, broken, sent, got, last>>
        BY <1>18 DEF Write, WriteStops, Counted
    <2> QED BY <2>1, <2>2, <2>3 DEF TypeOK
<1>19. ASSUME NEW h \in Host, NEW d \in Dir, closeBoth(h, d) PROVE TypeOK'
    <2>1. /\ loop' \in [Host -> [Dir -> LoopType]]
          /\ \A e \in Host, f \in Dir : loop'[e][f].buf = loop[e][f].buf
        BY <1>19, Moved
    <2>2. shut' \subseteq Conn \X {"left", "right"}
        BY <1>1, <1>19 DEF closeBoth, Closes, TypeOK
    <2> QED BY <1>19, <2>1, <2>2 DEF closeBoth, TypeOK
<1>20. CASE UNCHANGED vars
    BY <1>20 DEF vars, TypeOK
<1> QED BY <1>2, <1>3, <1>4, <1>5, <1>6, <1>7, <1>8, <1>9, <1>10, <1>11, <1>12, <1>13, <1>14,
           <1>15, <1>16, <1>17, <1>18, <1>19, <1>20 DEF Next

-----------------------------------------------------------------------------
(* Stages *)

\* The lengths the stages speak about are numbers; and behind a frame that has been
\* read the client is joined.
LEMMA FrameFacts ==
    ASSUME TypeOK, Stages
    PROVE  /\ Len(pipe["stream"]["down"]) \in Nat /\ meta \in 0..FrameLen
           /\ stream \in {"wait", "join"} => work = "join" /\ meta = FrameLen
<1>1. Len(pipe["stream"]["down"]) \in Nat
    <2>1. "stream" \in Conn /\ "down" \in Dir
        BY DEF Conn, Dir
    <2>2. pipe["stream"]["down"] \in Seq(Byte)
        BY <2>1, Parts
    <2> QED BY <2>2
<1>2. meta \in 0..FrameLen
    BY DEF TypeOK
<1>3. ASSUME stream \in {"wait", "join"} PROVE work = "join" /\ meta = FrameLen
    <2>1. meta = FrameLen /\ FrameAt(Len(pipe["stream"]["down"]))
        BY <1>3 DEF Stages
    <2>2. work \in {"idle", "open", "header", "payload", "join", "gone"}
        BY DEF TypeOK
    <2>3. PICK k : k = Len(pipe["stream"]["down"])
        OBVIOUS
    <2>4. /\ k \in Nat /\ FrameLen \in Nat /\ HeaderLen \in Nat /\ PayloadLen \in Nat
          /\ PayloadLen # 0 /\ FrameLen = HeaderLen + PayloadLen
        BY <1>1, <2>3, Sizes
    <2>5. /\ work \in {"idle", "open", "header"} => k + FrameLen = 0
          /\ work = "payload" => k + FrameLen = HeaderLen
          /\ work = "gone" => k + FrameLen < FrameLen
        BY <2>1, <2>3 DEF FrameAt
    <2>6. ~(k + FrameLen = 0) /\ ~(k + FrameLen = HeaderLen) /\ ~(k + FrameLen < FrameLen)
        BY <2>4
    <2> QED BY <2>1, <2>2, <2>5, <2>6
<1> QED BY <1>1, <1>2, <1>3

LEMMA StagesInit == Init => Stages
<1> SUFFICES ASSUME Init PROVE Stages
    OBVIOUS
<1>1. \A h \in Host, d \in Dir : loop[h][d].pc = "off" /\ loop[h][d].buf = << >>
    BY DEF Init
<1>2. "server" \in Host /\ "client" \in Host
    BY DEF Host
<1>3. /\ Len(pipe["stream"]["down"]) = 0 /\ meta = 0
      /\ work = "idle" /\ stream = "none" /\ head = << >>
    BY DEF Init, Conn, Dir
<1>4. Len(head) <= visit.fits
    BY <1>3, FitsType DEF Init
<1> QED BY <1>1, <1>2, <1>3, <1>4, Sizes DEF Stages, FrameAt

\* The visit is what it is.
LEMMA VisitStays == ASSUME [Next]_vars PROVE visit' = visit
<1> USE DEF inside
<1>1. CASE Fill \/ ReadLine \/ ReadLineFails \/ DialLocal \/ OpenStream \/ WriteHeader
    BY <1>1 DEF Fill, ReadLine, ReadLineFails, DialLocal, OpenStream, WriteHeader
<1>2. CASE WritePayload \/ OpenFails \/ ReadFrame \/ StreamGivenUp \/ TakeVisitor
    BY <1>2 DEF WritePayload, OpenFails, ReadFrame, StreamGivenUp, TakeVisitor
<1>3. ASSUME NEW d \in Dir, PeerSends(d) \/ PeerReads(d) \/ PeerCloses(d) PROVE visit' = visit
    BY <1>3 DEF PeerSends, PeerReads, PeerCloses
<1>4. ASSUME NEW c \in Conn, Break(c) PROVE visit' = visit
    BY <1>4 DEF Break
<1>5. ASSUME NEW h \in Host, NEW d \in Dir,
             Read(h, d) \/ ReadStops(h, d) \/ Write(h, d) \/ WriteStops(h, d) \/ closeBoth(h, d)
      PROVE  visit' = visit
    BY <1>5 DEF Read, ReadStops, Write, WriteStops, closeBoth
<1>6. CASE UNCHANGED vars
    BY <1>6 DEF vars
<1> QED BY <1>1, <1>2, <1>3, <1>4, <1>5, <1>6 DEF Next

LEMMA StagesStep ==
    ASSUME TypeOK, TypeOK', Stages, [Next]_vars
    PROVE  Stages'
<1> USE DEF inside, bytes, handlers, ends
<1> DEFINE n == Len(pipe["stream"]["down"])
           Loops == /\ \A d \in Dir : loop["client"][d].pc # "off" => work = "join"
                    /\ \A d \in Dir : loop["server"][d].pc # "off" => stream = "join"
           Buffers == \A h \in Host, d \in Dir :
                        /\ loop[h][d].pc \in {"off", "read"} => loop[h][d].buf = << >>
                        /\ loop[h][d].pc = "write" => loop[h][d].buf # << >>
           Top == at = "head" => Len(head) <= visit.fits
           Frame == stream \in {"wait", "join"} => meta = FrameLen
<1>1. Stages <=> Loops /\ Buffers /\ Top /\ Frame /\ FrameAt(n)
    BY DEF Stages
<1>2. Stages' <=> Loops' /\ Buffers' /\ Top' /\ Frame' /\ FrameAt(n)'
    BY DEF Stages
<1>v. visit' = visit
    BY VisitStays
<1>3. n \in Nat /\ meta \in 0..FrameLen /\ (stream \in {"wait", "join"} => work = "join")
    BY FrameFacts
<1>4. n' \in Nat /\ meta' \in 0..FrameLen
    <2>1. pipe'["stream"]["down"] \in Seq(Byte)
        BY Names DEF TypeOK
    <2> QED BY <2>1 DEF TypeOK
<1>5. ASSUME pipe'["stream"]["down"] = pipe["stream"]["down"] PROVE n' = n
    BY <1>5
<1>6. ASSUME n' = n, meta' = meta, work' = work PROVE FrameAt(n)'
    BY <1>1, <1>6 DEF FrameAt
<1> HIDE DEF n
<1>7. CASE Fill
    <2>1. pipe'["stream"]["down"] = pipe["stream"]["down"]
        BY <1>7, Names DEF Fill, TypeOK
    <2> QED BY <1>1, <1>2, <1>5, <1>6, <1>7, <2>1 DEF Fill
<1>8. CASE ReadLine
    <2>1. Top'
        <3>1. head \in Seq(Byte) /\ rd \in Seq(Byte) /\ rd # << >>
            BY <1>8 DEF ReadLine, TypeOK
        <3>2. Len(head') = Len(head) + 1 /\ Len(head) \in Nat
            BY <1>8, <3>1 DEF ReadLine
        <3>3. at' = "head" => head = << >> \/ Len(head) < visit.fits
            BY <1>8 DEF ReadLine, Refuse
        <3>4. visit' = visit /\ visit.fits \in Nat \ {0}
            BY <1>8, FitsType DEF ReadLine, TypeOK
        <3>5. head = << >> => Len(head) = 0
            OBVIOUS
        <3>6. at' = "head" => Len(head') <= visit.fits
            BY <3>2, <3>3, <3>4, <3>5
        <3> QED BY <3>4, <3>6
    <2>2. pipe'["stream"]["down"] = pipe["stream"]["down"]
        BY <1>8 DEF ReadLine
    <2> QED BY <1>1, <1>2, <1>5, <1>6, <1>8, <2>1, <2>2 DEF ReadLine
<1>9. CASE ReadLineFails \/ StreamGivenUp
    <2>1. pipe' = pipe /\ head' = head /\ work' = work /\ meta' = meta /\ loop' = loop
          /\ (at' = "head" => at = "head") /\ (stream' = stream \/ stream' = "gone")
        BY <1>9 DEF ReadLineFails, StreamGivenUp, Refuse
    <2>2. pipe'["stream"]["down"] = pipe["stream"]["down"]
        BY <2>1
    <2>3. Loops'
        <3>1. StreamGivenUp => stream # "join"
            BY DEF StreamGivenUp
        <3>2. ReadLineFails => stream' = stream
            BY DEF ReadLineFails
        <3> QED BY <1>1, <1>9, <2>1, <3>1, <3>2
    <2> QED BY <1>1, <1>2, <1>5, <1>6, <2>1, <2>2, <2>3, <1>v
<1>10. CASE DialLocal \/ OpenStream
    <2>1. /\ pipe' = pipe /\ head' = head /\ meta' = meta /\ loop' = loop /\ at' = at
          /\ work \in {"idle", "open"} /\ work' \in {"open", "header"}
          /\ stream' = stream \/ stream' = "meta"
        BY <1>10 DEF DialLocal, OpenStream
    <2>2. n' = n
        BY <1>5, <2>1
    <2>3. FrameAt(n)'
        BY <1>1, <2>1, <2>2 DEF FrameAt
    <2>4. Loops' /\ Frame'
        BY <1>1, <1>3, <2>1
    <2> QED BY <1>1, <1>2, <2>1, <2>3, <2>4, <1>v
<1>11. CASE WriteHeader \/ WritePayload \/ OpenFails
    <2>1. PICK x \in Seq(Byte) :
              /\ pipe'["stream"]["down"] = pipe["stream"]["down"] \o x
              /\ WriteHeader => Len(x) = HeaderLen
              /\ WritePayload => Len(x) = PayloadLen
              /\ OpenFails /\ work = "open" => Len(x) = 0
              /\ OpenFails /\ work = "header" => Len(x) < HeaderLen
              /\ OpenFails /\ work = "payload" => Len(x) < PayloadLen
        BY <1>11, FrameOut
    <2>2. n' = n + Len(x) /\ Len(x) \in Nat
        <3>1. pipe["stream"]["down"] \in Seq(Byte)
            BY Parts, Names
        <3> QED BY <2>1, <3>1, Concat DEF n
    <2>3. /\ meta' = meta /\ stream' = stream /\ head' = head /\ at' = at
          /\ WriteHeader => work = "header" /\ work' = "payload" /\ loop' = loop
          /\ WritePayload => work = "payload" /\ work' = "join" /\ Start("client")
          /\ OpenFails => work \in {"open", "header", "payload"} /\ work' = "gone" /\ loop' = loop
        BY <1>11 DEF WriteHeader, WritePayload, OpenFails
    <2>4. FrameAt(n)'
        <3>1. work = "open" => n + meta = 0
            BY <1>1 DEF FrameAt
        <3>2. work = "header" => n + meta = 0
            BY <1>1 DEF FrameAt
        <3>3. work = "payload" => n + meta = HeaderLen
            BY <1>1 DEF FrameAt
        <3>4. n' + meta' = n + meta + Len(x) /\ n + meta \in Nat
            BY <1>3, <2>2, <2>3, Sizes
        <3>5. CASE WriteHeader
            BY <2>1, <2>2, <2>3, <3>2, <3>4, <3>5, Sizes DEF FrameAt
        <3>6. CASE WritePayload
            BY <2>1, <2>2, <2>3, <3>3, <3>4, <3>6, Sizes DEF FrameAt
        <3>7. CASE OpenFails
            BY <2>1, <2>2, <2>3, <3>1, <3>2, <3>3, <3>4, <3>7, Sizes DEF FrameAt
        <3> QED BY <1>11, <3>5, <3>6, <3>7
    <2>5. work \in {"open", "header", "payload"}
        BY <1>11, <2>3
    <2>6. CASE Start("client")
        <3>1. /\ \A d \in Dir : loop'["client"][d].pc = "read" /\ loop'["client"][d].buf = << >>
              /\ \A e \in Host, d \in Dir : e # "client" => loop'[e][d] = loop[e][d]
            BY <2>6, Started, Names
        <3>2. Buffers'
            BY <1>1, <3>1
        <3>3. work' = "join" \/ loop' = loop
            BY <1>11, <2>3
        <3>4. Loops'
            BY <1>1, <2>3, <2>5, <3>1, <3>3, Names
        <3> QED BY <1>1, <1>2, <2>3, <2>4, <3>2, <3>4, <1>v
    <2>7. CASE loop' = loop
        BY <1>1, <1>2, <2>3, <2>4, <2>5, <2>7, <1>v
    <2> QED BY <1>11, <2>3, <2>6, <2>7
<1>12. CASE ReadFrame
    <2>1. PICK k \in 0..n :
              /\ pipe'["stream"]["down"] = FromN(pipe["stream"]["down"], k)
              /\ meta' = meta + k /\ meta' \in 0..FrameLen
              /\ stream' = IF meta' >= FrameLen THEN "wait" ELSE "meta"
        BY <1>12, FrameIn DEF n
    <2>2. n' = n - k
        <3>1. pipe["stream"]["down"] \in Seq(Byte)
            BY Parts, Names
        <3> QED BY <2>1, <3>1, Cut DEF n
    <2>3. n' + meta' = n + meta
        BY <1>3, <2>1, <2>2
    <2>4. stream = "meta" /\ UNCHANGED <<head, loop, at, work>>
        BY <1>12 DEF ReadFrame
    <2>5. FrameAt(n)'
        BY <1>1, <2>3, <2>4 DEF FrameAt
    <2>6. Frame'
        BY <2>1, Sizes
    <2> QED BY <1>1, <1>2, <2>4, <2>5, <2>6, <1>v
<1>13. CASE TakeVisitor
    <2>1. /\ \A d \in Dir : loop'["server"][d].pc = "read" /\ loop'["server"][d].buf = << >>
          /\ \A e \in Host, d \in Dir : e # "server" => loop'[e][d] = loop[e][d]
        BY <1>13, Started, Names DEF TakeVisitor
    <2>2. pipe' = pipe /\ head' = head /\ meta' = meta /\ work' = work /\ at' = "joined"
          /\ stream = "wait" /\ stream' = "join"
        BY <1>13 DEF TakeVisitor
    <2>3. Buffers'
        BY <1>1, <2>1
    <2>4. Loops' /\ Frame'
        BY <1>1, <2>1, <2>2, Names
    <2>5. FrameAt(n)'
        BY <1>5, <1>6, <2>2
    <2> QED BY <1>2, <2>2, <2>3, <2>4, <2>5
<1>14. ASSUME NEW d \in Dir, PeerSends(d) \/ PeerReads(d) PROVE Stages'
    <2>1. PeerConn(d) # "stream" /\ PeerConn(Other(d)) # "stream"
        BY DEF PeerConn, Other
    <2>2. pipe'["stream"]["down"] = pipe["stream"]["down"]
        <3>1. "stream" \in Conn /\ "down" \in Dir
            BY Names
        <3>2. CASE PeerSends(d)
            BY <2>1, <3>1, <3>2, PeerFacts
        <3>3. CASE PeerReads(d)
            BY <2>1, <3>1, <3>3, PeerFacts
        <3> QED BY <1>14, <3>2, <3>3
    <2>3. UNCHANGED <<head, meta, work, stream, at, loop>>
        BY <1>14 DEF PeerSends, PeerReads
    <2> QED BY <1>1, <1>2, <1>5, <1>6, <2>2, <2>3, <1>v
<1>15. CASE \/ UNCHANGED vars \/ (\E d \in Dir : PeerCloses(d)) \/ (\E c \in Conn : Break(c))
    <2>1. UNCHANGED <<pipe, head, meta, work, stream, at, loop>>
        BY <1>15 DEF vars, PeerCloses, Break
    <2> QED BY <1>1, <1>2, <1>5, <1>6, <2>1, <1>v
<1>16. ASSUME NEW h \in Host, NEW d \in Dir, Read(h, d) PROVE Stages'
    <2>0. PICK x \in Seq(Byte) : Took(h, d, x)
        BY <1>16, ReadFacts
    <2>1. loop[h][d].pc = "read" /\ UNCHANGED <<meta, at, work, stream>>
        BY <1>16 DEF Read
    <2>2. /\ x # << >> /\ loop'[h][d].pc = "write" /\ loop'[h][d].buf = x
          /\ \A e \in Host, f \in Dir : e # h \/ f # d => loop'[e][f] = loop[e][f]
        BY <2>0 DEF Took
    <2>3. Buffers'
        BY <1>1, <2>2
    <2>4. Loops'
        BY <1>1, <2>1, <2>2, Names
    <2>5. Len(head') <= Len(head) /\ Len(head) \in Nat /\ Len(head') \in Nat
        <3>1. head \in Seq(Byte) /\ head' \in Seq(Byte)
            BY DEF TypeOK
        <3>2. Len(head) \in Nat /\ Len(head') \in Nat
            BY <3>1
        <3> QED BY <2>0, <3>2 DEF Took
    <2>6. Top'
        <3>1. visit.fits \in Nat
            BY FitsType DEF TypeOK
        <3> QED BY <1>1, <2>1, <2>5, <3>1, <1>v
    <2>7. CASE h = "server" /\ d = "down"
        <3>1. work = "join" /\ meta = FrameLen
            BY <1>1, <1>3, <2>1, <2>7, Names
        <3>2. FrameAt(n)'
            BY <1>4, <2>1, <3>1, Sizes, <1>v DEF FrameAt
        <3> QED BY <1>1, <1>2, <2>1, <2>3, <2>4, <2>6, <3>2
    <2>8. CASE ~(h = "server" /\ d = "down")
        <3>1. Src(h, d) # "stream" \/ d # "down"
            BY <2>8, Route DEF Host, Dir
        <3>2. pipe'["stream"]["down"] = pipe["stream"]["down"]
            BY <2>0, <3>1, Names DEF Took
        <3> QED BY <1>1, <1>2, <1>5, <1>6, <2>1, <2>3, <2>4, <2>6, <3>2
    <2> QED BY <2>7, <2>8
<1>17. ASSUME NEW h \in Host, NEW d \in Dir, ReadStops(h, d) \/ closeBoth(h, d) PROVE Stages'
    <2>1. /\ loop'[h][d].pc \in {"close", "done"}
          /\ \A e \in Host, f \in Dir : /\ loop'[e][f].buf = loop[e][f].buf
                                        /\ e # h \/ f # d => loop'[e][f] = loop[e][f]
        BY <1>17, Moved
    <2>2. loop[h][d].pc # "off" /\ UNCHANGED <<pipe, head, meta, work, stream, at>>
        BY <1>17 DEF ReadStops, closeBoth
    <2>3. Buffers'
        BY <1>1, <2>1
    <2>4. Loops'
        BY <1>1, <2>1, <2>2, Names
    <2> QED BY <1>1, <1>2, <1>5, <1>6, <2>2, <2>3, <2>4, <1>v
<1>18. ASSUME NEW h \in Host, NEW d \in Dir, Write(h, d) \/ WriteStops(h, d) PROVE Stages'
    <2>0. PICK x, y \in Seq(Byte) : Passed(h, d, x, y)
        BY <1>18, WriteFacts
    <2>1. loop[h][d].pc = "write" /\ UNCHANGED <<head, meta, at, work, stream>>
        BY <1>18 DEF Write, WriteStops
    <2>2. /\ \/ loop'[h][d].pc = "read" /\ loop'[h][d].buf = << >>
             \/ loop'[h][d].pc = "close"
          /\ \A e \in Host, f \in Dir : e # h \/ f # d => loop'[e][f] = loop[e][f]
        BY <2>0 DEF Passed
    <2>3. Buffers'
        BY <1>1, <2>2
    <2>4. Loops'
        BY <1>1, <2>1, <2>2, Names
    <2>5. CASE h = "client" /\ d = "down"
        <3>1. work = "join"
            BY <1>1, <2>1, <2>5, Names
        <3>2. pipe'["stream"]["down"] = pipe["stream"]["down"] \o x
            BY <2>0, <2>5, Route DEF Passed
        <3>3. n' >= n
            <4>1. pipe["stream"]["down"] \in Seq(Byte)
                BY Parts, Names
            <4>2. n' = n + Len(x) /\ Len(x) \in Nat
                BY <3>2, <4>1, Concat DEF n
            <4> QED BY <1>3, <4>2
        <3>4. FrameAt(n)'
            <4>1. n + meta >= FrameLen
                BY <1>1, <3>1 DEF FrameAt
            <4>2. n' + meta' >= FrameLen
                <5>1. n \in Nat /\ n' \in Nat /\ meta \in Nat /\ meta' = meta /\ FrameLen \in Nat
                    BY <1>3, <1>4, <2>1, Sizes
                <5>2. PICK a, b : a = n /\ b = n'
                    OBVIOUS
                <5>3. a \in Nat /\ b \in Nat /\ b >= a /\ a + meta >= FrameLen
                    BY <3>3, <4>1, <5>1, <5>2
                <5>4. b + meta >= FrameLen
                    BY <5>1, <5>3
                <5> QED BY <5>1, <5>2, <5>4
            <4> QED BY <2>1, <3>1, <4>2 DEF FrameAt
        <3> QED BY <1>1, <1>2, <2>1, <2>3, <2>4, <3>4, <1>v
    <2>6. CASE ~(h = "client" /\ d = "down")
        <3>1. Dst(h, d) # "stream" \/ d # "down"
            BY <2>6, Route DEF Host, Dir
        <3>2. pipe'["stream"]["down"] = pipe["stream"]["down"]
            BY <2>0, <3>1, Names DEF Passed
        <3> QED BY <1>1, <1>2, <1>5, <1>6, <2>1, <2>3, <2>4, <3>2, <1>v
    <2> QED BY <2>5, <2>6
<1> QED BY <1>7, <1>8, <1>9, <1>10, <1>11, <1>12, <1>13, <1>14, <1>15, <1>16, <1>17, <1>18
           DEF Next

-----------------------------------------------------------------------------
(* The flow of the bytes *)

\* Concatenation, opaque to the provers but for what LEMMA Cats says of it.
Cat(a, b) == a \o b

LEMMA Cats ==
    /\ \A p, q, r \in Seq(Byte) : Cat(Cat(p, q), r) = Cat(p, Cat(q, r))
    /\ \A p, q \in Seq(Byte) : Cat(p, q) \in Seq(Byte)
    /\ \A p \in Seq(Byte) : Cat(p, << >>) = p /\ Cat(<< >>, p) = p
    /\ << >> \in Seq(Byte)
<1>1. ASSUME NEW p \in Seq(Byte), NEW q \in Seq(Byte), NEW r \in Seq(Byte)
      PROVE  Cat(Cat(p, q), r) = Cat(p, Cat(q, r))
    BY ConcatAssociative DEF Cat
<1>2. ASSUME NEW p \in Seq(Byte), NEW q \in Seq(Byte) PROVE Cat(p, q) \in Seq(Byte)
    BY Concat DEF Cat
<1>3. ASSUME NEW p \in Seq(Byte) PROVE Cat(p, << >>) = p /\ Cat(<< >>, p) = p
    BY Concat DEF Cat
<1> QED BY <1>1, <1>2, <1>3

\* Four segments in a row.
Line(a, b, c, e) == Cat(Cat(Cat(a, b), c), e)

\* Bytes at the front of a segment may as well stand at the end of the one before it.
LEMMA ShiftSecond ==
    ASSUME NEW a \in Seq(Byte), NEW b \in Seq(Byte), NEW c, NEW e, NEW x \in Seq(Byte)
    PROVE  Line(a, Cat(x, b), c, e) = Line(Cat(a, x), b, c, e)
BY Cats DEF Line

LEMMA ShiftThird ==
    ASSUME NEW a \in Seq(Byte), NEW b \in Seq(Byte), NEW c \in Seq(Byte), NEW e,
           NEW x \in Seq(Byte)
    PROVE  Line(a, b, Cat(x, c), e) = Line(a, Cat(b, x), c, e)
<1>1. \A p, q, r, s \in Seq(Byte) : Cat(Cat(p, q), Cat(r, s)) = Cat(Cat(p, Cat(q, r)), s)
    BY Cats
<1> QED BY <1>1 DEF Line

LEMMA ShiftFourth ==
    ASSUME NEW a \in Seq(Byte), NEW b \in Seq(Byte), NEW c \in Seq(Byte), NEW e \in Seq(Byte),
           NEW x \in Seq(Byte)
    PROVE  Line(a, b, c, Cat(x, e)) = Line(a, b, Cat(c, x), e)
<1>1. \A p, q, r, s \in Seq(Byte) : Cat(Cat(p, q), Cat(r, s)) = Cat(Cat(p, Cat(q, r)), s)
    BY Cats
<1> QED BY <1>1, Cats DEF Line

\* Those at the very front come before the line, those behind the last after it.
LEMMA ShiftFront ==
    ASSUME NEW a \in Seq(Byte), NEW b \in Seq(Byte), NEW c \in Seq(Byte), NEW e \in Seq(Byte),
           NEW x \in Seq(Byte)
    PROVE  Line(Cat(x, a), b, c, e) = Cat(x, Line(a, b, c, e))
<1>1. PICK p, q : p = Cat(a, b) /\ q = Cat(p, c)
    OBVIOUS
<1>2. p \in Seq(Byte) /\ q \in Seq(Byte)
    BY <1>1, Cats
<1>3. Cat(Cat(x, a), b) = Cat(x, p) /\ Cat(Cat(x, p), c) = Cat(x, q)
    BY <1>1, <1>2, Cats
<1>4. Cat(Cat(x, q), e) = Cat(x, Cat(q, e))
    BY <1>2, Cats
<1> QED BY <1>1, <1>3, <1>4 DEF Line

LEMMA ShiftBack ==
    ASSUME NEW a \in Seq(Byte), NEW b \in Seq(Byte), NEW c \in Seq(Byte), NEW e \in Seq(Byte),
           NEW x \in Seq(Byte)
    PROVE  Line(a, b, c, Cat(e, x)) = Cat(Line(a, b, c, e), x)
<1>1. PICK q : q = Cat(Cat(a, b), c)
    OBVIOUS
<1>2. q \in Seq(Byte)
    BY <1>1, Cats
<1>3. Cat(Cat(q, e), x) = Cat(q, Cat(e, x))
    BY <1>2, Cats
<1> QED BY <1>1, <1>3 DEF Line

LEMMA LineType ==
    ASSUME NEW a \in Seq(Byte), NEW b \in Seq(Byte), NEW c \in Seq(Byte), NEW e \in Seq(Byte)
    PROVE  Line(a, b, c, e) \in Seq(Byte)
BY Cats DEF Line

\* Past empty segments, too.
LEMMA ShiftFar ==
    ASSUME NEW b \in Seq(Byte), NEW c \in Seq(Byte), NEW e \in Seq(Byte), NEW x \in Seq(Byte)
    PROVE  /\ Line(<< >>, Cat(x, b), c, e) = Line(x, b, c, e)
           /\ Line(<< >>, << >>, Cat(x, c), e) = Line(x, << >>, c, e)
           /\ Line(<< >>, << >>, << >>, Cat(x, e)) = Line(x, << >>, << >>, e)
<1>1. Cat(<< >>, << >>) = << >> /\ Cat(<< >>, x) = x /\ Cat(x, << >>) = x /\ << >> \in Seq(Byte)
    BY Cats
<1>2. Line(<< >>, Cat(x, b), c, e) = Line(x, b, c, e)
    <2>1. Cat(<< >>, Cat(x, b)) = Cat(x, b)
        BY Cats
    <2> QED BY <1>1, <2>1 DEF Line
<1>3. Line(<< >>, << >>, Cat(x, c), e) = Line(x, << >>, c, e)
    <2>1. Cat(<< >>, Cat(x, c)) = Cat(x, c)
        BY Cats
    <2> QED BY <1>1, <2>1 DEF Line
<1>4. Line(<< >>, << >>, << >>, Cat(x, e)) = Line(x, << >>, << >>, e)
    <2>1. Cat(<< >>, Cat(x, e)) = Cat(x, e)
        BY Cats
    <2> QED BY <1>1, <2>1 DEF Line
<1> QED BY <1>2, <1>3, <1>4

\* The segments on either side of the server.
LEMMA Chains ==
    /\ Beyond["up"] = Line(got["up"], pipe["local"]["up"], loop["client"]["up"].buf,
                           pipe["stream"]["up"])
    /\ Before["up"] = Line(loop["server"]["up"].buf, head, rd, pipe["visitor"]["up"])
    /\ Beyond["down"] = Cat(got["down"], pipe["visitor"]["down"])
    /\ Before["down"] = Line(loop["server"]["down"].buf, Reply, loop["client"]["down"].buf,
                             pipe["local"]["down"])
    /\ Beyond'["up"] = Line(got'["up"], pipe'["local"]["up"], loop'["client"]["up"].buf,
                            pipe'["stream"]["up"])
    /\ Before'["up"] = Line(loop'["server"]["up"].buf, head', rd', pipe'["visitor"]["up"])
    /\ Beyond'["down"] = Cat(got'["down"], pipe'["visitor"]["down"])
    /\ Before'["down"] = Line(loop'["server"]["down"].buf, Reply', loop'["client"]["down"].buf,
                              pipe'["local"]["down"])
BY DEF Beyond, Before, Line, Cat

\* The reply on the stream: a sequence of bytes, all there is once the frame is read.
LEMMA ReplyFacts ==
    ASSUME TypeOK, Stages
    PROVE  /\ Reply \in Seq(Byte)
           /\ work # "join" => Reply = << >>
           /\ stream = "join" => Reply = pipe["stream"]["down"]
           /\ work = "join" => /\ FrameLen - meta \in 0..Len(pipe["stream"]["down"])
                               /\ Reply = FromN(pipe["stream"]["down"], FrameLen - meta)
<1>0. pipe["stream"]["down"] \in Seq(Byte)
    BY Parts DEF Conn, Dir
<1>1. PICK z, k : z = pipe["stream"]["down"] /\ k = Len(z)
    OBVIOUS
<1>2. z \in Seq(Byte) /\ k \in Nat /\ meta \in 0..FrameLen /\ FrameLen \in Nat
    BY <1>0, <1>1, Sizes DEF TypeOK
<1>3. ASSUME work = "join" PROVE FrameLen - meta \in 0..k
    <2>1. k + meta >= FrameLen
        BY <1>1, <1>3 DEF Stages, FrameAt
    <2> QED BY <1>2, <2>1
<1>4. work = "join" => FromN(z, FrameLen - meta) \in Seq(Byte)
    BY <1>1, <1>2, <1>3, Cut
<1>5. ASSUME stream = "join" PROVE Reply = z
    <2>1. work = "join" /\ FrameLen - meta = 0
        BY <1>2, <1>5, FrameFacts
    <2>2. FromN(z, 0) = z
        BY <1>2, SubSeqFull DEF FromN
    <2> QED BY <1>1, <2>1, <2>2 DEF Reply
<1> QED BY <1>1, <1>3, <1>4, <1>5 DEF Reply

\* What a step does to direction d: nothing that shows at the server, bytes that cross
\* it and are counted, or a byte that is sent.
Kept(d) == /\ Beyond'[d] = Beyond[d] /\ Before'[d] = Before[d]
           /\ sent'[d] = sent[d] /\ count'[d] = count[d]
Crossed(d) == \E x \in Seq(Byte) :
                /\ Beyond'[d] = Cat(Beyond[d], x) /\ Before[d] = Cat(x, Before'[d])
                /\ sent'[d] = sent[d] /\ count'[d] = count[d] + Len(x)
Sent(d) == /\ Beyond'[d] = Beyond[d] /\ Before'[d] = Cat(Before[d], <<sent[d] + 1>>)
           /\ sent'[d] = sent[d] + 1 /\ count'[d] = count[d]

\* The segments of direction d are left alone.
Same(d) ==
    /\ \A c \in Conn : c # "stream" \/ d = "up" => pipe'[c][d] = pipe[c][d]
    /\ \A h \in Host : loop'[h][d].buf = loop[h][d].buf
    /\ got'[d] = got[d] /\ sent'[d] = sent[d] /\ count'[d] = count[d]
    /\ IF d = "up" THEN head' = head /\ rd' = rd ELSE Reply' = Reply

LEMMA SameKept == ASSUME NEW d \in Dir, Same(d) PROVE Kept(d)
<1>1. /\ "visitor" \in Conn /\ "stream" \in Conn /\ "local" \in Conn
      /\ "server" \in Host /\ "client" \in Host
    BY DEF Conn, Host
<1>2. CASE d = "up"
    BY <1>1, <1>2, Chains DEF Same, Kept
<1>3. CASE d = "down"
    BY <1>1, <1>3, Chains DEF Same, Kept
<1> QED BY <1>2, <1>3 DEF Dir

\* The reply stays when the stream does, or when there is none yet.
LEMMA ReplyKept ==
    ASSUME \/ UNCHANGED <<work, meta>> /\ pipe'["stream"]["down"] = pipe["stream"]["down"]
           \/ work # "join" /\ work' # "join"
    PROVE  Reply' = Reply
BY DEF Reply

\* All segments are sequences of bytes, before and after a step.
LEMMA Segments ==
    ASSUME TypeOK, TypeOK', Stages, Stages'
    PROVE  /\ \A c \in Conn, d \in Dir : pipe[c][d] \in Seq(Byte) /\ pipe'[c][d] \in Seq(Byte)
           /\ \A h \in Host, d \in Dir : /\ loop[h][d].buf \in Seq(Byte)
                                         /\ loop'[h][d].buf \in Seq(Byte)
           /\ \A d \in Dir : /\ got[d] \in Seq(Byte) /\ got'[d] \in Seq(Byte)
                             /\ sent[d] \in Nat /\ count[d] \in Nat
           /\ head \in Seq(Byte) /\ head' \in Seq(Byte) /\ rd \in Seq(Byte) /\ rd' \in Seq(Byte)
           /\ Reply \in Seq(Byte) /\ Reply' \in Seq(Byte)
<1>1. /\ \A c \in Conn, d \in Dir : pipe[c][d] \in Seq(Byte) /\ pipe'[c][d] \in Seq(Byte)
      /\ \A d \in Dir : /\ got[d] \in Seq(Byte) /\ got'[d] \in Seq(Byte)
                        /\ sent[d] \in Nat /\ count[d] \in Nat
      /\ head \in Seq(Byte) /\ head' \in Seq(Byte) /\ rd \in Seq(Byte) /\ rd' \in Seq(Byte)
    BY DEF TypeOK
<1>2. \A h \in Host, d \in Dir : loop[h][d].buf \in Seq(Byte) /\ loop'[h][d].buf \in Seq(Byte)
    <2>1. loop \in [Host -> [Dir -> LoopType]] /\ loop' \in [Host -> [Dir -> LoopType]]
        BY DEF TypeOK
    <2> QED BY <2>1 DEF LoopType
<1>3. Reply \in Seq(Byte)
    BY ReplyFacts
<1>4. Reply' \in Seq(Byte)
    <2>1. PICK z, k : z = pipe'["stream"]["down"] /\ k = Len(z)
        OBVIOUS
    <2>2. z \in Seq(Byte)
        BY <1>1, <2>1 DEF Conn, Dir
    <2>3. k \in Nat /\ meta' \in 0..FrameLen /\ FrameLen \in Nat
        <3>1. meta' \in 0..FrameLen
            BY DEF TypeOK
        <3> QED BY <2>1, <2>2, <3>1, Sizes
    <2>4. ASSUME work' = "join" PROVE FrameLen - meta' \in 0..k
        <3>1. PICK m : m = meta'
            OBVIOUS
        <3>2. k + m >= FrameLen
            BY <2>1, <2>4, <3>1 DEF Stages, FrameAt
        <3>3. m \in Nat /\ m <= FrameLen /\ FrameLen \in Nat /\ k \in Nat
            BY <2>3, <3>1
        <3>4. FrameLen - m \in 0..k
            BY <3>2, <3>3
        <3> QED BY <3>1, <3>4
    <2>5. work' = "join" => FromN(z, FrameLen - meta') \in Seq(Byte)
        BY <2>1, <2>2, <2>4, Cut
    <2> QED BY <2>1, <2>5 DEF Reply
<1> QED BY <1>1, <1>2, <1>3, <1>4

\* The handlers, apart from the reading of the head: nothing moves but the frame.
LEMMA HandlersFlow ==
    ASSUME TypeOK, TypeOK', Stages, Stages', NEW d \in Dir,
           \/ ReadLineFails \/ DialLocal \/ OpenStream \/ WriteHeader \/ WritePayload \/ OpenFails
           \/ ReadFrame \/ StreamGivenUp \/ TakeVisitor
    PROVE  Same(d)
<1> USE DEF inside, bytes, handlers, ends
<1>1. \A h \in Host, f \in Dir : loop[h][f].pc = "off" => loop[h][f].buf = << >>
    BY DEF Stages
<1>2. head' = head /\ rd' = rd /\ got' = got /\ sent' = sent /\ count' = count
    BY DEF ReadLineFails, DialLocal, OpenStream, WriteHeader, WritePayload, OpenFails, ReadFrame,
           StreamGivenUp, TakeVisitor
<1>3. \A c \in Conn, f \in Dir : c # "stream" \/ f # "down" => pipe'[c][f] = pipe[c][f]
    <2>1. CASE WriteHeader \/ WritePayload \/ OpenFails
        BY <2>1, FrameOut
    <2>2. CASE ReadFrame
        BY <2>2, FrameIn
    <2>3. CASE pipe' = pipe
        BY <2>3
    <2> QED BY <2>1, <2>2, <2>3 DEF ReadLineFails, DialLocal, OpenStream, StreamGivenUp,
                                    TakeVisitor
<1>4. \A h \in Host, f \in Dir : loop'[h][f].buf = loop[h][f].buf
    <2>1. CASE WritePayload
        <3>1. \A f \in Dir : loop["client"][f].buf = << >>
            BY <1>1, <2>1, Names DEF WritePayload, Stages
        <3> QED BY <2>1, <3>1, Started, Names DEF WritePayload
    <2>2. CASE TakeVisitor
        <3>1. \A f \in Dir : loop["server"][f].buf = << >>
            BY <1>1, <2>2, Names DEF TakeVisitor, Stages
        <3> QED BY <2>2, <3>1, Started, Names DEF TakeVisitor
    <2>3. CASE loop' = loop
        BY <2>3
    <2> QED BY <2>1, <2>2, <2>3 DEF ReadLineFails, DialLocal, OpenStream, WriteHeader, OpenFails,
                                    ReadFrame, StreamGivenUp
<1>5. Reply' = Reply
    <2>1. CASE ReadLineFails \/ StreamGivenUp \/ TakeVisitor
        <3>1. UNCHANGED <<work, meta, pipe>>
            BY <2>1 DEF ReadLineFails, StreamGivenUp, TakeVisitor
        <3> QED BY <3>1, ReplyKept
    <2>2. CASE DialLocal \/ OpenStream \/ WriteHeader \/ OpenFails
        <3>1. work # "join" /\ work' # "join"
            BY <2>2 DEF DialLocal, OpenStream, WriteHeader, OpenFails
        <3> QED BY <3>1, ReplyKept
    <2>3. CASE WritePayload
        <3>1. PICK x \in Seq(Byte) : /\ pipe'["stream"]["down"] = pipe["stream"]["down"] \o x
                                     /\ Len(x) = PayloadLen
            BY <2>3, FrameOut
        <3>2. PICK z, y : z = pipe["stream"]["down"] /\ y = z \o x
            OBVIOUS
        <3>3. z \in Seq(Byte) /\ y \in Seq(Byte) /\ Len(y) = Len(z) + Len(x) /\ Len(z) \in Nat
            BY <3>2, Parts, Concat, Names
        <3>4. Len(z) + meta = HeaderLen /\ meta' = meta /\ meta \in 0..FrameLen
            BY <2>3, <3>2 DEF WritePayload, Stages, FrameAt, TypeOK
        <3>5. FrameLen - meta' = Len(y)
            BY <3>1, <3>3, <3>4, Sizes
        <3>6. FromN(y, Len(y)) = << >>
            BY <3>3, SubSeqEmpty DEF FromN
        <3>7. work = "payload" /\ work' = "join"
            BY <2>3 DEF WritePayload
        <3> QED BY <3>1, <3>2, <3>5, <3>6, <3>7 DEF Reply
    <2>4. CASE ReadFrame
        <3>1. PICK k \in 0..Len(pipe["stream"]["down"]) :
                  /\ pipe'["stream"]["down"] = FromN(pipe["stream"]["down"], k)
                  /\ meta' = meta + k /\ meta' \in 0..FrameLen
            BY <2>4, FrameIn
        <3>2. PICK z, m : z = pipe["stream"]["down"] /\ m = FrameLen - meta
            OBVIOUS
        <3>3. z \in Seq(Byte) /\ Len(z) \in Nat /\ meta \in Nat /\ FrameLen \in Nat
            BY <3>2, Parts, Sizes, Names DEF TypeOK
        <3>4. CASE work = "join"
            <4>1. m \in 0..Len(z) /\ Reply = FromN(z, m)
                BY <3>2, <3>4, ReplyFacts
            <4>2. m \in k..Len(z) /\ FrameLen - meta' = m - k
                BY <3>1, <3>2, <3>3, <4>1
            <4>3. FromN(FromN(z, k), m - k) = FromN(z, m)
                BY <3>1, <3>2, <3>3, <4>2, CutCut
            <4>4. work' = "join"
                BY <2>4, <3>4 DEF ReadFrame
            <4> QED BY <3>1, <3>2, <4>1, <4>2, <4>3, <4>4 DEF Reply
        <3>5. CASE work # "join"
            BY <2>4, <3>5, ReplyKept DEF ReadFrame
        <3> QED BY <3>4, <3>5
    <2> QED BY <2>1, <2>2, <2>3, <2>4
<1> QED BY <1>2, <1>3, <1>4, <1>5 DEF Same, Dir

\* The reader takes what has arrived, and a line of it becomes part of the head.
LEMMA HeadFlow ==
    ASSUME TypeOK, TypeOK', Stages, Stages', NEW d \in Dir, Fill \/ ReadLine
    PROVE  Kept(d)
<1> USE DEF inside, bytes, handlers, ends
<1>1. UNCHANGED <<work, meta, loop, sent, got, count>>
    BY DEF Fill, ReadLine
<1>2. \A c \in Conn, f \in Dir : c # "visitor" \/ f # "up" => pipe'[c][f] = pipe[c][f]
    <2>1. CASE Fill
        BY <2>1, Names DEF Fill, TypeOK
    <2>2. CASE ReadLine
        BY <2>2 DEF ReadLine
    <2> QED BY <2>1, <2>2
<1>3. CASE d = "down"
    <2>1. Reply' = Reply
        BY <1>1, <1>2, ReplyKept, Names
    <2>2. Same(d)
        BY <1>1, <1>2, <1>3, <2>1 DEF Same
    <2> QED BY <2>2, SameKept
<1>4. CASE d = "up"
    <2>1. PICK b, v : b = loop["server"]["up"].buf /\ v = pipe["visitor"]["up"]
        OBVIOUS
    <2>2. /\ b \in Seq(Byte) /\ v \in Seq(Byte) /\ head \in Seq(Byte) /\ rd \in Seq(Byte)
          /\ pipe'["visitor"]["up"] \in Seq(Byte) /\ rd' \in Seq(Byte)
        BY <2>1, Segments, Names
    <2>3. Line(b, head', rd', pipe'["visitor"]["up"]) = Line(b, head, rd, v)
        <3>1. CASE Fill
            <4>1. rd = << >> /\ rd' = v /\ head' = head /\ pipe'["visitor"]["up"] = << >>
                BY <2>1, <3>1, Names DEF Fill, TypeOK
            <4>2. Cat(v, << >>) = v /\ Cat(<< >>, v) = v /\ << >> \in Seq(Byte)
                BY <2>2, Cats
            <4>3. PICK z : z = << >>
                OBVIOUS
            <4>4. z \in Seq(Byte)
                BY <4>2, <4>3
            <4>5. Line(b, head, z, Cat(v, z)) = Line(b, head, Cat(z, v), z)
                BY <2>2, <4>4, ShiftFourth
            <4> QED BY <4>1, <4>2, <4>3, <4>5
        <3>2. CASE ReadLine
            <4>1. PICK x, y : x = <<Head(rd)>> /\ y = Tail(rd)
                OBVIOUS
            <4>2. rd # << >> /\ head' = Append(head, Head(rd)) /\ rd' = y /\ pipe' = pipe
                BY <3>2, <4>1 DEF ReadLine
            <4>3. x \in Seq(Byte) /\ y \in Seq(Byte) /\ rd = Cat(x, y) /\ head' = Cat(head, x)
                <5>1. Head(rd) \in Byte /\ Tail(rd) \in Seq(Byte)
                    BY <2>2, <4>2
                <5>2. Append(head, Head(rd)) = head \o <<Head(rd)>>
                    BY <2>2, <5>1, AppendIsConcat
                <5>3. <<Head(rd)>> \o Tail(rd) = rd
                    BY <2>2, <4>2, HeadTailAppend
                <5>4. <<Head(rd)>> \in Seq(Byte)
                    BY <5>1
                <5> QED BY <4>1, <4>2, <5>1, <5>2, <5>3, <5>4 DEF Cat
            <4>4. Line(b, head, Cat(x, y), v) = Line(b, Cat(head, x), y, v)
                BY <2>2, <4>3, ShiftThird
            <4> QED BY <2>1, <4>2, <4>3, <4>4
        <3> QED BY <3>1, <3>2
    <2>4. Before'["up"] = Before["up"]
        BY <1>1, <2>1, <2>3, Chains
    <2>5. Beyond'["up"] = Beyond["up"]
        BY <1>1, <1>2, Chains, Names
    <2> QED BY <1>1, <1>4, <2>4, <2>5 DEF Kept
<1> QED BY <1>3, <1>4 DEF Dir

\* The visitor and the service send and receive.
LEMMA PeerFlow ==
    ASSUME TypeOK, TypeOK', Stages, Stages', NEW d \in Dir, NEW f \in Dir,
           PeerSends(f) \/ PeerReads(f)
    PROVE  Kept(d) \/ Sent(d)
<1> USE DEF inside, bytes, handlers, ends
<1>1. UNCHANGED <<work, meta, loop, count, head, rd>>
    BY DEF PeerSends, PeerReads
<1>2. \A c \in Conn, g \in Dir : c = "stream" \/ g # f => pipe'[c][g] = pipe[c][g]
    <2>1. PeerConn(f) # "stream" /\ PeerConn(Other(f)) # "stream"
        BY DEF PeerConn, Other
    <2>2. CASE PeerSends(f)
        <3>1. \A c \in Conn, g \in Dir : c # PeerConn(f) \/ g # f => pipe'[c][g] = pipe[c][g]
            BY <2>2, PeerFacts
        <3> QED BY <2>1, <3>1
    <2>3. CASE PeerReads(f)
        <3>1. \A c \in Conn, g \in Dir :
                 c # PeerConn(Other(f)) \/ g # f => pipe'[c][g] = pipe[c][g]
            BY <2>3, PeerFacts
        <3> QED BY <2>1, <3>1
    <2> QED BY <2>2, <2>3
<1>3. Reply' = Reply
    BY <1>1, <1>2, ReplyKept, Names
<1>4. CASE d # f
    <2>1. got'[d] = got[d] /\ sent'[d] = sent[d]
        BY <1>4, PeerFacts DEF PeerSends, PeerReads
    <2>2. Same(d)
        BY <1>1, <1>2, <1>3, <1>4, <2>1 DEF Same
    <2> QED BY <2>2, SameKept
<1>5. CASE d = f /\ PeerSends(d)
    <2>1. PICK x : x = <<sent[d] + 1>>
        OBVIOUS
    <2>2. x \in Seq(Byte)
        BY <2>1, Parts DEF Byte
    <2>3. /\ pipe'[PeerConn(d)][d] = Cat(pipe[PeerConn(d)][d], x)
          /\ \A e \in Conn : e # PeerConn(d) => pipe'[e][d] = pipe[e][d]
          /\ sent'[d] = sent[d] + 1 /\ got' = got
        <3>1. /\ pipe'[PeerConn(d)][d] = pipe[PeerConn(d)][d] \o x
              /\ \A e \in Conn, g \in Dir : e # PeerConn(d) \/ g # d => pipe'[e][g] = pipe[e][g]
              /\ sent'[d] = sent[d] + 1
            BY <1>5, <2>1, PeerFacts
        <3> QED BY <1>5, <3>1 DEF Cat, PeerSends
    <2>4. CASE d = "up"
        <3>1. Before'["up"] = Cat(Before["up"], x)
            <4>1. pipe'["visitor"]["up"] = Cat(pipe["visitor"]["up"], x)
                BY <2>3, <2>4 DEF PeerConn
            <4>2. /\ pipe["visitor"]["up"] \in Seq(Byte) /\ loop["server"]["up"].buf \in Seq(Byte)
                  /\ head \in Seq(Byte) /\ rd \in Seq(Byte)
                BY Segments, Names
            <4>3. Line(loop["server"]["up"].buf, head, rd, Cat(pipe["visitor"]["up"], x))
                    = Cat(Line(loop["server"]["up"].buf, head, rd, pipe["visitor"]["up"]), x)
                BY <2>2, <4>2, ShiftBack
            <4> QED BY <1>1, <4>1, <4>3, Chains
        <3>2. Beyond'["up"] = Beyond["up"]
            BY <1>1, <1>2, <2>3, <2>4, Chains, Names DEF PeerConn
        <3> QED BY <1>1, <2>1, <2>3, <2>4, <3>1, <3>2 DEF Sent
    <2>5. CASE d = "down"
        <3>1. Before'["down"] = Cat(Before["down"], x)
            <4>1. pipe'["local"]["down"] = Cat(pipe["local"]["down"], x)
                BY <2>3, <2>5 DEF PeerConn
            <4>2. /\ pipe["local"]["down"] \in Seq(Byte)
                  /\ loop["server"]["down"].buf \in Seq(Byte)
                  /\ Reply \in Seq(Byte) /\ loop["client"]["down"].buf \in Seq(Byte)
                BY Segments, Names
            <4>3. Line(loop["server"]["down"].buf, Reply, loop["client"]["down"].buf,
                       Cat(pipe["local"]["down"], x))
                    = Cat(Line(loop["server"]["down"].buf, Reply, loop["client"]["down"].buf,
                               pipe["local"]["down"]), x)
                BY <2>2, <4>2, ShiftBack
            <4> QED BY <1>1, <1>3, <4>1, <4>3, Chains
        <3>2. Beyond'["down"] = Beyond["down"]
            BY <1>1, <1>2, <2>3, <2>5, Chains, Names DEF PeerConn
        <3> QED BY <1>1, <2>1, <2>3, <2>5, <3>1, <3>2 DEF Sent
    <2> QED BY <2>4, <2>5 DEF Dir
<1>6. CASE d = f /\ PeerReads(d)
    <2>1. PICK c : c = PeerConn(Other(d))
        OBVIOUS
    <2>2. /\ pipe'[c][d] = << >>
          /\ \A e \in Conn : e # c => pipe'[e][d] = pipe[e][d]
          /\ got'[d] = Cat(got[d], pipe[c][d]) /\ sent' = sent
        BY <1>6, <2>1, PeerFacts DEF Cat, PeerReads
    <2>3. CASE d = "up"
        <3>1. c = "local"
            BY <2>1, <2>3 DEF PeerConn, Other
        <3>2. Before'["up"] = Before["up"]
            BY <1>1, <2>2, <2>3, <3>1, Chains, Names
        <3>3. Beyond'["up"] = Beyond["up"]
            <4>1. PICK g, p, b, s : /\ g = got["up"] /\ p = pipe["local"]["up"]
                                    /\ b = loop["client"]["up"].buf /\ s = pipe["stream"]["up"]
                OBVIOUS
            <4>2. g \in Seq(Byte) /\ p \in Seq(Byte) /\ b \in Seq(Byte) /\ s \in Seq(Byte)
                BY <4>1, Segments, Names
            <4>3. Line(g, Cat(p, << >>), b, s) = Line(Cat(g, p), << >>, b, s) /\ Cat(p, << >>) = p
                <5>1. << >> \in Seq(Byte) /\ Cat(p, << >>) = p
                    BY <4>2, Cats
                <5>2. PICK z : z = << >>
                    OBVIOUS
                <5>3. z \in Seq(Byte)
                    BY <5>1, <5>2
                <5>4. Line(g, Cat(p, z), b, s) = Line(Cat(g, p), z, b, s)
                    BY <4>2, <5>3, ShiftSecond
                <5> QED BY <5>1, <5>2, <5>4
            <4>4. /\ got'["up"] = Cat(g, p)
                  /\ pipe'["local"]["up"] = << >> /\ pipe'["stream"]["up"] = s
                BY <2>2, <2>3, <3>1, <4>1, Names
            <4> QED BY <1>1, <4>1, <4>3, <4>4, Chains
        <3> QED BY <1>1, <2>2, <2>3, <3>2, <3>3 DEF Kept
    <2>4. CASE d = "down"
        <3>1. c = "visitor"
            BY <2>1, <2>4 DEF PeerConn, Other
        <3>2. Before'["down"] = Before["down"]
            BY <1>1, <1>3, <2>2, <2>4, <3>1, Chains, Names
        <3>3. Beyond'["down"] = Beyond["down"]
            <4>1. got["down"] \in Seq(Byte) /\ pipe["visitor"]["down"] \in Seq(Byte)
                BY Segments, Names
            <4>2. Cat(Cat(got["down"], pipe["visitor"]["down"]), << >>)
                    = Cat(got["down"], pipe["visitor"]["down"])
                BY <4>1, Cats
            <4> QED BY <2>2, <2>4, <3>1, <4>2, Chains
        <3> QED BY <1>1, <2>2, <2>4, <3>2, <3>3 DEF Kept
    <2> QED BY <2>3, <2>4 DEF Dir
<1> QED BY <1>4, <1>5, <1>6

\* A loop reads: bytes move into its buffer, which was empty.
LEMMA ReadFlow ==
    ASSUME TypeOK, TypeOK', Stages, Stages', NEW h \in Host, NEW f \in Dir, NEW d \in Dir,
           Read(h, f)
    PROVE  Kept(d)
<1> USE DEF inside, bytes, handlers, ends
<1>1. PICK x \in Seq(Byte) : Took(h, f, x)
    BY ReadFacts
<1>2. /\ UNCHANGED <<work, meta, sent, got, count>>
      /\ loop[h][f].pc = "read" /\ loop[h][f].buf = << >>
    BY DEF Read, Stages
<1>3. /\ loop'[h][f].buf = x
      /\ \A e \in Host, g \in Dir : e # h \/ g # f => loop'[e][g].buf = loop[e][g].buf
    BY <1>1 DEF Took
<1>4. \A c \in Conn, g \in Dir : c # Src(h, f) \/ g # f => pipe'[c][g] = pipe[c][g]
    BY <1>1 DEF Took
<1>5. ~(h = "server" /\ f = "up") => /\ head' = head /\ rd' = rd
                                     /\ pipe[Src(h, f)][f] = Cat(x, pipe'[Src(h, f)][f])
    BY <1>1 DEF Took, Cat
<1>6. CASE d # f
    <2>1. d = "down" => Reply' = Reply
        BY <1>2, <1>4, <1>6, ReplyKept, Names
    <2>2. Same(d)
        BY <1>2, <1>3, <1>4, <1>5, <1>6, <2>1 DEF Same, Dir
    <2> QED BY <2>2, SameKept
<1>7. CASE d = f /\ h = "server" /\ d = "up"
    <2>1. PICK v : v = pipe["visitor"]["up"]
        OBVIOUS
    <2>2. /\ v \in Seq(Byte) /\ head \in Seq(Byte) /\ rd \in Seq(Byte)
          /\ head' \in Seq(Byte) /\ rd' \in Seq(Byte) /\ pipe'["visitor"]["up"] \in Seq(Byte)
        BY <2>1, Segments, Names
    <2>3. Line(x, head', rd', pipe'["visitor"]["up"]) = Line(<< >>, head, rd, v)
        <3>1. CASE head = x \o head' /\ UNCHANGED <<rd, pipe>>
            <4>1. Line(<< >>, Cat(x, head'), rd, v) = Line(x, head', rd, v)
                BY <2>2, ShiftFar
            <4> QED BY <2>1, <3>1, <4>1 DEF Cat
        <3>2. CASE rd = x \o rd' /\ head = << >> /\ UNCHANGED <<head, pipe>>
            <4>1. Line(<< >>, << >>, Cat(x, rd'), v) = Line(x, << >>, rd', v)
                BY <2>2, ShiftFar
            <4> QED BY <2>1, <3>2, <4>1 DEF Cat
        <3>3. CASE /\ head = << >> /\ rd = << >> /\ UNCHANGED <<head, rd>>
                   /\ v = x \o pipe'["visitor"]["up"]
            <4>1. PICK w : w = pipe'["visitor"]["up"]
                OBVIOUS
            <4>2. Line(<< >>, << >>, << >>, Cat(x, w)) = Line(x, << >>, << >>, w)
                BY <2>2, <4>1, ShiftFar
            <4> QED BY <3>3, <4>1, <4>2 DEF Cat
        <3> QED BY <1>1, <1>7, <2>1, <3>1, <3>2, <3>3, Route DEF Took
    <2>4. Before'["up"] = Before["up"]
        BY <1>2, <1>3, <1>7, <2>1, <2>3, Chains
    <2>5. Beyond'["up"] = Beyond["up"]
        BY <1>2, <1>3, <1>4, <1>7, Chains, Route, Names
    <2> QED BY <1>2, <1>7, <2>4, <2>5 DEF Kept
<1>8. CASE d = f /\ h = "client" /\ d = "up"
    <2>1. PICK g, p, s, w : /\ g = got["up"] /\ p = pipe["local"]["up"]
                            /\ s = pipe["stream"]["up"] /\ w = pipe'["stream"]["up"]
        OBVIOUS
    <2>2. g \in Seq(Byte) /\ p \in Seq(Byte) /\ s \in Seq(Byte) /\ w \in Seq(Byte)
        BY <2>1, Segments, Names
    <2>3. s = Cat(x, w) /\ pipe'["local"]["up"] = p
        BY <1>4, <1>5, <1>8, <2>1, Route, Names
    <2>4. Line(g, p, << >>, Cat(x, w)) = Line(g, p, x, w)
        <3>1. << >> \in Seq(Byte) /\ Cat(<< >>, x) = x
            BY Cats
        <3>2. PICK z : z = << >>
            OBVIOUS
        <3>3. z \in Seq(Byte)
            BY <3>1, <3>2
        <3>4. Line(g, p, z, Cat(x, w)) = Line(g, p, Cat(z, x), w)
            BY <2>2, <3>3, ShiftFourth
        <3> QED BY <3>1, <3>2, <3>4
    <2>5. Beyond'["up"] = Beyond["up"]
        <3>1. /\ got'["up"] = g /\ loop["client"]["up"].buf = << >>
              /\ loop'["client"]["up"].buf = x
            BY <1>2, <1>3, <1>8, <2>1
        <3>2. Beyond["up"] = Line(g, p, << >>, s)
            BY <2>1, <3>1, Chains
        <3>3. Beyond'["up"] = Line(g, p, x, w)
            BY <2>1, <2>3, <3>1, Chains
        <3> QED BY <2>3, <2>4, <3>2, <3>3
    <2>6. Before'["up"] = Before["up"]
        BY <1>3, <1>4, <1>5, <1>8, Chains, Route, Names
    <2> QED BY <1>2, <1>8, <2>5, <2>6 DEF Kept
<1>9. CASE d = f /\ h = "server" /\ d = "down"
    <2>1. stream = "join" /\ stream' = "join"
        BY <1>2, <1>9, Names DEF Stages, Read
    <2>2. Reply = pipe["stream"]["down"] /\ Reply \in Seq(Byte)
        BY <2>1, ReplyFacts
    <2>3. Reply' = pipe'["stream"]["down"]
        <3>1. PICK z : z = pipe'["stream"]["down"]
            OBVIOUS
        <3>2. z \in Seq(Byte) /\ FrameLen - meta' = 0 /\ work' = "join"
            BY <1>2, <2>1, <3>1, Segments, FrameFacts, Sizes, Names
        <3>3. FromN(z, 0) = z
            BY <3>2, SubSeqFull DEF FromN
        <3> QED BY <3>1, <3>2, <3>3 DEF Reply
    <2>4. PICK r, b, p : r = Reply' /\ b = loop["client"]["down"].buf /\ p = pipe["local"]["down"]
        OBVIOUS
    <2>5. r \in Seq(Byte) /\ b \in Seq(Byte) /\ p \in Seq(Byte)
        BY <2>4, Segments, Names
    <2>6. Reply = Cat(x, r) /\ pipe'["local"]["down"] = p /\ loop'["client"]["down"].buf = b
        BY <1>3, <1>4, <1>5, <1>9, <2>2, <2>3, <2>4, Route, Names
    <2>7. Line(<< >>, Cat(x, r), b, p) = Line(x, r, b, p)
        BY <2>5, ShiftFar
    <2>8. Before'["down"] = Before["down"]
        BY <1>2, <1>3, <1>9, <2>4, <2>6, <2>7, Chains
    <2>9. Beyond'["down"] = Beyond["down"]
        BY <1>2, <1>4, <1>9, Chains, Route, Names
    <2> QED BY <1>2, <1>9, <2>8, <2>9 DEF Kept
<1>10. CASE d = f /\ h = "client" /\ d = "down"
    <2>1. Reply' = Reply
        BY <1>2, <1>4, <1>10, ReplyKept, Route, Names
    <2>2. PICK b, r, p, w : /\ b = loop["server"]["down"].buf /\ r = Reply
                            /\ p = pipe["local"]["down"] /\ w = pipe'["local"]["down"]
        OBVIOUS
    <2>3. b \in Seq(Byte) /\ r \in Seq(Byte) /\ p \in Seq(Byte) /\ w \in Seq(Byte)
        BY <2>2, Segments, Names
    <2>4. p = Cat(x, w) /\ loop'["server"]["down"].buf = b
        BY <1>3, <1>5, <1>10, <2>2, Route, Names
    <2>5. Line(b, r, << >>, Cat(x, w)) = Line(b, r, x, w)
        <3>1. << >> \in Seq(Byte) /\ Cat(<< >>, x) = x
            BY Cats
        <3>2. PICK z : z = << >>
            OBVIOUS
        <3>3. z \in Seq(Byte)
            BY <3>1, <3>2
        <3>4. Line(b, r, z, Cat(x, w)) = Line(b, r, Cat(z, x), w)
            BY <2>3, <3>3, ShiftFourth
        <3> QED BY <3>1, <3>2, <3>4
    <2>6. Before'["down"] = Before["down"]
        <3>1. loop["client"]["down"].buf = << >> /\ loop'["client"]["down"].buf = x
            BY <1>2, <1>3, <1>10
        <3>2. Before["down"] = Line(b, r, << >>, p)
            BY <2>2, <3>1, Chains
        <3>3. Before'["down"] = Line(b, r, x, w)
            BY <2>1, <2>2, <2>4, <3>1, Chains
        <3> QED BY <2>4, <2>5, <3>2, <3>3
    <2>7. Beyond'["down"] = Beyond["down"]
        BY <1>2, <1>4, <1>10, Chains, Route, Names
    <2> QED BY <1>2, <1>10, <2>6, <2>7 DEF Kept
<1> QED BY <1>6, <1>7, <1>8, <1>9, <1>10 DEF Host, Dir

\* A loop writes: the client passes bytes on, at the server they cross.
LEMMA WriteFlow ==
    ASSUME TypeOK, TypeOK', Stages, Stages', NEW h \in Host, NEW f \in Dir, NEW d \in Dir,
           Write(h, f) \/ WriteStops(h, f)
    PROVE  Kept(d) \/ Crossed(d)
<1> USE DEF inside, bytes, handlers, ends
<1>1. PICK x, y \in Seq(Byte) : Passed(h, f, x, y)
    BY WriteFacts
<1>2. UNCHANGED <<work, meta, sent, got, head, rd>> /\ loop[h][f].pc = "write"
    BY DEF Write, WriteStops
<1>3. /\ loop[h][f].buf = Cat(x, y) /\ loop'[h][f].buf = y
      /\ \A e \in Host, g \in Dir : e # h \/ g # f => loop'[e][g].buf = loop[e][g].buf
    BY <1>1 DEF Passed, Cat
<1>4. /\ \A c \in Conn, g \in Dir : c # Dst(h, f) \/ g # f => pipe'[c][g] = pipe[c][g]
      /\ pipe'[Dst(h, f)][f] = Cat(pipe[Dst(h, f)][f], x)
    BY <1>1 DEF Passed, Cat
<1>5. /\ h = "client" \/ d # f => count'[d] = count[d]
      /\ h = "server" /\ d = f => count'[d] = count[d] + Len(x)
    <2>1. count' = IF h = "server" THEN [count EXCEPT ![f] = @ + Len(x)] ELSE count
        BY <1>1 DEF Passed
    <2>2. count \in [Dir -> Nat]
        BY DEF TypeOK
    <2> QED BY <2>1, <2>2
<1>6. CASE d # f
    <2>1. d = "down" => Reply' = Reply
        BY <1>2, <1>4, <1>6, ReplyKept, Names
    <2>2. Same(d)
        BY <1>2, <1>3, <1>4, <1>5, <1>6, <2>1 DEF Same, Dir
    <2> QED BY <2>2, SameKept
<1>7. CASE d = f /\ h = "client" /\ d = "up"
    <2>1. PICK g, p, s : g = got["up"] /\ p = pipe["local"]["up"] /\ s = pipe["stream"]["up"]
        OBVIOUS
    <2>2. g \in Seq(Byte) /\ p \in Seq(Byte) /\ s \in Seq(Byte)
        BY <2>1, Segments, Names
    <2>3. /\ pipe'["local"]["up"] = Cat(p, x) /\ pipe'["stream"]["up"] = s
          /\ pipe'["visitor"]["up"] = pipe["visitor"]["up"]
          /\ loop'["server"]["up"].buf = loop["server"]["up"].buf
          /\ loop["client"]["up"].buf = Cat(x, y) /\ loop'["client"]["up"].buf = y
        BY <1>3, <1>4, <1>7, <2>1, Route, Names
    <2>4. Line(g, p, Cat(x, y), s) = Line(g, Cat(p, x), y, s)
        BY <1>1, <2>2, ShiftThird
    <2>5. Beyond'["up"] = Beyond["up"]
        BY <1>2, <2>1, <2>3, <2>4, Chains
    <2>6. Before'["up"] = Before["up"]
        BY <1>2, <2>3, Chains
    <2> QED BY <1>2, <1>5, <1>7, <2>5, <2>6 DEF Kept
<1>8. CASE d = f /\ h = "client" /\ d = "down"
    <2>1. PICK b, r, p, z : /\ b = loop["server"]["down"].buf /\ r = Reply
                            /\ p = pipe["local"]["down"] /\ z = pipe["stream"]["down"]
        OBVIOUS
    <2>2. b \in Seq(Byte) /\ r \in Seq(Byte) /\ p \in Seq(Byte) /\ z \in Seq(Byte)
        BY <2>1, Segments, Names
    <2>3. /\ pipe'["stream"]["down"] = z \o x /\ pipe'["local"]["down"] = p
          /\ pipe'["visitor"]["down"] = pipe["visitor"]["down"]
          /\ loop'["server"]["down"].buf = b
          /\ loop["client"]["down"].buf = Cat(x, y) /\ loop'["client"]["down"].buf = y
        BY <1>3, <1>4, <1>8, <2>1, Route, Names DEF Cat
    <2>4. work = "join" /\ work' = "join"
        BY <1>2, <1>8, Names DEF Stages
    <2>5. Reply' = Cat(r, x)
        <3>1. PICK m : m = FrameLen - meta
            OBVIOUS
        <3>2. m \in 0..Len(z) /\ r = FromN(z, m)
            BY <2>1, <2>4, <3>1, ReplyFacts
        <3>3. FromN(z \o x, m) = FromN(z, m) \o x
            BY <1>1, <2>2, <3>2, CutConcat
        <3>4. Reply' = FromN(z \o x, m)
            BY <1>2, <2>3, <2>4, <3>1 DEF Reply
        <3> QED BY <3>2, <3>3, <3>4 DEF Cat
    <2>6. Line(b, r, Cat(x, y), p) = Line(b, Cat(r, x), y, p)
        BY <1>1, <2>2, ShiftThird
    <2>7. Before'["down"] = Before["down"]
        BY <2>1, <2>3, <2>5, <2>6, Chains
    <2>8. Beyond'["down"] = Beyond["down"]
        BY <1>2, <2>3, Chains
    <2> QED BY <1>2, <1>5, <1>8, <2>7, <2>8 DEF Kept
<1>9. CASE d = f /\ h = "server" /\ d = "up"
    <2>1. PICK g, p, b, s, v : /\ g = got["up"] /\ p = pipe["local"]["up"]
                               /\ b = loop["client"]["up"].buf /\ s = pipe["stream"]["up"]
                               /\ v = pipe["visitor"]["up"]
        OBVIOUS
    <2>2. /\ g \in Seq(Byte) /\ p \in Seq(Byte) /\ b \in Seq(Byte) /\ s \in Seq(Byte)
          /\ v \in Seq(Byte) /\ head \in Seq(Byte) /\ rd \in Seq(Byte)
        BY <2>1, Segments, Names
    <2>3. /\ pipe'["stream"]["up"] = Cat(s, x) /\ pipe'["local"]["up"] = p
          /\ pipe'["visitor"]["up"] = v /\ loop'["client"]["up"].buf = b
          /\ loop["server"]["up"].buf = Cat(x, y) /\ loop'["server"]["up"].buf = y
        BY <1>3, <1>4, <1>9, <2>1, Route, Names
    <2>4. Line(g, p, b, Cat(s, x)) = Cat(Line(g, p, b, s), x)
        BY <1>1, <2>2, ShiftBack
    <2>5. Line(Cat(x, y), head, rd, v) = Cat(x, Line(y, head, rd, v))
        BY <1>1, <2>2, ShiftFront
    <2>6. Beyond'["up"] = Cat(Beyond["up"], x)
        BY <1>2, <2>1, <2>3, <2>4, Chains
    <2>7. Before["up"] = Cat(x, Before'["up"])
        BY <1>2, <2>1, <2>3, <2>5, Chains
    <2> QED BY <1>1, <1>2, <1>5, <1>9, <2>6, <2>7 DEF Crossed
<1>10. CASE d = f /\ h = "server" /\ d = "down"
    <2>1. PICK g, v, r, b, p : /\ g = got["down"] /\ v = pipe["visitor"]["down"] /\ r = Reply
                               /\ b = loop["client"]["down"].buf /\ p = pipe["local"]["down"]
        OBVIOUS
    <2>2. /\ g \in Seq(Byte) /\ v \in Seq(Byte) /\ r \in Seq(Byte)
          /\ b \in Seq(Byte) /\ p \in Seq(Byte)
        BY <2>1, Segments, Names
    <2>3. /\ pipe'["visitor"]["down"] = Cat(v, x) /\ pipe'["local"]["down"] = p
          /\ pipe'["stream"]["down"] = pipe["stream"]["down"] /\ loop'["client"]["down"].buf = b
          /\ loop["server"]["down"].buf = Cat(x, y) /\ loop'["server"]["down"].buf = y
        BY <1>3, <1>4, <1>10, <2>1, Route, Names
    <2>4. Reply' = r
        BY <1>2, <2>1, <2>3, ReplyKept
    <2>5. Cat(g, Cat(v, x)) = Cat(Cat(g, v), x)
        BY <1>1, <2>2, Cats
    <2>6. Line(Cat(x, y), r, b, p) = Cat(x, Line(y, r, b, p))
        BY <1>1, <2>2, ShiftFront
    <2>7. Beyond'["down"] = Cat(Beyond["down"], x)
        BY <1>2, <2>1, <2>3, <2>5, Chains
    <2>8. Before["down"] = Cat(x, Before'["down"])
        BY <2>1, <2>3, <2>4, <2>6, Chains
    <2> QED BY <1>1, <1>2, <1>5, <1>10, <2>7, <2>8 DEF Crossed
<1> QED BY <1>6, <1>7, <1>8, <1>9, <1>10 DEF Host, Dir

\* Everything else leaves the bytes where they are.
LEMMA QuietFlow ==
    ASSUME TypeOK, NEW d \in Dir,
           \/ UNCHANGED vars \/ (\E f \in Dir : PeerCloses(f)) \/ (\E c \in Conn : Break(c))
           \/ \E h \in Host, f \in Dir : ReadStops(h, f) \/ closeBoth(h, f)
    PROVE  Same(d)
<1> USE DEF inside, bytes, handlers, ends
<1>1. UNCHANGED <<pipe, work, meta, head, rd, sent, got, count>>
    BY DEF vars, PeerCloses, Break, ReadStops, closeBoth
<1>2. \A e \in Host, g \in Dir : loop'[e][g].buf = loop[e][g].buf
    <2>1. CASE loop' = loop
        BY <2>1
    <2>2. ASSUME NEW h \in Host, NEW f \in Dir, ReadStops(h, f) \/ closeBoth(h, f)
          PROVE  \A e \in Host, g \in Dir : loop'[e][g].buf = loop[e][g].buf
        BY <2>2, Moved
    <2> QED BY <2>1, <2>2 DEF vars, PeerCloses, Break
<1>3. Reply' = Reply
    BY <1>1, ReplyKept
<1> QED BY <1>1, <1>2, <1>3 DEF Same

\* Every step.
LEMMA Flow ==
    ASSUME TypeOK, TypeOK', Stages, Stages', [Next]_vars, NEW d \in Dir
    PROVE  Kept(d) \/ Crossed(d) \/ Sent(d)
<1>1. CASE \/ ReadLineFails \/ DialLocal \/ OpenStream \/ WriteHeader \/ WritePayload \/ OpenFails
           \/ ReadFrame \/ StreamGivenUp \/ TakeVisitor
    BY <1>1, HandlersFlow, SameKept
<1>2. CASE Fill \/ ReadLine
    BY <1>2, HeadFlow
<1>3. ASSUME NEW f \in Dir, PeerSends(f) \/ PeerReads(f) PROVE Kept(d) \/ Sent(d)
    BY <1>3, PeerFlow
<1>4. ASSUME NEW h \in Host, NEW f \in Dir, Read(h, f) PROVE Kept(d)
    BY <1>4, ReadFlow
<1>5. ASSUME NEW h \in Host, NEW f \in Dir, Write(h, f) \/ WriteStops(h, f)
      PROVE  Kept(d) \/ Crossed(d)
    BY <1>5, WriteFlow
<1>6. CASE \/ UNCHANGED vars \/ (\E f \in Dir : PeerCloses(f)) \/ (\E c \in Conn : Break(c))
           \/ \E h \in Host, f \in Dir : ReadStops(h, f) \/ closeBoth(h, f)
    BY <1>6, QuietFlow, SameKept
<1> QED BY <1>1, <1>2, <1>3, <1>4, <1>5, <1>6 DEF Next

\* What is beyond the server and what is before it are sequences of bytes.
LEMMA Halves ==
    ASSUME TypeOK, TypeOK', Stages, Stages', NEW d \in Dir
    PROVE  /\ Beyond[d] \in Seq(Byte) /\ Before[d] \in Seq(Byte)
           /\ Beyond'[d] \in Seq(Byte) /\ Before'[d] \in Seq(Byte)
<1>2. Beyond["up"] \in Seq(Byte)
    <2>1. /\ got["up"] \in Seq(Byte) /\ pipe["local"]["up"] \in Seq(Byte)
          /\ loop["client"]["up"].buf \in Seq(Byte) /\ pipe["stream"]["up"] \in Seq(Byte)
        BY Segments, Names
    <2>2. PICK a, b, c, e : /\ a = got["up"] /\ b = pipe["local"]["up"]
                            /\ c = loop["client"]["up"].buf /\ e = pipe["stream"]["up"]
        OBVIOUS
    <2>3. a \in Seq(Byte) /\ b \in Seq(Byte) /\ c \in Seq(Byte) /\ e \in Seq(Byte)
        BY <2>1, <2>2
    <2>4. Line(a, b, c, e) \in Seq(Byte)
        BY <2>3, LineType
    <2> QED BY <2>2, <2>4, Chains
<1>3. Beyond'["up"] \in Seq(Byte)
    <2>1. /\ got'["up"] \in Seq(Byte) /\ pipe'["local"]["up"] \in Seq(Byte)
          /\ loop'["client"]["up"].buf \in Seq(Byte) /\ pipe'["stream"]["up"] \in Seq(Byte)
        BY Segments, Names
    <2>2. PICK a, b, c, e : /\ a = got'["up"] /\ b = pipe'["local"]["up"]
                            /\ c = loop'["client"]["up"].buf /\ e = pipe'["stream"]["up"]
        OBVIOUS
    <2>3. a \in Seq(Byte) /\ b \in Seq(Byte) /\ c \in Seq(Byte) /\ e \in Seq(Byte)
        BY <2>1, <2>2
    <2>4. Line(a, b, c, e) \in Seq(Byte)
        BY <2>3, LineType
    <2> QED BY <2>2, <2>4, Chains
<1>4. Before["up"] \in Seq(Byte)
    <2>1. /\ loop["server"]["up"].buf \in Seq(Byte) /\ head \in Seq(Byte)
          /\ rd \in Seq(Byte) /\ pipe["visitor"]["up"] \in Seq(Byte)
        BY Segments, Names
    <2>2. PICK a, b, c, e : /\ a = loop["server"]["up"].buf /\ b = head
                            /\ c = rd /\ e = pipe["visitor"]["up"]
        OBVIOUS
    <2>3. a \in Seq(Byte) /\ b \in Seq(Byte) /\ c \in Seq(Byte) /\ e \in Seq(Byte)
        BY <2>1, <2>2
    <2>4. Line(a, b, c, e) \in Seq(Byte)
        BY <2>3, LineType
    <2> QED BY <2>2, <2>4, Chains
<1>5. Before'["up"] \in Seq(Byte)
    <2>1. /\ loop'["server"]["up"].buf \in Seq(Byte) /\ head' \in Seq(Byte)
          /\ rd' \in Seq(Byte) /\ pipe'["visitor"]["up"] \in Seq(Byte)
        BY Segments, Names
    <2>2. PICK a, b, c, e : /\ a = loop'["server"]["up"].buf /\ b = head'
                            /\ c = rd' /\ e = pipe'["visitor"]["up"]
        OBVIOUS
    <2>3. a \in Seq(Byte) /\ b \in Seq(Byte) /\ c \in Seq(Byte) /\ e \in Seq(Byte)
        BY <2>1, <2>2
    <2>4. Line(a, b, c, e) \in Seq(Byte)
        BY <2>3, LineType
    <2> QED BY <2>2, <2>4, Chains
<1>6. Before["down"] \in Seq(Byte)
    <2>1. /\ loop["server"]["down"].buf \in Seq(Byte) /\ Reply \in Seq(Byte)
          /\ loop["client"]["down"].buf \in Seq(Byte) /\ pipe["local"]["down"] \in Seq(Byte)
        BY Segments, Names
    <2>2. PICK a, b, c, e : /\ a = loop["server"]["down"].buf /\ b = Reply
                            /\ c = loop["client"]["down"].buf /\ e = pipe["local"]["down"]
        OBVIOUS
    <2>3. a \in Seq(Byte) /\ b \in Seq(Byte) /\ c \in Seq(Byte) /\ e \in Seq(Byte)
        BY <2>1, <2>2
    <2>4. Line(a, b, c, e) \in Seq(Byte)
        BY <2>3, LineType
    <2> QED BY <2>2, <2>4, Chains
<1>7. Before'["down"] \in Seq(Byte)
    <2>1. /\ loop'["server"]["down"].buf \in Seq(Byte) /\ Reply' \in Seq(Byte)
          /\ loop'["client"]["down"].buf \in Seq(Byte) /\ pipe'["local"]["down"] \in Seq(Byte)
        BY Segments, Names
    <2>2. PICK a, b, c, e : /\ a = loop'["server"]["down"].buf /\ b = Reply'
                            /\ c = loop'["client"]["down"].buf /\ e = pipe'["local"]["down"]
        OBVIOUS
    <2>3. a \in Seq(Byte) /\ b \in Seq(Byte) /\ c \in Seq(Byte) /\ e \in Seq(Byte)
        BY <2>1, <2>2
    <2>4. Line(a, b, c, e) \in Seq(Byte)
        BY <2>3, LineType
    <2> QED BY <2>2, <2>4, Chains
<1>8. Beyond["down"] \in Seq(Byte) /\ Beyond'["down"] \in Seq(Byte)
    <2>1. /\ got["down"] \in Seq(Byte) /\ pipe["visitor"]["down"] \in Seq(Byte)
          /\ got'["down"] \in Seq(Byte) /\ pipe'["visitor"]["down"] \in Seq(Byte)
        BY Segments, Names
    <2>2. /\ Cat(got["down"], pipe["visitor"]["down"]) \in Seq(Byte)
          /\ Cat(got'["down"], pipe'["visitor"]["down"]) \in Seq(Byte)
        BY <2>1, Cats
    <2> QED BY <2>2, Chains
<1> QED BY <1>2, <1>3, <1>4, <1>5, <1>6, <1>7, <1>8 DEF Dir

LEMMA FlowInit == Init => Transparent /\ CountsExact
<1> SUFFICES ASSUME Init PROVE Transparent /\ CountsExact
    OBVIOUS
<1>1. /\ \A c \in Conn, d \in Dir : pipe[c][d] = << >>
      /\ \A h \in Host, d \in Dir : loop[h][d].buf = << >>
      /\ \A d \in Dir : got[d] = << >> /\ sent[d] = 0 /\ count[d] = 0
      /\ head = << >> /\ rd = << >> /\ Reply = << >>
    BY DEF Init, Reply
<1>2. Cat(<< >>, << >>) = << >>
    BY Cats
<1>3. Line(<< >>, << >>, << >>, << >>) = << >>
    BY <1>2 DEF Line
<1>4. \A d \in Dir : Beyond[d] = << >> /\ Before[d] = << >>
    BY <1>1, <1>2, <1>3, Chains, Names DEF Dir
<1>5. Numbers(0) = << >>
    <2>1. Numbers(0) \in Seq(Byte) /\ Len(Numbers(0)) = 0
        BY OneMore
    <2> QED BY <2>1, EmptySeq
<1>6. << >> \o << >> = << >> /\ Len(<< >>) = 0
    OBVIOUS
<1> QED BY <1>1, <1>4, <1>5, <1>6 DEF Transparent, CountsExact

LEMMA FlowStep ==
    ASSUME TypeOK, TypeOK', Stages, Stages', Transparent, CountsExact, [Next]_vars
    PROVE  Transparent' /\ CountsExact'
<1> SUFFICES ASSUME NEW d \in Dir
             PROVE  Beyond'[d] \o Before'[d] = Numbers(sent'[d]) /\ count'[d] = Len(Beyond'[d])
    BY DEF Transparent, CountsExact
<1>1. PICK a, b, p, q : a = Beyond[d] /\ b = Before[d] /\ p = Beyond'[d] /\ q = Before'[d]
    OBVIOUS
<1>2. a \in Seq(Byte) /\ b \in Seq(Byte) /\ p \in Seq(Byte) /\ q \in Seq(Byte)
    BY <1>1, Halves
<1>3. Cat(a, b) = Numbers(sent[d]) /\ count[d] = Len(a) /\ sent[d] \in Nat
    BY <1>1, Parts DEF Transparent, CountsExact, Cat
<1>4. CASE Kept(d)
    BY <1>1, <1>3, <1>4 DEF Kept, Cat
<1>5. CASE Crossed(d)
    <2>1. PICK x \in Seq(Byte) : /\ p = Cat(a, x) /\ b = Cat(x, q)
                                 /\ sent'[d] = sent[d] /\ count'[d] = count[d] + Len(x)
        BY <1>1, <1>5 DEF Crossed
    <2>2. Cat(Cat(a, x), q) = Cat(a, Cat(x, q))
        BY <1>2, <2>1, Cats
    <2>3. Len(p) = Len(a) + Len(x)
        BY <1>2, <2>1, Concat DEF Cat
    <2>4. p \o q = Numbers(sent'[d])
        BY <1>3, <2>1, <2>2 DEF Cat
    <2> QED BY <1>1, <1>3, <2>1, <2>3, <2>4
<1>6. CASE Sent(d)
    <2>1. PICK x : x = <<sent[d] + 1>>
        OBVIOUS
    <2>2. x \in Seq(Byte)
        BY <1>3, <2>1 DEF Byte
    <2>3. p = a /\ q = Cat(b, x) /\ sent'[d] = sent[d] + 1 /\ count'[d] = count[d]
        BY <1>1, <1>6, <2>1 DEF Sent
    <2>4. Cat(Cat(a, b), x) = Cat(a, Cat(b, x))
        BY <1>2, <2>2, Cats
    <2>5. Numbers(sent[d] + 1) = Cat(Numbers(sent[d]), x)
        BY <1>3, <2>1, OneMore DEF Cat
    <2>6. Cat(p, q) = Numbers(sent'[d])
        BY <1>3, <2>3, <2>4, <2>5
    <2> QED BY <1>1, <1>3, <2>3, <2>6 DEF Cat
<1> QED BY <1>4, <1>5, <1>6, Flow

-----------------------------------------------------------------------------
(* The last word *)

\* A line is empty when its segments are.
LEMMA EmptyLine ==
    ASSUME NEW a \in Seq(Byte), NEW b \in Seq(Byte), NEW c \in Seq(Byte), NEW e \in Seq(Byte)
    PROVE  Line(a, b, c, e) = << >> <=> a = << >> /\ b = << >> /\ c = << >> /\ e = << >>
<1>1. \A p, q \in Seq(Byte) : Cat(p, q) = << >> <=> p = << >> /\ q = << >>
    BY Concat DEF Cat
<1>2. PICK p, q : p = Cat(a, b) /\ q = Cat(p, c)
    OBVIOUS
<1>3. p \in Seq(Byte) /\ q \in Seq(Byte)
    BY <1>2, Cats
<1>4. Cat(q, e) = << >> <=> q = << >> /\ e = << >>
    BY <1>1, <1>3
<1>5. q = << >> <=> p = << >> /\ c = << >>
    BY <1>1, <1>2, <1>3
<1>6. p = << >> <=> a = << >> /\ b = << >>
    BY <1>1, <1>2
<1> QED BY <1>2, <1>4, <1>5, <1>6 DEF Line

\* The segments before and beyond the server, one by one.
LEMMA Empties ==
    ASSUME TypeOK, Stages
    PROVE  /\ Before["up"] = << >> <=> /\ loop["server"]["up"].buf = << >> /\ head = << >>
                                       /\ rd = << >> /\ pipe["visitor"]["up"] = << >>
           /\ Before["down"] = << >> <=> /\ loop["server"]["down"].buf = << >> /\ Reply = << >>
                                         /\ loop["client"]["down"].buf = << >>
                                         /\ pipe["local"]["down"] = << >>
<1>1. PICK a, v : a = loop["server"]["up"].buf /\ v = pipe["visitor"]["up"]
    OBVIOUS
<1>2. a \in Seq(Byte) /\ v \in Seq(Byte) /\ head \in Seq(Byte) /\ rd \in Seq(Byte)
    BY <1>1, Parts, Names DEF TypeOK
<1>3. Line(a, head, rd, v) = << >> <=> a = << >> /\ head = << >> /\ rd = << >> /\ v = << >>
    BY <1>2, EmptyLine
<1>4. PICK b, r, c, p : /\ b = loop["server"]["down"].buf /\ r = Reply
                        /\ c = loop["client"]["down"].buf /\ p = pipe["local"]["down"]
    OBVIOUS
<1>5. b \in Seq(Byte) /\ r \in Seq(Byte) /\ c \in Seq(Byte) /\ p \in Seq(Byte)
    BY <1>4, Parts, ReplyFacts, Names
<1>6. Line(b, r, c, p) = << >> <=> b = << >> /\ r = << >> /\ c = << >> /\ p = << >>
    BY <1>5, EmptyLine
<1>7. Before["up"] = Line(a, head, rd, v) /\ Before["down"] = Line(b, r, c, p)
    BY <1>1, <1>4, Chains
<1> QED BY <1>1, <1>3, <1>4, <1>6, <1>7

\* When all that was sent has been received, nothing is on its way; and when nothing is
\* on its way, all has been received.
LEMMA AllReceived ==
    ASSUME TypeOK, Stages, Transparent
    PROVE  /\ Len(got["up"]) = sent["up"] <=>
                /\ Before["up"] = << >> /\ pipe["local"]["up"] = << >>
                /\ loop["client"]["up"].buf = << >> /\ pipe["stream"]["up"] = << >>
           /\ Len(got["down"]) = sent["down"] <=>
                Before["down"] = << >> /\ pipe["visitor"]["down"] = << >>
<1>1. \A n \in Nat : Len(Numbers(n)) = n
    BY OneMore
<1>2. \A p, q \in Seq(Byte) : Len(Cat(p, q)) = Len(p) + Len(q) /\ Cat(p, q) \in Seq(Byte)
    BY Concat DEF Cat
<1>3. \A p \in Seq(Byte) : Len(p) \in Nat /\ (Len(p) = 0 <=> p = << >>)
    BY EmptySeq
<1>4. Before["up"] \in Seq(Byte)
    <2>1. PICK a, v : a = loop["server"]["up"].buf /\ v = pipe["visitor"]["up"]
        OBVIOUS
    <2>2. a \in Seq(Byte) /\ v \in Seq(Byte) /\ head \in Seq(Byte) /\ rd \in Seq(Byte)
        BY <2>1, Parts, Names DEF TypeOK
    <2>3. Line(a, head, rd, v) \in Seq(Byte)
        BY <2>2, LineType
    <2> QED BY <2>1, <2>3, Chains
<1>5. Before["down"] \in Seq(Byte)
    <2>1. PICK b, r, c, p : /\ b = loop["server"]["down"].buf /\ r = Reply
                            /\ c = loop["client"]["down"].buf /\ p = pipe["local"]["down"]
        OBVIOUS
    <2>2. b \in Seq(Byte) /\ r \in Seq(Byte) /\ c \in Seq(Byte) /\ p \in Seq(Byte)
        BY <2>1, Parts, ReplyFacts, Names
    <2>3. Line(b, r, c, p) \in Seq(Byte)
        BY <2>2, LineType
    <2> QED BY <2>1, <2>3, Chains
<1>6. Len(got["up"]) = sent["up"] <=>
                /\ Before["up"] = << >> /\ pipe["local"]["up"] = << >>
                /\ loop["client"]["up"].buf = << >> /\ pipe["stream"]["up"] = << >>
    <2>1. PICK g, p, b, s, z : /\ g = got["up"] /\ p = pipe["local"]["up"]
                               /\ b = loop["client"]["up"].buf /\ s = pipe["stream"]["up"]
                               /\ z = Before["up"]
        OBVIOUS
    <2>2. /\ g \in Seq(Byte) /\ p \in Seq(Byte) /\ b \in Seq(Byte) /\ s \in Seq(Byte)
          /\ z \in Seq(Byte) /\ sent["up"] \in Nat
        BY <1>4, <2>1, Parts, Names
    <2>3. Len(Cat(Line(g, p, b, s), z)) = sent["up"]
        <3>1. Cat(Beyond["up"], z) = Numbers(sent["up"])
            BY <2>1, Names DEF Transparent, Cat
        <3> QED BY <1>1, <2>1, <2>2, <3>1, Chains
    <2>4. Len(Cat(Line(g, p, b, s), z)) = Len(g) + Len(p) + Len(b) + Len(s) + Len(z)
        <3>1. PICK u, v, w : u = Cat(g, p) /\ v = Cat(u, b) /\ w = Cat(v, s)
            OBVIOUS
        <3>2. u \in Seq(Byte) /\ v \in Seq(Byte) /\ w \in Seq(Byte)
            BY <1>2, <2>2, <3>1
        <3>3. /\ Len(u) = Len(g) + Len(p) /\ Len(v) = Len(u) + Len(b) /\ Len(w) = Len(v) + Len(s)
              /\ Len(Cat(w, z)) = Len(w) + Len(z)
            BY <1>2, <2>2, <3>1, <3>2
        <3> QED BY <3>1, <3>3 DEF Line
    <2>5. /\ Len(g) \in Nat /\ Len(p) \in Nat /\ Len(b) \in Nat
          /\ Len(s) \in Nat /\ Len(z) \in Nat
          /\ (Len(p) = 0 <=> p = << >>) /\ (Len(b) = 0 <=> b = << >>)
          /\ (Len(s) = 0 <=> s = << >>) /\ (Len(z) = 0 <=> z = << >>)
        BY <1>3, <2>2
    <2>6. Len(g) = sent["up"] <=> Len(p) = 0 /\ Len(b) = 0 /\ Len(s) = 0 /\ Len(z) = 0
        BY <2>3, <2>4, <2>5
    <2> QED BY <2>1, <2>5, <2>6
<1>7. Len(got["down"]) = sent["down"] <=>
            Before["down"] = << >> /\ pipe["visitor"]["down"] = << >>
    <2>1. PICK g, v, z : g = got["down"] /\ v = pipe["visitor"]["down"] /\ z = Before["down"]
        OBVIOUS
    <2>2. g \in Seq(Byte) /\ v \in Seq(Byte) /\ z \in Seq(Byte) /\ sent["down"] \in Nat
        BY <1>5, <2>1, Parts, Names
    <2>3. Len(Cat(Cat(g, v), z)) = sent["down"]
        <3>1. Cat(Beyond["down"], z) = Numbers(sent["down"])
            BY <2>1, Names DEF Transparent, Cat
        <3> QED BY <1>1, <2>1, <2>2, <3>1, Chains
    <2>4. Len(Cat(Cat(g, v), z)) = Len(g) + Len(v) + Len(z)
        <3>1. PICK u : u = Cat(g, v)
            OBVIOUS
        <3>2. u \in Seq(Byte) /\ Len(u) = Len(g) + Len(v)
            BY <1>2, <2>2, <3>1
        <3>3. Len(Cat(u, z)) = Len(u) + Len(z)
            BY <1>2, <2>2, <3>2
        <3> QED BY <3>1, <3>2, <3>3
    <2>5. /\ Len(g) \in Nat /\ Len(v) \in Nat /\ Len(z) \in Nat
          /\ (Len(v) = 0 <=> v = << >>) /\ (Len(z) = 0 <=> z = << >>)
        BY <1>3, <2>2
    <2>6. Len(g) = sent["down"] <=> Len(v) = 0 /\ Len(z) = 0
        BY <2>3, <2>4, <2>5
    <2> QED BY <2>1, <2>5, <2>6
<1> QED BY <1>6, <1>7

\* What lies before the server never comes back.
LEMMA BeforeStays ==
    ASSUME TypeOK, TypeOK', Stages, Stages', [Next]_vars, NEW d \in Dir, sent' = sent,
           Before[d] = << >>
    PROVE  Before'[d] = << >>
<1>1. CASE Kept(d)
    BY <1>1 DEF Kept
<1>2. CASE Crossed(d)
    <2>1. PICK x \in Seq(Byte) : Before[d] = Cat(x, Before'[d])
        BY <1>2 DEF Crossed
    <2>2. PICK q : q = Before'[d]
        OBVIOUS
    <2>3. q \in Seq(Byte)
        BY <2>2, Halves
    <2>4. x \o q = << >>
        BY <2>1, <2>2 DEF Cat
    <2>5. q = << >>
        BY <2>1, <2>3, <2>4, Concat
    <2> QED BY <2>2, <2>5
<1>3. CASE Sent(d)
    <2>1. sent[d] \in Nat /\ sent[d] = sent[d] + 1
        BY <1>3, Parts DEF Sent
    <2> QED BY <2>1
<1> QED BY <1>1, <1>2, <1>3, Flow

\* Nothing enters the client again in a direction that has dried up behind it.
LEMMA ClientStays ==
    ASSUME TypeOK, TypeOK', Stages, Stages', [Next]_vars, NEW d \in Dir, sent' = sent,
           pipe[Src("client", d)][d] = << >>, loop["client"][d].buf = << >>,
           d = "up" => Before["up"] = << >>
    PROVE  pipe'[Src("client", d)][d] = << >> /\ loop'["client"][d].buf = << >>
<1> USE DEF inside, bytes, handlers, ends
<1>1. /\ Src("client", d) \in Conn /\ Src("client", d) # "visitor"
      /\ Src("client", d) # "stream" \/ d = "up"
      /\ Src("client", d) # Src("server", d)
      /\ d = "down" => Dst("server", d) # Src("client", d)
    BY Route DEF Dir, Host
<1>2. CASE Same(d)
    BY <1>1, <1>2, Names DEF Same
<1>3. CASE Fill \/ ReadLine
    <2>1. loop' = loop
        BY <1>3 DEF Fill, ReadLine
    <2>2. \A c \in Conn, f \in Dir : c # "visitor" => pipe'[c][f] = pipe[c][f]
        <3>1. CASE Fill
            BY <3>1, Names DEF Fill, TypeOK
        <3>2. CASE ReadLine
            BY <3>2 DEF ReadLine
        <3> QED BY <1>3, <3>1, <3>2
    <2> QED BY <1>1, <2>1, <2>2
<1>4. ASSUME NEW f \in Dir, PeerSends(f) PROVE FALSE
    <2>1. sent'[f] = sent[f] + 1 /\ sent[f] \in Nat
        BY <1>4, PeerFacts, Parts
    <2> QED BY <2>1
<1>5. ASSUME NEW f \in Dir, PeerReads(f)
      PROVE  pipe'[Src("client", d)][d] = << >> /\ loop'["client"][d].buf = << >>
    <2>1. /\ pipe'[PeerConn(Other(f))][f] = << >>
          /\ \A e \in Conn, g \in Dir :
                e # PeerConn(Other(f)) \/ g # f => pipe'[e][g] = pipe[e][g]
        BY <1>5, PeerFacts
    <2>2. loop' = loop
        BY <1>5 DEF PeerReads
    <2> QED BY <1>1, <2>1, <2>2
<1>6. ASSUME NEW h \in Host, NEW f \in Dir, Read(h, f)
      PROVE  pipe'[Src("client", d)][d] = << >> /\ loop'["client"][d].buf = << >>
    <2>1. PICK x \in Seq(Byte) : Took(h, f, x)
        BY <1>6, ReadFacts
    <2>2. ~(h = "client" /\ f = d)
        BY <2>1 DEF Took
    <2>3. loop'["client"][d] = loop["client"][d]
        BY <2>1, <2>2, Names DEF Took
    <2>4. Src("client", d) # Src(h, f) \/ f # d
        BY <1>1, <2>2 DEF Host
    <2>5. pipe'[Src("client", d)][d] = pipe[Src("client", d)][d]
        BY <1>1, <2>1, <2>4 DEF Took
    <2> QED BY <2>3, <2>5
<1>7. ASSUME NEW h \in Host, NEW f \in Dir, Write(h, f) \/ WriteStops(h, f)
      PROVE  pipe'[Src("client", d)][d] = << >> /\ loop'["client"][d].buf = << >>
    <2>1. PICK x, y \in Seq(Byte) : Passed(h, f, x, y)
        BY <1>7, WriteFacts
    <2>2. loop[h][f].pc = "write" /\ loop[h][f].buf # << >>
        BY <2>1 DEF Passed, Stages
    <2>3. ~(h = "client" /\ f = d)
        BY <2>2
    <2>4. loop'["client"][d] = loop["client"][d]
        BY <2>1, <2>3, Names DEF Passed
    <2>5. f = d => d = "down" /\ h = "server"
        <3>1. d = "up" => loop["server"]["up"].buf = << >>
            BY Empties
        <3> QED BY <2>2, <2>3, <3>1 DEF Host, Dir
    <2>6. pipe'[Src("client", d)][d] = pipe[Src("client", d)][d]
        BY <1>1, <2>1, <2>5 DEF Passed
    <2> QED BY <2>4, <2>6
<1>8. CASE \/ ReadLineFails \/ DialLocal \/ OpenStream \/ WriteHeader \/ WritePayload \/ OpenFails
           \/ ReadFrame \/ StreamGivenUp \/ TakeVisitor
    BY <1>2, <1>8, HandlersFlow
<1>9. CASE \/ UNCHANGED vars \/ (\E f \in Dir : PeerCloses(f)) \/ (\E c \in Conn : Break(c))
           \/ \E h \in Host, f \in Dir : ReadStops(h, f) \/ closeBoth(h, f)
    BY <1>2, <1>9, QuietFlow
<1> QED BY <1>3, <1>4, <1>5, <1>6, <1>7, <1>8, <1>9 DEF Next

\* So a host that has passed on all there was stays so while nobody sends.
LEMMA DrainedStays ==
    ASSUME TypeOK, TypeOK', Stages, Stages', [Next]_vars, NEW h \in Host, NEW d \in Dir,
           sent' = sent, Drained(h, d)
    PROVE  Drained(h, d)'
<1>1. d = "up" \/ h = "server" => Before'[d] = << >>
    BY BeforeStays DEF Drained
<1>2. d = "down" \/ h = "client" => /\ pipe'[Src("client", d)][d] = << >>
                                    /\ loop'["client"][d].buf = << >>
    BY ClientStays DEF Drained
<1> QED BY <1>1, <1>2 DEF Drained

\* Once a side has closed and the other was silent, a loop that ends has a reason: all
\* there was has passed its host.
LEMMA LoopEnds ==
    ASSUME TypeOK, Stages, Transparent, Farewell, NEW d \in Dir, last = d,
           NEW h \in Host, NEW f \in Dir, ReadStops(h, f) \/ WriteStops(h, f)
    PROVE  Ended(h) \/ (ReadStops(h, f) /\ Drained(h, d))
<1>1. /\ broken = {} /\ InFlight(Other(d)) = 0
      /\ <<PeerConn(Other(d)), ReadEnd(d)>> \notin shut
      /\ \A g \in Host : Ended(g) => Drained(g, d)
    BY DEF Farewell
<1>2. /\ <<"visitor", "right">> \in shut => Ended("server")
      /\ <<"stream", "left">> \in shut => Ended("server")
      /\ <<"stream", "right">> \in shut => Ended("client")
      /\ <<"local", "left">> \in shut => Ended("client")
    BY DEF Ended, EndsOf
<1>3. /\ d = "up" => <<"local", "right">> \notin shut
      /\ d = "down" => <<"visitor", "left">> \notin shut
    BY <1>1 DEF PeerConn, Other, ReadEnd
<1>4. CASE ReadStops(h, f)
    <2>1. /\ loop[h][f].pc = "read" /\ ~Replaying(h, f)
          /\ ReadsEnd(Src(h, f), f)
        BY <1>4 DEF ReadStops, EndSeen
    <2>2. loop[h][f].buf = << >>
        BY <2>1 DEF Stages
    <2>3. \/ <<Src(h, f), ReadEnd(f)>> \in shut
          \/ <<Src(h, f), WriteEnd(f)>> \in shut /\ pipe[Src(h, f)][f] = << >>
        BY <1>1, <2>1 DEF ReadsEnd
    <2>4. CASE h = "server" /\ f = "up"
        <3>1. \/ <<"visitor", "right">> \in shut
              \/ <<"visitor", "left">> \in shut /\ pipe["visitor"]["up"] = << >>
            BY <2>3, <2>4, Route DEF ReadEnd, WriteEnd
        <3>2. head = << >> /\ rd = << >>
            <4>1. head \in Seq(Byte) /\ rd \in Seq(Byte) /\ head \o rd = << >>
                BY <2>1, <2>4 DEF TypeOK, Replaying
            <4> QED BY <4>1, Concat
        <3>3. d = "up" /\ pipe["visitor"]["up"] = << >> => Drained("server", "up")
            BY <2>2, <2>4, <3>2, Empties DEF Drained
        <3> QED BY <1>2, <1>3, <1>4, <2>4, <3>1, <3>3 DEF Dir
    <2>5. CASE h = "server" /\ f = "down"
        <3>1. \/ <<"stream", "left">> \in shut
              \/ <<"stream", "right">> \in shut /\ pipe["stream"]["down"] = << >>
            BY <2>3, <2>5, Route DEF ReadEnd, WriteEnd
        <3>2. stream = "join" /\ Reply = pipe["stream"]["down"]
            BY <2>1, <2>5, ReplyFacts, Names DEF Stages
        <3>3. ASSUME Ended("client"), pipe["stream"]["down"] = << >> PROVE Drained("server", d)
            <4>1. Drained("client", d)
                BY <1>1, <3>3, Names
            <4>2. CASE d = "up"
                BY <4>1, <4>2 DEF Drained
            <4>3. CASE d = "down"
                <5>1. pipe["local"]["down"] = << >> /\ loop["client"]["down"].buf = << >>
                    BY <4>1, <4>3, Route DEF Drained
                <5>2. Before["down"] = << >>
                    BY <2>2, <2>5, <3>2, <3>3, <5>1, Empties
                <5> QED BY <4>1, <4>3, <5>2 DEF Drained
            <4> QED BY <4>2, <4>3 DEF Dir
        <3> QED BY <1>2, <1>4, <2>5, <3>1, <3>3
    <2>6. CASE h = "client" /\ f = "up"
        <3>1. \/ <<"stream", "right">> \in shut
              \/ <<"stream", "left">> \in shut /\ pipe["stream"]["up"] = << >>
            BY <2>3, <2>6, Route DEF ReadEnd, WriteEnd
        <3>2. ASSUME Ended("server"), pipe["stream"]["up"] = << >> PROVE Drained("client", d)
            <4>1. Drained("server", d)
                BY <1>1, <3>2, Names
            <4>2. CASE d = "up"
                BY <2>2, <2>6, <3>2, <4>1, <4>2, Route DEF Drained
            <4>3. CASE d = "down"
                BY <4>1, <4>3 DEF Drained
            <4> QED BY <4>2, <4>3 DEF Dir
        <3> QED BY <1>2, <1>4, <2>6, <3>1, <3>2
    <2>7. CASE h = "client" /\ f = "down"
        <3>1. \/ <<"local", "left">> \in shut
              \/ <<"local", "right">> \in shut /\ pipe["local"]["down"] = << >>
            BY <2>3, <2>7, Route DEF ReadEnd, WriteEnd
        <3>2. d = "down" /\ pipe["local"]["down"] = << >> => Drained("client", "down")
            BY <2>2, <2>7, Route DEF Drained
        <3> QED BY <1>2, <1>3, <1>4, <2>7, <3>1, <3>2 DEF Dir
    <2> QED BY <2>4, <2>5, <2>6, <2>7 DEF Host, Dir
<1>5. CASE WriteStops(h, f)
    <2>1. loop[h][f].buf # << >>
        BY <1>5 DEF WriteStops, Stages
    <2>2. <<Dst(h, f), "left">> \in shut \/ <<Dst(h, f), "right">> \in shut
        BY <1>1, <1>5 DEF WriteStops, WriteMayFail
    <2>3. f = d
        <3>1. Len(got[Other(d)]) = sent[Other(d)]
            <4>1. Other(d) \in Dir
                BY DEF Other, Dir
            <4>2. got[Other(d)] \in Seq(Byte) /\ sent[Other(d)] \in Nat
                BY <4>1, Parts
            <4>3. Len(got[Other(d)]) \in Nat /\ sent[Other(d)] - Len(got[Other(d)]) = 0
                BY <1>1, <4>2 DEF InFlight
            <4> QED BY <4>2, <4>3
        <3>2. CASE d = "up" /\ f = "down"
            <4>1. Before["down"] = << >>
                BY <3>1, <3>2, AllReceived DEF Other
            <4> QED BY <2>1, <3>2, <4>1, Empties DEF Host
        <3>3. CASE d = "down" /\ f = "up"
            <4>1. Before["up"] = << >> /\ loop["client"]["up"].buf = << >>
                BY <3>1, <3>3, AllReceived DEF Other
            <4> QED BY <2>1, <3>3, <4>1, Empties DEF Host
        <3> QED BY <3>2, <3>3 DEF Dir
    <2>4. CASE h = "server" /\ f = "up"
        <3>1. Drained("client", "up") => loop["server"]["up"].buf = << >>
            BY Empties DEF Drained
        <3> QED BY <1>1, <1>2, <2>1, <2>2, <2>3, <2>4, <3>1, Route, Names
    <2>5. CASE h = "server" /\ f = "down"
        BY <1>2, <1>3, <2>2, <2>3, <2>5, Route
    <2>6. CASE h = "client" /\ f = "up"
        BY <1>2, <1>3, <2>2, <2>3, <2>6, Route
    <2>7. CASE h = "client" /\ f = "down"
        <3>1. Drained("server", "down") => loop["client"]["down"].buf = << >>
            BY DEF Drained
        <3> QED BY <1>1, <1>2, <2>1, <2>2, <2>3, <2>7, <3>1, Route, Names
    <2> QED BY <2>4, <2>5, <2>6, <2>7 DEF Host, Dir
<1> QED BY <1>4, <1>5

\* A step after which no host has ended but those that had, or that have nothing left
\* to pass on.
LEMMA FarewellKept ==
    ASSUME TypeOK, TypeOK', Stages, Stages', Farewell, [Next]_vars,
           sent' = sent, last' = last, broken' = broken,
           \A d \in Dir : last = d => got'[Other(d)] = got[Other(d)],
           shut' \subseteq shut \union EndsOf("server") \union EndsOf("client"),
           last = "none" => shut' = {},
           \A h \in Host : Ended(h)' => Ended(h) \/ \E d \in Dir : last = d /\ Drained(h, d)
    PROVE  Farewell'
<1>1. ASSUME last' = "none"
      PROVE  shut' = {} /\ broken' = {} /\ \A h \in Host : ~Ended(h)'
    BY <1>1 DEF Farewell, Dir
<1>2. ASSUME NEW d \in Dir, last' = d
      PROVE  /\ broken' = {} /\ InFlight(Other(d))' = 0
             /\ <<PeerConn(Other(d)), ReadEnd(d)>> \notin shut'
             /\ \A h \in Host : Ended(h)' => Drained(h, d)'
    <2>1. /\ broken = {} /\ InFlight(Other(d)) = 0
          /\ <<PeerConn(Other(d)), ReadEnd(d)>> \notin shut
          /\ \A h \in Host : Ended(h) => Drained(h, d)
        BY <1>2 DEF Farewell
    <2>2. InFlight(Other(d))' = 0
        <3>1. got'[Other(d)] = got[Other(d)]
            BY <1>2
        <3> QED BY <2>1, <3>1 DEF InFlight
    <2>3. <<PeerConn(Other(d)), ReadEnd(d)>> \notin shut'
        <3>1. <<PeerConn(Other(d)), ReadEnd(d)>> \notin EndsOf("server") \union EndsOf("client")
            BY DEF PeerConn, Other, ReadEnd, EndsOf, Dir
        <3> QED BY <2>1, <3>1
    <2>4. ASSUME NEW h \in Host, Ended(h)' PROVE Drained(h, d)'
        <3>1. Drained(h, d)
            BY <1>2, <2>1, <2>4
        <3> QED BY <3>1, DrainedStays
    <2> QED BY <2>1, <2>2, <2>3, <2>4
<1> QED BY <1>1, <1>2 DEF Farewell

LEMMA FarewellInit == Init => Farewell
<1> SUFFICES ASSUME Init PROVE Farewell
    OBVIOUS
<1>1. shut = {} /\ broken = {} /\ last = "none"
    BY DEF Init
<1>2. \A h \in Host, d \in Dir : loop[h][d].pc = "off"
    BY DEF Init
<1>3. \A h \in Host : ~Ended(h)
    BY <1>1, <1>2 DEF Ended
<1> QED BY <1>1, <1>3 DEF Farewell, Dir

LEMMA FarewellStep ==
    ASSUME TypeOK, TypeOK', Stages, Stages', Transparent, Farewell, [Next]_vars
    PROVE  Farewell'
<1> USE DEF inside, bytes, handlers, ends
<1>1. last = "none" => shut = {} /\ broken = {} /\ \A h \in Host : ~Ended(h)
    BY DEF Farewell
<1>2. ASSUME last' = "void" PROVE Farewell'
    BY <1>2 DEF Farewell, Dir
<1>3. ASSUME UNCHANGED <<shut, broken, last, sent>>,
             \A d \in Dir : last = d => got'[Other(d)] = got[Other(d)],
             \A h \in Host, f \in Dir :
                loop'[h][f].pc \in {"close", "done"} => loop[h][f].pc \in {"close", "done"}
      PROVE  Farewell'
    <2>1. \A h \in Host : Ended(h)' => Ended(h)
        BY <1>3 DEF Ended
    <2> QED BY <1>1, <1>3, <2>1, FarewellKept
<1>4. CASE Fill \/ DialLocal \/ OpenStream \/ WriteHeader \/ ReadFrame \/ UNCHANGED vars
    <2>1. UNCHANGED <<shut, broken, last, sent, got, loop>>
        BY <1>4 DEF Fill, DialLocal, OpenStream, WriteHeader, ReadFrame, vars
    <2> QED BY <1>3, <2>1
<1>5. CASE ReadLine
    <2>1. UNCHANGED <<broken, sent, got, loop>> /\ (last' = "void" \/ UNCHANGED <<shut, last>>)
        BY <1>5 DEF ReadLine, Refuse
    <2> QED BY <1>2, <1>3, <2>1
<1>6. CASE ReadLineFails \/ OpenFails \/ StreamGivenUp \/ \E c \in Conn : Break(c)
    <2>1. last' = "void"
        BY <1>6 DEF ReadLineFails, Refuse, OpenFails, StreamGivenUp, Break
    <2> QED BY <1>2, <2>1
<1>7. CASE WritePayload \/ TakeVisitor
    <2>1. UNCHANGED <<shut, broken, last, sent, got>> /\ (Start("client") \/ Start("server"))
        BY <1>7 DEF WritePayload, TakeVisitor
    <2>2. ASSUME NEW h \in Host, NEW f \in Dir, loop'[h][f].pc \in {"close", "done"}
          PROVE  loop[h][f].pc \in {"close", "done"}
        BY <2>1, <2>2, Started, Names
    <2> QED BY <1>3, <2>1, <2>2
<1>8. ASSUME NEW f \in Dir, PeerSends(f) PROVE Farewell'
    <2>1. /\ UNCHANGED <<shut, broken, loop>>
          /\ last' = "void" \/ (last = "none" /\ last' = "none")
        BY <1>8 DEF PeerSends
    <2>2. CASE last = "none" /\ last' = "none"
        <3>1. \A h \in Host : ~Ended(h)'
            BY <1>1, <2>1, <2>2 DEF Ended
        <3> QED BY <1>1, <2>1, <2>2, <3>1 DEF Farewell, Dir
    <2> QED BY <1>2, <2>1, <2>2
<1>9. ASSUME NEW f \in Dir, PeerReads(f) PROVE Farewell'
    <2>1. UNCHANGED <<shut, broken, last, sent, loop>> /\ pipe[PeerConn(Other(f))][f] # << >>
        BY <1>9 DEF PeerReads, Readable
    <2>2. ASSUME NEW d \in Dir, last = d PROVE got'[Other(d)] = got[Other(d)]
        <3>1. Other(d) \in Dir
            BY DEF Other, Dir
        <3>2. f # Other(d)
            <4>1. Len(got[Other(d)]) = sent[Other(d)]
                <5>1. got[Other(d)] \in Seq(Byte) /\ sent[Other(d)] \in Nat
                    BY <3>1, Parts
                <5>2. InFlight(Other(d)) = 0
                    BY <2>2 DEF Farewell
                <5>3. Len(got[Other(d)]) \in Nat /\ sent[Other(d)] - Len(got[Other(d)]) = 0
                    BY <5>1, <5>2 DEF InFlight
                <5> QED BY <5>1, <5>3
            <4>2. Other(d) = "up" => pipe["local"]["up"] = << >>
                BY <4>1, AllReceived
            <4>3. Other(d) = "down" => pipe["visitor"]["down"] = << >>
                BY <4>1, AllReceived
            <4> QED BY <2>1, <3>1, <4>2, <4>3 DEF PeerConn, Other, Dir
        <3> QED BY <1>9, <3>1, <3>2, PeerFacts
    <2> QED BY <1>3, <2>1, <2>2
<1>10. ASSUME NEW f \in Dir, PeerCloses(f) PROVE Farewell'
    <2>1. CASE last = "none" /\ InFlight(Other(f)) = 0
        <3>1. /\ last' = f /\ shut' = {<<PeerConn(f), WriteEnd(f)>>} /\ broken' = {}
              /\ UNCHANGED <<sent, got, loop>>
            BY <1>1, <1>10, <2>1 DEF PeerCloses
        <3>2. InFlight(Other(f))' = 0
            BY <2>1, <3>1 DEF InFlight
        <3>3. <<PeerConn(Other(f)), ReadEnd(f)>> \notin shut'
            BY <3>1 DEF PeerConn, Other, Dir
        <3>4. \A h \in Host : ~Ended(h)'
            <4>1. \A h \in Host : <<PeerConn(f), WriteEnd(f)>> \notin EndsOf(h)
                BY DEF EndsOf, PeerConn, WriteEnd, Dir, Host
            <4>2. \A h \in Host, d \in Dir : loop[h][d].pc \notin {"close", "done"}
                BY <1>1, <2>1 DEF Ended
            <4> QED BY <3>1, <4>1, <4>2 DEF Ended
        <3> QED BY <3>1, <3>2, <3>3, <3>4 DEF Farewell, Dir
    <2>2. CASE ~(last = "none" /\ InFlight(Other(f)) = 0)
        BY <1>2, <1>10, <2>2 DEF PeerCloses
    <2> QED BY <2>1, <2>2
<1>11. ASSUME NEW h \in Host, NEW f \in Dir, Read(h, f) \/ Write(h, f) PROVE Farewell'
    <2>1. UNCHANGED <<shut, broken, last, sent, got>>
        BY <1>11 DEF Read, Write
    <2>2. /\ loop'[h][f].pc \in {"read", "write"}
          /\ \A e \in Host, g \in Dir : e # h \/ g # f => loop'[e][g] = loop[e][g]
        <3>1. CASE Read(h, f)
            <4>1. PICK x \in Seq(Byte) : Took(h, f, x)
                BY <3>1, ReadFacts
            <4> QED BY <4>1 DEF Took
        <3>2. CASE Write(h, f)
            <4>1. loop \in [Host -> [Dir -> LoopType]]
                BY DEF TypeOK
            <4> QED BY <3>2, <4>1 DEF Write
        <3> QED BY <1>11, <3>1, <3>2
    <2> QED BY <1>3, <2>1, <2>2
<1>12. ASSUME NEW h \in Host, NEW f \in Dir, ReadStops(h, f) \/ WriteStops(h, f) PROVE Farewell'
    <2>1. UNCHANGED <<shut, broken, last, sent, got>>
        BY <1>12 DEF ReadStops, WriteStops
    <2>2. \A e \in Host, g \in Dir : e # h \/ g # f => loop'[e][g] = loop[e][g]
        <3>1. CASE ReadStops(h, f)
            BY <3>1, Moved
        <3>2. CASE WriteStops(h, f)
            <4>1. PICK x, y \in Seq(Byte) : Passed(h, f, x, y)
                BY <3>2, WriteFacts
            <4> QED BY <4>1 DEF Passed
        <3> QED BY <1>12, <3>1, <3>2
    <2>3. last # "none"
        <3>1. ASSUME shut = {}, broken = {} PROVE FALSE
            BY <1>12, <3>1 DEF ReadStops, EndSeen, ReadsEnd, WriteStops, WriteMayFail
        <3> QED BY <1>1, <3>1
    <2>4. ASSUME NEW d \in Dir, last = d, NEW e \in Host, Ended(e)'
          PROVE  Ended(e) \/ Drained(e, d)
        <3>1. CASE e # h
            BY <2>1, <2>2, <2>4, <3>1 DEF Ended
        <3>2. CASE e = h
            BY <1>12, <2>4, <3>2, LoopEnds
        <3> QED BY <3>1, <3>2
    <2>5. CASE \E d \in Dir : last = d
        BY <2>1, <2>3, <2>4, <2>5, FarewellKept
    <2>6. CASE last = "void"
        BY <1>2, <2>1, <2>6
    <2>7. last \in {"none", "up", "down", "void"}
        BY DEF TypeOK
    <2> QED BY <2>3, <2>5, <2>6, <2>7 DEF Dir
<1>13. ASSUME NEW h \in Host, NEW f \in Dir, closeBoth(h, f) PROVE Farewell'
    <2>1. UNCHANGED <<broken, last, sent, got>> /\ shut' = shut \union EndsOf(h)
          /\ loop[h][f].pc = "close"
        BY <1>13 DEF closeBoth, Closes
    <2>2. Ended(h) /\ last # "none"
        BY <1>1, <2>1 DEF Ended
    <2>3. ASSUME NEW e \in Host, Ended(e)' PROVE Ended(e)
        <3>1. CASE e = h
            BY <2>2, <3>1
        <3>2. CASE e # h
            <4>1. EndsOf(e) \intersect EndsOf(h) = {}
                BY <3>2 DEF EndsOf, Host
            <4>2. \A g \in Dir : loop'[e][g] = loop[e][g]
                BY <1>13, <3>2, Moved
            <4> QED BY <2>1, <2>3, <4>1, <4>2 DEF Ended
        <3> QED BY <3>1, <3>2
    <2>4. shut' \subseteq shut \union EndsOf("server") \union EndsOf("client")
        BY <2>1 DEF Host
    <2> QED BY <2>1, <2>2, <2>3, <2>4, FarewellKept
<1> QED BY <1>4, <1>5, <1>6, <1>7, <1>8, <1>9, <1>10, <1>11, <1>12, <1>13 DEF Next

\* A receiver sees the end only after the last byte.
LEMMA EndComesLast ==
    ASSUME TypeOK, Stages, Transparent, Farewell
    PROVE  LastWord
<1> SUFFICES ASSUME NEW d \in Dir, last = d, ReadsEnd(PeerConn(Other(d)), d)
             PROVE  Len(got[d]) = sent[d]
    BY DEF LastWord
<1>1. /\ broken = {} /\ <<PeerConn(Other(d)), ReadEnd(d)>> \notin shut
      /\ \A h \in Host : Ended(h) => Drained(h, d)
    BY DEF Farewell
<1>2. /\ <<PeerConn(Other(d)), WriteEnd(d)>> \in shut
      /\ pipe[PeerConn(Other(d))][d] = << >>
    BY <1>1 DEF ReadsEnd
<1>3. CASE d = "up"
    <2>1. <<"local", "left">> \in shut /\ pipe["local"]["up"] = << >>
        BY <1>2, <1>3 DEF PeerConn, Other, WriteEnd
    <2>2. Drained("client", "up")
        BY <1>1, <1>3, <2>1 DEF Ended, EndsOf, Host
    <2> QED BY <1>3, <2>1, <2>2, AllReceived, Route DEF Drained
<1>4. CASE d = "down"
    <2>1. <<"visitor", "right">> \in shut /\ pipe["visitor"]["down"] = << >>
        BY <1>2, <1>4 DEF PeerConn, Other, WriteEnd
    <2>2. Drained("server", "down")
        BY <1>1, <1>4, <2>1 DEF Ended, EndsOf, Host
    <2> QED BY <1>4, <2>1, <2>2, AllReceived DEF Drained
<1> QED BY <1>3, <1>4 DEF Dir

-----------------------------------------------------------------------------
(* Theorems *)

\* The strengthened invariant holds of every visit, whatever its length and whatever
\* fails (vhost.go:30-85, client.go:342-374, session.go:214-262, mux.go:24-58).
THEOREM Invariance == Spec => []IInv
<1>1. Init => IInv
    BY TypeInit, StagesInit, FlowInit, FarewellInit DEF IInv
<1>2. ASSUME IInv, [Next]_vars PROVE IInv'
    <2>1. TypeOK /\ Stages /\ Transparent /\ CountsExact /\ Farewell
        BY <1>2 DEF IInv
    <2>2. TypeOK'
        BY <1>2, <2>1, TypeStep
    <2>3. Stages'
        BY <1>2, <2>1, <2>2, StagesStep
    <2>4. Transparent' /\ CountsExact'
        BY <1>2, <2>1, <2>2, <2>3, FlowStep
    <2>5. Farewell'
        BY <1>2, <2>1, <2>2, <2>3, FarewellStep
    <2> QED BY <2>2, <2>3, <2>4, <2>5 DEF IInv
<1> QED BY <1>1, <1>2, PTL DEF Spec

\* Every variable keeps its type: the head stays within its limit and one line, a loop
\* holds at most a chunk, the frame is never read beyond its end (vhost.go:57,
\* mux.go:29, proto.go:119-135).
THEOREM Types == Spec => []TypeOK
<1>1. IInv => TypeOK
    BY DEF IInv
<1> QED BY <1>1, Invariance, PTL

\* vhost.go:12 "loses no byte": for a request and a reply of any length and buffers of
\* any size, what arrives is what was sent, in order and once, and the rest is on its
\* way; no byte of the StreamMeta frame gets into the reply (vhost.go:19-26,
\* mux.go:28-45, proto.go:103-134).
THEOREM NoByteLost == Spec => []Transparent
<1>1. IInv => Transparent
    BY DEF IInv
<1> QED BY <1>1, Invariance, PTL

\* The session's traffic counters equal the bytes that left the server, whichever
\* writes fail half-way (mux.go:34, session.go:256).
THEOREM CountersAreExact == Spec => []CountsExact
<1>1. IInv => CountsExact
    BY DEF IInv
<1> QED BY <1>1, Invariance, PTL

\* Whoever closes while the other side is silent has the last word: closing both
\* connections of a host, in both hosts, cuts nothing off (mux.go:37-43).
THEOREM LastWordIsHeard == Spec => []LastWord
<1>1. IInv => LastWord
    BY EndComesLast DEF IInv
<1> QED BY <1>1, Invariance, PTL
=============================================================================
