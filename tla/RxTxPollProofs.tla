---------------------------- MODULE RxTxPollProofs ----------------------------
(* Theorems about RxTxPoll, for any greetings, any traffic, any size of    *)
(* the buffer, any number of faults and of recvs that return a part,       *)
(* proved with TLAPS.                                                      *)
EXTENDS RxTxPoll, SequenceTheorems, FiniteSetTheorems, WellFoundedInduction, TLAPS

(* What the server sends of itself, and what a buffer or a log may hold.   *)
Protocol == ReplyBytes \cup Verbs \cup Options \cup {IAC} \cup Range(Prompt)
AnyByte == Protocol \cup Range(Traffic) \cup {NUL, "?"}

Clean(s) == \A j \in 1 .. Len(s) : s[j] \in Protocol
NoEcho(s) == \A j \in 1 .. Len(s) : s[j] # "show"

Passed == SubSeq(Traffic, since + 1, events)

(* The programs.                                                           *)
ProgramOK ==
  /\ prog \in {"get_rxtx", "monitor"}
  /\ at \in {"start", "read", "verb", "sleep"}
  /\ at = "sleep" => prog = "get_rxtx"
  /\ buf \in Seq(AnyByte) /\ Len(buf) = BufLen
  /\ now \in {"0", "1"}
  /\ events \in 0 .. Len(Traffic) /\ since \in 0 .. events
  /\ net \in Seq(AnyByte) /\ log \in Seq(AnyByte)
  /\ status \in [{"ECHO", "SGA"} -> {"none", "reply", "ack"}]

(* A connection asks nothing before both options have been answered, and   *)
(* has at most one question under way.                                     *)
AskedOnce ==
  at # "start" =>
    /\ asked \in 0 .. 1
    /\ ~Agreed => asked = 0 /\ at # "sleep"
    /\ at = "verb" => ~Agreed
    /\ at = "sleep" => asked = 0

(* Where the echo of a command stands in a stream, with all that follows.  *)
EchoIn(s, n, j) ==
  /\ Len(s) = j + 10
  /\ s[j + 1] = "rxtx" /\ s[j + 2] = "\r" /\ s[j + 3] = "\n"
  /\ s[j + 4] = "rx" /\ s[j + 5] = n /\ s[j + 6] = "\r" /\ s[j + 7] = "\n"
  /\ s[j + 8] = "-" /\ s[j + 9] = ">" /\ s[j + 10] = "blank"

(* serial_get_rxtx: the stream holds the echo of one command at most, none *)
(* while one is asked or none may be, and behind it is the whole answer.   *)
OneReply ==
  prog = "get_rxtx" /\ at # "start" =>
    /\ Clean(net)
    /\ asked = 1 \/ at = "sleep" \/ ~Agreed => NoEcho(net)
    /\ \A j \in 1 .. Len(net) : net[j] = "show" => EchoIn(net, now, j)

(* serial_monitor: what is logged and what is under way is what the server *)
(* has sent of itself, and then all that has passed.                       *)
LogFollows ==
  prog = "monitor" /\ at # "start" =>
    /\ asked = 1 \/ ~Agreed => events = since
    /\ ~Agreed => Clean(net) /\ log = <<>>
    /\ \E front \in Seq(AnyByte) : Clean(front) /\ log \o net = front \o Passed

Inv == ProgramOK /\ AskedOnce /\ OneReply /\ LogFollows
-----------------------------------------------------------------------------
(* Lemmas about the bytes.                                                 *)

(* What is told apart in a stream.                                         *)
LEMMA ByteSets ==
  /\ Range(Prompt) = {"-", ">", "blank"}
  /\ Protocol \subseteq AnyByte /\ NUL \in AnyByte /\ NUL \notin Protocol
  /\ \A k \in 1 .. Len(Traffic) : Traffic[k] \in AnyByte /\ Traffic[k] \notin Protocol
  /\ Traffic \in Seq(AnyByte) /\ Len(Traffic) \in Nat /\ DOMAIN Traffic = 1 .. Len(Traffic)
  <1>1. Range(Prompt) = {"-", ">", "blank"}
    <2>1. Prompt \in Seq({"-", ">", "blank"}) /\ Len(Prompt) = 3
          /\ Prompt[1] = "-" /\ Prompt[2] = ">" /\ Prompt[3] = "blank"
      BY DEF Prompt
    <2>2. DOMAIN Prompt = 1 .. 3
      BY <2>1, LenProperties
    <2>3. \A x : x \in Range(Prompt) <=> \E j \in 1 .. 3 : x = Prompt[j]
      BY <2>2 DEF Range
    <2>4. \A j \in 1 .. 3 : j = 1 \/ j = 2 \/ j = 3
      OBVIOUS
    <2> QED
      BY <2>1, <2>3, <2>4
  <1>2. Protocol \subseteq AnyByte /\ NUL \in AnyByte
    BY DEF AnyByte
  <1>3. NUL \notin Protocol
    BY <1>1 DEF Protocol, NUL, IAC, ReplyBytes, Verbs, Options
  <1>4. Traffic \in Seq(Range(Traffic)) /\ Range(Traffic) \cap Protocol = {}
    BY TrafficAssumption DEF Protocol
  <1>5. Len(Traffic) \in Nat /\ DOMAIN Traffic = 1 .. Len(Traffic)
    BY <1>4, LenProperties
  <1>6. \A k \in 1 .. Len(Traffic) : Traffic[k] \in AnyByte /\ Traffic[k] \notin Protocol
    BY <1>4, ElementOfSeq DEF AnyByte
  <1>7. Traffic \in Seq(AnyByte)
    <2>1. Range(Traffic) \subseteq AnyByte
      BY DEF AnyByte
    <2> QED
      BY <1>4, <2>1, SeqMonotonic
  <1> QED
    BY <1>1, <1>2, <1>3, <1>5, <1>6, <1>7

(* The prompt, and an answer, byte by byte.                                *)
LEMMA PromptIs ==
  /\ Prompt \in Seq(AnyByte) /\ Len(Prompt) = 3
  /\ Prompt[1] = "-" /\ Prompt[2] = ">" /\ Prompt[3] = "blank"
  <1>1. {"-", ">", "blank"} \subseteq AnyByte
    BY ByteSets DEF AnyByte, Protocol
  <1> QED
    BY <1>1 DEF Prompt

(* A concatenation, byte by byte.                                          *)
LEMMA Joined ==
  ASSUME NEW s \in Seq(AnyByte), NEW t \in Seq(AnyByte), NEW u, u = s \o t
  PROVE  /\ u \in Seq(AnyByte) /\ Len(u) = Len(s) + Len(t)
         /\ \A i \in 1 .. Len(s) + Len(t) : u[i] = IF i <= Len(s) THEN s[i] ELSE t[i - Len(s)]
  <1>1. /\ s \o t \in Seq(AnyByte) /\ Len(s \o t) = Len(s) + Len(t)
        /\ \A i \in 1 .. Len(s) + Len(t) :
             (s \o t)[i] = IF i <= Len(s) THEN s[i] ELSE t[i - Len(s)]
    BY ConcatProperties, Zenon
  <1> QED
    BY <1>1, Zenon

Pairs(a, b, c) == ((a \o b) \o c) \o b

(* Four pairs, byte by byte.                                               *)
LEMMA FourPairs ==
  ASSUME NEW a \in Seq(AnyByte), NEW b \in Seq(AnyByte), NEW c \in Seq(AnyByte),
         Len(a) = 2, Len(b) = 2, Len(c) = 2
  PROVE  /\ Pairs(a, b, c) \in Seq(AnyByte) /\ Len(Pairs(a, b, c)) = 8
         /\ Pairs(a, b, c)[1] = a[1] /\ Pairs(a, b, c)[2] = a[2]
         /\ Pairs(a, b, c)[3] = b[1] /\ Pairs(a, b, c)[4] = b[2]
         /\ Pairs(a, b, c)[5] = c[1] /\ Pairs(a, b, c)[6] = c[2]
         /\ Pairs(a, b, c)[7] = b[1] /\ Pairs(a, b, c)[8] = b[2]
  <1> DEFINE d == a \o b
  <1> DEFINE e == d \o c
  <1> DEFINE f == e \o b
  <1>1. /\ d \in Seq(AnyByte) /\ Len(d) = 4
        /\ \A i \in 1 .. 4 : d[i] = IF i <= 2 THEN a[i] ELSE b[i - 2]
    <2>1. a \in Seq(AnyByte) /\ Len(a) = 2
      BY Zenon
    <2>2. PICK u : u = a \o b
      OBVIOUS
    <2>3. /\ u \in Seq(AnyByte) /\ Len(u) = Len(a) + Len(b)
          /\ \A i \in 1 .. Len(a) + Len(b) :
               u[i] = IF i <= Len(a) THEN a[i] ELSE b[i - Len(a)]
      BY <2>1, <2>2, Joined, Zenon
    <2>4. /\ u \in Seq(AnyByte) /\ Len(u) = 4
          /\ \A i \in 1 .. 4 : u[i] = IF i <= 2 THEN a[i] ELSE b[i - 2]
      BY <2>1, <2>3
    <2> QED
      BY <2>2, <2>4, Zenon
  <1>2. /\ e \in Seq(AnyByte) /\ Len(e) = 6
        /\ \A i \in 1 .. 6 : e[i] = IF i <= 4 THEN d[i] ELSE c[i - 4]
    <2>1. d \in Seq(AnyByte) /\ Len(d) = 4
      BY <1>1, Zenon
    <2> HIDE DEF d
    <2>2. PICK u : u = d \o c
      OBVIOUS
    <2>3. /\ u \in Seq(AnyByte) /\ Len(u) = Len(d) + Len(c)
          /\ \A i \in 1 .. Len(d) + Len(c) :
               u[i] = IF i <= Len(d) THEN d[i] ELSE c[i - Len(d)]
      BY <2>1, <2>2, Joined, Zenon
    <2>4. /\ u \in Seq(AnyByte) /\ Len(u) = 6
          /\ \A i \in 1 .. 6 : u[i] = IF i <= 4 THEN d[i] ELSE c[i - 4]
      BY <2>1, <2>3
    <2> QED
      BY <2>2, <2>4, Zenon
  <1>3. /\ f \in Seq(AnyByte) /\ Len(f) = 8
        /\ \A i \in 1 .. 8 : f[i] = IF i <= 6 THEN e[i] ELSE b[i - 6]
    <2>1. e \in Seq(AnyByte) /\ Len(e) = 6
      BY <1>2, Zenon
    <2> HIDE DEF d, e
    <2>2. PICK u : u = e \o b
      OBVIOUS
    <2>3. /\ u \in Seq(AnyByte) /\ Len(u) = Len(e) + Len(b)
          /\ \A i \in 1 .. Len(e) + Len(b) :
               u[i] = IF i <= Len(e) THEN e[i] ELSE b[i - Len(e)]
      BY <2>1, <2>2, Joined, Zenon
    <2>4. /\ u \in Seq(AnyByte) /\ Len(u) = 8
          /\ \A i \in 1 .. 8 : u[i] = IF i <= 6 THEN e[i] ELSE b[i - 6]
      BY <2>1, <2>3
    <2> QED
      BY <2>2, <2>4, Zenon
  <1> HIDE DEF d, e, f
  <1>4. \A i \in 1 .. 8 : i \in {1, 2, 3, 4, 5, 6, 7, 8}
    OBVIOUS
  <1>5. f[1] = e[1] /\ f[2] = e[2] /\ f[3] = e[3] /\ f[4] = e[4] /\ f[5] = e[5] /\ f[6] = e[6]
        /\ f[7] = b[1] /\ f[8] = b[2]
    BY <1>3
  <1>6. e[1] = d[1] /\ e[2] = d[2] /\ e[3] = d[3] /\ e[4] = d[4] /\ e[5] = c[1] /\ e[6] = c[2]
    BY <1>2
  <1>7. d[1] = a[1] /\ d[2] = a[2] /\ d[3] = b[1] /\ d[4] = b[2]
    BY <1>1
  <1>8. f = Pairs(a, b, c)
    BY Zenon DEF d, e, f, Pairs
  <1>9. /\ f \in Seq(AnyByte) /\ Len(f) = 8
        /\ f[1] = a[1] /\ f[2] = a[2] /\ f[3] = b[1] /\ f[4] = b[2]
        /\ f[5] = c[1] /\ f[6] = c[2] /\ f[7] = b[1] /\ f[8] = b[2]
    BY <1>3, <1>5, <1>6, <1>7, Zenon
  <1> QED
    BY <1>8, <1>9, Zenon

(* The bytes of an answer.                                                 *)
LEMMA ReplyIs ==
  ASSUME NEW n \in {"0", "1"}
  PROVE  /\ Reply(n) \in Seq(AnyByte) /\ Len(Reply(n)) = 8
         /\ Reply(n)[1] = "show" /\ Reply(n)[2] = "rxtx" /\ Reply(n)[3] = "\r"
         /\ Reply(n)[4] = "\n" /\ Reply(n)[5] = "rx" /\ Reply(n)[6] = n
         /\ Reply(n)[7] = "\r" /\ Reply(n)[8] = "\n"
  <1>1. ReplyBytes \subseteq AnyByte
    BY DEF AnyByte, Protocol
  <1>2. {"show", "rxtx", "\r", "\n", "rx", "0", "1"} \subseteq AnyByte
    BY <1>1 DEF ReplyBytes
  <1>3. /\ Command \in Seq(AnyByte) /\ CRLF \in Seq(AnyByte) /\ Counters(n) \in Seq(AnyByte)
        /\ Len(Command) = 2 /\ Len(CRLF) = 2 /\ Len(Counters(n)) = 2
        /\ Command[1] = "show" /\ Command[2] = "rxtx" /\ CRLF[1] = "\r" /\ CRLF[2] = "\n"
        /\ Counters(n)[1] = "rx" /\ Counters(n)[2] = n
    BY <1>2 DEF Command, CRLF, Counters
  <1>4. Reply(n) = Pairs(Command, CRLF, Counters(n))
    BY DEF Reply, Pairs
  <1>5. PICK a \in Seq(AnyByte), b \in Seq(AnyByte), c \in Seq(AnyByte) :
          a = Command /\ b = CRLF /\ c = Counters(n)
    BY <1>3
  <1>6. PICK f : f = Pairs(a, b, c)
    OBVIOUS
  <1>7. Len(a) = 2 /\ Len(b) = 2 /\ Len(c) = 2
    BY <1>3, <1>5
  <1>8. f \in Seq(AnyByte) /\ Len(f) = 8
    BY <1>6, <1>7, FourPairs
  <1>9. /\ f[1] = a[1] /\ f[2] = a[2] /\ f[3] = b[1] /\ f[4] = b[2]
        /\ f[5] = c[1] /\ f[6] = c[2] /\ f[7] = b[1] /\ f[8] = b[2]
    BY <1>6, <1>7, FourPairs
  <1>10. /\ f[1] = "show" /\ f[2] = "rxtx" /\ f[3] = "\r" /\ f[4] = "\n"
         /\ f[5] = "rx" /\ f[6] = n /\ f[7] = "\r" /\ f[8] = "\n"
    BY <1>3, <1>5, <1>9, Zenon
  <1>11. Reply(n) = f
    BY <1>4, <1>5, <1>6, Zenon
  <1> QED
    BY <1>8, <1>10, <1>11, Zenon

(* What a recv takes, and what it leaves.                                  *)
LEMMA Pieces ==
  ASSUME NEW s \in Seq(AnyByte), NEW k \in 0 .. Len(s)
  PROVE  /\ Received(s, k) \in Seq(AnyByte) /\ Len(Received(s, k)) = k
         /\ \A i \in 1 .. k : Received(s, k)[i] = s[i]
         /\ Pending(s, k) \in Seq(AnyByte) /\ Len(Pending(s, k)) = Len(s) - k
         /\ \A i \in 1 .. Len(s) - k : Pending(s, k)[i] = s[k + i]
         /\ Received(s, k) \o Pending(s, k) = s
  <1>1. Len(s) \in Nat
    BY LenProperties
  <1>2. /\ SubSeq(s, 1, k) \in Seq(AnyByte) /\ Len(SubSeq(s, 1, k)) = k
        /\ \A i \in 1 .. k : SubSeq(s, 1, k)[i] = s[i]
    <2>1. /\ SubSeq(s, 1, k) \in Seq(AnyByte)
          /\ Len(SubSeq(s, 1, k)) = IF 1 <= k THEN k - 1 + 1 ELSE 0
          /\ \A i \in 1 .. k - 1 + 1 : SubSeq(s, 1, k)[i] = s[1 + i - 1]
      BY <1>1, SubSeqProperties
    <2> QED
      BY <1>1, <2>1
  <1>3. /\ SubSeq(s, k + 1, Len(s)) \in Seq(AnyByte) /\ Len(SubSeq(s, k + 1, Len(s))) = Len(s) - k
        /\ \A i \in 1 .. Len(s) - k : SubSeq(s, k + 1, Len(s))[i] = s[k + i]
    <2>1. /\ SubSeq(s, k + 1, Len(s)) \in Seq(AnyByte)
          /\ Len(SubSeq(s, k + 1, Len(s))) = IF k + 1 <= Len(s) THEN Len(s) - (k + 1) + 1 ELSE 0
          /\ \A i \in 1 .. Len(s) - (k + 1) + 1 : SubSeq(s, k + 1, Len(s))[i] = s[(k + 1) + i - 1]
      BY <1>1, SubSeqProperties
    <2> QED
      BY <1>1, <2>1
  <1>4. SubSeq(s, 1, k) \o SubSeq(s, k + 1, Len(s)) = s
    <2>1. SubSeq(s, 1, k) \o SubSeq(s, k + 1, Len(s)) = SubSeq(s, 1, Len(s))
      <3>1. 1 \in 1 .. Len(s) + 1 /\ k \in 1 - 1 .. Len(s) /\ Len(s) \in k .. Len(s)
        BY <1>1
      <3> QED
        BY <3>1, ConcatAdjacentSubSeq, Zenon
    <2> QED
      BY <1>1, <2>1, SubSeqFull
  <1> QED
    BY <1>2, <1>3, <1>4 DEF Received, Pending

(* The buffer after a recv, or after a byte of it has been overwritten.    *)
LEMMA LaidIs ==
  ASSUME NEW bytes \in Seq(AnyByte), NEW k \in Nat \ {0},
         buf \in Seq(AnyByte), Len(buf) = BufLen, k - 1 + Len(bytes) <= BufLen
  PROVE  /\ Laid(bytes, k) \in Seq(AnyByte) /\ Len(Laid(bytes, k)) = BufLen
         /\ k = 1 => \A i \in 1 .. Len(bytes) : Laid(bytes, k)[i] = bytes[i]
  <1>1. Len(bytes) \in Nat /\ BufLen \in Nat
    BY LenProperties, BufferAssumption
  <1>2. PICK s, t : s = SubSeq(buf, 1, k - 1) /\ t = SubSeq(buf, k + Len(bytes), BufLen)
    OBVIOUS
  <1>3. s \in Seq(AnyByte) /\ Len(s) = k - 1
    <2>1. /\ SubSeq(buf, 1, k - 1) \in Seq(AnyByte)
          /\ Len(SubSeq(buf, 1, k - 1)) = IF 1 <= k - 1 THEN (k - 1) - 1 + 1 ELSE 0
      BY <1>1, SubSeqProperties
    <2> QED
      BY <1>1, <1>2, <2>1
  <1>4. t \in Seq(AnyByte) /\ Len(t) = BufLen - (k - 1) - Len(bytes)
    <2>1. /\ SubSeq(buf, k + Len(bytes), BufLen) \in Seq(AnyByte)
          /\ Len(SubSeq(buf, k + Len(bytes), BufLen))
               = IF k + Len(bytes) <= BufLen THEN BufLen - (k + Len(bytes)) + 1 ELSE 0
      BY <1>1, SubSeqProperties
    <2>2. PICK n \in Nat : n = Len(bytes)
      BY <1>1
    <2>3. (IF k + n <= BufLen THEN BufLen - (k + n) + 1 ELSE 0) = BufLen - (k - 1) - n
      BY <1>1, <2>2
    <2> QED
      BY <1>2, <2>1, <2>2, <2>3
  <1>5. PICK u : u = s \o bytes
    OBVIOUS
  <1>6. /\ u \in Seq(AnyByte) /\ Len(u) = Len(s) + Len(bytes)
        /\ \A i \in 1 .. Len(s) + Len(bytes) :
             u[i] = IF i <= Len(s) THEN s[i] ELSE bytes[i - Len(s)]
    BY <1>3, <1>5, Joined
  <1>7. PICK v : v = u \o t
    OBVIOUS
  <1>8. /\ v \in Seq(AnyByte) /\ Len(v) = Len(u) + Len(t)
        /\ \A i \in 1 .. Len(u) + Len(t) : v[i] = IF i <= Len(u) THEN u[i] ELSE t[i - Len(u)]
    BY <1>4, <1>6, <1>7, Joined
  <1>9. Laid(bytes, k) = v
    BY <1>2, <1>5, <1>7 DEF Laid
  <1>10. Len(v) = BufLen
    BY <1>1, <1>3, <1>4, <1>6, <1>8
  <1>11. ASSUME k = 1, NEW i \in 1 .. Len(bytes)
         PROVE  v[i] = bytes[i]
    <2>1. Len(s) = 0
      BY <1>3, <1>11
    <2>2. Len(u) = Len(bytes) /\ Len(t) \in Nat
      BY <1>1, <1>6, <1>4, <2>1, LenProperties
    <2>3. i \in 1 .. Len(s) + Len(bytes) /\ ~(i <= Len(s)) /\ i - Len(s) = i
      BY <1>1, <2>1
    <2>4. u[i] = bytes[i]
      BY <1>6, <2>3
    <2>5. i \in 1 .. Len(u) + Len(t) /\ i <= Len(u)
      BY <1>1, <2>2
    <2> QED
      BY <1>8, <2>4, <2>5
  <1> QED
    BY <1>8, <1>9, <1>10, <1>11

(* A recv returns something, of what has been sent.                        *)
LEMMA LengthsAre ==
  ASSUME net \in Seq(AnyByte), net # <<>>, NEW n \in Nat \ {0}, NEW k \in Lengths(n)
  PROVE  k \in 1 .. Len(net) /\ k <= n
  <1>1. Len(net) \in Nat \ {0}
    BY LenProperties, EmptySeq
  <1> QED
    BY <1>1 DEF Lengths

(* The buffer has room for an answer.                                      *)
LEMMA BufferIsLarge == BufLen \in Nat /\ BufLen > 11
  <1>1. Len(Prompt) = 3 /\ Len(Reply("0")) = 8
    BY PromptIs, ReplyIs, Zenon
  <1>2. PICK m, n : m = Len(Prompt) /\ n = Len(Reply("0"))
    OBVIOUS
  <1>3. BufLen \in Nat /\ BufLen > m + n
    BY <1>2, BufferAssumption, Zenon
  <1>4. m = 3 /\ n = 8
    BY <1>1, <1>2, Zenon
  <1> QED
    BY <1>3, <1>4

(* The least of some natural numbers.                                      *)
LEMMA Least ==
  ASSUME NEW n \in Nat, NEW S \in SUBSET (0 .. n), S # {}
  PROVE  Min(S) \in S /\ \A q \in S : Min(S) <= q
  <1> DEFINE Below == {0 .. a : a \in S}
  <1> DEFINE R == StrictSubsetOrdering(0 .. n)
  <1>1. Below # {}
    OBVIOUS
  <1>2. Below \subseteq FiniteSubsetsOf(0 .. n)
    <2> SUFFICES ASSUME NEW a \in S
                 PROVE  0 .. a \in FiniteSubsetsOf(0 .. n)
      OBVIOUS
    <2>1. a \in Nat /\ a <= n
      OBVIOUS
    <2>2. 0 .. a \subseteq 0 .. n
      BY <2>1
    <2>3. IsFiniteSet(0 .. a)
      BY <2>1, FS_Interval
    <2> QED
      BY <2>2, <2>3 DEF FiniteSubsetsOf
  <1>3. PICK x \in Below : \A y \in Below : ~(<<y, x>> \in R)
    <2> HIDE DEF Below, R
    <2>1. IsWellFoundedOn(R, FiniteSubsetsOf(0 .. n))
      BY FS_StrictSubsetOrderingWellFounded DEF R
    <2> QED
      BY <1>1, <1>2, <2>1, WFMin
  <1>4. PICK a \in S : x = 0 .. a
    OBVIOUS
  <1>5. ASSUME NEW q \in S
        PROVE  a <= q
    <2>1. a \in Nat /\ q \in Nat /\ a <= n /\ q <= n
      OBVIOUS
    <2>2. CASE q < a
      <3>1. 0 .. q \subseteq 0 .. a /\ a \in 0 .. a /\ a \notin 0 .. q
        BY <2>1, <2>2
      <3>2. 0 .. q \in SUBSET (0 .. n) /\ 0 .. a \in SUBSET (0 .. n)
        BY <2>1
      <3>3. <<0 .. q, 0 .. a>> \in R
        BY <3>1, <3>2 DEF StrictSubsetOrdering
      <3> QED
        BY <1>3, <1>4, <3>3
    <2> QED
      BY <2>1, <2>2
  <1> QED
    BY <1>5 DEF Min

(* Where a pair of bytes stands in the string from i on.                   *)
Stands(b, i, q, pair) ==
  /\ q \in i .. BufLen - 1
  /\ b[q] = pair[1] /\ b[q + 1] = pair[2]
  /\ \A j \in i .. BufLen : b[j] = NUL => q + 1 < j

(* What strstr finds stands there.                                         *)
LEMMA StrStrIs ==
  ASSUME NEW b \in Seq(AnyByte), Len(b) = BufLen, NEW i \in Nat \ {0},
         NEW pair, Len(pair) = 2, StrStr(b, i, pair) # 0
  PROVE  Stands(b, i, StrStr(b, i, pair), pair)
  <1> DEFINE ends == {j \in i .. BufLen : b[j] = NUL} \cup {BufLen + 1}
  <1> DEFINE found == {j \in i .. (Min(ends) - Len(pair)) :
                         SubSeq(b, j, j + Len(pair) - 1) = pair}
  <1>1. BufLen \in Nat
    BY BufferIsLarge
  <1>2. Min(ends) \in ends /\ \A j \in ends : Min(ends) <= j
    <2>1. PICK n \in Nat : n = BufLen + 1
      BY <1>1
    <2>2. ends \in SUBSET (0 .. n) /\ ends # {}
      BY <1>1, <2>1
    <2> HIDE DEF ends
    <2> QED
      BY <2>2, Least, Zenon
  <1>3. StrStr(b, i, pair) = IF found = {} THEN 0 ELSE Min(found)
    BY DEF StrStr
  <1>4. Min(ends) \in 0 .. BufLen + 1
    BY <1>1, <1>2
  <1>5. PICK n \in Nat : found \in SUBSET (0 .. n)
    <2>1. PICK m : m = Min(ends)
      OBVIOUS
    <2>2. PICK n \in Nat : n = BufLen + 1 /\ m \in 0 .. n
      <3>1. m \in 0 .. BufLen + 1
        BY <1>4, <2>1
      <3> QED
        BY <1>1, <3>1
    <2>3. found \subseteq i .. (m - 2)
      BY <2>1
    <2>4. i .. (m - 2) \subseteq 0 .. n
      BY <2>2
    <2> QED
      BY <2>3, <2>4
  <1>6. PICK r : r = StrStr(b, i, pair) /\ r \in found
    <2> HIDE DEF found
    <2>1. found # {} /\ StrStr(b, i, pair) = Min(found)
      BY <1>3
    <2> QED
      BY <1>5, <2>1, Least, Zenon
  <1>7. PICK m : m = Min(ends)
    OBVIOUS
  <1>8. r \in i .. (m - 2) /\ SubSeq(b, r, r + 1) = pair
    <2>1. r \in i .. (m - Len(pair)) /\ SubSeq(b, r, r + Len(pair) - 1) = pair
      BY <1>6, <1>7
    <2>2. r + 2 - 1 = r + 1
      BY <2>1
    <2> QED
      BY <2>1, <2>2
  <1>9. m <= BufLen + 1 /\ m \in Nat /\ \A j \in i .. BufLen : b[j] = NUL => m <= j
    BY <1>2, <1>4, <1>7
  <1>10. r \in i .. BufLen - 1
    BY <1>1, <1>8, <1>9
  <1>11. b[r] = pair[1] /\ b[r + 1] = pair[2]
    <2>1. \A j \in r .. r + 1 : b[j] \in AnyByte
      <3>1. \A j \in r .. r + 1 : j \in 1 .. Len(b)
        BY <1>1, <1>10
      <3> QED
        BY <3>1, ElementOfSeq
    <2>2. \A j \in 1 .. (r + 1) - r + 1 : SubSeq(b, r, r + 1)[j] = b[r + j - 1]
      BY <1>10, <2>1, SubSeqProperties
    <2>3. /\ 1 \in 1 .. (r + 1) - r + 1 /\ 2 \in 1 .. (r + 1) - r + 1
          /\ r + 1 - 1 = r /\ r + 2 - 1 = r + 1
      BY <1>10
    <2>4. SubSeq(b, r, r + 1)[1] = b[r + 1 - 1] /\ SubSeq(b, r, r + 1)[2] = b[r + 2 - 1]
      BY <2>2, <2>3, Zenon
    <2> QED
      BY <1>8, <2>3, <2>4, Zenon
  <1>12. \A j \in i .. BufLen : b[j] = NUL => r + 1 < j
    BY <1>8, <1>9, <1>10
  <1> QED
    BY <1>6, <1>10, <1>11, <1>12 DEF Stands
-----------------------------------------------------------------------------
(* What serial_get_rxtx takes out of what a recv returned.                 *)

(* The buffer that is searched: what was received, and its end.            *)
LEMMA PolledBuffer ==
  ASSUME ProgramOK, NEW k \in 1 .. Len(net), k <= BufLen - 1,
         NEW b, b = Laid(Append(Received(net, k), NUL), 1)
  PROVE  /\ b \in Seq(AnyByte) /\ Len(b) = BufLen
         /\ \A i \in 1 .. k : b[i] = net[i]
         /\ b[k + 1] = NUL
  <1>1. net \in Seq(AnyByte) /\ buf \in Seq(AnyByte) /\ Len(buf) = BufLen
    BY DEF ProgramOK
  <1>2. Len(net) \in Nat /\ BufLen \in Nat
    BY <1>1, LenProperties, BufferIsLarge
  <1>3. PICK r : r = Received(net, k)
    OBVIOUS
  <1>4. r \in Seq(AnyByte) /\ Len(r) = k /\ \A i \in 1 .. k : r[i] = net[i]
    <2>1. k \in 0 .. Len(net)
      BY <1>2
    <2> QED
      BY <1>1, <1>3, <2>1, Pieces, Zenon
  <1>5. PICK t : t = Append(r, NUL)
    OBVIOUS
  <1>6. /\ t \in Seq(AnyByte) /\ Len(t) = k + 1
        /\ \A i \in 1 .. k : t[i] = r[i]
        /\ t[k + 1] = NUL
    BY <1>4, <1>5, ByteSets, AppendProperties
  <1>7. PICK n \in Nat \ {0} : n = 1
    OBVIOUS
  <1>8. n - 1 + Len(t) <= BufLen
    BY <1>2, <1>6, <1>7
  <1>9. b = Laid(t, n)
    BY <1>3, <1>5, <1>7, Zenon
  <1>10. /\ b \in Seq(AnyByte) /\ Len(b) = BufLen
         /\ \A i \in 1 .. Len(t) : b[i] = t[i]
    <2>1. /\ Laid(t, n) \in Seq(AnyByte) /\ Len(Laid(t, n)) = BufLen
          /\ n = 1 => \A i \in 1 .. Len(t) : Laid(t, n)[i] = t[i]
      BY <1>1, <1>6, <1>8, LaidIs
    <2> QED
      BY <1>7, <1>9, <2>1, Zenon
  <1>11. \A i \in 1 .. k : i \in 1 .. k + 1
    BY <1>2
  <1> QED
    BY <1>4, <1>6, <1>10, <1>11

(* What is taken for the answer are the counters, unless the recv ended    *)
(* right behind the command.                                               *)
LEMMA AnswerIs ==
  ASSUME ProgramOK, OneReply, prog = "get_rxtx", at # "start",
         NEW k \in 1 .. Len(net), k <= BufLen - 1,
         NEW b, b = Laid(Append(Received(net, k), NUL), 1),
         NEW span \in Answer(b)
  PROVE  /\ span[2] \in 1 .. BufLen
         /\ \E j \in 1 .. k - 1 :
              /\ net[j] = "show" /\ EchoIn(net, now, j)
              /\ SubSeq(b, span[1], span[2] - 1) = Counters(now) \/ k \in {j + 1, j + 2}
  <1>1. /\ b \in Seq(AnyByte) /\ Len(b) = BufLen
        /\ \A i \in 1 .. k : b[i] = net[i]
        /\ b[k + 1] = NUL
    BY PolledBuffer
  <1>2. Len(net) \in Nat /\ BufLen \in Nat /\ BufLen > 11 /\ k \in Nat /\ k + 1 <= BufLen
    BY LenProperties, BufferIsLarge DEF ProgramOK
  <1>3. Len(Command) = 2 /\ Command[1] = "show" /\ Command[2] = "rxtx"
        /\ Len(CRLF) = 2 /\ CRLF[1] = "\r" /\ CRLF[2] = "\n"
    BY DEF Command, CRLF
  <1>4. PICK j : j = StrStr(b, 1, Command)
    OBVIOUS
  <1>5. PICK s, e : s = j + Len(Command) + 2 /\ e = AnswerEnd(b, s)
    OBVIOUS
  <1>6. j # 0 /\ e # 0 /\ span = <<s, e>>
    BY <1>4, <1>5 DEF Answer
  <1>7. Stands(b, 1, j, Command)
    <2>1. 1 \in Nat \ {0}
      OBVIOUS
    <2> QED
      BY <1>1, <1>3, <1>4, <1>6, <2>1, StrStrIs
  <1>8. /\ j \in 1 .. BufLen - 1 /\ b[j] = "show" /\ b[j + 1] = "rxtx"
        /\ \A i \in 1 .. BufLen : b[i] = NUL => j + 1 < i
    BY <1>3, <1>7 DEF Stands
  <1>9. j \in 1 .. k - 1
    BY <1>1, <1>2, <1>8
  <1>10. net[j] = "show" /\ j \in 1 .. Len(net)
    BY <1>1, <1>2, <1>8, <1>9
  <1>11. EchoIn(net, now, j)
    BY <1>10 DEF OneReply, EchoIn
  <1>12. s = j + 4 /\ s \in Nat \ {0}
    BY <1>3, <1>5, <1>9
  <1>13. Stands(b, s, e, CRLF)
    <2>1. StrStr(b, s, CRLF) = e
      BY <1>5 DEF AnswerEnd
    <2> QED
      BY <1>1, <1>3, <1>6, <1>12, <2>1, StrStrIs
  <1>14. /\ e \in s .. BufLen - 1 /\ b[e] = "\r" /\ b[e + 1] = "\n"
         /\ \A i \in s .. BufLen : b[i] = NUL => e + 1 < i
    BY <1>3, <1>13 DEF Stands
  <1>15. span[1] = s /\ span[2] = e
    BY <1>6
  <1>16. e \in 1 .. BufLen
    BY <1>2, <1>12, <1>14
  <1>17. CASE s > k + 1
    <2>1. k \in {j + 1, j + 2}
      BY <1>2, <1>9, <1>12, <1>17
    <2> QED
      BY <1>9, <1>10, <1>11, <1>15, <1>16, <2>1
  <1>18. CASE s <= k + 1
    <2>1. e + 1 < k + 1
      BY <1>1, <1>2, <1>12, <1>14, <1>18
    <2>2. Len(net) = j + 10
      BY <1>11 DEF EchoIn
    <2>3. e \in {j + 4, j + 5, j + 6, j + 7, j + 8, j + 9}
      BY <1>2, <1>9, <1>12, <1>14, <2>1, <2>2
    <2>4. net[e] = "\r"
      BY <1>1, <1>2, <1>12, <1>14, <2>1
    <2>5. now \in {"0", "1"}
      BY DEF ProgramOK
    <2>6. e = j + 6
      BY <1>11, <2>3, <2>4, <2>5 DEF EchoIn
    <2>7. j + 4 \in 1 .. k /\ j + 5 \in 1 .. k
      BY <1>2, <1>9, <2>1, <2>6
    <2>8. b[j + 4] = "rx" /\ b[j + 5] = now
      BY <1>1, <1>11, <2>7 DEF EchoIn
    <2>9. SubSeq(b, j + 4, j + 5) = <<"rx", now>>
      <3>1. \A i \in j + 4 .. j + 5 : b[i] \in AnyByte
        <4>1. \A i \in j + 4 .. j + 5 : i \in 1 .. Len(b)
          BY <1>1, <1>2, <2>7
        <4> QED
          BY <1>1, <4>1, ElementOfSeq
      <3>2. PICK p, q : p = j + 4 /\ q = j + 5
        OBVIOUS
      <3>3. p \in Int /\ q \in Int /\ q - p + 1 = 2 /\ p <= q /\ p + 1 - 1 = p /\ p + 2 - 1 = q
        BY <1>9, <3>2
      <3>4. PICK t : t = SubSeq(b, p, q)
        OBVIOUS
      <3>5. t \in Seq(AnyByte) /\ Len(t) = 2 /\ \A i \in 1 .. 2 : t[i] = b[p + i - 1]
        <4>1. /\ SubSeq(b, p, q) \in Seq(AnyByte)
              /\ Len(SubSeq(b, p, q)) = IF p <= q THEN q - p + 1 ELSE 0
              /\ \A i \in 1 .. q - p + 1 : SubSeq(b, p, q)[i] = b[p + i - 1]
          <5>1. \A i \in p .. q : b[i] \in AnyByte
            BY <3>1, <3>2, Zenon
          <5> QED
            BY <3>3, <5>1, SubSeqProperties
        <4> QED
          BY <3>3, <3>4, <4>1
      <3>6. t[1] = b[p] /\ t[2] = b[q]
        <4>1. 1 \in 1 .. 2 /\ 2 \in 1 .. 2
          OBVIOUS
        <4> QED
          BY <3>3, <3>5, <4>1, Zenon
      <3>7. t[1] = "rx" /\ t[2] = now
        BY <2>8, <3>2, <3>6, Zenon
      <3>8. t = <<"rx", now>>
        BY <3>5, <3>7
      <3> QED
        BY <3>2, <3>4, <3>8, Zenon
    <2>10. e - 1 = j + 5
      BY <1>9, <2>6
    <2>11. SubSeq(b, span[1], span[2] - 1) = Counters(now)
      BY <1>12, <1>15, <2>9, <2>10, Zenon DEF Counters
    <2> QED
      BY <1>9, <1>10, <1>11, <1>15, <1>16, <2>11
  <1> QED
    BY <1>2, <1>12, <1>17, <1>18

(* A recv that ended right behind the command has left the counters, and   *)
(* the line end in front of them or its second half.                       *)
LEMMA RestIs ==
  ASSUME ProgramOK, NEW k \in 1 .. Len(net), NEW j \in 1 .. k - 1, EchoIn(net, now, j),
         k \in {j + 1, j + 2}
  PROVE  BehindEcho(Pending(net, k))
  <1>1. Len(net) \in Nat /\ Len(net) = j + 10 /\ j \in Nat /\ k \in Nat
    BY LenProperties DEF ProgramOK, EchoIn
  <1>2. PICK rest : rest = Pending(net, k)
    OBVIOUS
  <1>3. /\ rest \in Seq(AnyByte) /\ Len(rest) = j + 10 - k
        /\ \A i \in 1 .. j + 10 - k : rest[i] = net[k + i]
    <2>1. net \in Seq(AnyByte) /\ k \in 0 .. Len(net)
      BY <1>1 DEF ProgramOK
    <2>2. /\ rest \in Seq(AnyByte) /\ Len(rest) = Len(net) - k
          /\ \A i \in 1 .. Len(net) - k : rest[i] = net[k + i]
      BY <1>2, <2>1, Pieces, Zenon
    <2> QED
      BY <1>1, <2>2
  <1>4. /\ net[j + 2] \in ReplyBytes /\ net[j + 3] \in ReplyBytes /\ net[j + 4] \in ReplyBytes
        /\ net[j + 5] \in ReplyBytes /\ net[j + 6] \in ReplyBytes /\ net[j + 7] \in ReplyBytes
        /\ net[j + 8] \notin ReplyBytes /\ net[j + 9] \notin ReplyBytes
        /\ net[j + 10] \notin ReplyBytes
    BY DEF EchoIn, ReplyBytes, ProgramOK
  <1>5. DOMAIN rest = 1 .. j + 10 - k
    BY <1>3, LenProperties
  <1>6. {i \in DOMAIN rest : rest[i] \in ReplyBytes} = 1 .. j + 7 - k
    <2>1. \A i \in 1 .. j + 10 - k :
            k + i \in {j + 2, j + 3, j + 4, j + 5, j + 6, j + 7} <=> i \in 1 .. j + 7 - k
      BY <1>1
    <2>2. \A i \in 1 .. j + 10 - k :
            k + i \in {j + 2, j + 3, j + 4, j + 5, j + 6, j + 7, j + 8, j + 9, j + 10}
      BY <1>1
    <2>3. \A i \in 1 .. j + 10 - k : rest[i] \in ReplyBytes <=> i \in 1 .. j + 7 - k
      <3> SUFFICES ASSUME NEW i \in 1 .. j + 10 - k
                   PROVE  rest[i] \in ReplyBytes <=> i \in 1 .. j + 7 - k
        OBVIOUS
      <3>1. PICK m : m = k + i
        OBVIOUS
      <3>2. rest[i] = net[m]
        BY <1>3, <3>1
      <3>3. CASE m \in {j + 2, j + 3, j + 4, j + 5, j + 6, j + 7}
        <4>1. net[m] \in ReplyBytes
          BY <1>4, <3>3
        <4>2. i \in 1 .. j + 7 - k
          BY <2>1, <3>1, <3>3, Zenon
        <4> QED
          BY <3>2, <4>1, <4>2, Zenon
      <3>4. CASE m \in {j + 8, j + 9, j + 10}
        <4>1. net[m] \notin ReplyBytes
          BY <1>4, <3>4
        <4>2. i \notin 1 .. j + 7 - k
          BY <1>1, <3>1, <3>4
        <4> QED
          BY <3>2, <4>1, <4>2, Zenon
      <3>5. m \in {j + 2, j + 3, j + 4, j + 5, j + 6, j + 7, j + 8, j + 9, j + 10}
        BY <2>2, <3>1, Zenon
      <3> QED
        BY <3>3, <3>4, <3>5
    <2>4. 1 .. j + 7 - k \subseteq 1 .. j + 10 - k
      BY <1>1
    <2> QED
      BY <1>5, <2>3, <2>4
  <1>7. Cardinality(1 .. j + 7 - k) = j + 7 - k
    <2>1. PICK n \in Int : n = j + 7 - k /\ ~(1 > n) /\ n - 1 + 1 = n
      BY <1>1
    <2> QED
      BY <2>1, FS_Interval
  <1>8. ToCome(rest) = j + 7 - k
    BY <1>6, <1>7, Zenon DEF ToCome
  <1>9. Size = 8 /\ Len(Command) = 2
    <2>1. Len(Reply("0")) = 8
      BY ReplyIs, Zenon
    <2> QED
      BY <2>1 DEF Size, Command
  <1>10. PICK n : n = ToCome(rest) /\ n \in {6, 5}
    BY <1>1, <1>8
  <1>11. Size - Len(Command) = 6 /\ Size - Len(Command) - 1 = 5
    BY <1>9
  <1> QED
    BY <1>2, <1>10, <1>11, Zenon DEF BehindEcho

(* What serial_get_rxtx writes to the file.                                *)
LEMMA FileStep ==
  ASSUME Inv, [Next]_vars
  PROVE  file' # file => file' = Counters(now) \/ BehindEcho(net')
  <1> SUFFICES ASSUME file' # file
               PROVE  file' = Counters(now) \/ BehindEcho(net')
    OBVIOUS
  <1>1. Poll
    BY DEF Next, Program, vars, Connect, MonitorConnect, Dial, ReadByte, ReadOption, AskAgain,
           Copy, Ended, Serve, Event, Close
  <1>2. ProgramOK /\ OneReply
    BY DEF Inv
  <1>3. at = "read" /\ prog = "get_rxtx" /\ net # <<>>
    BY <1>1 DEF Poll
  <1>4. PICK k \in Lengths(BufLen - 1) :
          /\ net' = Pending(net, k)
          /\ \E b \in {Laid(Append(Received(net, k), NUL), 1)} :
               \E span \in Answer(b) : file' = SubSeq(b, span[1], span[2] - 1)
    BY <1>1 DEF Poll
  <1>5. PICK b : /\ b = Laid(Append(Received(net, k), NUL), 1)
                 /\ \E span \in Answer(b) : file' = SubSeq(b, span[1], span[2] - 1)
    BY <1>4
  <1>6. PICK span \in Answer(b) : file' = SubSeq(b, span[1], span[2] - 1)
    BY <1>5
  <1>7. k \in 1 .. Len(net) /\ k <= BufLen - 1
    <2>1. PICK n \in Nat \ {0} : n = BufLen - 1
      BY BufferIsLarge
    <2> QED
      BY <1>2, <1>3, <2>1, LengthsAre DEF ProgramOK
  <1>8. at # "start"
    BY <1>3
  <1>9. PICK j \in 1 .. k - 1 :
          /\ net[j] = "show" /\ EchoIn(net, now, j)
          /\ SubSeq(b, span[1], span[2] - 1) = Counters(now) \/ k \in {j + 1, j + 2}
    BY <1>2, <1>3, <1>5, <1>7, <1>8, AnswerIs, Zenon
  <1>10. CASE k \in {j + 1, j + 2}
    BY <1>2, <1>4, <1>7, <1>9, <1>10, RestIs
  <1> QED
    BY <1>9, <1>10, <1>6
-----------------------------------------------------------------------------
(* What the server sends.                                                  *)

(* Two pieces of what the server sends are a piece of it.                  *)
LEMMA CleanJoined ==
  ASSUME NEW s \in Seq(AnyByte), NEW t \in Seq(AnyByte), Clean(s), Clean(t)
  PROVE  Clean(s \o t)
  <1>1. PICK u : u = s \o t
    OBVIOUS
  <1>2. /\ u \in Seq(AnyByte) /\ Len(u) = Len(s) + Len(t)
        /\ \A i \in 1 .. Len(s) + Len(t) : u[i] = IF i <= Len(s) THEN s[i] ELSE t[i - Len(s)]
    BY <1>1, Joined, Zenon
  <1>3. PICK m \in Nat, n \in Nat : m = Len(s) /\ n = Len(t)
    BY LenProperties
  <1>4. \A i \in 1 .. m + n : u[i] = IF i <= m THEN s[i] ELSE t[i - m]
    BY <1>2, <1>3, Zenon
  <1>5. (\A i \in 1 .. m : s[i] \in Protocol) /\ \A i \in 1 .. n : t[i] \in Protocol
    BY <1>3, Zenon DEF Clean
  <1>6. ASSUME NEW i \in 1 .. m + n
        PROVE  u[i] \in Protocol
    <2>1. CASE i <= m
      BY <1>4, <1>5, <2>1
    <2>2. CASE ~(i <= m)
      <3>1. i - m \in 1 .. n
        BY <2>2
      <3> QED
        BY <1>4, <1>5, <2>2, <3>1
    <2> QED
      BY <2>1, <2>2
  <1>7. Len(u) = m + n
    BY <1>2, <1>3
  <1> QED
    BY <1>1, <1>6, <1>7 DEF Clean

(* What is left of a stream has nothing that was not in it.                *)
LEMMA Kept ==
  ASSUME NEW s \in Seq(AnyByte), NEW k \in 0 .. Len(s)
  PROVE  /\ Clean(s) => Clean(Pending(s, k)) /\ Clean(Received(s, k))
         /\ NoEcho(s) => NoEcho(Pending(s, k))
  <1>1. PICK t, r : t = Pending(s, k) /\ r = Received(s, k)
    OBVIOUS
  <1>2. PICK n \in Nat : n = Len(s)
    BY LenProperties
  <1>3. /\ Len(t) = n - k /\ \A i \in 1 .. n - k : t[i] = s[k + i]
        /\ Len(r) = k /\ \A i \in 1 .. k : r[i] = s[i]
    BY <1>1, <1>2, Pieces, Zenon
  <1>4. k \in 0 .. n
    BY <1>2
  <1>5. \A i \in 1 .. n - k : k + i \in 1 .. n
    BY <1>4
  <1>6. \A i \in 1 .. k : i \in 1 .. n
    BY <1>4
  <1>7. Clean(s) => Clean(t)
    BY <1>2, <1>3, <1>5 DEF Clean
  <1>8. Clean(s) => Clean(r)
    BY <1>2, <1>3, <1>6 DEF Clean
  <1>9. NoEcho(s) => NoEcho(t)
    BY <1>2, <1>3, <1>5 DEF NoEcho
  <1> QED
    BY <1>1, <1>7, <1>8, <1>9

(* The options the server opens with, and its prompt.                      *)
LEMMA Opening ==
  ASSUME NEW g \in Greetings, NEW s, s = Bytes(g) \o Prompt
  PROVE  s \in Seq(AnyByte) /\ Clean(s) /\ NoEcho(s)
  <1> DEFINE OptionBytes == Verbs \cup Options \cup {IAC}
  <1>1. g \in Seq(Verbs \X Options)
    BY GreetingAssumption
  <1>2. Len(g) \in Nat
    BY <1>1, LenProperties
  <1>3. \A k \in 1 .. 3 * Len(g) : (k + 2) \div 3 \in 1 .. Len(g)
    <2>1. PICK n \in Nat : n = Len(g)
      BY <1>2
    <2>2. \A k \in 1 .. 3 * n : (k + 2) \div 3 \in 1 .. n
      OBVIOUS
    <2> QED
      BY <2>1, <2>2
  <1>4. \A k \in 1 .. 3 * Len(g) : Bytes(g)[k] \in OptionBytes
    <2> SUFFICES ASSUME NEW k \in 1 .. 3 * Len(g)
                 PROVE  Bytes(g)[k] \in OptionBytes
      OBVIOUS
    <2>1. PICK pair : pair = g[(k + 2) \div 3]
      OBVIOUS
    <2>2. pair \in Verbs \X Options
      BY <1>1, <1>3, <2>1, ElementOfSeq
    <2>3. pair[1] \in Verbs /\ pair[2] \in Options
      BY <2>2
    <2>4. k % 3 = 1 \/ k % 3 = 2 \/ k % 3 = 0
      BY <1>2
    <2>5. Bytes(g)[k] = CASE k % 3 = 1 -> IAC [] k % 3 = 2 -> pair[1] [] k % 3 = 0 -> pair[2]
      BY <2>1 DEF Bytes
    <2>6. Bytes(g)[k] \in {IAC, pair[1], pair[2]}
      BY <2>4, <2>5
    <2> QED
      BY <2>3, <2>6
  <1>5. Bytes(g) \in Seq(OptionBytes) /\ Len(Bytes(g)) = 3 * Len(g)
    <2>1. PICK n \in Nat : n = 3 * Len(g)
      BY <1>2
    <2>2. Bytes(g) \in [1 .. n -> OptionBytes]
      <3>1. \A k \in 1 .. n : Bytes(g)[k] \in OptionBytes
        BY <1>4, <2>1
      <3>2. Bytes(g) = [k \in 1 .. n |-> Bytes(g)[k]]
        BY <2>1 DEF Bytes
      <3> HIDE DEF OptionBytes
      <3> QED
        BY <3>1, <3>2
    <2> HIDE DEF OptionBytes
    <2> QED
      BY <2>1, <2>2, IsASeq
  <1>6. OptionBytes \subseteq Protocol /\ OptionBytes \subseteq AnyByte /\ "show" \notin OptionBytes
    BY DEF Protocol, AnyByte, Verbs, Options, IAC
  <1>7. PICK o : o = Bytes(g)
    OBVIOUS
  <1>8. /\ o \in Seq(AnyByte)
        /\ \A k \in 1 .. Len(o) : o[k] \in OptionBytes
    <2> HIDE DEF OptionBytes
    <2>1. o \in Seq(OptionBytes) /\ OptionBytes \subseteq AnyByte
      BY <1>5, <1>6, <1>7
    <2>2. o \in Seq(AnyByte)
      BY <2>1, SeqMonotonic
    <2> QED
      BY <2>1, <2>2, ElementOfSeq
  <1> HIDE DEF OptionBytes
  <1>9. Clean(o)
    BY <1>6, <1>8 DEF Clean
  <1>10. Clean(Prompt) /\ \A k \in 1 .. Len(Prompt) : Prompt[k] # "show"
    BY PromptIs, ByteSets DEF Clean, Protocol
  <1>11. Prompt \in Seq(AnyByte)
    BY PromptIs
  <1>12. Clean(s)
    BY <1>7, <1>8, <1>9, <1>10, <1>11, CleanJoined
  <1>13. PICK m \in Nat : m = Len(o)
    BY <1>8, LenProperties
  <1>14. /\ s \in Seq(AnyByte) /\ Len(s) = Len(o) + Len(Prompt)
         /\ \A i \in 1 .. Len(o) + Len(Prompt) :
              s[i] = IF i <= Len(o) THEN o[i] ELSE Prompt[i - Len(o)]
    <2>1. s = o \o Prompt /\ o \in Seq(AnyByte)
      BY <1>7, <1>8
    <2> QED
      BY <1>11, <2>1, Joined
  <1>15. /\ Len(s) = m + 3
         /\ \A i \in 1 .. m + 3 : s[i] = IF i <= m THEN o[i] ELSE Prompt[i - m]
    <2>1. Len(Prompt) = 3
      BY PromptIs
    <2> QED
      BY <1>13, <1>14, <2>1
  <1>16. ASSUME NEW i \in 1 .. m + 3
         PROVE  s[i] # "show"
    <2>1. CASE i <= m
      <3>1. s[i] = o[i] /\ i \in 1 .. Len(o)
        BY <1>13, <1>15, <2>1
      <3> QED
        BY <1>6, <1>8, <3>1
    <2>2. CASE ~(i <= m)
      <3>1. s[i] = Prompt[i - m] /\ i - m \in 1 .. 3
        BY <1>15, <2>2
      <3> QED
        BY <1>10, <3>1, PromptIs
    <2> QED
      BY <2>1, <2>2
  <1> QED
    BY <1>12, <1>14, <1>15, <1>16 DEF NoEcho

(* An answer behind a stream without an echo.                              *)
LEMMA Served ==
  ASSUME NEW s \in Seq(AnyByte), Clean(s), NoEcho(s), NEW n \in {"0", "1"},
         NEW r, r = s \o Reply(n) \o Prompt
  PROVE  /\ r \in Seq(AnyByte) /\ Clean(r)
         /\ \A j \in 1 .. Len(r) : r[j] = "show" => EchoIn(r, n, j)
  <1>1. PICK u : u = s \o Reply(n)
    OBVIOUS
  <1>2. PICK m \in Nat : m = Len(s)
    BY LenProperties
  <1>3. PICK a, p : a = Reply(n) /\ p = Prompt
    OBVIOUS
  <1>4. /\ a \in Seq(AnyByte) /\ Len(a) = 8
        /\ a[1] = "show" /\ a[2] = "rxtx" /\ a[3] = "\r" /\ a[4] = "\n" /\ a[5] = "rx" /\ a[6] = n
        /\ a[7] = "\r" /\ a[8] = "\n"
    BY <1>3, ReplyIs
  <1>5. p \in Seq(AnyByte) /\ Len(p) = 3 /\ p[1] = "-" /\ p[2] = ">" /\ p[3] = "blank"
    BY <1>3, PromptIs
  <1>6. /\ u \in Seq(AnyByte) /\ Len(u) = m + 8
        /\ \A i \in 1 .. m + 8 : u[i] = IF i <= m THEN s[i] ELSE a[i - m]
    <2>1. u = s \o a
      BY <1>1, <1>3
    <2>2. /\ u \in Seq(AnyByte) /\ Len(u) = Len(s) + Len(a)
          /\ \A i \in 1 .. Len(s) + Len(a) : u[i] = IF i <= Len(s) THEN s[i] ELSE a[i - Len(s)]
      BY <1>4, <2>1, Joined
    <2> QED
      BY <1>2, <1>4, <2>2
  <1>7. /\ r \in Seq(AnyByte) /\ Len(r) = m + 11
        /\ \A i \in 1 .. m + 11 : r[i] = IF i <= m + 8 THEN u[i] ELSE p[i - (m + 8)]
    <2>1. r = u \o p
      BY <1>1, <1>3
    <2>2. /\ r \in Seq(AnyByte) /\ Len(r) = Len(u) + Len(p)
          /\ \A i \in 1 .. Len(u) + Len(p) : r[i] = IF i <= Len(u) THEN u[i] ELSE p[i - Len(u)]
      BY <1>5, <1>6, <2>1, Joined
    <2> QED
      BY <1>5, <1>6, <2>2
  <1>8. PICK v : v = r
    OBVIOUS
  <1>9. /\ Len(v) = m + 11
         /\ \A i \in 1 .. m + 11 : v[i] = IF i <= m + 8 THEN u[i] ELSE p[i - (m + 8)]
    BY <1>7, <1>8, Zenon
  <1>10. /\ u[m + 1] = a[1] /\ u[m + 2] = a[2] /\ u[m + 3] = a[3] /\ u[m + 4] = a[4]
        /\ u[m + 5] = a[5] /\ u[m + 6] = a[6] /\ u[m + 7] = a[7] /\ u[m + 8] = a[8]
        /\ \A i \in 1 .. m : u[i] = s[i]
    BY <1>6
  <1>11. /\ v[m + 1] = u[m + 1] /\ v[m + 2] = u[m + 2] /\ v[m + 3] = u[m + 3] /\ v[m + 4] = u[m + 4]
        /\ v[m + 5] = u[m + 5] /\ v[m + 6] = u[m + 6] /\ v[m + 7] = u[m + 7] /\ v[m + 8] = u[m + 8]
        /\ v[m + 9] = p[1] /\ v[m + 10] = p[2] /\ v[m + 11] = p[3]
        /\ \A i \in 1 .. m : v[i] = u[i]
    <2>1. \A i \in 1 .. m + 8 : v[i] = u[i]
      BY <1>9
    <2>2. /\ v[m + 1] = u[m + 1] /\ v[m + 2] = u[m + 2] /\ v[m + 3] = u[m + 3]
          /\ v[m + 4] = u[m + 4] /\ v[m + 5] = u[m + 5] /\ v[m + 6] = u[m + 6]
          /\ v[m + 7] = u[m + 7] /\ v[m + 8] = u[m + 8]
      <3>1. /\ m + 1 \in 1 .. m + 8 /\ m + 2 \in 1 .. m + 8 /\ m + 3 \in 1 .. m + 8
            /\ m + 4 \in 1 .. m + 8 /\ m + 5 \in 1 .. m + 8 /\ m + 6 \in 1 .. m + 8
            /\ m + 7 \in 1 .. m + 8 /\ m + 8 \in 1 .. m + 8
        OBVIOUS
      <3> QED
        BY <2>1, <3>1, Zenon
    <2>3. v[m + 9] = p[1] /\ v[m + 10] = p[2] /\ v[m + 11] = p[3]
      BY <1>9
    <2>4. \A i \in 1 .. m : v[i] = u[i]
      BY <2>1
    <2> QED
      BY <2>2, <2>3, <2>4, Zenon
  <1>12. /\ v[m + 1] = "show" /\ v[m + 2] = "rxtx" /\ v[m + 3] = "\r" /\ v[m + 4] = "\n"
         /\ v[m + 5] = "rx" /\ v[m + 6] = n /\ v[m + 7] = "\r" /\ v[m + 8] = "\n"
         /\ v[m + 9] = "-" /\ v[m + 10] = ">" /\ v[m + 11] = "blank"
    BY <1>4, <1>5, <1>10, <1>11, Zenon
  <1>13. \A j \in 1 .. m + 11 :
           j \in 1 .. m \/ j = m + 1
           \/ j \in {m + 2, m + 3, m + 4, m + 5, m + 6, m + 7, m + 8, m + 9, m + 10, m + 11}
    OBVIOUS
  <1>14. ASSUME NEW j \in 1 .. m + 11, v[j] = "show"
         PROVE  j = m + 1
    <2>1. CASE j \in 1 .. m
      BY <1>2, <1>10, <1>11, <1>14, <2>1 DEF NoEcho
    <2>2. CASE j \in {m + 2, m + 3, m + 4, m + 5, m + 6, m + 7, m + 8, m + 9, m + 10, m + 11}
      BY <1>12, <1>14, <2>2
    <2> QED
      BY <1>13, <2>1, <2>2
  <1>15. EchoIn(v, n, m + 1)
    <2>1. PICK j : j = m + 1
      OBVIOUS
    <2>2. /\ Len(v) = j + 10
          /\ j + 1 = m + 2 /\ j + 2 = m + 3 /\ j + 3 = m + 4 /\ j + 4 = m + 5 /\ j + 5 = m + 6
          /\ j + 6 = m + 7 /\ j + 7 = m + 8 /\ j + 8 = m + 9 /\ j + 9 = m + 10 /\ j + 10 = m + 11
      BY <1>9, <2>1
    <2> QED
      BY <1>12, <2>1, <2>2, Zenon DEF EchoIn
  <1>16. Clean(r)
    <2>1. Clean(a)
      <3>1. \A i \in 1 .. 8 : i \in {1, 2, 3, 4, 5, 6, 7, 8}
        OBVIOUS
      <3>2. a[1] \in ReplyBytes /\ a[2] \in ReplyBytes /\ a[3] \in ReplyBytes /\ a[4] \in ReplyBytes
            /\ a[5] \in ReplyBytes /\ a[6] \in ReplyBytes /\ a[7] \in ReplyBytes
            /\ a[8] \in ReplyBytes
        BY <1>4 DEF ReplyBytes
      <3>3. \A i \in 1 .. 8 : a[i] \in ReplyBytes
        BY <3>1, <3>2
      <3> QED
        BY <1>4, <3>3 DEF Clean, Protocol
    <2>2. Clean(p)
      BY <1>5, ByteSets DEF Clean, Protocol
    <2>3. Clean(u)
      BY <1>1, <1>3, <1>4, <2>1, CleanJoined
    <2>4. r = u \o p
      BY <1>1, <1>3
    <2> QED
      BY <1>5, <1>6, <2>2, <2>3, <2>4, CleanJoined
  <1>17. \A j \in 1 .. Len(v) : v[j] = "show" => EchoIn(v, n, j)
    BY <1>9, <1>14, <1>15
  <1> QED
    BY <1>7, <1>16, <1>17, <1>8

(* What has passed, and what has passed one event later.                   *)
LEMMA PassedIs ==
  ASSUME NEW i \in 0 .. Len(Traffic), NEW j \in i .. Len(Traffic)
  PROVE  /\ SubSeq(Traffic, i + 1, j) \in Seq(AnyByte)
         /\ i = j => SubSeq(Traffic, i + 1, j) = <<>>
         /\ j < Len(Traffic) =>
              SubSeq(Traffic, i + 1, j + 1) = SubSeq(Traffic, i + 1, j) \o <<Traffic[j + 1]>>
  <1>1. PICK n \in Nat : n = Len(Traffic)
    BY ByteSets
  <1>2. i + 1 \in Int /\ j \in Int /\ \A x \in i + 1 .. j : x \in 1 .. n
    BY <1>1
  <1>3. \A x \in i + 1 .. j : Traffic[x] \in AnyByte
    BY <1>1, <1>2, ByteSets
  <1>4. SubSeq(Traffic, i + 1, j) \in Seq(AnyByte)
    BY <1>2, <1>3, SubSeqProperties
  <1>5. ASSUME i = j
        PROVE  SubSeq(Traffic, i + 1, j) = <<>>
    <2>1. j < i + 1
      BY <1>5, <1>2
    <2> QED
      BY <1>2, <2>1, SubSeqEmpty
  <1>6. ASSUME j < Len(Traffic)
        PROVE  SubSeq(Traffic, i + 1, j + 1) = SubSeq(Traffic, i + 1, j) \o <<Traffic[j + 1]>>
    <2>1. PICK p, q : p = i + 1 /\ q = j + 1
      OBVIOUS
    <2>2. p \in 1 .. Len(Traffic) /\ q \in p .. Len(Traffic) /\ q - 1 = j
      BY <1>1, <1>6, <2>1
    <2>3. Traffic \in Seq(AnyByte)
      BY ByteSets
    <2>4. SubSeq(Traffic, p, q) = SubSeq(Traffic, p, q - 1) \o <<Traffic[q]>>
      BY <2>2, <2>3, SubSeqRecursiveSecond
    <2> QED
      BY <2>1, <2>2, <2>4, Zenon
  <1> QED
    BY <1>4, <1>5, <1>6
-----------------------------------------------------------------------------
(* Each action keeps the invariant.                                        *)

(* What the buffer may hold when a program starts.                         *)
LEMMA GarbageIs ==
  ASSUME NEW c \in Garbage
  PROVE  c \in Seq(AnyByte) /\ Len(c) = BufLen
  <1>1. c \in [1 .. BufLen -> ReplyBytes \cup {"?"}]
    BY BufferAssumption
  <1>2. c \in Seq(ReplyBytes \cup {"?"})
    BY <1>1, BufferIsLarge
  <1>3. Len(c) = BufLen
    BY <1>1, <1>2, BufferIsLarge, LenProperties
  <1>4. ReplyBytes \cup {"?"} \subseteq AnyByte
    BY DEF AnyByte, Protocol
  <1> QED
    BY <1>2, <1>3, <1>4, SeqMonotonic

(* A program connects, and waits for the options.                          *)
LEMMA DialStep ==
  ASSUME Inv, NEW p, Dial(p), log' \in Seq(AnyByte), p = "monitor" => log' = <<>>
  PROVE  Inv'
  <1>1. ProgramOK
    BY DEF Inv
  <1>2. PICK g \in Greetings : net' = Bytes(g) \o Prompt
    BY DEF Dial
  <1>3. PICK s : s = net'
    OBVIOUS
  <1>4. s \in Seq(AnyByte) /\ Clean(s) /\ NoEcho(s)
    BY <1>2, <1>3, Opening
  <1>5. /\ prog' = p /\ prog' \in {"get_rxtx", "monitor"} /\ at' = "read"
        /\ status' = [o \in {"ECHO", "SGA"} |-> "none"] /\ asked' = 0
        /\ since' = events' /\ events' = events /\ now' = now /\ buf' \in Garbage
    BY <1>1 DEF Dial, ProgramOK
  <1>6. ~Agreed'
    BY <1>5 DEF Agreed
  <1>7. buf' \in Seq(AnyByte) /\ Len(buf') = BufLen
    BY <1>5, GarbageIs
  <1>8. ProgramOK'
    <2>1. events \in 0 .. Len(Traffic) /\ now \in {"0", "1"}
      BY <1>1 DEF ProgramOK
    <2>2. since' \in 0 .. events' /\ events' \in 0 .. Len(Traffic)
      BY <1>5, <2>1, ByteSets
    <2>3. status' \in [{"ECHO", "SGA"} -> {"none", "reply", "ack"}]
      BY <1>5
    <2>4. net' \in Seq(AnyByte)
      BY <1>3, <1>4
    <2> QED
      BY <1>5, <1>7, <2>1, <2>2, <2>3, <2>4 DEF ProgramOK
  <1>9. AskedOnce'
    BY <1>5 DEF AskedOnce
  <1>10. OneReply'
    <2>1. Clean(net') /\ NoEcho(net')
      BY <1>3, <1>4
    <2>2. \A j \in 1 .. Len(net') : net'[j] # "show"
      BY <2>1 DEF NoEcho
    <2> QED
      BY <2>1, <2>2 DEF OneReply
  <1>11. LogFollows'
    <2> SUFFICES ASSUME prog' = "monitor"
                 PROVE  /\ events' = since'
                        /\ Clean(net') /\ log' = <<>>
                        /\ \E front \in Seq(AnyByte) :
                             Clean(front) /\ log' \o net' = front \o Passed'
      BY DEF LogFollows
    <2>1. log' = <<>>
      BY <1>5
    <2>2. Passed' = <<>>
      <3>1. events \in 0 .. Len(Traffic) /\ events \in events .. Len(Traffic)
        BY <1>1, ByteSets DEF ProgramOK
      <3>2. SubSeq(Traffic, events + 1, events) = <<>>
        BY <3>1, PassedIs
      <3> QED
        BY <1>5, <3>2 DEF Passed
    <2>3. <<>> \o s = s /\ s \o <<>> = s
      BY <1>4, ConcatEmptySeq
    <2>4. log' \o net' = s \o Passed'
      BY <1>3, <2>1, <2>2, <2>3
    <2> QED
      BY <1>3, <1>4, <1>5, <2>1, <2>4
  <1> QED
    BY <1>8, <1>9, <1>10, <1>11 DEF Inv

(* What is received before both options have been answered is not kept.    *)
LEMMA SkipStep ==
  ASSUME Inv, at # "start", at' = "read" \/ at' = "verb", net # <<>>, ~Agreed,
         NEW k \in 1 .. Len(net), net' = Pending(net, k),
         buf' \in Seq(AnyByte), Len(buf') = BufLen,
         status' \in [{"ECHO", "SGA"} -> {"none", "reply", "ack"}],
         at' = "verb" => ~Agreed',
         asked' = IF Agreed' THEN 1 ELSE 0,
         UNCHANGED <<prog, now, events, since, log>>
  PROVE  Inv'
  <1>1. ProgramOK /\ AskedOnce /\ OneReply /\ LogFollows
    BY DEF Inv
  <1>2. net \in Seq(AnyByte) /\ k \in 0 .. Len(net)
    BY <1>1, LenProperties DEF ProgramOK
  <1>3. net' \in Seq(AnyByte)
    BY <1>2, Pieces
  <1>4. Clean(net) => Clean(net')
    BY <1>2, Kept
  <1>5. NoEcho(net) => NoEcho(net')
    BY <1>2, Kept
  <1>6. ProgramOK'
    <2>1. prog' = prog /\ now' = now /\ events' = events /\ since' = since /\ log' = log
      OBVIOUS
    <2>2. at' \in {"read", "verb"}
      OBVIOUS
    <2> QED
      BY <1>1, <1>3, <2>1, <2>2 DEF ProgramOK
  <1>7. AskedOnce'
    <2>1. asked' \in 0 .. 1 /\ (~Agreed' => asked' = 0)
      OBVIOUS
    <2>2. at' # "sleep"
      OBVIOUS
    <2> QED
      BY <2>1, <2>2 DEF AskedOnce
  <1>8. OneReply'
    <2> SUFFICES ASSUME prog' = "get_rxtx"
                 PROVE  Clean(net') /\ NoEcho(net')
      BY DEF OneReply, NoEcho
    <2>1. prog = "get_rxtx"
      OBVIOUS
    <2> QED
      BY <1>1, <1>4, <1>5, <2>1 DEF OneReply
  <1>9. LogFollows'
    <2> SUFFICES ASSUME prog' = "monitor"
                 PROVE  /\ events' = since'
                        /\ Clean(net') /\ log' = <<>>
                        /\ \E front \in Seq(AnyByte) :
                             Clean(front) /\ log' \o net' = front \o Passed'
      BY DEF LogFollows
    <2>1. events = since /\ Clean(net) /\ log = <<>>
      BY <1>1 DEF LogFollows
    <2>2. Passed' = <<>>
      <3>1. events \in 0 .. Len(Traffic) /\ events \in events .. Len(Traffic)
        BY <1>1, ByteSets DEF ProgramOK
      <3>2. SubSeq(Traffic, events + 1, events) = <<>>
        BY <3>1, PassedIs
      <3> QED
        BY <2>1, <3>2 DEF Passed
    <2>3. PICK s : s = net'
      OBVIOUS
    <2>4. <<>> \o s = s /\ s \o <<>> = s
      BY <1>3, <2>3, ConcatEmptySeq
    <2>5. log' \o net' = s \o Passed'
      BY <2>1, <2>2, <2>3, <2>4
    <2> QED
      BY <1>3, <1>4, <2>1, <2>3, <2>5
  <1> QED
    BY <1>6, <1>7, <1>8, <1>9 DEF Inv

(* The first byte of an option, or a byte that is skipped.                 *)
LEMMA ReadByteStep ==
  ASSUME Inv, ReadByte
  PROVE  Inv'
  <1>1. ProgramOK /\ AskedOnce
    BY DEF Inv
  <1>2. at = "read" /\ ~Agreed /\ net # <<>> /\ net \in Seq(AnyByte)
    BY <1>1 DEF ReadByte, ProgramOK
  <1>3. Len(net) \in Nat \ {0}
    BY <1>2, LenProperties, EmptySeq
  <1>4. PICK k \in 1 .. Len(net) : k = 1
    BY <1>3
  <1>5. net' = Pending(net, k)
    BY <1>4 DEF ReadByte
  <1>6. buf' \in Seq(AnyByte) /\ Len(buf') = BufLen
    <2>1. PICK r : r = Received(net, k)
      OBVIOUS
    <2>2. r \in Seq(AnyByte) /\ Len(r) = k
      <3>1. k \in 0 .. Len(net)
        BY <1>3
      <3> QED
        BY <1>2, <2>1, <3>1, Pieces
    <2>3. k \in Nat \ {0} /\ k - 1 + Len(r) <= BufLen
      BY <1>4, <2>2, BufferIsLarge
    <2>4. buf' = Laid(r, k)
      BY <1>4, <2>1 DEF ReadByte
    <2> QED
      BY <1>1, <2>2, <2>3, <2>4, LaidIs DEF ProgramOK
  <1>7. /\ at' \in {"read", "verb"} /\ status' = status /\ asked' = asked
        /\ UNCHANGED <<prog, now, events, since, log>>
    BY DEF ReadByte, server
  <1>8. ~Agreed'
    BY <1>2, <1>7 DEF Agreed
  <1>9. asked' = IF Agreed' THEN 1 ELSE 0
    BY <1>1, <1>2, <1>7, <1>8 DEF AskedOnce
  <1>10. status' \in [{"ECHO", "SGA"} -> {"none", "reply", "ack"}]
    BY <1>1, <1>7 DEF ProgramOK
  <1>11. at # "start"
    BY <1>2
  <1> QED
    BY <1>2, <1>5, <1>6, <1>7, <1>8, <1>9, <1>10, <1>11, SkipStep

(* What negotiate makes of three bytes.                                    *)
LEMMA AnswersAre ==
  ASSUME ProgramOK, NEW b \in Seq(AnyByte), Len(b) = BufLen, NEW told, told = Answers(b)
  PROVE  /\ told.status \in [{"ECHO", "SGA"} -> {"none", "reply", "ack"}]
         /\ told.answer = <<>> \/ told.answer[1] \in AnyByte
  <1>1. status \in [{"ECHO", "SGA"} -> {"none", "reply", "ack"}]
    BY DEF ProgramOK
  <1>2. b[2] \in AnyByte /\ {"DO", "WILL", "WONT"} \subseteq AnyByte
    <2>1. 2 \in 1 .. Len(b)
      BY BufferIsLarge
    <2>2. {"DO", "WILL", "WONT"} \subseteq AnyByte
      BY DEF AnyByte, Protocol, Verbs
    <2> QED
      BY <2>1, <2>2, ElementOfSeq
  <1>3. PICK verb, opt : verb = b[2] /\ opt = b[3]
    OBVIOUS
  <1>4. PICK known \in BOOLEAN : known = (verb = "WILL" /\ opt \in DOMAIN status)
    OBVIOUS
  <1>5. \/ known /\ told = [status |-> [status EXCEPT ![opt] = "ack"], answer |-> <<>>]
        \/ known /\ told = [status |-> [status EXCEPT ![opt] = "reply"], answer |-> <<"DO", opt>>]
        \/ told = [status |-> status, answer |-> <<"DO", opt>>]
        \/ told = [status |-> status, answer |-> <<"WILL", opt>>]
        \/ told = [status |-> status, answer |-> <<"WONT", opt>>]
        \/ told = [status |-> status, answer |-> <<>>]
        \/ told = [status |-> status, answer |-> <<verb, opt>>]
    BY <1>3, <1>4 DEF Answers
  <1>6. /\ [status EXCEPT ![opt] = "ack"] \in [{"ECHO", "SGA"} -> {"none", "reply", "ack"}]
        /\ [status EXCEPT ![opt] = "reply"] \in [{"ECHO", "SGA"} -> {"none", "reply", "ack"}]
    BY <1>1
  <1> QED
    BY <1>1, <1>2, <1>3, <1>5, <1>6

(* The rest of an option; the last of the two sends the command.           *)
LEMMA ReadOptionStep ==
  ASSUME Inv, ReadOption
  PROVE  Inv'
  <1>1. ProgramOK /\ AskedOnce
    BY DEF Inv
  <1>2. at = "verb" /\ net # <<>> /\ net \in Seq(AnyByte)
    BY <1>1 DEF ReadOption, ProgramOK
  <1>3. ~Agreed /\ asked = 0 /\ at # "start"
    BY <1>1, <1>2 DEF AskedOnce
  <1>4. PICK k \in Lengths(2) :
          /\ net' = Pending(net, k)
          /\ \E b \in {Laid(Received(net, k), 2)} : \E told \in {Answers(b)} :
               /\ buf' = IF told.answer = <<>> \/ told.answer[1] = "WILL" THEN b
                         ELSE [b EXCEPT ![2] = told.answer[1]]
               /\ status' = told.status
    BY DEF ReadOption
  <1>5. PICK b : /\ b = Laid(Received(net, k), 2)
                 /\ \E told \in {Answers(b)} :
                      /\ buf' = IF told.answer = <<>> \/ told.answer[1] = "WILL" THEN b
                                ELSE [b EXCEPT ![2] = told.answer[1]]
                      /\ status' = told.status
    BY <1>4
  <1>6. PICK told : /\ told = Answers(b)
                    /\ buf' = IF told.answer = <<>> \/ told.answer[1] = "WILL" THEN b
                              ELSE [b EXCEPT ![2] = told.answer[1]]
                    /\ status' = told.status
    BY <1>5
  <1>7. k \in 1 .. Len(net) /\ k <= 2
    <2>1. 2 \in Nat \ {0}
      OBVIOUS
    <2> QED
      BY <1>2, <2>1, LengthsAre
  <1>8. b \in Seq(AnyByte) /\ Len(b) = BufLen
    <2>1. PICK r : r = Received(net, k)
      OBVIOUS
    <2>2. r \in Seq(AnyByte) /\ Len(r) = k
      <3>1. k \in 0 .. Len(net)
        BY <1>2, <1>7, LenProperties
      <3> QED
        BY <1>2, <2>1, <3>1, Pieces
    <2>3. PICK n \in Nat \ {0} : n = 2
      OBVIOUS
    <2>4. n - 1 + Len(r) <= BufLen
      BY <1>7, <2>2, <2>3, BufferIsLarge
    <2>5. b = Laid(r, n)
      BY <1>5, <2>1, <2>3
    <2> QED
      BY <1>1, <2>2, <2>4, <2>5, LaidIs DEF ProgramOK
  <1>9. /\ told.status \in [{"ECHO", "SGA"} -> {"none", "reply", "ack"}]
        /\ told.answer = <<>> \/ told.answer[1] \in AnyByte
    BY <1>1, <1>6, <1>8, AnswersAre
  <1>10. buf' \in Seq(AnyByte) /\ Len(buf') = BufLen
    <2>1. CASE buf' = b
      BY <1>8, <2>1
    <2>2. CASE buf' # b
      <3>1. buf' = [b EXCEPT ![2] = told.answer[1]] /\ told.answer[1] \in AnyByte
        BY <1>6, <1>9, <2>2
      <3>2. PICK v \in AnyByte : v = told.answer[1]
        BY <3>1
      <3>3. 2 \in 1 .. Len(b)
        BY <1>8, BufferIsLarge
      <3>4. [b EXCEPT ![2] = v] \in Seq(AnyByte) /\ Len([b EXCEPT ![2] = v]) = Len(b)
        BY <1>8, <3>3, ExceptSeq
      <3> QED
        BY <1>8, <3>1, <3>2, <3>4
    <2> QED
      BY <2>1, <2>2
  <1>11. /\ at' = "read" /\ UNCHANGED <<prog, now, events, since, log>>
         /\ asked' = IF Agreed' THEN asked + 1 ELSE asked
    BY DEF ReadOption, server
  <1>12. asked' = IF Agreed' THEN 1 ELSE 0
    BY <1>3, <1>11
  <1>13. net' = Pending(net, k) /\ status' \in [{"ECHO", "SGA"} -> {"none", "reply", "ack"}]
    BY <1>4, <1>6, <1>9
  <1> QED
    BY <1>2, <1>3, <1>7, <1>10, <1>11, <1>12, <1>13, SkipStep

(* What serial_get_rxtx receives when it has asked.                        *)
LEMMA PollStep ==
  ASSUME Inv, Poll
  PROVE  Inv'
  <1>1. ProgramOK /\ AskedOnce /\ OneReply
    BY DEF Inv
  <1>2. at = "read" /\ at # "start" /\ Agreed /\ prog = "get_rxtx" /\ net # <<>>
        /\ net \in Seq(AnyByte)
    BY <1>1 DEF Poll, ProgramOK
  <1>3. PICK k \in Lengths(BufLen - 1) :
          /\ net' = Pending(net, k)
          /\ \E b \in {Laid(Append(Received(net, k), NUL), 1)} :
               \/ buf' = b /\ (at' = at \/ at' = "start")
               \/ \E span \in Answer(b) : buf' = [b EXCEPT ![span[2]] = NUL] /\ at' = "sleep"
    BY DEF Poll, NoFile
  <1>4. PICK b :
          /\ b = Laid(Append(Received(net, k), NUL), 1)
          /\ \/ buf' = b /\ (at' = at \/ at' = "start")
             \/ \E span \in Answer(b) : buf' = [b EXCEPT ![span[2]] = NUL] /\ at' = "sleep"
    BY <1>3
  <1>5. /\ UNCHANGED <<prog, now, events, since, status, asked, log>>
    BY DEF Poll, server
  <1>6. k \in 1 .. Len(net) /\ k <= BufLen - 1
    <2>1. PICK n \in Nat \ {0} : n = BufLen - 1
      BY BufferIsLarge
    <2> QED
      BY <1>2, <2>1, LengthsAre
  <1>7. b \in Seq(AnyByte) /\ Len(b) = BufLen
    BY <1>1, <1>4, <1>6, PolledBuffer
  <1>8. PICK m \in Nat : m = Len(net) /\ k \in 0 .. m
    BY <1>2, <1>6, LenProperties
  <1>9. /\ net' \in Seq(AnyByte) /\ Len(net') = m - k
        /\ \A i \in 1 .. m - k : net'[i] = net[k + i]
    BY <1>2, <1>3, <1>8, Pieces
  <1>10. Clean(net') /\ (NoEcho(net) => NoEcho(net'))
    <2>1. Clean(net)
      BY <1>1, <1>2 DEF OneReply
    <2> QED
      BY <1>2, <1>3, <1>8, <2>1, Kept
  <1>11. ASSUME at' = "sleep"
         PROVE  /\ buf' \in Seq(AnyByte) /\ Len(buf') = BufLen
                /\ NoEcho(net') /\ asked = 0
    <2>1. PICK span \in Answer(b) : buf' = [b EXCEPT ![span[2]] = NUL]
      BY <1>2, <1>4, <1>11
    <2>2. /\ span[2] \in 1 .. BufLen
          /\ \E j \in 1 .. k - 1 : net[j] = "show" /\ EchoIn(net, now, j)
      BY <1>1, <1>2, <1>4, <1>6, AnswerIs
    <2>3. PICK j \in 1 .. k - 1 : net[j] = "show" /\ EchoIn(net, now, j)
      BY <2>2
    <2>4. buf' \in Seq(AnyByte) /\ Len(buf') = BufLen
      <3>1. PICK e \in 1 .. Len(b) : e = span[2]
        BY <1>7, <2>2
      <3>2. PICK v \in AnyByte : v = NUL
        BY ByteSets
      <3>3. [b EXCEPT ![e] = v] \in Seq(AnyByte) /\ Len([b EXCEPT ![e] = v]) = Len(b)
        BY <1>7, ExceptSeq
      <3> QED
        BY <1>7, <2>1, <3>1, <3>2, <3>3
    <2>5. j \in 1 .. m /\ m = j + 10
      BY <1>6, <1>8, <2>3 DEF EchoIn
    <2>6. ~NoEcho(net)
      BY <1>8, <2>3, <2>5 DEF NoEcho
    <2>7. asked = 0
      BY <1>1, <1>2, <2>6 DEF OneReply, AskedOnce
    <2>8. ASSUME NEW i \in 1 .. m - k, net'[i] = "show"
          PROVE  FALSE
      <3>1. PICK q : q = k + i
        OBVIOUS
      <3>2. q \in 1 .. m /\ q > j
        BY <1>8, <2>3, <3>1
      <3>3. net[q] = "show"
        BY <1>9, <2>8, <3>1
      <3>4. EchoIn(net, now, q)
        BY <1>1, <1>2, <1>8, <3>2, <3>3 DEF OneReply
      <3>5. m = q + 10
        BY <1>8, <3>4 DEF EchoIn
      <3> QED
        BY <2>5, <3>2, <3>5
    <2>9. NoEcho(net')
      BY <1>9, <2>8 DEF NoEcho
    <2> QED
      BY <2>4, <2>7, <2>9
  <1>12. buf' \in Seq(AnyByte) /\ Len(buf') = BufLen
    BY <1>4, <1>7, <1>11
  <1>13. at' \in {"read", "start", "sleep"}
    BY <1>2, <1>4
  <1>14. Agreed'
    BY <1>2, <1>5 DEF Agreed
  <1>15. ProgramOK'
    BY <1>1, <1>2, <1>5, <1>9, <1>12, <1>13 DEF ProgramOK
  <1>16. AskedOnce'
    BY <1>1, <1>2, <1>5, <1>11, <1>13, <1>14 DEF AskedOnce
  <1>17. OneReply'
    <2>1. asked' = 1 \/ at' = "sleep" \/ ~Agreed' => NoEcho(net')
      BY <1>1, <1>2, <1>5, <1>10, <1>11, <1>14 DEF OneReply
    <2>2. ASSUME NEW i \in 1 .. Len(net'), net'[i] = "show"
          PROVE  EchoIn(net', now', i)
      <3>1. PICK s, n : s = net' /\ n = now
        OBVIOUS
      <3>2. PICK q : q = k + i
        OBVIOUS
      <3>3. i \in 1 .. m - k /\ q \in 1 .. m
        BY <1>8, <1>9, <2>2, <3>2
      <3>4. net[q] = "show"
        BY <1>9, <2>2, <3>2, <3>3
      <3>5. EchoIn(net, now, q)
        BY <1>1, <1>2, <1>8, <3>3, <3>4 DEF OneReply
      <3>6. m = q + 10 /\ Len(s) = i + 10
        BY <1>8, <1>9, <3>1, <3>2, <3>3, <3>5 DEF EchoIn
      <3>7. \A d \in 1 .. 10 : s[i + d] = net[q + d]
        <4>1. \A d \in 1 .. 10 : i + d \in 1 .. m - k /\ k + (i + d) = q + d
          BY <1>8, <3>2, <3>3, <3>6
        <4> QED
          BY <1>9, <3>1, <4>1
      <3>8. /\ s[i + 1] = net[q + 1] /\ s[i + 2] = net[q + 2] /\ s[i + 3] = net[q + 3]
            /\ s[i + 4] = net[q + 4] /\ s[i + 5] = net[q + 5] /\ s[i + 6] = net[q + 6]
            /\ s[i + 7] = net[q + 7] /\ s[i + 8] = net[q + 8] /\ s[i + 9] = net[q + 9]
            /\ s[i + 10] = net[q + 10]
        BY <3>7
      <3>9. EchoIn(s, n, i)
        BY <3>1, <3>5, <3>6, <3>8, Zenon DEF EchoIn
      <3> QED
        BY <1>5, <3>1, <3>9
    <2> QED
      BY <1>10, <2>1, <2>2 DEF OneReply
  <1>18. LogFollows'
    BY <1>2, <1>5 DEF LogFollows
  <1> QED
    BY <1>15, <1>16, <1>17, <1>18 DEF Inv

(* Concatenation in another order.                                         *)
LEMMA Regrouped ==
  ASSUME NEW a \in Seq(AnyByte), NEW b \in Seq(AnyByte), NEW c \in Seq(AnyByte)
  PROVE  a \o (b \o c) = (a \o b) \o c
  <1>1. (a \o b) \o c = a \o (b \o c)
    BY ConcatAssociative
  <1> QED
    BY <1>1, Zenon

(* serial_get_rxtx asks again when all of the answer has been taken.       *)
LEMMA AskAgainStep ==
  ASSUME Inv, AskAgain
  PROVE  Inv'
  <1>1. ProgramOK /\ AskedOnce /\ OneReply
    BY DEF Inv
  <1>2. /\ at = "sleep" /\ at' = "read" /\ asked' = asked + 1
        /\ UNCHANGED <<prog, net, now, events, since, buf, status, log>>
    BY DEF AskAgain, server
  <1>3. prog = "get_rxtx" /\ asked = 0 /\ Agreed
    BY <1>1, <1>2 DEF ProgramOK, AskedOnce
  <1>4. Agreed'
    BY <1>2, <1>3 DEF Agreed
  <1>5. ProgramOK'
    BY <1>1, <1>2 DEF ProgramOK
  <1>6. AskedOnce'
    BY <1>2, <1>3, <1>4 DEF AskedOnce
  <1>7. Clean(net) /\ NoEcho(net)
    BY <1>1, <1>2, <1>3 DEF OneReply
  <1>8. OneReply'
    <2>1. Clean(net') /\ NoEcho(net')
      BY <1>2, <1>7
    <2> QED
      BY <2>1 DEF OneReply, NoEcho
  <1>9. LogFollows'
    BY <1>2, <1>3 DEF LogFollows
  <1> QED
    BY <1>5, <1>6, <1>8, <1>9 DEF Inv

(* What serial_monitor receives goes from the stream to the log.           *)
LEMMA CopyStep ==
  ASSUME Inv, Copy
  PROVE  Inv'
  <1>1. ProgramOK /\ AskedOnce /\ LogFollows
    BY DEF Inv
  <1>2. at = "read" /\ Agreed /\ prog = "monitor" /\ net # <<>>
        /\ net \in Seq(AnyByte) /\ log \in Seq(AnyByte)
    BY <1>1 DEF Copy, ProgramOK
  <1>3. PICK k \in Lengths(BufLen - 1) :
          /\ buf' = Laid(Received(net, k), 1)
          /\ net' = Pending(net, k)
          /\ \/ log' = log \o Received(net, k) /\ at' = at
             \/ at' = "start" /\ log' = log
    BY DEF Copy, NoFile
  <1>4. UNCHANGED <<prog, now, events, since, status, asked>>
    BY DEF Copy, server
  <1>5. k \in 1 .. Len(net) /\ k <= BufLen - 1 /\ k \in 0 .. Len(net)
    <2>1. PICK n \in Nat \ {0} : n = BufLen - 1
      BY BufferIsLarge
    <2>2. k \in 1 .. Len(net) /\ k <= BufLen - 1
      BY <1>2, <2>1, LengthsAre
    <2> QED
      BY <1>2, <2>2, LenProperties
  <1>6. PICK r, q : r = Received(net, k) /\ q = Pending(net, k)
    OBVIOUS
  <1>7. r \in Seq(AnyByte) /\ Len(r) = k /\ q \in Seq(AnyByte) /\ r \o q = net
    BY <1>2, <1>5, <1>6, Pieces
  <1>8. buf' \in Seq(AnyByte) /\ Len(buf') = BufLen
    <2>1. PICK n \in Nat \ {0} : n = 1
      OBVIOUS
    <2>2. n - 1 + Len(r) <= BufLen
      BY <1>5, <1>7, <2>1, BufferIsLarge
    <2>3. buf' = Laid(r, n)
      BY <1>3, <1>6, <2>1
    <2> QED
      BY <1>1, <1>7, <2>2, <2>3, LaidIs DEF ProgramOK
  <1>9. log \o r \in Seq(AnyByte)
    BY <1>2, <1>7, ConcatProperties
  <1>10. ProgramOK'
    <2>1. log' \in Seq(AnyByte) /\ net' \in Seq(AnyByte) /\ at' \in {"read", "start"}
      BY <1>2, <1>3, <1>6, <1>7, <1>9
    <2> QED
      BY <1>1, <1>4, <1>8, <2>1 DEF ProgramOK
  <1>11. Agreed'
    BY <1>2, <1>4 DEF Agreed
  <1>12. AskedOnce'
    <2>1. asked \in 0 .. 1
      BY <1>1, <1>2 DEF AskedOnce
    <2>2. at' \in {"read", "start"}
      BY <1>2, <1>3
    <2> QED
      BY <1>4, <1>11, <2>1, <2>2 DEF AskedOnce
  <1>13. OneReply'
    BY <1>2, <1>4 DEF OneReply
  <1>14. LogFollows'
    <2> SUFFICES ASSUME at' # "start"
                 PROVE  /\ asked' = 1 => events' = since'
                        /\ \E front \in Seq(AnyByte) :
                             Clean(front) /\ log' \o net' = front \o Passed'
      BY <1>11 DEF LogFollows
    <2>1. log' = log \o r /\ net' = q
      BY <1>3, <1>6
    <2>2. (log \o r) \o q = log \o (r \o q)
      BY <1>2, <1>7, Regrouped, Zenon
    <2>3. log' \o net' = log \o net
      BY <1>7, <2>1, <2>2
    <2>4. Passed' = Passed
      BY <1>4 DEF Passed
    <2>5. PICK front \in Seq(AnyByte) : Clean(front) /\ log \o net = front \o Passed
      BY <1>1, <1>2 DEF LogFollows
    <2>6. asked' = 1 => events' = since'
      BY <1>1, <1>2, <1>4 DEF LogFollows
    <2> QED
      BY <2>3, <2>4, <2>5, <2>6
  <1> QED
    BY <1>10, <1>12, <1>13, <1>14 DEF Inv

(* What the server sends to serial_monitor by itself.                      *)
LEMMA MonitorServed ==
  ASSUME NEW s \in Seq(AnyByte), Clean(s), NEW t \in Seq(AnyByte)
  PROVE  /\ t \o CRLF \o Prompt \in Seq(AnyByte)
         /\ s \o CRLF \o Prompt \in Seq(AnyByte)
         /\ Clean(s \o CRLF \o Prompt)
  <1>1. PICK c, p : c = CRLF /\ p = Prompt
    OBVIOUS
  <1>2. c \in Seq(AnyByte) /\ Clean(c)
    <2>1. {"\r", "\n"} \subseteq Protocol /\ {"\r", "\n"} \subseteq AnyByte
      BY DEF Protocol, AnyByte, ReplyBytes
    <2>2. CRLF \in Seq(AnyByte)
      BY <2>1 DEF CRLF
    <2>3. Len(CRLF) = 2 /\ CRLF[1] = "\r" /\ CRLF[2] = "\n"
      BY DEF CRLF
    <2>4. \A i \in 1 .. 2 : i = 1 \/ i = 2
      OBVIOUS
    <2> QED
      BY <1>1, <2>1, <2>2, <2>3, <2>4 DEF Clean
  <1>3. p \in Seq(AnyByte) /\ Clean(p)
    BY <1>1, PromptIs, ByteSets DEF Clean, Protocol
  <1>4. t \o c \in Seq(AnyByte) /\ s \o c \in Seq(AnyByte)
    BY <1>2, ConcatProperties
  <1>5. (t \o c) \o p \in Seq(AnyByte) /\ (s \o c) \o p \in Seq(AnyByte)
    BY <1>3, <1>4, ConcatProperties
  <1>6. Clean(s \o c)
    BY <1>2, CleanJoined
  <1>7. Clean((s \o c) \o p)
    BY <1>3, <1>4, <1>6, CleanJoined
  <1> QED
    BY <1>1, <1>5, <1>7

(* The server answers.                                                     *)
LEMMA ServeStep ==
  ASSUME Inv, Serve
  PROVE  Inv'
  <1>1. ProgramOK /\ AskedOnce /\ OneReply /\ LogFollows
    BY DEF Inv
  <1>2. /\ at # "start" /\ asked > 0 /\ asked' = asked - 1
        /\ UNCHANGED <<prog, at, events, since, buf, status, log>>
    BY DEF Serve
  <1>3. asked = 1 /\ asked' = 0 /\ Agreed /\ at # "sleep"
    BY <1>1, <1>2 DEF AskedOnce
  <1>4. Agreed'
    BY <1>2, <1>3 DEF Agreed
  <1>5. AskedOnce'
    BY <1>1, <1>2, <1>3, <1>4 DEF AskedOnce
  <1>6. net \in Seq(AnyByte) /\ log \in Seq(AnyByte)
    BY <1>1 DEF ProgramOK
  <1>7. CASE prog = "get_rxtx"
    <2>1. PICK n : n = now' /\ n \in {"0", "1"}
      <3>1. now' = Flip(now)
        BY <1>7 DEF Serve
      <3> QED
        BY <3>1 DEF Flip
    <2>2. PICK r : r = net'
      OBVIOUS
    <2>3. r = net \o Reply(n) \o Prompt
      BY <1>7, <2>1, <2>2 DEF Serve
    <2>4. Clean(net) /\ NoEcho(net)
      BY <1>1, <1>2, <1>3, <1>7 DEF OneReply
    <2>5. /\ r \in Seq(AnyByte) /\ Clean(r)
          /\ \A j \in 1 .. Len(r) : r[j] = "show" => EchoIn(r, n, j)
      BY <1>6, <2>1, <2>3, <2>4, Served
    <2>6. ProgramOK'
      BY <1>1, <1>2, <2>1, <2>2, <2>5 DEF ProgramOK
    <2>7. OneReply'
      <3>1. ~(asked' = 1 \/ at' = "sleep" \/ ~Agreed')
        BY <1>2, <1>3, <1>4
      <3>2. /\ Clean(net')
            /\ \A j \in 1 .. Len(net') : net'[j] = "show" => EchoIn(net', now', j)
        BY <2>1, <2>2, <2>5, Zenon
      <3> QED
        BY <3>1, <3>2, Zenon DEF OneReply
    <2>8. LogFollows'
      BY <1>2, <1>7 DEF LogFollows
    <2> QED
      BY <1>5, <2>6, <2>7, <2>8 DEF Inv
  <1>8. CASE prog = "monitor"
    <2>1. net' = net \o CRLF \o Prompt /\ now' = now
      BY <1>8 DEF Serve
    <2>2. events = since
      BY <1>1, <1>2, <1>3, <1>8 DEF LogFollows
    <2>3. Passed = <<>> /\ Passed' = <<>>
      <3>1. events \in 0 .. Len(Traffic) /\ events \in events .. Len(Traffic)
        BY <1>1, ByteSets DEF ProgramOK
      <3>2. SubSeq(Traffic, events + 1, events) = <<>>
        BY <3>1, PassedIs
      <3> QED
        BY <1>2, <2>2, <3>2 DEF Passed
    <2>4. PICK front \in Seq(AnyByte) : Clean(front) /\ log \o net = front \o Passed
      BY <1>1, <1>2, <1>8 DEF LogFollows
    <2>5. log \o net = front
      <3>1. front \o <<>> = front
        BY ConcatEmptySeq
      <3> QED
        BY <2>3, <2>4, <3>1
    <2>6. PICK new : new = front \o CRLF \o Prompt
      OBVIOUS
    <2>7. net' \in Seq(AnyByte) /\ new \in Seq(AnyByte) /\ Clean(new)
      BY <1>6, <2>1, <2>4, <2>6, MonitorServed
    <2>8. log \o net' = new
      <3>1. PICK c, p : c = CRLF /\ p = Prompt
        OBVIOUS
      <3>2. c \in Seq(AnyByte) /\ p \in Seq(AnyByte)
        <4>1. {"\r", "\n"} \subseteq AnyByte
          BY DEF Protocol, AnyByte, ReplyBytes
        <4>2. CRLF \in Seq(AnyByte)
          BY <4>1 DEF CRLF
        <4> QED
          BY <3>1, <4>2, PromptIs
      <3>3. net \o c \in Seq(AnyByte)
        BY <1>6, <3>2, ConcatProperties
      <3>4. log \o ((net \o c) \o p) = (log \o (net \o c)) \o p
        <4>1. PICK d \in Seq(AnyByte) : d = net \o c
          BY <3>3
        <4>2. log \o (d \o p) = (log \o d) \o p
          BY <1>6, <3>2, Regrouped, Zenon
        <4> QED
          BY <4>1, <4>2, Zenon
      <3>5. log \o (net \o c) = (log \o net) \o c
        BY <1>6, <3>2, Regrouped, Zenon
      <3> QED
        BY <2>1, <2>5, <2>6, <3>1, <3>4, <3>5, Zenon
    <2>9. ProgramOK'
      BY <1>1, <1>2, <2>1, <2>7 DEF ProgramOK
    <2>10. OneReply'
      BY <1>2, <1>8 DEF OneReply
    <2>11. LogFollows'
      <3>1. new \o <<>> = new
        BY <2>7, ConcatEmptySeq
      <3>2. log' \o net' = new \o Passed'
        BY <1>2, <2>3, <2>8, <3>1
      <3>3. \E f \in Seq(AnyByte) : Clean(f) /\ log' \o net' = f \o Passed'
        BY <2>7, <3>2
      <3>4. ~(asked' = 1 \/ ~Agreed')
        BY <1>3, <1>4
      <3> QED
        BY <3>3, <3>4, Zenon DEF LogFollows
    <2> QED
      BY <1>5, <2>9, <2>10, <2>11 DEF Inv
  <1> QED
    BY <1>1, <1>7, <1>8 DEF ProgramOK

(* Something passes on the line.                                           *)
LEMMA EventStep ==
  ASSUME Inv, Event
  PROVE  Inv'
  <1>1. ProgramOK /\ AskedOnce /\ LogFollows
    BY DEF Inv
  <1>2. /\ prog = "monitor" /\ Agreed /\ asked = 0 /\ at # "start" /\ events < Len(Traffic)
        /\ events' = events + 1 /\ net' = Append(net, Traffic[events + 1])
        /\ UNCHANGED <<prog, at, now, since, buf, status, asked, log>>
    BY DEF Event
  <1>3. PICK n \in Nat : n = Len(Traffic)
    BY ByteSets
  <1>4. events \in 0 .. n /\ since \in 0 .. events /\ events + 1 \in 1 .. n
    BY <1>1, <1>2, <1>3 DEF ProgramOK
  <1>5. PICK x \in AnyByte : x = Traffic[events + 1]
    BY <1>3, <1>4, ByteSets
  <1>6. net \in Seq(AnyByte) /\ log \in Seq(AnyByte)
    BY <1>1 DEF ProgramOK
  <1>7. net' \in Seq(AnyByte) /\ net' = net \o <<x>> /\ <<x>> \in Seq(AnyByte)
    BY <1>2, <1>5, <1>6, AppendProperties, AppendIsConcat
  <1>8. Agreed'
    BY <1>2 DEF Agreed
  <1>9. ProgramOK'
    <2>1. events' \in 0 .. Len(Traffic) /\ since' \in 0 .. events'
      BY <1>2, <1>3, <1>4
    <2> QED
      BY <1>1, <1>2, <1>7, <2>1 DEF ProgramOK
  <1>10. AskedOnce'
    BY <1>1, <1>2, <1>8 DEF AskedOnce
  <1>11. OneReply'
    BY <1>2 DEF OneReply
  <1>12. Passed \in Seq(AnyByte) /\ Passed' = Passed \o <<x>>
    <2>1. since \in 0 .. Len(Traffic) /\ events \in since .. Len(Traffic)
      BY <1>3, <1>4
    <2>2. /\ SubSeq(Traffic, since + 1, events) \in Seq(AnyByte)
          /\ SubSeq(Traffic, since + 1, events + 1)
               = SubSeq(Traffic, since + 1, events) \o <<Traffic[events + 1]>>
      BY <1>2, <2>1, PassedIs
    <2> QED
      BY <1>2, <1>5, <2>2 DEF Passed
  <1>13. PICK front \in Seq(AnyByte) : Clean(front) /\ log \o net = front \o Passed
    BY <1>1, <1>2 DEF LogFollows
  <1>14. log' \o net' = front \o Passed'
    <2>1. PICK y, t : y = <<x>> /\ t = Passed
      OBVIOUS
    <2>2. log \o (net \o y) = (log \o net) \o y
      BY <1>6, <1>7, <2>1, Regrouped, Zenon
    <2>3. front \o (t \o y) = (front \o t) \o y
      BY <1>7, <1>12, <2>1, Regrouped, Zenon
    <2> QED
      BY <1>2, <1>7, <1>12, <1>13, <2>1, <2>2, <2>3, Zenon
  <1>15. LogFollows'
    BY <1>2, <1>8, <1>13, <1>14 DEF LogFollows
  <1> QED
    BY <1>9, <1>10, <1>11, <1>15 DEF Inv

(* What the programs start from.                                           *)
LEMMA InitInv ==
  ASSUME Init
  PROVE  Inv
  <1>1. /\ prog \in {"get_rxtx", "monitor"} /\ at = "start" /\ buf \in Garbage
        /\ status = [o \in {"ECHO", "SGA"} |-> "none"]
        /\ now = "0" /\ events = 0 /\ since = 0 /\ net = <<>> /\ log = <<>>
    BY DEF Init
  <1>2. buf \in Seq(AnyByte) /\ Len(buf) = BufLen
    BY <1>1, GarbageIs
  <1>3. <<>> \in Seq(AnyByte)
    BY EmptySeq
  <1>4. events \in 0 .. Len(Traffic) /\ since \in 0 .. events
    BY <1>1, ByteSets
  <1> QED
    BY <1>1, <1>2, <1>3, <1>4 DEF Inv, ProgramOK, AskedOnce, OneReply, LogFollows

(* Every step keeps the invariant.                                         *)
LEMMA Inductive ==
  ASSUME Inv, [Next]_vars
  PROVE  Inv'
  <1>1. CASE Connect
    <2>1. Dial("get_rxtx") /\ log' = log
      BY <1>1 DEF Connect
    <2>2. log' \in Seq(AnyByte)
      BY <2>1 DEF Inv, ProgramOK
    <2> QED
      BY <2>1, <2>2, DialStep
  <1>2. CASE MonitorConnect
    <2>1. Dial("monitor") /\ log' = <<>>
      BY <1>2 DEF MonitorConnect
    <2>2. log' \in Seq(AnyByte)
      BY <2>1, EmptySeq
    <2> QED
      BY <2>1, <2>2, DialStep
  <1>3. CASE ReadByte
    BY <1>3, ReadByteStep
  <1>4. CASE ReadOption
    BY <1>4, ReadOptionStep
  <1>5. CASE Poll
    BY <1>5, PollStep
  <1>6. CASE AskAgain
    BY <1>6, AskAgainStep
  <1>7. CASE Copy
    BY <1>7, CopyStep
  <1>8. CASE Ended
    <2>1. ProgramOK
      BY DEF Inv
    <2>2. /\ at' = "start"
          /\ UNCHANGED <<prog, net, now, events, since, buf, status, log>>
      BY <1>8 DEF Ended, server
    <2>3. ProgramOK'
      BY <2>1, <2>2 DEF ProgramOK
    <2> QED
      BY <2>2, <2>3 DEF Inv, AskedOnce, OneReply, LogFollows
  <1>9. CASE Serve
    BY <1>9, ServeStep
  <1>10. CASE Event
    BY <1>10, EventStep
  <1>11. CASE Close \/ UNCHANGED vars
    <2>1. UNCHANGED <<prog, at, net, now, events, since, buf, status, asked, log>>
      BY <1>11 DEF Close, vars, server
    <2>2. Agreed' = Agreed /\ Passed' = Passed
      BY <2>1 DEF Agreed, Passed
    <2>3. ProgramOK' /\ AskedOnce'
      BY <2>1, <2>2 DEF Inv, ProgramOK, AskedOnce
    <2>4. OneReply'
      BY <2>1, <2>2 DEF Inv, OneReply
    <2>5. LogFollows'
      BY <2>1, <2>2 DEF Inv, LogFollows
    <2> QED
      BY <2>3, <2>4, <2>5 DEF Inv
  <1> QED
    BY <1>1, <1>2, <1>3, <1>4, <1>5, <1>6, <1>7, <1>8, <1>9, <1>10, <1>11 DEF Next, Program

(* What is in front of the traffic has none of it.                         *)
LEMMA LogIsWhole ==
  ASSUME Inv
  PROVE  LogHasNoGap
  <1> SUFFICES ASSUME at = "read", prog = "monitor", NEW got, got = log \o net
               PROVE  \E k \in 0 .. Len(got) :
                        /\ SubSeq(got, k + 1, Len(got)) = SubSeq(Traffic, since + 1, events)
                        /\ \A j \in 1 .. k : ~IsTraffic(got[j])
    BY DEF LogHasNoGap
  <1>1. ProgramOK
    BY DEF Inv
  <1>2. PICK front \in Seq(AnyByte) : Clean(front) /\ log \o net = front \o Passed
    BY DEF Inv, LogFollows
  <1>3. PICK p \in Seq(AnyByte) : p = Passed
    <2>1. since \in 0 .. Len(Traffic) /\ events \in since .. Len(Traffic)
      BY <1>1, ByteSets DEF ProgramOK
    <2> QED
      BY <2>1, PassedIs DEF Passed
  <1>4. PICK k \in Nat, n \in Nat : k = Len(front) /\ n = Len(p)
    BY LenProperties
  <1>5. PICK g : g = got
    OBVIOUS
  <1>6. /\ g \in Seq(AnyByte) /\ Len(g) = k + n
        /\ \A i \in 1 .. k + n : g[i] = IF i <= k THEN front[i] ELSE p[i - k]
    <2>1. g = front \o p
      BY <1>2, <1>3, <1>5
    <2>2. /\ g \in Seq(AnyByte) /\ Len(g) = Len(front) + Len(p)
          /\ \A i \in 1 .. Len(front) + Len(p) :
               g[i] = IF i <= Len(front) THEN front[i] ELSE p[i - Len(front)]
      BY <2>1, Joined
    <2> QED
      BY <1>4, <2>2
  <1>7. k \in 0 .. Len(g)
    BY <1>6
  <1>8. PICK t : t = Pending(g, k)
    OBVIOUS
  <1>9. t \in Seq(AnyByte) /\ Len(t) = n /\ \A i \in 1 .. n : t[i] = g[k + i]
    <2>1. /\ t \in Seq(AnyByte) /\ Len(t) = Len(g) - k
          /\ \A i \in 1 .. Len(g) - k : t[i] = g[k + i]
      BY <1>6, <1>7, <1>8, Pieces
    <2>2. Len(g) - k = n
      BY <1>6
    <2> QED
      BY <2>1, <2>2
  <1>10. \A i \in 1 .. n : t[i] = p[i]
    <2> SUFFICES ASSUME NEW i \in 1 .. n
                 PROVE  t[i] = p[i]
      OBVIOUS
    <2>1. PICK q : q = k + i
      OBVIOUS
    <2>2. q \in 1 .. k + n /\ ~(q <= k) /\ q - k = i
      BY <2>1
    <2>3. g[q] = p[i]
      BY <1>6, <2>2
    <2> QED
      BY <1>9, <2>1, <2>3
  <1>11. t = p
    BY <1>4, <1>9, <1>10, SeqEqual
  <1>12. SubSeq(g, k + 1, Len(g)) = SubSeq(Traffic, since + 1, events)
    BY <1>3, <1>8, <1>11 DEF Pending, Passed
  <1>13. ASSUME NEW j \in 1 .. k
         PROVE  ~IsTraffic(g[j])
    <2>1. g[j] = front[j]
      BY <1>6
    <2>2. g[j] \in Protocol
      BY <1>2, <1>4, <2>1 DEF Clean
    <2> QED
      BY <2>2, ByteSets DEF IsTraffic
  <1> QED
    BY <1>5, <1>7, <1>12, <1>13

-----------------------------------------------------------------------------
(* In every state the log of serial_monitor and what it has still to       *)
(* receive end with all that has passed on the line since it was started,  *)
(* in order, once, and have nothing of it in front.                        *)
THEOREM LogIsGapless == Spec => []LogHasNoGap
  <1>1. Init => Inv
    BY InitInv
  <1>2. Inv /\ [Next]_vars => Inv'
    BY Inductive
  <1>3. Inv => LogHasNoGap
    BY LogIsWhole
  <1> QED
    BY <1>1, <1>2, <1>3, PTL DEF Spec

(* Whenever serial_get_rxtx writes its file, it writes the counters the    *)
(* server has told last, whole, unless the recv ended right behind the     *)
(* echo of the command.                                                    *)
THEOREM FileIsTheAnswer == Spec => FileIsAnswer
  <1>1. Init => Inv
    BY InitInv
  <1>2. Inv /\ [Next]_vars => Inv'
    BY Inductive
  <1>3. Inv /\ [Next]_vars => [file' # file => file' = Counters(now) \/ BehindEcho(net')]_vars
    BY FileStep
  <1> QED
    BY <1>1, <1>2, <1>3, PTL DEF Spec, FileIsAnswer
=============================================================================
