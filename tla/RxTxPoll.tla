------------------------------- MODULE RxTxPoll -------------------------------
(***************************************************************************)
(* serial_get_rxtx and serial_monitor: the two programs that talk to the   *)
(* control port of a serial port's ser2net over telnet.  Both answer the   *)
(* options the server opens with, byte by byte, until ECHO and SGA have    *)
(* been offered, and then send their command.  serial_get_rxtx asks for    *)
(* the byte counters, takes the answer out of what one recv returns,       *)
(* writes it to the file the status pages show, and asks again three       *)
(* seconds later; serial_monitor asks once and copies all it receives to   *)
(* a log device.  systemd starts a program that has ended again.           *)
(*                                                                         *)
(* The TCP connection is a sequence of bytes: a recv returns any part of   *)
(* it from the front on.  A byte that matters by itself is a token; the    *)
(* command is two tokens, so that it can be cut, and a pair of counters is *)
(* two.  Some 1000 bytes of the buffer are never reached and left out.     *)
(* The server is external, and modelled from what the programs look for.   *)
(***************************************************************************)
EXTENDS Naturals, Sequences, FiniteSets, Functions, FiniteSetsExt

CONSTANTS
  Greetings,  \* the options the server may open with, as sequences of pairs
  BufLen,     \* bytes of the buffer that are modelled
  Garbage,    \* what the buffer may hold when the program starts
  Traffic,    \* what passes on the line serial_monitor watches, in order
  MaxFaults,  \* bound: connections closed and files refused
  MaxParts    \* bound: recvs that return a part of what has been sent

IAC == "IAC"
NUL == "nul"
CRLF == <<"\r", "\n">>
Command == <<"show", "rxtx">>
Prompt == <<"-", ">", "blank">>
Counters(n) == <<"rx", n>>
Reply(n) == Command \o CRLF \o Counters(n) \o CRLF
ReplyBytes == {"show", "rxtx", "\r", "\n", "rx", "0", "1"}
Options == {"ECHO", "SGA", "NAWS", "BINARY"}
Verbs == {"WILL", "WONT", "DO", "DONT"}

ASSUME GreetingAssumption ==
  \A g \in Greetings :
    /\ g \in Seq(Verbs \X Options)
    /\ \A opt \in {"ECHO", "SGA"} : \E k \in DOMAIN g : g[k] = <<"WILL", opt>>
ASSUME BufferAssumption ==
  /\ BufLen \in Nat /\ BufLen > Len(Prompt) + Len(Reply("0"))
  /\ \A g \in Garbage : g \in [1..BufLen -> ReplyBytes \cup {"?"}]

(* What passes on the line is told apart from what the server sends.       *)
ASSUME TrafficAssumption ==
  /\ Traffic \in Seq(Range(Traffic))
  /\ Range(Traffic) \cap
       (ReplyBytes \cup Verbs \cup Options \cup {IAC} \cup Range(Prompt)) = {}

VARIABLES
  prog,     \* which of the two programs
  at,       \* what it is at: start, read, verb, sleep
  net,      \* bytes sent by the server and not received yet
  open,     \* the server has the connection open
  buf,      \* the buffer of the program
  status,   \* cmd_ECHO_status and cmd_SGA_status
  sent,     \* the last answer to an option
  asked,    \* commands the server has not seen yet
  now,      \* the counters as the server last told them
  events,   \* how much of Traffic has passed
  file,     \* /tmp/serial_get_rxtx_N.txt
  log,      \* /tmp/serial_monitor_N
  faults,   \* counter
  parts,    \* counter
  since,    \* history: events when the program was started
  cut       \* history: a recv of this connection has split an option or a
            \* reply

server == <<open, now, events, since>>
vars == <<prog, at, net, server, buf, status, sent, asked, file, log, faults, parts, cut>>

-----------------------------------------------------------------------------
Flip(n) == IF n = "0" THEN "1" ELSE "0"

(* Three bytes for each option.                                            *)
Bytes(greeting) ==
  [k \in 1 .. 3 * Len(greeting) |->
     LET pair == greeting[(k + 2) \div 3] IN
     CASE k % 3 = 1 -> IAC [] k % 3 = 2 -> pair[1] [] k % 3 = 0 -> pair[2]]

(* What one recv may return of at most n bytes: all there is, or a part.   *)
Lengths(n) ==
  LET all == IF Len(net) < n THEN Len(net) ELSE n
  IN IF parts < MaxParts THEN 1..all ELSE {all}
Counts(k, n) ==
  parts' = IF k < Len(net) /\ k < n THEN parts + 1 ELSE parts

Received(s, k) == SubSeq(s, 1, k)
Pending(s, k) == SubSeq(s, k + 1, Len(s))

(* recv: bytes laid over the buffer from position k on.                    *)
Laid(bytes, k) ==
  SubSeq(buf, 1, k - 1) \o bytes \o SubSeq(buf, k + Len(bytes), BufLen)

(* strstr from position i of b on: 0, or where the pattern begins.         *)
StrStr(b, i, pattern) ==
  LET ends == {j \in i..BufLen : b[j] = NUL} \cup {BufLen + 1}
      found == {j \in i..(Min(ends) - Len(pattern)) :
                  SubSeq(b, j, j + Len(pattern) - 1) = pattern}
  IN IF found = {} THEN 0 ELSE Min(found)

(* Slip: an option counts when the server has acknowledged our answer too.  *)
AgreedAcked == \A opt \in {"ECHO", "SGA"} : status[opt] = "ack"

(* The first command is sent when both options have been answered.         *)
Agreed == \A opt \in {"ECHO", "SGA"} : status[opt] # "none"

(* How many bytes of the reply under way are still to come; a recv splits   *)
(* the reply if neither all nor none of them are, and it ends right behind  *)
(* the command if the line end that follows, or half of it, has not come.   *)
ToCome(rest) == Cardinality({k \in DOMAIN rest : rest[k] \in ReplyBytes})
Size == Len(Reply("0"))
Splits(rest) == ToCome(rest) \notin {0, Size}
BehindEcho(rest) == ToCome(rest) \in {Size - Len(Command), Size - Len(Command) - 1}
-----------------------------------------------------------------------------
(* A program starts and connects; a refused connection ends it, and it is  *)
(* started again, as if nothing had been.                                  *)
Dial(p) ==
  /\ at = "start" /\ prog = p
  /\ at' = "read"
  /\ \E g \in Greetings : net' = Bytes(g) \o Prompt
  /\ open' = TRUE
  /\ buf' \in Garbage
  /\ status' = [opt \in {"ECHO", "SGA"} |-> "none"]
  /\ sent' = <<>> /\ asked' = 0
  /\ since' = events /\ cut' = FALSE
  /\ UNCHANGED <<prog, now, events, file, faults, parts>>

Connect == Dial("get_rxtx") /\ UNCHANGED log

(* serial_monitor makes its log device again.                              *)
MonitorConnect == Dial("monitor") /\ log' = <<>>

(* The first byte of an option, or a byte that is skipped.                 *)
ReadByte ==
  /\ at = "read" /\ ~Agreed /\ net # <<>>
  /\ buf' = Laid(Received(net, 1), 1)
  /\ net' = Pending(net, 1)
  /\ at' = IF Head(net) = IAC THEN "verb" ELSE "read"
  /\ UNCHANGED <<prog, server, status, sent, asked, file, log, faults, parts, cut>>

(* negotiate, for the three bytes at the head of b: the option's new       *)
(* status, and the answer, or none.                                        *)
Answers(b) ==
  LET verb == b[2]
      opt == b[3]
      known == verb = "WILL" /\ opt \in DOMAIN status
  IN CASE known /\ status[opt] # "none" ->
            [status |-> [status EXCEPT ![opt] = "ack"], answer |-> <<>>]
       [] known /\ status[opt] = "none" ->
            [status |-> [status EXCEPT ![opt] = "reply"], answer |-> <<"DO", opt>>]
       [] verb = "WILL" /\ ~known -> [status |-> status, answer |-> <<"DO", opt>>]
       [] verb = "DO" /\ opt = "NAWS" -> [status |-> status, answer |-> <<"WILL", opt>>]
       [] verb = "DO" /\ opt # "NAWS" -> [status |-> status, answer |-> <<"WONT", opt>>]
       [] verb = "DONT" -> [status |-> status, answer |-> <<>>]
       [] OTHER -> [status |-> status, answer |-> <<verb, opt>>]

(* The two bytes that follow; recv may return the first of them only, and  *)
(* the third byte is then what the buffer held.  The command is sent as    *)
(* soon as both options have been offered.                                 *)
ReadOption ==
  /\ at = "verb" /\ net # <<>>
  /\ \E k \in Lengths(2) :
       /\ net' = Pending(net, k) /\ Counts(k, 2)
       /\ cut' = (cut \/ k = 1)
       /\ \E b \in {Laid(Received(net, k), 2)} : \E told \in {Answers(b)} :
            /\ buf' = IF told.answer = <<>> \/ told.answer[1] = "WILL" THEN b
                      ELSE [b EXCEPT ![2] = told.answer[1]]
            /\ status' = told.status
            /\ sent' = told.answer
  /\ asked' = IF Agreed' THEN asked + 1 ELSE asked
  /\ at' = "read"
  /\ UNCHANGED <<prog, server, file, log, faults>>

(* The file or the log cannot be opened: the program ends.                 *)
NoFile == faults < MaxFaults /\ faults' = faults + 1 /\ at' = "start"

(* Slip: the end of the answer is not looked for.                          *)
EndAnywhere(b, i) ==
  LET ends == {j \in i..BufLen : b[j] = NUL} IN IF ends = {} THEN 0 ELSE Min(ends)

AnswerEnd(b, i) == StrStr(b, i, CRLF)

(* The answer begins two bytes behind the echo of the command, which may   *)
(* be behind the end of what was received; nothing, or where it is.        *)
Answer(b) ==
  LET echo == StrStr(b, 1, Command)
      start == echo + Len(Command) + 2
  IN IF echo = 0 \/ AnswerEnd(b, start) = 0 THEN {}
     ELSE {<<start, AnswerEnd(b, start)>>}

(* serial_get_rxtx: what one recv returned.                                *)
Poll ==
  /\ at = "read" /\ Agreed /\ prog = "get_rxtx" /\ net # <<>>
  /\ \E k \in Lengths(BufLen - 1) :
       /\ net' = Pending(net, k) /\ Counts(k, BufLen - 1)
       /\ cut' = (cut \/ Splits(net'))
       /\ \E b \in {Laid(Append(Received(net, k), NUL), 1)} :
            \/ Answer(b) = {} /\ buf' = b /\ UNCHANGED <<at, file, faults>>
            \/ \E span \in Answer(b) :
                 /\ buf' = [b EXCEPT ![span[2]] = NUL]
                 /\ file' = SubSeq(b, span[1], span[2] - 1)
                 /\ at' = "sleep"
                 /\ UNCHANGED faults
            \/ Answer(b) # {} /\ NoFile /\ buf' = b /\ UNCHANGED file
  /\ UNCHANGED <<prog, server, status, sent, asked, log>>

AskAgain ==
  /\ at = "sleep"
  /\ asked' = asked + 1
  /\ at' = "read"
  /\ UNCHANGED <<prog, net, server, buf, status, sent, file, log, faults, parts, cut>>

(* Slip: what is left of the prompt is no traffic.                         *)
CopyTail ==
  /\ at = "read" /\ Agreed /\ prog = "monitor" /\ net # <<>>
  /\ \E k \in Lengths(BufLen - 1) :
       /\ buf' = Laid(Received(net, k), 1)
       /\ net' = Pending(net, k) /\ Counts(k, BufLen - 1)
       /\ log' = IF Head(net) \in {"-", ">", "blank"} THEN log ELSE log \o Received(net, k)
  /\ UNCHANGED <<prog, at, server, status, sent, asked, file, faults, cut>>

(* serial_monitor: all of it goes to the log.                              *)
Copy ==
  /\ at = "read" /\ Agreed /\ prog = "monitor" /\ net # <<>>
  /\ \E k \in Lengths(BufLen - 1) :
       /\ buf' = Laid(Received(net, k), 1)
       /\ net' = Pending(net, k) /\ Counts(k, BufLen - 1)
       /\ \/ log' = log \o Received(net, k) /\ UNCHANGED <<at, faults>>
          \/ NoFile /\ UNCHANGED log
  /\ UNCHANGED <<prog, server, status, sent, asked, file, cut>>

(* recv returns 0: the server has closed the connection.                   *)
Ended ==
  /\ at \in {"read", "verb"} /\ net = <<>> /\ ~open
  /\ at' = "start"
  /\ UNCHANGED <<prog, net, server, buf, status, sent, asked, file, log, faults, parts, cut>>
-----------------------------------------------------------------------------
(* The server (external): it echoes a command and answers it.              *)
Serve ==
  /\ open /\ at # "start" /\ asked > 0
  /\ asked' = asked - 1
  /\ IF prog = "get_rxtx"
       THEN now' = Flip(now) /\ net' = net \o Reply(now') \o Prompt
       ELSE net' = net \o CRLF \o Prompt /\ UNCHANGED now
  /\ UNCHANGED <<prog, at, open, events, since, buf, status, sent, file, log, faults, parts, cut>>

(* Something passes on the line the monitor watches.                       *)
Event ==
  /\ prog = "monitor" /\ open /\ Agreed /\ asked = 0 /\ at # "start"
  /\ events < Len(Traffic)
  /\ events' = events + 1
  /\ net' = Append(net, Traffic[events'])
  /\ UNCHANGED <<prog, at, open, now, since, buf, status, sent, asked, file, log, faults, parts,
                 cut>>

Close ==
  /\ open /\ at # "start"
  /\ faults < MaxFaults /\ faults' = faults + 1
  /\ open' = FALSE
  /\ UNCHANGED <<prog, at, net, now, events, since, buf, status, sent, asked, file, log, parts,
                 cut>>
-----------------------------------------------------------------------------
Init ==
  /\ prog \in {"get_rxtx", "monitor"}
  /\ at = "start" /\ net = <<>> /\ open = FALSE
  /\ buf \in Garbage
  /\ status = [opt \in {"ECHO", "SGA"} |-> "none"]
  /\ sent = <<>> /\ asked = 0 /\ now = "0" /\ events = 0 /\ since = 0
  /\ file = <<>> /\ log = <<>> /\ faults = 0 /\ parts = 0 /\ cut = FALSE

Program ==
  \/ Connect \/ MonitorConnect \/ ReadByte \/ ReadOption
  \/ Poll \/ AskAgain \/ Copy \/ Ended

Next == Program \/ Serve \/ Event \/ Close

(* systemd restarts the program, its select returns when there is          *)
(* something to read, and the server answers.                              *)
Spec == Init /\ [][Next]_vars /\ WF_vars(Program) /\ WF_vars(Serve)
-----------------------------------------------------------------------------
(* What serial_get_rxtx writes to the file are the counters the server has *)
(* told last, whole, however TCP cuts the stream, whatever of the greeting *)
(* and of the prompts is in front of the echo, and whatever earlier        *)
(* answers have left in the buffer; except when a recv ends right behind   *)
(* the command in the echo, and what is taken for the answer is read       *)
(* behind the end of what was received.                                    *)
FileIsAnswer ==
  [][file' # file =>
       file' = Counters(now) \/ BehindEcho(net')]_vars

(* serial_get_rxtx writes the file again and again, in whatever order the  *)
(* server offers its options and after however many restarts, unless a     *)
(* recv has cut an option or an answer in two: it does not ask again then, *)
(* and waits for ever.                                                     *)
KeepsPolling ==
  prog = "get_rxtx" => []<>(at = "sleep") \/ <>[]cut

IsTraffic(byte) == byte \in {Traffic[k] : k \in DOMAIN Traffic}

(* The log of serial_monitor, and then what it has still to receive, ends  *)
(* with all that has passed on the line since it was started, in order and *)
(* without a gap, and has nothing of it before that, however TCP cuts the  *)
(* stream and whatever of the greeting and the prompt is in front.         *)
LogHasNoGap ==
  at = "read" /\ prog = "monitor" =>
    LET got == log \o net IN
    \E k \in 0 .. Len(got) :
      /\ SubSeq(got, k + 1, Len(got)) = SubSeq(Traffic, since + 1, events)
      /\ \A j \in 1 .. k : ~IsTraffic(got[j])
=============================================================================
