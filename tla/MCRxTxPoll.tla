----------------------------- MODULE MCRxTxPoll -----------------------------
(* Instances of RxTxPoll for TLC.                                          *)
EXTENDS RxTxPoll

CONSTANT Reached  \* where a line end may stand in the buffer by chance

(* What ser2net opens with, and two other orders with options between.     *)
MCGreetings ==
  { << <<"WILL", "SGA">>, <<"WILL", "ECHO">>, <<"DONT", "ECHO">> >>,
    << <<"WILL", "ECHO">>, <<"DO", "NAWS">>, <<"WILL", "ECHO">>, <<"WILL", "SGA">> >>,
    << <<"DO", "BINARY">>, <<"WILL", "BINARY">>, <<"WONT", "NAWS">>,
       <<"WILL", "SGA">>, <<"WILL", "ECHO">> >> }

MCGarbage ==
  {[j \in 1..BufLen |-> CASE j = k -> "\r" [] j = k + 1 -> "\n" [] OTHER -> "?"] :
     k \in Reached}

MCTraffic == <<"first", "second", "third">>
=============================================================================
