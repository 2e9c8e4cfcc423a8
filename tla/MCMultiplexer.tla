--------------------------- MODULE MCMultiplexer ---------------------------
(* Multiplexer on three clients: the array of PollServer has room for two   *)
(* of them and SelectServer and EpollServer have descriptors for two.       *)
EXTENDS Multiplexer

MCSlots == [s \in Servers |-> CASE s = "select" -> 4
                                [] s = "poll" -> 3
                                [] s = "epoll" -> 0]
MCLimit == [s \in Servers |-> IF s = "poll" THEN 3 ELSE 2]
=============================================================================
