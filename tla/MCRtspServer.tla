----------------------------- MODULE MCRtspServer -----------------------------
(* One sender that may send any request at any time; two senders that keep    *)
(* the order and have few sockets; one that keeps it and may also go on for   *)
(* ever with requests that change nothing; and, for the run that is to find a *)
(* stream reclaimed, two that need not keep it.                              *)
EXTENDS RtspServer

CONSTANTS a, b

MCRude == [senders |-> {a}, orderly |-> FALSE, sockets |-> 8, moves |-> 5, starts |-> 1,
           requests |-> Kinds \ {"HUGE_HEADERS", "OTHER"}]
MCOrderly == [senders |-> {a, b}, orderly |-> TRUE, sockets |-> 6, moves |-> 7, starts |-> 1,
              requests |-> {"ANNOUNCE", "SETUP", "RECORD", "TEARDOWN"}]
MCChatty == [MCOrderly EXCEPT !.senders = {a}, !.moves = 5,
                              !.requests = @ \cup {"OTHER"}]
MCWorlds == {MCRude, MCOrderly, MCChatty}
MCReclaimWorlds == {[MCOrderly EXCEPT !.orderly = FALSE, !.sockets = 9, !.moves = 5]}
=============================================================================
