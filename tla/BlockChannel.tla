---------------------------- MODULE BlockChannel ----------------------------
(***************************************************************************)
(* What PutBlock and GetBlock promise: a one-way channel of whole blocks   *)
(* between two processes, either of which may stop early.  BlockStream     *)
(* implements this over a byte stream.                                     *)
(***************************************************************************)
EXTENDS Naturals

CONSTANT Limit   \* no list has more blocks than this

VARIABLES
    total,     \* how many blocks there are to send, the empty terminator included
    sent,      \* how many of them are wholly on the channel
    received,  \* how many of them the server has printed
    client,    \* "running", "done" or "stopped"
    server
chanVars == <<total, sent, received, client, server>>

ChanInit ==
    /\ total \in 1..Limit
    /\ sent = 0 /\ received = 0
    /\ client = "running" /\ server = "running"

\* The last byte of the next block goes onto the channel.
Put == /\ client = "running" /\ sent < total
       /\ sent' = sent + 1
       /\ UNCHANGED <<total, received, client, server>>

\* The server prints the next block; the terminator is not printed.
Get == /\ server = "running" /\ received < sent /\ received + 1 < total
       /\ received' = received + 1
       /\ UNCHANGED <<total, sent, client, server>>

\* The client closes the connection after the terminator.
ClientDone == /\ client = "running" /\ sent = total
              /\ client' = "done"
              /\ UNCHANGED <<total, sent, received, server>>

\* The server has read the terminator, so it has printed all the others.
ServerDone == /\ server = "running" /\ sent = total /\ received = total - 1
              /\ server' = "done"
              /\ UNCHANGED <<total, sent, received, client>>

\* A crash or an error of the client.
ClientStops == /\ client = "running"
               /\ client' = "stopped"
               /\ UNCHANGED <<total, sent, received, server>>

\* A crash of the server, at any time; its giving up on a client that stopped,
\* only when it has received all there was.
ServerStops(crash) ==
    /\ server = "running"
    /\ crash \/ (client = "stopped" /\ received = sent)
    /\ server' = IF crash THEN "crashed" ELSE "stopped"
    /\ UNCHANGED <<total, sent, received, client>>

ChanNext == \/ Put \/ Get \/ ClientDone \/ ServerDone \/ ClientStops
            \/ \E crash \in BOOLEAN : ServerStops(crash)

ChanSpec == ChanInit /\ [][ChanNext]_chanVars
=============================================================================
