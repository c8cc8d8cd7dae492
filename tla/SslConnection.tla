---------------------------- MODULE SslConnection ----------------------------
(***************************************************************************)
(* One connection of a server with useSSL_: the client's TLS records go    *)
(* through muduo's buffer and readBio_ to OpenSSL, whose own records it    *)
(* leaves in writeBio_; conn_->send puts something on the wire.            *)
(*                                                                         *)
(* OpenSSL and the client are external.  A flight of handshake records is  *)
(* one record here: ClientHello, ServerFlight, ClientFinished,             *)
(* ServerFinished, then records that carry a request.                      *)
(***************************************************************************)
EXTENDS Naturals, Sequences

CONSTANT MaxRequests     \* bound on the requests of the client

VARIABLES
    client,        \* the client's view: start, hello, finished, open
    requests,      \* how many requests it has sent
    toServer, toClient,     \* records on the wire
    buf,           \* muduo's input buffer
    connected,     \* the server has not shut the connection down
    state_, readBio_, writeBio_,
    ssl            \* OpenSSL's view: start, flight, done, failed

net == <<toServer, toClient, connected>>
peer == <<client, requests>>
server == <<buf, state_, readBio_, writeBio_, ssl>>
vars == <<peer, net, server>>

(* onConnection: the constructor makes its own onRead the callback for       *)
(* messages; startHandshake finds readBio_ empty and wants to read.          *)
Init ==
    /\ client = "start" /\ requests = 0
    /\ toServer = <<>> /\ toClient = <<>> /\ connected = TRUE
    /\ buf = <<>>
    /\ state_ = "HANDSHAKE" /\ readBio_ = <<>> /\ writeBio_ = <<>>
    /\ ssl = "start"

-----------------------------------------------------------------------------
(* The client.                                                               *)
ClientSends(record) == toServer' = Append(toServer, record)

ClientHello ==
    /\ client = "start"
    /\ client' = "hello"
    /\ ClientSends("ClientHello")
    /\ UNCHANGED <<requests, toClient, connected, server>>

ClientGetsRecord ==
    /\ toClient # <<>>
    /\ toClient' = Tail(toClient)
    /\ \/ /\ client = "hello" /\ Head(toClient) = "ServerFlight"
          /\ client' = "finished"
          /\ ClientSends("ClientFinished")
       \/ /\ client = "finished" /\ Head(toClient) = "ServerFinished"
          /\ client' = "open"
          /\ UNCHANGED toServer
    /\ UNCHANGED <<requests, connected, server>>

ClientRequest ==
    /\ client = "open" /\ requests < MaxRequests
    /\ requests' = requests + 1
    /\ ClientSends("Request")
    /\ UNCHANGED <<client, toClient, connected, server>>

(* What is no TLS at all: a client that speaks plain HTTP. *)
ClientPlain ==
    /\ client = "start" /\ toServer = <<>> /\ requests < MaxRequests
    /\ requests' = requests + 1
    /\ ClientSends("plain")
    /\ UNCHANGED <<client, toClient, connected, server>>

(* muduo's handleRead, with the records that have arrived. *)
Arrive ==
    /\ toServer # <<>>
    /\ \E n \in 1..Len(toServer) :
          /\ buf' = buf \o SubSeq(toServer, 1, n)
          /\ toServer' = SubSeq(toServer, n + 1, Len(toServer))
    /\ UNCHANGED <<peer, toClient, connected, state_, readBio_, writeBio_, ssl>>

-----------------------------------------------------------------------------
(* SSL_do_handshake: takes what readBio_ holds as far as the handshake goes, *)
(* and leaves its own records in writeBio_.                                  *)
Progress(state, in) ==
    CASE state = "start" /\ in # <<>> /\ Head(in) = "ClientHello" ->
            [ssl |-> "flight", in |-> Tail(in), out |-> <<"ServerFlight">>]
      [] state = "flight" /\ in # <<>> /\ Head(in) = "ClientFinished" ->
            [ssl |-> "done", in |-> Tail(in), out |-> <<"ServerFinished">>]
      [] state \in {"start", "flight"} /\ in = <<>> ->
            [ssl |-> state, in |-> in, out |-> <<>>]
      [] OTHER -> [ssl |-> "failed", in |-> in, out |-> <<>>]

(* handleHandshake: established, or "the normal handshake, it needs to go    *)
(* on", or an error that closes.  Nothing reads writeBio_.                   *)
handleHandshake(in) ==
    LET p == Progress(ssl, in)
    IN  /\ ssl' = p.ssl /\ readBio_' = p.in /\ writeBio_' = writeBio_ \o p.out
        /\ state_' = IF p.ssl = "done" THEN "ESTABLISHED" ELSE state_
        /\ connected' = (connected /\ p.ssl # "failed")

onReadHandshake ==
    /\ buf # <<>> /\ state_ = "HANDSHAKE"
    /\ buf' = <<>>
    /\ handleHandshake(readBio_ \o buf)
    /\ UNCHANGED <<peer, toServer, toClient>>

(* Established: SSL_read takes a record from readBio_, which is given no     *)
(* more of them; and onMessage, called with the text, asks onRead again and  *)
(* then goes by decryptedBuffer_, which nobody fills, and returns.           *)
onReadEstablished ==
    /\ buf # <<>> /\ state_ = "ESTABLISHED" /\ readBio_ # <<>>
    /\ readBio_' = Tail(readBio_)
    /\ UNCHANGED <<peer, net, buf, state_, writeBio_, ssl>>

Server == Arrive \/ onReadHandshake \/ onReadEstablished
Client == ClientHello \/ ClientGetsRecord \/ ClientRequest \/ ClientPlain

Next == Server \/ Client

Spec == Init /\ [][Next]_vars
(* The network delivers, the event loop runs, the client goes on.            *)
FairSpec == Spec /\ WF_vars(Server) /\ WF_vars(ClientGetsRecord)

-----------------------------------------------------------------------------
(* "HTTP/HTTPS support" (README.md:4): a handshake that a client begins is   *)
(* completed, or the connection closed (SslConnection.cpp:144 leaves it to   *)
(* go on when OpenSSL wants to read).                                        *)
HandshakeEnds == client = "hello" ~> client = "open" \/ ~connected
=============================================================================
