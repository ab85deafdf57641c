------------------------------- MODULE WsClient -------------------------------
(***************************************************************************)
(* The client connection of libwebsockets, as web-tunnel uses it: the      *)
(* library's structure (wsi), the socket under it and the server's answer  *)
(* to the upgrade request.  Every operator is a step of                    *)
(* libwebsocket_client_connect, of libwebsocket_service_fd before the      *)
(* connection is established, or of the network; TunnelClient joins them   *)
(* with what web-tunnel does in the same call.                             *)
(*                                                                         *)
(* Built without SSL in use and without extensions that answer.            *)
(***************************************************************************)
VARIABLES
    mode,    \* wsi->mode: none, waiting_connect, waiting_reply or client
    armed,   \* POLLOUT is asked for
    timer,   \* wsi->pending_timeout is set
    sock,    \* the socket: none, connecting, up, half (the server closed its
             \* side), dead (refused or reset) or gone (nothing comes any more)
    reply    \* the answer to the upgrade: none, part, whole or refusal

wsi == <<mode, armed, timer, sock, reply>>

TypeOK ==
    /\ mode \in {"none", "waiting_connect", "waiting_reply", "client"}
    /\ armed \in BOOLEAN /\ timer \in BOOLEAN
    /\ sock \in {"none", "connecting", "up", "half", "dead", "gone"}
    /\ reply \in {"none", "part", "whole", "refusal"}

Init == mode = "none" /\ armed = FALSE /\ timer = FALSE /\ sock = "none" /\ reply = "none"

\* libwebsocket_close_and_free_session, down to just_kill_connection.
Closes ==
    mode' = "none" /\ armed' = FALSE /\ timer' = FALSE /\ sock' = "none" /\ reply' = "none"

\* The upgrade request is on its way, and the answer has 5 s.
Asked == mode' = "waiting_reply" /\ reply' = "none" /\ armed' = FALSE /\ timer' = TRUE

-----------------------------------------------------------------------------
(* libwebsocket_client_connect.  In the third case the request could not   *)
(* be sent: libwebsocket_service_fd closes the connection and returns 0,   *)
(* and the pointer that is returned is not NULL.                           *)

ConnectPending ==
    /\ mode = "none"
    /\ mode' = "waiting_connect" /\ sock' = "connecting" /\ reply' = "none"
    /\ armed' = TRUE /\ timer' = TRUE
ConnectAtOnce == mode = "none" /\ Asked /\ sock' = "up"
ConnectUnsent == mode = "none" /\ UNCHANGED wsi
ConnectNull   == mode = "none" /\ UNCHANGED wsi

-----------------------------------------------------------------------------
(* libwebsocket_service_fd while the connection is being made: the state   *)
(* after it, by outcome.                                                   *)

\* connect says EISCONN, and the upgrade request goes out.
Upgrades ==
    mode = "waiting_connect" /\ sock \in {"up", "half"} /\ Asked /\ UNCHANGED sock

\* The request cannot be sent: closed, and 0 is returned.
UpgradeUnsent == mode = "waiting_connect" /\ sock \in {"up", "half"} /\ Closes

\* connect reports the failure: -1.
ConnectRefused == mode = "waiting_connect" /\ sock = "dead" /\ Closes

\* The whole answer is there and in order.
Established ==
    /\ mode = "waiting_reply" /\ sock \in {"up", "half"} /\ reply = "whole"
    /\ mode' = "client" /\ armed' = TRUE /\ timer' = FALSE /\ reply' = "none"
    /\ UNCHANGED sock

\* lws_client_interpret_server_handshake is not content: closed, and 1.
Refused == mode = "waiting_reply" /\ sock \in {"up", "half"} /\ reply = "refusal" /\ Closes

\* The answer stops short.  recv of the next byte gives EAGAIN, and any error
\* of recv closes the connection: -1.  Nothing is closed when there is no
\* event, that is before the first byte.
ReplyCut == mode = "waiting_reply" /\ sock = "up" /\ reply = "part" /\ Closes

\* A reset: -1.
ReplyReset == mode = "waiting_reply" /\ sock = "dead" /\ Closes

\* The server closed before the end of its answer: recv gives 0, and a byte
\* nobody received is parsed.  That fails with -1, or the call returns 0 and
\* poll() reports the socket again at once.
ReplyEnded ==
    mode = "waiting_reply" /\ sock = "half" /\ reply \in {"none", "part"} /\ Closes

\* libwebsocket_service_timeout_check of a connection under a timeout.
TimedOut == timer /\ Closes

\* libwebsocket_callback_on_writable and the one shot of POLLOUT.
ArmedNext(a) == armed' = a /\ UNCHANGED <<mode, timer, sock, reply>>

\* The socket has something for libwebsocket_service_fd.
HasEvent(data, room) ==
    \/ sock = "dead" \/ sock = "half"
    \/ sock = "up" /\ (reply # "none" \/ data \/ (armed /\ room))

-----------------------------------------------------------------------------
(* The network and the server's TCP and HTTP side.                         *)

SockNext(s) == sock' = s /\ UNCHANGED <<mode, armed, timer, reply>>
Accepts   == sock = "connecting" /\ SockNext("up")
Rejects   == sock = "connecting" /\ SockNext("dead")
HalfClosed== sock = "up" /\ SockNext("half")
Resets    == sock \in {"up", "half", "gone"} /\ SockNext("dead")
Vanishes  == sock \in {"connecting", "up"} /\ SockNext("gone")
Answers(r) ==
    /\ mode = "waiting_reply" /\ sock = "up"
    /\ reply = "none" \/ (reply = "part" /\ r = "whole")
    /\ reply' = r
    /\ UNCHANGED <<mode, armed, timer, sock>>
===============================================================================
