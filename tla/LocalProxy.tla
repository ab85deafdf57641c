------------------------------ MODULE LocalProxy ------------------------------
(***************************************************************************)
(* The local proxy, local.js, for one connection to its local port: a      *)
(* local program talks over proxySocket, and localWs carries the data to   *)
(* the server, which passes it on to a host of the LAN behind the device   *)
(* (TunnelServer and TcpForward; here one path that keeps order).          *)
(*                                                                         *)
(* node runs one event handler at a time, so a handler is one action.  A   *)
(* unit of data is what one write of either end carries.  The handler for  *)
(* 'data' of proxySocket is installed when localWs is connected; until     *)
(* then data stays in the socket.                                          *)
(***************************************************************************)
EXTENDS Integers, SequencesExt

CONSTANTS MaxLocal,   \* bound: units the local program sends
          Greeting    \* units the LAN host sends without being asked; it
                      \* also answers each unit it gets with one of its own

ASSUME BoundsAssumption == MaxLocal \in Nat /\ Greeting \in Nat

VARIABLES
    ws,          \* localWs: connecting, open or closed
    connected,   \* a message other than the handshake has come
    buffers,     \* units waiting for that
    toServer,    \* messages on localWs to the server
    fromServer,  \* messages from the server to localWs
    local,       \* proxySocket: open, ended by the proxy, or gone
    localIn,     \* units in proxySocket not yet read
    localSent,   \* units the local program sent
    localGot,    \* units the local program was given
    lan,         \* the forward to the LAN host: none, open or closed
    lanGot,      \* units the LAN host was given
    lanSent,     \* units the LAN host sent
    up           \* the proxy has not died of an exception

proxy  == <<ws, connected, buffers, up>>
peer   == <<local, localIn, localSent, localGot>>
remote == <<lan, lanGot, lanSent>>
vars   == <<proxy, peer, remote, toServer, fromServer>>

Msg(type, data) == [type |-> type, data |-> data]
Say(m) == toServer' = Append(toServer, m)

-----------------------------------------------------------------------------
(* The proxy's handlers.                                                   *)

\* localWs 'connect'.
WsConnects ==
    /\ up /\ ws = "connecting"
    /\ ws' = "open"
    /\ Say(Msg("hello", <<>>))
    /\ UNCHANGED <<connected, buffers, up, peer, remote, fromServer>>

\* localWs 'connectFailed': proxySocket has no method close, so the handler
\* throws and the proxy is gone, with every connection it had.
WsFails ==
    /\ up /\ ws = "connecting"
    /\ ws' = "closed"
    /\ up' = FALSE
    /\ local' = IF local = "open" THEN "ended" ELSE local
    /\ UNCHANGED <<connected, buffers, localIn, localSent, localGot, remote,
                   toServer, fromServer>>

\* connection.close() or its 'close' event.
Closed == ws' = "closed" /\ UNCHANGED up

\* connection 'message', of the server's handshake.
Handshake ==
    /\ up /\ ws = "open" /\ fromServer # <<>>
    /\ Head(fromServer).type = "handshake"
    /\ fromServer' = Tail(fromServer)
    /\ Say(Msg("openning", <<>>))
    /\ UNCHANGED <<proxy, peer, remote>>

\* Mutant of Flush: connected never set.
Flush_not_connected ==
    /\ IF buffers = <<>> THEN UNCHANGED toServer
       ELSE Say(Msg("request", buffers))
    /\ buffers' = <<>>
    /\ UNCHANGED connected

\* The first message other than the handshake sends what was buffered.
Flush ==
    /\ IF buffers = <<>> \/ connected THEN UNCHANGED toServer
       ELSE Say(Msg("request", buffers))
    /\ connected' = TRUE
    /\ buffers' = IF connected THEN buffers ELSE <<>>

Message(type) ==
    /\ up /\ ws = "open" /\ fromServer # <<>>
    /\ Head(fromServer).type = type
    /\ fromServer' = Tail(fromServer)
    /\ Flush
    /\ UNCHANGED <<localIn, localSent, remote>>

\* Mutant of DataForLocal: the message that sends the buffers not passed on.
DataForLocal_drops_first ==
    /\ Message("response") /\ local = "open"
    /\ localGot' = IF connected THEN localGot \o Head(fromServer).data ELSE localGot
    /\ UNCHANGED <<ws, up, local>>

\* Data of the LAN host for the local program.
DataForLocal ==
    /\ Message("response") /\ local = "open"
    /\ localGot' = localGot \o Head(fromServer).data
    /\ UNCHANGED <<ws, up, local>>

\* The same when the local program has closed its end: proxySocket.write
\* fails, and its 'error' handler closes localWs.
DataForNobody ==
    /\ Message("response") /\ local # "open"
    /\ Closed
    /\ UNCHANGED <<local, localGot>>

\* Mutant of RemoteClosed: proxySocket.end forgotten.
RemoteClosed_ws_only ==
    /\ Message("closed")
    /\ Closed
    /\ UNCHANGED <<local, localGot>>

\* "CLOSED!": both ends are closed.
RemoteClosed ==
    /\ Message("closed")
    /\ Closed
    /\ local' = IF local = "open" THEN "ended" ELSE local
    /\ UNCHANGED localGot

\* Mutant of DataFromLocal: buffers overwritten instead of extended.
DataFromLocal_overwrites ==
    /\ up /\ ws = "open" /\ localIn # <<>>
    /\ localIn' = <<>>
    /\ IF connected
       THEN Say(Msg("request", localIn)) /\ UNCHANGED buffers
       ELSE UNCHANGED toServer /\ buffers' = localIn
    /\ UNCHANGED <<ws, connected, up, local, localSent, localGot, remote, fromServer>>

\* proxySocket 'data': everything that can be read at once.
DataFromLocal ==
    /\ up /\ ws = "open" /\ localIn # <<>>
    /\ localIn' = <<>>
    /\ IF connected
       THEN Say(Msg("request", localIn)) /\ UNCHANGED buffers
       ELSE UNCHANGED toServer /\ buffers' = buffers \o localIn
    /\ UNCHANGED <<ws, connected, up, local, localSent, localGot, remote, fromServer>>

\* The server closes localWs: connection 'close' or 'error'.
WsClosed ==
    /\ up /\ ws = "open"
    /\ Closed
    /\ local' = IF local = "open" THEN "ended" ELSE local
    /\ UNCHANGED <<connected, buffers, localIn, localSent, localGot, remote,
                   toServer, fromServer>>

Proxy ==
    \/ Handshake \/ DataForLocal \/ DataForNobody
    \/ RemoteClosed \/ DataFromLocal

-----------------------------------------------------------------------------
(* The server and the LAN host.                                            *)

Serve(type) ==
    /\ toServer # <<>> /\ Head(toServer).type = type
    /\ toServer' = Tail(toServer)
    /\ UNCHANGED <<proxy, peer>>

Answer(m) == fromServer' = Append(fromServer, m)

ServerHandshake ==
    /\ Serve("hello")
    /\ Answer(Msg("handshake", <<>>))
    /\ UNCHANGED remote

\* tcp_forward_create, and its connection made or refused.
ServerOpens ==
    /\ Serve("openning")
    /\ \/ lan' = "open" /\ UNCHANGED fromServer
       \/ lan' = "closed" /\ Answer(Msg("closed", <<>>))
    /\ UNCHANGED <<lanGot, lanSent>>

ServerForwards ==
    /\ Serve("request")
    /\ lanGot' = IF lan = "open" THEN lanGot \o Head(toServer).data ELSE lanGot
    /\ UNCHANGED <<lan, lanSent, fromServer>>

LanSends ==
    /\ lan = "open" /\ lanSent < Greeting + Len(lanGot)
    /\ lanSent' = lanSent + 1
    /\ Answer(Msg("response", <<lanSent + 1>>))
    /\ UNCHANGED <<proxy, peer, lan, lanGot, toServer>>

LanCloses ==
    /\ lan = "open"
    /\ lan' = "closed"
    /\ Answer(Msg("closed", <<>>))
    /\ UNCHANGED <<proxy, peer, lanGot, lanSent, toServer>>

Remote == ServerHandshake \/ ServerOpens \/ ServerForwards \/ LanSends

-----------------------------------------------------------------------------
(* The local program.                                                      *)

LocalSends ==
    /\ local = "open" /\ localSent < MaxLocal
    /\ localSent' = localSent + 1
    /\ localIn' = Append(localIn, localSent + 1)
    /\ UNCHANGED <<proxy, remote, local, localGot, toServer, fromServer>>

\* It closes its end.  proxySocket has no handler for that.
LocalCloses ==
    /\ local = "open"
    /\ local' = "gone"
    /\ UNCHANGED <<proxy, remote, localIn, localSent, localGot, toServer, fromServer>>

-----------------------------------------------------------------------------

Init ==
    /\ ws = "connecting" /\ connected = FALSE /\ buffers = <<>> /\ up = TRUE
    /\ local = "open" /\ localIn = <<>> /\ localSent = 0 /\ localGot = <<>>
    /\ lan = "none" /\ lanGot = <<>> /\ lanSent = 0
    /\ toServer = <<>> /\ fromServer = <<>>

Next ==
    \/ WsConnects \/ WsFails \/ WsClosed \/ Proxy
    \/ Remote \/ LanCloses
    \/ LocalSends \/ LocalCloses

\* The connection attempt ends, handlers run, and the LAN host says what its
\* protocol has it say.
Fairness == WF_vars(WsConnects) /\ WF_vars(Proxy) /\ WF_vars(Remote)

Spec     == Init /\ [][Next]_vars
FairSpec == Spec /\ Fairness

-----------------------------------------------------------------------------
(* Properties.                                                             *)

TypeOK ==
    /\ ws \in {"connecting", "open", "closed"}
    /\ local \in {"open", "ended", "gone"}
    /\ lan \in {"none", "open", "closed"}
    /\ localSent \in 0..MaxLocal /\ lanSent \in 0..(Greeting + MaxLocal)
    /\ {connected, up} \subseteq BOOLEAN

\* What the local program sent is somewhere on its way to the LAN host, in
\* order and once, whether it was sent before the websocket was connected,
\* buffered before the first answer, or after it.
OnTheWay == FlattenSeq([i \in 1..Len(toServer) |-> toServer[i].data])
NothingLost ==
    (lan # "closed" /\ ws # "closed") =>
        lanGot \o OnTheWay \o buffers \o localIn = [i \in 1..localSent |-> i]

\* What the local program is given is what the LAN host sent, in order.
GivenInOrder == \A i \in 1..Len(localGot) : localGot[i] = i

\* "the local port is as good as the port in the LAN": what the local
\* program sends reaches the LAN host, unless the connection ends.
Over == ws = "closed" \/ lan = "closed" \/ local # "open" \/ ~up
LocalDataDelivered ==
    \A n \in 1..MaxLocal : (localSent >= n) ~> (Len(lanGot) >= n \/ Over)

\* When the LAN host closes, so does the local program's connection.
CloseReachesLocal == (lan = "closed") ~> (local # "open")
===============================================================================
