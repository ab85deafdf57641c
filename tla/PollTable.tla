----------------------------- MODULE PollTable -----------------------------
(***************************************************************************)
(* The poll table of the web-tunnel client: struct http_mgmt's pollfds,    *)
(* fd_lookup and count_pollfds, the two functions that maintain them       *)
(* (mgmt_add_fd, mgmt_del_fd), and everything that opens, closes or        *)
(* re-arms an entry: libwebsockets for the websocket, and the contexts     *)
(* the client creates itself (HTTP requests, clients of the local socket,  *)
(* forwarded TCP connections), each of which keeps in ctx->pfd the pointer *)
(* that mgmt_add_fd gave it.                                               *)
(*                                                                         *)
(* The table is dense: slots 0 .. count_pollfds-1 are in use, and deleting *)
(* an entry moves the last one into its slot.  The listening socket is     *)
(* added first, in http_mgmt_init, and never deleted.                      *)
(***************************************************************************)
EXTENDS Integers, FiniteSets

CONSTANTS MaxFds,    \* mgmt->max_fds = getdtablesize()
          Listener   \* the descriptor of the listening local socket

ASSUME MaxFdsAssumption == MaxFds \in Nat /\ Listener \in 0..(MaxFds - 1)

Fd   == 0..(MaxFds - 1)   \* what the kernel hands out to the process
Slot == 0..(MaxFds - 1)   \* indices of pollfds
Uninit == -1              \* malloc'ed and not yet written, or a NULL pfd

\* POLLERR and POLLHUP are reported by poll() whether asked for or not, so
\* only these two flags of pollfd.events matter.
Events == SUBSET {"POLLIN", "POLLOUT"}

\* What a descriptor is: http_lookup[fd]'s context type, or the websocket
\* (which libwebsockets owns: its http_lookup entry is NULL), or not open.
ContextKind == {"HTTP", "TCPCLIENT", "FORWARD"}
Kind == ContextKind \cup {"TCPSERVER", "WEBSOCKET", "NONE"}

VARIABLES
    count_pollfds,  \* number of slots in use
    slotFd,         \* pollfds[slot].fd
    slotEvents,     \* pollfds[slot].events
    fd_lookup,      \* the slot of a descriptor
    kind,           \* what each descriptor is
    pfd             \* the slot the owning context's pfd points at

vars == <<count_pollfds, slotFd, slotEvents, fd_lookup, kind, pfd>>

Registered == {fd \in Fd : kind[fd] # "NONE"}

\* The events poll() watches for on a registered descriptor.
Polled(fd) == slotEvents[fd_lookup[fd]]

-----------------------------------------------------------------------------
(* The two maintenance functions.                                          *)

\* Mutant of mgmt_add_fd: the increment is lost.
mgmt_add_fd_no_increment(fd, events) ==
    /\ fd_lookup' = [fd_lookup EXCEPT ![fd] = count_pollfds]
    /\ slotFd' = [slotFd EXCEPT ![count_pollfds] = fd]
    /\ slotEvents' = [slotEvents EXCEPT ![count_pollfds] = events]
    /\ UNCHANGED count_pollfds

\* struct pollfd* mgmt_add_fd(mgmt, fd, events).  Its first test rejects
\* descriptors above max_fds, which the kernel does not hand out.
mgmt_add_fd(fd, events) ==
    /\ fd < MaxFds
    /\ fd_lookup' = [fd_lookup EXCEPT ![fd] = count_pollfds]
    /\ slotFd' = [slotFd EXCEPT ![count_pollfds] = fd]
    /\ slotEvents' = [slotEvents EXCEPT ![count_pollfds] = events]
    /\ count_pollfds' = count_pollfds + 1

\* Mutants of mgmt_del_fd: the moved entry's lookup left stale, and the
\* moved entry's events left behind.
mgmt_del_fd_stale_lookup(fd) ==
    LET last == count_pollfds - 1
    IN  /\ count_pollfds' = last
        /\ slotFd' = [slotFd EXCEPT ![fd_lookup[fd]] = slotFd[last]]
        /\ slotEvents' = [slotEvents EXCEPT ![fd_lookup[fd]] = slotEvents[last]]
        /\ UNCHANGED fd_lookup

mgmt_del_fd_keeps_events(fd) ==
    LET last == count_pollfds - 1
    IN  /\ count_pollfds' = last
        /\ slotFd' = [slotFd EXCEPT ![fd_lookup[fd]] = slotFd[last]]
        /\ fd_lookup' = [fd_lookup EXCEPT ![slotFd[last]] = fd_lookup[fd]]
        /\ UNCHANGED slotEvents

\* int mgmt_del_fd(mgmt, fd): the early return leaves an empty table, and
\* otherwise the last guy takes up the vacant slot.
mgmt_del_fd(fd) ==
    LET last == count_pollfds - 1
        m    == fd_lookup[fd]
    IN  /\ count_pollfds' = last
        /\ IF last = 0
           THEN UNCHANGED <<slotFd, slotEvents, fd_lookup>>
           ELSE /\ slotFd' = [slotFd EXCEPT ![m] = slotFd[last]]
                /\ slotEvents' = [slotEvents EXCEPT ![m] = slotEvents[last]]
                /\ fd_lookup' = [fd_lookup EXCEPT ![slotFd[last]] = m]

-----------------------------------------------------------------------------
(* The actions.                                                            *)

\* http_mgmt_init: two malloc'ed arrays, a calloc'ed http_lookup, and the
\* listening socket of tcp_server_init in slot 0.
Init ==
    /\ count_pollfds = 1
    /\ slotFd = [s \in Slot |-> IF s = 0 THEN Listener ELSE Uninit]
    /\ slotEvents = [s \in Slot |-> IF s = 0 THEN {"POLLIN"} ELSE {}]
    /\ fd_lookup = [fd \in Fd |-> IF fd = Listener THEN 0 ELSE Uninit]
    /\ kind = [fd \in Fd |-> IF fd = Listener THEN "TCPSERVER" ELSE "NONE"]
    /\ pfd = [fd \in Fd |-> IF fd = Listener THEN 0 ELSE Uninit]

\* LWS_CALLBACK_ADD_POLL_FD: libwebsockets opened the websocket's socket.
WebsocketAdd(fd) ==
    /\ kind[fd] = "NONE"
    /\ \A f \in Fd : kind[f] # "WEBSOCKET"
    /\ mgmt_add_fd(fd, {"POLLIN"})
    /\ kind' = [kind EXCEPT ![fd] = "WEBSOCKET"]
    /\ UNCHANGED pfd

\* LWS_CALLBACK_DEL_POLL_FD: the websocket was closed or its context
\* destroyed.
WebsocketDel(fd) ==
    /\ kind[fd] = "WEBSOCKET"
    /\ mgmt_del_fd(fd)
    /\ kind' = [kind EXCEPT ![fd] = "NONE"]
    /\ UNCHANGED pfd

\* LWS_CALLBACK_CHANGE_MODE_POLL_FD: finds the slot through fd_lookup.
WebsocketChangeMode(fd, events) ==
    /\ kind[fd] = "WEBSOCKET"
    /\ slotEvents' = [slotEvents EXCEPT ![fd_lookup[fd]] = events]
    /\ UNCHANGED <<count_pollfds, slotFd, fd_lookup, kind, pfd>>

\* Mutant of ContextOpen: the pointer kept is one slot too low.
ContextOpen_low_pfd(fd, k) ==
    /\ kind[fd] = "NONE"
    /\ mgmt_add_fd(fd, {"POLLIN"})
    /\ kind' = [kind EXCEPT ![fd] = k]
    /\ pfd' = [pfd EXCEPT ![fd] = count_pollfds - 1]

\* http_context_init, the accept of tcp_server_callback, and
\* tcp_forward_create: register a new descriptor and keep the pointer.
ContextOpen(fd, k) ==
    /\ kind[fd] = "NONE"
    /\ mgmt_add_fd(fd, {"POLLIN"})
    /\ kind' = [kind EXCEPT ![fd] = k]
    /\ pfd' = [pfd EXCEPT ![fd] = count_pollfds]

\* Mutant of ContextRelease: the socket closed without mgmt_del_fd.
ContextRelease_close_only(fd) ==
    /\ kind[fd] \in ContextKind
    /\ kind' = [kind EXCEPT ![fd] = "NONE"]
    /\ pfd' = [pfd EXCEPT ![fd] = Uninit]
    /\ UNCHANGED <<count_pollfds, slotFd, slotEvents, fd_lookup>>

\* http_context_release, tcp_client_release and tcp_forward_release.
ContextRelease(fd) ==
    /\ kind[fd] \in ContextKind
    /\ mgmt_del_fd(fd)
    /\ kind' = [kind EXCEPT ![fd] = "NONE"]
    /\ pfd' = [pfd EXCEPT ![fd] = Uninit]

\* A context re-arms itself through its pfd: POLLOUT in place of POLLIN to
\* connect or write, POLLIN in place of POLLOUT to read.
ContextChangeMode(fd, events) ==
    /\ kind[fd] \in ContextKind
    /\ slotEvents' = [slotEvents EXCEPT ![pfd[fd]] = events]
    /\ UNCHANGED <<count_pollfds, slotFd, fd_lookup, kind, pfd>>

Next ==
    \E fd \in Fd :
        \/ WebsocketAdd(fd)
        \/ WebsocketDel(fd)
        \/ \E events \in {{"POLLIN"}, {"POLLIN", "POLLOUT"}} :
              WebsocketChangeMode(fd, events)
        \/ \E k \in ContextKind : ContextOpen(fd, k)
        \/ ContextRelease(fd)
        \/ \E events \in {{"POLLIN"}, {"POLLOUT"}} :
              ContextChangeMode(fd, events)

Spec == Init /\ [][Next]_vars

-----------------------------------------------------------------------------
(* Properties.                                                             *)

\* Type invariant of the table http_mgmt_init allocates: every slot number
\* ever stored indexes the allocated arrays or is still uninitialised.
TypeOK ==
    /\ count_pollfds \in 0..MaxFds
    /\ slotFd \in [Slot -> Fd \cup {Uninit}]
    /\ slotEvents \in [Slot -> Events]
    /\ fd_lookup \in [Fd -> Slot \cup {Uninit}]
    /\ kind \in [Fd -> Kind]
    /\ pfd \in [Fd -> Slot \cup {Uninit}]

\* mgmt_add_fd and mgmt_del_fd keep fd_lookup and pollfds inverse to each
\* other on the open descriptors, whatever order they are closed in: poll()
\* watches each of them exactly once and nothing that was closed.
TableConsistent ==
    /\ \A fd \in Registered : /\ fd_lookup[fd] \in 0..(count_pollfds - 1)
                              /\ slotFd[fd_lookup[fd]] = fd
    /\ \A s \in 0..(count_pollfds - 1) : /\ slotFd[s] \in Registered
                                         /\ fd_lookup[slotFd[s]] = s

\* mgmt_add_fd writes pollfds[count_pollfds] with no test of the count: the
\* slot exists because the table holds open descriptors only, once each.
RoomForEveryFd ==
    Registered # Fd => count_pollfds \in Slot

\* The listening socket is in slot 0 for ever, so tcp_server's pfd is never
\* stale and mgmt_del_fd's early return (an empty table) is never taken; and
\* no other context, however stale its pfd, disarms it: a local client can
\* always connect.
ListenerArmed ==
    /\ slotFd[0] = Listener /\ fd_lookup[Listener] = 0 /\ pfd[Listener] = 0
    /\ count_pollfds >= 1
    /\ Polled(Listener) = {"POLLIN"}

\* Entries only ever move down (the last one into a vacant slot), so the pfd
\* a context kept from mgmt_add_fd is its own slot or a slot above it: a
\* stale pointer still points into pollfds, and never at a lower entry.
PfdNeverBelow ==
    \A fd \in Fd : kind[fd] \in ContextKind =>
        pfd[fd] \in Slot /\ pfd[fd] >= fd_lookup[fd]

\* The table holds as many slots as there are open descriptors.
CountMatches == count_pollfds = Cardinality(Registered)

\* The inductive invariant behind the properties above: the table is a
\* bijection, its size is the number of open descriptors (which bounds it by
\* MaxFds), and stale pointers never reach down to the listener's slot.
IndInv ==
    /\ TypeOK
    /\ TableConsistent
    /\ CountMatches
    /\ kind[Listener] = "TCPSERVER"
    /\ \A fd \in Fd \ {Listener} : kind[fd] # "TCPSERVER"
    /\ ListenerArmed
    /\ PfdNeverBelow

\* Opening or closing one descriptor (mgmt_add_fd, mgmt_del_fd) leaves what
\* poll() watches for on every other one as it was, although closing moves
\* an entry to another slot.
OpenCloseKeepsOthers ==
    [][kind' # kind =>
         \A fd \in Fd : kind[fd] # "NONE" /\ kind'[fd] # "NONE"
                           => Polled(fd)' = Polled(fd)]_vars
=============================================================================
