-------------------------- MODULE PollTable_proofs --------------------------
(***************************************************************************)
(* Proofs about the client's poll table for every size of the table: the   *)
(* inductive invariant IndInv of PollTable, the safety properties it       *)
(* implies, and the action property of opening and closing descriptors.    *)
(***************************************************************************)
EXTENDS PollTable, FiniteSetTheorems, TLAPS

\* The descriptors are finitely many: MaxFds of them.
LEMMA FdFinite ==
    IsFiniteSet(Fd) /\ Cardinality(Fd) = MaxFds
<1>1. 0 \in Int /\ MaxFds - 1 \in Int /\ MaxFds >= 1
  BY MaxFdsAssumption
<1> QED
  BY <1>1, FS_Interval, MaxFdsAssumption DEF Fd

\* The open descriptors are finitely many, and fewer than MaxFds as long as
\* one of them is free (the count mgmt_add_fd does not test).
LEMMA RegisteredBound ==
    ASSUME CountMatches
    PROVE  /\ IsFiniteSet(Registered)
           /\ count_pollfds \in Nat
           /\ count_pollfds <= MaxFds
           /\ Registered # Fd => count_pollfds < MaxFds
<1>1. Registered \in SUBSET Fd
  BY DEF Registered
<1>2. /\ IsFiniteSet(Registered)
      /\ Cardinality(Registered) <= Cardinality(Fd)
      /\ Cardinality(Fd) = Cardinality(Registered) => Fd = Registered
  BY <1>1, FdFinite, FS_Subset
<1>3. Cardinality(Registered) \in Nat
  BY <1>2, FS_CardinalityType
<1> QED
  BY <1>2, <1>3, FdFinite, MaxFdsAssumption DEF CountMatches

\* Opening a descriptor with mgmt_add_fd keeps the invariant, whoever opens
\* it: libwebsockets, which keeps no pointer, or a context, which does.
LEMMA AddKeepsIndInv ==
    ASSUME IndInv,
           NEW fd \in Fd, kind[fd] = "NONE",
           NEW k \in Kind \ {"NONE", "TCPSERVER"},
           mgmt_add_fd(fd, {"POLLIN"}),
           kind' = [kind EXCEPT ![fd] = k],
           \/ k = "WEBSOCKET" /\ pfd' = pfd
           \/ pfd' = [pfd EXCEPT ![fd] = count_pollfds]
    PROVE  IndInv' /\ \A f \in Registered : Polled(f)' = Polled(f)
<1> USE MaxFdsAssumption
<1> DEFINE n == count_pollfds
<1>1. /\ TypeOK /\ TableConsistent /\ CountMatches /\ ListenerArmed
      /\ PfdNeverBelow /\ kind[Listener] = "TCPSERVER"
      /\ \A f \in Fd \ {Listener} : kind[f] # "TCPSERVER"
  BY DEF IndInv
<1>2. fd \notin Registered /\ Listener \in Fd /\ fd # Listener
  BY <1>1 DEF Registered, Fd
<1>3. n \in Nat /\ n < MaxFds /\ n \in Slot /\ n >= 1
  BY <1>1, <1>2, RegisteredBound DEF Slot, ListenerArmed
<1>4. Registered' = Registered \cup {fd}
  BY <1>1 DEF Registered, TypeOK
<1>5. TypeOK'
  BY <1>1, <1>3 DEF TypeOK, mgmt_add_fd, Events, Slot, Fd, Kind
<1>6. TableConsistent'
  <2>1. ASSUME NEW f \in Registered'
        PROVE  fd_lookup'[f] \in 0..n /\ slotFd'[fd_lookup'[f]] = f
    <3>1. CASE f = fd
      BY <3>1, <1>1, <1>3 DEF mgmt_add_fd, TypeOK
    <3>2. CASE f # fd
      <4>1. f \in Registered /\ f \in Fd
        BY <3>2, <1>4 DEF Registered
      <4>2. fd_lookup[f] \in 0..(n - 1) /\ slotFd[fd_lookup[f]] = f
        BY <4>1, <1>1 DEF TableConsistent
      <4> QED
        BY <3>2, <4>1, <4>2, <1>1, <1>3 DEF mgmt_add_fd, TypeOK, Slot
    <3> QED
      BY <3>1, <3>2
  <2>2. ASSUME NEW s \in 0..n
        PROVE  slotFd'[s] \in Registered' /\ fd_lookup'[slotFd'[s]] = s
    <3>1. CASE s = n
      BY <3>1, <1>1, <1>3, <1>4 DEF mgmt_add_fd, TypeOK
    <3>2. CASE s # n
      <4>1. s \in 0..(n - 1)
        BY <3>2, <1>3
      <4>2. slotFd[s] \in Registered /\ fd_lookup[slotFd[s]] = s
        BY <4>1, <1>1 DEF TableConsistent
      <4> QED
        BY <3>2, <4>1, <4>2, <1>1, <1>2, <1>3, <1>4
        DEF mgmt_add_fd, TypeOK, Slot, Registered
    <3> QED
      BY <3>1, <3>2
  <2>3. count_pollfds' - 1 = n
    BY <1>3 DEF mgmt_add_fd
  <2> QED
    BY <2>1, <2>2, <2>3 DEF TableConsistent
<1>7. CountMatches'
  <2>1. Cardinality(Registered') = Cardinality(Registered) + 1
    BY <1>1, <1>2, <1>4, RegisteredBound, FS_AddElement
  <2> QED
    BY <2>1, <1>1 DEF CountMatches, mgmt_add_fd
<1>8. /\ kind'[Listener] = "TCPSERVER"
      /\ \A f \in Fd \ {Listener} : kind'[f] # "TCPSERVER"
  BY <1>1, <1>2 DEF TypeOK
<1>9. \A f \in Registered : Polled(f)' = Polled(f)
  <2>1. SUFFICES ASSUME NEW f \in Registered
                 PROVE  slotEvents'[fd_lookup'[f]] = slotEvents[fd_lookup[f]]
    BY DEF Polled
  <2>2. f \in Fd /\ f # fd /\ fd_lookup[f] \in 0..(n - 1)
    BY <1>1, <1>2 DEF TableConsistent, Registered
  <2> QED
    BY <2>2, <1>1, <1>3 DEF mgmt_add_fd, TypeOK, Slot
<1>10. ListenerArmed'
  <2>1. Listener \in Registered
    BY <1>1, <1>2 DEF Registered
  <2>2. Polled(Listener)' = {"POLLIN"}
    BY <2>1, <1>1, <1>9 DEF ListenerArmed
  <2>3. slotFd'[0] = Listener /\ fd_lookup'[Listener] = 0 /\ pfd'[Listener] = 0
    BY <1>1, <1>2, <1>3 DEF ListenerArmed, mgmt_add_fd, TypeOK, Slot
  <2> QED
    BY <2>2, <2>3, <1>3 DEF ListenerArmed, mgmt_add_fd
<1>11. PfdNeverBelow'
  <2>1. SUFFICES ASSUME NEW f \in Fd, kind'[f] \in ContextKind
                 PROVE  pfd'[f] \in Slot /\ pfd'[f] >= fd_lookup'[f]
    BY DEF PfdNeverBelow
  <2>2. CASE f = fd
    <3>1. k # "WEBSOCKET"
      BY <2>1, <2>2, <1>1 DEF ContextKind, TypeOK
    <3> QED
      BY <3>1, <2>2, <1>1, <1>3 DEF mgmt_add_fd, TypeOK, Slot
  <2>3. CASE f # fd
    <3>1. kind[f] \in ContextKind
      BY <2>1, <2>3, <1>1 DEF TypeOK
    <3>2. pfd[f] \in Slot /\ pfd[f] >= fd_lookup[f]
      BY <3>1, <1>1 DEF PfdNeverBelow
    <3> QED
      BY <3>2, <2>3, <1>1 DEF mgmt_add_fd, TypeOK
  <2> QED
    BY <2>2, <2>3
<1> QED
  BY <1>5, <1>6, <1>7, <1>8, <1>9, <1>10, <1>11 DEF IndInv

\* Closing a descriptor with mgmt_del_fd keeps the invariant: the last entry
\* moves down into the vacant slot with its events.
LEMMA DelKeepsIndInv ==
    ASSUME IndInv,
           NEW fd \in Fd, kind[fd] \in Kind \ {"NONE", "TCPSERVER"},
           mgmt_del_fd(fd),
           kind' = [kind EXCEPT ![fd] = "NONE"],
           \/ pfd' = pfd
           \/ pfd' = [pfd EXCEPT ![fd] = Uninit]
    PROVE  IndInv' /\ \A f \in Registered \ {fd} : Polled(f)' = Polled(f)
<1> USE MaxFdsAssumption
<1> DEFINE last == count_pollfds - 1
           m    == fd_lookup[fd]
           guy  == slotFd[last]
<1>1. /\ TypeOK /\ TableConsistent /\ CountMatches /\ ListenerArmed
      /\ PfdNeverBelow /\ kind[Listener] = "TCPSERVER"
      /\ \A f \in Fd \ {Listener} : kind[f] # "TCPSERVER"
  BY DEF IndInv
<1>2. /\ fd \in Registered /\ Listener \in Fd /\ fd # Listener
      /\ Listener \in Registered
  BY <1>1 DEF Registered, Fd
<1>3. /\ m \in 0..last /\ slotFd[m] = fd
      /\ last \in Nat /\ last < MaxFds /\ last \in Slot /\ m \in Slot
  BY <1>1, <1>2, RegisteredBound DEF Slot, ListenerArmed, TableConsistent
<1>4. m # 0 /\ last # 0
  BY <1>1, <1>2, <1>3 DEF ListenerArmed
<1>5. guy \in Registered /\ fd_lookup[guy] = last /\ guy \in Fd
  BY <1>1, <1>3 DEF TableConsistent, Registered
<1>6. /\ count_pollfds' = last
      /\ slotFd' = [slotFd EXCEPT ![m] = guy]
      /\ slotEvents' = [slotEvents EXCEPT ![m] = slotEvents[last]]
      /\ fd_lookup' = [fd_lookup EXCEPT ![guy] = m]
  BY <1>4 DEF mgmt_del_fd
<1>7. Registered' = Registered \ {fd}
  BY <1>1 DEF Registered, TypeOK
<1>8. TypeOK'
  <2>1. count_pollfds' \in 0..MaxFds
    BY <1>3, <1>6
  <2>2. slotFd' \in [Slot -> Fd \cup {Uninit}]
    BY <1>1, <1>3, <1>5, <1>6 DEF TypeOK
  <2>3. slotEvents' \in [Slot -> Events]
    BY <1>1, <1>3, <1>6 DEF TypeOK
  <2>4. fd_lookup' \in [Fd -> Slot \cup {Uninit}]
    BY <1>1, <1>3, <1>5, <1>6 DEF TypeOK
  <2>5. kind' \in [Fd -> Kind] /\ pfd' \in [Fd -> Slot \cup {Uninit}]
    BY <1>1 DEF TypeOK, Kind
  <2> QED
    BY <2>1, <2>2, <2>3, <2>4, <2>5 DEF TypeOK
<1>9. ASSUME NEW f \in Registered', f # guy
      PROVE  /\ f \in Registered /\ f \in Fd /\ f # fd
             /\ fd_lookup[f] \in 0..(last - 1) /\ fd_lookup[f] # m
             /\ slotFd[fd_lookup[f]] = f
             /\ fd_lookup'[f] = fd_lookup[f]
  <2>1. f \in Registered /\ f \in Fd /\ f # fd
    BY <1>7, <1>9 DEF Registered
  <2>2. fd_lookup[f] \in 0..last /\ slotFd[fd_lookup[f]] = f
    BY <2>1, <1>1 DEF TableConsistent
  <2>3. fd_lookup[f] # last /\ fd_lookup[f] # m
    BY <2>1, <2>2, <1>3, <1>9
  <2>4. fd_lookup'[f] = fd_lookup[f]
    BY <2>1, <1>1, <1>6, <1>9 DEF TypeOK
  <2> QED
    BY <2>1, <2>2, <2>3, <2>4, <1>3
<1>10. ASSUME guy # fd
       PROVE  fd_lookup'[guy] = m /\ m \in 0..(last - 1)
  <2>1. m # last
    BY <1>3, <1>10
  <2> QED
    BY <2>1, <1>1, <1>3, <1>5, <1>6 DEF TypeOK
<1>11. TableConsistent'
  <2>1. ASSUME NEW f \in Registered'
        PROVE  fd_lookup'[f] \in 0..(last - 1) /\ slotFd'[fd_lookup'[f]] = f
    <3>1. CASE f = guy
      <4>1. guy # fd
        BY <3>1, <1>7
      <4> QED
        BY <3>1, <4>1, <1>1, <1>3, <1>6, <1>10 DEF TypeOK
    <3>2. CASE f # guy
      BY <3>2, <1>1, <1>3, <1>6, <1>9 DEF TypeOK, Slot
    <3> QED
      BY <3>1, <3>2
  <2>2. ASSUME NEW s \in 0..(last - 1)
        PROVE  slotFd'[s] \in Registered' /\ fd_lookup'[slotFd'[s]] = s
    <3>0. s \in Slot /\ s \in 0..last /\ s # last
      BY <1>3 DEF Slot
    <3>1. CASE s = m
      <4>1. guy # fd
        BY <3>1, <3>0, <1>5
      <4> QED
        BY <3>1, <4>1, <1>1, <1>3, <1>5, <1>6, <1>7, <1>10 DEF TypeOK
    <3>2. CASE s # m
      <4>1. slotFd[s] \in Registered /\ fd_lookup[slotFd[s]] = s
        BY <3>0, <1>1 DEF TableConsistent
      <4>2. slotFd[s] # fd /\ slotFd[s] # guy
        BY <4>1, <3>0, <3>2, <1>5
      <4>3. slotFd'[s] = slotFd[s] /\ slotFd[s] \in Fd
        BY <3>0, <3>2, <4>1, <1>1, <1>6 DEF TypeOK, Registered
      <4> QED
        BY <4>1, <4>2, <4>3, <1>1, <1>6, <1>7 DEF TypeOK
    <3> QED
      BY <3>1, <3>2
  <2> QED
    BY <2>1, <2>2, <1>6 DEF TableConsistent
<1>12. CountMatches'
  <2>1. Cardinality(Registered') = Cardinality(Registered) - 1
    BY <1>1, <1>2, <1>7, RegisteredBound, FS_RemoveElement
  <2> QED
    BY <2>1, <1>1, <1>6 DEF CountMatches
<1>13. /\ kind'[Listener] = "TCPSERVER"
       /\ \A f \in Fd \ {Listener} : kind'[f] # "TCPSERVER"
  BY <1>1, <1>2 DEF TypeOK
<1>14. \A f \in Registered \ {fd} : Polled(f)' = Polled(f)
  <2>1. SUFFICES ASSUME NEW f \in Registered'
                 PROVE  slotEvents'[fd_lookup'[f]] = slotEvents[fd_lookup[f]]
    BY <1>7 DEF Polled
  <2>2. CASE f = guy
    <3>1. guy # fd
      BY <2>2, <1>7
    <3> QED
      BY <2>2, <3>1, <1>1, <1>3, <1>5, <1>6, <1>10 DEF TypeOK
  <2>3. CASE f # guy
    BY <2>3, <1>1, <1>3, <1>6, <1>9 DEF TypeOK, Slot
  <2> QED
    BY <2>2, <2>3
<1>15. ListenerArmed'
  <2>1. Polled(Listener)' = {"POLLIN"}
    BY <1>1, <1>2, <1>14 DEF ListenerArmed
  <2>2. slotFd'[0] = Listener /\ pfd'[Listener] = 0
    BY <1>1, <1>2, <1>3, <1>4, <1>6 DEF ListenerArmed, TypeOK, Slot
  <2>3. guy # Listener
    BY <1>1, <1>4, <1>5 DEF ListenerArmed
  <2>4. fd_lookup'[Listener] = 0
    BY <2>3, <1>1, <1>2, <1>6 DEF ListenerArmed, TypeOK
  <2> QED
    BY <2>1, <2>2, <2>4, <1>3, <1>4, <1>6 DEF ListenerArmed
<1>16. PfdNeverBelow'
  <2>1. SUFFICES ASSUME NEW f \in Fd, kind'[f] \in ContextKind
                 PROVE  pfd'[f] \in Slot /\ pfd'[f] >= fd_lookup'[f]
    BY DEF PfdNeverBelow
  <2>2. f # fd /\ kind[f] \in ContextKind
    BY <2>1, <1>1 DEF TypeOK, ContextKind
  <2>3. pfd[f] \in Slot /\ pfd[f] >= fd_lookup[f] /\ pfd'[f] = pfd[f]
    BY <2>2, <1>1 DEF PfdNeverBelow, TypeOK
  <2>4. f \in Registered'
    BY <2>2, <1>7 DEF Registered, ContextKind
  <2>5. CASE f = guy
    BY <2>2, <2>3, <2>5, <1>3, <1>5, <1>10 DEF Slot
  <2>6. CASE f # guy
    BY <2>3, <2>4, <2>6, <1>9
  <2> QED
    BY <2>5, <2>6
<1> QED
  BY <1>8, <1>11, <1>12, <1>13, <1>14, <1>15, <1>16 DEF IndInv

\* Re-arming an entry, through fd_lookup or through a pfd that may be stale,
\* keeps the invariant as long as it is not the listener's slot.
LEMMA ChangeModeKeepsIndInv ==
    ASSUME IndInv,
           NEW s \in Slot, s # 0, NEW events \in Events,
           slotEvents' = [slotEvents EXCEPT ![s] = events],
           UNCHANGED <<count_pollfds, slotFd, fd_lookup, kind, pfd>>
    PROVE  IndInv'
<1>1. TypeOK'
  BY DEF IndInv, TypeOK
<1>2. Registered' = Registered
  BY DEF Registered
<1>3. TableConsistent' /\ CountMatches' /\ PfdNeverBelow'
  BY <1>2 DEF IndInv, TableConsistent, CountMatches, PfdNeverBelow
<1>4. ListenerArmed'
  BY DEF IndInv, ListenerArmed, Polled, TypeOK
<1> QED
  BY <1>1, <1>3, <1>4 DEF IndInv

\* A context's pfd, stale or not, never points at the listener's slot.
LEMMA PfdAboveListener ==
    ASSUME IndInv, NEW fd \in Fd, kind[fd] \in ContextKind \cup {"WEBSOCKET"}
    PROVE  /\ fd_lookup[fd] \in Slot /\ fd_lookup[fd] # 0
           /\ kind[fd] \in ContextKind => pfd[fd] \in Slot /\ pfd[fd] # 0
<1> USE MaxFdsAssumption
<1>1. fd \in Registered /\ fd # Listener
  BY DEF IndInv, Registered, ContextKind
<1>2. fd_lookup[fd] \in 0..(count_pollfds - 1) /\ slotFd[fd_lookup[fd]] = fd
  BY <1>1 DEF IndInv, TableConsistent
<1>3. fd_lookup[fd] # 0
  BY <1>1, <1>2 DEF IndInv, ListenerArmed
<1>4. fd_lookup[fd] \in Slot
  BY <1>2, <1>3 DEF IndInv, TypeOK, Slot, Uninit
<1> QED
  BY <1>2, <1>3, <1>4 DEF IndInv, PfdNeverBelow, Slot

\* http_mgmt_init establishes the invariant.
LEMMA InitIndInv ==
    Init => IndInv
<1> SUFFICES ASSUME Init PROVE IndInv
  OBVIOUS
<1> USE MaxFdsAssumption
<1>1. Listener \in Fd /\ 0 \in Slot
  BY DEF Fd, Slot
<1>2. TypeOK
  BY <1>1 DEF Init, TypeOK, Events, Kind, Uninit
<1>3. Registered = {Listener}
  BY <1>1 DEF Init, Registered
<1>4. TableConsistent
  BY <1>1, <1>3 DEF Init, TableConsistent
<1>5. CountMatches
  BY <1>3, FS_Singleton DEF Init, CountMatches
<1>6. ListenerArmed
  BY <1>1 DEF Init, ListenerArmed, Polled
<1>7. PfdNeverBelow
  BY <1>1 DEF Init, PfdNeverBelow, ContextKind
<1>8. kind[Listener] = "TCPSERVER"
      /\ \A f \in Fd \ {Listener} : kind[f] # "TCPSERVER"
  BY <1>1 DEF Init
<1> QED
  BY <1>2, <1>4, <1>5, <1>6, <1>7, <1>8 DEF IndInv

\* Every step keeps the invariant, and opening or closing one descriptor
\* keeps what is polled of the others.
LEMMA NextIndInv ==
    ASSUME IndInv, [Next]_vars
    PROVE  /\ IndInv'
           /\ kind' # kind =>
                \A f \in Fd : kind[f] # "NONE" /\ kind'[f] # "NONE"
                                => Polled(f)' = Polled(f)
<1>1. CASE UNCHANGED vars
  BY <1>1 DEF vars, IndInv, TypeOK, TableConsistent, CountMatches, Registered,
              ListenerArmed, Polled, PfdNeverBelow
<1>2. ASSUME NEW fd \in Fd, WebsocketAdd(fd)
      PROVE  IndInv' /\ \A f \in Registered : Polled(f)' = Polled(f)
  BY <1>2, AddKeepsIndInv DEF WebsocketAdd, Kind
<1>3. ASSUME NEW fd \in Fd, WebsocketDel(fd)
      PROVE  IndInv' /\ \A f \in Registered \ {fd} : Polled(f)' = Polled(f)
  BY <1>3, DelKeepsIndInv DEF WebsocketDel, Kind
<1>4. ASSUME NEW fd \in Fd, NEW events \in {{"POLLIN"}, {"POLLIN", "POLLOUT"}},
             WebsocketChangeMode(fd, events)
      PROVE  IndInv' /\ kind' = kind
  BY <1>4, PfdAboveListener, ChangeModeKeepsIndInv
  DEF WebsocketChangeMode, Events
<1>5. ASSUME NEW fd \in Fd, NEW k \in ContextKind, ContextOpen(fd, k)
      PROVE  IndInv' /\ \A f \in Registered : Polled(f)' = Polled(f)
  BY <1>5, AddKeepsIndInv DEF ContextOpen, Kind, ContextKind
<1>6. ASSUME NEW fd \in Fd, ContextRelease(fd)
      PROVE  IndInv' /\ \A f \in Registered \ {fd} : Polled(f)' = Polled(f)
  BY <1>6, DelKeepsIndInv DEF ContextRelease, Kind, ContextKind
<1>7. ASSUME NEW fd \in Fd, NEW events \in {{"POLLIN"}, {"POLLOUT"}},
             ContextChangeMode(fd, events)
      PROVE  IndInv' /\ kind' = kind
  BY <1>7, PfdAboveListener, ChangeModeKeepsIndInv
  DEF ContextChangeMode, Events
<1>8. ASSUME NEW fd \in Fd, WebsocketDel(fd) \/ ContextRelease(fd)
      PROVE  kind'[fd] = "NONE"
  BY <1>8 DEF WebsocketDel, ContextRelease, IndInv, TypeOK
<1> QED
  BY <1>1, <1>2, <1>3, <1>4, <1>5, <1>6, <1>7, <1>8 DEF Next, Registered

-----------------------------------------------------------------------------

\* An entry in slot 1 stays there as long as its descriptor is open: only the
\* last entry moves, and only into the slot of one that goes.
LEMMA StaysInSlot1 ==
    ASSUME IndInv, [Next]_vars,
           NEW fd \in Registered, fd_lookup[fd] = 1, kind'[fd] # "NONE"
    PROVE  fd_lookup'[fd] = 1 /\ slotFd'[1] = fd
<1> USE MaxFdsAssumption
<1>1. /\ fd \in Fd /\ kind[fd] # "NONE" /\ slotFd[1] = fd
      /\ 1 \in 0..(count_pollfds - 1) /\ count_pollfds \in 0..MaxFds
      /\ fd # Listener /\ 1 \in Slot
  BY DEF IndInv, TypeOK, TableConsistent, ListenerArmed, Registered, Slot
<1>2. CASE UNCHANGED vars
  BY <1>1, <1>2 DEF vars
<1>3. ASSUME NEW f \in Fd, kind[f] = "NONE", mgmt_add_fd(f, {"POLLIN"})
      PROVE  fd_lookup'[fd] = 1 /\ slotFd'[1] = fd
  BY <1>1, <1>3 DEF mgmt_add_fd, IndInv, TypeOK
<1>4. ASSUME NEW f \in Fd, kind[f] \in Kind \ {"NONE", "TCPSERVER"},
             kind' = [kind EXCEPT ![f] = "NONE"], mgmt_del_fd(f)
      PROVE  fd_lookup'[fd] = 1 /\ slotFd'[1] = fd
  <2> DEFINE last == count_pollfds - 1
             m == fd_lookup[f]
  <2>1. f # fd /\ f # Listener /\ f \in Registered
    BY <1>1, <1>4 DEF IndInv, TypeOK, Registered
  <2>2. m \in 0..last /\ slotFd[m] = f /\ slotFd[0] = Listener
    BY <2>1 DEF IndInv, TableConsistent, ListenerArmed
  <2>3. m # 1 /\ m # 0
    BY <1>1, <2>1, <2>2
  <2>4. last \in Nat /\ last # 0 /\ last # 1 /\ last \in 0..last
    BY <1>1, <2>2, <2>3
  <2>5. slotFd[last] # fd
    <3>1. fd_lookup[slotFd[last]] = last
      BY <2>4 DEF IndInv, TableConsistent
    <3> QED BY <2>4, <3>1
  <2> HIDE DEF last, m
  <2>6. /\ slotFd' = [slotFd EXCEPT ![m] = slotFd[last]]
        /\ fd_lookup' = [fd_lookup EXCEPT ![slotFd[last]] = m]
    BY <1>4, <2>4 DEF mgmt_del_fd, last, m
  <2> QED BY <1>1, <2>3, <2>5, <2>6 DEF IndInv, TypeOK
<1>5. ASSUME NEW f \in Fd, NEW k \in ContextKind, WebsocketAdd(f) \/ ContextOpen(f, k)
      PROVE  fd_lookup'[fd] = 1 /\ slotFd'[1] = fd
  BY <1>3, <1>5 DEF WebsocketAdd, ContextOpen
<1>6. ASSUME NEW f \in Fd, WebsocketDel(f) \/ ContextRelease(f)
      PROVE  fd_lookup'[fd] = 1 /\ slotFd'[1] = fd
  BY <1>4, <1>6 DEF WebsocketDel, ContextRelease, Kind, ContextKind
<1>7. ASSUME NEW f \in Fd, NEW e, WebsocketChangeMode(f, e) \/ ContextChangeMode(f, e)
      PROVE  fd_lookup'[fd] = 1 /\ slotFd'[1] = fd
  BY <1>1, <1>7 DEF WebsocketChangeMode, ContextChangeMode
<1>8. "HTTP" \in ContextKind
  BY DEF ContextKind
<1> QED BY <1>2, <1>5, <1>6, <1>7, <1>8 DEF Next

\* The inductive invariant holds in every reachable state, for a table of
\* any size and any order of opening and closing.
THEOREM IndInvHolds == Spec => []IndInv
<1>1. Init => IndInv
  BY InitIndInv
<1>2. IndInv /\ [Next]_vars => IndInv'
  BY NextIndInv
<1> QED
  BY <1>1, <1>2, PTL DEF Spec

\* Every slot number the client stores is within the arrays http_mgmt_init
\* allocated, or never used.
THEOREM TypeCorrect == Spec => []TypeOK
<1>1. IndInv => TypeOK
  BY DEF IndInv
<1> QED
  BY <1>1, IndInvHolds, PTL

\* mgmt_add_fd and mgmt_del_fd keep pollfds and fd_lookup inverse to each
\* other on the open descriptors.
THEOREM TableAlwaysConsistent == Spec => []TableConsistent
<1>1. IndInv => TableConsistent
  BY DEF IndInv
<1> QED
  BY <1>1, IndInvHolds, PTL

\* mgmt_add_fd never writes past the end of pollfds although it does not
\* test the count.
THEOREM AlwaysRoom == Spec => []RoomForEveryFd
<1>1. IndInv => RoomForEveryFd
  BY RegisteredBound, MaxFdsAssumption DEF IndInv, RoomForEveryFd, Slot
<1> QED
  BY <1>1, IndInvHolds, PTL

\* The listening socket keeps slot 0 and its events, however stale the other
\* contexts' pointers are.
THEOREM ListenerAlwaysArmed == Spec => []ListenerArmed
<1>1. IndInv => ListenerArmed
  BY DEF IndInv
<1> QED
  BY <1>1, IndInvHolds, PTL

\* A stale pfd never points below the context's own entry.
THEOREM PfdAlwaysAbove == Spec => []PfdNeverBelow
<1>1. IndInv => PfdNeverBelow
  BY DEF IndInv
<1> QED
  BY <1>1, IndInvHolds, PTL

\* Opening or closing a descriptor never changes what is polled of another.
THEOREM OpenCloseKeeps == Spec => OpenCloseKeepsOthers
<1>1. IndInv /\ [Next]_vars =>
        [kind' # kind =>
           \A fd \in Fd : kind[fd] # "NONE" /\ kind'[fd] # "NONE"
                             => Polled(fd)' = Polled(fd)]_vars
  BY NextIndInv
<1> QED
  BY <1>1, IndInvHolds, PTL DEF Spec, OpenCloseKeepsOthers
=============================================================================
