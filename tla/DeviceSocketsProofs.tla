-------------------------- MODULE DeviceSocketsProofs --------------------------
(***************************************************************************)
(* Proofs that the two halves of a peer's connection stay together and     *)
(* that it has the present endpoint of the peer.                            *)
(***************************************************************************)
EXTENDS DeviceSockets, TLAPS

USE SocketConstants

\* ConnTracksPeer, socket by socket.
Together ==
    /\ \A p \in PeerIds : conn[p] # None =>
          conn[p] \in registered /\ conn[p] \notin shut /\ owner[conn[p]] = p
    /\ \A s \in registered \ shut : owner[s] # None => conn[owner[s]] = s

\* The invariant gives both directions.
LEMMA TracksIsTogether ==
    ASSUME IInv
    PROVE  Together
<1>1. ASSUME NEW p \in PeerIds, conn[p] # None
      PROVE  conn[p] \in registered /\ conn[p] \notin shut /\ owner[conn[p]] = p
  BY <1>1 DEF IInv, ConnTracksPeer
<1>2. ASSUME NEW s \in registered \ shut, owner[s] # None PROVE conn[owner[s]] = s
  <2>1. owner[s] \in PeerIds
    BY <1>2 DEF IInv, TypeOK, Fresh, Socks
  <2>. DEFINE p == owner[s]
  <2>2. {x \in registered \ shut : owner[x] = p} = {conn[p]} \ {None}
    BY <2>1 DEF IInv, ConnTracksPeer
  <2>3. s \in {x \in registered \ shut : owner[x] = p}
    BY <1>2
  <2>. QED  BY <2>2, <2>3
<1>. QED  BY <1>1, <1>2 DEF Together

\* And the two directions, in the next state, are ConnTracksPeer.
LEMMA TogetherTracks ==
    ASSUME TypeOK', opened' \in Nat, Together'
    PROVE  ConnTracksPeer'
<1>. SUFFICES ASSUME NEW p \in PeerIds
              PROVE  {s \in registered' \ shut' : owner'[s] = p} = {conn'[p]} \ {None}
  BY DEF ConnTracksPeer
<1>1. p # None /\ None \notin registered'
  <2>1. None \notin Nat /\ p \in Nat
    BY DEF PeerIds
  <2>2. registered' \subseteq Nat
    BY DEF TypeOK
  <2>. QED  BY <2>1, <2>2
<1>2. ASSUME NEW s \in registered' \ shut', owner'[s] = p PROVE s = conn'[p] /\ s # None
  BY <1>1, <1>2 DEF Together
<1>3. conn'[p] # None => conn'[p] \in registered' \ shut' /\ owner'[conn'[p]] = p
  BY DEF Together
<1>. QED  BY <1>2, <1>3

\* A peer is a number, and None is not.
LEMMA NoneIsNone == None \notin PeerIds /\ None \notin Socks /\ None \notin Nat
<1>1. None \notin Nat
  OBVIOUS
<1>. QED  BY <1>1 DEF PeerIds, Socks

\* shutdown_endpoint of some peers, in whatever handler it is called.
LEMMA ShutdownKeeps ==
    ASSUME IInv, NEW ps \in SUBSET PeerIds, Shutdown(ps),
           UNCHANGED <<opened, owner, remote, mark, registered, fwmark>>,
           \A p \in PeerIds \ ps : addr'[p] = addr[p],
           Known' \subseteq Known
    PROVE  /\ conn' \in [PeerIds -> Socks \cup {None}]
           /\ shut' \subseteq 1 .. opened
           /\ \A p \in PeerIds : conn[p] = None => conn'[p] = None
           /\ Together' /\ ConnIsCurrent'
<1>1. Together
  BY TracksIsTogether
<1>2. conn' = [p \in PeerIds |-> IF p \in ps THEN None ELSE conn[p]]
      /\ shut' = shut \cup ({conn[p] : p \in ps} \ {None})
  BY DEF Shutdown
<1>3. conn' \in [PeerIds -> Socks \cup {None}] /\ \A p \in PeerIds : conn[p] = None => conn'[p] = None
  BY <1>2 DEF IInv, TypeOK
<1>4. shut' \subseteq 1 .. opened
  <2>1. ASSUME NEW p \in ps, conn[p] # None PROVE conn[p] \in 1 .. opened
    <3>1. conn[p] \in registered
      BY <1>1, <2>1 DEF Together
    <3>. QED  BY <3>1 DEF IInv, TypeOK
  <2>2. shut \subseteq 1 .. opened
    BY DEF IInv, TypeOK
  <2>3. {conn[p] : p \in ps} \ {None} \subseteq 1 .. opened
    BY <2>1
  <2>. QED  BY <1>2, <2>2, <2>3
<1>5. ASSUME NEW p \in PeerIds, conn'[p] # None
      PROVE  conn'[p] = conn[p] /\ p \notin ps /\ conn'[p] \in registered /\ conn'[p] \notin shut'
             /\ owner[conn'[p]] = p
  <2>1. conn'[p] = conn[p] /\ p \notin ps
    BY <1>2, <1>5
  <2>2. conn[p] \in registered /\ conn[p] \notin shut /\ owner[conn[p]] = p
    BY <1>1, <1>5, <2>1 DEF Together
  <2>3. ASSUME NEW q \in ps, conn[q] = conn[p] PROVE FALSE
    BY <1>1, <1>5, <2>1, <2>2, <2>3 DEF Together
  <2>. QED  BY <1>2, <2>1, <2>2, <2>3
<1>6. ASSUME NEW s \in registered \ shut', owner[s] # None PROVE conn'[owner[s]] = s
  <2>1. s \in registered \ shut /\ conn[owner[s]] = s
    BY <1>1, <1>2, <1>6 DEF Together
  <2>2. owner[s] \in PeerIds
    BY <1>6, <2>1 DEF IInv, TypeOK, Fresh, Socks
  <2>3. s # None
    <3>1. s \in 1 .. opened
      BY <2>1 DEF IInv, TypeOK
    <3>2. s \in Nat
      BY <3>1
    <3>. QED  BY <3>2, NoneIsNone
  <2>4. owner[s] \notin ps
    BY <1>2, <1>6, <2>1, <2>3
  <2>. QED  BY <1>2, <2>1, <2>2, <2>4
<1>7. Together'
  BY <1>5, <1>6 DEF Together
<1>8. ConnIsCurrent'
  BY <1>5 DEF IInv, ConnIsCurrent
<1>. QED  BY <1>3, <1>4, <1>7, <1>8

\* The invariant holds at the start: no peer, no socket but the listening one.
LEMMA InitOK == Init => IInv
BY DEF Init, IInv, TypeOK, Fresh, ConnTracksPeer, ConnIsCurrent, PeerIds, Socks, Listeners, Known

\* The tail of the UDP handler: the peer keeps a connection to the address, or the old
\* socket is shut as its half is forgotten, and a new one may take its place.
LEMMA DatagramKeeps ==
    ASSUME IInv, NEW k \in Keys, NEW a \in Addrs, Datagram(k, a)
    PROVE  IInv'
<1>. DEFINE p == peers[k]
<1>0. p \in PeerIds /\ p # None /\ p <= made /\ Together /\ UNCHANGED <<peers, made, fwmark, listen>>
      /\ addr' = [addr EXCEPT ![p] = a] /\ DropOldConn(p, a)
  <2>1. peers[k] # None /\ UNCHANGED <<peers, made, fwmark, listen>>
        /\ addr' = [addr EXCEPT ![p] = a] /\ DropOldConn(p, a)
    BY DEF Datagram
  <2>2. p \in PeerIds /\ p <= made
    BY <2>1 DEF IInv, TypeOK, Fresh
  <2>. QED  BY <2>1, <2>2, TracksIsTogether
<1>1. CASE HasConn(p, a)
  <2>1. conn' = conn /\ UNCHANGED <<opened, owner, remote, mark, registered>>
    BY <1>1 DEF Datagram
  <2>2. shut' = shut /\ addr' = addr
    BY <1>0, <1>1 DEF HasConn, DropOldConn, IInv, TypeOK
  <2>. QED  BY <1>0, <2>1, <2>2 DEF IInv, TypeOK, Fresh, ConnTracksPeer, ConnIsCurrent, Known, listen
<1>2. CASE ~HasConn(p, a) /\ conn' = [conn EXCEPT ![p] = None]
           /\ UNCHANGED <<opened, owner, remote, mark, registered>>
  <2>1. conn' = [q \in PeerIds |-> IF q \in {p} THEN None ELSE conn[q]]
    BY <1>0, <1>2 DEF IInv, TypeOK
  <2>2. shut' = shut \cup ({conn[q] : q \in {p}} \ {None})
    BY <1>0, <1>2 DEF HasConn, DropOldConn
  <2>3. Shutdown({p})
    BY <2>1, <2>2 DEF Shutdown
  <2>4. \A q \in PeerIds \ {p} : addr'[q] = addr[q]
    BY <1>0 DEF IInv, TypeOK
  <2>5. {p} \in SUBSET PeerIds /\ Known' \subseteq Known
    BY <1>0 DEF Known
  <2>6. /\ conn' \in [PeerIds -> Socks \cup {None}]
        /\ shut' \subseteq 1 .. opened
        /\ \A q \in PeerIds : conn[q] = None => conn'[q] = None
        /\ Together' /\ ConnIsCurrent'
    BY <1>0, <1>2, <2>3, <2>4, <2>5, ShutdownKeeps
  <2>7. TypeOK'
    BY <1>0, <1>2, <2>6 DEF IInv, TypeOK, Fresh, listen
  <2>8. Fresh' /\ opened' \in Nat
    BY <1>0, <1>2, <2>6 DEF IInv, Fresh, listen
  <2>. QED  BY <2>6, <2>7, <2>8, TogetherTracks DEF IInv
<1>3. CASE ~HasConn(p, a) /\ Connect(p, a)
  <2>. DEFINE s == opened + 1
  <2>1. opened \in Nat /\ s \in Socks /\ s \in Nat /\ opened' = s /\ s # None
    BY <1>3, NoneIsNone DEF Connect, IInv, Fresh, Socks
  <2>2. s \notin registered /\ s \notin shut
    BY <2>1 DEF IInv, TypeOK
  <2>3. /\ conn' = [conn EXCEPT ![p] = s] /\ owner' = [owner EXCEPT ![s] = p]
        /\ remote' = [remote EXCEPT ![s] = a] /\ mark' = [mark EXCEPT ![s] = fwmark]
        /\ registered' = registered \cup {s}
    BY <1>3, <2>1 DEF Connect
  <2>4. shut' = shut \cup ({conn[p]} \ {None})
    BY <1>0, <1>3 DEF HasConn, DropOldConn
  <2>5. conn[p] # None => conn[p] \in registered
    BY <1>0 DEF Together
  <2>6. ASSUME NEW q \in PeerIds, q # p, conn[q] # None
        PROVE  /\ conn'[q] = conn[q] /\ conn[q] # s /\ conn[q] \in Socks
               /\ conn[q] \in registered' /\ conn[q] \notin shut' /\ owner'[conn[q]] = q
               /\ remote'[conn[q]] = remote[conn[q]] /\ mark'[conn[q]] = mark[conn[q]]
               /\ addr'[q] = addr[q]
    <3>1. conn[q] \in registered /\ conn[q] \notin shut /\ owner[conn[q]] = q
      BY <1>0, <2>6 DEF Together
    <3>2. conn'[q] = conn[q] /\ conn[q] # s /\ conn[q] \in Socks /\ addr'[q] = addr[q]
      BY <1>0, <2>2, <2>3, <2>6, <3>1 DEF IInv, TypeOK
    <3>3. conn[q] = conn[p] => FALSE
      BY <1>0, <2>6, <3>1 DEF Together
    <3>4. owner'[conn[q]] = owner[conn[q]] /\ remote'[conn[q]] = remote[conn[q]]
          /\ mark'[conn[q]] = mark[conn[q]]
      BY <2>3, <3>2 DEF IInv, TypeOK, Fresh
    <3>. QED  BY <2>3, <2>4, <3>1, <3>2, <3>3, <3>4
  <2>7. /\ conn'[p] = s /\ s \in registered' /\ s \notin shut' /\ owner'[s] = p
        /\ remote'[s] = addr'[p] /\ mark'[s] = fwmark
    BY <1>0, <2>1, <2>2, <2>3, <2>4, <2>5 DEF IInv, TypeOK, Fresh
  <2>8. ASSUME NEW x \in registered' \ shut', owner'[x] # None PROVE conn'[owner'[x]] = x
    <3>1. CASE x = s
      BY <2>7, <3>1
    <3>2. CASE x # s
      <4>1. x \in registered \ shut /\ x \in Socks /\ owner'[x] = owner[x]
        BY <2>3, <2>4, <2>8, <3>2 DEF IInv, TypeOK, Fresh, Socks
      <4>2. conn[owner[x]] = x /\ owner[x] \in PeerIds
        BY <1>0, <2>8, <4>1 DEF Together, IInv, TypeOK
      <4>3. owner[x] # p
        BY <2>4, <2>8, <4>1, <4>2, NoneIsNone
      <4>. QED  BY <2>3, <4>1, <4>2, <4>3 DEF IInv, TypeOK
    <3>. QED  BY <3>1, <3>2
  <2>9. Together'
    <3>1. ASSUME NEW q \in PeerIds, conn'[q] # None
          PROVE  conn'[q] \in registered' /\ conn'[q] \notin shut' /\ owner'[conn'[q]] = q
      <4>1. q # p => conn[q] # None
        BY <2>3, <3>1 DEF IInv, TypeOK
      <4>. QED  BY <2>6, <2>7, <4>1
    <3>. QED  BY <2>8, <3>1 DEF Together
  <2>10. ConnIsCurrent'
    <3>. SUFFICES ASSUME NEW q \in PeerIds, conn'[q] # None
                  PROVE  /\ remote'[conn'[q]] = addr'[q]
                         /\ q \in Known' => mark'[conn'[q]] = fwmark'
      BY DEF ConnIsCurrent
    <3>1. q # p => conn[q] # None
      BY <2>3 DEF IInv, TypeOK
    <3>2. Known' = Known /\ fwmark' = fwmark
      BY <1>0 DEF Known
    <3>. QED  BY <2>6, <2>7, <3>1, <3>2 DEF IInv, ConnIsCurrent
  <2>11. shut' \subseteq 1 .. opened' /\ registered' \subseteq 1 .. opened'
    <3>1. shut \subseteq 1 .. s /\ registered \subseteq 1 .. s
      BY <2>1 DEF IInv, TypeOK
    <3>2. s \in 1 .. s
      BY <2>1
    <3>. QED  BY <2>1, <2>3, <2>4, <2>5, <3>1, <3>2
  <2>12. TypeOK'
    BY <1>0, <2>1, <2>3, <2>11 DEF IInv, TypeOK, listen
  <2>13. Fresh'
    BY <1>0, <1>3, <2>1, <2>3 DEF Connect, IInv, TypeOK, Fresh, listen, PeerIds
  <2>. QED  BY <2>1, <2>9, <2>10, <2>12, <2>13, TogetherTracks DEF IInv
<1>. QED  BY <1>1, <1>2, <1>3 DEF Datagram

\* Every action keeps the invariant.
LEMMA Inductive == IInv /\ [Next]_vars => IInv'
<1> SUFFICES ASSUME IInv, [Next]_vars PROVE IInv'
  OBVIOUS
<1>1. ASSUME NEW k \in Keys, NEW a \in Addrs \cup {None}, AddPeer(k, a) PROVE IInv'
  <2>. USE DEF IInv, TypeOK, Fresh, ConnTracksPeer, ConnIsCurrent, sockets, listen, PeerIds, Socks, Known
  <2>1. TypeOK'
    BY <1>1 DEF AddPeer
  <2>2. Fresh'
    BY <1>1 DEF AddPeer
  <2>3. ConnTracksPeer'
    BY <1>1, <2>1 DEF AddPeer
  <2>4. ConnIsCurrent'
    BY <1>1 DEF AddPeer
  <2>. QED  BY <2>1, <2>2, <2>3, <2>4
<1>2. ASSUME NEW k \in Keys, RemovePeer(k) PROVE IInv'
  <2>1. {peers[k]} \in SUBSET PeerIds /\ Shutdown({peers[k]}) /\ Known' \subseteq Known
        /\ UNCHANGED <<addr, opened, owner, remote, mark, registered, fwmark>>
    BY <1>2 DEF RemovePeer, listen, IInv, TypeOK, Known
  <2>2. /\ conn' \in [PeerIds -> Socks \cup {None}]
        /\ shut' \subseteq 1 .. opened
        /\ \A p \in PeerIds : conn[p] = None => conn'[p] = None
        /\ Together' /\ ConnIsCurrent'
    BY <2>1, ShutdownKeeps
  <2>3. TypeOK'
    BY <1>2, <2>1, <2>2 DEF RemovePeer, listen, IInv, TypeOK, Fresh
  <2>4. Fresh'
    BY <1>2, <2>1, <2>2 DEF RemovePeer, listen, IInv, TypeOK, Fresh, PeerIds
  <2>5. opened' \in Nat
    BY <2>4 DEF Fresh
  <2>. QED  BY <2>2, <2>3, <2>4, <2>5, TogetherTracks DEF IInv
<1>3. ASSUME NEW k \in Keys, ConnectionExpired(k) PROVE IInv'
  <2>1. {peers[k]} \in SUBSET PeerIds /\ Shutdown({peers[k]}) /\ Known' \subseteq Known
        /\ UNCHANGED <<addr, opened, owner, remote, mark, registered, fwmark>>
    BY <1>3 DEF ConnectionExpired, listen, IInv, TypeOK, Known
  <2>2. /\ conn' \in [PeerIds -> Socks \cup {None}]
        /\ shut' \subseteq 1 .. opened
        /\ \A p \in PeerIds : conn[p] = None => conn'[p] = None
        /\ Together' /\ ConnIsCurrent'
    BY <2>1, ShutdownKeeps
  <2>3. TypeOK'
    BY <1>3, <2>1, <2>2 DEF ConnectionExpired, listen, IInv, TypeOK, Fresh
  <2>4. Fresh'
    BY <1>3, <2>1, <2>2 DEF ConnectionExpired, listen, IInv, TypeOK, Fresh, PeerIds
  <2>5. opened' \in Nat
    BY <2>4 DEF Fresh
  <2>. QED  BY <2>2, <2>3, <2>4, <2>5, TogetherTracks DEF IInv
<1>4. ASSUME ReplacePeers PROVE IInv'
  BY <1>4 DEF ReplacePeers, IInv, TypeOK, Fresh, ConnTracksPeer, ConnIsCurrent, endpoints, sockets, listen, PeerIds, Socks, Known
<1>5. ASSUME OpenListenSocket PROVE IInv'
  <2>1. Known \in SUBSET PeerIds /\ Shutdown(Known) /\ Known' \subseteq Known
        /\ UNCHANGED <<addr, opened, owner, remote, mark, registered, fwmark>>
    BY <1>5 DEF OpenListenSocket, IInv, TypeOK, Known
  <2>2. /\ conn' \in [PeerIds -> Socks \cup {None}]
        /\ shut' \subseteq 1 .. opened
        /\ \A p \in PeerIds : conn[p] = None => conn'[p] = None
        /\ Together' /\ ConnIsCurrent'
    BY <2>1, ShutdownKeeps
  <2>3. TypeOK'
    <3>1. listening' \subseteq 1 .. listened' /\ udp' \in listening' \cup {None}
      BY <1>5 DEF OpenListenSocket, IInv, TypeOK, Fresh
    <3>2. /\ peers' = peers /\ addr' = addr /\ opened' = opened /\ owner' = owner
          /\ remote' = remote /\ registered' = registered
      BY <1>5, Zenon DEF OpenListenSocket
    <3>3. TypeOK
      BY DEF IInv
    <3>. QED  BY <2>2, <3>1, <3>2, <3>3 DEF TypeOK
  <2>4. Fresh'
    BY <1>5, <2>1, <2>2 DEF OpenListenSocket, IInv, TypeOK, Fresh, PeerIds
  <2>5. opened' \in Nat
    BY <2>4 DEF Fresh
  <2>. QED  BY <2>2, <2>3, <2>4, <2>5, TogetherTracks DEF IInv
<1>6. ASSUME OpenListenSocketFails PROVE IInv'
  <2>1. Known \in SUBSET PeerIds /\ Shutdown(Known) /\ Known' \subseteq Known
        /\ UNCHANGED <<addr, opened, owner, remote, mark, registered, fwmark>>
    BY <1>6 DEF OpenListenSocketFails, IInv, TypeOK, Known
  <2>2. /\ conn' \in [PeerIds -> Socks \cup {None}]
        /\ shut' \subseteq 1 .. opened
        /\ \A p \in PeerIds : conn[p] = None => conn'[p] = None
        /\ Together' /\ ConnIsCurrent'
    BY <2>1, ShutdownKeeps
  <2>3. TypeOK'
    BY <1>6, <2>1, <2>2 DEF OpenListenSocketFails, IInv, TypeOK, Fresh
  <2>4. Fresh'
    BY <1>6, <2>1, <2>2 DEF OpenListenSocketFails, IInv, TypeOK, Fresh, PeerIds
  <2>5. opened' \in Nat
    BY <2>4 DEF Fresh
  <2>. QED  BY <2>2, <2>3, <2>4, <2>5, TogetherTracks DEF IInv
<1>7. ASSUME NEW m \in Marks, SetFwmark(m) PROVE IInv'
  BY <1>7 DEF SetFwmark, IInv, TypeOK, Fresh, ConnTracksPeer, ConnIsCurrent, endpoints, listen, PeerIds, Socks, Known
<1>8. ASSUME NEW s \in Socks, EndOfFile(s) PROVE IInv'
  BY <1>8 DEF EndOfFile, IInv, TypeOK, Fresh, ConnTracksPeer, ConnIsCurrent, endpoints, listen, PeerIds, Socks, Known
<1>9. ASSUME NEW k \in Keys, NEW a \in Addrs, Datagram(k, a) PROVE IInv'
  BY <1>9, DatagramKeeps
<1>10. CASE UNCHANGED vars
  BY <1>10 DEF vars, IInv, TypeOK, Fresh, ConnTracksPeer, ConnIsCurrent, endpoints, sockets, listen, Known
<1>. QED  BY <1>1, <1>2, <1>3, <1>4, <1>5, <1>6, <1>7, <1>8, <1>9, <1>10 DEF Next

\* The halves of a connection stay together (device/peer.rs, register_conn_handler): in
\* every reachable state the sockets that receive for a peer are the one it sends on.
THEOREM HalvesStayTogether == Spec => []ConnTracksPeer
<1>1. IInv => ConnTracksPeer
  BY DEF IInv
<1>. QED  BY <1>1, InitOK, Inductive, PTL DEF Spec

\* A connected socket has the present endpoint of its peer and the mark of the device
\* (set_endpoint, connect_endpoint, set_fwmark).
THEOREM SendsToCurrent == Spec => []ConnIsCurrent
<1>1. IInv => ConnIsCurrent
  BY DEF IInv
<1>. QED  BY <1>1, InitOK, Inductive, PTL DEF Spec
===============================================================================
