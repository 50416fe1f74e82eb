---------------------------- MODULE DeviceSockets ----------------------------
(***************************************************************************)
(* The UDP sockets of the device: the listening sockets and the connected  *)
(* socket of each peer (device/peer.rs, device/mod.rs), and their events   *)
(* in the poll (device/epoll.rs).                                          *)
(*                                                                         *)
(* A connected socket has two owners: the peer's endpoint, which sends on  *)
(* it, and the handler registered with the poll, which receives on it and  *)
(* keeps the peer alive.  The peer gives its half up by shutting the       *)
(* socket down; the poll reports the end of file and the handler is        *)
(* cancelled.  A change of the device runs under the write lock, with no   *)
(* handler active.                                                         *)
(***************************************************************************)
EXTENDS Integers, FiniteSets

CONSTANTS
    Keys,         \* public keys of peers
    Addrs,        \* remote addresses
    Marks,        \* values of fwmark
    MaxPeers,     \* bound on the peers made; a peer is a number
    MaxSocks,     \* bound on the connected sockets made
    MaxListen,    \* bound on the listening sockets made
    None

ASSUME SocketConstants ==
    /\ MaxPeers \in Nat /\ MaxSocks \in Nat /\ MaxListen \in Nat \ {0}
    /\ None \notin Keys \cup Addrs \cup Marks \cup Nat

PeerIds == 1 .. MaxPeers
Socks == 1 .. MaxSocks
Listeners == 1 .. MaxListen

VARIABLES
    peers,                   \* Device.peers: key -> peer
    made, removed,           \* peers made so far; those that remove_peer took out
    addr, conn,              \* peer -> Endpoint
    opened,                  \* connected sockets made so far
    owner, remote, mark,     \* connected socket -> its peer, address and mark
    shut, registered,        \* connected sockets shut down; with a handler in the poll
    fwmark,                  \* Device.fwmark
    udp, listened,           \* Device.udp4 and udp6; listening sockets made so far
    listening                \* listening sockets with a handler in the poll

endpoints == <<addr, conn>>
sockets == <<opened, owner, remote, mark, shut, registered>>
listen == <<udp, listened, listening>>
vars == <<peers, made, removed, endpoints, sockets, fwmark, listen>>

\* Device::new and the open_listen_socket(0) of DeviceHandle::new
Init ==
    /\ peers = [k \in Keys |-> None] /\ made = 0 /\ removed = {}
    /\ addr = [p \in PeerIds |-> None] /\ conn = [p \in PeerIds |-> None]
    /\ opened = 0
    /\ owner = [s \in Socks |-> None] /\ remote = [s \in Socks |-> None]
    /\ mark = [s \in Socks |-> None]
    /\ shut = {} /\ registered = {}
    /\ fwmark = None
    /\ udp = 1 /\ listened = 1 /\ listening = {1}

Known == {peers[k] : k \in Keys} \ {None}

------------------------------------------------------------------------------
(* Peer *)

ForgetConn(ps) ==
    /\ conn' = [p \in PeerIds |-> IF p \in ps THEN None ELSE conn[p]]
    /\ UNCHANGED shut

\* shutdown_endpoint of some peers
Shutdown(ps) ==
    /\ conn' = [p \in PeerIds |-> IF p \in ps THEN None ELSE conn[p]]
    /\ shut' = shut \cup ({conn[p] : p \in ps} \ {None})

\* set_endpoint: a change of address takes the connection with it.
DropOldConn(p, a) ==
    shut' = IF addr[p] # a /\ conn[p] # None THEN shut \cup {conn[p]} ELSE shut

HasConnAnyAddr(p, a) == conn[p] # None

\* connect_endpoint finds a connection.
HasConn(p, a) == addr[p] = a /\ conn[p] # None

------------------------------------------------------------------------------
(* Device *)

\* update_peer for a new key
AddPeer(k, a) ==
    /\ peers[k] = None /\ made < MaxPeers
    /\ made' = made + 1
    /\ peers' = [peers EXCEPT ![k] = made']
    /\ addr' = [addr EXCEPT ![made'] = a]
    /\ UNCHANGED <<removed, conn, sockets, fwmark, listen>>

RemovePeerOnly(k) ==
    /\ peers[k] # None
    /\ removed' = removed \cup {peers[k]}
    /\ peers' = [peers EXCEPT ![k] = None]
    /\ UNCHANGED <<made, endpoints, sockets, fwmark, listen>>

RemovePeer(k) ==
    /\ peers[k] # None
    /\ Shutdown({peers[k]})
    /\ removed' = removed \cup {peers[k]}
    /\ peers' = [peers EXCEPT ![k] = None]
    /\ UNCHANGED <<made, addr, opened, owner, remote, mark, registered, fwmark, listen>>

\* clear_peers drops the peers, but not their connections.
ReplacePeers ==
    /\ Known # {}
    /\ peers' = [k \in Keys |-> None]
    /\ UNCHANGED <<made, removed, endpoints, sockets, fwmark, listen>>

\* open_listen_socket.  The handlers are registered under the descriptors of clones,
\* clear_event_by_fd is called with those of the originals: it clears nothing.
OpenListenSocket ==
    /\ listened < MaxListen
    /\ listened' = listened + 1
    /\ listening' = listening \cup {listened'}
    /\ udp' = listened'
    /\ Shutdown(Known)
    /\ UNCHANGED <<peers, made, removed, addr, opened, owner, remote, mark, registered, fwmark>>

\* The same when a socket cannot be bound: the old ones were given up before.
OpenListenSocketFails ==
    /\ udp' = None
    /\ Shutdown(Known)
    /\ UNCHANGED <<peers, made, removed, addr, opened, owner, remote, mark, registered, fwmark,
                   listened, listening>>

\* set_fwmark, in a process that kept its privileges; the marks of the listening
\* sockets are left out.
SetFwmark(m) ==
    /\ fwmark' = m
    /\ mark' = [s \in Socks |-> IF \E p \in Known : conn[p] = s THEN m ELSE mark[s]]
    /\ UNCHANGED <<peers, made, removed, endpoints, opened, owner, remote, shut, registered, listen>>

\* connect_endpoint and register_conn_handler
Connect(p, a) ==
    /\ opened < MaxSocks
    /\ opened' = opened + 1
    /\ owner' = [owner EXCEPT ![opened'] = p]
    /\ remote' = [remote EXCEPT ![opened'] = a]
    /\ mark' = [mark EXCEPT ![opened'] = fwmark]
    /\ registered' = registered \cup {opened'}
    /\ conn' = [conn EXCEPT ![p] = opened']

\* The tail of the UDP handler, for a packet from an address that is good for a peer
\* of the device.  The connection may fail.
Datagram(k, a) ==
    /\ listening # {} /\ peers[k] # None
    /\ LET p == peers[k]
       IN /\ addr' = [addr EXCEPT ![p] = a]
          /\ DropOldConn(p, a)
          /\ \/ Connect(p, a) /\ ~HasConn(p, a)
             \/ /\ conn' = IF HasConn(p, a) THEN conn ELSE [conn EXCEPT ![p] = None]
                /\ UNCHANGED <<opened, owner, remote, mark, registered>>
    /\ UNCHANGED <<peers, made, removed, fwmark, listen>>

\* The timer handler, for a peer whose tunnel has expired.
ConnectionExpired(k) ==
    /\ udp # None
    /\ peers[k] # None /\ addr[peers[k]] # None
    /\ Shutdown({peers[k]})
    /\ UNCHANGED <<peers, made, removed, addr, opened, owner, remote, mark, registered, fwmark,
                   listen>>

\* event_loop: WaitResult::EoF, EventGuard::cancel
EndOfFile(s) ==
    /\ s \in registered /\ s \in shut
    /\ registered' = registered \ {s}
    /\ UNCHANGED <<peers, made, removed, endpoints, opened, owner, remote, mark, shut, fwmark,
                   listen>>

Next ==
    \/ \E k \in Keys :
          \/ \E a \in Addrs \cup {None} : AddPeer(k, a)
          \/ \E a \in Addrs : Datagram(k, a)
          \/ RemovePeer(k) \/ ConnectionExpired(k)
    \/ ReplacePeers \/ OpenListenSocket \/ OpenListenSocketFails
    \/ \E m \in Marks : SetFwmark(m)
    \/ \E s \in Socks : EndOfFile(s)

Spec == Init /\ [][Next]_vars

\* The poll reports every end of file.
FairSpec == Spec /\ \A s \in Socks : WF_vars(EndOfFile(s))

------------------------------------------------------------------------------
(* Properties *)

\* Type invariant.
TypeOK ==
    /\ peers \in [Keys -> PeerIds \cup {None}]
    /\ addr \in [PeerIds -> Addrs \cup {None}] /\ conn \in [PeerIds -> Socks \cup {None}]
    /\ owner \in [Socks -> PeerIds \cup {None}] /\ remote \in [Socks -> Addrs \cup {None}]
    /\ shut \subseteq 1 .. opened /\ registered \subseteq 1 .. opened
    /\ listening \subseteq 1 .. listened /\ udp \in listening \cup {None}
    /\ \A j, k \in Keys : peers[j] = peers[k] /\ peers[j] # None => j = k

\* The halves of a connection stay together: the sockets that still receive for a
\* peer are the one it sends on, whatever was roamed, expired, removed or replaced in
\* between; everything else is shut down and on its way out of the poll.
ConnTracksPeer ==
    /\ TypeOK
    /\ \A p \in PeerIds :
          {s \in registered \ shut : owner[s] = p} = {conn[p]} \ {None}

\* A connected socket has the present endpoint of its peer and the mark of the device.
ConnIsCurrent ==
    \A p \in PeerIds : conn[p] # None =>
        /\ remote[conn[p]] = addr[p]
        /\ p \in Known => mark[conn[p]] = fwmark

\* A peer that was removed is not served for ever: its sockets leave the poll.
RemovedIsReleased ==
    \A p \in PeerIds : (p \in removed) ~> (\A s \in registered : owner[s] # p)

------------------------------------------------------------------------------
(* The invariant behind ConnTracksPeer and ConnIsCurrent *)

\* The counters of peers and sockets are within their bounds, a socket is not handed
\* out twice, and a peer that is not made yet has neither a key nor a connection.
Fresh ==
    /\ made \in 0 .. MaxPeers /\ opened \in 0 .. MaxSocks /\ listened \in 1 .. MaxListen
    /\ mark \in [Socks -> Marks \cup {None}] /\ fwmark \in Marks \cup {None}
    /\ \A k \in Keys : peers[k] # None => peers[k] <= made
    /\ \A p \in PeerIds : p > made => conn[p] = None

IInv == TypeOK /\ Fresh /\ ConnTracksPeer /\ ConnIsCurrent
==============================================================================
