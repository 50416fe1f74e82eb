---------------------------- MODULE Registration ----------------------------
(***************************************************************************)
(* boringtun's registration API (device/http_api.rs) and the part of the   *)
(* device behind its UAPI socket that it drives (device/api.rs,            *)
(* Device::update_peer and remove_peer).                                   *)
(*                                                                         *)
(* Three threads interleave: the HTTP thread, which serves one request at  *)
(* a time and holds the state mutex for all of it; the reaper, which asks  *)
(* the device for its peers before it takes the mutex; and the device,     *)
(* which serves the connections on its UAPI socket in order of arrival.  A *)
(* caller that waited UAPI_TIMEOUT gives up, but its command stays queued. *)
(***************************************************************************)
EXTENDS Integers, Sequences

CONSTANTS
    Keys,        \* WireGuard public keys
    Octets,      \* last octets of the address pool (2..254 in the code)
    Stale,       \* STALE_PEER_SECS and STALE_NEVER_CONNECTED_SECS
    Forget,      \* age at which Tunn drops a session, REJECT_AFTER_TIME
    Faults,      \* "timeout": a UAPI call may time out; "error": it may fail
    MaxFaults,   \* bound: number of such faults
    MaxClock,    \* bound: last instant
    None         \* absent value

ASSUME RegistrationConstants ==
    /\ None \notin Octets /\ None \notin Keys /\ None \notin Int
    /\ None \notin {"http", "reaper"}
    /\ Stale \in Nat /\ Forget \in Nat /\ MaxClock \in Nat /\ MaxFaults \in Nat
    /\ Faults \subseteq {"timeout", "error"}

VARIABLES
    now,                  \* the clock
    faults,               \* number of UAPI calls so far that timed out, that failed
    registered_peers,     \* RegistrationInner
    available_ips,
    peer_to_octet,
    peer_registered_at,
    server_pubkey_cache,  \* has the server key been looked up?
    lock,                 \* holder of the RegistrationInner mutex
    http,                 \* the HTTP thread
    reaper,               \* the reaper thread
    uapi,                 \* commands at the UAPI socket
    configured,           \* the device has a private key
    peers,                \* the device's peers: key -> its allowed octet
    peers_by_ip,          \* the device's routing table: octet -> key
    handshake,            \* a peer's TimeSessionEstablished, None before the first
    session,              \* the peers whose Tunn has a current session
    panicked              \* the device's worker died in update_peer

inner == <<registered_peers, available_ips, peer_to_octet, peer_registered_at>>
device == <<configured, peers, peers_by_ip, handshake, session, panicked>>
vars == <<now, faults, inner, server_pubkey_cache, lock, http, reaper, uapi, device>>

Callers == {"http", "reaper"}

Command == [from : Callers \cup {"gone"}, op : {"get", "set", "remove"},
            key : Keys \cup {None}, octet : Octets \cup {None}]

HttpIdle == [at |-> "idle", key |-> None, octet |-> None, status |-> None]

\* uapi_get_peers' answer: the device's peers and the age of their handshakes.
NoSnapshot == [peers |-> {}, age |-> [k \in Keys |-> None], taken |-> 0]

ReaperAsleep == [at |-> "sleep", snap |-> NoSnapshot, todo |-> {}, key |-> None]

Init ==
    /\ now = 0 /\ faults = [timeout |-> 0, error |-> 0]
    /\ registered_peers = {}
    /\ available_ips = Octets
    /\ peer_to_octet = [k \in Keys |-> None]
    /\ peer_registered_at = [k \in Keys |-> None]
    /\ server_pubkey_cache = FALSE
    /\ lock = None
    /\ http = HttpIdle
    /\ reaper = ReaperAsleep
    /\ uapi = <<>>
    /\ configured \in BOOLEAN      \* init_wg_server succeeded or not
    /\ peers = [k \in Keys |-> None]
    /\ peers_by_ip = [o \in Octets |-> None]
    /\ handshake = [k \in Keys |-> None]
    /\ session = {}
    /\ panicked = FALSE

------------------------------------------------------------------------------
(* UAPI calls *)

Call(from, op, k, o) ==
    uapi' = Append(uapi, [from |-> from, op |-> op, key |-> k, octet |-> o])

HttpReplyStillLocked(status) ==
    /\ http' = [HttpIdle EXCEPT !.status = status]
    /\ lock' = "http"

\* The HTTP thread answers and releases the mutex.
HttpReply(status) ==
    /\ http' = [HttpIdle EXCEPT !.status = status]
    /\ lock' = None

------------------------------------------------------------------------------
(* RegistrationInner *)

CommitRegisterOctetNotTaken(k, o) ==
    /\ UNCHANGED available_ips
    /\ registered_peers' = registered_peers \cup {k}
    /\ peer_to_octet' = [peer_to_octet EXCEPT ![k] = o]
    /\ peer_registered_at' = [peer_registered_at EXCEPT ![k] = now]

CommitRegister(k, o) ==
    /\ available_ips' = available_ips \ {o}
    /\ registered_peers' = registered_peers \cup {k}
    /\ peer_to_octet' = [peer_to_octet EXCEPT ![k] = o]
    /\ peer_registered_at' = [peer_registered_at EXCEPT ![k] = now]

CommitRemove(k) ==
    /\ available_ips' = available_ips \cup {peer_to_octet[k]}
    /\ registered_peers' = registered_peers \ {k}
    /\ peer_to_octet' = [peer_to_octet EXCEPT ![k] = None]
    /\ peer_registered_at' = [peer_registered_at EXCEPT ![k] = None]

------------------------------------------------------------------------------
(* The HTTP thread *)

KnownUnchecked(k) == FALSE

Known(k) == k \in registered_peers /\ peer_to_octet[k] # None

\* handle_registration once the server key is known, up to the UAPI call:
\* answer a known key, refuse when the pool is empty, else ask for the peer.
RegisterKnown(k, q) ==
    /\ Known(k)
    /\ HttpReply("ok") /\ uapi' = q

RegisterExhausted(k, q) ==
    /\ ~Known(k)
    /\ available_ips = {}
    /\ HttpReply("unavailable") /\ uapi' = q

RegisterAllocate(k, q) ==
    /\ ~Known(k)
    /\ \E o \in available_ips :
          /\ http' = [at |-> "set", key |-> k, octet |-> o, status |-> None]
          /\ uapi' = Append(q, [from |-> "http", op |-> "set", key |-> k, octet |-> o])
    /\ lock' = "http"

RegisterBody(k, q) ==
    RegisterKnown(k, q) \/ RegisterExhausted(k, q) \/ RegisterAllocate(k, q)

\* POST /v1/register: the mutex is taken for the whole request.
Register(k) ==
    /\ http.at = "idle" /\ lock = None
    /\ \/ server_pubkey_cache /\ RegisterBody(k, uapi)
       \/ /\ ~server_pubkey_cache
          /\ lock' = "http"
          /\ http' = [at |-> "info", key |-> k, octet |-> None, status |-> None]
          /\ Call("http", "get", None, None)
    /\ UNCHANGED <<now, faults, inner, server_pubkey_cache, reaper, device>>

\* POST /v1/unregister, up to the UAPI call.
Unregister(k) ==
    /\ http.at = "idle" /\ lock = None
    /\ \/ /\ peer_to_octet[k] = None
          /\ HttpReply("not_found") /\ UNCHANGED uapi
       \/ /\ peer_to_octet[k] # None
          /\ lock' = "http"
          /\ http' = [at |-> "remove", key |-> k, octet |-> None, status |-> None]
          /\ Call("http", "remove", k, None)
    /\ UNCHANGED <<now, faults, inner, server_pubkey_cache, reaper, device>>

------------------------------------------------------------------------------
(* The reaper thread *)

ReaperWake ==
    /\ reaper.at = "sleep"
    /\ reaper' = [reaper EXCEPT !.at = "get"]
    /\ Call("reaper", "get", None, None)
    /\ UNCHANGED <<now, faults, inner, server_pubkey_cache, lock, http, device>>

\* The device does not know the peer.
Lost(snap, k) == k \notin snap.peers

\* Its handshake is too old; an age of zero seconds does not count as one.
Quiet(snap, k) ==
    k \in snap.peers /\ snap.age[k] # None /\ snap.age[k] > 0 /\ snap.age[k] > Stale

\* No handshake is reported and the registration is too old.
NeverConnected(snap, k) ==
    /\ k \in snap.peers /\ (snap.age[k] = None \/ snap.age[k] = 0)
    /\ peer_registered_at[k] # None
    /\ snap.taken - peer_registered_at[k] > Stale

StaleKeysKnownOnly(snap) ==
    {k \in Keys : peer_to_octet[k] # None /\ (Quiet(snap, k) \/ NeverConnected(snap, k))}

StaleKeysNoZombies(snap) ==
    {k \in Keys : peer_to_octet[k] # None /\ (Lost(snap, k) \/ Quiet(snap, k))}

StaleKeys(snap) ==
    {k \in Keys : /\ peer_to_octet[k] # None
                  /\ Lost(snap, k) \/ Quiet(snap, k) \/ NeverConnected(snap, k)}

\* Go on with the next stale key, or release the mutex and sleep.
ReapNext(todo, q) ==
    \/ /\ todo = {}
       /\ reaper' = ReaperAsleep /\ lock' = None /\ uapi' = q
    \/ \E k \in todo :
          /\ reaper' = [reaper EXCEPT !.at = "remove", !.todo = todo \ {k}, !.key = k]
          /\ lock' = "reaper"
          /\ uapi' = Append(q, [from |-> "reaper", op |-> "remove", key |-> k, octet |-> None])

ReaperLock ==
    /\ reaper.at = "lock" /\ lock = None
    /\ ReapNext(StaleKeys(reaper.snap), uapi)
    /\ UNCHANGED <<now, faults, inner, server_pubkey_cache, http, device>>

------------------------------------------------------------------------------
(* The device serves the oldest command and the caller, if it still waits,   *)
(* goes on with the answer.                                                  *)

Snapshot ==
    [peers |-> {k \in Keys : peers[k] # None},
     age |-> [k \in Keys |-> IF k \in session THEN now - handshake[k] ELSE None],
     taken |-> now]

\* api_get; without a private key it reports no own_public_key.
ServeGet ==
    LET c == Head(uapi) IN
    /\ ~panicked /\ uapi # <<>> /\ c.op = "get"
    /\ \/ /\ c.from = "http" /\ configured
          /\ server_pubkey_cache' = TRUE
          /\ RegisterBody(http.key, Tail(uapi))
          /\ UNCHANGED reaper
       \/ /\ c.from = "http" /\ ~configured
          /\ HttpReply("unavailable") /\ uapi' = Tail(uapi)
          /\ UNCHANGED <<server_pubkey_cache, reaper>>
       \/ /\ c.from = "reaper"
          /\ reaper' = [reaper EXCEPT !.at = "lock", !.snap = Snapshot]
          /\ uapi' = Tail(uapi)
          /\ UNCHANGED <<server_pubkey_cache, lock, http>>
       \/ /\ c.from = "gone" /\ uapi' = Tail(uapi)
          /\ UNCHANGED <<server_pubkey_cache, lock, http, reaper>>
    /\ UNCHANGED <<now, faults, inner, device>>

\* update_peer for a new key.
ServeSet ==
    LET c == Head(uapi) IN
    /\ ~panicked /\ uapi # <<>> /\ c.op = "set"
    /\ configured /\ peers[c.key] = None
    /\ peers' = [peers EXCEPT ![c.key] = c.octet]
    /\ peers_by_ip' = [peers_by_ip EXCEPT ![c.octet] = c.key]
    /\ handshake' = [handshake EXCEPT ![c.key] = None]
    /\ session' = session \ {c.key}
    /\ uapi' = Tail(uapi)
    /\ \/ /\ c.from = "http"
          /\ CommitRegister(http.key, http.octet) /\ HttpReply("ok")
       \/ c.from = "gone" /\ UNCHANGED <<inner, http, lock>>
    /\ UNCHANGED <<now, faults, server_pubkey_cache, reaper, configured, panicked>>

\* update_peer panics for a key the device already has, or without a private
\* key; the worker dies with the write lock and serves nothing any more.
ServeSetPanic ==
    LET c == Head(uapi) IN
    /\ ~panicked /\ uapi # <<>> /\ c.op = "set"
    /\ ~configured \/ peers[c.key] # None
    /\ panicked' = TRUE
    /\ UNCHANGED <<now, faults, inner, server_pubkey_cache, lock, http, reaper, uapi,
                   configured, peers, peers_by_ip, handshake, session>>

RoutesKept(k) == peers_by_ip

PurgedRoutes(k) == [o \in Octets |-> IF peers_by_ip[o] = k THEN None ELSE peers_by_ip[o]]

\* remove_peer; removing an unknown key is no error.
ServeRemove ==
    LET c == Head(uapi) IN
    /\ ~panicked /\ uapi # <<>> /\ c.op = "remove"
    /\ peers' = [peers EXCEPT ![c.key] = None]
    /\ peers_by_ip' = PurgedRoutes(c.key)
    /\ handshake' = [handshake EXCEPT ![c.key] = None]
    /\ session' = session \ {c.key}
    /\ \/ /\ c.from = "http"
          /\ CommitRemove(http.key) /\ HttpReply("ok")
          /\ uapi' = Tail(uapi) /\ UNCHANGED reaper
       \/ /\ c.from = "reaper"
          /\ CommitRemove(reaper.key) /\ ReapNext(reaper.todo, Tail(uapi))
          /\ UNCHANGED http
       \/ /\ c.from = "gone"
          /\ uapi' = Tail(uapi) /\ UNCHANGED <<inner, http, lock, reaper>>
    /\ UNCHANGED <<now, faults, server_pubkey_cache, configured, panicked>>
------------------------------------------------------------------------------
(* Failing UAPI calls *)

Fault(f) ==
    /\ f \in Faults /\ faults.timeout + faults.error < MaxFaults
    /\ faults' = [faults EXCEPT ![f] = @ + 1]

\* The caller sees an error: handle_registration and handle_unregister answer
\* 500, the reaper skips its round or goes on with the next stale key.
CallFails(who, q) ==
    \/ /\ who = "http" /\ HttpReply("error")
       /\ uapi' = q /\ UNCHANGED reaper
    \/ /\ who = "reaper" /\ reaper.at = "get"
       /\ reaper' = ReaperAsleep
       /\ uapi' = q /\ UNCHANGED <<http, lock>>
    \/ /\ who = "reaper" /\ reaper.at = "remove"
       /\ ReapNext(reaper.todo, q) /\ UNCHANGED http

\* UAPI_TIMEOUT passed: the caller is gone, its command stays at the socket.
Timeout(i) ==
    /\ uapi[i].from # "gone"
    /\ Fault("timeout")
    /\ CallFails(uapi[i].from, [uapi EXCEPT ![i].from = "gone"])
    /\ UNCHANGED <<now, inner, server_pubkey_cache, device>>

Without(i) == [j \in 1..(Len(uapi) - 1) |-> IF j < i THEN uapi[j] ELSE uapi[j + 1]]

\* The connection fails before the device reads the command.
UapiError(i) ==
    /\ uapi[i].from # "gone"
    /\ Fault("error")
    /\ CallFails(uapi[i].from, Without(i))
    /\ UNCHANGED <<now, inner, server_pubkey_cache, device>>

------------------------------------------------------------------------------
(* The device's own activity and the clock *)

\* A handshake with the peer completes: initiation, response and the first data
\* packet, which makes the new session current.
Handshake(k) ==
    /\ ~panicked /\ peers[k] # None
    /\ handshake' = [handshake EXCEPT ![k] = now]
    /\ session' = session \cup {k}
    /\ UNCHANGED <<now, faults, inner, server_pubkey_cache, lock, http, reaper, uapi,
                   configured, peers, peers_by_ip, panicked>>

\* update_session_timers drops a session older than REJECT_AFTER_TIME.
SessionExpires(k) ==
    /\ ~panicked /\ k \in session /\ now - handshake[k] > Forget
    /\ session' = session \ {k}
    /\ UNCHANGED <<now, faults, inner, server_pubkey_cache, lock, http, reaper, uapi,
                   configured, peers, peers_by_ip, handshake, panicked>>

Tick ==
    /\ now < MaxClock /\ now' = now + 1
    /\ UNCHANGED <<faults, inner, server_pubkey_cache, lock, http, reaper, uapi, device>>

Serve == ServeGet \/ ServeSet \/ ServeSetPanic \/ ServeRemove

Next ==
    \/ \E k \in Keys : Register(k) \/ Unregister(k)
    \/ ReaperWake \/ ReaperLock
    \/ Serve
    \/ \E i \in DOMAIN uapi : Timeout(i) \/ UapiError(i)
    \/ \E k \in Keys : Handshake(k) \/ SessionExpires(k)
    \/ Tick

Spec == Init /\ [][Next]_vars

\* The device keeps serving its socket, the reaper's sleep ends, and the reaper
\* gets the mutex the HTTP thread releases after every request (it then waits
\* for the next request, up to a second).
Fairness ==
    /\ WF_vars(Serve)
    /\ WF_vars(ReaperWake)
    /\ SF_vars(ReaperLock)

FairSpec == Spec /\ Fairness
------------------------------------------------------------------------------
(* Properties *)

Times == 0..MaxClock

HttpThread ==
    [at : {"idle", "info", "set", "remove"}, key : Keys \cup {None}, octet : Octets \cup {None},
     status : {None, "ok", "not_found", "unavailable", "error"}]

Snapshots == [peers : SUBSET Keys, age : [Keys -> Times \cup {None}], taken : Times]

ReaperThread ==
    [at : {"sleep", "get", "lock", "remove"}, snap : Snapshots, todo : SUBSET Keys,
     key : Keys \cup {None}]

TypeOK ==
    /\ now \in Times /\ faults \in [{"timeout", "error"} -> 0..MaxFaults]
    /\ registered_peers \subseteq Keys /\ available_ips \subseteq Octets
    /\ peer_to_octet \in [Keys -> Octets \cup {None}]
    /\ peer_registered_at \in [Keys -> Times \cup {None}]
    /\ server_pubkey_cache \in BOOLEAN
    /\ lock \in Callers \cup {None}
    /\ http \in HttpThread /\ reaper \in ReaperThread
    /\ uapi \in Seq(Command)
    /\ configured \in BOOLEAN
    /\ peers \in [Keys -> Octets \cup {None}]
    /\ peers_by_ip \in [Octets -> Keys \cup {None}]
    /\ handshake \in [Keys -> Times \cup {None}]
    /\ session \subseteq Keys
    /\ panicked \in BOOLEAN

Leased == {peer_to_octet[k] : k \in Keys} \ {None}

\* The four collections of RegistrationInner, updated one by one on three code
\* paths, always describe the same set of leases: the pool is exactly the octets
\* nobody holds, no two keys share one, and no failed or late UAPI call loses or
\* duplicates an octet.
PoolConsistent ==
    /\ registered_peers = {k \in Keys : peer_to_octet[k] # None}
    /\ registered_peers = {k \in Keys : peer_registered_at[k] # None}
    /\ available_ips = Octets \ Leased
    /\ \A j, k \in Keys : peer_to_octet[j] = peer_to_octet[k] /\ peer_to_octet[j] # None => j = k

\* Traffic to a leased address is never routed to another key (peers_by_ip of
\* the device against peer_to_octet of the API), not even when UAPI commands of
\* callers that gave up are executed later.
NoMisroute ==
    \A k \in Keys :
        peer_to_octet[k] # None => peers_by_ip[peer_to_octet[k]] \in {k, None}

Agreement ==
    /\ peers = peer_to_octet
    /\ \A o \in Octets, k \in Keys : peers_by_ip[o] = k <=> peers[k] = o

\* Unless a UAPI call has timed out, the API's books and the device agree while
\* nobody holds the mutex: every lease is a peer with that address and a route,
\* and there is no other peer.  Calls that fail, the reaper's included, leave
\* both sides as they were.
InSync == faults.timeout = 0 /\ lock = None => Agreement

\* It takes a set whose caller gave up to make update_peer panic: neither failed
\* calls, nor the reaper, nor a device without a key (init_wg_server failed) do.
PanicNeedsTimeout == panicked => faults.timeout > 0

\* The API implements the contract the resource server relies on.
Contract == INSTANCE PeerService WITH lease <- peer_to_octet

ImplementsPeerService == Contract!PeerSpec

\* As long as the device lives, every request to the registration API is
\* answered and the mutex released, whatever the reaper does with it meanwhile.
MutexReleased == []<>(lock = None \/ panicked)

\* A lease the device has lost (a removal whose caller had given up) is taken
\* back by the reaper, so its octet returns to the pool.
LostPeerReleased ==
    \A k \in Keys : peer_to_octet[k] # None /\ peers[k] = None
                       ~> (peer_to_octet[k] = None \/ peers[k] # None \/ panicked)

\* A peer that never completes a handshake does not keep its address for ever.
IdlePeerReaped ==
    \A k \in Keys :
        peer_to_octet[k] # None /\ k \notin session /\ now - peer_registered_at[k] > Stale
            ~> (peer_to_octet[k] = None \/ k \in session \/ panicked
                   \/ now - peer_registered_at[k] <= Stale)

------------------------------------------------------------------------------
(* The inductive invariant behind PoolConsistent and NoMisroute *)

\* A command at the socket is one its caller, if it still waits, waits for, and
\* a set never concerns an octet that is leased.
CommandOK(c, h, r, avail) ==
    /\ c.op # "get" => c.key \in Keys
    /\ c.op = "set" => c.octet \in avail /\ c.from # "reaper"
    /\ c.from = "http" =>
          \/ c.op = "get" /\ h.at = "info"
          \/ c.op = "set" /\ h.at = "set" /\ c.key = h.key /\ c.octet = h.octet
          \/ c.op = "remove" /\ h.at = "remove" /\ c.key = h.key
    /\ c.from = "reaper" =>
          \/ c.op = "get" /\ r.at = "get"
          \/ c.op = "remove" /\ r.at = "remove" /\ c.key = r.key

\* Command c is ahead of d: a caller has one call at a time, and only the HTTP
\* thread sends set, so none is behind the one it waits for.
InOrder(c, d) ==
    /\ c.from = "http" => d.from # "http" /\ d.op # "set"
    /\ c.from = "reaper" => d.from # "reaper"

QueueOK(q, h, r, avail) ==
    /\ q \in Seq(Command)
    /\ \A i \in 1..Len(q) : CommandOK(q[i], h, r, avail)
    /\ \A i, j \in 1..Len(q) : i < j => InOrder(q[i], q[j])

Holders ==
    /\ lock = "http" <=> http.at # "idle"
    /\ lock = "reaper" <=> reaper.at = "remove"

HttpLocals ==
    /\ http.at # "idle" => http.key \in Keys
    /\ http.at = "set" => http.octet \in available_ips /\ peer_to_octet[http.key] = None
    /\ http.at = "remove" => peer_to_octet[http.key] # None

ReaperLocals ==
    reaper.at = "remove" =>
        /\ reaper.key \in Keys \ reaper.todo
        /\ \A k \in reaper.todo \cup {reaper.key} : peer_to_octet[k] # None

SessionTimes == \A k \in session : handshake[k] \in 0..now

IInv ==
    /\ TypeOK /\ PoolConsistent /\ NoMisroute
    /\ Holders /\ HttpLocals /\ ReaperLocals /\ SessionTimes
    /\ QueueOK(uapi, http, reaper, available_ips)

\* Until a call times out every command has a caller that waits for it, so the
\* device's change and the commit come together; a set is sent only after the
\* device has told its public key.
SyncInv ==
    faults.timeout = 0 =>
        /\ ~panicked /\ Agreement
        /\ server_pubkey_cache \/ http.at = "set" => configured
        /\ \A i \in 1..Len(uapi) : uapi[i].from # "gone"
==============================================================================
