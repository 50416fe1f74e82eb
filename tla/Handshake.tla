------------------------------- MODULE Handshake -------------------------------
(***************************************************************************)
(* Two WireGuard tunnels (noise/handshake.rs, the handlers of noise/mod.rs *)
(* and noise/rate_limiter.rs) that establish sessions with each other over *)
(* a network that loses, delays, reorders and duplicates datagrams.  Both  *)
(* sides may initiate at any time, so handshakes cross, are superseded and *)
(* fill the ring of sessions.                                              *)
(*                                                                         *)
(* Every handshake message draws an ephemeral key; the keys are numbered   *)
(* in the order in which they are drawn.  The number also stands for the   *)
(* message's TAI64N stamp and for its mac1, which are as unique and as     *)
(* ordered.  Cryptography is perfect: a message opens only with the keys   *)
(* it was sealed with.  When a timer asks for an initiation, ends a        *)
(* session or gives up is left open here; module Tunnel has the timers.    *)
(***************************************************************************)
EXTENDS Integers, FiniteSets

CONSTANTS
    Sides,         \* the two tunnels
    NSessions,     \* N_SESSIONS
    IndexSpace,    \* values of the cyclic part of an index, 256 in the code
    MaxEph,        \* bound on the handshake messages
    MaxData,       \* bound on the data packets of one side in one session
    MaxClock,      \* bound on the clock
    MaxFaults,     \* bound on what else goes wrong: load, expiry, a peer made anew
    None

ASSUME HandshakeConstants ==
    /\ \E a, b \in Sides : a # b /\ Sides = {a, b}
    /\ NSessions \in Nat \ {0} /\ IndexSpace \in Nat \ {0}
    /\ MaxEph \in Nat /\ MaxData \in Nat /\ MaxClock \in Nat /\ MaxFaults \in Nat
    /\ None \notin Nat \cup [local : Nat, remote : Nat, key : Nat \X Nat,
                              role : {"initiator", "responder"}, sent : Nat, rcvd : SUBSET Nat]

Slots == 0 .. NSessions - 1
Slot(idx) == idx % NSessions
Peer(p) == CHOOSE q \in Sides : q # p

VARIABLES
    tunn,        \* side -> Tunn: handshake, sessions, current, cookies
    epoch,       \* side -> the secret current_cookie is derived from
    now,         \* the tunnels' TimeCurrent
    net,         \* datagrams sent so far; any of them may arrive, any number of times
    drawn,       \* ephemeral keys drawn so far
    faults,      \* faults so far
    sealed, opened, delivered   \* history, see the properties

history == <<sealed, opened, delivered>>
vars == <<tunn, epoch, now, net, drawn, faults, history>>

Idle == [type |-> "None"]
Expired == [type |-> "Expired"]
InitSent(idx, eph) == [type |-> "InitSent", local_index |-> idx, eph |-> eph]

Session(local, remote, key, role) ==
    [local |-> local, remote |-> remote, key |-> key, role |-> role, sent |-> 0, rcvd |-> {}]

\* Tunn::new; g tells the Tunns of one side apart, as the index the device gives them.
NewTunn(g) ==
    [state |-> Idle, previous |-> Idle, next_index |-> g * IndexSpace, stamp |-> 0,
     sessions |-> [i \in Slots |-> None], timers |-> [i \in Slots |-> 0], current |-> 0,
     write_cookie |-> None, cookie_index |-> 0, last_mac1 |-> None]

Init ==
    /\ tunn = [p \in Sides |-> NewTunn(0)]
    /\ epoch = [p \in Sides |-> 0]
    /\ now = 0 /\ net = {} /\ drawn = 0 /\ faults = 0
    /\ sealed = 0 /\ opened = 0 /\ delivered = {}

------------------------------------------------------------------------------
(* Handshake *)

\* inc_index: the low byte counts and wraps, the rest is the tunnel's own.
IncIndex(idx) == (idx \div IndexSpace) * IndexSpace + ((idx + 1) % IndexSpace)

\* append_mac1_and_mac2 of a message sent from t.
WithMacs(t, idx, eph) == [t EXCEPT !.cookie_index = idx, !.last_mac1 = eph]

InitMsg(p, t, eph) ==
    [type |-> "init", from |-> p, sender |-> IncIndex(t.next_index), eph |-> eph,
     mac2 |-> t.write_cookie]

\* format_handshake_initiation
SendInit(t, eph) ==
    LET idx == IncIndex(t.next_index)
    IN WithMacs([t EXCEPT !.next_index = idx, !.previous = t.state,
                          !.state = InitSent(idx, eph)], idx, eph)

\* The stamp of an initiation is after the one answered last.
After(m, t) == m.eph > t.stamp

RespMsg(p, t, m, eph) ==
    [type |-> "resp", from |-> p, sender |-> IncIndex(t.next_index), receiver |-> m.sender,
     eph |-> eph, ini |-> m.eph, mac2 |-> t.write_cookie]

Store(t, s) ==
    [t EXCEPT !.sessions[Slot(s.local)] = s, !.timers[Slot(s.local)] = now]

AnswerInitForgetsStamp(t, m, eph) ==
    LET idx == IncIndex(t.next_index)
    IN WithMacs(Store([t EXCEPT !.next_index = idx, !.previous = t.state, !.state = Idle],
                      Session(idx, m.sender, <<m.eph, eph>>, "responder")), idx, eph)

AnswerInitIsCurrent(t, m, eph) ==
    LET idx == IncIndex(t.next_index)
    IN WithMacs(Store([t EXCEPT !.next_index = idx, !.stamp = m.eph, !.previous = t.state,
                                !.state = Idle, !.current = idx],
                      Session(idx, m.sender, <<m.eph, eph>>, "responder")), idx, eph)

\* receive_handshake_initialization with format_handshake_response, and the
\* session it yields stored in the ring.  It does not become current.
AnswerInit(t, m, eph) ==
    LET idx == IncIndex(t.next_index)
    IN WithMacs(Store([t EXCEPT !.next_index = idx, !.stamp = m.eph, !.previous = t.state,
                                !.state = Idle],
                      Session(idx, m.sender, <<m.eph, eph>>, "responder")), idx, eph)

\* receive_handshake_response: the initiation in flight, or the one before it.  A
\* response that is not for that very initiation fails to decrypt.
Awaits(st, m) == st.type = "InitSent" /\ st.local_index = m.receiver
Opens(st, m) == Awaits(st, m) /\ st.eph = m.ini

ForCurrent(t, m) == Opens(t.state, m)
ForPrevious(t, m) == ~Awaits(t.state, m) /\ Opens(t.previous, m)

TakeResponseKeepsState(t, m) ==
    Store(t, Session(m.receiver, m.sender, <<m.ini, m.eph>>, "initiator"))

TakeResponseLatestIndex(t, m) ==
    Store([t EXCEPT !.state = IF ForCurrent(t, m) THEN Idle ELSE @,
                    !.previous = IF ForCurrent(t, m) THEN @ ELSE Idle],
          Session(t.next_index, m.sender, <<m.ini, m.eph>>, "initiator"))

TakeResponse(t, m) ==
    Store([t EXCEPT !.state = IF ForCurrent(t, m) THEN Idle ELSE @,
                    !.previous = IF ForCurrent(t, m) THEN @ ELSE Idle],
          Session(m.receiver, m.sender, <<m.ini, m.eph>>, "initiator"))

\* set_current_session
SetCurrent(t, idx) ==
    IF \/ t.sessions[Slot(t.current)] = None
       \/ t.timers[Slot(idx)] >= t.timers[Slot(t.current)]
    THEN [t EXCEPT !.current = idx] ELSE t

DataMsg(p, s) ==
    [type |-> "data", from |-> p, receiver |-> s.remote, key |-> s.key, counter |-> s.sent]

\* format_packet_data under the session in a slot
Sealed(t, i) == [t EXCEPT !.sessions[i].sent = @ + 1]

\* receive_packet_data: the window of the session has the counter.
Opened(t, i, c) == [t EXCEPT !.sessions[i].rcvd = @ \cup {c}]

------------------------------------------------------------------------------
(* RateLimiter::verify_packet.  The count of handshake messages behind     *)
(* is_under_load is that of the whole device, so other peers put a side    *)
(* under load at any time and reset_count ends it at any time.             *)

Fault == faults < MaxFaults /\ faults' = faults + 1

\* format_cookie_reply
CookieMsg(p, m) ==
    [type |-> "cookie", from |-> p, receiver |-> m.sender, mac1 |-> m.eph, cookie |-> epoch[p]]

------------------------------------------------------------------------------
(* Actions *)

Arrives(p, m, type) == m \in net /\ m.from # p /\ m.type = type

\* encapsulate without a session, a retransmission or a rekey.
Initiate(p) ==
    /\ drawn < MaxEph
    /\ drawn' = drawn + 1
    /\ tunn' = [tunn EXCEPT ![p] = SendInit(@, drawn')]
    /\ net' = net \cup {InitMsg(p, tunn[p], drawn')}
    /\ UNCHANGED <<epoch, now, faults, sealed, opened, delivered>>

\* handle_handshake_init
ReceiveInit(p, m) ==
    /\ Arrives(p, m, "init")
    /\ After(m, tunn[p])
    /\ drawn < MaxEph
    /\ drawn' = drawn + 1
    /\ tunn' = [tunn EXCEPT ![p] = AnswerInit(@, m, drawn')]
    /\ net' = net \cup {RespMsg(p, tunn[p], m, drawn')}
    /\ UNCHANGED <<epoch, now, faults, sealed, opened, delivered>>

\* handle_handshake_response: store, make current if it is the newest, and answer
\* with a keepalive.
ReceiveResponse(p, m) ==
    /\ Arrives(p, m, "resp")
    /\ ForCurrent(tunn[p], m) \/ ForPrevious(tunn[p], m)
    /\ LET t == TakeResponse(tunn[p], m)
           i == CHOOSE j \in Slots : t.sessions[j] # None /\ t.sessions[j].key = <<m.ini, m.eph>>
       IN /\ tunn' = [tunn EXCEPT ![p] = SetCurrent(Sealed(t, i), t.sessions[i].local)]
          /\ net' = net \cup {DataMsg(p, t.sessions[i])}
    /\ sealed' = sealed + 1
    /\ UNCHANGED <<epoch, now, drawn, faults, opened, delivered>>

\* Under load a message without the current cookie as its mac2 is answered with
\* that cookie and otherwise ignored.
DemandCookie(p, m) ==
    /\ Arrives(p, m, "init") \/ Arrives(p, m, "resp")
    /\ m.mac2 # epoch[p]
    /\ Fault
    /\ net' = net \cup {CookieMsg(p, m)}
    /\ UNCHANGED <<tunn, epoch, now, drawn, history>>

\* handle_cookie_reply: only for the last handshake message this side sent.
ReceiveCookie(p, m) ==
    /\ Arrives(p, m, "cookie")
    /\ tunn[p].last_mac1 = m.mac1 /\ tunn[p].cookie_index = m.receiver
    /\ tunn' = [tunn EXCEPT ![p].write_cookie = m.cookie]
    /\ UNCHANGED <<epoch, now, net, drawn, faults, history>>

\* handle_data: the session in the packet's slot, if it is the packet's.
ReceiveData(p, m) ==
    /\ Arrives(p, m, "data")
    /\ LET i == Slot(m.receiver)
           s == tunn[p].sessions[i]
       IN /\ s # None
          /\ s.local = m.receiver /\ s.key = m.key
          /\ m.counter \notin s.rcvd
          /\ tunn' = [tunn EXCEPT ![p] = SetCurrent(Opened(@, i, m.counter), m.receiver)]
    /\ opened' = opened + 1 /\ delivered' = delivered \cup {m}
    /\ UNCHANGED <<epoch, now, net, drawn, faults, sealed>>

\* encapsulate with a session in the current slot.
SendData(p) ==
    LET i == Slot(tunn[p].current)
        s == tunn[p].sessions[i]
    IN /\ s # None
       /\ s.sent < MaxData
       /\ tunn' = [tunn EXCEPT ![p] = Sealed(@, i)]
       /\ net' = net \cup {DataMsg(p, s)}
       /\ sealed' = sealed + 1
       /\ UNCHANGED <<epoch, now, drawn, faults, opened, delivered>>

\* A session is older than REJECT_AFTER_TIME.
ExpireSession(p, i) ==
    /\ Fault /\ tunn[p].sessions[i] # None
    /\ tunn' = [tunn EXCEPT ![p].sessions[i] = None, ![p].timers[i] = now]
    /\ UNCHANGED <<epoch, now, net, drawn, history>>

\* The attempt or the connection is given up: set_expired and clear_all.
Expire(p) ==
    /\ Fault /\ tunn[p].state # Expired
    /\ tunn' = [tunn EXCEPT ![p].state = Expired, ![p].previous = Expired,
                            ![p].sessions = [i \in Slots |-> None]]
    /\ UNCHANGED <<epoch, now, net, drawn, history>>

\* A cookie is older than COOKIE_EXPIRATION_TIME.
ExpireCookie(p) ==
    /\ tunn[p].write_cookie # None
    /\ tunn' = [tunn EXCEPT ![p].write_cookie = None]
    /\ UNCHANGED <<epoch, now, net, drawn, faults, history>>

\* The peer is removed and added again: a new Tunn under a new index.
Recreate(p) ==
    /\ Fault /\ tunn[p].next_index < IndexSpace
    /\ tunn' = [tunn EXCEPT ![p] = NewTunn(1)]
    /\ UNCHANGED <<epoch, now, net, drawn, history>>

\* COOKIE_REFRESH seconds have passed on the side that issues cookies.
RefreshCookie(p) ==
    /\ Fault
    /\ epoch' = [epoch EXCEPT ![p] = @ + 1]
    /\ UNCHANGED <<tunn, now, net, drawn, history>>

Tick ==
    /\ now < MaxClock
    /\ now' = now + 1
    /\ UNCHANGED <<tunn, epoch, net, drawn, faults, history>>

Receive(p, m) ==
    \/ ReceiveInit(p, m) \/ ReceiveResponse(p, m) \/ DemandCookie(p, m)
    \/ ReceiveCookie(p, m) \/ ReceiveData(p, m)

Next ==
    \/ \E p \in Sides :
          \/ Initiate(p) \/ SendData(p)
          \/ \E m \in net : Receive(p, m)
          \/ \E i \in Slots : ExpireSession(p, i)
          \/ Expire(p) \/ ExpireCookie(p) \/ Recreate(p) \/ RefreshCookie(p)
    \/ Tick

Spec == Init /\ [][Next]_vars
------------------------------------------------------------------------------
(* Properties *)

Sessions(p) == {tunn[p].sessions[i] : i \in Slots} \ {None}
Data == {m \in net : m.type = "data"}
Indices == 0 .. 2 * IndexSpace - 1
Keys == (1 .. MaxEph) \X (1 .. MaxEph)

\* Type invariant; a session is in the slot of its index.
TypeOK ==
    /\ drawn \in 0 .. MaxEph /\ now \in 0 .. MaxClock
    /\ faults \in 0 .. MaxFaults /\ epoch \in [Sides -> 0 .. MaxFaults]
    /\ \A p \in Sides :
          /\ tunn[p].next_index \in Indices /\ tunn[p].current \in Indices
          /\ tunn[p].stamp \in 0 .. MaxEph
          /\ tunn[p].write_cookie \in {None} \cup 0 .. MaxFaults
          /\ \A i \in Slots : tunn[p].sessions[i] # None =>
                /\ Slot(tunn[p].sessions[i].local) = i
                /\ tunn[p].sessions[i].key \in Keys

\* Both ends of a session agree on it: whoever holds the two halves of a key has
\* opposite roles, and each half names the other's index, whether the handshakes
\* crossed, were superseded or their messages came twice.
SessionsAgree ==
    /\ TypeOK
    /\ \A p, q \in Sides : p # q =>
          \A s \in Sessions(p), t \in Sessions(q) :
              s.key = t.key => /\ s.local = t.remote /\ s.remote = t.local
                               /\ s.role # t.role

\* No nonce is used twice under one key, and every packet is delivered at most once,
\* over all sessions: a session is never set up a second time, with its counter back
\* at 0 and its window empty, by a duplicated response or initiation.
NonceUnique ==
    /\ sealed = Cardinality(Data)
    /\ opened = Cardinality(delivered)

\* A tunnel answers an initiation at most once, so replays cannot fill its ring.
AnsweredOnce ==
    \A m, n \in {r \in net : r.type = "resp"} :
        m.from = n.from /\ m.ini = n.ini /\ m.sender \div IndexSpace = n.sender \div IndexSpace
            => m = n

\* The current index is that of a session its initiator has not confirmed.
UnconfirmedIsCurrent(t) ==
    LET s == t.sessions[Slot(t.current)]
    IN s # None /\ s.role = "responder" /\ s.rcvd = {} /\ s.local = t.current

\* A responder makes no session current before the initiator has shown that it
\* has the key: when an unconfirmed session is where encapsulate looks, the ring
\* went all the way round and its index is another one than the current.
UnconfirmedNeedsWrap == \A p \in Sides : ~UnconfirmedIsCurrent(tunn[p])
------------------------------------------------------------------------------
(* The inductive invariant behind the properties *)

HandshakeStates ==
    {Idle, Expired} \cup [type : {"InitSent"}, local_index : Indices, eph : 1 .. MaxEph]

SessionSet ==
    [local : Indices, remote : Indices, key : Keys, role : {"initiator", "responder"},
     sent : Nat, rcvd : SUBSET Nat]

Tunns ==
    [state : HandshakeStates, previous : HandshakeStates, next_index : Indices,
     stamp : 0 .. MaxEph, sessions : [Slots -> SessionSet \cup {None}],
     timers : [Slots -> 0 .. MaxClock], current : Indices,
     write_cookie : {None} \cup 0 .. MaxFaults, cookie_index : Indices,
     last_mac1 : {None} \cup 1 .. MaxEph]

\* A cookie is a secret its issuer has used.
CookiesOK ==
    /\ \A p \in Sides : epoch[p] \in 0 .. faults
    /\ \A m \in net : m.type = "cookie" => m.cookie \in 0 .. faults

\* An ephemeral key belongs to one message, and a response answers an initiation
\* of another side.
NetOK ==
    /\ IsFiniteSet(net)
    /\ \A m \in net : m.type \in {"init", "resp"} =>
          m.from \in Sides /\ m.eph \in 1 .. drawn /\ m.sender \in Indices
    /\ \A m, n \in net : m.type \in {"init", "resp"} /\ n.type \in {"init", "resp"} /\ m.eph = n.eph
          => m = n
    /\ \A r \in net : r.type = "resp" =>
          \E m \in net : /\ m.type = "init" /\ m.from # r.from
                         /\ m.eph = r.ini /\ m.sender = r.receiver

\* An initiation a tunnel waits for is one it sent; it waits for it once.
Waits(st, e) == st.type = "InitSent" /\ st.eph = e
Live(t, e) == Waits(t.state, e) \/ Waits(t.previous, e)

SentInit(p, e, idx) ==
    \E m \in net : m.type = "init" /\ m.from = p /\ m.eph = e /\ m.sender = idx

PendingOK ==
    \A p \in Sides :
        /\ tunn[p].state.type = "InitSent" =>
              SentInit(p, tunn[p].state.eph, tunn[p].state.local_index)
        /\ tunn[p].previous.type = "InitSent" =>
              /\ SentInit(p, tunn[p].previous.eph, tunn[p].previous.local_index)
              /\ ~Waits(tunn[p].state, tunn[p].previous.eph)

\* Response r set up session s of side p, which then is done with the initiation.
FromResponse(p, s, r) ==
    /\ r.type = "resp" /\ s.key = <<r.ini, r.eph>>
    /\ \/ s.role = "responder" /\ r.from = p /\ s.local = r.sender /\ s.remote = r.receiver
       \/ /\ s.role = "initiator" /\ r.from # p /\ s.local = r.receiver /\ s.remote = r.sender
          /\ SentInit(p, r.ini, r.receiver)

\* Whoever used key k has no initiation in flight that could set it up again.
Used(p, k) ==
    \E r \in net : /\ r.type = "resp" /\ k = <<r.ini, r.eph>>
                   /\ r.from # p => ~Live(tunn[p], r.ini)

HalvesOK ==
    \A p \in Sides : \A s \in Sessions(p) :
        Used(p, s.key) /\ \E r \in net : FromResponse(p, s, r)

\* The packets sent and delivered under a key are those its session knows of.
DataOK ==
    /\ \A d \in Data : /\ d.from \in Sides /\ d.receiver \in Indices /\ d.counter \in Nat
                       /\ Used(d.from, d.key)
                       /\ \A s \in Sessions(d.from) : s.key = d.key => d.counter < s.sent
    /\ delivered \subseteq Data
    /\ \A d \in delivered : \A p \in Sides \ {d.from} :
          /\ Used(p, d.key)
          /\ \A s \in Sessions(p) : s.key = d.key => d.counter \in s.rcvd

\* A tunnel's stamp covers the initiations it answered.
StampOK ==
    \A r \in net : r.type = "resp" =>
        LET t == tunn[r.from] IN
        /\ r.sender \div IndexSpace <= t.next_index \div IndexSpace
        /\ r.sender \div IndexSpace = t.next_index \div IndexSpace => r.ini <= t.stamp

IInv ==
    /\ TypeOK /\ tunn \in [Sides -> Tunns]
    /\ CookiesOK /\ NetOK /\ PendingOK /\ HalvesOK /\ DataOK /\ StampOK
    /\ NonceUnique /\ AnsweredOnce

\* As long as no index comes back, none in use is ahead of the counter.
Indexed(t, n) ==
    /\ t.next_index % IndexSpace <= n /\ t.current <= t.next_index
    /\ \A i \in Slots : t.sessions[i] # None => t.sessions[i].local <= t.next_index
    /\ \A st \in {t.state, t.previous} : st.type = "InitSent" => st.local_index <= t.next_index

IndexOK == \A p \in Sides : Indexed(tunn[p], drawn)
==============================================================================
