-------------------------------- MODULE Tunnel --------------------------------
(***************************************************************************)
(* One WireGuard tunnel over time: encapsulate, the packet queue, the      *)
(* handlers of noise/mod.rs and the timers of noise/timers.rs, driven by   *)
(* the device's handlers (flush after a reply, timers every 250 ms for the *)
(* peers that have an endpoint).                                           *)
(*                                                                         *)
(* TimeCurrent is a copy of the clock that only update_timers renews; what *)
(* the handlers record in between is that copy.  The worker that runs the  *)
(* timers may be late.  The peer is the environment: it may answer any     *)
(* initiation that was sent, initiate itself, send data under any session  *)
(* and stay silent.  Module Handshake has the keys and indices of the two  *)
(* sides; here a session is its index and the time it was set up.          *)
(***************************************************************************)
EXTENDS Integers, Sequences

CONSTANTS
    NSessions, MaxQueue,           \* N_SESSIONS, MAX_QUEUE_DEPTH
    RekeyAfter, RejectAfter,       \* REKEY_AFTER_TIME, REJECT_AFTER_TIME
    RekeyAttempt, RekeyTimeout,    \* REKEY_ATTEMPT_TIME, REKEY_TIMEOUT
    KeepaliveTimeout,              \* KEEPALIVE_TIMEOUT
    Keepalives,                    \* persistent keepalive intervals, 0 for none
    MaxLag,        \* how late the timers may run
    MaxEvents,     \* bound on the events the peer and the interface cause
    LastEvent,     \* after this time nothing arrives any more
    Horizon,       \* bound on the clock
    None

ASSUME TunnelConstants ==
    /\ NSessions \in Nat \ {0} /\ MaxQueue \in Nat \ {0}
    /\ RekeyTimeout \in Nat \ {0} /\ KeepaliveTimeout \in Nat \ {0}
    /\ RekeyAttempt \in Nat /\ RekeyAttempt > RekeyTimeout
    /\ RekeyTimeout <= KeepaliveTimeout
    /\ RekeyAfter \in Nat /\ RejectAfter \in Nat
    /\ RekeyAfter < RejectAfter - KeepaliveTimeout - RekeyTimeout
    /\ Keepalives \subseteq Nat /\ MaxLag \in Nat
    /\ MaxEvents \in Nat /\ LastEvent \in Nat /\ Horizon \in Nat
    /\ None \notin Nat \cup [local : Nat, born : Nat]

Slots == 0 .. NSessions - 1
Slot(idx) == idx % NSessions

TimerName ==
    {"Current", "SessionEstablished", "HandshakeStarted", "PacketReceived", "PacketSent",
     "DataPacketReceived", "DataPacketSent", "PersistentKeepalive"}

\* The timers whose true time is kept beside the time they hold.
Traffic == {"PacketReceived", "PacketSent", "DataPacketReceived", "DataPacketSent"}

VARIABLES
    tunn,         \* Tunn
    endpoint,     \* the peer's address is known
    clock,        \* Instant::now, from the creation of the tunnel
    configured,   \* the address was known from the start
    prompt,       \* the timers are never late and the peer answers at once
    events        \* events so far

vars == <<tunn, endpoint, clock, configured, prompt, events>>

Idle == [type |-> "None"]
Expired == [type |-> "Expired"]
InitSent(idx, time, key, out) ==
    [type |-> "InitSent", local_index |-> idx, time_sent |-> time, key |-> key, out |-> out]

\* Tunn::new and Timers::new
NewTunn(interval) ==
    [state |-> Idle, previous |-> Idle, next_index |-> 0, key |-> 0,
     sessions |-> [i \in Slots |-> None], session_timers |-> [i \in Slots |-> 0], current |-> 0,
     queue |-> <<>>, timers |-> [n \in TimerName |-> 0], is_initiator |-> FALSE,
     want_keepalive |-> FALSE, want_handshake |-> FALSE, persistent_keepalive |-> interval,
     at |-> [n \in Traffic |-> 0]]

Init ==
    /\ \E interval \in Keepalives : tunn = NewTunn(interval)
    /\ configured \in BOOLEAN /\ endpoint = configured
    /\ prompt \in {FALSE, configured}
    /\ clock = 0 /\ events = 0

------------------------------------------------------------------------------
(* Handshake and Timers *)

InFlight(t) == t.state.type = "InitSent"        \* is_in_progress, timer
IsExpired(t) == t.state.type = "Expired"
HasSession(t) == t.sessions[Slot(t.current)] # None

\* The program's time stamps are as old as TimeCurrent; at has the clock itself, which
\* no guard reads.
AtTick(t, name) == IF name \in Traffic THEN [t.at EXCEPT ![name] = clock] ELSE t.at

TimerTickNoKeepalive(t, name) ==
    [t EXCEPT !.timers[name] = t.timers["Current"],
              !.at = AtTick(t, name),
              !.want_keepalive = @ /\ name # "PacketSent",
              !.want_handshake = IF name = "PacketSent" THEN TRUE
                                 ELSE @ /\ name # "PacketReceived"]

TimerTick(t, name) ==
    [t EXCEPT !.timers[name] = t.timers["Current"],
              !.at = AtTick(t, name),
              !.want_keepalive = IF name = "PacketReceived" THEN TRUE
                                 ELSE @ /\ name # "PacketSent",
              !.want_handshake = IF name = "PacketSent" THEN TRUE
                                 ELSE @ /\ name # "PacketReceived"]

EstablishedKeepsTimer(t, idx, initiator) ==
    [TimerTick(t, "SessionEstablished")
        EXCEPT !.sessions[Slot(idx)] = [local |-> idx, born |-> clock],
               !.is_initiator = initiator]

\* timer_tick_session_established for a session that is put into the ring.
Established(t, idx, initiator) ==
    [TimerTick(t, "SessionEstablished")
        EXCEPT !.sessions[Slot(idx)] = [local |-> idx, born |-> clock],
               !.session_timers[Slot(idx)] = t.timers["Current"],
               !.is_initiator = initiator]

\* Timers::clear
ClearTimers(t) ==
    [t EXCEPT !.timers = [n \in TimerName |-> clock], !.at = [n \in Traffic |-> clock],
              !.want_keepalive = FALSE, !.want_handshake = FALSE]

GiveUpKeepsQueue(t) ==
    ClearTimers([t EXCEPT !.state = Expired, !.previous = Expired,
                          !.sessions = [i \in Slots |-> None]])

\* set_expired and clear_all
GiveUp(t) ==
    ClearTimers([t EXCEPT !.state = Expired, !.previous = Expired,
                          !.sessions = [i \in Slots |-> None], !.queue = <<>>])

NextInit(t, out) ==
    [t EXCEPT !.next_index = @ + 1, !.previous = t.state,
              !.state = InitSent(t.next_index + 1, clock, t.key, out)]

\* format_handshake_initiation; out says whether there is an address to send it to.
FormatInitiation(t, force_resend, out) ==
    IF InFlight(t) /\ ~force_resend THEN t
    ELSE LET h == NextInit(IF IsExpired(t) THEN ClearTimers(t) ELSE t, out)
         IN TimerTick(IF InFlight(t) THEN h ELSE TimerTick(h, "HandshakeStarted"), "PacketSent")

QueuePacket(t, kind) ==
    [t EXCEPT !.queue = IF Len(@) < MaxQueue THEN Append(@, kind) ELSE @]

\* encapsulate a packet under the current session
Sent(t, kind) ==
    LET s == TimerTick(t, "PacketSent")
    IN IF kind = "data" THEN TimerTick(s, "DataPacketSent") ELSE s

Encapsulate(t, kind) ==
    IF HasSession(t) THEN Sent(t, kind) ELSE FormatInitiation(QueuePacket(t, kind), FALSE, endpoint)

Rotated(q) == Append(Tail(q), Head(q))

\* The loop of send_queued_packet.  Without a current session the first packet goes
\* to the back; if that starts a handshake the loop goes round once more.  What it
\* makes is sent to the address of the datagram, before that becomes the endpoint.
Flush(t) ==
    IF t.queue = <<>> THEN t
    ELSE IF HasSession(t)
         THEN LET s == [Sent(t, "keepalive") EXCEPT !.queue = <<>>]
              IN IF \E i \in DOMAIN t.queue : t.queue[i] = "data" THEN Sent(s, "data") ELSE s
         ELSE FormatInitiation([t EXCEPT !.queue = IF InFlight(t) THEN Rotated(@)
                                                   ELSE Rotated(Rotated(@))], FALSE, TRUE)

SetCurrent(t, idx) ==
    IF ~HasSession(t) \/ t.session_timers[Slot(idx)] >= t.session_timers[Slot(t.current)]
    THEN [t EXCEPT !.current = idx] ELSE t

------------------------------------------------------------------------------
(* Packets *)

Event ==
    /\ events < MaxEvents /\ clock <= LastEvent
    /\ events' = events + 1

\* A packet for this peer was read from the interface.
SendPacket ==
    /\ Event
    /\ tunn' = Encapsulate(tunn, "data")
    /\ UNCHANGED <<endpoint, clock, configured, prompt>>

ReceiveInitKeepsQueue ==
    /\ Event
    /\ LET idx == tunn.next_index + 1
           t == [tunn EXCEPT !.next_index = idx, !.previous = tunn.state, !.state = Idle]
       IN tunn' = Established(TimerTick(TimerTick(t, "PacketReceived"), "PacketSent"), idx, FALSE)
    /\ endpoint' = TRUE
    /\ UNCHANGED <<clock, configured, prompt>>

\* handle_handshake_init for a new initiation of the peer, then the flush.
ReceiveInit ==
    /\ Event
    /\ LET idx == tunn.next_index + 1
           t == [tunn EXCEPT !.next_index = idx, !.previous = tunn.state, !.state = Idle]
           s == Established(TimerTick(TimerTick(t, "PacketReceived"), "PacketSent"), idx, FALSE)
       IN tunn' = Flush(s)
    /\ endpoint' = TRUE
    /\ UNCHANGED <<clock, configured, prompt>>

\* The peer can answer an initiation that left and that was made with the present key.
Answerable(h) == h.type = "InitSent" /\ h.out /\ h.key = tunn.key

ReceiveResponseTo(which) ==
    /\ clock <= LastEvent \/ prompt
    /\ Answerable(tunn[which])
    /\ LET idx == tunn[which].local_index
           t == TimerTick([tunn EXCEPT ![which] = Idle], "PacketReceived")
       IN tunn' = Flush(SetCurrent(Established(t, idx, TRUE), idx))
    /\ UNCHANGED <<endpoint, clock, configured, prompt, events>>

\* handle_handshake_response, then the flush.
ReceiveResponse == ReceiveResponseTo("state") \/ ReceiveResponseTo("previous")

\* handle_data and validate_decapsulated_packet: a keepalive, a packet or nonsense.
ReceiveData(i, kind) ==
    /\ Event
    /\ tunn.sessions[i] # None
    /\ LET t == TimerTick(SetCurrent(tunn, tunn.sessions[i].local), "PacketReceived")
       IN tunn' = IF kind = "data" THEN TimerTick(t, "DataPacketReceived") ELSE t
    /\ UNCHANGED <<endpoint, clock, configured, prompt>>

\* handle_cookie_reply for a handshake message sent; the cookie is in Handshake.
ReceiveCookie ==
    /\ Event /\ endpoint /\ tunn.next_index > 0
    /\ tunn' = TimerTick(tunn, "PacketReceived")
    /\ UNCHANGED <<endpoint, clock, configured, prompt>>

\* set_static_private: the handshake in flight stays, made with the old key.
SetKey ==
    /\ Event /\ tunn.key = 0
    /\ tunn' = [tunn EXCEPT !.key = 1, !.sessions = [i \in Slots |-> None]]
    /\ UNCHANGED <<endpoint, clock, configured, prompt>>

------------------------------------------------------------------------------
(* update_timers *)

Since(t, name) == clock - t.timers[name]

RenewedSparesCurrent ==
    LET old == {i \in Slots : clock - tunn.session_timers[i] > RejectAfter /\ i # Slot(tunn.current)}
    IN [tunn EXCEPT !.timers["Current"] = clock,
                    !.sessions = [i \in Slots |-> IF i \in old THEN None ELSE @[i]],
                    !.session_timers = [i \in Slots |-> IF i \in old THEN clock ELSE @[i]]]

\* update_session_timers, after TimeCurrent is renewed.
Renewed ==
    LET old == {i \in Slots : clock - tunn.session_timers[i] > RejectAfter}
    IN [tunn EXCEPT !.timers["Current"] = clock,
                    !.sessions = [i \in Slots |-> IF i \in old THEN None ELSE @[i]],
                    !.session_timers = [i \in Slots |-> IF i \in old THEN clock ELSE @[i]]]

ConnectionOld(t) == Since(t, "SessionEstablished") >= 3 * RejectAfter
AttemptOld(t) == InFlight(t) /\ Since(t, "HandshakeStarted") >= RekeyAttempt

Unanswered(t) == InFlight(t) /\ clock - t.state.time_sent >= RekeyTimeout

RekeyDueOnReject(t) ==
    /\ t.is_initiator
    /\ t.timers["SessionEstablished"] < t.timers["DataPacketSent"]
    /\ Since(t, "SessionEstablished") > RejectAfter

\* The two rules for the initiator of the session.
RekeyDue(t) ==
    /\ t.is_initiator
    /\ \/ /\ t.timers["SessionEstablished"] < t.timers["DataPacketSent"]
          /\ Since(t, "SessionEstablished") >= RekeyAfter
       \/ /\ t.timers["SessionEstablished"] < t.timers["DataPacketReceived"]
          /\ Since(t, "SessionEstablished") >= RejectAfter - KeepaliveTimeout - RekeyTimeout

PeerSilent(t) ==
    /\ t.timers["DataPacketSent"] > t.timers["PacketReceived"]
    /\ Since(t, "PacketReceived") >= KeepaliveTimeout + RekeyTimeout
    /\ t.want_handshake

KeepaliveDue(t) ==
    /\ t.timers["DataPacketReceived"] > t.timers["PacketSent"]
    /\ Since(t, "PacketSent") >= KeepaliveTimeout
    /\ t.want_keepalive

PersistentDue(t) ==
    /\ t.persistent_keepalive > 0
    /\ Since(t, "PersistentKeepalive") >= t.persistent_keepalive

\* What is sent resets want_handshake and want_keepalive, so that the early resets
\* of the code do not show.
Timers(t) ==
    IF IsExpired(t) THEN t
    ELSE IF ConnectionOld(t) \/ AttemptOld(t) THEN GiveUp(t)
    ELSE IF Unanswered(t) \/ (~InFlight(t) /\ (RekeyDue(t) \/ PeerSilent(t)))
         THEN FormatInitiation(t, TRUE, endpoint)
    ELSE IF InFlight(t) THEN t
    ELSE LET p == IF PersistentDue(t) THEN TimerTick(t, "PersistentKeepalive") ELSE t
         IN IF PersistentDue(t) \/ KeepaliveDue(t) THEN Encapsulate(p, "keepalive") ELSE t

\* The device's timer handler passes over a peer without an endpoint.
UpdateTimers ==
    /\ endpoint
    /\ tunn.timers["Current"] < clock
    /\ tunn' = Timers(Renewed)
    /\ UNCHANGED <<endpoint, clock, configured, prompt, events>>

Tick ==
    /\ clock < Horizon
    /\ endpoint => clock - tunn.timers["Current"] <= (IF prompt THEN 0 ELSE MaxLag)
    /\ prompt => ~Answerable(tunn.state)
    /\ clock' = clock + 1
    /\ UNCHANGED <<tunn, endpoint, configured, prompt, events>>

Next ==
    \/ SendPacket \/ ReceiveInit \/ ReceiveResponse
    \/ \E i \in Slots, kind \in {"keepalive", "data", "nonsense"} : ReceiveData(i, kind)
    \/ ReceiveCookie \/ SetKey
    \/ UpdateTimers \/ Tick

Spec == Init /\ [][Next]_vars

\* The clock runs, the timer event fires again and again, and a prompt peer answers.
\* Before Horizon each of these steps can happen only finitely often, so that fairness to
\* them together is fairness to each.
FairSpec == Spec /\ WF_vars(Tick \/ UpdateTimers \/ (prompt /\ ReceiveResponse))
------------------------------------------------------------------------------
(* Properties *)

\* Type invariant.  No timer is ahead of the clock, so the subtractions of
\* durations in update_timers do not panic.
TypeOK ==
    /\ clock \in 0 .. Horizon /\ events \in 0 .. MaxEvents
    /\ tunn.timers \in [TimerName -> 0 .. clock]
    /\ tunn.session_timers \in [Slots -> 0 .. clock]
    /\ InFlight(tunn) => tunn.state.time_sent <= clock
    /\ \A i \in Slots : tunn.sessions[i] # None => Slot(tunn.sessions[i].local) = i
    /\ Len(tunn.queue) <= MaxQueue

\* Packets wait in the queue only while an initiation of this side is in flight:
\* nothing else ever looks at the queue again.
QueueAwaitsHandshake ==
    /\ TypeOK
    /\ tunn.queue # <<>> => InFlight(tunn)

\* Every queued packet is sent or given up.
QueueDrains == (tunn.queue # <<>> /\ endpoint) ~> (tunn.queue = <<>>)

\* first happened, second did more than late after it, and again more than the timers'
\* delay has passed since.
Unsettled(first, second, late) ==
    tunn.at[second] - tunn.at[first] > late /\ clock - tunn.at[second] > MaxLag + 1

\* In true time and outside a handshake: data that went out more than late after the
\* last packet of the peer does not stay without a new handshake for longer than
\* KEEPALIVE_TIMEOUT + REKEY_TIMEOUT and the timers' delay, and data that came in more
\* than late after the last packet sent is answered in KEEPALIVE_TIMEOUT and that delay.
NoSilenceAfter(late) ==
    ~InFlight(tunn) /\ ~IsExpired(tunn) =>
        /\ Unsettled("PacketReceived", "DataPacketSent", late) =>
              clock - tunn.at["PacketReceived"] <= KeepaliveTimeout + RekeyTimeout + MaxLag + 1
        /\ Unsettled("PacketSent", "DataPacketReceived", late) =>
              clock - tunn.at["PacketSent"] <= KeepaliveTimeout + MaxLag + 1

\* So it is for whatever follows the other by more than the timers' delay: a run of the
\* timers lies between the two, and the stamps they get from TimeCurrent differ.  It is
\* not so for late = 0, as the comments of update_timers have it ("If we have sent a
\* packet to a given peer but have not received a packet after ..."): two packets within
\* one interval of the timers have the same stamp.
SilenceNoticed == NoSilenceAfter(MaxLag + 1)

\* No session is kept longer than REJECT_AFTER_TIME and the timers' delay, and the
\* age of the handshake that stats reports is never larger than that either: it is
\* gone long before STALE_PEER_SECS.
KeysRetired ==
    /\ \A i \in Slots : tunn.sessions[i] # None =>
          clock - tunn.sessions[i].born <= RejectAfter + MaxLag + 1
    /\ configured /\ HasSession(tunn) =>
          Since(tunn, "SessionEstablished") <= RejectAfter + MaxLag + 1

\* A step of the timers that is not the end of a failed attempt drops no session
\* that is younger than REJECT_AFTER_TIME less the timers' delay.
DropsYoung ==
    /\ ~InFlight(tunn) /\ tunn.key = tunn'.key
    /\ \E i \in Slots :
          /\ tunn.sessions[i] # None /\ tunn'.sessions[i] = None
          /\ clock - tunn.sessions[i].born < RejectAfter - MaxLag

\* Keys last their time, for a peer whose address is known from the start.
KeysLast == [][configured => ~DropsYoung]_vars

\* The only session of an initiator that sent data within the life of that session,
\* but not at once, is lost.
LosesSession ==
    LET est == tunn.timers["SessionEstablished"]
        sent == tunn.timers["DataPacketSent"]
    IN /\ tunn.is_initiator /\ tunn.key = tunn'.key
       /\ est < sent /\ sent < est + RejectAfter
       /\ HasSession(tunn) /\ ~HasSession(tunn')

\* With a peer that answers at once the next session is there before.
NoGap == [][prompt => ~LosesSession]_vars

------------------------------------------------------------------------------
(* The invariant behind these properties *)

HandshakeStates ==
    {Idle, Expired} \cup [type : {"InitSent"}, local_index : Nat, time_sent : Nat,
                          key : {0, 1}, out : BOOLEAN]

Tunns ==
    [state : HandshakeStates, previous : HandshakeStates, next_index : Nat, key : {0, 1},
     sessions : [Slots -> [local : Nat, born : Nat] \cup {None}],
     session_timers : [Slots -> Nat], current : Nat, queue : Seq({"data", "keepalive"}),
     timers : [TimerName -> Nat], is_initiator : BOOLEAN,
     want_keepalive : BOOLEAN, want_handshake : BOOLEAN, persistent_keepalive : Nat,
     at : [Traffic -> Nat]]

\* No timer is ahead of TimeCurrent; data that waits for an answer keeps its flag.
TimersOK(t) ==
    /\ \A n \in TimerName : t.timers[n] <= t.timers["Current"]
    /\ t.timers["Current"] <= clock
    /\ t.timers["PacketReceived"] < t.timers["DataPacketSent"] => t.want_handshake
    /\ t.timers["PacketSent"] < t.timers["DataPacketReceived"] => t.want_keepalive

\* A tunnel that has expired has neither a handshake nor a session to come back to;
\* of two initiations the later one has the later key.
StatesOK(t) ==
    /\ IsExpired(t) => t.previous.type = "Expired" /\ \A i \in Slots : t.sessions[i] = None
    /\ InFlight(t) =>
          t.state.time_sent <= clock /\ t.state.key <= t.key /\ (configured => t.state.out)
    /\ t.previous.type = "InitSent" =>
          t.previous.key <= (IF InFlight(t) THEN t.state.key ELSE t.key)

\* What the timers know about a session.
RingOK(t) ==
    \A i \in Slots : t.sessions[i] # None =>
        LET born == t.sessions[i].born
            timer == t.session_timers[i]
        IN /\ Slot(t.sessions[i].local) = i
           /\ timer <= born /\ born <= clock /\ timer <= t.timers["SessionEstablished"]
           /\ t.timers["Current"] - timer <= RejectAfter
           /\ clock - t.timers["Current"] <= MaxLag + 1 \/ born = clock
           /\ configured => born - timer <= MaxLag + 1

\* The session timers are not ahead either.
SlotTimersOK(t) == \A i \in Slots : t.session_timers[i] <= t.timers["Current"]

\* How late the timers are.
LagOK(t) ==
    /\ configured => clock - t.timers["Current"] <= MaxLag + 1
    /\ prompt => clock - t.timers["Current"] <= 1

\* What the peer can have heard of needs an address.
Reached(t) ==
    /\ InFlight(t) /\ t.state.out => endpoint
    /\ t.previous.type = "InitSent" /\ t.previous.out => endpoint
    /\ (\E i \in Slots : t.sessions[i] # None) => endpoint

QueueOK(t) == Len(t.queue) <= MaxQueue /\ (t.queue # <<>> => InFlight(t))

\* The session that this side initiated last is the current one, and an initiation
\* made since is under the present key.
InitiatorOK(t) ==
    t.is_initiator =>
        \/ \A i \in Slots : t.sessions[i] = None
        \/ /\ HasSession(t)
           /\ t.session_timers[Slot(t.current)] = t.timers["SessionEstablished"]
           /\ InFlight(t) => t.state.key = t.key

\* With a prompt peer no time passes while an initiation can be answered, and data
\* sent under a session that is due for a rekey is noticed at once.
PromptOK(t) ==
    prompt =>
        /\ InFlight(t) /\ t.state.key = t.key =>
              t.timers["Current"] = clock \/ t.timers["HandshakeStarted"] = t.timers["Current"]
        /\ LET est == t.timers["SessionEstablished"]
               sent == t.timers["DataPacketSent"]
           IN t.is_initiator /\ HasSession(t) /\ est < sent /\ sent < est + RejectAfter =>
                \/ t.timers["Current"] - est < RekeyAfter
                \/ sent = t.timers["Current"]
                \/ InFlight(t) /\ t.timers["Current"] = clock

\* What the last run of the timers had before it is not yet due.
Noticed(t) ==
    ~InFlight(t) /\ ~IsExpired(t) =>
        /\ /\ t.timers["PacketReceived"] < t.timers["DataPacketSent"]
           /\ t.timers["DataPacketSent"] < t.timers["Current"]
           => t.timers["Current"] - t.timers["PacketReceived"] < KeepaliveTimeout + RekeyTimeout
        /\ /\ t.timers["PacketSent"] < t.timers["DataPacketReceived"]
           /\ t.timers["DataPacketReceived"] < t.timers["Current"]
           => t.timers["Current"] - t.at["PacketSent"] < KeepaliveTimeout

\* An initiation in flight is repeated in time.
Repeated(t) ==
    InFlight(t) => /\ t.timers["Current"] - t.state.time_sent < RekeyTimeout
                   /\ t.state.time_sent <= t.at["PacketSent"]

\* A stamp is never ahead of its true time.
Behind(t) == \A n \in Traffic : t.timers[n] <= t.at[n] /\ t.at[n] <= clock

\* A stamp is behind by the timers' delay at most, unless the packets passed at the time
\* the peer was first heard of; what waits for the peer had an address (e) to go to.
NotFarBehind(t, e) ==
    /\ e => \/ clock - t.timers["Current"] <= MaxLag + 1
            \/ t.at["PacketReceived"] = clock /\ t.at["PacketSent"] = clock
    /\ t.at["DataPacketSent"] > t.at["PacketReceived"] =>
          e /\ t.at["DataPacketSent"] - t.timers["DataPacketSent"] <= MaxLag + 1
    /\ t.at["DataPacketReceived"] > t.at["PacketSent"] =>
          e /\ t.at["DataPacketReceived"] - t.timers["DataPacketReceived"] <= MaxLag + 1

\* The parts that every call made by a handler keeps, and the rest.
BaseOK(t) ==
    /\ t \in Tunns
    /\ TimersOK(t) /\ SlotTimersOK(t) /\ StatesOK(t) /\ RingOK(t) /\ LagOK(t)

TunnOK(t) == BaseOK(t) /\ InitiatorOK(t) /\ PromptOK(t) /\ QueueOK(t) /\ Reached(t)

IInv ==
    /\ clock \in 0 .. Horizon /\ events \in 0 .. MaxEvents
    /\ endpoint \in BOOLEAN /\ configured \in BOOLEAN /\ prompt \in BOOLEAN
    /\ (prompt => configured) /\ (configured => endpoint)
    /\ TunnOK(tunn)

\* With the true times, for SilenceNoticed.
TracedInv == IInv /\ Behind(tunn) /\ NotFarBehind(tunn, endpoint) /\ Noticed(tunn) /\ Repeated(tunn)
==============================================================================
