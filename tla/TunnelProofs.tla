----------------------------- MODULE TunnelProofs -----------------------------
(***************************************************************************)
(* One tunnel with its timers, for any timeouts, any delay of the timers,  *)
(* any queue and any ring: packets wait only for a handshake, sessions     *)
(* last their time and no longer, an initiator that sends loses none       *)
(* before it has the next, and no silence that begins after the timers'    *)
(* delay goes unnoticed.                                                   *)
(*                                                                         *)
(* A lemma per operator says what it does to the fields; the invariant's   *)
(* parts (BaseOK, InitiatorOK, PromptOK, QueueOK, Reached) are then shown  *)
(* to survive each operation, and the actions combine them.  The true      *)
(* times beside the stamps have an invariant of their own, TracedInv.      *)
(***************************************************************************)
EXTENDS Tunnel, TLAPS

------------------------------------------------------------------------------
(* What the operations of a tunnel do to its parts *)

\* Every index has its slot in the ring.
LEMMA SlotIn == \A idx \in Nat : Slot(idx) \in Slots
BY TunnelConstants DEF Slot, Slots

\* Parts of a tunnel that an operation leaves alone.
SameHandshake(s, t) ==
    s.state = t.state /\ s.previous = t.previous /\ s.next_index = t.next_index /\ s.key = t.key

SameRing(s, t) ==
    s.sessions = t.sessions /\ s.session_timers = t.session_timers /\ s.current = t.current

SameTimers(s, t) ==
    s.timers = t.timers /\ s.want_keepalive = t.want_keepalive /\ s.want_handshake = t.want_handshake

\* What timer_tick does: timer n is set to the time the timers know, and a packet
\* sent or received settles what is wanted.
Ticked(s, t, n) ==
    /\ s \in Tunns
    /\ SameHandshake(s, t) /\ SameRing(s, t)
    /\ s.queue = t.queue /\ s.is_initiator = t.is_initiator
    /\ s.timers = [t.timers EXCEPT ![n] = t.timers["Current"]]
    /\ s.at = AtTick(t, n)
    /\ s.want_keepalive =
          (IF n = "PacketReceived" THEN TRUE ELSE t.want_keepalive /\ n # "PacketSent")
    /\ s.want_handshake =
          (IF n = "PacketSent" THEN TRUE ELSE t.want_handshake /\ n # "PacketReceived")

\* timer_tick, field by field.
LEMMA TickFields ==
    ASSUME NEW t \in Tunns, NEW n \in TimerName, clock \in Nat
    PROVE  Ticked(TimerTick(t, n), t, n)
<1>0. AtTick(t, n) \in [Traffic -> Nat]
  BY DEF AtTick, Tunns, Traffic
<1>1. TimerTick(t, n) \in Tunns
  BY <1>0 DEF TimerTick, Tunns, TimerName
<1>2. TimerTick(t, n).timers = [t.timers EXCEPT ![n] = t.timers["Current"]]
      /\ TimerTick(t, n).at = AtTick(t, n)
  BY DEF TimerTick, Tunns
<1>3. SameHandshake(TimerTick(t, n), t) /\ SameRing(TimerTick(t, n), t)
  BY DEF TimerTick, Tunns, SameHandshake, SameRing
<1>4. TimerTick(t, n).queue = t.queue /\ TimerTick(t, n).is_initiator = t.is_initiator
  BY DEF TimerTick, Tunns
<1>5. /\ TimerTick(t, n).want_keepalive =
                 (IF n = "PacketReceived" THEN TRUE ELSE t.want_keepalive /\ n # "PacketSent")
           /\ TimerTick(t, n).want_handshake =
                 (IF n = "PacketSent" THEN TRUE ELSE t.want_handshake /\ n # "PacketReceived")
  BY DEF TimerTick, Tunns
<1>. QED  BY <1>1, <1>2, <1>3, <1>4, <1>5 DEF Ticked

\* What a finished handshake does: session idx in its slot, and a new role.
Renewal(e, t, idx, b) ==
    /\ e \in Tunns
    /\ SameHandshake(e, t) /\ e.current = t.current
    /\ e.queue = t.queue /\ e.is_initiator = b
    /\ e.sessions = [t.sessions EXCEPT ![Slot(idx)] = [local |-> idx, born |-> clock]]
    /\ e.session_timers = [t.session_timers EXCEPT ![Slot(idx)] = t.timers["Current"]]
    /\ e.timers = [t.timers EXCEPT !["SessionEstablished"] = t.timers["Current"]]
    /\ e.want_keepalive = t.want_keepalive /\ e.want_handshake = t.want_handshake

\* The session's store and its timer_tick_session_established, field by field.
LEMMA EstablishedFields ==
    ASSUME NEW t \in Tunns, NEW idx \in Nat, NEW b \in BOOLEAN, clock \in Nat
    PROVE  Renewal(Established(t, idx, b), t, idx, b)
<1>. DEFINE s == TimerTick(t, "SessionEstablished")
            e == Established(t, idx, b)
<1>0. s \in Tunns /\ Ticked(s, t, "SessionEstablished")
  <2>1. Ticked(s, t, "SessionEstablished")
    BY TickFields DEF TimerName
  <2>. QED  BY <2>1 DEF Ticked
<1>a. e = [s EXCEPT !.sessions[Slot(idx)] = [local |-> idx, born |-> clock],
               !.session_timers[Slot(idx)] = t.timers["Current"],
               !.is_initiator = b]
  BY DEF Established
<1>b. t.timers["Current"] \in Nat /\ Slot(idx) \in Slots
  BY SlotIn DEF Tunns, TimerName
<1>. HIDE DEF s, e
<1>1. e \in Tunns
  BY <1>0, <1>a, <1>b DEF Tunns
<1>2. SameHandshake(e, s) /\ e.current = s.current /\ e.queue = s.queue /\ e.is_initiator = b
  BY <1>0, <1>a DEF Tunns, SameHandshake
<1>3. e.timers = s.timers /\ e.want_keepalive = s.want_keepalive /\ e.want_handshake = s.want_handshake
  BY <1>0, <1>a DEF Tunns
<1>4. /\ e.sessions = [s.sessions EXCEPT ![Slot(idx)] = [local |-> idx, born |-> clock]]
      /\ e.session_timers = [s.session_timers EXCEPT ![Slot(idx)] = t.timers["Current"]]
  BY <1>0, <1>a DEF Tunns
<1>5. /\ SameHandshake(s, t) /\ SameRing(s, t) /\ s.queue = t.queue
      /\ s.timers = [t.timers EXCEPT !["SessionEstablished"] = t.timers["Current"]]
  BY <1>0 DEF Ticked
<1>6. s.want_keepalive = t.want_keepalive /\ s.want_handshake = t.want_handshake
  <2>1. t.want_keepalive \in BOOLEAN /\ t.want_handshake \in BOOLEAN
    BY DEF Tunns
  <2>2. "SessionEstablished" \in TimerName /\ "SessionEstablished" # "PacketSent"
        /\ "SessionEstablished" # "PacketReceived"
    BY DEF TimerName
  <2>. QED  BY <1>0, <2>1, <2>2, Zenon DEF Ticked
<1>. QED  BY <1>1, <1>2, <1>3, <1>4, <1>5, <1>6 DEF SameHandshake, SameRing, Renewal, e

\* timers.clear, field by field.
LEMMA ClearFields ==
    ASSUME NEW t \in Tunns, clock \in Nat
    PROVE  LET c == ClearTimers(t) IN
           /\ c \in Tunns
           /\ SameHandshake(c, t) /\ SameRing(c, t)
           /\ c.queue = t.queue /\ c.is_initiator = t.is_initiator
           /\ c.timers = [n \in TimerName |-> clock]
           /\ c.want_keepalive = FALSE /\ c.want_handshake = FALSE
<1>1. ClearTimers(t) \in Tunns
  BY DEF ClearTimers, Tunns
<1>2. SameHandshake(ClearTimers(t), t) /\ SameRing(ClearTimers(t), t)
  BY DEF ClearTimers, Tunns, SameHandshake, SameRing
<1>. QED  BY <1>1, <1>2 DEF ClearTimers, Tunns

\* Handshake::format_handshake_initiation, field by field.
LEMMA NextInitFields ==
    ASSUME NEW t \in Tunns, NEW out \in BOOLEAN, clock \in Nat
    PROVE  LET h == NextInit(t, out) IN
           /\ h \in Tunns
           /\ h.state = InitSent(t.next_index + 1, clock, t.key, out) /\ h.previous = t.state
           /\ h.key = t.key /\ SameRing(h, t) /\ SameTimers(h, t)
           /\ h.queue = t.queue /\ h.is_initiator = t.is_initiator
<1>1. InitSent(t.next_index + 1, clock, t.key, out) \in HandshakeStates
  <2>1. t.next_index + 1 \in Nat /\ t.key \in {0, 1}
    BY DEF Tunns
  <2>2. InitSent(t.next_index + 1, clock, t.key, out)
            \in [type : {"InitSent"}, local_index : Nat, time_sent : Nat, key : {0, 1}, out : BOOLEAN]
    BY <2>1 DEF InitSent
  <2>. QED  BY <2>2 DEF HandshakeStates
<1>. DEFINE x == InitSent(t.next_index + 1, clock, t.key, out)
<1>2. NextInit(t, out) = [t EXCEPT !.next_index = t.next_index + 1, !.previous = t.state, !.state = x]
  BY DEF NextInit
<1>3. x \in HandshakeStates
  BY <1>1
<1>. HIDE DEF x
<1>4. NextInit(t, out) \in Tunns
  <2>. DEFINE i == t.next_index + 1
  <2>1. i \in Nat /\ t.state \in HandshakeStates
    BY DEF Tunns
  <2>2. NextInit(t, out) = [t EXCEPT !.next_index = i, !.previous = t.state, !.state = x]
    BY <1>2
  <2>. HIDE DEF i
  <2>. QED  BY <1>3, <2>1, <2>2 DEF Tunns
<1>5. NextInit(t, out).state = x /\ NextInit(t, out).previous = t.state /\ NextInit(t, out).key = t.key
  BY <1>2 DEF Tunns
<1>6. SameRing(NextInit(t, out), t) /\ SameTimers(NextInit(t, out), t)
  BY <1>2 DEF Tunns, SameRing, SameTimers
<1>. QED  BY <1>2, <1>4, <1>5, <1>6 DEF Tunns, x

\* The timers an initiation starts from: those of an expired tunnel are cleared.
TimersBefore(t) == IF IsExpired(t) THEN [n \in TimerName |-> clock] ELSE t.timers

\* What Tunn::format_handshake_initiation does when it sends an initiation.
Formatted(f, t, out) ==
    /\ f \in Tunns
    /\ f.state = InitSent(t.next_index + 1, clock, t.key, out) /\ f.previous = t.state
    /\ f.key = t.key /\ SameRing(f, t)
    /\ f.queue = t.queue /\ f.is_initiator = t.is_initiator
    /\ f.timers = [[TimersBefore(t) EXCEPT !["HandshakeStarted"] =
                        IF InFlight(t) THEN @ ELSE TimersBefore(t)["Current"]]
                           EXCEPT !["PacketSent"] = TimersBefore(t)["Current"]]
    /\ f.want_keepalive = FALSE /\ f.want_handshake = TRUE

\* It sends one unless one is in flight and no resend is forced.
LEMMA FormatFields ==
    ASSUME NEW t \in Tunns, NEW out \in BOOLEAN, NEW force \in BOOLEAN, clock \in Nat,
           InFlight(t) => force
    PROVE  Formatted(FormatInitiation(t, force, out), t, out)
<1>. DEFINE c == IF IsExpired(t) THEN ClearTimers(t) ELSE t
            h == NextInit(c, out)
            k == IF InFlight(t) THEN h ELSE TimerTick(h, "HandshakeStarted")
            f == FormatInitiation(t, force, out)
            before == TimersBefore(t)
<1>1. f = TimerTick(k, "PacketSent")
  BY DEF FormatInitiation
<1>2. c \in Tunns /\ SameHandshake(c, t) /\ SameRing(c, t) /\ c.queue = t.queue
      /\ c.is_initiator = t.is_initiator /\ c.timers = before
  BY ClearFields DEF SameHandshake, SameRing, TimersBefore
<1>. HIDE DEF c
<1>3. /\ h \in Tunns
      /\ h.state = InitSent(t.next_index + 1, clock, t.key, out) /\ h.previous = t.state
      /\ h.key = t.key /\ SameRing(h, t) /\ h.timers = before
      /\ h.queue = t.queue /\ h.is_initiator = t.is_initiator
  BY <1>2, NextInitFields DEF SameHandshake, SameRing, SameTimers
<1>. HIDE DEF h
<1>4. "HandshakeStarted" \in TimerName /\ "PacketSent" \in TimerName /\ "Current" \in TimerName
      /\ "PacketSent" # "Current" /\ "HandshakeStarted" # "Current"
  BY DEF TimerName
<1>5. before \in [TimerName -> Nat]
  BY <1>2 DEF Tunns, TimersBefore
<1>. HIDE DEF before
<1>6. /\ k \in Tunns /\ SameHandshake(k, h) /\ SameRing(k, h)
      /\ k.queue = h.queue /\ k.is_initiator = h.is_initiator
      /\ k.timers = [before EXCEPT !["HandshakeStarted"] = IF InFlight(t) THEN @ ELSE before["Current"]]
  <2>1. CASE InFlight(t)
    BY <1>3, <1>4, <1>5, <2>1 DEF SameHandshake, SameRing
  <2>2. CASE ~InFlight(t)
    <3>1. k = TimerTick(h, "HandshakeStarted")
      BY <2>2
    <3>2. /\ k \in Tunns /\ SameHandshake(k, h) /\ SameRing(k, h)
          /\ k.queue = h.queue /\ k.is_initiator = h.is_initiator
          /\ k.timers = [h.timers EXCEPT !["HandshakeStarted"] = h.timers["Current"]]
      <4>1. Ticked(k, h, "HandshakeStarted")
        BY <1>3, <1>4, <3>1, TickFields
      <4>. QED  BY <4>1 DEF Ticked
    <3>. QED  BY <1>3, <2>2, <3>2
  <2>. QED  BY <2>1, <2>2
<1>. HIDE DEF k
<1>7. k.timers["Current"] = before["Current"]
  <2>1. CASE InFlight(t)
    BY <1>4, <1>5, <1>6, <2>1
  <2>2. CASE ~InFlight(t)
    <3>1. k.timers = [before EXCEPT !["HandshakeStarted"] = before["Current"]]
      BY <1>6, <2>2
    <3>. QED  BY <1>4, <1>5, <3>1
  <2>. QED  BY <2>1, <2>2
<1>8. /\ f \in Tunns /\ SameHandshake(f, k) /\ SameRing(f, k)
      /\ f.queue = k.queue /\ f.is_initiator = k.is_initiator
      /\ f.timers = [k.timers EXCEPT !["PacketSent"] = k.timers["Current"]]
      /\ f.want_keepalive = FALSE /\ f.want_handshake = TRUE
  <2>0. Ticked(f, k, "PacketSent")
    BY <1>1, <1>4, <1>6, TickFields
  <2>1. /\ f \in Tunns /\ SameHandshake(f, k) /\ SameRing(f, k)
        /\ f.queue = k.queue /\ f.is_initiator = k.is_initiator
        /\ f.timers = [k.timers EXCEPT !["PacketSent"] = k.timers["Current"]]
    BY <2>0 DEF Ticked
  <2>2. "PacketSent" # "PacketReceived"
    OBVIOUS
  <2>3. f.want_keepalive = (k.want_keepalive /\ FALSE) /\ f.want_handshake = TRUE
    BY <2>0, <2>2, Zenon DEF Ticked
  <2>. QED  BY <2>1, <2>3, Zenon
<1>. QED  BY <1>3, <1>6, <1>7, <1>8 DEF SameHandshake, SameRing, before, f, Formatted

------------------------------------------------------------------------------
(* What operations keep *)

\* The names the steps below speak of.
LEMMA TimerNames ==
    /\ "Current" \in TimerName /\ "SessionEstablished" \in TimerName
    /\ "HandshakeStarted" \in TimerName /\ "PacketReceived" \in TimerName
    /\ "PacketSent" \in TimerName /\ "DataPacketReceived" \in TimerName
    /\ "DataPacketSent" \in TimerName /\ "PersistentKeepalive" \in TimerName
BY DEF TimerName

\* The basic invariant reads the handshake, the ring and the timers only.
LEMMA BaseFrame ==
    ASSUME NEW t, NEW s, BaseOK(t), s \in Tunns, SameHandshake(s, t), SameRing(s, t),
           s.timers["Current"] = t.timers["Current"],
           s.timers["SessionEstablished"] = t.timers["SessionEstablished"],
           TimersOK(s)
    PROVE  BaseOK(s)
<1>1. SlotTimersOK(s) /\ LagOK(s)
  BY DEF BaseOK, SlotTimersOK, LagOK, SameRing
<1>2. StatesOK(s)
  BY DEF BaseOK, StatesOK, SameRing, SameHandshake, IsExpired, InFlight
<1>3. RingOK(s)
  BY DEF BaseOK, RingOK, SameRing
<1>. QED  BY <1>1, <1>2, <1>3 DEF BaseOK

\* What update_timers relies on and every operation keeps.
CoreOK(t) == BaseOK(t) /\ InitiatorOK(t) /\ PromptOK(t)

\* The core survives ticks of the timers for handshakes and for data.
LEMMA CoreFrame ==
    ASSUME NEW t, NEW s, CoreOK(t), BaseOK(s), SameHandshake(s, t), SameRing(s, t),
           s.is_initiator = t.is_initiator,
           s.timers["Current"] = t.timers["Current"],
           s.timers["SessionEstablished"] = t.timers["SessionEstablished"],
           s.timers["HandshakeStarted"] \in {t.timers["HandshakeStarted"], t.timers["Current"]},
           s.timers["DataPacketSent"] \in {t.timers["DataPacketSent"], t.timers["Current"]}
    PROVE  CoreOK(s)
<1>1. (InFlight(s) <=> InFlight(t)) /\ (HasSession(s) <=> HasSession(t))
  BY DEF InFlight, HasSession, SameHandshake, SameRing
<1>2. InitiatorOK(s)
  BY <1>1 DEF CoreOK, InitiatorOK, SameHandshake, SameRing
<1>3. PromptOK(s)
  <2>. SUFFICES ASSUME prompt PROVE PromptOK(s)
    BY DEF PromptOK
  <2>. QED  BY <1>1 DEF CoreOK, PromptOK, SameHandshake, SameRing
<1>. QED  BY <1>2, <1>3 DEF CoreOK

\* A tick keeps the basic invariant.
LEMMA TickBase ==
    ASSUME NEW t, BaseOK(t), clock \in Nat,
           NEW n \in {"PacketReceived", "PacketSent", "PersistentKeepalive", "HandshakeStarted"}
    PROVE  BaseOK(TimerTick(t, n)) /\ Ticked(TimerTick(t, n), t, n)
<1>. DEFINE s == TimerTick(t, n)
<1>1. Ticked(s, t, n)
  BY TickFields, TimerNames DEF BaseOK
<1>2. t.timers \in [TimerName -> Nat] /\ t.want_keepalive \in BOOLEAN /\ t.want_handshake \in BOOLEAN
  BY DEF BaseOK, Tunns
<1>. HIDE DEF s
<1>3. \A m \in TimerName : s.timers[m] = IF m = n THEN t.timers["Current"] ELSE t.timers[m]
  BY <1>1, <1>2 DEF Ticked
<1>4. s.timers["Current"] = t.timers["Current"]
      /\ s.timers["SessionEstablished"] = t.timers["SessionEstablished"]
  BY <1>3, TimerNames
<1>5. TimersOK(s)
  <2>1. \A m \in TimerName : s.timers[m] <= s.timers["Current"]
    BY <1>2, <1>3, <1>4, TimerNames DEF BaseOK, TimersOK
  <2>2. s.timers["PacketReceived"] < s.timers["DataPacketSent"] => s.want_handshake
    <3>1. CASE n = "PacketReceived"
      BY <1>2, <1>3, <3>1, TimerNames DEF BaseOK, TimersOK
    <3>2. CASE n # "PacketReceived"
      BY <1>1, <1>2, <1>3, <3>2, TimerNames DEF BaseOK, TimersOK, Ticked
    <3>. QED  BY <3>1, <3>2
  <2>3. s.timers["PacketSent"] < s.timers["DataPacketReceived"] => s.want_keepalive
    <3>1. CASE n = "PacketSent"
      BY <1>2, <1>3, <3>1, TimerNames DEF BaseOK, TimersOK
    <3>2. CASE n # "PacketSent"
      BY <1>1, <1>2, <1>3, <3>2, TimerNames DEF BaseOK, TimersOK, Ticked
    <3>. QED  BY <3>1, <3>2
  <2>. QED  BY <1>4, <2>1, <2>2, <2>3 DEF BaseOK, TimersOK
<1>6. BaseOK(s)
  BY <1>1, <1>4, <1>5, BaseFrame DEF Ticked
<1>. QED  BY <1>1, <1>6 DEF s

\* What a handler that only sends or receives may change.
Quiet(s, t) ==
    /\ SameHandshake(s, t) /\ SameRing(s, t)
    /\ s.is_initiator = t.is_initiator
    /\ s.timers["Current"] = t.timers["Current"]
    /\ s.timers["SessionEstablished"] = t.timers["SessionEstablished"]
    /\ s.timers["HandshakeStarted"] = t.timers["HandshakeStarted"]
    /\ s.timers["DataPacketSent"] \in {t.timers["DataPacketSent"], t.timers["Current"]}

\* Quiet operations keep the core.
LEMMA QuietCore ==
    ASSUME NEW t, NEW s, CoreOK(t), BaseOK(s), Quiet(s, t)
    PROVE  CoreOK(s)
BY CoreFrame DEF Quiet

\* Ticks of the timers for packets are quiet.
LEMMA TickQuiet ==
    ASSUME NEW t, BaseOK(t), clock \in Nat,
           NEW n \in {"PacketReceived", "PacketSent", "PersistentKeepalive"}
    PROVE  /\ BaseOK(TimerTick(t, n)) /\ Quiet(TimerTick(t, n), t)
           /\ TimerTick(t, n).queue = t.queue
<1>1. BaseOK(TimerTick(t, n)) /\ Ticked(TimerTick(t, n), t, n)
  BY TickBase
<1>2. t.timers \in [TimerName -> Nat]
  BY DEF BaseOK, Tunns
<1>. QED  BY <1>1, <1>2, TimerNames DEF Ticked, Quiet

\* So are those of the timers for data, which follow a packet's tick.
LEMMA DataTick ==
    ASSUME NEW t, BaseOK(t), clock \in Nat, NEW n \in {"DataPacketSent", "DataPacketReceived"},
           n = "DataPacketSent" => t.want_handshake, n = "DataPacketReceived" => t.want_keepalive
    PROVE  /\ BaseOK(TimerTick(t, n)) /\ Quiet(TimerTick(t, n), t)
           /\ TimerTick(t, n).queue = t.queue /\ Ticked(TimerTick(t, n), t, n)
<1>. DEFINE s == TimerTick(t, n)
<1>1. Ticked(s, t, n)
  BY TickFields, TimerNames DEF BaseOK
<1>2. t.timers \in [TimerName -> Nat] /\ t.want_keepalive \in BOOLEAN /\ t.want_handshake \in BOOLEAN
  BY DEF BaseOK, Tunns
<1>. HIDE DEF s
<1>3. \A m \in TimerName : s.timers[m] = IF m = n THEN t.timers["Current"] ELSE t.timers[m]
  BY <1>1, <1>2 DEF Ticked
<1>4. s.timers["Current"] = t.timers["Current"]
      /\ s.timers["SessionEstablished"] = t.timers["SessionEstablished"]
      /\ s.timers["PacketReceived"] = t.timers["PacketReceived"]
      /\ s.timers["PacketSent"] = t.timers["PacketSent"]
  BY <1>3, TimerNames
<1>5. (t.want_handshake => s.want_handshake) /\ (t.want_keepalive => s.want_keepalive)
  BY <1>1 DEF Ticked
<1>6. TimersOK(s)
  <2>1. \A m \in TimerName : s.timers[m] <= s.timers["Current"]
    BY <1>2, <1>3, <1>4, TimerNames DEF BaseOK, TimersOK
  <2>2. s.timers["PacketReceived"] < s.timers["DataPacketSent"] => s.want_handshake
    BY <1>3, <1>4, <1>5, TimerNames DEF BaseOK, TimersOK
  <2>3. s.timers["PacketSent"] < s.timers["DataPacketReceived"] => s.want_keepalive
    BY <1>3, <1>4, <1>5, TimerNames DEF BaseOK, TimersOK
  <2>. QED  BY <1>4, <2>1, <2>2, <2>3 DEF BaseOK, TimersOK
<1>7. BaseOK(s)
  BY <1>1, <1>4, <1>6, BaseFrame DEF Ticked
<1>8. Quiet(s, t) /\ s.queue = t.queue
  BY <1>1, <1>3, <1>4, TimerNames DEF Ticked, Quiet
<1>. QED  BY <1>1, <1>7, <1>8 DEF s

\* Sending a packet under a session is quiet.
LEMMA SentQuiet ==
    ASSUME NEW t, BaseOK(t), clock \in Nat, NEW kind
    PROVE  /\ BaseOK(Sent(t, kind)) /\ Quiet(Sent(t, kind), t) /\ Sent(t, kind).queue = t.queue
           /\ Sent(t, kind).timers["PacketReceived"] = t.timers["PacketReceived"]
           /\ Sent(t, kind).timers["PacketSent"] = t.timers["Current"]
           /\ kind # "data" =>
                 Sent(t, kind).timers["DataPacketSent"] = t.timers["DataPacketSent"]
<1>. DEFINE s == TimerTick(t, "PacketSent")
            d == TimerTick(s, "DataPacketSent")
<1>1. BaseOK(s) /\ Quiet(s, t) /\ s.queue = t.queue /\ Ticked(s, t, "PacketSent")
  BY TickQuiet, TickBase
<1>2. t.timers \in [TimerName -> Nat] /\ s.timers \in [TimerName -> Nat]
  BY <1>1 DEF BaseOK, Tunns
<1>3. Sent(t, kind) = IF kind = "data" THEN d ELSE s
  BY DEF Sent
<1>. HIDE DEF s
<1>4. /\ s.want_handshake /\ s.timers["PacketSent"] = t.timers["Current"]
      /\ s.timers["PacketReceived"] = t.timers["PacketReceived"]
      /\ s.timers["DataPacketSent"] = t.timers["DataPacketSent"]
  BY <1>1, <1>2, TimerNames DEF Ticked
<1>5. BaseOK(d) /\ Quiet(d, s) /\ d.queue = s.queue /\ Ticked(d, s, "DataPacketSent")
  BY <1>1, <1>4, DataTick
<1>. HIDE DEF d
<1>6. d.timers["PacketSent"] = s.timers["PacketSent"]
      /\ d.timers["PacketReceived"] = s.timers["PacketReceived"]
  BY <1>2, <1>5, TimerNames DEF Ticked
<1>7. Quiet(d, t)
  BY <1>1, <1>4, <1>5 DEF Quiet, SameHandshake, SameRing
<1>8. CASE kind = "data"
  BY <1>1, <1>3, <1>4, <1>5, <1>6, <1>7, <1>8
<1>9. CASE kind # "data"
  BY <1>1, <1>3, <1>4, <1>9
<1>. QED  BY <1>8, <1>9

\* An initiation keeps the invariant, and then one is in flight.
LEMMA FormatBase ==
    ASSUME NEW t, BaseOK(t), NEW out \in BOOLEAN, NEW force \in BOOLEAN, clock \in Nat,
           configured => out, InFlight(t) => force
    PROVE  /\ BaseOK(FormatInitiation(t, force, out))
           /\ Formatted(FormatInitiation(t, force, out), t, out)
           /\ InFlight(FormatInitiation(t, force, out))
           /\ InitiatorOK(t) => InitiatorOK(FormatInitiation(t, force, out))
           /\ PromptOK(t) /\ ~InFlight(t) => PromptOK(FormatInitiation(t, force, out))
           /\ t.timers["Current"] = clock => PromptOK(FormatInitiation(t, force, out))
<1>. DEFINE f == FormatInitiation(t, force, out)
            before == TimersBefore(t)
<1>1. Formatted(f, t, out)
  BY FormatFields DEF BaseOK
<1>. HIDE DEF f
<1>2. /\ InFlight(f) /\ ~IsExpired(f) /\ f.state.time_sent = clock /\ f.state.key = t.key
      /\ f.state.out = out /\ f.key = t.key /\ f.previous = t.state /\ SameRing(f, t) /\ f \in Tunns
      /\ f.is_initiator = t.is_initiator
  BY <1>1 DEF Formatted, InFlight, IsExpired, InitSent
<1>3. before \in [TimerName -> Nat] /\ t.timers \in [TimerName -> Nat] /\ t.key \in {0, 1}
  BY DEF TimersBefore, BaseOK, Tunns
<1>4. /\ \A m \in TimerName : before[m] <= before["Current"]
      /\ before["Current"] <= clock /\ t.timers["Current"] <= before["Current"]
  BY TimerNames DEF TimersBefore, BaseOK, TimersOK
<1>5. IsExpired(t) => \A i \in Slots : t.sessions[i] = None
  BY DEF BaseOK, StatesOK
<1>6. ~IsExpired(t) => before = t.timers
  BY DEF TimersBefore
<1>7. IsExpired(t) => \A m \in TimerName : before[m] = clock
  BY DEF TimersBefore
<1>. HIDE DEF before
<1>8. /\ f.timers["PacketSent"] = before["Current"] /\ f.timers["Current"] = before["Current"]
      /\ ~InFlight(t) => f.timers["HandshakeStarted"] = before["Current"]
      /\ f.timers["HandshakeStarted"] \in {before["HandshakeStarted"], before["Current"]}
      /\ \A m \in TimerName \ {"PacketSent", "HandshakeStarted"} : f.timers[m] = before[m]
  <2>1. CASE InFlight(t)
    <3>1. f.timers = [[before EXCEPT !["HandshakeStarted"] = before["HandshakeStarted"]]
                                 EXCEPT !["PacketSent"] = before["Current"]]
      BY <1>1, <2>1 DEF Formatted, before
    <3>. QED  BY <1>3, <2>1, <3>1, TimerNames
  <2>2. CASE ~InFlight(t)
    <3>1. f.timers = [[before EXCEPT !["HandshakeStarted"] = before["Current"]]
                                 EXCEPT !["PacketSent"] = before["Current"]]
      BY <1>1, <2>2 DEF Formatted, before
    <3>. QED  BY <1>3, <2>2, <3>1, TimerNames
  <2>. QED  BY <2>1, <2>2
<1>9. TimersOK(f)
  <2>1. \A m \in TimerName : f.timers[m] <= f.timers["Current"]
    BY <1>3, <1>4, <1>8, TimerNames
  <2>2. f.want_handshake
    BY <1>1 DEF Formatted
  <2>3. ~(f.timers["PacketSent"] < f.timers["DataPacketReceived"])
    BY <1>3, <1>4, <1>8, TimerNames
  <2>. QED  BY <1>4, <1>8, <2>1, <2>2, <2>3 DEF TimersOK
<1>10. SlotTimersOK(f)
  <2>. SUFFICES ASSUME NEW i \in Slots PROVE f.session_timers[i] <= f.timers["Current"]
    BY DEF SlotTimersOK
  <2>1. f.session_timers[i] = t.session_timers[i]
    BY <1>2 DEF SameRing
  <2>2. t.session_timers[i] \in Nat /\ t.session_timers[i] <= t.timers["Current"]
    BY DEF BaseOK, SlotTimersOK, Tunns
  <2>. QED  BY <1>3, <1>4, <1>8, <2>1, <2>2, TimerNames
<1>11. StatesOK(f)
  <2>1. t.state.type = "InitSent" => t.state.key <= t.key
    BY DEF BaseOK, StatesOK, InFlight
  <2>. QED  BY <1>2, <1>3, <2>1 DEF StatesOK
<1>12. RingOK(f)
  <2>1. CASE IsExpired(t)
    BY <1>2, <1>5, <2>1 DEF RingOK, SameRing
  <2>2. CASE ~IsExpired(t)
    <3>1. f.timers["Current"] = t.timers["Current"]
          /\ f.timers["SessionEstablished"] = t.timers["SessionEstablished"]
      BY <1>6, <1>8, <2>2, TimerNames
    <3>. QED  BY <1>2, <3>1 DEF BaseOK, RingOK, SameRing
  <2>. QED  BY <2>1, <2>2
<1>13. LagOK(f)
  BY <1>3, <1>4, <1>8, TunnelConstants, TimerNames DEF BaseOK, LagOK
<1>14. BaseOK(f)
  BY <1>2, <1>9, <1>10, <1>11, <1>12, <1>13 DEF BaseOK
<1>15. ASSUME InitiatorOK(t) PROVE InitiatorOK(f)
  <2>1. CASE IsExpired(t)
    BY <1>2, <1>5, <2>1 DEF InitiatorOK, SameRing
  <2>2. CASE ~IsExpired(t)
    <3>1. f.timers["SessionEstablished"] = t.timers["SessionEstablished"]
      BY <1>6, <1>8, <2>2, TimerNames
    <3>. QED  BY <1>2, <1>15, <3>1 DEF InitiatorOK, SameRing, HasSession
  <2>. QED  BY <2>1, <2>2
<1>16. ASSUME PromptOK(t), ~InFlight(t) PROVE PromptOK(f)
  <2>1. f.timers["HandshakeStarted"] = f.timers["Current"]
    BY <1>8, <1>16
  <2>2. CASE IsExpired(t)
    <3>1. f.timers["SessionEstablished"] = clock /\ f.timers["DataPacketSent"] = clock
      BY <1>7, <1>8, <2>2, TimerNames
    <3>. QED  BY <2>1, <3>1 DEF PromptOK
  <2>3. CASE ~IsExpired(t)
    <3>1. f.timers["SessionEstablished"] = t.timers["SessionEstablished"]
          /\ f.timers["DataPacketSent"] = t.timers["DataPacketSent"]
          /\ f.timers["Current"] = t.timers["Current"]
      BY <1>6, <1>8, <2>3, TimerNames
    <3>2. HasSession(f) <=> HasSession(t)
      BY <1>2 DEF HasSession, SameRing
    <3>. QED  BY <1>2, <1>16, <2>1, <3>1, <3>2 DEF PromptOK
  <2>. QED  BY <2>2, <2>3
<1>17. ASSUME t.timers["Current"] = clock PROVE PromptOK(f)
  <2>1. f.timers["Current"] = clock
    BY <1>3, <1>4, <1>8, <1>17, TimerNames
  <2>. QED  BY <1>2, <2>1 DEF PromptOK
<1>. QED  BY <1>1, <1>2, <1>14, <1>15, <1>16, <1>17 DEF f

\* The queue is no part of the core.
LEMMA QueueFrame ==
    ASSUME NEW t, BaseOK(t), NEW q \in Seq({"data", "keepalive"})
    PROVE  LET s == [t EXCEPT !.queue = q]
           IN BaseOK(s) /\ Quiet(s, t) /\ s.queue = q /\ SameTimers(s, t)
<1>. DEFINE s == [t EXCEPT !.queue = q]
<1>1. t \in Tunns
  BY DEF BaseOK
<1>2. s \in Tunns
  BY <1>1 DEF Tunns
<1>3. SameHandshake(s, t) /\ SameRing(s, t) /\ SameTimers(s, t) /\ s.queue = q
      /\ s.is_initiator = t.is_initiator
  BY <1>1 DEF Tunns, SameHandshake, SameRing, SameTimers
<1>. HIDE DEF s
<1>4. TimersOK(s)
  BY <1>3 DEF BaseOK, TimersOK, SameTimers
<1>5. BaseOK(s)
  BY <1>2, <1>3, <1>4, BaseFrame DEF SameTimers
<1>6. Quiet(s, t)
  BY <1>3 DEF Quiet, SameTimers
<1>. QED  BY <1>3, <1>5, <1>6 DEF s

\* What is asked of the state around a tunnel.
Around == clock \in Nat /\ endpoint \in BOOLEAN /\ (configured => endpoint)

\* Whether the peer can have answered depends on handshake and ring alone.
LEMMA QuietReached ==
    ASSUME NEW t, NEW s, Reached(t), SameHandshake(s, t), SameRing(s, t)
    PROVE  Reached(s)
BY DEF Reached, SameHandshake, SameRing, InFlight

\* An initiation to a known address can be answered.
LEMMA FormattedReached ==
    ASSUME NEW t, NEW f, Reached(t), Formatted(f, t, endpoint)
    PROVE  Reached(f)
<1>1. f.state.out = endpoint /\ f.previous = t.state /\ f.sessions = t.sessions
  BY DEF Formatted, InitSent, SameRing
<1>. QED  BY <1>1 DEF Reached, InFlight

\* encapsulate sends under the current session, or queues and has an initiation
\* in flight.
LEMMA EncapsulateOK ==
    ASSUME NEW t, CoreOK(t), QueueOK(t), Reached(t), Around, NEW kind \in {"data", "keepalive"}
    PROVE  /\ CoreOK(Encapsulate(t, kind)) /\ QueueOK(Encapsulate(t, kind))
           /\ Reached(Encapsulate(t, kind)) /\ SameRing(Encapsulate(t, kind), t)
           /\ Encapsulate(t, kind).key = t.key
           /\ HasSession(t) => Encapsulate(t, kind) = Sent(t, kind)
           /\ ~HasSession(t) => InFlight(Encapsulate(t, kind))
<1>1. CASE HasSession(t)
  <2>. DEFINE s == Sent(t, kind)
  <2>1. Encapsulate(t, kind) = s
    BY <1>1 DEF Encapsulate
  <2>2. BaseOK(s) /\ Quiet(s, t) /\ s.queue = t.queue
    BY SentQuiet DEF CoreOK, Around
  <2>. HIDE DEF s
  <2>3. CoreOK(s)
    BY <2>2, QuietCore
  <2>4. QueueOK(s) /\ s.key = t.key
    BY <2>2 DEF QueueOK, InFlight, Quiet, SameHandshake
  <2>5. Reached(s)
    BY <2>2, QuietReached DEF Quiet
  <2>. QED  BY <1>1, <2>1, <2>2, <2>3, <2>4, <2>5 DEF Quiet, s
<1>2. CASE ~HasSession(t)
  <2>. DEFINE q == IF Len(t.queue) < MaxQueue THEN Append(t.queue, kind) ELSE t.queue
              s == [t EXCEPT !.queue = q]
              f == FormatInitiation(s, FALSE, endpoint)
  <2>1. Encapsulate(t, kind) = f
    BY <1>2 DEF Encapsulate, QueuePacket
  <2>2. t.queue \in Seq({"data", "keepalive"})
    BY DEF CoreOK, BaseOK, Tunns
  <2>3. q \in Seq({"data", "keepalive"}) /\ Len(q) <= MaxQueue
    BY <2>2, TunnelConstants DEF QueueOK
  <2>. HIDE DEF q
  <2>4. BaseOK(s) /\ Quiet(s, t) /\ s.queue = q
    BY <2>3, QueueFrame DEF CoreOK
  <2>. HIDE DEF s
  <2>5. CoreOK(s) /\ Reached(s)
    BY <2>4, QuietCore, QuietReached DEF Quiet
  <2>6. CASE InFlight(s)
    <3>1. f = s
      BY <2>6 DEF FormatInitiation
    <3>2. QueueOK(s)
      BY <2>3, <2>4, <2>6 DEF QueueOK
    <3>. QED  BY <1>2, <2>1, <2>4, <2>5, <2>6, <3>1, <3>2 DEF Quiet, SameHandshake
  <2>7. CASE ~InFlight(s)
    <3>1. /\ BaseOK(f) /\ Formatted(f, s, endpoint) /\ InFlight(f)
          /\ InitiatorOK(f) /\ PromptOK(f)
      BY <2>5, <2>7, FormatBase DEF CoreOK, Around
    <3>. HIDE DEF f
    <3>2. CoreOK(f)
      BY <3>1 DEF CoreOK
    <3>3. Reached(f)
      BY <2>5, <3>1, FormattedReached
    <3>4. QueueOK(f)
      BY <2>3, <2>4, <3>1 DEF QueueOK, Formatted
    <3>5. SameRing(f, t) /\ f.key = t.key
      BY <2>4, <3>1 DEF Formatted, SameRing, Quiet, SameHandshake
    <3>. QED  BY <1>2, <2>1, <3>1, <3>2, <3>3, <3>4, <3>5
  <2>. QED  BY <2>6, <2>7
<1>. QED  BY <1>1, <1>2

\* send_queued_packet puts what it could not send back.
LEMMA RotatedQueue ==
    ASSUME NEW q \in Seq({"data", "keepalive"}), q # <<>>
    PROVE  Rotated(q) \in Seq({"data", "keepalive"}) /\ Len(Rotated(q)) = Len(q) /\ Rotated(q) # <<>>
<1>1. Tail(q) \in Seq({"data", "keepalive"}) /\ Len(Tail(q)) = Len(q) - 1 /\ Head(q) \in {"data", "keepalive"}
      /\ Len(q) \in Nat \ {0}
  OBVIOUS
<1>2. Rotated(q) \in Seq({"data", "keepalive"}) /\ Len(Rotated(q)) = Len(q)
  BY <1>1 DEF Rotated
<1>. QED  BY <1>1, <1>2

\* After send_queued_packet the queue is empty or awaits a handshake.
LEMMA FlushOK ==
    ASSUME NEW t, CoreOK(t), Around, Len(t.queue) <= MaxQueue
    PROVE  /\ CoreOK(Flush(t)) /\ QueueOK(Flush(t)) /\ SameRing(Flush(t), t)
           /\ Flush(t).key = t.key
           /\ Flush(t).timers["Current"] = t.timers["Current"] \/ InFlight(Flush(t))
<1>0. t.queue \in Seq({"data", "keepalive"})
  BY DEF CoreOK, BaseOK, Tunns
<1>1. CASE t.queue = <<>>
  BY <1>1 DEF Flush, QueueOK, SameRing
<1>2. CASE t.queue # <<>> /\ HasSession(t)
  <2>. DEFINE k == Sent(t, "keepalive")
              s == [k EXCEPT !.queue = <<>>]
              d == Sent(s, "data")
  <2>1. Flush(t) = s \/ Flush(t) = d
    BY <1>2 DEF Flush
  <2>2. BaseOK(k) /\ Quiet(k, t)
    BY SentQuiet DEF CoreOK, Around
  <2>3. CoreOK(k)
    BY <2>2, QuietCore
  <2>. HIDE DEF k
  <2>4. BaseOK(s) /\ Quiet(s, k) /\ s.queue = <<>>
    <3>. DEFINE none == <<>>
    <3>1. none \in Seq({"data", "keepalive"})
      OBVIOUS
    <3>. HIDE DEF none
    <3>2. LET r == [k EXCEPT !.queue = none] IN BaseOK(r) /\ Quiet(r, k) /\ r.queue = none
      BY <2>3, <3>1, QueueFrame DEF CoreOK
    <3>. QED  BY <3>2 DEF none
  <2>5. CoreOK(s)
    BY <2>3, <2>4, QuietCore
  <2>. HIDE DEF s
  <2>6. BaseOK(d) /\ Quiet(d, s) /\ d.queue = <<>>
    BY <2>4, SentQuiet DEF Around
  <2>7. CoreOK(d)
    BY <2>5, <2>6, QuietCore
  <2>. HIDE DEF d
  <2>8. QueueOK(s) /\ QueueOK(d)
    BY <2>4, <2>6, TunnelConstants DEF QueueOK
  <2>9. /\ SameRing(s, t) /\ s.key = t.key /\ SameRing(d, t) /\ d.key = t.key
        /\ s.timers["Current"] = t.timers["Current"] /\ d.timers["Current"] = t.timers["Current"]
    BY <2>2, <2>4, <2>6 DEF Quiet, SameRing, SameHandshake
  <2>. QED  BY <2>1, <2>5, <2>7, <2>8, <2>9
<1>3. CASE t.queue # <<>> /\ ~HasSession(t)
  <2>. DEFINE q == IF InFlight(t) THEN Rotated(t.queue) ELSE Rotated(Rotated(t.queue))
              s == [t EXCEPT !.queue = q]
              f == FormatInitiation(s, FALSE, TRUE)
  <2>1. Flush(t) = f
    BY <1>3 DEF Flush
  <2>2. q \in Seq({"data", "keepalive"}) /\ Len(q) <= MaxQueue
    BY <1>0, <1>3, RotatedQueue
  <2>. HIDE DEF q
  <2>3. BaseOK(s) /\ Quiet(s, t) /\ s.queue = q
    BY <2>2, QueueFrame DEF CoreOK
  <2>. HIDE DEF s
  <2>4. CoreOK(s)
    BY <2>3, QuietCore
  <2>5. CASE InFlight(s)
    <3>1. f = s
      BY <2>5 DEF FormatInitiation
    <3>2. QueueOK(s)
      BY <2>2, <2>3, <2>5 DEF QueueOK
    <3>. QED  BY <2>1, <2>3, <2>4, <2>5, <3>1, <3>2 DEF Quiet, SameHandshake
  <2>6. CASE ~InFlight(s)
    <3>1. /\ BaseOK(f) /\ Formatted(f, s, TRUE) /\ InFlight(f)
          /\ InitiatorOK(f) /\ PromptOK(f)
      BY <2>4, <2>6, FormatBase DEF CoreOK, Around
    <3>. HIDE DEF f
    <3>2. CoreOK(f)
      BY <3>1 DEF CoreOK
    <3>4. QueueOK(f)
      BY <2>2, <2>3, <3>1 DEF QueueOK, Formatted
    <3>5. SameRing(f, t) /\ f.key = t.key
      BY <2>3, <3>1 DEF Formatted, SameRing, Quiet, SameHandshake
    <3>. QED  BY <2>1, <3>1, <3>2, <3>4, <3>5
  <2>. QED  BY <2>5, <2>6
<1>. QED  BY <1>1, <1>2, <1>3

\* A finished handshake keeps the basic invariant.
LEMMA EstablishedBase ==
    ASSUME NEW t, BaseOK(t), ~IsExpired(t), Around, NEW idx \in Nat, NEW b \in BOOLEAN
    PROVE  BaseOK(Established(t, idx, b)) /\ Renewal(Established(t, idx, b), t, idx, b)
<1>. DEFINE e == Established(t, idx, b)
<1>1. Renewal(e, t, idx, b)
  BY EstablishedFields DEF BaseOK, Around
<1>. HIDE DEF e
<1>2. t.timers \in [TimerName -> Nat] /\ t.sessions \in [Slots -> [local : Nat, born : Nat] \cup {None}]
      /\ t.session_timers \in [Slots -> Nat] /\ Slot(idx) \in Slots
  BY SlotIn DEF BaseOK, Tunns
<1>3. \A m \in TimerName : e.timers[m] = IF m = "SessionEstablished" THEN t.timers["Current"] ELSE t.timers[m]
  BY <1>1, <1>2 DEF Renewal
<1>4. /\ e.timers["Current"] = t.timers["Current"] /\ e.timers["PacketSent"] = t.timers["PacketSent"]
      /\ e.timers["PacketReceived"] = t.timers["PacketReceived"]
      /\ e.timers["DataPacketSent"] = t.timers["DataPacketSent"]
      /\ e.timers["DataPacketReceived"] = t.timers["DataPacketReceived"]
      /\ e.timers["SessionEstablished"] = t.timers["Current"]
  BY <1>3, TimerNames
<1>5. TimersOK(e)
  <2>1. \A m \in TimerName : e.timers[m] <= e.timers["Current"]
    BY <1>2, <1>3, <1>4, TimerNames DEF BaseOK, TimersOK
  <2>. QED  BY <1>1, <1>4, <2>1 DEF BaseOK, TimersOK, Renewal
<1>6. SlotTimersOK(e)
  BY <1>1, <1>2, <1>4, TimerNames DEF BaseOK, SlotTimersOK, Renewal
<1>7. StatesOK(e)
  BY <1>1 DEF BaseOK, StatesOK, Renewal, SameHandshake, IsExpired, InFlight
<1>8. RingOK(e)
  <2>. SUFFICES ASSUME NEW i \in Slots, e.sessions[i] # None
                PROVE  LET born == e.sessions[i].born
                           timer == e.session_timers[i]
                       IN /\ Slot(e.sessions[i].local) = i
                          /\ timer <= born /\ born <= clock
                          /\ timer <= e.timers["SessionEstablished"]
                          /\ e.timers["Current"] - timer <= RejectAfter
                          /\ clock - e.timers["Current"] <= MaxLag + 1 \/ born = clock
                          /\ configured => born - timer <= MaxLag + 1
    BY DEF RingOK
  <2>1. CASE i = Slot(idx)
    <3>1. e.sessions[i].local = idx /\ e.sessions[i].born = clock
          /\ e.session_timers[i] = t.timers["Current"]
      BY <1>1, <1>2, <2>1 DEF Renewal
    <3>2. t.timers["Current"] \in Nat /\ t.timers["Current"] <= clock
          /\ (configured => clock - t.timers["Current"] <= MaxLag + 1)
      BY <1>2, TimerNames DEF BaseOK, TimersOK, LagOK
    <3>. QED  BY <1>4, <2>1, <3>1, <3>2, TunnelConstants DEF Around
  <2>2. CASE i # Slot(idx)
    <3>1. e.sessions[i] = t.sessions[i] /\ e.session_timers[i] = t.session_timers[i]
      BY <1>1, <1>2, <2>2 DEF Renewal
    <3>2. t.session_timers[i] <= t.timers["Current"]
      BY DEF BaseOK, SlotTimersOK
    <3>. QED  BY <1>4, <3>1, <3>2 DEF BaseOK, RingOK
  <2>. QED  BY <2>1, <2>2
<1>9. LagOK(e)
  BY <1>4 DEF BaseOK, LagOK
<1>10. e \in Tunns
  BY <1>1 DEF Renewal
<1>11. BaseOK(e)
  BY <1>5, <1>6, <1>7, <1>8, <1>9, <1>10 DEF BaseOK
<1>. QED  BY <1>1, <1>11 DEF e

\* A change of the handshake alone keeps it too.
LEMMA HandshakeFrame ==
    ASSUME NEW t, NEW s, BaseOK(t), s \in Tunns, SameRing(s, t), SameTimers(s, t), StatesOK(s)
    PROVE  BaseOK(s)
BY DEF BaseOK, SameRing, SameTimers, TimersOK, SlotTimersOK, RingOK, LagOK

\* The states of a handshake tell themselves apart.
LEMMA StateTypes ==
    /\ Idle.type # "InitSent" /\ Idle.type # "Expired" /\ Idle \in HandshakeStates
    /\ Expired.type # "InitSent" /\ Expired.type = "Expired" /\ Expired \in HandshakeStates
    /\ \A h \in HandshakeStates : h.type = "InitSent" =>
          h.local_index \in Nat /\ h.key \in {0, 1} /\ h.time_sent \in Nat
BY DEF Idle, Expired, HandshakeStates

\* So does a change of the current index.
LEMMA SetCurrentFields ==
    ASSUME NEW t, BaseOK(t), NEW idx \in Nat
    PROVE  LET s == [t EXCEPT !.current = idx]
           IN /\ BaseOK(s) /\ SameHandshake(s, t) /\ SameTimers(s, t)
              /\ s.sessions = t.sessions /\ s.session_timers = t.session_timers
              /\ s.current = idx /\ s.queue = t.queue /\ s.is_initiator = t.is_initiator
<1>. DEFINE s == [t EXCEPT !.current = idx]
<1>1. t \in Tunns
  BY DEF BaseOK
<1>2. s \in Tunns
  BY <1>1 DEF Tunns
<1>3. /\ SameHandshake(s, t) /\ SameTimers(s, t)
      /\ s.sessions = t.sessions /\ s.session_timers = t.session_timers
      /\ s.current = idx /\ s.queue = t.queue /\ s.is_initiator = t.is_initiator
  BY <1>1 DEF Tunns, SameHandshake, SameTimers
<1>. HIDE DEF s
<1>4. TimersOK(s) /\ SlotTimersOK(s) /\ LagOK(s)
  BY <1>3 DEF BaseOK, SameTimers, TimersOK, SlotTimersOK, LagOK
<1>5. StatesOK(s)
  BY <1>3 DEF BaseOK, StatesOK, SameHandshake, IsExpired, InFlight
<1>6. RingOK(s)
  BY <1>3 DEF BaseOK, RingOK, SameTimers
<1>. QED  BY <1>2, <1>3, <1>4, <1>5, <1>6 DEF BaseOK, s

------------------------------------------------------------------------------
(* The actions *)

\* A handler takes no time.
LEMMA Carry ==
    ASSUME NEW x, tunn' = x, UNCHANGED <<clock, configured, prompt>>, CoreOK(x), QueueOK(x)
    PROVE  BaseOK(tunn)' /\ InitiatorOK(tunn)' /\ PromptOK(tunn)' /\ QueueOK(tunn)'
<1>1. TimersOK(tunn)' /\ SlotTimersOK(tunn)' /\ LagOK(tunn)'
  BY DEF CoreOK, BaseOK, TimersOK, SlotTimersOK, LagOK
<1>2. StatesOK(tunn)'
  BY DEF CoreOK, BaseOK, StatesOK, IsExpired, InFlight
<1>3. RingOK(tunn)'
  BY DEF CoreOK, BaseOK, RingOK
<1>4. InitiatorOK(tunn)' /\ QueueOK(tunn)'
  BY DEF CoreOK, InitiatorOK, QueueOK, InFlight, HasSession
<1>5. PromptOK(tunn)'
  BY DEF CoreOK, PromptOK, InFlight, HasSession
<1>6. (tunn \in Tunns)'
  BY DEF CoreOK, BaseOK
<1>. QED  BY <1>1, <1>2, <1>3, <1>4, <1>5, <1>6 DEF BaseOK

\* The invariant of the next state, from that of the tunnel in it.
LEMMA CarryAll ==
    ASSUME NEW x, IInv, tunn' = x, UNCHANGED <<clock, configured, prompt>>, CoreOK(x), QueueOK(x),
           events' \in 0 .. MaxEvents,
           \/ endpoint' = TRUE
           \/ endpoint' = endpoint /\ Reached(x)
    PROVE  IInv'
<1>1. BaseOK(tunn)' /\ InitiatorOK(tunn)' /\ PromptOK(tunn)' /\ QueueOK(tunn)'
  BY Carry
<1>2. Reached(tunn)'
  BY DEF Reached, InFlight
<1>3. TunnOK(tunn)'
  BY <1>1, <1>2 DEF TunnOK
<1>. QED  BY <1>3 DEF IInv

\* The parts of the invariant the operations use.
LEMMA FromIInv ==
    ASSUME IInv
    PROVE  /\ Around /\ CoreOK(tunn) /\ BaseOK(tunn) /\ QueueOK(tunn) /\ Reached(tunn)
           /\ InitiatorOK(tunn) /\ PromptOK(tunn) /\ tunn \in Tunns
BY TunnelConstants DEF IInv, TunnOK, CoreOK, BaseOK, Around

\* Events stay within their bound.
LEMMA EventCounts == IInv /\ Event => events' \in 0 .. MaxEvents
BY TunnelConstants DEF IInv, Event

\* A packet from the host.
LEMMA SendPacketOK ==
    ASSUME IInv, SendPacket
    PROVE  /\ IInv' /\ SameRing(tunn', tunn)
           /\ tunn'.timers["Current"] = tunn.timers["Current"] \/ InFlight(tunn')
<1>1. tunn' = Encapsulate(tunn, "data") /\ UNCHANGED <<endpoint, clock, configured, prompt>>
  BY DEF SendPacket
<1>2. events' \in 0 .. MaxEvents
  BY EventCounts DEF SendPacket
<1>3. CoreOK(Encapsulate(tunn, "data")) /\ QueueOK(Encapsulate(tunn, "data"))
      /\ Reached(Encapsulate(tunn, "data")) /\ SameRing(Encapsulate(tunn, "data"), tunn)
  BY FromIInv, EncapsulateOK
<1>4. Encapsulate(tunn, "data").timers["Current"] = tunn.timers["Current"]
      \/ InFlight(Encapsulate(tunn, "data"))
  BY FromIInv, EncapsulateOK, SentQuiet DEF Quiet, Around
<1>5. IInv'
  BY <1>1, <1>2, <1>3, CarryAll
<1>. QED  BY <1>1, <1>3, <1>4, <1>5

\* A tick changes neither the handshake's state nor the queue.
LEMMA TickedNotExpired ==
    ASSUME NEW s, NEW t, NEW n, Ticked(s, t, n)
    PROVE  (IsExpired(s) <=> IsExpired(t)) /\ (InFlight(s) <=> InFlight(t)) /\ s.queue = t.queue
BY DEF Ticked, IsExpired, InFlight, SameHandshake

\* An initiation of the peer.
LEMMA ReceiveInitOK ==
    ASSUME IInv, ReceiveInit
    PROVE  /\ IInv' /\ \A i \in Slots : tunn.sessions[i] # None => tunn'.sessions[i] # None
           /\ tunn'.current = tunn.current
           /\ tunn'.timers["Current"] = tunn.timers["Current"] \/ InFlight(tunn')
<1>. DEFINE idx == tunn.next_index + 1
            t == [tunn EXCEPT !.next_index = idx, !.previous = tunn.state, !.state = Idle]
            r == TimerTick(t, "PacketReceived")
            p == TimerTick(r, "PacketSent")
            s == Established(p, idx, FALSE)
<1>1. tunn' = Flush(s) /\ endpoint' = TRUE /\ UNCHANGED <<clock, configured, prompt>>
  BY DEF ReceiveInit
<1>2. events' \in 0 .. MaxEvents
  BY EventCounts DEF ReceiveInit
<1>3. idx \in Nat /\ tunn.state \in HandshakeStates
  BY FromIInv DEF Tunns
<1>. HIDE DEF idx
<1>4. /\ t \in Tunns /\ SameRing(t, tunn) /\ SameTimers(t, tunn) /\ t.state = Idle
      /\ t.previous = tunn.state /\ t.key = tunn.key /\ t.queue = tunn.queue
  <2>. DEFINE i == Idle
  <2>1. i \in HandshakeStates
    BY StateTypes
  <2>. HIDE DEF i
  <2>. DEFINE u == [tunn EXCEPT !.next_index = idx, !.previous = tunn.state, !.state = i]
  <2>2. u \in Tunns
    BY <1>3, <2>1, FromIInv DEF Tunns
  <2>3. SameRing(u, tunn) /\ SameTimers(u, tunn)
    BY FromIInv DEF Tunns, SameRing, SameTimers
  <2>4. u.state = i /\ u.previous = tunn.state /\ u.key = tunn.key /\ u.queue = tunn.queue
    BY FromIInv DEF Tunns
  <2>. QED  BY <2>2, <2>3, <2>4 DEF i
<1>. HIDE DEF t
<1>5. StatesOK(t) /\ ~IsExpired(t) /\ ~InFlight(t)
  <2>1. ~IsExpired(t) /\ ~InFlight(t)
    BY <1>4, StateTypes DEF IsExpired, InFlight
  <2>2. t.previous.type = "InitSent" => t.previous.key <= t.key
    BY <1>4, FromIInv DEF BaseOK, StatesOK, InFlight
  <2>. QED  BY <2>1, <2>2 DEF StatesOK
<1>6. BaseOK(t)
  BY <1>4, <1>5, FromIInv, HandshakeFrame
<1>7. BaseOK(r) /\ Ticked(r, t, "PacketReceived")
  BY <1>6, FromIInv, TickBase DEF Around
<1>. HIDE DEF r
<1>8. BaseOK(p) /\ Ticked(p, r, "PacketSent")
  BY <1>7, FromIInv, TickBase DEF Around
<1>. HIDE DEF p
<1>9. ~IsExpired(p) /\ ~InFlight(p) /\ p.queue = tunn.queue
  BY <1>4, <1>5, <1>7, <1>8, TickedNotExpired
<1>10. BaseOK(s) /\ Renewal(s, p, idx, FALSE)
  BY <1>3, <1>8, <1>9, FromIInv, EstablishedBase
<1>. HIDE DEF s
<1>11. ~InFlight(s) /\ ~s.is_initiator /\ s.queue = tunn.queue
  BY <1>9, <1>10 DEF Renewal, InFlight, SameHandshake
<1>12. CoreOK(s)
  BY <1>10, <1>11 DEF CoreOK, InitiatorOK, PromptOK
<1>13. CoreOK(Flush(s)) /\ QueueOK(Flush(s)) /\ SameRing(Flush(s), s)
       /\ (Flush(s).timers["Current"] = s.timers["Current"] \/ InFlight(Flush(s)))
  BY <1>11, <1>12, FromIInv, FlushOK DEF QueueOK
<1>14. IInv'
  BY <1>1, <1>2, <1>13, CarryAll
<1>15. p.sessions = tunn.sessions /\ p.current = tunn.current
  BY <1>4, <1>7, <1>8 DEF Ticked, SameRing
<1>16. \A i \in Slots : s.sessions[i] = IF i = Slot(idx) THEN [local |-> idx, born |-> clock] ELSE p.sessions[i]
  BY <1>8, <1>10 DEF Renewal, BaseOK, Tunns
<1>17. [local |-> idx, born |-> clock] # None
  BY <1>3, FromIInv, TunnelConstants DEF Around
<1>18. s.timers["Current"] = tunn.timers["Current"]
  <2>1. t.timers \in [TimerName -> Nat] /\ r.timers \in [TimerName -> Nat] /\ p.timers \in [TimerName -> Nat]
    BY <1>6, <1>7, <1>8 DEF BaseOK, Tunns
  <2>2. r.timers["Current"] = t.timers["Current"]
    BY <1>7, <2>1, TimerNames DEF Ticked
  <2>3. p.timers["Current"] = r.timers["Current"]
    BY <1>8, <2>1, TimerNames DEF Ticked
  <2>4. s.timers["Current"] = p.timers["Current"]
    BY <1>10, <2>1, TimerNames DEF Renewal
  <2>. QED  BY <1>4, <2>2, <2>3, <2>4 DEF SameTimers
<1>. QED  BY <1>1, <1>10, <1>13, <1>14, <1>15, <1>16, <1>17, <1>18 DEF SameRing, Renewal

\* The tunnel after the response was matched with one of its two initiations.
Matched(u) ==
    /\ u \in Tunns /\ SameRing(u, tunn) /\ SameTimers(u, tunn)
    /\ u.key = tunn.key /\ u.queue = tunn.queue
    /\ StatesOK(u) /\ ~IsExpired(u)
    /\ InFlight(u) => u.state = tunn.state /\ u.state.key = u.key

\* A response to the initiation in flight.
LEMMA MatchState ==
    ASSUME IInv, Answerable(tunn.state)
    PROVE  /\ Matched([tunn EXCEPT !.state = Idle]) /\ tunn.state.local_index \in Nat
           /\ endpoint = TRUE
<1>1. tunn.state.type = "InitSent" /\ tunn.state.out /\ tunn.state.key = tunn.key
  BY DEF Answerable
<1>2. tunn.state.local_index \in Nat /\ endpoint = TRUE
  BY <1>1, FromIInv, StateTypes DEF Tunns, Reached, InFlight, Around
<1>. DEFINE i == Idle
            u == [tunn EXCEPT !.state = i]
<1>3. i \in HandshakeStates /\ i.type # "InitSent" /\ i.type # "Expired"
  BY StateTypes
<1>. HIDE DEF i
<1>4. u \in Tunns
  BY <1>3, FromIInv DEF Tunns
<1>5. SameRing(u, tunn) /\ SameTimers(u, tunn) /\ u.key = tunn.key /\ u.queue = tunn.queue
      /\ u.state = i /\ u.previous = tunn.previous
  BY FromIInv DEF Tunns, SameRing, SameTimers
<1>. HIDE DEF u
<1>6. ~IsExpired(u) /\ ~InFlight(u)
  BY <1>3, <1>5 DEF IsExpired, InFlight
<1>7. u.previous.type = "InitSent" => u.previous.key <= u.key
  BY <1>1, <1>5, FromIInv DEF BaseOK, StatesOK, InFlight
<1>8. StatesOK(u)
  BY <1>6, <1>7 DEF StatesOK
<1>. QED  BY <1>2, <1>4, <1>5, <1>6, <1>8 DEF Matched, u, i

\* A response to the initiation before it.
LEMMA MatchPrevious ==
    ASSUME IInv, Answerable(tunn.previous)
    PROVE  /\ Matched([tunn EXCEPT !.previous = Idle]) /\ tunn.previous.local_index \in Nat
           /\ endpoint = TRUE
<1>1. tunn.previous.type = "InitSent" /\ tunn.previous.out /\ tunn.previous.key = tunn.key
  BY DEF Answerable
<1>2. tunn.previous.local_index \in Nat /\ endpoint = TRUE
  BY <1>1, FromIInv, StateTypes DEF Tunns, Reached, Around
<1>. DEFINE i == Idle
            u == [tunn EXCEPT !.previous = i]
<1>3. i \in HandshakeStates /\ i.type # "InitSent" /\ i.type # "Expired"
  BY StateTypes
<1>. HIDE DEF i
<1>4. u \in Tunns
  BY <1>3, FromIInv DEF Tunns
<1>5. SameRing(u, tunn) /\ SameTimers(u, tunn) /\ u.key = tunn.key /\ u.queue = tunn.queue
      /\ u.state = tunn.state /\ u.previous = i
  BY FromIInv DEF Tunns, SameRing, SameTimers
<1>. HIDE DEF u
<1>6. ~IsExpired(tunn)
  BY <1>1, FromIInv DEF BaseOK, StatesOK
<1>7. ~IsExpired(u) /\ (InFlight(u) <=> InFlight(tunn))
  BY <1>5, <1>6 DEF IsExpired, InFlight
<1>8. InFlight(tunn) => tunn.state.key = tunn.key
  <2>. SUFFICES ASSUME InFlight(tunn) PROVE tunn.state.key = tunn.key
    OBVIOUS
  <2>1. tunn.previous.key <= tunn.state.key /\ tunn.state.key <= tunn.key
    BY <1>1, FromIInv DEF BaseOK, StatesOK
  <2>2. tunn.state.key \in {0, 1} /\ tunn.key \in {0, 1}
    BY FromIInv, StateTypes DEF Tunns, InFlight
  <2>. QED  BY <1>1, <2>1, <2>2
<1>9. StatesOK(u)
  BY <1>3, <1>5, <1>7, FromIInv DEF BaseOK, StatesOK
<1>. QED  BY <1>2, <1>4, <1>5, <1>7, <1>8, <1>9 DEF Matched, u, i

\* Either way the tunnel has a session in the current slot, and the core holds.
LEMMA RespondedOK ==
    ASSUME IInv, NEW u, Matched(u), NEW idx \in Nat
    PROVE  LET s == SetCurrent(Established(TimerTick(u, "PacketReceived"), idx, TRUE), idx)
           IN /\ CoreOK(s) /\ Len(s.queue) <= MaxQueue /\ s.key = tunn.key /\ HasSession(s)
              /\ s.timers["Current"] = tunn.timers["Current"]
              /\ \A i \in Slots : tunn.sessions[i] # None => s.sessions[i] # None
<1>. DEFINE r == TimerTick(u, "PacketReceived")
            e == Established(r, idx, TRUE)
            s == SetCurrent(e, idx)
<1>1. BaseOK(u)
  BY FromIInv, HandshakeFrame DEF Matched
<1>2. BaseOK(r) /\ Ticked(r, u, "PacketReceived")
  BY <1>1, FromIInv, TickBase DEF Around
<1>. HIDE DEF r
<1>3. ~IsExpired(r)
  BY <1>2, TickedNotExpired DEF Matched
<1>4. BaseOK(e) /\ Renewal(e, r, idx, TRUE)
  BY <1>2, <1>3, FromIInv, EstablishedBase
<1>. HIDE DEF e
<1>5. r.timers \in [TimerName -> Nat] /\ u.timers \in [TimerName -> Nat]
      /\ r.sessions \in [Slots -> [local : Nat, born : Nat] \cup {None}]
      /\ r.session_timers \in [Slots -> Nat] /\ Slot(idx) \in Slots /\ e.current \in Nat
      /\ clock \in Nat
  BY <1>1, <1>2, <1>4, SlotIn, FromIInv DEF BaseOK, Tunns, Around
<1>6. /\ r.timers["Current"] = tunn.timers["Current"]
      /\ r.timers["HandshakeStarted"] = tunn.timers["HandshakeStarted"]
  BY <1>2, <1>5, TimerNames DEF Ticked, Matched, SameTimers
<1>7. /\ e.session_timers[Slot(idx)] = tunn.timers["Current"]
      /\ e.timers["SessionEstablished"] = tunn.timers["Current"]
      /\ e.timers["Current"] = tunn.timers["Current"]
      /\ e.timers["HandshakeStarted"] = tunn.timers["HandshakeStarted"]
      /\ e.sessions[Slot(idx)] = [local |-> idx, born |-> clock]
  BY <1>4, <1>5, <1>6, TimerNames DEF Renewal
<1>8. e.sessions[Slot(idx)] # None
  BY <1>5, <1>7, TunnelConstants
<1>9. e.session_timers[Slot(idx)] >= e.session_timers[Slot(e.current)]
  <2>1. Slot(e.current) \in Slots
    BY <1>5, SlotIn
  <2>2. e.session_timers[Slot(e.current)] <= e.timers["Current"]
    BY <1>4, <2>1 DEF BaseOK, SlotTimersOK
  <2>3. e.session_timers[Slot(e.current)] \in Nat /\ e.timers["Current"] \in Nat
    BY <1>4, <2>1, TimerNames DEF BaseOK, Tunns
  <2>. QED  BY <1>7, <2>2, <2>3
<1>10. s = [e EXCEPT !.current = idx]
  BY <1>9 DEF SetCurrent
<1>11. /\ BaseOK(s) /\ SameHandshake(s, e) /\ SameTimers(s, e)
       /\ s.sessions = e.sessions /\ s.session_timers = e.session_timers
       /\ s.current = idx /\ s.queue = e.queue /\ s.is_initiator = e.is_initiator
  BY <1>4, <1>10, SetCurrentFields
<1>. HIDE DEF s
<1>12. s.state = u.state /\ s.key = tunn.key /\ s.queue = tunn.queue
  BY <1>2, <1>4, <1>11 DEF SameHandshake, Ticked, Renewal, Matched
<1>13. HasSession(s)
  BY <1>8, <1>11 DEF HasSession
<1>14. InFlight(s) => InFlight(tunn) /\ tunn.state.key = tunn.key /\ s.state.key = s.key
  BY <1>12 DEF InFlight, Matched
<1>15. InitiatorOK(s)
  BY <1>7, <1>11, <1>13, <1>14 DEF InitiatorOK, SameTimers
<1>16. PromptOK(s)
  <2>1. InFlight(s) /\ prompt => s.timers["Current"] = clock \/ s.timers["HandshakeStarted"] = s.timers["Current"]
    BY <1>7, <1>11, <1>14, FromIInv DEF PromptOK, SameTimers
  <2>2. ~(s.timers["SessionEstablished"] < s.timers["DataPacketSent"])
    <3>1. s.timers["DataPacketSent"] <= s.timers["Current"]
      BY <1>11, TimerNames DEF BaseOK, TimersOK
    <3>2. s.timers["DataPacketSent"] \in Nat /\ s.timers["Current"] \in Nat
      BY <1>11, TimerNames DEF BaseOK, Tunns
    <3>. QED  BY <1>7, <1>11, <3>1, <3>2 DEF SameTimers
  <2>. QED  BY <2>1, <2>2 DEF PromptOK
<1>17. \A i \in Slots : tunn.sessions[i] # None => s.sessions[i] # None
  <2>1. r.sessions = tunn.sessions
    BY <1>2 DEF Ticked, SameRing, Matched
  <2>2. \A i \in Slots : e.sessions[i] = IF i = Slot(idx) THEN [local |-> idx, born |-> clock] ELSE r.sessions[i]
    BY <1>4, <1>5 DEF Renewal
  <2>. QED  BY <1>8, <1>11, <2>1, <2>2
<1>18. Len(s.queue) <= MaxQueue
  BY <1>12, FromIInv DEF QueueOK
<1>19. CoreOK(s)
  BY <1>11, <1>15, <1>16 DEF CoreOK
<1>20. s.timers["Current"] = tunn.timers["Current"]
  BY <1>7, <1>11 DEF SameTimers
<1>. QED  BY <1>12, <1>13, <1>17, <1>18, <1>19, <1>20 DEF s, e, r

\* A response of the peer, with the packets that waited for it.
LEMMA ReceiveResponseOK ==
    ASSUME IInv, ReceiveResponse
    PROVE  /\ IInv' /\ \A i \in Slots : tunn.sessions[i] # None => tunn'.sessions[i] # None
           /\ HasSession(tunn') /\ (tunn'.timers["Current"] = tunn.timers["Current"] \/ InFlight(tunn'))
<1>0. events \in 0 .. MaxEvents
  BY DEF IInv
<1>1. CASE ReceiveResponseTo("state")
  <2>. DEFINE u == [tunn EXCEPT !.state = Idle]
              idx == tunn.state.local_index
              s == SetCurrent(Established(TimerTick(u, "PacketReceived"), idx, TRUE), idx)
  <2>1. Answerable(tunn.state) /\ tunn' = Flush(s)
        /\ UNCHANGED <<endpoint, clock, configured, prompt, events>>
    BY <1>1 DEF ReceiveResponseTo
  <2>2. Matched(u) /\ idx \in Nat /\ endpoint = TRUE
    BY <2>1, MatchState
  <2>. HIDE DEF u, idx
  <2>3. CoreOK(s) /\ Len(s.queue) <= MaxQueue /\ HasSession(s)
        /\ s.timers["Current"] = tunn.timers["Current"]
        /\ \A i \in Slots : tunn.sessions[i] # None => s.sessions[i] # None
    BY <2>2, RespondedOK
  <2>. HIDE DEF s
  <2>4. CoreOK(Flush(s)) /\ QueueOK(Flush(s)) /\ SameRing(Flush(s), s)
        /\ (Flush(s).timers["Current"] = s.timers["Current"] \/ InFlight(Flush(s)))
    BY <2>3, FromIInv, FlushOK
  <2>5. IInv'
    BY <1>0, <2>1, <2>2, <2>4, CarryAll
  <2>. QED  BY <2>1, <2>3, <2>4, <2>5 DEF SameRing, HasSession
<1>2. CASE ReceiveResponseTo("previous")
  <2>. DEFINE u == [tunn EXCEPT !.previous = Idle]
              idx == tunn.previous.local_index
              s == SetCurrent(Established(TimerTick(u, "PacketReceived"), idx, TRUE), idx)
  <2>1. Answerable(tunn.previous) /\ tunn' = Flush(s)
        /\ UNCHANGED <<endpoint, clock, configured, prompt, events>>
    BY <1>2 DEF ReceiveResponseTo
  <2>2. Matched(u) /\ idx \in Nat /\ endpoint = TRUE
    BY <2>1, MatchPrevious
  <2>. HIDE DEF u, idx
  <2>3. CoreOK(s) /\ Len(s.queue) <= MaxQueue /\ HasSession(s)
        /\ s.timers["Current"] = tunn.timers["Current"]
        /\ \A i \in Slots : tunn.sessions[i] # None => s.sessions[i] # None
    BY <2>2, RespondedOK
  <2>. HIDE DEF s
  <2>4. CoreOK(Flush(s)) /\ QueueOK(Flush(s)) /\ SameRing(Flush(s), s)
        /\ (Flush(s).timers["Current"] = s.timers["Current"] \/ InFlight(Flush(s)))
    BY <2>3, FromIInv, FlushOK
  <2>5. IInv'
    BY <1>0, <2>1, <2>2, <2>4, CarryAll
  <2>. QED  BY <2>1, <2>3, <2>4, <2>5 DEF SameRing, HasSession
<1>. QED  BY <1>1, <1>2 DEF ReceiveResponse

\* set_current_session on data keeps the core, and the session at hand.
LEMMA HeardOK ==
    ASSUME IInv, NEW i \in Slots, tunn.sessions[i] # None
    PROVE  /\ CoreOK(SetCurrent(tunn, tunn.sessions[i].local))
           /\ QueueOK(SetCurrent(tunn, tunn.sessions[i].local))
           /\ SetCurrent(tunn, tunn.sessions[i].local).key = tunn.key
           /\ SetCurrent(tunn, tunn.sessions[i].local).timers = tunn.timers
           /\ SetCurrent(tunn, tunn.sessions[i].local).sessions = tunn.sessions
           /\ HasSession(tunn) => HasSession(SetCurrent(tunn, tunn.sessions[i].local))
           /\ endpoint = TRUE
<1>. DEFINE idx == tunn.sessions[i].local
            c == SetCurrent(tunn, idx)
            s == [tunn EXCEPT !.current = idx]
<1>1. tunn.sessions[i] \in [local : Nat, born : Nat]
  BY FromIInv DEF Tunns
<1>2. idx \in Nat /\ Slot(idx) = i /\ endpoint = TRUE
  BY <1>1, FromIInv DEF BaseOK, RingOK, Reached, Around
<1>. HIDE DEF idx
<1>3. c = tunn \/ (c = s /\ (~HasSession(tunn) \/ tunn.session_timers[i] >= tunn.session_timers[Slot(tunn.current)]))
  BY <1>2 DEF SetCurrent
<1>4. /\ BaseOK(s) /\ SameHandshake(s, tunn) /\ SameTimers(s, tunn)
      /\ s.sessions = tunn.sessions /\ s.session_timers = tunn.session_timers
      /\ s.current = idx /\ s.queue = tunn.queue /\ s.is_initiator = tunn.is_initiator
  BY <1>2, FromIInv, SetCurrentFields
<1>. HIDE DEF s, c
<1>5. HasSession(s)
  BY <1>2, <1>4 DEF HasSession
<1>6. (InFlight(s) <=> InFlight(tunn)) /\ s.state = tunn.state /\ s.key = tunn.key
  BY <1>4 DEF SameHandshake, InFlight
<1>7. tunn.is_initiator => HasSession(tunn)
        /\ tunn.session_timers[Slot(tunn.current)] = tunn.timers["SessionEstablished"]
        /\ (InFlight(tunn) => tunn.state.key = tunn.key)
  BY FromIInv DEF InitiatorOK
<1>8. tunn.session_timers[i] <= tunn.timers["SessionEstablished"] /\ tunn.session_timers[i] \in Nat
      /\ tunn.timers["SessionEstablished"] \in Nat
  BY FromIInv, TimerNames DEF BaseOK, RingOK, Tunns
<1>9. PromptOK(s)
  BY <1>4, <1>6, <1>7, FromIInv DEF PromptOK, SameTimers
<1>10. ASSUME c = s PROVE InitiatorOK(s)
  <2>. SUFFICES ASSUME tunn.is_initiator, c # tunn
                PROVE  s.session_timers[Slot(s.current)] = s.timers["SessionEstablished"]
                       /\ (InFlight(s) => s.state.key = s.key)
    BY <1>4, <1>5, <1>10, FromIInv DEF InitiatorOK
  <2>1. tunn.session_timers[i] >= tunn.session_timers[Slot(tunn.current)]
    BY <1>3, <1>7
  <2>2. tunn.session_timers[i] = tunn.timers["SessionEstablished"]
    BY <1>7, <1>8, <2>1
  <2>. QED  BY <1>2, <1>4, <1>6, <1>7, <2>2 DEF SameTimers
<1>11. QueueOK(s)
  BY <1>4, <1>6, FromIInv DEF QueueOK
<1>12. CoreOK(c) /\ QueueOK(c) /\ c.key = tunn.key /\ c.sessions = tunn.sessions /\ c.timers = tunn.timers
       /\ (HasSession(tunn) => HasSession(c))
  <2>1. CASE c = tunn
    BY <2>1, FromIInv
  <2>2. CASE c = s
    BY <1>4, <1>5, <1>6, <1>9, <1>10, <1>11, <2>2 DEF CoreOK, SameTimers
  <2>. QED  BY <1>3, <2>1, <2>2
<1>. QED  BY <1>2, <1>12 DEF c, idx

\* Quiet operations leave the queue as it is.
LEMMA QuietQueue ==
    ASSUME NEW s, NEW t, Quiet(s, t), s.queue = t.queue, QueueOK(t)
    PROVE  QueueOK(s)
BY DEF Quiet, QueueOK, SameHandshake, InFlight

\* A packet of the peer.
LEMMA ReceiveDataOK ==
    ASSUME IInv, NEW i \in Slots, NEW kind, ReceiveData(i, kind)
    PROVE  /\ IInv' /\ tunn'.sessions = tunn.sessions
           /\ HasSession(tunn) => HasSession(tunn')
           /\ tunn'.timers["Current"] = tunn.timers["Current"]
<1>. DEFINE c == SetCurrent(tunn, tunn.sessions[i].local)
            r == TimerTick(c, "PacketReceived")
            d == TimerTick(r, "DataPacketReceived")
<1>1. /\ tunn.sessions[i] # None /\ tunn' = IF kind = "data" THEN d ELSE r
      /\ UNCHANGED <<endpoint, clock, configured, prompt>>
  BY DEF ReceiveData
<1>2. events' \in 0 .. MaxEvents
  BY EventCounts DEF ReceiveData
<1>3. CoreOK(c) /\ QueueOK(c) /\ endpoint = TRUE /\ c.sessions = tunn.sessions /\ c.timers = tunn.timers
      /\ (HasSession(tunn) => HasSession(c))
  BY <1>1, HeardOK
<1>. HIDE DEF c
<1>4. BaseOK(r) /\ Quiet(r, c) /\ r.queue = c.queue /\ Ticked(r, c, "PacketReceived")
  BY <1>3, FromIInv, TickQuiet, TickBase DEF CoreOK, Around
<1>. HIDE DEF r
<1>5. CoreOK(r) /\ QueueOK(r) /\ r.want_keepalive
  BY <1>3, <1>4, QuietCore, QuietQueue DEF Ticked
<1>6. BaseOK(d) /\ Quiet(d, r) /\ d.queue = r.queue
  BY <1>5, FromIInv, DataTick DEF CoreOK, Around
<1>. HIDE DEF d
<1>7. CoreOK(d) /\ QueueOK(d)
  BY <1>5, <1>6, QuietCore, QuietQueue
<1>8. IInv'
  <2>1. CASE kind = "data"
    BY <1>1, <1>2, <1>3, <1>7, <2>1, CarryAll
  <2>2. CASE kind # "data"
    BY <1>1, <1>2, <1>3, <1>5, <2>2, CarryAll
  <2>. QED  BY <2>1, <2>2
<1>9. SameRing(r, c) /\ SameRing(d, c)
  BY <1>4, <1>6 DEF Quiet, SameRing
<1>10. HasSession(c) => HasSession(tunn')
  BY <1>1, <1>9 DEF HasSession, SameRing
<1>11. tunn'.sessions = tunn.sessions
  BY <1>1, <1>3, <1>9 DEF SameRing
<1>12. r.timers["Current"] = c.timers["Current"] /\ d.timers["Current"] = c.timers["Current"]
  BY <1>4, <1>6 DEF Quiet
<1>. QED  BY <1>1, <1>3, <1>8, <1>10, <1>11, <1>12

\* A cookie reply changes a timer at most.
LEMMA ReceiveCookieOK ==
    ASSUME IInv, ReceiveCookie
    PROVE  IInv' /\ SameRing(tunn', tunn) /\ tunn'.timers["Current"] = tunn.timers["Current"]
<1>. DEFINE r == TimerTick(tunn, "PacketReceived")
<1>1. endpoint = TRUE /\ tunn' = r /\ UNCHANGED <<endpoint, clock, configured, prompt>>
  BY FromIInv DEF ReceiveCookie, Around
<1>2. events' \in 0 .. MaxEvents
  BY EventCounts DEF ReceiveCookie
<1>3. BaseOK(r) /\ Quiet(r, tunn) /\ r.queue = tunn.queue
  BY FromIInv, TickQuiet DEF Around
<1>. HIDE DEF r
<1>4. CoreOK(r) /\ QueueOK(r)
  BY <1>3, FromIInv, QuietCore, QuietQueue
<1>. QED  BY <1>1, <1>2, <1>3, <1>4, CarryAll DEF Quiet

\* A new static key ends the handshake and the sessions.
LEMMA SetKeyOK ==
    ASSUME IInv, SetKey
    PROVE  IInv' /\ tunn'.key # tunn.key /\ tunn'.timers = tunn.timers
<1>. DEFINE none == [i \in Slots |-> None]
            s == [tunn EXCEPT !.key = 1, !.sessions = none]
<1>1. tunn' = s /\ tunn.key = 0 /\ UNCHANGED <<endpoint, clock, configured, prompt>>
  BY DEF SetKey
<1>2. events' \in 0 .. MaxEvents
  BY EventCounts DEF SetKey
<1>3. none \in [Slots -> [local : Nat, born : Nat] \cup {None}] /\ \A i \in Slots : none[i] = None
  OBVIOUS
<1>. HIDE DEF none
<1>4. s \in Tunns
  BY <1>3, FromIInv DEF Tunns
<1>5. /\ s.key = 1 /\ s.sessions = none /\ s.state = tunn.state /\ s.previous = tunn.previous
      /\ s.queue = tunn.queue /\ s.current = tunn.current /\ s.session_timers = tunn.session_timers
      /\ SameTimers(s, tunn)
  BY FromIInv DEF Tunns, SameTimers
<1>. HIDE DEF s
<1>6. \A i \in Slots : s.sessions[i] = None
  BY <1>3, <1>5
<1>7. (InFlight(s) <=> InFlight(tunn)) /\ (IsExpired(s) <=> IsExpired(tunn)) /\ ~HasSession(s)
  <2>1. s.current \in Nat
    BY <1>4 DEF Tunns
  <2>. QED  BY <1>5, <1>6, <2>1, SlotIn DEF InFlight, IsExpired, HasSession
<1>8. InFlight(tunn) => tunn.state.key = 0
  <2>1. InFlight(tunn) => tunn.state.key \in {0, 1} /\ tunn.state.key <= tunn.key
    BY FromIInv, StateTypes DEF BaseOK, StatesOK, Tunns, InFlight
  <2>. QED  BY <1>1, <2>1
<1>9. StatesOK(s)
  <2>1. tunn.previous.type = "InitSent" => tunn.previous.key \in {0, 1}
    BY FromIInv, StateTypes DEF Tunns
  <2>2. InFlight(s) => s.state.time_sent <= clock /\ s.state.key <= s.key /\ (configured => s.state.out)
    BY <1>5, <1>7, <1>8, FromIInv DEF BaseOK, StatesOK
  <2>3. IsExpired(s) => s.previous.type = "Expired"
    BY <1>5, <1>7, FromIInv DEF BaseOK, StatesOK
  <2>4. s.previous.type = "InitSent" => s.previous.key <= (IF InFlight(s) THEN s.state.key ELSE s.key)
    <3>1. CASE InFlight(s)
      BY <1>5, <1>7, <3>1, FromIInv DEF BaseOK, StatesOK
    <3>2. CASE ~InFlight(s)
      BY <1>5, <2>1, <3>2
    <3>. QED  BY <3>1, <3>2
  <2>. QED  BY <1>6, <2>2, <2>3, <2>4 DEF StatesOK
<1>10. BaseOK(s)
  BY <1>4, <1>5, <1>6, <1>9, FromIInv
     DEF BaseOK, SameTimers, TimersOK, SlotTimersOK, RingOK, LagOK
<1>11. InitiatorOK(s) /\ PromptOK(s)
  BY <1>5, <1>6, <1>7, <1>8 DEF InitiatorOK, PromptOK
<1>12. QueueOK(s) /\ Reached(s)
  BY <1>5, <1>6, <1>7, FromIInv DEF QueueOK, Reached
<1>13. CoreOK(s)
  BY <1>10, <1>11 DEF CoreOK
<1>14. IInv'
  BY <1>1, <1>2, <1>12, <1>13, CarryAll
<1>15. tunn'.key # tunn.key /\ tunn'.timers = tunn.timers
  BY <1>1, <1>5 DEF SameTimers
<1>. QED  BY <1>14, <1>15

\* What update_session_timers leaves.
LEMMA RenewedFields ==
    ASSUME IInv
    PROVE  /\ Renewed \in Tunns /\ SameHandshake(Renewed, tunn)
           /\ Renewed.queue = tunn.queue /\ Renewed.is_initiator = tunn.is_initiator
           /\ Renewed.current = tunn.current
           /\ Renewed.want_keepalive = tunn.want_keepalive
           /\ Renewed.want_handshake = tunn.want_handshake
           /\ Renewed.timers = [tunn.timers EXCEPT !["Current"] = clock]
           /\ \A i \in Slots : LET old == clock - tunn.session_timers[i] > RejectAfter IN
                 /\ Renewed.sessions[i] = IF old THEN None ELSE tunn.sessions[i]
                 /\ Renewed.session_timers[i] = IF old THEN clock ELSE tunn.session_timers[i]
<1>. DEFINE old == {i \in Slots : clock - tunn.session_timers[i] > RejectAfter}
            ss == [i \in Slots |-> IF i \in old THEN None ELSE tunn.sessions[i]]
            st == [i \in Slots |-> IF i \in old THEN clock ELSE tunn.session_timers[i]]
            r == [tunn EXCEPT !.timers["Current"] = clock, !.sessions = ss, !.session_timers = st]
<1>1. Renewed = r
  BY DEF Renewed
<1>2. tunn \in Tunns /\ clock \in Nat
  BY FromIInv DEF Around
<1>3. ss \in [Slots -> [local : Nat, born : Nat] \cup {None}] /\ st \in [Slots -> Nat]
  BY <1>2 DEF Tunns
<1>4. \A i \in Slots : LET o == clock - tunn.session_timers[i] > RejectAfter IN
         /\ ss[i] = IF o THEN None ELSE tunn.sessions[i]
         /\ st[i] = IF o THEN clock ELSE tunn.session_timers[i]
  OBVIOUS
<1>. HIDE DEF ss, st
<1>5. r \in Tunns
  BY <1>2, <1>3 DEF Tunns, TimerName
<1>6. SameHandshake(r, tunn)
  BY <1>2 DEF Tunns, SameHandshake
<1>7. r.queue = tunn.queue /\ r.is_initiator = tunn.is_initiator /\ r.current = tunn.current
      /\ r.want_keepalive = tunn.want_keepalive /\ r.want_handshake = tunn.want_handshake
  BY <1>2 DEF Tunns
<1>8. r.timers = [tunn.timers EXCEPT !["Current"] = clock] /\ r.sessions = ss /\ r.session_timers = st
  BY <1>2 DEF Tunns
<1>. HIDE DEF r
<1>. QED  BY <1>1, <1>4, <1>5, <1>6, <1>7, <1>8

\* The start of update_timers: only its own promptness is still to be restored.
LEMMA RenewedOK ==
    ASSUME IInv
    PROVE  /\ BaseOK(Renewed) /\ InitiatorOK(Renewed) /\ QueueOK(Renewed)
           /\ Renewed.timers["Current"] = clock
           /\ \A m \in TimerName \ {"Current"} : Renewed.timers[m] = tunn.timers[m]
<1>. DEFINE r == Renewed
<1>0. /\ r \in Tunns /\ SameHandshake(r, tunn)
      /\ r.queue = tunn.queue /\ r.is_initiator = tunn.is_initiator
      /\ r.current = tunn.current
      /\ r.want_keepalive = tunn.want_keepalive
      /\ r.want_handshake = tunn.want_handshake
      /\ r.timers = [tunn.timers EXCEPT !["Current"] = clock]
  BY RenewedFields
<1>1. \A i \in Slots :
         /\ r.sessions[i] = IF clock - tunn.session_timers[i] > RejectAfter THEN None ELSE tunn.sessions[i]
         /\ r.session_timers[i] = IF clock - tunn.session_timers[i] > RejectAfter THEN clock
                                  ELSE tunn.session_timers[i]
  BY RenewedFields
<1>. HIDE DEF r
<1>2. tunn.timers \in [TimerName -> Nat] /\ tunn.session_timers \in [Slots -> Nat] /\ clock \in Nat
      /\ tunn.sessions \in [Slots -> [local : Nat, born : Nat] \cup {None}]
  BY FromIInv DEF Tunns, Around
<1>3. r.timers["Current"] = clock /\ \A m \in TimerName \ {"Current"} : r.timers[m] = tunn.timers[m]
  BY <1>0, <1>2, TimerNames
<1>4. \A m \in TimerName : tunn.timers[m] <= clock
  BY <1>2, FromIInv, TimerNames DEF BaseOK, TimersOK
<1>5. TimersOK(r)
  <2>1. \A m \in TimerName : r.timers[m] <= clock
    BY <1>2, <1>3, <1>4
  <2>2. /\ r.timers["PacketReceived"] = tunn.timers["PacketReceived"]
        /\ r.timers["PacketSent"] = tunn.timers["PacketSent"]
        /\ r.timers["DataPacketReceived"] = tunn.timers["DataPacketReceived"]
        /\ r.timers["DataPacketSent"] = tunn.timers["DataPacketSent"]
    BY <1>3, TimerNames
  <2>. QED  BY <1>0, <1>2, <1>3, <2>1, <2>2, FromIInv DEF BaseOK, TimersOK
<1>6. SlotTimersOK(r)
  <2>1. ASSUME NEW i \in Slots PROVE r.session_timers[i] <= clock
    <3>1. tunn.session_timers[i] <= tunn.timers["Current"]
      BY FromIInv DEF BaseOK, SlotTimersOK
    <3>. QED  BY <1>1, <1>2, <1>4, <3>1, TimerNames
  <2>. QED  BY <1>3, <2>1 DEF SlotTimersOK
<1>7. StatesOK(r)
  BY <1>0, <1>1, FromIInv DEF BaseOK, StatesOK, SameHandshake, InFlight, IsExpired
<1>8. \A i \in Slots : r.sessions[i] # None =>
         /\ r.sessions[i] = tunn.sessions[i] /\ r.session_timers[i] = tunn.session_timers[i]
         /\ clock - tunn.session_timers[i] <= RejectAfter
  BY <1>1, <1>2, TunnelConstants
<1>9. RingOK(r)
  <2>. SUFFICES ASSUME NEW i \in Slots, r.sessions[i] # None
                PROVE  LET born == r.sessions[i].born
                           timer == r.session_timers[i]
                       IN /\ Slot(r.sessions[i].local) = i
                          /\ timer <= born /\ born <= clock
                          /\ timer <= r.timers["SessionEstablished"]
                          /\ r.timers["Current"] - timer <= RejectAfter
                          /\ clock - r.timers["Current"] <= MaxLag + 1 \/ born = clock
                          /\ configured => born - timer <= MaxLag + 1
    BY DEF RingOK
  <2>1. r.sessions[i] = tunn.sessions[i] /\ r.session_timers[i] = tunn.session_timers[i]
        /\ clock - tunn.session_timers[i] <= RejectAfter
    BY <1>8
  <2>2. r.timers["SessionEstablished"] = tunn.timers["SessionEstablished"]
    BY <1>3, TimerNames
  <2>3. clock - r.timers["Current"] <= MaxLag + 1
    BY <1>2, <1>3, TunnelConstants
  <2>. QED  BY <1>3, <2>1, <2>2, <2>3, FromIInv DEF BaseOK, RingOK
<1>10. LagOK(r)
  BY <1>2, <1>3, TunnelConstants DEF LagOK
<1>11. BaseOK(r)
  BY <1>0, <1>5, <1>6, <1>7, <1>9, <1>10 DEF BaseOK
<1>12. InitiatorOK(r)
  <2>. SUFFICES ASSUME tunn.is_initiator, NEW j \in Slots, r.sessions[j] # None
                PROVE  /\ HasSession(r)
                       /\ r.session_timers[Slot(r.current)] = r.timers["SessionEstablished"]
                       /\ InFlight(r) => r.state.key = r.key
    BY <1>0 DEF InitiatorOK
  <2>. DEFINE cur == Slot(tunn.current)
  <2>1. tunn.sessions[j] # None /\ clock - tunn.session_timers[j] <= RejectAfter
    BY <1>8
  <2>2. /\ HasSession(tunn) /\ tunn.session_timers[cur] = tunn.timers["SessionEstablished"]
        /\ InFlight(tunn) => tunn.state.key = tunn.key
    BY <2>1, FromIInv DEF InitiatorOK
  <2>3. cur \in Slots
    BY FromIInv, SlotIn DEF Tunns
  <2>. HIDE DEF cur
  <2>4. tunn.session_timers[j] <= tunn.session_timers[cur]
    BY <2>1, <2>2, FromIInv DEF BaseOK, RingOK
  <2>5. ~(clock - tunn.session_timers[cur] > RejectAfter)
    BY <1>2, <2>1, <2>3, <2>4, TunnelConstants
  <2>6. r.sessions[cur] = tunn.sessions[cur] /\ r.session_timers[cur] = tunn.session_timers[cur]
    BY <1>1, <2>3, <2>5
  <2>7. r.timers["SessionEstablished"] = tunn.timers["SessionEstablished"]
    BY <1>3, TimerNames
  <2>. QED  BY <1>0, <2>2, <2>6, <2>7 DEF HasSession, SameHandshake, InFlight, cur
<1>13. QueueOK(r)
  BY <1>0, FromIInv DEF QueueOK, InFlight, SameHandshake
<1>. QED  BY <1>3, <1>11, <1>12, <1>13 DEF r

\* set_expired and clear_all leave nothing to wait for.
LEMMA GiveUpOK ==
    ASSUME NEW t, BaseOK(t), Around
    PROVE  /\ CoreOK(GiveUp(t)) /\ QueueOK(GiveUp(t)) /\ IsExpired(GiveUp(t))
           /\ \A i \in Slots : GiveUp(t).sessions[i] = None
<1>. DEFINE e == Expired
            none == [i \in Slots |-> None]
            q == <<>>
            s == [t EXCEPT !.state = e, !.previous = e, !.sessions = none, !.queue = q]
            g == ClearTimers(s)
<1>1. GiveUp(t) = g
  BY DEF GiveUp
<1>2. e \in HandshakeStates /\ e.type = "Expired" /\ none \in [Slots -> [local : Nat, born : Nat] \cup {None}]
      /\ q \in Seq({"data", "keepalive"}) /\ Len(q) = 0 /\ q = <<>> /\ (\A i \in Slots : none[i] = None)
  BY StateTypes
<1>. HIDE DEF e, none, q
<1>3. s \in Tunns
  BY <1>2 DEF BaseOK, Tunns
<1>4. /\ s.state = e /\ s.previous = e /\ s.sessions = none /\ s.queue = q
      /\ s.session_timers = t.session_timers /\ s.current = t.current
  BY DEF BaseOK, Tunns
<1>. HIDE DEF s
<1>5. g \in Tunns /\ SameHandshake(g, s) /\ SameRing(g, s) /\ g.queue = q
      /\ g.timers = [n \in TimerName |-> clock]
  BY <1>3, <1>4, ClearFields DEF Around
<1>. HIDE DEF g
<1>6. \A n \in TimerName : g.timers[n] = clock
  BY <1>5
<1>7. \A i \in Slots : g.sessions[i] = None
  BY <1>2, <1>4, <1>5 DEF SameRing
<1>8. IsExpired(g) /\ ~InFlight(g) /\ g.previous.type = "Expired"
  BY <1>2, <1>4, <1>5 DEF IsExpired, InFlight, SameHandshake
<1>9. TimersOK(g) /\ LagOK(g)
  BY <1>6, TimerNames, TunnelConstants DEF TimersOK, LagOK, Around
<1>10. SlotTimersOK(g)
  <2>1. t.session_timers \in [Slots -> Nat] /\ t.timers["Current"] \in Nat
    BY TimerNames DEF BaseOK, Tunns
  <2>2. \A i \in Slots : t.session_timers[i] <= t.timers["Current"] /\ t.timers["Current"] <= clock
    BY DEF BaseOK, SlotTimersOK, TimersOK
  <2>3. \A i \in Slots : t.session_timers[i] <= clock
    BY <2>1, <2>2 DEF Around
  <2>. QED  BY <1>4, <1>5, <1>6, <2>3, TimerNames DEF SlotTimersOK, SameRing
<1>11. StatesOK(g) /\ RingOK(g)
  BY <1>7, <1>8 DEF StatesOK, RingOK
<1>12. InitiatorOK(g) /\ PromptOK(g)
  <2>1. g.timers["SessionEstablished"] = clock /\ g.timers["DataPacketSent"] = clock
    BY <1>6, TimerNames
  <2>. QED  BY <1>7, <1>8, <2>1 DEF InitiatorOK, PromptOK, Around
<1>13. QueueOK(g)
  BY <1>2, <1>5, TunnelConstants DEF QueueOK
<1>14. CoreOK(g)
  BY <1>5, <1>9, <1>10, <1>11, <1>12 DEF CoreOK, BaseOK
<1>. QED  BY <1>1, <1>7, <1>8, <1>13, <1>14

\* Outside a handshake, what is owed by the stamps is not yet due.
Settled(t) ==
    ~InFlight(t) /\ ~IsExpired(t) =>
        /\ t.timers["PacketReceived"] < t.timers["DataPacketSent"] =>
              t.timers["Current"] - t.timers["PacketReceived"] < KeepaliveTimeout + RekeyTimeout
        /\ t.timers["PacketSent"] < t.timers["DataPacketReceived"] =>
              t.timers["Current"] - t.timers["PacketSent"] < KeepaliveTimeout

\* The decisions of update_timers restore promptness and leave no silence
\* unnoticed; they drop sessions only by giving up.
LEMMA TimersStep ==
    ASSUME IInv, endpoint
    PROVE  /\ CoreOK(Timers(Renewed)) /\ QueueOK(Timers(Renewed)) /\ Settled(Timers(Renewed))
           /\ \/ SameRing(Timers(Renewed), Renewed)
              \/ ConnectionOld(Renewed) \/ AttemptOld(Renewed)
<1>. DEFINE r == Renewed
<1>1. /\ BaseOK(r) /\ InitiatorOK(r) /\ QueueOK(r) /\ r.timers["Current"] = clock /\ Around
  BY RenewedOK, FromIInv
<1>2. r.timers \in [TimerName -> Nat] /\ clock \in Nat
  BY <1>1 DEF BaseOK, Tunns, Around
<1>. HIDE DEF r
<1>3. CASE IsExpired(r)
  <2>1. Timers(r) = r
    BY <1>3 DEF Timers
  <2>2. ~HasSession(r) /\ ~InFlight(r)
    <3>1. Slot(r.current) \in Slots
      BY <1>1, SlotIn DEF BaseOK, Tunns
    <3>. QED  BY <1>1, <1>3, <3>1 DEF BaseOK, StatesOK, HasSession, IsExpired, InFlight
  <2>3. PromptOK(r) /\ Settled(r)
    BY <1>3, <2>2 DEF PromptOK, Settled
  <2>. QED  BY <1>1, <2>1, <2>3 DEF CoreOK, SameRing, r
<1>4. CASE ~IsExpired(r) /\ (ConnectionOld(r) \/ AttemptOld(r))
  <2>1. Timers(r) = GiveUp(r)
    BY <1>4 DEF Timers
  <2>2. CoreOK(GiveUp(r)) /\ QueueOK(GiveUp(r)) /\ IsExpired(GiveUp(r))
    BY <1>1, GiveUpOK
  <2>3. Settled(GiveUp(r))
    BY <2>2 DEF Settled
  <2>. QED  BY <1>4, <2>1, <2>2, <2>3 DEF r
<1>. DEFINE Resend == Unanswered(r) \/ (~InFlight(r) /\ (RekeyDue(r) \/ PeerSilent(r)))
<1>5. CASE ~IsExpired(r) /\ ~(ConnectionOld(r) \/ AttemptOld(r)) /\ Resend
  <2>. DEFINE f == FormatInitiation(r, TRUE, endpoint)
  <2>1. Timers(r) = f
    BY <1>5 DEF Timers
  <2>2. BaseOK(f) /\ Formatted(f, r, endpoint) /\ InFlight(f) /\ InitiatorOK(f) /\ PromptOK(f)
    BY <1>1, FormatBase DEF Around
  <2>. HIDE DEF f
  <2>3. QueueOK(f) /\ SameRing(f, r)
    BY <1>1, <2>2 DEF QueueOK, Formatted
  <2>4. Settled(f)
    BY <2>2 DEF Settled
  <2>. QED  BY <2>1, <2>2, <2>3, <2>4 DEF CoreOK, r
<1>6. CASE ~IsExpired(r) /\ ~(ConnectionOld(r) \/ AttemptOld(r)) /\ ~Resend /\ InFlight(r)
  <2>1. Timers(r) = r
    BY <1>6 DEF Timers
  <2>2. PromptOK(r) /\ Settled(r)
    BY <1>1, <1>6 DEF PromptOK, Settled
  <2>. QED  BY <1>1, <2>1, <2>2 DEF CoreOK, SameRing, r
<1>7. CASE ~IsExpired(r) /\ ~(ConnectionOld(r) \/ AttemptOld(r)) /\ ~Resend /\ ~InFlight(r)
  <2>1. ~RekeyDue(r) /\ ~PeerSilent(r)
    BY <1>7
  <2>2. PromptOK(r)
    <3>1. r.is_initiator /\ r.timers["SessionEstablished"] < r.timers["DataPacketSent"] =>
             r.timers["Current"] - r.timers["SessionEstablished"] < RekeyAfter
      BY <1>1, <1>2, <2>1, TimerNames, TunnelConstants DEF RekeyDue, Since
    <3>. QED  BY <1>7, <3>1 DEF PromptOK
  <2>3. CoreOK(r)
    BY <1>1, <2>2 DEF CoreOK
  <2>4. r.timers["PacketReceived"] < r.timers["DataPacketSent"] =>
             clock - r.timers["PacketReceived"] < KeepaliveTimeout + RekeyTimeout
    <3>1. r.timers["PacketReceived"] < r.timers["DataPacketSent"] => r.want_handshake
      BY <1>1 DEF BaseOK, TimersOK
    <3>. QED  BY <1>2, <2>1, <3>1, TimerNames, TunnelConstants DEF PeerSilent, Since
  <2>5. CASE ~PersistentDue(r) /\ ~KeepaliveDue(r)
    <3>1. Timers(r) = r
      BY <1>7, <2>5 DEF Timers
    <3>2. r.timers["PacketSent"] < r.timers["DataPacketReceived"] =>
              clock - r.timers["PacketSent"] < KeepaliveTimeout
      <4>1. r.timers["PacketSent"] < r.timers["DataPacketReceived"] => r.want_keepalive
        BY <1>1 DEF BaseOK, TimersOK
      <4>. QED  BY <1>2, <2>5, <4>1, TimerNames, TunnelConstants DEF KeepaliveDue, Since
    <3>3. Settled(r)
      BY <1>1, <2>4, <3>2 DEF Settled
    <3>. QED  BY <1>1, <2>3, <3>1, <3>3 DEF SameRing, r
  <2>6. CASE PersistentDue(r) \/ KeepaliveDue(r)
    <3>. DEFINE p == IF PersistentDue(r) THEN TimerTick(r, "PersistentKeepalive") ELSE r
                e == Encapsulate(p, "keepalive")
    <3>1. Timers(r) = e
      BY <1>7, <2>6 DEF Timers
    <3>2. /\ BaseOK(p) /\ Quiet(p, r) /\ p.queue = r.queue
          /\ p.timers["PacketReceived"] = r.timers["PacketReceived"]
          /\ p.timers["DataPacketSent"] = r.timers["DataPacketSent"]
      <4>1. CASE PersistentDue(r)
        <5>1. BaseOK(p) /\ Quiet(p, r) /\ p.queue = r.queue /\ Ticked(p, r, "PersistentKeepalive")
          BY <1>1, <1>2, <4>1, TickQuiet, TickBase
        <5>. HIDE DEF p
        <5>. QED  BY <1>2, <5>1, TimerNames DEF Ticked
      <4>2. CASE ~PersistentDue(r)
        BY <1>1, <4>2 DEF Quiet, SameHandshake, SameRing
      <4>. QED  BY <4>1, <4>2
    <3>. HIDE DEF p
    <3>3. CoreOK(p) /\ QueueOK(p) /\ Reached(p)
      <4>1. CoreOK(p) /\ QueueOK(p)
        BY <1>1, <2>3, <3>2, QuietCore, QuietQueue
      <4>. QED  BY <4>1 DEF Reached
    <3>4. /\ CoreOK(e) /\ QueueOK(e) /\ SameRing(e, p)
          /\ HasSession(p) => e = Sent(p, "keepalive")
          /\ ~HasSession(p) => InFlight(e)
      BY <1>1, <3>3, EncapsulateOK
    <3>. HIDE DEF e
    <3>5. SameRing(e, r)
      BY <3>2, <3>4 DEF Quiet, SameRing
    <3>6. Settled(e)
      <4>. SUFFICES ASSUME HasSession(p) PROVE Settled(e)
        BY <3>4 DEF Settled
      <4>1. /\ e.timers["Current"] = p.timers["Current"]
            /\ e.timers["PacketReceived"] = p.timers["PacketReceived"]
            /\ e.timers["PacketSent"] = p.timers["Current"]
            /\ e.timers["DataPacketSent"] = p.timers["DataPacketSent"]
        BY <1>2, <3>2, <3>4, SentQuiet DEF Quiet
      <4>2. ~(e.timers["PacketSent"] < e.timers["DataPacketReceived"])
        <5>1. e.timers["DataPacketReceived"] <= e.timers["Current"]
          BY <3>4, TimerNames DEF CoreOK, BaseOK, TimersOK
        <5>2. e.timers["DataPacketReceived"] \in Nat /\ e.timers["Current"] \in Nat
          BY <3>4, TimerNames DEF CoreOK, BaseOK, Tunns
        <5>. QED  BY <4>1, <5>1, <5>2
      <4>3. p.timers["Current"] = clock
        BY <1>1, <3>2 DEF Quiet
      <4>. QED  BY <2>4, <3>2, <4>1, <4>2, <4>3 DEF Settled
    <3>. QED  BY <3>1, <3>4, <3>5, <3>6 DEF r
  <2>. QED  BY <2>5, <2>6
<1>. QED  BY <1>3, <1>4, <1>5, <1>6, <1>7

\* The timers' run.
LEMMA UpdateTimersOK == IInv /\ UpdateTimers => IInv' /\ Settled(tunn')
<1>. SUFFICES ASSUME IInv, UpdateTimers PROVE IInv' /\ Settled(tunn')
  OBVIOUS
<1>. DEFINE x == Timers(Renewed)
<1>1. endpoint = TRUE /\ tunn' = x /\ UNCHANGED <<endpoint, clock, configured, prompt, events>>
  BY FromIInv DEF UpdateTimers, Around
<1>2. CoreOK(x) /\ QueueOK(x) /\ Settled(x)
  BY <1>1, TimersStep
<1>. HIDE DEF x
<1>3. events' \in 0 .. MaxEvents
  BY <1>1 DEF IInv
<1>. QED  BY <1>1, <1>2, <1>3, CarryAll

\* Time passes; the timers' turn comes within its delay.
LEMMA TickOK == IInv /\ Tick => IInv'
<1>. SUFFICES ASSUME IInv, Tick PROVE IInv'
  OBVIOUS
<1>1. /\ clock < Horizon /\ clock' = clock + 1 /\ UNCHANGED <<tunn, endpoint, configured, prompt, events>>
      /\ endpoint => clock - tunn.timers["Current"] <= (IF prompt THEN 0 ELSE MaxLag)
      /\ prompt => ~Answerable(tunn.state)
  BY DEF Tick
<1>2. clock \in Nat /\ clock' \in 0 .. Horizon
  BY <1>1, TunnelConstants DEF IInv
<1>3. /\ tunn.timers \in [TimerName -> Nat] /\ tunn.session_timers \in [Slots -> Nat]
      /\ tunn.sessions \in [Slots -> [local : Nat, born : Nat] \cup {None}]
      /\ tunn.timers["Current"] \in Nat
  BY FromIInv, TimerNames DEF Tunns
<1>4. endpoint => clock - tunn.timers["Current"] <= MaxLag
  BY <1>1, <1>2, <1>3, TunnelConstants
<1>5. (prompt => configured) /\ (configured => endpoint)
  BY DEF IInv
<1>6. prompt => ~(InFlight(tunn) /\ tunn.state.key = tunn.key)
  BY <1>1, <1>5, FromIInv DEF Answerable, InFlight, BaseOK, StatesOK
<1>7. TimersOK(tunn)'
  BY <1>1, <1>2, <1>3, FromIInv DEF BaseOK, TimersOK
<1>8. SlotTimersOK(tunn)'
  BY <1>1, FromIInv DEF BaseOK, SlotTimersOK
<1>9. StatesOK(tunn)'
  <2>1. InFlight(tunn) => tunn.state.time_sent \in Nat
    BY FromIInv, StateTypes DEF Tunns, InFlight
  <2>2. InFlight(tunn) => tunn.state.time_sent <= clock'
    BY <1>1, <1>2, <2>1, FromIInv DEF BaseOK, StatesOK
  <2>. QED  BY <1>1, <2>2, FromIInv DEF BaseOK, StatesOK, InFlight, IsExpired
<1>10. RingOK(tunn)'
  <2>. SUFFICES ASSUME NEW i \in Slots, tunn.sessions[i] # None
                PROVE  LET born == tunn.sessions[i].born
                           timer == tunn.session_timers[i]
                       IN /\ Slot(tunn.sessions[i].local) = i
                          /\ timer <= born /\ born <= clock'
                          /\ timer <= tunn.timers["SessionEstablished"]
                          /\ tunn.timers["Current"] - timer <= RejectAfter
                          /\ clock' - tunn.timers["Current"] <= MaxLag + 1
                          /\ configured => born - timer <= MaxLag + 1
    BY <1>1 DEF RingOK
  <2>1. endpoint /\ tunn.sessions[i].born \in Nat /\ tunn.sessions[i].born <= clock
    BY <1>3, FromIInv DEF Reached, BaseOK, RingOK
  <2>2. tunn.sessions[i].born <= clock' /\ clock' - tunn.timers["Current"] <= MaxLag + 1
    BY <1>1, <1>2, <1>3, <1>4, <2>1, TunnelConstants
  <2>. QED  BY <2>2, FromIInv DEF BaseOK, RingOK
<1>11. LagOK(tunn)'
  BY <1>1, <1>2, <1>3, <1>4, <1>5, TunnelConstants DEF LagOK
<1>12. InitiatorOK(tunn)' /\ QueueOK(tunn)' /\ Reached(tunn)'
  BY <1>1, FromIInv DEF InitiatorOK, QueueOK, Reached, HasSession, InFlight
<1>13. PromptOK(tunn)'
  <2>1. HasSession(tunn) => ~(\A i \in Slots : tunn.sessions[i] = None)
    BY FromIInv, SlotIn DEF HasSession, Tunns
  <2>2. prompt /\ tunn.is_initiator /\ HasSession(tunn) => ~InFlight(tunn)
    BY <1>6, <2>1, FromIInv DEF InitiatorOK
  <2>. QED  BY <1>1, <1>6, <2>2, FromIInv DEF PromptOK, InFlight, HasSession
<1>14. (tunn \in Tunns)'
  BY <1>1, FromIInv
<1>. QED  BY <1>1, <1>2, <1>7, <1>8, <1>9, <1>10, <1>11, <1>12, <1>13, <1>14 DEF IInv, TunnOK, BaseOK

\* Tunn::new, field by field.
LEMMA NewTunnOK ==
    ASSUME NEW interval \in Nat
    PROVE  LET t == NewTunn(interval) IN
           /\ t \in Tunns /\ t.state = Idle /\ t.previous = Idle /\ t.queue = <<>> /\ ~t.is_initiator
           /\ \A i \in Slots : t.sessions[i] = None /\ t.session_timers[i] = 0
           /\ \A n \in TimerName : t.timers[n] = 0
           /\ \A n \in Traffic : t.at[n] = 0
<1>. DEFINE h == Idle
            q == <<>>
            ss == [i \in Slots |-> None]
            st == [i \in Slots |-> 0]
            tt == [n \in TimerName |-> 0]
            ta == [n \in Traffic |-> 0]
            t == [state |-> h, previous |-> h, next_index |-> 0, key |-> 0,
                  sessions |-> ss, session_timers |-> st, current |-> 0,
                  queue |-> q, timers |-> tt, is_initiator |-> FALSE,
                  want_keepalive |-> FALSE, want_handshake |-> FALSE,
                  persistent_keepalive |-> interval, at |-> ta]
<1>1. NewTunn(interval) = t
  BY DEF NewTunn
<1>2. h \in HandshakeStates /\ q \in Seq({"data", "keepalive"}) /\ st \in [Slots -> Nat]
      /\ ss \in [Slots -> [local : Nat, born : Nat] \cup {None}] /\ tt \in [TimerName -> Nat]
      /\ ta \in [Traffic -> Nat]
  BY StateTypes
<1>3. /\ \A i \in Slots : ss[i] = None /\ st[i] = 0
      /\ (\A n \in TimerName : tt[n] = 0) /\ (\A n \in Traffic : ta[n] = 0)
  OBVIOUS
<1>. HIDE DEF h, q, ss, st, tt, ta
<1>4. t \in Tunns
  BY <1>2 DEF Tunns
<1>5. t.state = h /\ t.previous = h /\ t.queue = q /\ ~t.is_initiator
      /\ t.sessions = ss /\ t.session_timers = st /\ t.timers = tt /\ t.at = ta
  OBVIOUS
<1>. HIDE DEF t
<1>. QED  BY <1>1, <1>3, <1>4, <1>5 DEF h, q

\* A new tunnel satisfies the invariant.
LEMMA InitOK == Init => IInv
<1>. SUFFICES ASSUME Init PROVE IInv
  OBVIOUS
<1>1. PICK interval \in Keepalives : tunn = NewTunn(interval)
  BY DEF Init
<1>2. /\ tunn \in Tunns /\ tunn.state = Idle /\ tunn.previous = Idle /\ tunn.queue = <<>>
      /\ ~tunn.is_initiator
      /\ \A i \in Slots : tunn.sessions[i] = None /\ tunn.session_timers[i] = 0
      /\ \A n \in TimerName : tunn.timers[n] = 0
  BY <1>1, NewTunnOK, TunnelConstants
<1>3. clock = 0 /\ ~InFlight(tunn) /\ ~IsExpired(tunn) /\ tunn.previous.type # "InitSent"
  BY <1>2, StateTypes DEF Init, InFlight, IsExpired
<1>4. TimersOK(tunn) /\ SlotTimersOK(tunn) /\ LagOK(tunn)
  BY <1>2, <1>3, TimerNames, TunnelConstants DEF TimersOK, SlotTimersOK, LagOK
<1>5. StatesOK(tunn) /\ RingOK(tunn)
  BY <1>2, <1>3 DEF StatesOK, RingOK
<1>6. InitiatorOK(tunn) /\ PromptOK(tunn) /\ QueueOK(tunn) /\ Reached(tunn)
  BY <1>2, <1>3, TunnelConstants DEF InitiatorOK, PromptOK, QueueOK, Reached
<1>7. TunnOK(tunn)
  BY <1>2, <1>4, <1>5, <1>6 DEF TunnOK, BaseOK
<1>8. configured \in BOOLEAN /\ endpoint \in BOOLEAN /\ prompt \in BOOLEAN
      /\ (prompt => configured) /\ (configured => endpoint)
  <2>1. configured \in BOOLEAN /\ endpoint = configured /\ prompt \in {FALSE, configured}
    BY DEF Init
  <2>2. prompt = FALSE \/ prompt = configured
    BY <2>1
  <2>3. CASE configured = TRUE
    <3>1. prompt = FALSE \/ prompt = TRUE
      BY <2>2, <2>3
    <3>. QED  BY <2>1, <2>3, <3>1
  <2>4. CASE configured = FALSE
    <3>1. prompt = FALSE
      BY <2>2, <2>4
    <3>. QED  BY <2>1, <2>4, <3>1
  <2>. QED  BY <2>1, <2>3, <2>4
<1>9. clock \in 0 .. Horizon /\ events \in 0 .. MaxEvents
  BY TunnelConstants DEF Init
<1>. QED  BY <1>7, <1>8, <1>9 DEF IInv

\* Every step keeps it.
LEMMA Inductive == IInv /\ [Next]_vars => IInv'
<1>. SUFFICES ASSUME IInv, [Next]_vars PROVE IInv'
  OBVIOUS
<1>1. CASE UNCHANGED vars
  BY <1>1 DEF vars, IInv, TunnOK, BaseOK, TimersOK, SlotTimersOK, StatesOK, RingOK, LagOK,
              InitiatorOK, PromptOK, QueueOK, Reached, InFlight, IsExpired, HasSession
<1>2. CASE SendPacket
  BY <1>2, SendPacketOK
<1>3. CASE ReceiveInit
  BY <1>3, ReceiveInitOK
<1>4. CASE ReceiveResponse
  BY <1>4, ReceiveResponseOK
<1>5. ASSUME NEW i \in Slots, NEW kind \in {"keepalive", "data", "nonsense"}, ReceiveData(i, kind)
      PROVE  IInv'
  BY <1>5, ReceiveDataOK
<1>6. CASE ReceiveCookie
  BY <1>6, ReceiveCookieOK
<1>7. CASE SetKey
  BY <1>7, SetKeyOK
<1>8. CASE UpdateTimers
  BY <1>8, UpdateTimersOK
<1>9. CASE Tick
  BY <1>9, TickOK
<1>. QED  BY <1>1, <1>2, <1>3, <1>4, <1>5, <1>6, <1>7, <1>8, <1>9 DEF Next

------------------------------------------------------------------------------
(* The true times *)

\* The stamps of a tunnel and their true times are in order.
Marked(t, e) ==
    /\ t \in Tunns
    /\ \A n \in TimerName : t.timers[n] <= t.timers["Current"]
    /\ t.timers["Current"] <= clock
    /\ Behind(t) /\ NotFarBehind(t, e)

Stamped(t, e) == Marked(t, e) /\ Noticed(t) /\ Repeated(t)

\* The names of the traffic's timers.
LEMMA TrafficNames ==
    /\ "PacketReceived" \in Traffic /\ "PacketSent" \in Traffic
    /\ "DataPacketReceived" \in Traffic /\ "DataPacketSent" \in Traffic
    /\ Traffic \subseteq TimerName \ {"Current"}
BY DEF Traffic, TimerName

\* What a tick does to the two records of time.
LEMMA TickTimes ==
    ASSUME NEW t \in Tunns, NEW n \in TimerName, clock \in Nat
    PROVE  /\ TimerTick(t, n) \in Tunns /\ TimerTick(t, n).state = t.state
           /\ \A m \in TimerName :
                 TimerTick(t, n).timers[m] = IF m = n THEN t.timers["Current"] ELSE t.timers[m]
           /\ \A m \in Traffic : TimerTick(t, n).at[m] = IF m = n THEN clock ELSE t.at[m]
<1>. DEFINE s == TimerTick(t, n)
<1>1. Ticked(s, t, n)
  BY TickFields
<1>. HIDE DEF s
<1>2. s \in Tunns /\ s.state = t.state
  BY <1>1 DEF Ticked, SameHandshake
<1>3. t.timers \in [TimerName -> Nat] /\ t.at \in [Traffic -> Nat]
  BY DEF Tunns
<1>4. s.timers = [t.timers EXCEPT ![n] = t.timers["Current"]] /\ s.at = AtTick(t, n)
  BY <1>1 DEF Ticked
<1>5. \A m \in TimerName : s.timers[m] = IF m = n THEN t.timers["Current"] ELSE t.timers[m]
  BY <1>3, <1>4
<1>6. \A m \in Traffic : s.at[m] = IF m = n THEN clock ELSE t.at[m]
  BY <1>3, <1>4 DEF AtTick
<1>. QED  BY <1>2, <1>5, <1>6 DEF s

\* All these times are numbers.
LEMMA TimeTypes ==
    ASSUME NEW t \in Tunns
    PROVE  (\A n \in TimerName : t.timers[n] \in Nat) /\ (\A n \in Traffic : t.at[n] \in Nat)
BY DEF Tunns

\* The order of the times is a matter of the times alone.
LEMMA MarkedFrame ==
    ASSUME NEW t, NEW s \in Tunns, NEW e, Marked(t, e), s.timers = t.timers, s.at = t.at
    PROVE  Marked(s, e)
BY DEF Marked, Behind, NotFarBehind

\* The whole of it is a matter of the times and the handshake.
LEMMA StampedFrame ==
    ASSUME NEW t, NEW s \in Tunns, NEW e, Stamped(t, e), s.timers = t.timers, s.at = t.at,
           s.state = t.state
    PROVE  Stamped(s, e)
<1>1. Marked(s, e)
  BY MarkedFrame DEF Stamped
<1>2. Noticed(s) /\ Repeated(s)
  BY DEF Stamped, Noticed, Repeated, InFlight, IsExpired
<1>. QED  BY <1>1, <1>2 DEF Stamped

\* A tick keeps the order of the times; the data timers run only with an address.
LEMMA MarkedTick ==
    ASSUME NEW t, NEW e \in BOOLEAN, NEW n \in TimerName \ {"Current"}, Marked(t, e), clock \in Nat,
           e \/ n \notin {"DataPacketSent", "DataPacketReceived"}
    PROVE  Marked(TimerTick(t, n), e)
<1>. DEFINE s == TimerTick(t, n)
<1>0. t \in Tunns
  BY DEF Marked
<1>1. /\ s \in Tunns
      /\ \A m \in TimerName : s.timers[m] = IF m = n THEN t.timers["Current"] ELSE t.timers[m]
      /\ \A m \in Traffic : s.at[m] = IF m = n THEN clock ELSE t.at[m]
  BY <1>0, TickTimes
<1>. HIDE DEF s
<1>2. (\A m \in TimerName : t.timers[m] \in Nat) /\ (\A m \in Traffic : t.at[m] \in Nat)
  BY <1>0, TimeTypes
<1>3. s.timers["Current"] = t.timers["Current"]
  BY <1>1, TimerNames
<1>4. /\ \A m \in TimerName : s.timers[m] <= s.timers["Current"]
      /\ s.timers["Current"] <= clock
  BY <1>1, <1>2, <1>3, TimerNames DEF Marked
<1>5. Behind(s)
  <2>. SUFFICES ASSUME NEW m \in Traffic PROVE s.timers[m] <= s.at[m] /\ s.at[m] <= clock
    BY DEF Behind
  <2>1. m \in TimerName
    BY TrafficNames
  <2>. QED  BY <1>1, <1>2, <2>1, TimerNames DEF Marked, Behind
<1>6. \A m \in Traffic : t.at[m] <= clock
  BY DEF Marked, Behind
<1>7. e => \/ clock - s.timers["Current"] <= MaxLag + 1
           \/ s.at["PacketReceived"] = clock /\ s.at["PacketSent"] = clock
  BY <1>1, <1>3, TrafficNames DEF Marked, NotFarBehind
<1>8. s.at["DataPacketSent"] > s.at["PacketReceived"] =>
          e /\ s.at["DataPacketSent"] - s.timers["DataPacketSent"] <= MaxLag + 1
  <2>1. CASE n = "DataPacketSent"
    <3>1. s.at["DataPacketSent"] = clock /\ s.timers["DataPacketSent"] = s.timers["Current"]
      BY <1>1, <1>3, <2>1, TimerNames, TrafficNames
    <3>2. e = TRUE
      BY <2>1
    <3>. QED  BY <1>7, <3>1, <3>2
  <2>2. CASE n = "PacketReceived"
    <3>1. s.at["PacketReceived"] = clock /\ s.at["DataPacketSent"] = t.at["DataPacketSent"]
      BY <1>1, <2>2, TrafficNames
    <3>. QED  BY <1>2, <1>6, <3>1, TrafficNames
  <2>3. CASE n \notin {"DataPacketSent", "PacketReceived"}
    <3>1. /\ s.at["PacketReceived"] = t.at["PacketReceived"]
          /\ s.at["DataPacketSent"] = t.at["DataPacketSent"]
          /\ s.timers["DataPacketSent"] = t.timers["DataPacketSent"]
      BY <1>1, <2>3, TimerNames, TrafficNames
    <3>. QED  BY <3>1 DEF Marked, NotFarBehind
  <2>. QED  BY <2>1, <2>2, <2>3
<1>9. s.at["DataPacketReceived"] > s.at["PacketSent"] =>
          e /\ s.at["DataPacketReceived"] - s.timers["DataPacketReceived"] <= MaxLag + 1
  <2>1. CASE n = "DataPacketReceived"
    <3>1. s.at["DataPacketReceived"] = clock /\ s.timers["DataPacketReceived"] = s.timers["Current"]
      BY <1>1, <1>3, <2>1, TimerNames, TrafficNames
    <3>2. e = TRUE
      BY <2>1
    <3>. QED  BY <1>7, <3>1, <3>2
  <2>2. CASE n = "PacketSent"
    <3>1. s.at["PacketSent"] = clock /\ s.at["DataPacketReceived"] = t.at["DataPacketReceived"]
      BY <1>1, <2>2, TrafficNames
    <3>. QED  BY <1>2, <1>6, <3>1, TrafficNames
  <2>3. CASE n \notin {"DataPacketReceived", "PacketSent"}
    <3>1. /\ s.at["PacketSent"] = t.at["PacketSent"]
          /\ s.at["DataPacketReceived"] = t.at["DataPacketReceived"]
          /\ s.timers["DataPacketReceived"] = t.timers["DataPacketReceived"]
      BY <1>1, <2>3, TimerNames, TrafficNames
    <3>. QED  BY <3>1 DEF Marked, NotFarBehind
  <2>. QED  BY <2>1, <2>2, <2>3
<1>. QED  BY <1>1, <1>4, <1>5, <1>7, <1>8, <1>9 DEF Marked, NotFarBehind, s

\* The two halves of Noticed.
SentNoticed(t) ==
    /\ t.timers["PacketReceived"] < t.timers["DataPacketSent"]
    /\ t.timers["DataPacketSent"] < t.timers["Current"]
    => t.timers["Current"] - t.timers["PacketReceived"] < KeepaliveTimeout + RekeyTimeout

ReceivedNoticed(t) ==
    /\ t.timers["PacketSent"] < t.timers["DataPacketReceived"]
    /\ t.timers["DataPacketReceived"] < t.timers["Current"]
    => t.timers["Current"] - t.at["PacketSent"] < KeepaliveTimeout

\* Noticed is its two halves.
LEMMA NoticedHalves ==
    ASSUME NEW t
    PROVE  Noticed(t) <=> (~InFlight(t) /\ ~IsExpired(t) => SentNoticed(t) /\ ReceivedNoticed(t))
BY DEF Noticed, SentNoticed, ReceivedNoticed

\* A tick makes nothing due; a packet received settles what was sent, and the reverse.
LEMMA TickNotices ==
    ASSUME NEW t, NEW e \in BOOLEAN, NEW n \in TimerName \ {"Current"}, Marked(t, e), clock \in Nat
    PROVE  LET s == TimerTick(t, n) IN
           /\ SentNoticed(t) \/ n = "PacketReceived" => SentNoticed(s)
           /\ ReceivedNoticed(t) \/ n = "PacketSent" => ReceivedNoticed(s)
           /\ Repeated(t) => Repeated(s)
<1>. DEFINE s == TimerTick(t, n)
<1>0. t \in Tunns
  BY DEF Marked
<1>1. /\ s \in Tunns /\ s.state = t.state
      /\ \A m \in TimerName : s.timers[m] = IF m = n THEN t.timers["Current"] ELSE t.timers[m]
      /\ \A m \in Traffic : s.at[m] = IF m = n THEN clock ELSE t.at[m]
  BY <1>0, TickTimes
<1>. HIDE DEF s
<1>2. (\A m \in TimerName : t.timers[m] \in Nat) /\ (\A m \in Traffic : t.at[m] \in Nat)
  BY <1>0, TimeTypes
<1>3. s.timers["Current"] = t.timers["Current"]
  BY <1>1, TimerNames
<1>4. \A m \in TimerName : t.timers[m] <= t.timers["Current"]
  BY DEF Marked
<1>5. SentNoticed(t) \/ n = "PacketReceived" => SentNoticed(s)
  <2>1. CASE n = "PacketReceived"
    <3>1. s.timers["PacketReceived"] = t.timers["Current"]
          /\ s.timers["DataPacketSent"] = t.timers["DataPacketSent"]
      BY <1>1, <2>1, TimerNames
    <3>. QED  BY <1>2, <1>4, <3>1, TimerNames DEF SentNoticed
  <2>2. CASE n = "DataPacketSent"
    <3>1. s.timers["DataPacketSent"] = s.timers["Current"]
      BY <1>1, <1>3, <2>2, TimerNames
    <3>. QED  BY <1>2, <1>3, <3>1, TimerNames DEF SentNoticed
  <2>3. CASE n \notin {"PacketReceived", "DataPacketSent"}
    <3>1. s.timers["PacketReceived"] = t.timers["PacketReceived"]
          /\ s.timers["DataPacketSent"] = t.timers["DataPacketSent"]
      BY <1>1, <2>3, TimerNames
    <3>. QED  BY <1>3, <2>3, <3>1 DEF SentNoticed
  <2>. QED  BY <2>1, <2>2, <2>3
<1>6. ReceivedNoticed(t) \/ n = "PacketSent" => ReceivedNoticed(s)
  <2>1. CASE n = "PacketSent"
    <3>1. s.timers["PacketSent"] = t.timers["Current"]
          /\ s.timers["DataPacketReceived"] = t.timers["DataPacketReceived"]
      BY <1>1, <2>1, TimerNames
    <3>. QED  BY <1>2, <1>4, <3>1, TimerNames DEF ReceivedNoticed
  <2>2. CASE n = "DataPacketReceived"
    <3>1. s.timers["DataPacketReceived"] = s.timers["Current"]
      BY <1>1, <1>3, <2>2, TimerNames
    <3>. QED  BY <1>2, <1>3, <3>1, TimerNames DEF ReceivedNoticed
  <2>3. CASE n \notin {"PacketSent", "DataPacketReceived"}
    <3>1. /\ s.timers["PacketSent"] = t.timers["PacketSent"] /\ s.at["PacketSent"] = t.at["PacketSent"]
          /\ s.timers["DataPacketReceived"] = t.timers["DataPacketReceived"]
      BY <1>1, <2>3, TimerNames, TrafficNames
    <3>. QED  BY <1>3, <2>3, <3>1 DEF ReceivedNoticed
  <2>. QED  BY <2>1, <2>2, <2>3
<1>7. Repeated(t) => Repeated(s)
  <2>. SUFFICES ASSUME Repeated(t), InFlight(s)
                PROVE  /\ s.timers["Current"] - s.state.time_sent < RekeyTimeout
                       /\ s.state.time_sent <= s.at["PacketSent"]
    BY DEF Repeated
  <2>1. InFlight(t) /\ t.state.time_sent \in Nat
    BY <1>0, <1>1, StateTypes DEF InFlight, Tunns
  <2>2. t.at["PacketSent"] <= clock /\ t.at["PacketSent"] \in Nat
    BY <1>2, TrafficNames DEF Marked, Behind
  <2>3. s.at["PacketSent"] \in {t.at["PacketSent"], clock}
    BY <1>1, TrafficNames
  <2>. QED  BY <1>1, <1>3, <2>1, <2>2, <2>3 DEF Repeated
<1>. QED  BY <1>5, <1>6, <1>7 DEF s

\* A tick keeps all of it.
LEMMA StampedTick ==
    ASSUME NEW t, NEW e \in BOOLEAN, NEW n \in TimerName \ {"Current"}, Stamped(t, e), clock \in Nat,
           e \/ n \notin {"DataPacketSent", "DataPacketReceived"}
    PROVE  Stamped(TimerTick(t, n), e)
<1>. DEFINE s == TimerTick(t, n)
<1>1. Marked(t, e) /\ Noticed(t) /\ Repeated(t) /\ t \in Tunns
  BY DEF Stamped, Marked
<1>2. Marked(s, e)
  BY <1>1, MarkedTick
<1>3. /\ SentNoticed(t) => SentNoticed(s)
      /\ ReceivedNoticed(t) => ReceivedNoticed(s)
      /\ Repeated(s) /\ s.state = t.state
  BY <1>1, TickNotices, TickTimes
<1>. HIDE DEF s
<1>4. Noticed(s)
  BY <1>1, <1>3, NoticedHalves DEF InFlight, IsExpired
<1>. QED  BY <1>2, <1>3, <1>4 DEF Stamped, s

\* timers.clear makes all times the same.
LEMMA ClearMarked ==
    ASSUME NEW t \in Tunns, NEW e, clock \in Nat
    PROVE  Marked(ClearTimers(t), e) /\ ClearTimers(t).state = t.state
<1>. DEFINE c == ClearTimers(t)
<1>1. c \in Tunns /\ c.timers = [n \in TimerName |-> clock] /\ c.state = t.state
  BY ClearFields DEF SameHandshake
<1>2. c.at = [n \in Traffic |-> clock]
  BY DEF ClearTimers, Tunns
<1>. HIDE DEF c
<1>3. (\A n \in TimerName : c.timers[n] = clock) /\ (\A n \in Traffic : c.at[n] = clock)
  BY <1>1, <1>2
<1>4. Behind(c)
  BY <1>3, TrafficNames DEF Behind
<1>5. NotFarBehind(c, e)
  BY <1>3, TimerNames, TrafficNames, TunnelConstants DEF NotFarBehind
<1>6. (\A n \in TimerName : c.timers[n] <= c.timers["Current"]) /\ c.timers["Current"] <= clock
  BY <1>3, TimerNames
<1>. QED  BY <1>1, <1>4, <1>5, <1>6 DEF Marked, c

\* An initiation is a packet sent now.
LEMMA FormatStamped ==
    ASSUME NEW t, NEW e \in BOOLEAN, NEW force \in BOOLEAN, NEW out \in BOOLEAN, Marked(t, e),
           clock \in Nat, InFlight(t) => force
    PROVE  Stamped(FormatInitiation(t, force, out), e)
<1>. DEFINE c == IF IsExpired(t) THEN ClearTimers(t) ELSE t
            h == NextInit(c, out)
            k == IF InFlight(t) THEN h ELSE TimerTick(h, "HandshakeStarted")
            f == FormatInitiation(t, force, out)
<1>0. t \in Tunns
  BY DEF Marked
<1>1. f = TimerTick(k, "PacketSent")
  BY DEF FormatInitiation
<1>2. Marked(c, e) /\ c \in Tunns
  BY <1>0, ClearMarked DEF Marked
<1>. HIDE DEF c
<1>3. h \in Tunns /\ h.timers = c.timers /\ h.state = InitSent(c.next_index + 1, clock, c.key, out)
  BY <1>2, NextInitFields DEF SameTimers
<1>4. h.at = c.at
  BY <1>2 DEF NextInit, Tunns
<1>. HIDE DEF h
<1>5. Marked(h, e)
  BY <1>2, <1>3, <1>4, MarkedFrame
<1>6. Marked(k, e) /\ k \in Tunns /\ k.state = h.state
  <2>1. CASE InFlight(t)
    BY <1>3, <1>5, <2>1
  <2>2. CASE ~InFlight(t)
    <3>1. "HandshakeStarted" \in TimerName \ {"Current"}
          /\ "HandshakeStarted" \notin {"DataPacketSent", "DataPacketReceived"}
      BY TimerNames
    <3>. QED  BY <1>3, <1>5, <2>2, <3>1, MarkedTick, TickTimes
  <2>. QED  BY <2>1, <2>2
<1>. HIDE DEF k
<1>7. "PacketSent" \in TimerName \ {"Current"} /\ "PacketSent" \in Traffic
      /\ "PacketSent" \notin {"DataPacketSent", "DataPacketReceived"}
  BY TimerNames, TrafficNames
<1>8. Marked(f, e) /\ f.state = h.state /\ f.at["PacketSent"] = clock
  BY <1>1, <1>6, <1>7, MarkedTick, TickTimes
<1>. HIDE DEF f
<1>9. f.state.type = "InitSent" /\ f.state.time_sent = clock
  BY <1>3, <1>8 DEF InitSent
<1>10. f.timers["Current"] \in Nat /\ f.timers["Current"] <= clock
  BY <1>8, TimeTypes, TimerNames DEF Marked
<1>11. Noticed(f) /\ Repeated(f)
  BY <1>8, <1>9, <1>10, TunnelConstants DEF Noticed, Repeated, InFlight
<1>. QED  BY <1>8, <1>11 DEF Stamped, f

\* A packet under a session: the peer's address is known.
LEMMA SentStamped ==
    ASSUME NEW t, NEW kind, Stamped(t, TRUE), clock \in Nat
    PROVE  Stamped(Sent(t, kind), TRUE)
<1>. DEFINE s == TimerTick(t, "PacketSent")
<1>1. "PacketSent" \in TimerName \ {"Current"} /\ "DataPacketSent" \in TimerName \ {"Current"}
  BY TimerNames
<1>2. Stamped(s, TRUE)
  BY <1>1, StampedTick
<1>. HIDE DEF s
<1>3. Stamped(TimerTick(s, "DataPacketSent"), TRUE)
  BY <1>1, <1>2, StampedTick
<1>4. Sent(t, kind) = IF kind = "data" THEN TimerTick(s, "DataPacketSent") ELSE s
  BY DEF Sent, s
<1>. QED  BY <1>2, <1>3, <1>4

\* The queue has no part in it.
LEMMA QueueStamped ==
    ASSUME NEW t, NEW e, NEW q \in Seq({"data", "keepalive"})
    PROVE  /\ Stamped(t, e) => Stamped([t EXCEPT !.queue = q], e)
           /\ t \in Tunns => [t EXCEPT !.queue = q].state = t.state
<1>. DEFINE s == [t EXCEPT !.queue = q]
<1>1. ASSUME t \in Tunns
      PROVE  s \in Tunns /\ s.timers = t.timers /\ s.at = t.at /\ s.state = t.state
  BY <1>1 DEF Tunns
<1>2. Stamped(t, e) => t \in Tunns
  BY DEF Stamped, Marked
<1>. HIDE DEF s
<1>3. Stamped(t, e) => Stamped(s, e)
  BY <1>1, <1>2, StampedFrame
<1>. QED  BY <1>1, <1>3 DEF s

\* encapsulate
LEMMA EncapsulateStamped ==
    ASSUME NEW t, NEW kind \in {"data", "keepalive"}, Stamped(t, endpoint), Around,
           HasSession(t) => endpoint
    PROVE  Stamped(Encapsulate(t, kind), endpoint)
<1>0. t \in Tunns /\ clock \in Nat /\ endpoint \in BOOLEAN /\ t.queue \in Seq({"data", "keepalive"})
  BY DEF Stamped, Marked, Around, Tunns
<1>1. CASE HasSession(t)
  <2>1. endpoint = TRUE
    BY <1>0, <1>1
  <2>. QED  BY <1>0, <1>1, <2>1, SentStamped DEF Encapsulate
<1>2. CASE ~HasSession(t)
  <2>. DEFINE q == IF Len(t.queue) < MaxQueue THEN Append(t.queue, kind) ELSE t.queue
              s == [t EXCEPT !.queue = q]
  <2>1. q \in Seq({"data", "keepalive"})
    BY <1>0
  <2>2. QueuePacket(t, kind) = s
    BY DEF QueuePacket
  <2>. HIDE DEF q
  <2>3. Stamped(s, endpoint)
    BY <2>1, QueueStamped
  <2>. HIDE DEF s
  <2>4. CASE InFlight(s)
    BY <1>2, <2>2, <2>3, <2>4 DEF Encapsulate, FormatInitiation
  <2>5. CASE ~InFlight(s)
    <3>1. Marked(s, endpoint)
      BY <2>3 DEF Stamped
    <3>. QED  BY <1>0, <1>2, <2>2, <2>5, <3>1, FormatStamped DEF Encapsulate
  <2>. QED  BY <2>4, <2>5
<1>. QED  BY <1>1, <1>2

\* send_queued_packet
LEMMA FlushStamped ==
    ASSUME NEW t, Stamped(t, TRUE), clock \in Nat
    PROVE  Stamped(Flush(t), TRUE)
<1>0. t \in Tunns /\ t.queue \in Seq({"data", "keepalive"})
  BY DEF Stamped, Marked, Tunns
<1>1. CASE t.queue = <<>>
  BY <1>1 DEF Flush
<1>2. CASE t.queue # <<>> /\ HasSession(t)
  <2>. DEFINE k == Sent(t, "keepalive")
              s == [k EXCEPT !.queue = <<>>]
  <2>1. Stamped(k, TRUE)
    BY SentStamped
  <2>. HIDE DEF k
  <2>2. <<>> \in Seq({"data", "keepalive"})
    OBVIOUS
  <2>3. Stamped(s, TRUE)
    BY <2>1, <2>2, QueueStamped
  <2>4. Flush(t) = IF \E i \in DOMAIN t.queue : t.queue[i] = "data" THEN Sent(s, "data") ELSE s
    BY <1>2 DEF Flush, k
  <2>. HIDE DEF s
  <2>5. Stamped(Sent(s, "data"), TRUE)
    BY <2>3, SentStamped
  <2>. QED  BY <2>3, <2>4, <2>5
<1>3. CASE t.queue # <<>> /\ ~HasSession(t)
  <2>. DEFINE q == IF InFlight(t) THEN Rotated(t.queue) ELSE Rotated(Rotated(t.queue))
              s == [t EXCEPT !.queue = q]
  <2>1. q \in Seq({"data", "keepalive"})
    BY <1>0, <1>3, RotatedQueue
  <2>2. Flush(t) = FormatInitiation(s, FALSE, TRUE)
    BY <1>3 DEF Flush
  <2>. HIDE DEF q
  <2>3. Stamped(s, TRUE)
    BY <2>1, QueueStamped
  <2>. HIDE DEF s
  <2>4. CASE InFlight(s)
    BY <2>2, <2>3, <2>4 DEF FormatInitiation
  <2>5. CASE ~InFlight(s)
    <3>1. Marked(s, TRUE)
      BY <2>3 DEF Stamped
    <3>. QED  BY <2>2, <2>5, <3>1, FormatStamped
  <2>. QED  BY <2>4, <2>5
<1>. QED  BY <1>1, <1>2, <1>3

\* A session is set up.
LEMMA EstablishedStamped ==
    ASSUME NEW t, NEW e \in BOOLEAN, NEW idx \in Nat, NEW b \in BOOLEAN, Stamped(t, e), clock \in Nat
    PROVE  Stamped(Established(t, idx, b), e)
<1>. DEFINE s == TimerTick(t, "SessionEstablished")
            x == Established(t, idx, b)
<1>0. t \in Tunns
  BY DEF Stamped, Marked
<1>1. Stamped(s, e)
  <2>1. "SessionEstablished" \in TimerName \ {"Current"}
        /\ "SessionEstablished" \notin {"DataPacketSent", "DataPacketReceived"}
    BY TimerNames
  <2>. QED  BY <2>1, StampedTick
<1>2. s \in Tunns
  BY <1>1 DEF Stamped, Marked
<1>3. x \in Tunns
  BY <1>0, EstablishedFields DEF Renewal
<1>4. x = [s EXCEPT !.sessions[Slot(idx)] = [local |-> idx, born |-> clock],
                    !.session_timers[Slot(idx)] = t.timers["Current"],
                    !.is_initiator = b]
  BY DEF Established
<1>. HIDE DEF s, x
<1>5. x.timers = s.timers /\ x.at = s.at /\ x.state = s.state
  BY <1>2, <1>4 DEF Tunns
<1>. QED  BY <1>1, <1>3, <1>5, StampedFrame DEF x

\* set_current_session
LEMMA CurrentStamped ==
    ASSUME NEW t, NEW e, NEW idx \in Nat, Stamped(t, e)
    PROVE  Stamped(SetCurrent(t, idx), e)
<1>. DEFINE s == [t EXCEPT !.current = idx]
<1>1. t \in Tunns
  BY DEF Stamped, Marked
<1>2. s \in Tunns /\ s.timers = t.timers /\ s.at = t.at /\ s.state = t.state
  BY <1>1 DEF Tunns
<1>3. SetCurrent(t, idx) = s \/ SetCurrent(t, idx) = t
  BY DEF SetCurrent
<1>. HIDE DEF s
<1>. QED  BY <1>2, <1>3, StampedFrame

\* From the invariant and back.
LEMMA FromTraced == TracedInv => Stamped(tunn, endpoint)
<1>. SUFFICES ASSUME TracedInv PROVE Stamped(tunn, endpoint)
  OBVIOUS
<1>1. IInv /\ Behind(tunn) /\ NotFarBehind(tunn, endpoint) /\ Noticed(tunn) /\ Repeated(tunn)
  BY DEF TracedInv
<1>2. TimersOK(tunn) /\ tunn \in Tunns
  BY <1>1, FromIInv DEF BaseOK
<1>. QED  BY <1>1, <1>2 DEF Stamped, Marked, TimersOK

\* A handler takes no time: the invariant of the next state.
LEMMA CarryTraced ==
    ASSUME NEW x, NEW e, tunn' = x, clock' = clock, endpoint' = e, Stamped(x, e), IInv'
    PROVE  TracedInv'
<1>1. Behind(tunn)' /\ NotFarBehind(tunn, endpoint)'
  BY DEF Stamped, Marked, Behind, NotFarBehind
<1>2. Noticed(tunn)' /\ Repeated(tunn)'
  BY DEF Stamped, Noticed, Repeated, InFlight, IsExpired
<1>. QED  BY <1>1, <1>2 DEF TracedInv

\* A peer without an address has no session.
LEMMA SessionReached == IInv /\ HasSession(tunn) => endpoint
<1>1. IInv => Slot(tunn.current) \in Slots
  BY FromIInv, SlotIn DEF Tunns
<1>. QED  BY <1>1, FromIInv DEF HasSession, Reached

\* A packet from the host.
LEMMA SendPacketTraced == TracedInv /\ SendPacket => TracedInv'
<1>. SUFFICES ASSUME TracedInv, SendPacket PROVE TracedInv'
  OBVIOUS
<1>1. IInv /\ IInv'
  BY SendPacketOK DEF TracedInv
<1>2. Stamped(Encapsulate(tunn, "data"), endpoint)
  BY <1>1, FromTraced, FromIInv, SessionReached, EncapsulateStamped
<1>. QED  BY <1>1, <1>2, CarryTraced DEF SendPacket

\* An initiation of the peer: a packet received and a packet sent.
LEMMA ReceiveInitTraced == TracedInv /\ ReceiveInit => TracedInv'
<1>. SUFFICES ASSUME TracedInv, ReceiveInit PROVE TracedInv'
  OBVIOUS
<1>. DEFINE idx == tunn.next_index + 1
            t == [tunn EXCEPT !.next_index = idx, !.previous = tunn.state, !.state = Idle]
            r == TimerTick(t, "PacketReceived")
            p == TimerTick(r, "PacketSent")
            s == Established(p, idx, FALSE)
<1>0. IInv /\ IInv' /\ clock \in Nat /\ endpoint \in BOOLEAN /\ tunn \in Tunns
  BY ReceiveInitOK, FromIInv DEF TracedInv, Around
<1>1. tunn' = Flush(s) /\ endpoint' = TRUE /\ clock' = clock
  BY DEF ReceiveInit
<1>2. idx \in Nat /\ tunn.state \in HandshakeStates
  BY <1>0 DEF Tunns
<1>. HIDE DEF idx
<1>3. t \in Tunns /\ t.timers = tunn.timers /\ t.at = tunn.at /\ t.state.type = "None"
  <2>. DEFINE i == Idle
  <2>1. i \in HandshakeStates /\ i.type = "None"
    BY StateTypes DEF Idle
  <2>. HIDE DEF i
  <2>. DEFINE u == [tunn EXCEPT !.next_index = idx, !.previous = tunn.state, !.state = i]
  <2>2. u \in Tunns /\ u.timers = tunn.timers /\ u.at = tunn.at /\ u.state = i
    BY <1>0, <1>2, <2>1 DEF Tunns
  <2>. QED  BY <2>1, <2>2 DEF i
<1>. HIDE DEF t
<1>4. Marked(t, endpoint)
  BY <1>3, FromTraced, MarkedFrame DEF Stamped
<1>5. /\ "PacketReceived" \in TimerName \ {"Current"} /\ "PacketSent" \in TimerName \ {"Current"}
      /\ "PacketReceived" \notin {"DataPacketSent", "DataPacketReceived"}
      /\ "PacketSent" \notin {"DataPacketSent", "DataPacketReceived"}
      /\ "PacketReceived" \in Traffic /\ "PacketSent" \in Traffic
  BY TimerNames, TrafficNames
<1>6. /\ Marked(r, endpoint) /\ SentNoticed(r) /\ r.state = t.state
      /\ r.at["PacketReceived"] = clock /\ r \in Tunns
  BY <1>0, <1>3, <1>4, <1>5, MarkedTick, TickNotices, TickTimes
<1>. HIDE DEF r
<1>7. /\ Marked(p, endpoint) /\ SentNoticed(p) /\ ReceivedNoticed(p) /\ p.state = t.state
      /\ p.at["PacketReceived"] = clock /\ p.at["PacketSent"] = clock /\ p \in Tunns
  <2>1. Marked(p, endpoint) /\ SentNoticed(p) /\ ReceivedNoticed(p)
    BY <1>0, <1>5, <1>6, MarkedTick, TickNotices
  <2>2. p.state = r.state /\ p \in Tunns /\ p.at["PacketSent"] = clock
        /\ p.at["PacketReceived"] = r.at["PacketReceived"]
    BY <1>0, <1>5, <1>6, TickTimes
  <2>. QED  BY <1>6, <2>1, <2>2
<1>. HIDE DEF p
<1>8. Stamped(p, TRUE)
  <2>1. Behind(p) /\ \A n \in Traffic : p.at[n] \in Nat
    BY <1>7, TimeTypes DEF Marked
  <2>2. NotFarBehind(p, TRUE)
    BY <1>0, <1>7, <2>1, TrafficNames DEF NotFarBehind, Behind
  <2>3. Noticed(p) /\ Repeated(p)
    BY <1>3, <1>7, NoticedHalves DEF Repeated, InFlight
  <2>. QED  BY <1>7, <2>2, <2>3 DEF Stamped, Marked
<1>9. Stamped(Flush(s), TRUE)
  BY <1>0, <1>2, <1>8, EstablishedStamped, FlushStamped
<1>. QED  BY <1>0, <1>1, <1>9, CarryTraced

\* After a response the tunnel goes on from stamps that are in order.
LEMMA RespondedStamped ==
    ASSUME NEW u, NEW idx \in Nat, Marked(u, TRUE), clock \in Nat,
           ~InFlight(u) /\ ~IsExpired(u) => ReceivedNoticed(u), Repeated(u)
    PROVE  Stamped(Flush(SetCurrent(Established(TimerTick(u, "PacketReceived"), idx, TRUE), idx)), TRUE)
<1>. DEFINE r == TimerTick(u, "PacketReceived")
<1>0. u \in Tunns /\ "PacketReceived" \in TimerName \ {"Current"}
  BY TimerNames DEF Marked
<1>1. /\ Marked(r, TRUE) /\ SentNoticed(r) /\ (ReceivedNoticed(u) => ReceivedNoticed(r))
      /\ Repeated(r) /\ r.state = u.state
  BY <1>0, MarkedTick, TickNotices, TickTimes
<1>. HIDE DEF r
<1>2. Stamped(r, TRUE)
  BY <1>1, NoticedHalves DEF Stamped, InFlight, IsExpired
<1>3. Stamped(Established(r, idx, TRUE), TRUE)
  BY <1>2, EstablishedStamped
<1>4. Stamped(SetCurrent(Established(r, idx, TRUE), idx), TRUE)
  BY <1>3, CurrentStamped
<1>. QED  BY <1>4, FlushStamped DEF r

\* A response ends the wait for it, which was never long enough to owe a keepalive.
LEMMA ReceiveResponseTraced == TracedInv /\ ReceiveResponse => TracedInv'
<1>. SUFFICES ASSUME TracedInv, ReceiveResponse PROVE TracedInv'
  OBVIOUS
<1>0. IInv /\ IInv' /\ clock \in Nat /\ tunn \in Tunns /\ Stamped(tunn, endpoint)
  BY ReceiveResponseOK, FromIInv, FromTraced DEF TracedInv, Around
<1>1. CASE ReceiveResponseTo("state")
  <2>. DEFINE u == [tunn EXCEPT !.state = Idle]
              idx == tunn.state.local_index
              s == SetCurrent(Established(TimerTick(u, "PacketReceived"), idx, TRUE), idx)
  <2>1. Answerable(tunn.state) /\ tunn' = Flush(s) /\ UNCHANGED <<endpoint, clock>>
    BY <1>1 DEF ReceiveResponseTo
  <2>2. Matched(u) /\ idx \in Nat /\ endpoint = TRUE
    BY <1>0, <2>1, MatchState
  <2>3. u \in Tunns /\ u.timers = tunn.timers /\ u.at = tunn.at /\ u.state.type = "None"
    <3>1. u \in Tunns
      BY <2>2 DEF Matched
    <3>2. u.timers = tunn.timers /\ u.at = tunn.at /\ u.state = Idle
      BY <1>0 DEF Tunns
    <3>. QED  BY <3>1, <3>2 DEF Idle
  <2>. HIDE DEF u, idx
  <2>4. Marked(u, TRUE)
    BY <1>0, <2>2, <2>3, MarkedFrame DEF Stamped
  <2>5. ReceivedNoticed(u)
    <3>1. InFlight(tunn)
      BY <2>1 DEF Answerable, InFlight
    <3>2. tunn.timers["Current"] - tunn.state.time_sent < RekeyTimeout
          /\ tunn.state.time_sent <= tunn.at["PacketSent"]
      BY <1>0, <3>1 DEF Stamped, Repeated
    <3>3. tunn.state.time_sent \in Nat /\ tunn.timers["Current"] \in Nat /\ tunn.at["PacketSent"] \in Nat
      BY <1>0, <3>1, StateTypes, TimeTypes, TimerNames, TrafficNames DEF InFlight, Tunns
    <3>4. u.timers["Current"] - u.at["PacketSent"] < KeepaliveTimeout
      BY <2>3, <3>2, <3>3, TunnelConstants
    <3>. QED  BY <3>4 DEF ReceivedNoticed
  <2>6. Repeated(u)
    BY <2>3 DEF Repeated, InFlight
  <2>7. Stamped(Flush(s), TRUE)
    BY <1>0, <2>2, <2>4, <2>5, <2>6, RespondedStamped
  <2>. HIDE DEF s
  <2>. QED  BY <1>0, <2>1, <2>2, <2>7, CarryTraced
<1>2. CASE ReceiveResponseTo("previous")
  <2>. DEFINE u == [tunn EXCEPT !.previous = Idle]
              idx == tunn.previous.local_index
              s == SetCurrent(Established(TimerTick(u, "PacketReceived"), idx, TRUE), idx)
  <2>1. Answerable(tunn.previous) /\ tunn' = Flush(s) /\ UNCHANGED <<endpoint, clock>>
    BY <1>2 DEF ReceiveResponseTo
  <2>2. Matched(u) /\ idx \in Nat /\ endpoint = TRUE
    BY <1>0, <2>1, MatchPrevious
  <2>3. u \in Tunns /\ u.timers = tunn.timers /\ u.at = tunn.at /\ u.state = tunn.state
    <3>1. u \in Tunns
      BY <2>2 DEF Matched
    <3>2. u.timers = tunn.timers /\ u.at = tunn.at /\ u.state = tunn.state
      BY <1>0 DEF Tunns
    <3>. QED  BY <3>1, <3>2
  <2>. HIDE DEF u, idx
  <2>4. Stamped(u, TRUE)
    BY <1>0, <2>2, <2>3, StampedFrame
  <2>5. Marked(u, TRUE) /\ Repeated(u) /\ (~InFlight(u) /\ ~IsExpired(u) => ReceivedNoticed(u))
    BY <2>4, NoticedHalves DEF Stamped
  <2>6. Stamped(Flush(s), TRUE)
    BY <1>0, <2>2, <2>5, RespondedStamped
  <2>. HIDE DEF s
  <2>. QED  BY <1>0, <2>1, <2>2, <2>6, CarryTraced
<1>. QED  BY <1>1, <1>2 DEF ReceiveResponse

\* A packet of the peer.
LEMMA ReceiveDataTraced ==
    ASSUME TracedInv, NEW i \in Slots, NEW kind, ReceiveData(i, kind)
    PROVE  TracedInv'
<1>. DEFINE idx == tunn.sessions[i].local
            c == SetCurrent(tunn, idx)
            r == TimerTick(c, "PacketReceived")
            d == TimerTick(r, "DataPacketReceived")
<1>0. IInv /\ IInv' /\ clock \in Nat /\ tunn \in Tunns /\ Stamped(tunn, endpoint)
  BY ReceiveDataOK, FromIInv, FromTraced DEF TracedInv, Around
<1>1. /\ tunn.sessions[i] # None /\ tunn' = IF kind = "data" THEN d ELSE r
      /\ UNCHANGED <<endpoint, clock>>
  BY DEF ReceiveData
<1>2. endpoint = TRUE /\ idx \in Nat
  <2>1. endpoint = TRUE
    BY <1>0, <1>1, HeardOK
  <2>2. tunn.sessions[i] \in [local : Nat, born : Nat]
    BY <1>0, <1>1 DEF Tunns
  <2>. QED  BY <2>1, <2>2
<1>. HIDE DEF idx
<1>3. Stamped(c, TRUE)
  BY <1>0, <1>2, CurrentStamped
<1>. HIDE DEF c
<1>4. Stamped(r, TRUE)
  BY <1>0, <1>3, StampedTick, TimerNames
<1>. HIDE DEF r
<1>5. Stamped(d, TRUE)
  BY <1>0, <1>4, StampedTick, TimerNames
<1>. HIDE DEF d
<1>6. CASE kind = "data"
  BY <1>0, <1>1, <1>2, <1>5, <1>6, CarryTraced
<1>7. CASE kind # "data"
  BY <1>0, <1>1, <1>2, <1>4, <1>7, CarryTraced
<1>. QED  BY <1>6, <1>7

\* A cookie reply.
LEMMA ReceiveCookieTraced == TracedInv /\ ReceiveCookie => TracedInv'
<1>. SUFFICES ASSUME TracedInv, ReceiveCookie PROVE TracedInv'
  OBVIOUS
<1>0. IInv /\ IInv' /\ clock \in Nat /\ endpoint \in BOOLEAN /\ Stamped(tunn, endpoint)
  BY ReceiveCookieOK, FromIInv, FromTraced DEF TracedInv, Around
<1>1. tunn' = TimerTick(tunn, "PacketReceived") /\ UNCHANGED <<endpoint, clock>>
  BY DEF ReceiveCookie
<1>2. "PacketReceived" \in TimerName \ {"Current"}
      /\ "PacketReceived" \notin {"DataPacketSent", "DataPacketReceived"}
  BY TimerNames
<1>3. Stamped(TimerTick(tunn, "PacketReceived"), endpoint)
  BY <1>0, <1>2, StampedTick
<1>. QED  BY <1>0, <1>1, <1>3, CarryTraced

\* A new static key touches no time.
LEMMA SetKeyTraced == TracedInv /\ SetKey => TracedInv'
<1>. SUFFICES ASSUME TracedInv, SetKey PROVE TracedInv'
  OBVIOUS
<1>0. IInv /\ IInv' /\ tunn \in Tunns /\ Stamped(tunn, endpoint)
  BY SetKeyOK, FromIInv, FromTraced DEF TracedInv
<1>. DEFINE none == [i \in Slots |-> None]
            s == [tunn EXCEPT !.key = 1, !.sessions = none]
<1>1. tunn' = s /\ UNCHANGED <<endpoint, clock>>
  BY DEF SetKey
<1>2. none \in [Slots -> [local : Nat, born : Nat] \cup {None}]
  OBVIOUS
<1>. HIDE DEF none
<1>3. s \in Tunns /\ s.timers = tunn.timers /\ s.at = tunn.at /\ s.state = tunn.state
  BY <1>0, <1>2 DEF Tunns
<1>. HIDE DEF s
<1>4. Stamped(s, endpoint)
  BY <1>0, <1>3, StampedFrame
<1>. QED  BY <1>0, <1>1, <1>4, CarryTraced

\* What is settled by the stamps is noticed in true time as well.
LEMMA SettledNoticed ==
    ASSUME NEW t, NEW e, Marked(t, e), Settled(t)
    PROVE  Noticed(t)
<1>1. /\ t.timers["Current"] \in Nat /\ t.timers["PacketSent"] \in Nat /\ t.at["PacketSent"] \in Nat
      /\ t.timers["PacketSent"] <= t.at["PacketSent"]
  BY TimeTypes, TimerNames, TrafficNames DEF Marked, Behind
<1>2. ~InFlight(t) /\ ~IsExpired(t) => SentNoticed(t)
  BY DEF Settled, SentNoticed
<1>3. ~InFlight(t) /\ ~IsExpired(t) => ReceivedNoticed(t)
  BY <1>1, TunnelConstants DEF Settled, ReceivedNoticed
<1>. QED  BY <1>2, <1>3, NoticedHalves

\* The start of update_timers.
LEMMA RenewedMarked ==
    ASSUME TracedInv
    PROVE  Marked(Renewed, endpoint) /\ Renewed.state = tunn.state /\ Renewed.at = tunn.at
<1>. DEFINE r == Renewed
<1>0. IInv /\ clock \in Nat /\ tunn \in Tunns /\ Stamped(tunn, endpoint)
  BY FromIInv, FromTraced DEF TracedInv, Around
<1>1. r \in Tunns /\ r.state = tunn.state /\ r.timers = [tunn.timers EXCEPT !["Current"] = clock]
  BY <1>0, RenewedFields DEF SameHandshake
<1>2. r.at = tunn.at
  BY <1>0 DEF Renewed, Tunns
<1>. HIDE DEF r
<1>3. tunn.timers \in [TimerName -> Nat]
  BY <1>0 DEF Tunns
<1>4. r.timers["Current"] = clock /\ \A m \in TimerName \ {"Current"} : r.timers[m] = tunn.timers[m]
  BY <1>1, <1>3, TimerNames
<1>5. \A m \in TimerName : r.timers[m] <= clock
  <2>1. \A m \in TimerName : tunn.timers[m] <= tunn.timers["Current"]
        /\ tunn.timers["Current"] <= clock /\ tunn.timers[m] \in Nat /\ tunn.timers["Current"] \in Nat
    BY <1>0, <1>3, TimerNames DEF Stamped, Marked
  <2>. QED  BY <1>0, <1>4, <2>1
<1>6. Behind(r)
  BY <1>0, <1>2, <1>4, TrafficNames DEF Stamped, Marked, Behind
<1>7. NotFarBehind(r, endpoint)
  BY <1>0, <1>2, <1>4, TimerNames, TunnelConstants DEF Stamped, Marked, NotFarBehind
<1>. QED  BY <1>0, <1>1, <1>2, <1>4, <1>5, <1>6, <1>7 DEF Marked, r

\* update_timers
LEMMA UpdateTimersTraced == TracedInv /\ UpdateTimers => TracedInv'
<1>. SUFFICES ASSUME TracedInv, UpdateTimers PROVE TracedInv'
  OBVIOUS
<1>. DEFINE r == Renewed
            x == Timers(r)
<1>0. IInv /\ IInv' /\ clock \in Nat /\ Stamped(tunn, endpoint) /\ Around
  BY UpdateTimersOK, FromIInv, FromTraced DEF TracedInv, Around
<1>1. endpoint = TRUE /\ tunn' = x /\ UNCHANGED <<endpoint, clock>>
  BY <1>0 DEF UpdateTimers, Around
<1>2. Settled(x)
  BY <1>0, <1>1, TimersStep
<1>3. Marked(r, TRUE) /\ r.state = tunn.state /\ r.at = tunn.at /\ r \in Tunns
  BY <1>1, RenewedMarked DEF Marked
<1>. HIDE DEF r
<1>4. Marked(x, TRUE) /\ Repeated(x)
  <2>1. CASE IsExpired(r)
    <3>1. x = r /\ ~InFlight(r)
      BY <2>1 DEF Timers, IsExpired, InFlight
    <3>. QED  BY <1>3, <3>1 DEF Repeated
  <2>2. CASE ~IsExpired(r) /\ (ConnectionOld(r) \/ AttemptOld(r))
    <3>. DEFINE e == Expired
                none == [i \in Slots |-> None]
                q == <<>>
                s == [r EXCEPT !.state = e, !.previous = e, !.sessions = none, !.queue = q]
    <3>1. x = ClearTimers(s)
      BY <2>2 DEF Timers, GiveUp
    <3>2. e \in HandshakeStates /\ e.type = "Expired" /\ q \in Seq({"data", "keepalive"})
          /\ none \in [Slots -> [local : Nat, born : Nat] \cup {None}]
      BY StateTypes
    <3>. HIDE DEF e, none, q
    <3>3. s \in Tunns /\ s.state = e
      BY <1>3, <3>2 DEF Tunns
    <3>. HIDE DEF s
    <3>4. Marked(x, TRUE) /\ x.state = e
      BY <1>0, <3>1, <3>3, ClearMarked
    <3>. QED  BY <3>2, <3>4 DEF Repeated, InFlight
  <2>. DEFINE Resend == Unanswered(r) \/ (~InFlight(r) /\ (RekeyDue(r) \/ PeerSilent(r)))
  <2>3. CASE ~IsExpired(r) /\ ~(ConnectionOld(r) \/ AttemptOld(r)) /\ Resend
    <3>1. x = FormatInitiation(r, TRUE, endpoint)
      BY <2>3 DEF Timers
    <3>. QED  BY <1>0, <1>1, <1>3, <3>1, FormatStamped DEF Stamped
  <2>4. CASE ~IsExpired(r) /\ ~(ConnectionOld(r) \/ AttemptOld(r)) /\ ~Resend /\ InFlight(r)
    <3>1. x = r
      BY <2>4 DEF Timers
    <3>2. r.state.time_sent \in Nat /\ r.timers["Current"] \in Nat
      BY <1>3, <2>4, StateTypes, TimeTypes, TimerNames DEF InFlight, Tunns
    <3>3. clock - r.state.time_sent < RekeyTimeout
      BY <1>0, <2>4, <3>2, TunnelConstants DEF Unanswered
    <3>4. r.state.time_sent <= r.at["PacketSent"]
      BY <1>0, <1>3, <2>4 DEF Stamped, Repeated, InFlight
    <3>5. r.timers["Current"] <= clock
      BY <1>3 DEF Marked
    <3>6. r.timers["Current"] - r.state.time_sent < RekeyTimeout
      BY <1>0, <3>2, <3>3, <3>5, TunnelConstants
    <3>7. Repeated(r)
      BY <3>4, <3>6 DEF Repeated
    <3>. QED  BY <1>3, <3>1, <3>7
  <2>5. CASE ~IsExpired(r) /\ ~(ConnectionOld(r) \/ AttemptOld(r)) /\ ~Resend /\ ~InFlight(r)
    <3>1. CASE ~PersistentDue(r) /\ ~KeepaliveDue(r)
      <4>1. x = r
        BY <2>5, <3>1 DEF Timers
      <4>. QED  BY <1>3, <2>5, <4>1 DEF Repeated
    <3>2. CASE PersistentDue(r) \/ KeepaliveDue(r)
      <4>. DEFINE p == IF PersistentDue(r) THEN TimerTick(r, "PersistentKeepalive") ELSE r
      <4>1. x = Encapsulate(p, "keepalive")
        BY <2>5, <3>2 DEF Timers
      <4>2. Marked(p, TRUE) /\ p.state = r.state /\ p \in Tunns
        BY <1>0, <1>3, MarkedTick, TickTimes, TimerNames
      <4>. HIDE DEF p
      <4>3. CASE HasSession(p)
        <5>1. x = TimerTick(p, "PacketSent")
          BY <4>1, <4>3 DEF Encapsulate, Sent
        <5>2. Marked(TimerTick(p, "PacketSent"), TRUE) /\ TimerTick(p, "PacketSent").state = r.state
          <6>1. "PacketSent" \in TimerName \ {"Current"}
            BY TimerNames
          <6>. QED  BY <1>0, <4>2, <6>1, MarkedTick, TickTimes
        <5>3. r.state.type # "InitSent"
          BY <2>5 DEF InFlight
        <5>. HIDE DEF x
        <5>4. Marked(x, TRUE) /\ x.state = r.state
          BY <5>1, <5>2
        <5>. QED  BY <5>3, <5>4 DEF Repeated, InFlight
      <4>4. CASE ~HasSession(p)
        <5>. DEFINE q == IF Len(p.queue) < MaxQueue THEN Append(p.queue, "keepalive") ELSE p.queue
                    s == [p EXCEPT !.queue = q]
        <5>1. q \in Seq({"data", "keepalive"})
          BY <4>2 DEF Tunns
        <5>2. x = FormatInitiation(s, FALSE, endpoint)
          BY <4>1, <4>4 DEF Encapsulate, QueuePacket
        <5>. HIDE DEF q
        <5>3. s \in Tunns /\ s.timers = p.timers /\ s.at = p.at /\ s.state = p.state
          BY <4>2, <5>1 DEF Tunns
        <5>. HIDE DEF s
        <5>4. Marked(s, TRUE) /\ ~InFlight(s)
          BY <2>5, <4>2, <5>3, MarkedFrame DEF InFlight
        <5>. QED  BY <1>0, <1>1, <5>2, <5>4, FormatStamped DEF Stamped
      <4>. QED  BY <4>3, <4>4
    <3>. QED  BY <3>1, <3>2
  <2>. QED  BY <2>1, <2>2, <2>3, <2>4, <2>5
<1>. HIDE DEF x
<1>5. Stamped(x, TRUE)
  BY <1>2, <1>4, SettledNoticed DEF Stamped
<1>. QED  BY <1>0, <1>1, <1>5, CarryTraced

\* Time passes.
LEMMA TickTraced == TracedInv /\ Tick => TracedInv'
<1>. SUFFICES ASSUME TracedInv, Tick PROVE TracedInv'
  OBVIOUS
<1>0. IInv /\ IInv' /\ clock \in Nat /\ tunn \in Tunns /\ Stamped(tunn, endpoint)
  BY TickOK, FromIInv, FromTraced DEF TracedInv, Around
<1>1. clock' = clock + 1 /\ UNCHANGED <<tunn, endpoint>>
      /\ (endpoint => clock - tunn.timers["Current"] <= (IF prompt THEN 0 ELSE MaxLag))
  BY DEF Tick
<1>2. (\A n \in TimerName : tunn.timers[n] \in Nat) /\ (\A n \in Traffic : tunn.at[n] \in Nat)
  BY <1>0, TimeTypes
<1>3. endpoint => clock' - tunn.timers["Current"] <= MaxLag + 1
  BY <1>0, <1>1, <1>2, TimerNames, TunnelConstants
<1>4. Behind(tunn)'
  BY <1>0, <1>1, <1>2 DEF Stamped, Marked, Behind
<1>5. NotFarBehind(tunn, endpoint)'
  BY <1>0, <1>1, <1>3 DEF Stamped, Marked, NotFarBehind
<1>6. Noticed(tunn)' /\ Repeated(tunn)'
  BY <1>0, <1>1 DEF Stamped, Noticed, Repeated, InFlight, IsExpired
<1>. QED  BY <1>0, <1>4, <1>5, <1>6 DEF TracedInv

\* A new tunnel satisfies it.
LEMMA InitTraced == Init => TracedInv
<1>. SUFFICES ASSUME Init PROVE TracedInv
  OBVIOUS
<1>1. PICK interval \in Keepalives : tunn = NewTunn(interval)
  BY DEF Init
<1>2. /\ tunn.state = Idle /\ (\A n \in TimerName : tunn.timers[n] = 0)
      /\ \A n \in Traffic : tunn.at[n] = 0
  BY <1>1, NewTunnOK, TunnelConstants
<1>3. clock = 0 /\ ~InFlight(tunn)
  BY <1>2, StateTypes DEF Init, InFlight
<1>4. Behind(tunn) /\ NotFarBehind(tunn, endpoint)
  BY <1>2, <1>3, TimerNames, TrafficNames, TunnelConstants DEF Behind, NotFarBehind
<1>5. Noticed(tunn) /\ Repeated(tunn)
  BY <1>2, <1>3, TimerNames, TrafficNames, TunnelConstants DEF Noticed, Repeated
<1>. QED  BY <1>4, <1>5, InitOK DEF TracedInv

\* Every step keeps the true times in order.
LEMMA TracedInductive == TracedInv /\ [Next]_vars => TracedInv'
<1>. SUFFICES ASSUME TracedInv, [Next]_vars PROVE TracedInv'
  OBVIOUS
<1>1. CASE UNCHANGED vars
  <2>1. IInv'
    BY <1>1, Inductive DEF TracedInv
  <2>. QED  BY <1>1, <2>1 DEF vars, TracedInv, Behind, NotFarBehind, Noticed, Repeated, InFlight, IsExpired
<1>2. ASSUME NEW i \in Slots, NEW kind \in {"keepalive", "data", "nonsense"}, ReceiveData(i, kind)
      PROVE  TracedInv'
  BY <1>2, ReceiveDataTraced
<1>. QED  BY <1>1, <1>2, SendPacketTraced, ReceiveInitTraced, ReceiveResponseTraced,
             ReceiveCookieTraced, SetKeyTraced, UpdateTimersTraced, TickTraced DEF Next

------------------------------------------------------------------------------
(* Theorems *)

\* Packets wait in the queue only while a handshake of this side is in flight
\* (queue_packet, send_queued_packet, clear_all).
THEOREM QueueIsAwaited == Spec => []QueueAwaitsHandshake
<1>1. ASSUME IInv PROVE QueueAwaitsHandshake
  <2>1. tunn.timers \in [TimerName -> Nat] /\ tunn.session_timers \in [Slots -> Nat] /\ clock \in Nat
    BY <1>1, FromIInv DEF Tunns, Around
  <2>2. ASSUME NEW n \in TimerName PROVE tunn.timers[n] \in 0 .. clock
    BY <1>1, <2>1, FromIInv, TimerNames DEF BaseOK, TimersOK
  <2>3. ASSUME NEW i \in Slots PROVE tunn.session_timers[i] \in 0 .. clock
    BY <1>1, <2>1, FromIInv, TimerNames DEF BaseOK, TimersOK, SlotTimersOK
  <2>4. tunn.timers \in [TimerName -> 0 .. clock] /\ tunn.session_timers \in [Slots -> 0 .. clock]
    BY <2>1, <2>2, <2>3
  <2>5. InFlight(tunn) => tunn.state.time_sent <= clock
    BY <1>1, FromIInv DEF BaseOK, StatesOK
  <2>6. \A i \in Slots : tunn.sessions[i] # None => Slot(tunn.sessions[i].local) = i
    BY <1>1, FromIInv DEF BaseOK, RingOK
  <2>7. Len(tunn.queue) <= MaxQueue /\ (tunn.queue # <<>> => InFlight(tunn))
    BY <1>1, FromIInv DEF QueueOK
  <2>. QED  BY <1>1, <2>4, <2>5, <2>6, <2>7 DEF QueueAwaitsHandshake, TypeOK, IInv
<1>. QED  BY <1>1, InitOK, Inductive, PTL DEF Spec

\* No session outlives REJECT_AFTER_TIME by more than the timers' delay, whenever it was
\* set up and whatever was lost (update_session_timers).
THEOREM KeysAreRetired == Spec => []KeysRetired
<1>1. ASSUME IInv PROVE KeysRetired
  <2>1. /\ tunn.timers["Current"] \in Nat /\ tunn.timers["SessionEstablished"] \in Nat /\ clock \in Nat
        /\ tunn.session_timers \in [Slots -> Nat] /\ Slot(tunn.current) \in Slots
        /\ tunn.sessions \in [Slots -> [local : Nat, born : Nat] \cup {None}]
    BY <1>1, FromIInv, TimerNames, SlotIn DEF Tunns, Around
  <2>2. ASSUME NEW i \in Slots, tunn.sessions[i] # None
        PROVE  clock - tunn.sessions[i].born <= RejectAfter + MaxLag + 1
    <3>1. tunn.sessions[i].born \in Nat
      BY <2>1, <2>2
    <3>2. /\ tunn.session_timers[i] <= tunn.sessions[i].born
          /\ tunn.timers["Current"] - tunn.session_timers[i] <= RejectAfter
          /\ clock - tunn.timers["Current"] <= MaxLag + 1 \/ tunn.sessions[i].born = clock
      BY <1>1, <2>2, FromIInv DEF BaseOK, RingOK
    <3>. QED  BY <2>1, <3>1, <3>2, TunnelConstants
  <2>3. ASSUME configured, HasSession(tunn)
        PROVE  Since(tunn, "SessionEstablished") <= RejectAfter + MaxLag + 1
    <3>. DEFINE c == Slot(tunn.current)
    <3>1. /\ tunn.session_timers[c] <= tunn.timers["SessionEstablished"]
          /\ tunn.timers["Current"] - tunn.session_timers[c] <= RejectAfter
      BY <1>1, <2>1, <2>3, FromIInv DEF BaseOK, RingOK, HasSession
    <3>2. clock - tunn.timers["Current"] <= MaxLag + 1
      BY <1>1, <2>3, FromIInv DEF BaseOK, LagOK
    <3>3. tunn.session_timers[c] \in Nat
      BY <2>1
    <3>. HIDE DEF c
    <3>. QED  BY <2>1, <3>1, <3>2, <3>3, TunnelConstants DEF Since
  <2>. QED  BY <2>2, <2>3 DEF KeysRetired
<1>. QED  BY <1>1, InitOK, Inductive, PTL DEF Spec

\* In true time no silence goes unnoticed that begins more than the timers' delay after
\* the last packet the other way, for all values of the timeouts and however late the
\* timers run (timer_tick, update_timers).
THEOREM SilenceIsNoticed == Spec => []SilenceNoticed
<1>1. ASSUME TracedInv PROVE SilenceNoticed
  <2>. DEFINE late == MaxLag + 1
  <2>0. IInv /\ tunn \in Tunns /\ clock \in Nat /\ Stamped(tunn, endpoint) /\ late \in Nat
    BY <1>1, FromIInv, FromTraced, TunnelConstants DEF TracedInv, Around
  <2>1. (\A n \in TimerName : tunn.timers[n] \in Nat) /\ (\A n \in Traffic : tunn.at[n] \in Nat)
    BY <2>0, TimeTypes
  <2>2. \A n \in Traffic : tunn.timers[n] <= tunn.at[n] /\ tunn.at[n] <= clock
    BY <2>0 DEF Stamped, Marked, Behind
  <2>3. Noticed(tunn) /\ NotFarBehind(tunn, endpoint)
    BY <2>0 DEF Stamped, Marked
  <2>. SUFFICES ASSUME ~InFlight(tunn), ~IsExpired(tunn)
                PROVE  /\ Unsettled("PacketReceived", "DataPacketSent", late) =>
                             clock - tunn.at["PacketReceived"] <= KeepaliveTimeout + RekeyTimeout + late
                       /\ Unsettled("PacketSent", "DataPacketReceived", late) =>
                             clock - tunn.at["PacketSent"] <= KeepaliveTimeout + late
    BY <2>0, TunnelConstants DEF SilenceNoticed, NoSilenceAfter
  <2>4. SentNoticed(tunn) /\ ReceivedNoticed(tunn)
    BY <2>3, NoticedHalves
  <2>5. ASSUME Unsettled("PacketReceived", "DataPacketSent", late)
        PROVE  clock - tunn.at["PacketReceived"] <= KeepaliveTimeout + RekeyTimeout + late
    <3>1. tunn.at["DataPacketSent"] - tunn.at["PacketReceived"] > late
          /\ clock - tunn.at["DataPacketSent"] > late
      BY <2>5 DEF Unsettled
    <3>2. /\ tunn.at["DataPacketSent"] \in Nat /\ tunn.at["PacketReceived"] \in Nat
          /\ tunn.timers["DataPacketSent"] \in Nat /\ tunn.timers["PacketReceived"] \in Nat
          /\ tunn.timers["Current"] \in Nat
          /\ tunn.timers["DataPacketSent"] <= tunn.at["DataPacketSent"]
          /\ tunn.timers["PacketReceived"] <= tunn.at["PacketReceived"]
      BY <2>1, <2>2, TimerNames, TrafficNames
    <3>3. /\ endpoint /\ tunn.at["DataPacketSent"] - tunn.timers["DataPacketSent"] <= late
          /\ clock - tunn.timers["Current"] <= late
      <4>1. tunn.at["DataPacketSent"] > tunn.at["PacketReceived"] /\ tunn.at["PacketReceived"] # clock
        BY <2>0, <3>1, <3>2
      <4>2. endpoint /\ tunn.at["DataPacketSent"] - tunn.timers["DataPacketSent"] <= late
        BY <2>3, <4>1 DEF NotFarBehind
      <4>. QED  BY <2>3, <4>1, <4>2 DEF NotFarBehind
    <3>4. tunn.timers["PacketReceived"] < tunn.timers["DataPacketSent"]
          /\ tunn.timers["DataPacketSent"] < tunn.timers["Current"]
      BY <2>0, <3>1, <3>2, <3>3
    <3>5. tunn.timers["Current"] - tunn.timers["PacketReceived"] < KeepaliveTimeout + RekeyTimeout
      BY <2>4, <3>4 DEF SentNoticed
    <3>. HIDE DEF late
    <3>. QED  BY <2>0, <3>2, <3>3, <3>5, TunnelConstants
  <2>6. ASSUME Unsettled("PacketSent", "DataPacketReceived", late)
        PROVE  clock - tunn.at["PacketSent"] <= KeepaliveTimeout + late
    <3>1. tunn.at["DataPacketReceived"] - tunn.at["PacketSent"] > late
          /\ clock - tunn.at["DataPacketReceived"] > late
      BY <2>6 DEF Unsettled
    <3>2. /\ tunn.at["DataPacketReceived"] \in Nat /\ tunn.at["PacketSent"] \in Nat
          /\ tunn.timers["DataPacketReceived"] \in Nat /\ tunn.timers["PacketSent"] \in Nat
          /\ tunn.timers["Current"] \in Nat
          /\ tunn.timers["DataPacketReceived"] <= tunn.at["DataPacketReceived"]
          /\ tunn.timers["PacketSent"] <= tunn.at["PacketSent"]
      BY <2>1, <2>2, TimerNames, TrafficNames
    <3>3. /\ endpoint /\ tunn.at["DataPacketReceived"] - tunn.timers["DataPacketReceived"] <= late
          /\ clock - tunn.timers["Current"] <= late
      <4>1. tunn.at["DataPacketReceived"] > tunn.at["PacketSent"] /\ tunn.at["PacketSent"] # clock
        BY <2>0, <3>1, <3>2
      <4>2. endpoint /\ tunn.at["DataPacketReceived"] - tunn.timers["DataPacketReceived"] <= late
        BY <2>3, <4>1 DEF NotFarBehind
      <4>. QED  BY <2>3, <4>1, <4>2 DEF NotFarBehind
    <3>4. tunn.timers["PacketSent"] < tunn.timers["DataPacketReceived"]
          /\ tunn.timers["DataPacketReceived"] < tunn.timers["Current"]
      BY <2>0, <3>1, <3>2, <3>3
    <3>5. tunn.timers["Current"] - tunn.at["PacketSent"] < KeepaliveTimeout
      BY <2>4, <3>4 DEF ReceivedNoticed
    <3>. HIDE DEF late
    <3>. QED  BY <2>0, <3>2, <3>3, <3>5, TunnelConstants
  <2>. QED  BY <2>5, <2>6
<1>. QED  BY <1>1, InitTraced, TracedInductive, PTL DEF Spec

\* Nothing but the timers and a new key takes a session away.
LEMMA OnlyTimersDrop ==
    ASSUME IInv, [Next]_vars, ~UpdateTimers, tunn'.key = tunn.key
    PROVE  /\ \A i \in Slots : tunn.sessions[i] # None => tunn'.sessions[i] # None
           /\ HasSession(tunn) => HasSession(tunn')
<1>0. Slot(tunn.current) \in Slots
  BY FromIInv, SlotIn DEF Tunns
<1>. DEFINE Keeps == /\ \A i \in Slots : tunn.sessions[i] # None => tunn'.sessions[i] # None
                     /\ HasSession(tunn) => HasSession(tunn')
<1>1. CASE SendPacket
  BY <1>1, SendPacketOK DEF SameRing, HasSession
<1>2. CASE ReceiveInit
  BY <1>0, <1>2, ReceiveInitOK DEF HasSession
<1>3. CASE ReceiveResponse
  BY <1>3, ReceiveResponseOK
<1>4. ASSUME NEW i \in Slots, NEW kind \in {"keepalive", "data", "nonsense"}, ReceiveData(i, kind)
      PROVE  Keeps
  BY <1>4, ReceiveDataOK
<1>5. CASE ReceiveCookie
  BY <1>5, ReceiveCookieOK DEF SameRing, HasSession
<1>6. ~SetKey
  BY SetKeyOK
<1>7. CASE Tick
  BY <1>7 DEF Tick, HasSession
<1>8. CASE UNCHANGED vars
  BY <1>8 DEF vars, HasSession
<1>. QED  BY <1>1, <1>2, <1>3, <1>4, <1>5, <1>6, <1>7, <1>8 DEF Next

\* Keys last their time: for a peer whose address is known from the start the timers
\* drop no session that is younger than REJECT_AFTER_TIME less their own delay
\* (update_session_timers, clear_all).
THEOREM KeysDoLast == Spec => KeysLast
<1>1. ASSUME IInv, [Next]_vars, configured PROVE ~DropsYoung
  <2>. SUFFICES ASSUME ~InFlight(tunn), tunn.key = tunn'.key, NEW i \in Slots,
                       tunn.sessions[i] # None, tunn'.sessions[i] = None
                PROVE  ~(clock - tunn.sessions[i].born < RejectAfter - MaxLag)
    BY DEF DropsYoung
  <2>1. UpdateTimers
    BY <1>1, OnlyTimersDrop
  <2>2. tunn' = Timers(Renewed) /\ endpoint
    BY <2>1 DEF UpdateTimers
  <2>3. /\ tunn.sessions[i].born \in Nat /\ tunn.session_timers[i] \in Nat /\ clock \in Nat
        /\ tunn.timers["SessionEstablished"] \in Nat
        /\ tunn.session_timers[i] <= tunn.timers["SessionEstablished"]
        /\ tunn.sessions[i].born - tunn.session_timers[i] <= MaxLag + 1
    <3>1. tunn.sessions[i] \in [local : Nat, born : Nat]
      BY <1>1, FromIInv DEF Tunns
    <3>. QED  BY <1>1, <3>1, FromIInv, TimerNames DEF Tunns, Around, BaseOK, RingOK
  <2>4. clock - tunn.session_timers[i] > RejectAfter
    <3>1. ~AttemptOld(Renewed)
      BY <1>1, RenewedFields DEF AttemptOld, InFlight, SameHandshake
    <3>2. CASE ConnectionOld(Renewed)
      <4>1. Renewed.timers["SessionEstablished"] = tunn.timers["SessionEstablished"]
        BY <1>1, RenewedOK, TimerNames
      <4>2. clock - tunn.timers["SessionEstablished"] >= 3 * RejectAfter
        BY <3>2, <4>1 DEF ConnectionOld, Since
      <4>. QED  BY <2>3, <4>2, TunnelConstants
    <3>3. CASE SameRing(Timers(Renewed), Renewed)
      <4>1. Renewed.sessions[i] = None
        BY <2>2, <3>3 DEF SameRing
      <4>. QED  BY <1>1, <4>1, RenewedFields
    <3>. QED  BY <1>1, <2>2, <3>1, <3>2, <3>3, TimersStep
  <2>. QED  BY <2>3, <2>4, TunnelConstants
<1>2. IInv /\ [Next]_vars => [configured => ~DropsYoung]_vars
  BY <1>1
<1>. QED  BY <1>2, InitOK, Inductive, PTL DEF Spec, KeysLast

\* With a peer that answers at once, an initiator that sends has its next session before
\* it loses the present one (the rekey rules of update_timers, set_current_session).
THEOREM NoGapForInitiator == Spec => NoGap
<1>1. ASSUME IInv, [Next]_vars, prompt PROVE ~LosesSession
  <2>. DEFINE est == tunn.timers["SessionEstablished"]
              sent == tunn.timers["DataPacketSent"]
              now == tunn.timers["Current"]
              started == tunn.timers["HandshakeStarted"]
              cur == Slot(tunn.current)
  <2>. SUFFICES ASSUME tunn.is_initiator, tunn.key = tunn'.key, est < sent, sent < est + RejectAfter,
                       HasSession(tunn), ~HasSession(tunn')
                PROVE  FALSE
    BY DEF LosesSession
  <2>1. UpdateTimers
    BY <1>1, OnlyTimersDrop
  <2>2. tunn' = Timers(Renewed) /\ endpoint /\ now < clock
    BY <2>1 DEF UpdateTimers
  <2>3. est \in Nat /\ sent \in Nat /\ now \in Nat /\ started \in Nat /\ clock \in Nat /\ cur \in Slots
    BY <1>1, FromIInv, TimerNames, SlotIn DEF Tunns, Around
  <2>4. clock - now <= 1
    BY <1>1, FromIInv DEF BaseOK, LagOK
  <2>5. tunn.session_timers[cur] = est /\ (InFlight(tunn) => tunn.state.key = tunn.key)
    BY <1>1, <2>3, FromIInv DEF InitiatorOK, HasSession
  <2>6. (now - est < RekeyAfter \/ sent = now)
        /\ (InFlight(tunn) => started = now)
    <3>1. clock # now
      BY <2>2, <2>3
    <3>. QED  BY <1>1, <2>5, <3>1, FromIInv DEF PromptOK
  <2>7. clock - est <= RejectAfter
    BY <2>2, <2>3, <2>4, <2>6, TunnelConstants
  <2>8. Renewed.sessions[cur] = tunn.sessions[cur] /\ Renewed.current = tunn.current
    <3>1. ~(clock - tunn.session_timers[cur] > RejectAfter)
      BY <2>3, <2>5, <2>7, TunnelConstants
    <3>. QED  BY <1>1, <2>3, <3>1, RenewedFields
  <2>9. Renewed.timers["SessionEstablished"] = est /\ Renewed.timers["HandshakeStarted"] = started
    BY <1>1, RenewedOK, TimerNames
  <2>10. ~ConnectionOld(Renewed)
    BY <2>3, <2>7, <2>9, TunnelConstants DEF ConnectionOld, Since
  <2>11. ~AttemptOld(Renewed)
    <3>1. InFlight(Renewed) => InFlight(tunn)
      BY <1>1, RenewedFields DEF InFlight, SameHandshake
    <3>. QED  BY <2>2, <2>3, <2>4, <2>6, <2>9, <3>1, TunnelConstants DEF AttemptOld, Since
  <2>12. SameRing(Timers(Renewed), Renewed)
    BY <1>1, <2>2, <2>10, <2>11, TimersStep
  <2>13. tunn'.sessions[Slot(tunn'.current)] = tunn.sessions[cur]
    BY <2>2, <2>8, <2>12 DEF SameRing
  <2>. QED  BY <2>13 DEF HasSession
<1>2. IInv /\ [Next]_vars => [prompt => ~LosesSession]_vars
  BY <1>1
<1>. QED  BY <1>2, InitOK, Inductive, PTL DEF Spec, NoGap
===============================================================================
