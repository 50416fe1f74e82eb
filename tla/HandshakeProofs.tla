--------------------------- MODULE HandshakeProofs ---------------------------
(***************************************************************************)
(* Handshake for any bounds, any ring and any index space: the two ends of *)
(* a session agree on it, no nonce is used and no packet delivered twice,  *)
(* an initiation is answered once, and an unconfirmed session is not the   *)
(* current one as long as no index comes back.                             *)
(*                                                                         *)
(* A session is what its response made of it.  The invariant ties every    *)
(* session and every packet to that response (HalvesOK, DataOK), says that *)
(* a key a side has used cannot be set up by it again (Used), and that keys *)
(* are drawn once (NetOK).                                                 *)
(*                                                                         *)
(* The last part is about ReplayWindow, the ring of bits that stands for   *)
(* the set of counters a session has received: its bits are that set, for  *)
(* the counters of the window (WInv).                                      *)
(***************************************************************************)
EXTENDS Handshake, ReplayWindow, FiniteSetTheorems, TLAPS

USE HandshakeConstants

------------------------------------------------------------------------------
(* Indices and sides *)

\* Division by the size of the index space, and by that of the ring.
LEMMA Division ==
    ASSUME NEW n \in Nat \ {0}, NEW q \in Int, NEW r \in 0 .. n - 1
    PROVE  (q * n + r) \div n = q
OBVIOUS

\* A number below the divisor is its own remainder.
LEMMA Modulus ==
    ASSUME NEW n \in Nat \ {0}, NEW q \in Int, NEW r \in 0 .. n - 1
    PROVE  (q * n + r) % n = r
OBVIOUS

\* Quotient and remainder.
LEMMA Remainder ==
    ASSUME NEW n \in Nat \ {0}, NEW x \in Nat
    PROVE  x % n \in 0 .. n - 1 /\ x \div n \in Nat /\ x = (x \div n) * n + (x % n)
OBVIOUS

\* inc_index stays within the tunnel's own indices.
LEMMA IncIndexIn ==
    ASSUME NEW idx \in Indices
    PROVE  /\ IncIndex(idx) \in Indices
           /\ IncIndex(idx) \div IndexSpace = idx \div IndexSpace
<1> DEFINE q == idx \div IndexSpace
           r == (idx + 1) % IndexSpace
<1>1. idx \in Nat /\ idx < 2 * IndexSpace /\ IndexSpace \in Nat \ {0}
  BY DEF Indices
<1>2. q \in Nat /\ idx = q * IndexSpace + (idx % IndexSpace) /\ idx % IndexSpace \in 0 .. IndexSpace - 1
  BY <1>1, Remainder
<1>3. r \in 0 .. IndexSpace - 1
  BY <1>1, Remainder
<1>4. q < 2
  <2>1. SUFFICES ASSUME q >= 2 PROVE FALSE
    BY <1>2
  <2>2. q * IndexSpace >= 2 * IndexSpace
    BY <1>1, <1>2, <2>1
  <2> QED BY <1>1, <1>2, <2>2
<1>5. IncIndex(idx) = q * IndexSpace + r
  BY DEF IncIndex
<1> HIDE DEF q, r
<1>6. q * IndexSpace + r \in Indices
  <2>1. q = 0 \/ q = 1 BY <1>2, <1>4
  <2> QED BY <1>1, <1>3, <2>1 DEF Indices
<1>7. (q * IndexSpace + r) \div IndexSpace = q
  BY <1>1, <1>2, <1>3, Division
<1> QED BY <1>5, <1>6, <1>7 DEF q

\* Every index has its slot in the ring.
LEMMA SlotIn == ASSUME NEW idx \in Indices PROVE Slot(idx) \in Slots
BY Remainder DEF Slot, Slots, Indices

\* There are two sides.
LEMMA TwoSides ==
    ASSUME NEW p \in Sides, NEW q \in Sides, NEW r \in Sides, q # p, r # p
    PROVE  q = r
OBVIOUS

------------------------------------------------------------------------------
(* What the operations of a tunnel do to its parts *)

\* The sessions of a tunnel.
SessionsIn(t) == {t.sessions[i] : i \in Slots} \ {None}

\* Every session is in the slot of its index.
Placed(t) == \A i \in Slots : t.sessions[i] # None => Slot(t.sessions[i].local) = i

\* Session::new, field by field.
LEMMA SessionTyped ==
    ASSUME NEW local \in Indices, NEW remote \in Indices, NEW key \in Keys,
           NEW role \in {"initiator", "responder"}
    PROVE  LET s == Session(local, remote, key, role) IN
           /\ s \in SessionSet /\ s # None
           /\ s.local = local /\ s.remote = remote /\ s.key = key /\ s.role = role
           /\ s.sent = 0 /\ s.rcvd = {}
<1> DEFINE s == Session(local, remote, key, role)
<1>1. s \in SessionSet
  BY DEF Session, SessionSet
<1>2. SessionSet \subseteq [local : Nat, remote : Nat, key : Nat \X Nat,
                            role : {"initiator", "responder"}, sent : Nat, rcvd : SUBSET Nat]
  BY DEF SessionSet, Indices, Keys
<1>3. s # None
  BY <1>1, <1>2
<1> QED BY <1>1, <1>3 DEF Session

\* A session record in the ring is not the absent value.
LEMMA SessionIsThere == ASSUME NEW s \in SessionSet PROVE s # None
<1>1. SessionSet \subseteq [local : Nat, remote : Nat, key : Nat \X Nat,
                            role : {"initiator", "responder"}, sent : Nat, rcvd : SUBSET Nat]
  BY DEF SessionSet, Indices, Keys
<1> QED BY <1>1

\* format_handshake_initiation touches the handshake and the macs.
LEMMA SendInitFields ==
    ASSUME NEW t \in Tunns, NEW eph \in 1 .. MaxEph
    PROVE  LET u == SendInit(t, eph) IN
           /\ u \in Tunns
           /\ u.state = InitSent(IncIndex(t.next_index), eph) /\ u.previous = t.state
           /\ u.next_index = IncIndex(t.next_index) /\ u.stamp = t.stamp
           /\ u.sessions = t.sessions /\ u.current = t.current
<1> DEFINE idx == IncIndex(t.next_index)
<1>1. t.next_index \in Indices /\ t.state \in HandshakeStates
  BY DEF Tunns
<1>2. idx \in Indices
  BY <1>1, IncIndexIn
<1>3. SendInit(t, eph) = [t EXCEPT !.next_index = idx, !.previous = t.state,
         !.state = InitSent(idx, eph), !.cookie_index = idx, !.last_mac1 = eph]
  BY DEF SendInit, WithMacs, Tunns
<1>4. InitSent(idx, eph) \in HandshakeStates
  BY <1>2 DEF InitSent, HandshakeStates
<1> HIDE DEF idx
<1>5. eph \in {None} \cup 1 .. MaxEph
  OBVIOUS
<1> QED BY <1>1, <1>2, <1>3, <1>4, <1>5 DEF Tunns, idx

\* A session is stored in its slot.
LEMMA StoreFields ==
    ASSUME NEW t \in Tunns, NEW s \in SessionSet, now \in 0 .. MaxClock
    PROVE  LET u == Store(t, s) IN
           /\ u \in Tunns
           /\ u.state = t.state /\ u.previous = t.previous
           /\ u.next_index = t.next_index /\ u.stamp = t.stamp /\ u.current = t.current
           /\ u.sessions = [t.sessions EXCEPT ![Slot(s.local)] = s]
           /\ Placed(t) => Placed(u)
           /\ SessionsIn(u) \subseteq SessionsIn(t) \cup {s}
           /\ u.sessions[Slot(s.local)] = s
<1> DEFINE u == Store(t, s)
           i == Slot(s.local)
<1>1. i \in Slots
  BY SlotIn DEF SessionSet
<1>2. u = [t EXCEPT !.sessions = [t.sessions EXCEPT ![i] = s],
                    !.timers = [t.timers EXCEPT ![i] = now]]
  BY DEF Store, Tunns
<1>3. [t.sessions EXCEPT ![i] = s] \in [Slots -> SessionSet \cup {None}]
  BY DEF Tunns
<1>4. [t.timers EXCEPT ![i] = now] \in [Slots -> 0 .. MaxClock]
  BY DEF Tunns
<1>5. /\ u \in Tunns
      /\ u.state = t.state /\ u.previous = t.previous
      /\ u.next_index = t.next_index /\ u.stamp = t.stamp /\ u.current = t.current
      /\ u.sessions = [t.sessions EXCEPT ![i] = s]
  BY <1>2, <1>3, <1>4 DEF Tunns
<1>6. u.sessions[i] = s /\ \A j \in Slots : j # i => u.sessions[j] = t.sessions[j]
  BY <1>1, <1>5 DEF Tunns
<1>7. Placed(t) => Placed(u)
  BY <1>6 DEF Placed
<1>8. SessionsIn(u) \subseteq SessionsIn(t) \cup {s}
  BY <1>6 DEF SessionsIn
<1> QED BY <1>5, <1>6, <1>7, <1>8

\* receive_handshake_initialization and its answer.
AnswerInitDoes(t, m, eph) ==
    LET u == AnswerInit(t, m, eph)
        s == Session(IncIndex(t.next_index), m.sender, <<m.eph, eph>>, "responder") IN
    /\ u \in Tunns
    /\ u.state = Idle /\ u.previous = t.state
    /\ u.next_index = IncIndex(t.next_index) /\ u.stamp = m.eph /\ u.current = t.current
    /\ Placed(t) => Placed(u)
    /\ SessionsIn(u) \subseteq SessionsIn(t) \cup {s}
    /\ u.sessions = [t.sessions EXCEPT ![Slot(IncIndex(t.next_index))] = s]

\* receive_handshake_initialization does just that.
LEMMA AnswerInitFields ==
    ASSUME NEW t \in Tunns, NEW m, m.sender \in Indices, m.eph \in 1 .. MaxEph,
           NEW eph \in 1 .. MaxEph, now \in 0 .. MaxClock
    PROVE  AnswerInitDoes(t, m, eph)
<1> DEFINE idx == IncIndex(t.next_index)
           s == Session(idx, m.sender, <<m.eph, eph>>, "responder")
           v == [t EXCEPT !.next_index = idx, !.stamp = m.eph, !.previous = t.state, !.state = Idle]
           w == Store(v, s)
           u == WithMacs(w, idx, eph)
<1>1. t.next_index \in Indices /\ t.state \in HandshakeStates
  BY DEF Tunns
<1>2. idx \in Indices
  BY <1>1, IncIndexIn
<1>3. s \in SessionSet /\ s.local = idx
  <2>1. <<m.eph, eph>> \in Keys BY DEF Keys
  <2> QED BY <1>2, <2>1, SessionTyped
<1>4. AnswerInit(t, m, eph) = u
  BY DEF AnswerInit
<1> HIDE DEF idx, s
<1>5. Idle \in HandshakeStates
  BY DEF HandshakeStates
<1>6. /\ v \in Tunns /\ v.state = Idle /\ v.previous = t.state /\ v.next_index = idx
      /\ v.stamp = m.eph /\ v.current = t.current /\ v.sessions = t.sessions
  <2>1. m.eph \in 0 .. MaxEph OBVIOUS
  <2> QED BY <1>1, <1>2, <1>5, <2>1 DEF Tunns
<1> HIDE DEF v
<1>7. /\ w \in Tunns
      /\ w.state = v.state /\ w.previous = v.previous
      /\ w.next_index = v.next_index /\ w.stamp = v.stamp /\ w.current = v.current
      /\ w.sessions = [v.sessions EXCEPT ![Slot(s.local)] = s]
      /\ Placed(v) => Placed(w)
      /\ SessionsIn(w) \subseteq SessionsIn(v) \cup {s}
  BY <1>3, <1>6, StoreFields
<1> HIDE DEF w
<1>8. /\ u \in Tunns
      /\ u.state = w.state /\ u.previous = w.previous
      /\ u.next_index = w.next_index /\ u.stamp = w.stamp /\ u.current = w.current
      /\ u.sessions = w.sessions
  <2>1. eph \in {None} \cup 1 .. MaxEph OBVIOUS
  <2> QED BY <1>2, <1>7, <2>1 DEF WithMacs, Tunns
<1> HIDE DEF u
<1>9. (Placed(t) => Placed(u)) /\ SessionsIn(u) \subseteq SessionsIn(t) \cup {s}
  BY <1>6, <1>7, <1>8 DEF Placed, SessionsIn
<1> QED BY <1>3, <1>4, <1>6, <1>7, <1>8, <1>9 DEF idx, s, AnswerInitDoes

\* receive_handshake_response: the initiation it answers is no longer awaited.
TakeResponseDoes(t, m) ==
    LET u == TakeResponse(t, m)
        s == Session(m.receiver, m.sender, <<m.ini, m.eph>>, "initiator") IN
    /\ u \in Tunns
    /\ u.state = IF ForCurrent(t, m) THEN Idle ELSE t.state
    /\ u.previous = IF ForCurrent(t, m) THEN t.previous ELSE Idle
    /\ u.next_index = t.next_index /\ u.stamp = t.stamp /\ u.current = t.current
    /\ Placed(t) => Placed(u)
    /\ SessionsIn(u) \subseteq SessionsIn(t) \cup {s}
    /\ u.sessions = [t.sessions EXCEPT ![Slot(m.receiver)] = s]
    /\ u.sessions[Slot(m.receiver)] = s /\ Slot(m.receiver) \in Slots

\* receive_handshake_response does just that.
LEMMA TakeResponseFields ==
    ASSUME NEW t \in Tunns, NEW m, m.sender \in Indices, m.receiver \in Indices,
           m.ini \in 1 .. MaxEph, m.eph \in 1 .. MaxEph, now \in 0 .. MaxClock
    PROVE  TakeResponseDoes(t, m)
<1> DEFINE s == Session(m.receiver, m.sender, <<m.ini, m.eph>>, "initiator")
           v == [t EXCEPT !.state = IF ForCurrent(t, m) THEN Idle ELSE @,
                          !.previous = IF ForCurrent(t, m) THEN @ ELSE Idle]
           u == Store(v, s)
<1>1. s \in SessionSet /\ s.local = m.receiver
  <2>1. <<m.ini, m.eph>> \in Keys BY DEF Keys
  <2> QED BY <2>1, SessionTyped
<1>2. TakeResponse(t, m) = u
  BY DEF TakeResponse
<1> HIDE DEF s
<1>3. Idle \in HandshakeStates
  BY DEF HandshakeStates
<1>4. /\ v \in Tunns
      /\ v.state = IF ForCurrent(t, m) THEN Idle ELSE t.state
      /\ v.previous = IF ForCurrent(t, m) THEN t.previous ELSE Idle
      /\ v.next_index = t.next_index /\ v.stamp = t.stamp
      /\ v.current = t.current /\ v.sessions = t.sessions
  <2> DEFINE yes == ForCurrent(t, m)
  <2> HIDE DEF yes
  <2>1. v = [t EXCEPT !.state = IF yes THEN Idle ELSE @, !.previous = IF yes THEN @ ELSE Idle]
    BY DEF yes
  <2>2. CASE yes BY <1>3, <2>1, <2>2 DEF Tunns, yes
  <2>3. CASE ~yes BY <1>3, <2>1, <2>3 DEF Tunns, yes
  <2> QED BY <2>2, <2>3
<1> HIDE DEF v
<1>5. /\ u \in Tunns
      /\ u.state = v.state /\ u.previous = v.previous
      /\ u.next_index = v.next_index /\ u.stamp = v.stamp /\ u.current = v.current
      /\ u.sessions = [v.sessions EXCEPT ![Slot(s.local)] = s]
      /\ Placed(v) => Placed(u)
      /\ SessionsIn(u) \subseteq SessionsIn(v) \cup {s}
      /\ u.sessions[Slot(s.local)] = s
  BY <1>1, <1>4, StoreFields
<1> HIDE DEF u
<1>6. (Placed(t) => Placed(u)) /\ SessionsIn(u) \subseteq SessionsIn(t) \cup {s}
  BY <1>4, <1>5 DEF Placed, SessionsIn
<1> QED BY <1>1, <1>2, <1>4, <1>5, <1>6, SlotIn DEF s, TakeResponseDoes

\* A packet is sealed or opened under the session in slot i: tunnel u is t with
\* session s in that slot.
Replaced(t, u, i, s) ==
    /\ u \in Tunns
    /\ u.state = t.state /\ u.previous = t.previous
    /\ u.next_index = t.next_index /\ u.stamp = t.stamp /\ u.current = t.current
    /\ u.sessions = [t.sessions EXCEPT ![i] = s]

\* Session s is r, further on.
Descends(s, r) ==
    /\ s.key = r.key /\ s.role = r.role /\ s.local = r.local /\ s.remote = r.remote
    /\ r.sent <= s.sent /\ r.rcvd \subseteq s.rcvd

\* format_packet_data advances the session's counter.
LEMMA SealedFields ==
    ASSUME NEW t \in Tunns, NEW i \in Slots, t.sessions[i] # None
    PROVE  LET s == [t.sessions[i] EXCEPT !.sent = @ + 1] IN
           /\ Replaced(t, Sealed(t, i), i, s)
           /\ s \in SessionSet /\ Descends(s, t.sessions[i])
           /\ s.sent = t.sessions[i].sent + 1 /\ s.rcvd = t.sessions[i].rcvd
<1> DEFINE s == [t.sessions[i] EXCEPT !.sent = @ + 1]
<1>1. t.sessions \in [Slots -> SessionSet \cup {None}] /\ t.sessions[i] \in SessionSet
  BY DEF Tunns
<1>2. /\ s \in SessionSet /\ s.sent = t.sessions[i].sent + 1 /\ s.rcvd = t.sessions[i].rcvd
      /\ Descends(s, t.sessions[i])
  BY <1>1 DEF SessionSet, Descends
<1>3. Sealed(t, i) = [t EXCEPT !.sessions = [t.sessions EXCEPT ![i] = s]]
  BY <1>1 DEF Sealed, Tunns
<1> HIDE DEF s
<1>4. [t.sessions EXCEPT ![i] = s] \in [Slots -> SessionSet \cup {None}]
  BY <1>1, <1>2
<1>5. Replaced(t, Sealed(t, i), i, s)
  BY <1>3, <1>4 DEF Tunns, Replaced
<1> QED BY <1>2, <1>5 DEF s

\* receive_packet_data marks the packet's counter.
LEMMA OpenedFields ==
    ASSUME NEW t \in Tunns, NEW i \in Slots, t.sessions[i] # None, NEW c \in Nat
    PROVE  LET s == [t.sessions[i] EXCEPT !.rcvd = @ \cup {c}] IN
           /\ Replaced(t, Opened(t, i, c), i, s)
           /\ s \in SessionSet /\ Descends(s, t.sessions[i]) /\ c \in s.rcvd
<1> DEFINE s == [t.sessions[i] EXCEPT !.rcvd = @ \cup {c}]
<1>1. t.sessions \in [Slots -> SessionSet \cup {None}] /\ t.sessions[i] \in SessionSet
  BY DEF Tunns
<1>2. s \in SessionSet /\ c \in s.rcvd /\ Descends(s, t.sessions[i])
  BY <1>1 DEF SessionSet, Descends
<1>3. Opened(t, i, c) = [t EXCEPT !.sessions = [t.sessions EXCEPT ![i] = s]]
  BY <1>1 DEF Opened, Tunns
<1> HIDE DEF s
<1>4. [t.sessions EXCEPT ![i] = s] \in [Slots -> SessionSet \cup {None}]
  BY <1>1, <1>2
<1>5. Replaced(t, Opened(t, i, c), i, s)
  BY <1>3, <1>4 DEF Tunns, Replaced
<1> QED BY <1>2, <1>5 DEF s

\* set_current_session moves the current index to idx or leaves it.
LEMMA SetCurrentFields ==
    ASSUME NEW t \in Tunns, NEW idx \in Indices
    PROVE  LET u == SetCurrent(t, idx) IN
           /\ u \in Tunns
           /\ u.state = t.state /\ u.previous = t.previous
           /\ u.next_index = t.next_index /\ u.stamp = t.stamp /\ u.sessions = t.sessions
           /\ u.current \in {t.current, idx}
<1>1. /\ [t EXCEPT !.current = idx] \in Tunns
      /\ LET v == [t EXCEPT !.current = idx] IN
         /\ v.state = t.state /\ v.previous = t.previous /\ v.current = idx
         /\ v.next_index = t.next_index /\ v.stamp = t.stamp /\ v.sessions = t.sessions
  BY DEF Tunns
<1>2. SetCurrent(t, idx) = [t EXCEPT !.current = idx] \/ SetCurrent(t, idx) = t
  BY DEF SetCurrent
<1> QED BY <1>1, <1>2

\* The sessions of a tunnel with one replaced by its successor.
LEMMA ReplacedSessions ==
    ASSUME NEW t \in Tunns, NEW u, NEW i \in Slots, NEW s \in SessionSet,
           t.sessions[i] # None, Replaced(t, u, i, s), Descends(s, t.sessions[i])
    PROVE  /\ \A x \in SessionsIn(u) : \E y \in SessionsIn(t) : Descends(x, y)
           /\ Placed(t) => Placed(u)
           /\ u.sessions[i] = s /\ s \in SessionsIn(u)
           /\ \A j \in Slots : j # i => u.sessions[j] = t.sessions[j]
<1>1. u.sessions[i] = s /\ \A j \in Slots : j # i => u.sessions[j] = t.sessions[j]
  BY DEF Replaced, Tunns
<1>2. t.sessions \in [Slots -> SessionSet \cup {None}]
  BY DEF Tunns
<1>3. ASSUME NEW x \in SessionsIn(u) PROVE \E y \in SessionsIn(t) : Descends(x, y)
  <2>1. PICK j \in Slots : x = u.sessions[j] /\ x # None
    BY <1>3 DEF SessionsIn
  <2>2. CASE j = i
    <3>1. t.sessions[i] \in SessionsIn(t) BY DEF SessionsIn
    <3> QED BY <1>1, <2>1, <2>2, <3>1
  <2>3. CASE j # i
    <3>1. x = t.sessions[j] BY <1>1, <2>1, <2>3
    <3>2. x \in SessionsIn(t) /\ x \in SessionSet BY <1>2, <2>1, <3>1 DEF SessionsIn
    <3>3. Descends(x, x) BY <3>2 DEF Descends, SessionSet
    <3> QED BY <3>2, <3>3
  <2> QED BY <2>2, <2>3
<1>4. Placed(t) => Placed(u)
  BY <1>1 DEF Placed, Descends
<1>5. s \in SessionsIn(u)
  BY <1>1, SessionIsThere DEF SessionsIn
<1> QED BY <1>1, <1>3, <1>4, <1>5

------------------------------------------------------------------------------
(* What steps keep *)

\* The type invariant, from the types of the tunnels.
LEMMA TypeStep ==
    ASSUME tunn' \in [Sides -> Tunns], \A p \in Sides : Placed(tunn'[p]),
           drawn' \in 0 .. MaxEph, now' \in 0 .. MaxClock, faults' \in 0 .. MaxFaults,
           epoch' \in [Sides -> 0 .. MaxFaults]
    PROVE  TypeOK'
<1>1. \A p \in Sides : tunn'[p] \in Tunns
  OBVIOUS
<1>2. \A p \in Sides :
        /\ tunn'[p].next_index \in Indices /\ tunn'[p].current \in Indices
        /\ tunn'[p].stamp \in 0 .. MaxEph
        /\ tunn'[p].write_cookie \in {None} \cup 0 .. MaxFaults
        /\ tunn'[p].sessions \in [Slots -> SessionSet \cup {None}]
  BY <1>1 DEF Tunns
<1>3. \A p \in Sides, i \in Slots : tunn'[p].sessions[i] # None =>
         /\ Slot(tunn'[p].sessions[i].local) = i
         /\ tunn'[p].sessions[i].key \in Keys
  BY <1>2 DEF Placed, SessionSet
<1> QED BY <1>2, <1>3 DEF TypeOK

\* The tunnels of a reachable state.
LEMMA PlacedNow == ASSUME IInv PROVE \A p \in Sides : tunn[p] \in Tunns /\ Placed(tunn[p])
BY DEF IInv, TypeOK, Placed

\* A response answers an initiation, whose key was drawn.
LEMMA IniDrawn ==
    ASSUME NetOK, NEW r \in net, r.type = "resp"
    PROVE  r.ini \in 1 .. drawn /\ r.eph \in 1 .. drawn
BY DEF NetOK

\* No initiation that was answered comes into flight again.
NothingAnew == \A p \in Sides : \A e \in 1 .. drawn : Live(tunn'[p], e) => Live(tunn[p], e)

\* A key that was used stays used.
LEMMA UsedKept ==
    ASSUME NetOK, net \subseteq net', NothingAnew, NEW p \in Sides, NEW k, Used(p, k)
    PROVE  Used(p, k)'
<1>1. PICK r \in net : r.type = "resp" /\ k = <<r.ini, r.eph>> /\ (r.from # p => ~Live(tunn[p], r.ini))
  BY DEF Used
<1>2. r.ini \in 1 .. drawn
  BY <1>1, IniDrawn
<1>3. r \in net' /\ (r.from # p => ~Live(tunn'[p], r.ini))
  BY <1>1, <1>2 DEF NothingAnew
<1> QED BY <1>1, <1>3 DEF Used

\* Nothing that was sent is taken back.
LEMMA SentInitKept ==
    ASSUME net \subseteq net', NEW p, NEW e, NEW idx, SentInit(p, e, idx)
    PROVE  SentInit(p, e, idx)'
BY DEF SentInit

\* A session of the next state is one of this state, further on, or is new under
\* a key its side has not used.
SessionsGoOn ==
    \A p \in Sides : \A s \in SessionsIn(tunn'[p]) :
        \/ \E y \in SessionsIn(tunn[p]) : Descends(s, y)
        \/ ~Used(p, s.key) /\ Used(p, s.key)' /\ \E r \in net' : FromResponse(p, s, r)'

\* The packets so far are still those the sessions know of.
OldSent ==
    \A d \in Data : /\ Used(d.from, d.key)'
                    /\ \A s \in Sessions(d.from)' : s.key = d.key => d.counter < s.sent

\* Those delivered are still in the sessions' windows.
OldDelivered ==
    \A d \in delivered : \A p \in Sides \ {d.from} :
        /\ Used(p, d.key)'
        /\ \A s \in Sessions(p)' : s.key = d.key => d.counter \in s.rcvd

\* The invariants of sessions and packets, from how the sessions go on.
LEMMA SessionsStep ==
    ASSUME IInv, tunn' \in [Sides -> Tunns], net \subseteq net', NothingAnew, SessionsGoOn
    PROVE  HalvesOK' /\ OldSent /\ OldDelivered
<1>1. \A p \in Sides : Sessions(p) = SessionsIn(tunn[p]) /\ Sessions(p)' = SessionsIn(tunn'[p])
  BY DEF Sessions, SessionsIn
<1>2. NetOK /\ HalvesOK /\ DataOK
  BY DEF IInv
<1>3. \A p \in Sides : \A y \in SessionsIn(tunn[p]) : y \in SessionSet
  BY PlacedNow DEF SessionsIn, Tunns
<1>4. \A p \in Sides : \A y \in SessionsIn(tunn'[p]) : y \in SessionSet
  BY DEF SessionsIn, Tunns
<1>5. HalvesOK'
  <2>1. SUFFICES ASSUME NEW p \in Sides, NEW s \in SessionsIn(tunn'[p])
                 PROVE  Used(p, s.key)' /\ \E r \in net' : FromResponse(p, s, r)'
    BY <1>1 DEF HalvesOK
  <2>2. ASSUME NEW y \in SessionsIn(tunn[p]), Descends(s, y)
        PROVE  Used(p, s.key)' /\ \E r \in net' : FromResponse(p, s, r)'
    <3>1. Used(p, y.key) /\ \E r \in net : FromResponse(p, y, r)
      BY <1>1, <1>2 DEF HalvesOK
    <3>2. PICK r \in net : FromResponse(p, y, r)
      BY <3>1
    <3>3. r \in net' /\ (SentInit(p, r.ini, r.receiver) => SentInit(p, r.ini, r.receiver)')
      BY SentInitKept
    <3>4. FromResponse(p, s, r)'
      BY <2>2, <3>2, <3>3 DEF FromResponse, Descends
    <3>5. Used(p, s.key)'
      BY <1>2, <2>2, <3>1, UsedKept DEF Descends
    <3> QED BY <3>3, <3>4, <3>5
  <2> QED BY <2>2 DEF SessionsGoOn
<1>6. OldSent
  <2>1. SUFFICES ASSUME NEW d \in Data
                 PROVE  /\ Used(d.from, d.key)'
                        /\ \A s \in SessionsIn(tunn'[d.from]) : s.key = d.key => d.counter < s.sent
    BY <1>1, <1>2 DEF OldSent, DataOK
  <2>2. /\ d.from \in Sides /\ d.receiver \in Indices /\ d.counter \in Nat /\ Used(d.from, d.key)
        /\ \A s \in SessionsIn(tunn[d.from]) : s.key = d.key => d.counter < s.sent
    BY <1>1, <1>2 DEF DataOK
  <2>3. Used(d.from, d.key)'
    BY <1>2, <2>2, UsedKept
  <2>4. ASSUME NEW s \in SessionsIn(tunn'[d.from]), s.key = d.key PROVE d.counter < s.sent
    <3>1. PICK y \in SessionsIn(tunn[d.from]) : Descends(s, y)
      BY <2>2, <2>4 DEF SessionsGoOn
    <3>2. y.key = d.key /\ y.sent <= s.sent /\ y.sent \in Nat /\ s.sent \in Nat
      BY <1>3, <1>4, <2>2, <2>4, <3>1 DEF Descends, SessionSet
    <3> QED BY <2>2, <3>1, <3>2
  <2> QED BY <2>3, <2>4
<1>7. OldDelivered
  <2>1. SUFFICES ASSUME NEW d \in delivered, NEW p \in Sides \ {d.from}
                 PROVE  /\ Used(p, d.key)'
                        /\ \A s \in SessionsIn(tunn'[p]) : s.key = d.key => d.counter \in s.rcvd
    BY <1>1 DEF OldDelivered
  <2>2. /\ Used(p, d.key)
        /\ \A s \in SessionsIn(tunn[p]) : s.key = d.key => d.counter \in s.rcvd
    BY <1>1, <1>2 DEF DataOK
  <2>3. Used(p, d.key)'
    BY <1>2, <2>2, UsedKept
  <2>4. ASSUME NEW s \in SessionsIn(tunn'[p]), s.key = d.key PROVE d.counter \in s.rcvd
    <3>1. PICK y \in SessionsIn(tunn[p]) : Descends(s, y)
      BY <2>2, <2>4 DEF SessionsGoOn
    <3> QED BY <2>2, <2>4, <3>1 DEF Descends
  <2> QED BY <2>3, <2>4
<1> QED BY <1>5, <1>6, <1>7

\* Packets other than handshake messages do not disturb what holds of those.
LEMMA NetQuiet ==
    ASSUME IInv, net \subseteq net', IsFiniteSet(net'), drawn' = drawn,
           \A m \in net' \ net : m.type \in {"data", "cookie"}
    PROVE  NetOK' /\ AnsweredOnce'
<1>1. \A m \in net' : m.type \in {"init", "resp"} => m \in net
  OBVIOUS
<1>2. NetOK'
  BY <1>1 DEF IInv, NetOK
<1>3. AnsweredOnce'
  BY <1>1 DEF IInv, AnsweredOnce
<1> QED BY <1>2, <1>3

\* A tunnel that sends no initiation awaits at most what it awaited.
PendingShrinks ==
    \A p \in Sides : /\ tunn'[p].state \in {tunn[p].state, Idle, Expired}
                     /\ tunn'[p].previous \in {tunn[p].previous, Idle, Expired}

\* Then no initiation comes into flight.
LEMMA PendingQuiet ==
    ASSUME IInv, net \subseteq net', PendingShrinks
    PROVE  PendingOK' /\ NothingAnew
<1>1. Idle.type # "InitSent" /\ Expired.type # "InitSent"
  BY DEF Idle, Expired
<1>2. NothingAnew
  BY <1>1 DEF NothingAnew, PendingShrinks, Live, Waits
<1>3. PendingOK'
  <2>1. SUFFICES ASSUME NEW p \in Sides
        PROVE  /\ tunn'[p].state.type = "InitSent" =>
                     SentInit(p, tunn[p].state.eph, tunn[p].state.local_index)'
               /\ tunn'[p].previous.type = "InitSent" =>
                     /\ SentInit(p, tunn[p].previous.eph, tunn[p].previous.local_index)'
                     /\ ~Waits(tunn'[p].state, tunn'[p].previous.eph)
    BY DEF PendingOK
  <2>2. \A e, idx : SentInit(p, e, idx) => SentInit(p, e, idx)'
    BY SentInitKept
  <2>3. ASSUME tunn'[p].state.type = "InitSent"
        PROVE  SentInit(p, tunn[p].state.eph, tunn[p].state.local_index)'
    <3>1. tunn'[p].state = tunn[p].state
      BY <1>1, <2>3 DEF PendingShrinks
    <3>2. SentInit(p, tunn[p].state.eph, tunn[p].state.local_index)
      BY <2>3, <3>1 DEF IInv, PendingOK
    <3>3. PICK m \in net : /\ m.type = "init" /\ m.from = p /\ m.eph = tunn[p].state.eph
                           /\ m.sender = tunn[p].state.local_index
      BY <3>2 DEF SentInit
    <3> QED BY <3>1, <3>3 DEF SentInit
  <2>4. ASSUME tunn'[p].previous.type = "InitSent"
        PROVE  /\ SentInit(p, tunn[p].previous.eph, tunn[p].previous.local_index)'
               /\ ~Waits(tunn'[p].state, tunn'[p].previous.eph)
    <3>1. tunn'[p].previous = tunn[p].previous
      BY <1>1, <2>4 DEF PendingShrinks
    <3>2. /\ SentInit(p, tunn[p].previous.eph, tunn[p].previous.local_index)
          /\ ~Waits(tunn[p].state, tunn[p].previous.eph)
      BY <2>4, <3>1 DEF IInv, PendingOK
    <3>3. PICK m \in net : /\ m.type = "init" /\ m.from = p /\ m.eph = tunn[p].previous.eph
                           /\ m.sender = tunn[p].previous.local_index
      BY <3>2 DEF SentInit
    <3>4. ~Waits(tunn'[p].state, tunn'[p].previous.eph)
      BY <1>1, <3>1, <3>2 DEF PendingShrinks, Waits
    <3> QED BY <3>1, <3>3, <3>4 DEF SentInit
  <2> QED BY <2>3, <2>4
<1> QED BY <1>2, <1>3

\* So do the stamps of tunnels that answer nothing.
StampsStay ==
    \A p \in Sides : tunn'[p].stamp = tunn[p].stamp /\ tunn'[p].next_index = tunn[p].next_index

\* The stamps still cover what was answered.
LEMMA StampQuiet ==
    ASSUME IInv, net \subseteq net', StampsStay,
           \A m \in net' \ net : m.type \in {"data", "cookie"}
    PROVE  StampOK'
<1>1. SUFFICES ASSUME NEW r \in net', r.type = "resp"
      PROVE  /\ r.sender \div IndexSpace <= tunn'[r.from].next_index \div IndexSpace
             /\ r.sender \div IndexSpace = tunn'[r.from].next_index \div IndexSpace
                   => r.ini <= tunn'[r.from].stamp
  BY DEF StampOK
<1>2. r \in net /\ r.from \in Sides
  BY <1>1 DEF IInv, NetOK
<1> QED BY <1>1, <1>2 DEF IInv, StampOK, StampsStay

\* A step that sends no packet and draws no key.
LEMMA QuietStep ==
    ASSUME IInv, tunn' \in [Sides -> Tunns], \A p \in Sides : Placed(tunn'[p]),
           net \subseteq net', IsFiniteSet(net'),
           \A m \in net' \ net : m.type = "cookie" /\ m.cookie \in 0 .. faults',
           faults' \in faults .. MaxFaults, epoch' \in [Sides -> 0 .. faults'],
           now' \in 0 .. MaxClock, drawn' = drawn, UNCHANGED history,
           PendingShrinks, SessionsGoOn, StampOK'
    PROVE  IInv'
<1> USE DEF history
<1>1. faults \in Nat /\ faults' \in Nat /\ faults <= faults' /\ drawn \in 0 .. MaxEph
  BY DEF IInv, TypeOK
<1>2. TypeOK'
  <2>1. epoch' \in [Sides -> 0 .. MaxFaults] BY <1>1
  <2> QED BY <1>1, <2>1, TypeStep
<1>3. CookiesOK'
  <2>1. \A p \in Sides : epoch'[p] \in 0 .. faults' OBVIOUS
  <2>2. \A m \in net' : m.type = "cookie" => m.cookie \in 0 .. faults'
    BY <1>1 DEF IInv, CookiesOK
  <2> QED BY <2>1, <2>2 DEF CookiesOK
<1>4. NetOK' /\ AnsweredOnce'
  BY NetQuiet
<1>5. PendingOK' /\ NothingAnew
  BY PendingQuiet
<1>6. HalvesOK' /\ OldSent /\ OldDelivered
  BY <1>5, SessionsStep
<1>7. Data' = Data
  BY DEF Data
<1>8. DataOK'
  <2>1. \A d \in Data : d.from \in Sides /\ d.receiver \in Indices /\ d.counter \in Nat
    BY DEF IInv, DataOK
  <2>2. delivered' \subseteq Data'
    BY <1>7 DEF IInv, DataOK
  <2> QED BY <1>6, <1>7, <2>1, <2>2 DEF DataOK, OldSent, OldDelivered
<1>9. NonceUnique'
  BY <1>7 DEF IInv, NonceUnique
<1> QED BY <1>2, <1>3, <1>4, <1>5, <1>6, <1>8, <1>9 DEF IInv

\* Sessions that are dropped have no successor to speak of.
LEMMA FewerSessions ==
    ASSUME IInv, \A p \in Sides : SessionsIn(tunn'[p]) \subseteq SessionsIn(tunn[p])
    PROVE  SessionsGoOn
<1>1. SUFFICES ASSUME NEW p \in Sides, NEW s \in SessionsIn(tunn'[p])
               PROVE  \E y \in SessionsIn(tunn[p]) : Descends(s, y)
  BY DEF SessionsGoOn
<1>2. s \in SessionsIn(tunn[p]) /\ tunn[p].sessions \in [Slots -> SessionSet \cup {None}]
  BY PlacedNow DEF Tunns
<1>3. s \in SessionSet
  BY <1>2 DEF SessionsIn
<1>4. Descends(s, s)
  BY <1>3 DEF Descends, SessionSet
<1> QED BY <1>2, <1>4

\* One side changes, and only drops what it had.
LEMMA OneSideQuiet ==
    ASSUME IInv, NEW p \in Sides, NEW STATE u, u \in Tunns, tunn' = [tunn EXCEPT ![p] = u],
           \A i \in Slots : u.sessions[i] \in {tunn[p].sessions[i], None},
           u.state \in {tunn[p].state, Idle, Expired},
           u.previous \in {tunn[p].previous, Idle, Expired}
    PROVE  /\ tunn' \in [Sides -> Tunns] /\ \A q \in Sides : Placed(tunn'[q])
           /\ PendingShrinks /\ SessionsGoOn
           /\ tunn'[p] = u /\ \A q \in Sides \ {p} : tunn'[q] = tunn[q]
<1>1. \A q \in Sides : tunn[q] \in Tunns /\ Placed(tunn[q])
  BY PlacedNow
<1>2. tunn \in [Sides -> Tunns]
  BY DEF IInv
<1>3. tunn'[p] = u /\ \A q \in Sides \ {p} : tunn'[q] = tunn[q]
  BY <1>2
<1>4. tunn' \in [Sides -> Tunns]
  BY <1>2
<1>5. \A q \in Sides : Placed(tunn'[q])
  BY <1>1, <1>3 DEF Placed
<1>6. PendingShrinks
  BY <1>3 DEF PendingShrinks
<1>7. \A q \in Sides : SessionsIn(tunn'[q]) \subseteq SessionsIn(tunn[q])
  BY <1>3 DEF SessionsIn
<1>8. SessionsGoOn
  BY <1>7, FewerSessions
<1> QED BY <1>3, <1>4, <1>5, <1>6, <1>8

\* A fault is counted.
LEMMA FaultCounted == ASSUME IInv, Fault PROVE faults' \in faults .. MaxFaults /\ faults' = faults + 1
BY DEF IInv, TypeOK, Fault

\* The secrets of a reachable state.
LEMMA EpochNow == ASSUME IInv PROVE epoch \in [Sides -> 0 .. faults] /\ faults \in faults .. MaxFaults
<1>1. epoch \in [Sides -> 0 .. MaxFaults] /\ \A p \in Sides : epoch[p] \in 0 .. faults
  BY DEF IInv, TypeOK, CookiesOK
<1> QED BY <1>1 DEF IInv, TypeOK

------------------------------------------------------------------------------
(* The actions *)

\* The clock, new secrets, and stuttering leave the tunnels alone.
LEMMA TunnelsStay ==
    ASSUME IInv, UNCHANGED tunn
    PROVE  /\ tunn' \in [Sides -> Tunns] /\ \A q \in Sides : Placed(tunn'[q])
           /\ PendingShrinks /\ SessionsGoOn /\ StampsStay
<1>1. \A q \in Sides : tunn[q] \in Tunns /\ Placed(tunn[q])
  BY PlacedNow
<1>2. SessionsGoOn
  BY FewerSessions
<1> QED BY <1>1, <1>2 DEF IInv, PendingShrinks, StampsStay

\* The clock ticks, a side refreshes its secret, or nothing happens.
LEMMA ClockStep ==
    ASSUME IInv, Tick \/ UNCHANGED vars \/ \E p \in Sides : RefreshCookie(p)
    PROVE  IInv'
<1> USE DEF history
<1>1. UNCHANGED <<tunn, net, drawn, history>>
  BY DEF Tick, vars, RefreshCookie
<1>2. now' \in 0 .. MaxClock
  BY DEF IInv, TypeOK, Tick, vars, RefreshCookie
<1>3. epoch' \in [Sides -> 0 .. faults'] /\ faults' \in faults .. MaxFaults
  <2>1. CASE Tick \/ UNCHANGED vars
    <3>1. UNCHANGED <<epoch, faults>> BY <2>1 DEF Tick, vars
    <3> QED BY <3>1, EpochNow
  <2>2. ASSUME NEW p \in Sides, RefreshCookie(p)
        PROVE  epoch' \in [Sides -> 0 .. faults'] /\ faults' \in faults .. MaxFaults
    <3>1. faults' = faults + 1 /\ faults' \in faults .. MaxFaults
      BY <2>2, FaultCounted DEF RefreshCookie
    <3>2. epoch' = [epoch EXCEPT ![p] = @ + 1]
      BY <2>2 DEF RefreshCookie
    <3>3. epoch \in [Sides -> 0 .. faults] /\ faults \in Nat
      BY EpochNow DEF IInv, TypeOK
    <3> QED BY <3>1, <3>2, <3>3
  <2> QED BY <2>1, <2>2
<1>4. /\ tunn' \in [Sides -> Tunns] /\ \A q \in Sides : Placed(tunn'[q])
      /\ PendingShrinks /\ SessionsGoOn /\ StampsStay
  BY <1>1, TunnelsStay
<1>5. IsFiniteSet(net')
  BY <1>1 DEF IInv, NetOK
<1>6. StampOK'
  BY <1>1, <1>4, StampQuiet
<1> QED BY <1>1, <1>2, <1>3, <1>4, <1>5, <1>6, QuietStep

\* A side under load answers with a cookie.
LEMMA DemandCookieStep == ASSUME IInv, NEW p \in Sides, NEW m \in net, DemandCookie(p, m) PROVE IInv'
<1> USE DEF history
<1> DEFINE c == CookieMsg(p, m)
<1>1. UNCHANGED <<tunn, epoch, now, drawn, history>> /\ net' = net \cup {c}
  BY DEF DemandCookie
<1>2. c.type = "cookie" /\ c.cookie = epoch[p]
  BY DEF CookieMsg
<1> HIDE DEF c
<1>3. faults' \in faults .. MaxFaults /\ faults' = faults + 1 /\ faults \in Nat
  BY FaultCounted DEF DemandCookie, IInv, TypeOK
<1>4. epoch \in [Sides -> 0 .. faults]
  BY EpochNow
<1>5. epoch' \in [Sides -> 0 .. faults'] /\ \A n \in net' \ net : n.type = "cookie" /\ n.cookie \in 0 .. faults'
  BY <1>1, <1>2, <1>3, <1>4
<1>6. /\ tunn' \in [Sides -> Tunns] /\ \A q \in Sides : Placed(tunn'[q])
      /\ PendingShrinks /\ SessionsGoOn /\ StampsStay
  BY <1>1, TunnelsStay
<1>7. IsFiniteSet(net')
  BY <1>1, FS_AddElement DEF IInv, NetOK
<1>8. StampOK'
  BY <1>1, <1>2, <1>6, StampQuiet
<1>9. now' \in 0 .. MaxClock
  BY <1>1 DEF IInv, TypeOK
<1> QED BY <1>1, <1>3, <1>5, <1>6, <1>7, <1>8, <1>9, QuietStep

\* A side drops something of its own, or takes a cookie.
LEMMA OneSideStep ==
    ASSUME IInv, NEW p \in Sides, NEW STATE u, u \in Tunns, tunn' = [tunn EXCEPT ![p] = u],
           \A i \in Slots : u.sessions[i] \in {tunn[p].sessions[i], None},
           u.state \in {tunn[p].state, Idle, Expired},
           u.previous \in {tunn[p].previous, Idle, Expired},
           u.stamp = tunn[p].stamp /\ u.next_index = tunn[p].next_index,
           UNCHANGED <<epoch, now, net, drawn, history>>, Fault \/ UNCHANGED faults
    PROVE  IInv'
<1>1. /\ tunn' \in [Sides -> Tunns] /\ \A q \in Sides : Placed(tunn'[q])
      /\ PendingShrinks /\ SessionsGoOn
      /\ tunn'[p] = u /\ \A q \in Sides \ {p} : tunn'[q] = tunn[q]
  BY OneSideQuiet
<1>2. StampsStay
  BY <1>1 DEF StampsStay
<1>3. StampOK'
  BY <1>2, StampQuiet
<1>4. IsFiniteSet(net') /\ now' \in 0 .. MaxClock
  BY DEF IInv, NetOK, TypeOK
<1>5. faults' \in faults .. MaxFaults /\ epoch' \in [Sides -> 0 .. faults']
  <2>1. epoch \in [Sides -> 0 .. faults] /\ faults \in faults .. MaxFaults /\ faults \in Nat
    BY EpochNow DEF IInv, TypeOK
  <2>2. CASE Fault
    <3>1. faults' \in faults .. MaxFaults /\ faults' = faults + 1 BY <2>2, FaultCounted
    <3> QED BY <2>1, <3>1
  <2>3. CASE UNCHANGED faults BY <2>1, <2>3
  <2> QED BY <2>2, <2>3
<1> QED BY <1>1, <1>3, <1>4, <1>5, QuietStep

\* A cookie reply.
LEMMA ReceiveCookieStep == ASSUME IInv, NEW p \in Sides, NEW m \in net, ReceiveCookie(p, m) PROVE IInv'
<1> DEFINE u == [tunn[p] EXCEPT !.write_cookie = m.cookie]
<1>1. tunn[p] \in Tunns /\ tunn \in [Sides -> Tunns]
  BY DEF IInv
<1>2. m.cookie \in {None} \cup 0 .. MaxFaults
  BY DEF ReceiveCookie, Arrives, IInv, CookiesOK, TypeOK
<1>3. /\ u \in Tunns /\ u.sessions = tunn[p].sessions /\ u.state = tunn[p].state
      /\ u.previous = tunn[p].previous /\ u.stamp = tunn[p].stamp
      /\ u.next_index = tunn[p].next_index
  BY <1>1, <1>2 DEF Tunns
<1>4. tunn' = [tunn EXCEPT ![p] = u]
  BY <1>1 DEF ReceiveCookie
<1> HIDE DEF u
<1> QED BY <1>3, <1>4, OneSideStep DEF ReceiveCookie

\* A cookie expires.
LEMMA ExpireCookieStep == ASSUME IInv, NEW p \in Sides, ExpireCookie(p) PROVE IInv'
<1> DEFINE u == [tunn[p] EXCEPT !.write_cookie = None]
<1>1. tunn[p] \in Tunns /\ tunn \in [Sides -> Tunns]
  BY DEF IInv
<1>2. /\ u \in Tunns /\ u.sessions = tunn[p].sessions /\ u.state = tunn[p].state
      /\ u.previous = tunn[p].previous /\ u.stamp = tunn[p].stamp
      /\ u.next_index = tunn[p].next_index
  BY <1>1 DEF Tunns
<1>3. tunn' = [tunn EXCEPT ![p] = u]
  BY <1>1 DEF ExpireCookie
<1> HIDE DEF u
<1> QED BY <1>2, <1>3, OneSideStep DEF ExpireCookie

\* A session expires.
LEMMA ExpireSessionStep ==
    ASSUME IInv, NEW p \in Sides, NEW i \in Slots, ExpireSession(p, i) PROVE IInv'
<1> DEFINE ss == [tunn[p].sessions EXCEPT ![i] = None]
           ts == [tunn[p].timers EXCEPT ![i] = now]
           u == [tunn[p] EXCEPT !.sessions = ss, !.timers = ts]
<1>1. /\ tunn[p] \in Tunns /\ tunn \in [Sides -> Tunns] /\ now \in 0 .. MaxClock
      /\ tunn[p].sessions \in [Slots -> SessionSet \cup {None}]
      /\ tunn[p].timers \in [Slots -> 0 .. MaxClock]
  BY DEF IInv, TypeOK, Tunns
<1>2. /\ ss \in [Slots -> SessionSet \cup {None}] /\ ts \in [Slots -> 0 .. MaxClock]
      /\ \A j \in Slots : ss[j] \in {tunn[p].sessions[j], None}
  BY <1>1
<1>3. tunn' = [tunn EXCEPT ![p] = u]
  BY <1>1 DEF ExpireSession, Tunns
<1> HIDE DEF ss, ts
<1>4. /\ u \in Tunns /\ u.sessions = ss /\ u.state = tunn[p].state
      /\ u.previous = tunn[p].previous /\ u.stamp = tunn[p].stamp
      /\ u.next_index = tunn[p].next_index
  BY <1>1, <1>2 DEF Tunns
<1> HIDE DEF u
<1> QED BY <1>2, <1>3, <1>4, OneSideStep DEF ExpireSession

\* A tunnel gives up.
LEMMA ExpireStep == ASSUME IInv, NEW p \in Sides, Expire(p) PROVE IInv'
<1> DEFINE ss == [i \in Slots |-> None]
           u == [tunn[p] EXCEPT !.state = Expired, !.previous = Expired, !.sessions = ss]
<1>1. tunn[p] \in Tunns /\ tunn \in [Sides -> Tunns]
  BY DEF IInv
<1>2. ss \in [Slots -> SessionSet \cup {None}] /\ \A j \in Slots : ss[j] = None
  OBVIOUS
<1>3. tunn' = [tunn EXCEPT ![p] = u]
  BY <1>1 DEF Expire, Tunns
<1> HIDE DEF ss
<1>4. Expired \in HandshakeStates
  BY DEF HandshakeStates
<1>5. /\ u \in Tunns /\ u.sessions = ss /\ u.state = Expired
      /\ u.previous = Expired /\ u.stamp = tunn[p].stamp
      /\ u.next_index = tunn[p].next_index
  BY <1>1, <1>2, <1>4 DEF Tunns
<1> HIDE DEF u
<1>6. \A i \in Slots : u.sessions[i] \in {tunn[p].sessions[i], None}
  BY <1>2, <1>5
<1>7. Fault /\ UNCHANGED <<epoch, now, net, drawn, history>>
  BY DEF Expire
<1> QED BY <1>3, <1>5, <1>6, <1>7, OneSideStep

\* A Tunn made anew has indices of its own, so nothing it has answered is on the way.
LEMMA NewTunnTyped ==
    ASSUME NEW g \in {0, 1}
    PROVE  LET u == NewTunn(g) IN
           /\ u \in Tunns /\ u.state = Idle /\ u.previous = Idle
           /\ u.next_index = g * IndexSpace /\ u.stamp = 0 /\ u.current = 0
           /\ \A i \in Slots : u.sessions[i] = None
<1> DEFINE ss == [i \in Slots |-> None]
           ts == [i \in Slots |-> 0]
<1>1. ss \in [Slots -> SessionSet \cup {None}] /\ \A i \in Slots : ss[i] = None
  OBVIOUS
<1>2. ts \in [Slots -> 0 .. MaxClock]
  OBVIOUS
<1>3. g * IndexSpace \in Indices /\ 0 \in Indices
  <2>1. g = 0 \/ g = 1 OBVIOUS
  <2> QED BY <2>1 DEF Indices
<1>4. Idle \in HandshakeStates
  BY DEF HandshakeStates
<1>5. NewTunn(g) = [state |-> Idle, previous |-> Idle, next_index |-> g * IndexSpace, stamp |-> 0,
        sessions |-> ss, timers |-> ts, current |-> 0,
        write_cookie |-> None, cookie_index |-> 0, last_mac1 |-> None]
  BY DEF NewTunn
<1> HIDE DEF ss, ts
<1> QED BY <1>1, <1>2, <1>3, <1>4, <1>5 DEF Tunns

\* The peer is made anew.
LEMMA RecreateStep == ASSUME IInv, NEW p \in Sides, Recreate(p) PROVE IInv'
<1> USE DEF history
<1> DEFINE u == NewTunn(1)
<1>1. /\ u \in Tunns /\ u.state = Idle /\ u.previous = Idle
      /\ u.next_index = IndexSpace /\ u.stamp = 0
      /\ \A i \in Slots : u.sessions[i] = None
  BY NewTunnTyped
<1>2. tunn' = [tunn EXCEPT ![p] = u] /\ UNCHANGED <<epoch, now, net, drawn, history>>
  BY DEF Recreate
<1> HIDE DEF u
<1>3. /\ tunn' \in [Sides -> Tunns] /\ \A q \in Sides : Placed(tunn'[q])
      /\ PendingShrinks /\ SessionsGoOn
      /\ tunn'[p] = u /\ \A q \in Sides \ {p} : tunn'[q] = tunn[q]
  <2>1. \A i \in Slots : u.sessions[i] \in {tunn[p].sessions[i], None}
    BY <1>1
  <2>2. u.state \in {tunn[p].state, Idle, Expired} /\ u.previous \in {tunn[p].previous, Idle, Expired}
    BY <1>1
  <2> QED BY <1>1, <1>2, <2>1, <2>2, OneSideQuiet
<1>4. tunn[p].next_index \div IndexSpace = 0 /\ IndexSpace \div IndexSpace = 1
  <2>1. tunn[p].next_index \in 0 .. IndexSpace - 1
    BY DEF IInv, TypeOK, Indices, Recreate
  <2>2. (0 * IndexSpace + tunn[p].next_index) \div IndexSpace = 0
    BY <2>1, Division
  <2>3. (1 * IndexSpace + 0) \div IndexSpace = 1
    BY Division
  <2> QED BY <2>1, <2>2, <2>3
<1>5. StampOK'
  <2>1. SUFFICES ASSUME NEW r \in net, r.type = "resp"
        PROVE  /\ r.sender \div IndexSpace <= tunn'[r.from].next_index \div IndexSpace
               /\ r.sender \div IndexSpace = tunn'[r.from].next_index \div IndexSpace
                     => r.ini <= tunn'[r.from].stamp
    BY <1>2 DEF StampOK
  <2>2. /\ r.sender \div IndexSpace <= tunn[r.from].next_index \div IndexSpace
        /\ r.sender \div IndexSpace = tunn[r.from].next_index \div IndexSpace
              => r.ini <= tunn[r.from].stamp
    BY <2>1 DEF IInv, StampOK
  <2>3. r.from \in Sides /\ r.sender \in Nat
    BY <2>1 DEF IInv, NetOK, Indices
  <2>4. r.sender \div IndexSpace \in Nat
    BY <2>3, Remainder
  <2>5. CASE r.from = p
    <3> DEFINE x == r.sender \div IndexSpace
    <3>1. x \in Nat /\ x <= 0 BY <1>4, <2>2, <2>4, <2>5
    <3>2. tunn'[r.from].next_index \div IndexSpace = 1 BY <1>1, <1>3, <1>4, <2>5
    <3> HIDE DEF x
    <3>3. x <= 1 /\ x # 1 BY <3>1
    <3> QED BY <3>2, <3>3 DEF x
  <2>6. CASE r.from # p
    BY <1>3, <2>2, <2>3, <2>6
  <2> QED BY <2>5, <2>6
<1>6. IsFiniteSet(net') /\ now' \in 0 .. MaxClock
  BY <1>2 DEF IInv, NetOK, TypeOK
<1>7. faults' \in faults .. MaxFaults /\ epoch' \in [Sides -> 0 .. faults']
  <2>1. faults' \in faults .. MaxFaults /\ faults' = faults + 1
    BY FaultCounted DEF Recreate
  <2>2. epoch \in [Sides -> 0 .. faults] /\ faults \in Nat
    BY EpochNow DEF IInv, TypeOK
  <2> QED BY <1>2, <2>1, <2>2
<1> QED BY <1>2, <1>3, <1>5, <1>6, <1>7, QuietStep

\* The two halves of a key.
LEMMA Pair == ASSUME NEW a, NEW b, NEW c, NEW d, <<a, b>> = <<c, d>> PROVE a = c /\ b = d
OBVIOUS

\* A side has one session under a key: both would come from the same response.
OwnEph(N) ==
    \A m, n \in N : m.type \in {"init", "resp"} /\ n.type \in {"init", "resp"} /\ m.eph = n.eph => m = n

\* Every session of tunnel t comes from a response among N.
Answered(N, t, p) ==
    \A s \in SessionsIn(t) : \E r \in N :
        /\ r.type = "resp" /\ s.key = <<r.ini, r.eph>>
        /\ \/ r.from = p /\ s.local = r.sender
           \/ r.from # p /\ s.local = r.receiver

\* Two sessions under one key are in the same slot.
LEMMA SameSlot ==
    ASSUME NEW N, NEW t, NEW p, Placed(t), OwnEph(N), Answered(N, t, p),
           NEW i \in Slots, NEW j \in Slots, t.sessions[i] # None, t.sessions[j] # None,
           t.sessions[i].key = t.sessions[j].key
    PROVE  i = j
<1>1. t.sessions[i] \in SessionsIn(t) /\ t.sessions[j] \in SessionsIn(t)
  BY DEF SessionsIn
<1>2. PICK r \in N : /\ r.type = "resp" /\ t.sessions[i].key = <<r.ini, r.eph>>
                     /\ \/ r.from = p /\ t.sessions[i].local = r.sender
                        \/ r.from # p /\ t.sessions[i].local = r.receiver
  BY <1>1 DEF Answered
<1>3. PICK q \in N : /\ q.type = "resp" /\ t.sessions[j].key = <<q.ini, q.eph>>
                     /\ \/ q.from = p /\ t.sessions[j].local = q.sender
                        \/ q.from # p /\ t.sessions[j].local = q.receiver
  BY <1>1 DEF Answered
<1>4. r.eph = q.eph
  <2>1. <<r.ini, r.eph>> = <<q.ini, q.eph>> BY <1>2, <1>3
  <2> QED BY <2>1, Pair
<1>5. r = q
  BY <1>2, <1>3, <1>4 DEF OwnEph
<1>6. t.sessions[i].local = t.sessions[j].local
  BY <1>2, <1>3, <1>5
<1> QED BY <1>6 DEF Placed

\* After a step, the session of side p under a key is the one in slot j.
LEMMA OnlySession ==
    ASSUME NetOK', HalvesOK', NEW p \in Sides, Placed(tunn'[p]), NEW j \in Slots,
           tunn'[p].sessions[j] # None,
           NEW s \in SessionsIn(tunn'[p]), s.key = tunn'[p].sessions[j].key
    PROVE  s = tunn'[p].sessions[j]
<1>1. PICK i \in Slots : s = tunn'[p].sessions[i] /\ s # None
  BY DEF SessionsIn
<1>2. OwnEph(net')
  BY DEF NetOK, OwnEph
<1>3. Answered(net', tunn'[p], p)
  BY DEF HalvesOK, Sessions, SessionsIn, FromResponse, Answered
<1>4. i = j
  BY <1>1, <1>2, <1>3, SameSlot
<1> QED BY <1>1, <1>4

\* Packet d was sealed under the session in slot j.
LEMMA PacketSent ==
    ASSUME IInv, NEW p \in Sides, NEW d, NEW j \in Slots,
           tunn' \in [Sides -> Tunns], \A q \in Sides : Placed(tunn'[q]),
           PendingShrinks, SessionsGoOn, StampsStay,
           net' = net \cup {d}, d \notin net, d.type = "data", d.from = p, d.receiver \in Indices, d.counter \in Nat,
           tunn'[p].sessions[j] # None, tunn'[p].sessions[j].key = d.key,
           d.counter < tunn'[p].sessions[j].sent,
           sealed' = sealed + 1, UNCHANGED <<epoch, now, drawn, faults, opened, delivered>>
    PROVE  IInv'
<1>1. TypeOK'
  BY TypeStep DEF IInv, TypeOK
<1>2. CookiesOK'
  BY DEF IInv, CookiesOK
<1>3. IsFiniteSet(net) /\ IsFiniteSet(net')
  BY FS_AddElement DEF IInv, NetOK
<1>4. NetOK' /\ AnsweredOnce'
  BY <1>3, NetQuiet
<1>5. StampOK'
  BY StampQuiet
<1>6. PendingOK' /\ NothingAnew
  BY PendingQuiet
<1>7. HalvesOK' /\ OldSent /\ OldDelivered
  BY <1>6, SessionsStep
<1>8. Data' = Data \cup {d} /\ d \notin Data
  BY DEF Data
<1>9. Used(p, d.key)' /\ \A s \in Sessions(p)' : s.key = d.key => d.counter < s.sent
  <2>1. Sessions(p)' = SessionsIn(tunn'[p]) /\ tunn'[p].sessions[j] \in SessionsIn(tunn'[p])
    BY DEF Sessions, SessionsIn
  <2>2. \A s \in Sessions(p)' : s.key = d.key => s = tunn'[p].sessions[j]
    BY <1>4, <1>7, <2>1, OnlySession
  <2>3. \A s \in Sessions(p)' : Used(p, s.key)'
    BY <1>7 DEF HalvesOK
  <2>4. PICK s \in Sessions(p)' : s = tunn'[p].sessions[j]
    BY <2>1
  <2>5. Used(p, d.key)'
    BY <2>3, <2>4
  <2> QED BY <2>2, <2>5
<1>10. DataOK'
  <2>1. \A e \in Data : e.from \in Sides /\ e.receiver \in Indices /\ e.counter \in Nat
    BY DEF IInv, DataOK
  <2>2. delivered' \subseteq Data'
    BY <1>8 DEF IInv, DataOK
  <2>3. \A e \in Data' : /\ e.from \in Sides /\ e.receiver \in Indices /\ e.counter \in Nat /\ Used(e.from, e.key)'
                         /\ \A s \in Sessions(e.from)' : s.key = e.key => e.counter < s.sent
    <3> SUFFICES ASSUME NEW e \in Data'
                 PROVE  /\ e.from \in Sides /\ e.receiver \in Indices /\ e.counter \in Nat /\ Used(e.from, e.key)'
                        /\ \A s \in Sessions(e.from)' : s.key = e.key => e.counter < s.sent
      OBVIOUS
    <3>1. CASE e \in Data BY <1>7, <2>1, <3>1 DEF OldSent
    <3>2. CASE e = d
      <4>1. e.from = p /\ e.receiver = d.receiver /\ e.counter = d.counter /\ e.key = d.key BY <3>2
      <4> QED BY <1>9, <4>1
    <3> QED BY <1>8, <3>1, <3>2
  <2> QED BY <1>7, <2>2, <2>3 DEF DataOK, OldDelivered
<1>11. NonceUnique'
  <2>1. IsFiniteSet(Data)
    BY <1>3, FS_Subset DEF Data
  <2>2. Cardinality(Data') = Cardinality(Data) + 1
    BY <1>8, <2>1, FS_AddElement
  <2> QED BY <2>2 DEF IInv, NonceUnique
<1> QED BY <1>1, <1>2, <1>4, <1>5, <1>6, <1>7, <1>10, <1>11 DEF IInv

\* One side goes on with sessions of its own.
LEMMA OneSideGoesOn ==
    ASSUME IInv, NEW p \in Sides, NEW STATE u, u \in Tunns, Placed(u),
           tunn' = [tunn EXCEPT ![p] = u],
           \A s \in SessionsIn(u) :
              \/ \E y \in SessionsIn(tunn[p]) : Descends(s, y)
              \/ ~Used(p, s.key) /\ Used(p, s.key)' /\ \E r \in net' : FromResponse(p, s, r)'
    PROVE  /\ tunn' \in [Sides -> Tunns] /\ \A q \in Sides : Placed(tunn'[q])
           /\ SessionsGoOn
           /\ tunn'[p] = u /\ \A q \in Sides \ {p} : tunn'[q] = tunn[q]
<1>1. \A q \in Sides : tunn[q] \in Tunns /\ Placed(tunn[q])
  BY PlacedNow
<1>2. tunn \in [Sides -> Tunns]
  BY DEF IInv
<1>3. tunn'[p] = u /\ \A q \in Sides \ {p} : tunn'[q] = tunn[q]
  BY <1>2
<1>4. tunn' \in [Sides -> Tunns] /\ \A q \in Sides : Placed(tunn'[q])
  BY <1>1, <1>2, <1>3
<1>5. SessionsGoOn
  <2>1. SUFFICES ASSUME NEW q \in Sides, NEW s \in SessionsIn(tunn'[q])
                 PROVE  \/ \E y \in SessionsIn(tunn[q]) : Descends(s, y)
                        \/ ~Used(q, s.key) /\ Used(q, s.key)' /\ \E r \in net' : FromResponse(q, s, r)'
    BY DEF SessionsGoOn
  <2>2. CASE q = p
    BY <1>3, <2>2
  <2>3. CASE q # p
    <3>1. s \in SessionsIn(tunn[q]) /\ tunn[q].sessions \in [Slots -> SessionSet \cup {None}]
      BY <1>1, <1>3, <2>3 DEF Tunns
    <3>2. s \in SessionSet
      BY <3>1 DEF SessionsIn
    <3>3. Descends(s, s)
      BY <3>2 DEF Descends, SessionSet
    <3> QED BY <3>1, <3>3
  <2> QED BY <2>2, <2>3
<1> QED BY <1>3, <1>4, <1>5

\* A packet gets the next counter of the current session.
LEMMA SendDataStep == ASSUME IInv, NEW p \in Sides, SendData(p) PROVE IInv'
<1> DEFINE t == tunn[p]
           i == Slot(t.current)
           s == t.sessions[i]
           z == [s EXCEPT !.sent = @ + 1]
           u == Sealed(t, i)
           d == DataMsg(p, s)
<1>1. t \in Tunns /\ Placed(t)
  BY PlacedNow
<1>2. i \in Slots
  <2>1. t.current \in Indices BY <1>1 DEF Tunns
  <2> QED BY <2>1, SlotIn
<1>3. /\ s # None /\ tunn' = [tunn EXCEPT ![p] = u] /\ net' = net \cup {d}
      /\ sealed' = sealed + 1 /\ UNCHANGED <<epoch, now, drawn, faults, opened, delivered>>
  BY DEF SendData
<1>4. s \in SessionSet /\ s \in SessionsIn(t)
  BY <1>1, <1>2, <1>3 DEF Tunns, SessionsIn
<1>5. /\ Replaced(t, u, i, z) /\ z \in SessionSet /\ Descends(z, s) /\ z.sent = s.sent + 1
  BY <1>1, <1>2, <1>3, SealedFields
<1>6. /\ d.type = "data" /\ d.from = p /\ d.key = s.key /\ d.counter = s.sent
  BY DEF DataMsg
<1>7. d.counter \in Nat /\ d.receiver \in Indices
  BY <1>4, <1>6 DEF SessionSet, DataMsg
<1> HIDE DEF z, u, d, i
<1>8. /\ \A x \in SessionsIn(u) : \E y \in SessionsIn(t) : Descends(x, y)
      /\ Placed(u) /\ u.sessions[i] = z /\ u \in Tunns
  <2>1. u \in Tunns BY <1>5 DEF Replaced
  <2> QED BY <1>1, <1>2, <1>3, <1>5, <2>1, ReplacedSessions
<1>9. /\ tunn' \in [Sides -> Tunns] /\ \A q \in Sides : Placed(tunn'[q])
      /\ SessionsGoOn
      /\ tunn'[p] = u /\ \A q \in Sides \ {p} : tunn'[q] = tunn[q]
  BY <1>3, <1>8, OneSideGoesOn
<1>10. PendingShrinks /\ StampsStay
  BY <1>5, <1>9 DEF PendingShrinks, StampsStay, Replaced
<1>11. d \notin net
  <2>1. SUFFICES ASSUME d \in net PROVE FALSE
    OBVIOUS
  <2>2. d \in Data /\ s \in Sessions(p)
    BY <1>4, <1>6, <2>1 DEF Data, Sessions, SessionsIn
  <2>3. d.counter < s.sent
    BY <1>6, <2>2 DEF IInv, DataOK
  <2> QED BY <1>6, <1>7, <2>3
<1>12. /\ tunn'[p].sessions[i] # None /\ tunn'[p].sessions[i].key = d.key
       /\ d.counter < tunn'[p].sessions[i].sent
  BY <1>5, <1>6, <1>7, <1>8, <1>9, SessionIsThere DEF Descends
<1> QED BY <1>2, <1>3, <1>6, <1>7, <1>9, <1>10, <1>11, <1>12, PacketSent

\* A packet that opens was not delivered before: its session would know of it.
LEMMA ReceiveDataStep == ASSUME IInv, NEW p \in Sides, NEW m \in net, ReceiveData(p, m) PROVE IInv'
<1> DEFINE t == tunn[p]
           i == Slot(m.receiver)
           s == t.sessions[i]
           z == [s EXCEPT !.rcvd = @ \cup {m.counter}]
           v == Opened(t, i, m.counter)
           u == SetCurrent(v, m.receiver)
<1>1. t \in Tunns /\ Placed(t) /\ tunn \in [Sides -> Tunns]
  BY PlacedNow DEF IInv
<1>2. /\ m.type = "data" /\ m.from # p /\ s # None /\ s.local = m.receiver /\ s.key = m.key
      /\ m.counter \notin s.rcvd
      /\ opened' = opened + 1 /\ delivered' = delivered \cup {m}
      /\ UNCHANGED <<epoch, now, net, drawn, faults, sealed>>
  BY DEF ReceiveData, Arrives
<1>3. tunn' = [tunn EXCEPT ![p] = u]
  BY <1>1 DEF ReceiveData
<1>4. m \in Data /\ m.from \in Sides /\ m.receiver \in Indices /\ m.counter \in Nat
  BY <1>2 DEF IInv, DataOK, Data
<1>5. i \in Slots
  BY <1>4, SlotIn
<1>6. s \in SessionSet /\ s \in SessionsIn(t) /\ m.receiver \in Indices
  BY <1>1, <1>2, <1>5 DEF Tunns, SessionsIn, SessionSet
<1>7. Replaced(t, v, i, z) /\ z \in SessionSet /\ Descends(z, s) /\ m.counter \in z.rcvd
  BY <1>1, <1>2, <1>4, <1>5, OpenedFields
<1> HIDE DEF z, v, i
<1>8. /\ \A x \in SessionsIn(v) : \E y \in SessionsIn(t) : Descends(x, y)
      /\ Placed(v) /\ v.sessions[i] = z /\ v \in Tunns
  <2>1. v \in Tunns BY <1>7 DEF Replaced
  <2> QED BY <1>1, <1>2, <1>5, <1>7, <2>1, ReplacedSessions
<1>9. /\ u \in Tunns /\ u.sessions = v.sessions /\ u.state = v.state /\ u.previous = v.previous
      /\ u.next_index = v.next_index /\ u.stamp = v.stamp
  BY <1>6, <1>8, SetCurrentFields
<1> HIDE DEF u
<1>10. /\ \A x \in SessionsIn(u) : \E y \in SessionsIn(t) : Descends(x, y)
       /\ Placed(u) /\ u.sessions[i] = z
  BY <1>8, <1>9 DEF SessionsIn, Placed
<1>11. /\ tunn' \in [Sides -> Tunns] /\ \A q \in Sides : Placed(tunn'[q])
       /\ SessionsGoOn
       /\ tunn'[p] = u /\ \A q \in Sides \ {p} : tunn'[q] = tunn[q]
  BY <1>3, <1>9, <1>10, OneSideGoesOn
<1>12. PendingShrinks /\ StampsStay
  BY <1>7, <1>9, <1>11 DEF PendingShrinks, StampsStay, Replaced
<1>13. TypeOK' /\ CookiesOK'
  BY <1>2, <1>11, TypeStep DEF IInv, TypeOK, CookiesOK
<1>14. IsFiniteSet(net') /\ net \subseteq net' /\ Data' = Data
  BY <1>2 DEF IInv, NetOK, Data
<1>15. NetOK' /\ AnsweredOnce' /\ StampOK'
  BY <1>2, <1>12, <1>14, NetQuiet, StampQuiet
<1>16. PendingOK' /\ NothingAnew
  BY <1>12, <1>14, PendingQuiet
<1>17. HalvesOK' /\ OldSent /\ OldDelivered
  BY <1>11, <1>14, <1>16, SessionsStep
<1>18. s \in Sessions(p) /\ Used(p, m.key)'
  <2>1. s \in Sessions(p) BY <1>6 DEF Sessions, SessionsIn
  <2>2. Used(p, m.key) BY <1>2, <2>1 DEF IInv, HalvesOK
  <2>3. NetOK BY DEF IInv
  <2> QED BY <1>14, <1>16, <2>1, <2>2, <2>3, UsedKept
<1>19. m \notin delivered
  <2>1. SUFFICES ASSUME m \in delivered PROVE FALSE
    OBVIOUS
  <2>2. p \in Sides \ {m.from}
    BY <1>2
  <2>3. m.counter \in s.rcvd
    BY <1>2, <1>18, <2>1, <2>2 DEF IInv, DataOK
  <2> QED BY <1>2, <2>3
<1>20. \A x \in Sessions(p)' : x.key = m.key => m.counter \in x.rcvd
  <2>1. z # None BY <1>7, SessionIsThere
  <2>2. tunn'[p].sessions[i] = z BY <1>10, <1>11
  <2>3. Sessions(p)' = SessionsIn(tunn'[p]) BY DEF Sessions, SessionsIn
  <2>4. z.key = m.key BY <1>2, <1>7 DEF Descends
  <2>5. \A x \in Sessions(p)' : x.key = m.key => x = z
    BY <1>5, <1>11, <1>15, <1>17, <2>1, <2>2, <2>3, <2>4, OnlySession
  <2> QED BY <1>7, <2>5
<1>21. DataOK'
  <2>1. \A e \in Data : e.from \in Sides /\ e.receiver \in Indices /\ e.counter \in Nat
    BY DEF IInv, DataOK
  <2>2. delivered' \subseteq Data'
    BY <1>2, <1>4, <1>14 DEF IInv, DataOK
  <2>3. \A e \in delivered' : \A q \in Sides \ {e.from} :
          /\ Used(q, e.key)'
          /\ \A x \in Sessions(q)' : x.key = e.key => e.counter \in x.rcvd
    <3>1. SUFFICES ASSUME NEW e \in delivered', NEW q \in Sides \ {e.from}
                   PROVE  /\ Used(q, e.key)'
                          /\ \A x \in Sessions(q)' : x.key = e.key => e.counter \in x.rcvd
      OBVIOUS
    <3>2. CASE e \in delivered BY <1>17, <3>2 DEF OldDelivered
    <3>3. CASE e = m
      <4>1. q = p BY <1>2, <1>4, <3>3, TwoSides
      <4> QED BY <1>18, <1>20, <3>3, <4>1
    <3> QED BY <1>2, <3>2, <3>3
  <2> QED BY <1>14, <1>17, <2>1, <2>2, <2>3 DEF DataOK, OldSent
<1>22. NonceUnique'
  <2>1. IsFiniteSet(delivered)
    <3>1. delivered \subseteq net BY DEF IInv, DataOK, Data
    <3>2. IsFiniteSet(net) BY DEF IInv, NetOK
    <3> QED BY <3>1, <3>2, FS_Subset
  <2>2. Cardinality(delivered \cup {m}) = Cardinality(delivered) + 1
    BY <1>19, <2>1, FS_AddElement
  <2> QED BY <1>2, <1>14, <2>2 DEF IInv, NonceUnique
<1> QED BY <1>11, <1>13, <1>15, <1>16, <1>17, <1>21, <1>22 DEF IInv

------------------------------------------------------------------------------
(* Handshake messages: a key nobody has seen *)

\* A message with a fresh ephemeral key is one of its kind.
LEMMA FreshMessage ==
    ASSUME IInv, NEW x, net' = net \cup {x}, x.type \in {"init", "resp"},
           x.eph = drawn + 1, drawn' = drawn + 1, drawn < MaxEph, x.from \in Sides, x.sender \in Indices,
           x.type = "resp" => \E m \in net : /\ m.type = "init" /\ m.from # x.from
                                             /\ m.eph = x.ini /\ m.sender = x.receiver
    PROVE  NetOK' /\ Data' = Data /\ drawn' \in 0 .. MaxEph /\ x \notin net
<1>1. drawn \in 0 .. MaxEph /\ drawn \in Nat /\ NetOK /\ IsFiniteSet(net)
  BY DEF IInv, TypeOK, NetOK
<1>2. \A m \in net : m.type \in {"init", "resp"} =>
        m.from \in Sides /\ m.eph \in 1 .. drawn /\ m.sender \in Indices
  BY <1>1 DEF NetOK
<1>3. \A m \in net : m.type \in {"init", "resp"} => m.eph # x.eph
  BY <1>1, <1>2
<1>4. IsFiniteSet(net')
  BY <1>1, FS_AddElement
<1>5. \A m \in net' : m.type \in {"init", "resp"} =>
        m.from \in Sides /\ m.eph \in 1 .. drawn' /\ m.sender \in Indices
  <2>1. \A m \in net : m.type \in {"init", "resp"} => m.eph \in 1 .. drawn + 1
    BY <1>1, <1>2
  <2>2. x.eph \in 1 .. drawn + 1
    BY <1>1
  <2> QED BY <1>2, <2>1, <2>2
<1>6. \A m, n \in net' : m.type \in {"init", "resp"} /\ n.type \in {"init", "resp"} /\ m.eph = n.eph
        => m = n
  <2>1. \A m, n \in net : m.type \in {"init", "resp"} /\ n.type \in {"init", "resp"} /\ m.eph = n.eph
          => m = n
    BY <1>1 DEF NetOK
  <2> QED BY <1>3, <2>1
<1>7. \A r \in net' : r.type = "resp" =>
        \E m \in net' : m.type = "init" /\ m.from # r.from /\ m.eph = r.ini /\ m.sender = r.receiver
  <2>1. \A r \in net : r.type = "resp" =>
          \E m \in net : m.type = "init" /\ m.from # r.from /\ m.eph = r.ini /\ m.sender = r.receiver
    BY <1>1 DEF NetOK
  <2> QED BY <2>1
<1>8. Data' = Data
  BY DEF Data
<1> QED BY <1>1, <1>3, <1>4, <1>5, <1>6, <1>7, <1>8 DEF NetOK

\* The stamp of a tunnel only grows while its own indices stay.
LEMMA StampStep ==
    ASSUME IInv, tunn' \in [Sides -> Tunns], net \subseteq net',
           \A q \in Sides : /\ tunn'[q].next_index \div IndexSpace = tunn[q].next_index \div IndexSpace
                            /\ tunn[q].stamp <= tunn'[q].stamp,
           \A r \in net' \ net : r.type = "resp" =>
              /\ r.from \in Sides /\ r.sender \div IndexSpace = tunn'[r.from].next_index \div IndexSpace
              /\ r.ini <= tunn'[r.from].stamp
    PROVE  StampOK'
<1>1. \A q \in Sides : tunn'[q].next_index \in Nat /\ tunn[q].stamp \in Nat /\ tunn'[q].stamp \in Nat
  <2>1. \A q \in Sides : tunn'[q] \in Tunns /\ tunn[q] \in Tunns
    BY DEF IInv
  <2> QED BY <2>1 DEF Tunns, Indices
<1>2. \A q \in Sides : tunn'[q].next_index \div IndexSpace \in Nat
  BY <1>1, Remainder
<1>3. SUFFICES ASSUME NEW r \in net', r.type = "resp"
      PROVE  /\ r.sender \div IndexSpace <= tunn'[r.from].next_index \div IndexSpace
             /\ r.sender \div IndexSpace = tunn'[r.from].next_index \div IndexSpace
                   => r.ini <= tunn'[r.from].stamp
  BY DEF StampOK
<1>4. CASE r \in net
  <2>1. r.from \in Sides /\ r.ini \in Nat
    BY <1>3, <1>4, IniDrawn DEF IInv, NetOK
  <2>2. /\ r.sender \div IndexSpace <= tunn[r.from].next_index \div IndexSpace
        /\ r.sender \div IndexSpace = tunn[r.from].next_index \div IndexSpace
              => r.ini <= tunn[r.from].stamp
    BY <1>3, <1>4 DEF IInv, StampOK
  <2>3. r.ini <= tunn[r.from].stamp => r.ini <= tunn'[r.from].stamp
    BY <1>1, <2>1
  <2> QED BY <2>1, <2>2, <2>3
<1>5. CASE r \notin net
  <2>1. /\ r.from \in Sides /\ r.sender \div IndexSpace = tunn'[r.from].next_index \div IndexSpace
        /\ r.ini <= tunn'[r.from].stamp
    BY <1>3, <1>5
  <2>2. PICK k \in Nat : k = tunn'[r.from].next_index \div IndexSpace
    BY <1>2, <2>1
  <2> QED BY <2>1, <2>2
<1> QED BY <1>4, <1>5

\* A step that sends one handshake message and no packet.
LEMMA HandshakeStep ==
    ASSUME IInv, tunn' \in [Sides -> Tunns], \A p \in Sides : Placed(tunn'[p]),
           net \subseteq net', NetOK', Data' = Data, drawn' \in 0 .. MaxEph,
           \A m \in net' \ net : m.type # "cookie",
           NothingAnew, PendingOK', SessionsGoOn, StampOK', AnsweredOnce',
           UNCHANGED <<epoch, now, faults, sealed, opened, delivered>>
    PROVE  IInv'
<1>1. TypeOK'
  BY TypeStep DEF IInv, TypeOK
<1>2. CookiesOK'
  BY DEF IInv, CookiesOK
<1>3. HalvesOK' /\ OldSent /\ OldDelivered
  BY SessionsStep
<1>4. DataOK'
  <2>1. \A d \in Data : d.from \in Sides /\ d.receiver \in Indices /\ d.counter \in Nat
    BY DEF IInv, DataOK
  <2>2. delivered' \subseteq Data'
    BY DEF IInv, DataOK
  <2> QED BY <1>3, <2>1, <2>2 DEF DataOK, OldSent, OldDelivered
<1>5. NonceUnique'
  BY DEF IInv, NonceUnique
<1> QED BY <1>1, <1>2, <1>3, <1>4, <1>5 DEF IInv

\* A tunnel whose handshake moved on: what it awaits is the initiation it just
\* sent, if any, and the one before.
LEMMA PendingStep ==
    ASSUME IInv, net \subseteq net', NEW p \in Sides, NEW e, NEW idx, e = drawn + 1,
           \A q \in Sides \ {p} : tunn'[q] = tunn[q],
           tunn'[p].previous = tunn[p].state,
           \/ tunn'[p].state.type # "InitSent"
           \/ tunn'[p].state.eph = e /\ tunn'[p].state.local_index = idx /\ SentInit(p, e, idx)'
    PROVE  PendingOK' /\ NothingAnew
<1>1. drawn \in Nat /\ NetOK /\ PendingOK
  BY DEF IInv, TypeOK
<1>2. \A q, f, i : SentInit(q, f, i) => SentInit(q, f, i)' /\ f \in 1 .. drawn
  <2>1. \A q, f, i : SentInit(q, f, i) => SentInit(q, f, i)'
    BY SentInitKept
  <2>2. \A q, f, i : SentInit(q, f, i) => f \in 1 .. drawn
    BY <1>1 DEF SentInit, NetOK
  <2> QED BY <2>1, <2>2
<1>3. \A f \in 1 .. drawn : f # e
  BY <1>1
<1>4. NothingAnew
  <2>1. SUFFICES ASSUME NEW q \in Sides, NEW f \in 1 .. drawn, Live(tunn'[q], f)
                 PROVE  Live(tunn[q], f)
    BY DEF NothingAnew
  <2>2. CASE q = p
    <3>1. ~Waits(tunn'[p].state, f) BY <1>3 DEF Waits
    <3> QED BY <2>1, <2>2, <3>1 DEF Live
  <2> QED BY <2>1, <2>2
<1>5. PendingOK'
  <2>1. SUFFICES ASSUME NEW q \in Sides
        PROVE  /\ (tunn[q].state.type = "InitSent" =>
                     SentInit(q, tunn[q].state.eph, tunn[q].state.local_index))'
               /\ (tunn[q].previous.type = "InitSent" =>
                     /\ SentInit(q, tunn[q].previous.eph, tunn[q].previous.local_index)
                     /\ ~Waits(tunn[q].state, tunn[q].previous.eph))'
    BY DEF PendingOK
  <2>2. /\ tunn[q].state.type = "InitSent" =>
              SentInit(q, tunn[q].state.eph, tunn[q].state.local_index)
        /\ tunn[q].previous.type = "InitSent" =>
              /\ SentInit(q, tunn[q].previous.eph, tunn[q].previous.local_index)
              /\ ~Waits(tunn[q].state, tunn[q].previous.eph)
    BY <1>1 DEF PendingOK
  <2>3. CASE q # p
    <3>1. tunn'[q] = tunn[q] BY <2>3
    <3> QED BY <1>2, <2>2, <3>1 DEF SentInit
  <2>4. CASE q = p
    <3>1. (tunn[q].state.type = "InitSent" =>
             SentInit(q, tunn[q].state.eph, tunn[q].state.local_index))'
      BY <2>4 DEF SentInit
    <3>2. ASSUME tunn'[q].previous.type = "InitSent"
          PROVE  (/\ SentInit(q, tunn[q].previous.eph, tunn[q].previous.local_index)
                  /\ ~Waits(tunn[q].state, tunn[q].previous.eph))'
      <4>1. tunn[q].state.type = "InitSent" /\ tunn'[q].previous = tunn[q].state
        BY <2>4, <3>2
      <4>2. SentInit(q, tunn[q].state.eph, tunn[q].state.local_index)
        BY <2>2, <4>1
      <4>3. tunn[q].state.eph \in 1 .. drawn
        BY <1>2, <4>2
      <4>4. ~Waits(tunn'[q].state, tunn'[q].previous.eph)
        BY <1>3, <2>4, <4>1, <4>3 DEF Waits
      <4>5. PICK m \in net : /\ m.type = "init" /\ m.from = q /\ m.eph = tunn[q].state.eph
                             /\ m.sender = tunn[q].state.local_index
        BY <4>2 DEF SentInit
      <4> QED BY <4>1, <4>4, <4>5 DEF SentInit
    <3> QED BY <3>1, <3>2
  <2> QED BY <2>3, <2>4
<1> QED BY <1>4, <1>5

\* An initiation draws a key.
LEMMA InitiateStep == ASSUME IInv, NEW p \in Sides, Initiate(p) PROVE IInv'
<1> DEFINE t == tunn[p]
<1>1. /\ t \in Tunns /\ Placed(t) /\ tunn \in [Sides -> Tunns] /\ drawn \in Nat /\ t.next_index \in Indices
  BY PlacedNow DEF IInv, TypeOK
<1>2. PICK e : e = drawn + 1
  OBVIOUS
<1>3. PICK x : x = InitMsg(p, t, e)
  OBVIOUS
<1>4. PICK u : u = SendInit(t, e)
  OBVIOUS
<1>5. /\ drawn < MaxEph /\ drawn' = e /\ tunn' = [tunn EXCEPT ![p] = u] /\ net' = net \cup {x}
      /\ UNCHANGED <<epoch, now, faults, sealed, opened, delivered>>
  BY <1>2, <1>3, <1>4 DEF Initiate
<1>6. e \in 1 .. MaxEph
  BY <1>1, <1>2, <1>5
<1>7. PICK idx \in Indices : /\ idx = IncIndex(t.next_index)
                             /\ idx \div IndexSpace = t.next_index \div IndexSpace
  BY <1>1, IncIndexIn
<1>8. /\ u \in Tunns /\ u.state = InitSent(idx, e) /\ u.previous = t.state
      /\ u.next_index = idx /\ u.stamp = t.stamp /\ u.sessions = t.sessions
  BY <1>1, <1>4, <1>6, <1>7, SendInitFields
<1>9. x.type = "init" /\ x.from = p /\ x.sender = idx /\ x.eph = e
  BY <1>3, <1>7 DEF InitMsg
<1>10. NetOK' /\ Data' = Data /\ drawn' \in 0 .. MaxEph
  BY <1>2, <1>5, <1>9, FreshMessage
<1>11. Placed(u) /\ \A s \in SessionsIn(u) : \E y \in SessionsIn(t) : Descends(s, y)
  <2>1. Placed(u) /\ SessionsIn(u) = SessionsIn(t) BY <1>1, <1>8 DEF Placed, SessionsIn
  <2>2. \A s \in SessionsIn(t) : s \in SessionSet BY <1>1 DEF SessionsIn, Tunns
  <2>3. \A s \in SessionsIn(t) : Descends(s, s) BY <2>2 DEF Descends, SessionSet
  <2> QED BY <2>1, <2>3
<1>12. /\ tunn' \in [Sides -> Tunns] /\ \A q \in Sides : Placed(tunn'[q])
       /\ SessionsGoOn
       /\ tunn'[p] = u /\ \A q \in Sides \ {p} : tunn'[q] = tunn[q]
  BY <1>5, <1>8, <1>11, OneSideGoesOn
<1>13. PendingOK' /\ NothingAnew
  <2>1. tunn'[p].previous = tunn[p].state /\ tunn'[p].state.eph = e /\ tunn'[p].state.local_index = idx
    BY <1>8, <1>12 DEF InitSent
  <2>2. SentInit(p, e, idx)'
    BY <1>5, <1>9 DEF SentInit
  <2>3. net \subseteq net' BY <1>5
  <2> QED BY <1>2, <1>12, <2>1, <2>2, <2>3, PendingStep
<1>14. StampOK'
  <2>1. \A q \in Sides : /\ tunn'[q].next_index \div IndexSpace = tunn[q].next_index \div IndexSpace
                         /\ tunn[q].stamp <= tunn'[q].stamp
    <3>1. \A q \in Sides : tunn[q].stamp \in Nat BY DEF IInv, TypeOK
    <3> QED BY <1>7, <1>8, <1>12, <3>1
  <2>2. \A r \in net' \ net : r.type # "resp" BY <1>5, <1>9
  <2>3. net \subseteq net' BY <1>5
  <2> QED BY <1>12, <2>1, <2>2, <2>3, StampStep
<1>15. AnsweredOnce'
  BY <1>5, <1>9 DEF IInv, AnsweredOnce
<1>16. net \subseteq net' /\ \A m \in net' \ net : m.type # "cookie"
  BY <1>5, <1>9
<1> QED BY <1>5, <1>10, <1>12, <1>13, <1>14, <1>15, <1>16, HandshakeStep

\* The session a responder sets up has a key that did not exist before, and the
\* stamp rules out a second answer from the same Tunn.
LEMMA ReceiveInitStep == ASSUME IInv, NEW p \in Sides, NEW m \in net, ReceiveInit(p, m) PROVE IInv'
<1> DEFINE t == tunn[p]
<1>1. /\ t \in Tunns /\ Placed(t) /\ tunn \in [Sides -> Tunns] /\ drawn \in Nat /\ t.next_index \in Indices
      /\ now \in 0 .. MaxClock /\ t.stamp \in Nat
  BY PlacedNow DEF IInv, TypeOK
<1>2. PICK e : e = drawn + 1
  OBVIOUS
<1>3. PICK x : x = RespMsg(p, t, m, e)
  OBVIOUS
<1>4. PICK u : u = AnswerInit(t, m, e)
  OBVIOUS
<1>5. /\ drawn < MaxEph /\ drawn' = e /\ tunn' = [tunn EXCEPT ![p] = u] /\ net' = net \cup {x}
      /\ UNCHANGED <<epoch, now, faults, sealed, opened, delivered>>
      /\ m.type = "init" /\ m.from # p /\ t.stamp < m.eph
  <2>1. m.eph > t.stamp BY DEF ReceiveInit, After
  <2>2. m.eph \in Nat BY DEF ReceiveInit, Arrives, IInv, NetOK
  <2> QED BY <1>1, <1>2, <1>3, <1>4, <2>1, <2>2 DEF ReceiveInit, Arrives
<1>6. e \in 1 .. MaxEph /\ m.eph \in 1 .. drawn /\ m.eph \in 1 .. MaxEph /\ m.sender \in Indices
  <2>1. m.eph \in 1 .. drawn /\ m.sender \in Indices BY <1>5 DEF IInv, NetOK
  <2> QED BY <1>1, <1>2, <1>5, <2>1
<1>7. PICK idx \in Indices : /\ idx = IncIndex(t.next_index)
                             /\ idx \div IndexSpace = t.next_index \div IndexSpace
  BY <1>1, IncIndexIn
<1>8. PICK s : s = Session(idx, m.sender, <<m.eph, e>>, "responder")
  OBVIOUS
<1>9. /\ u \in Tunns /\ u.state = Idle /\ u.previous = t.state
      /\ u.next_index = idx /\ u.stamp = m.eph
      /\ Placed(u) /\ SessionsIn(u) \subseteq SessionsIn(t) \cup {s}
  <2> DEFINE w == AnswerInit(t, m, e)
             n == Session(IncIndex(t.next_index), m.sender, <<m.eph, e>>, "responder")
  <2>1. /\ w \in Tunns /\ w.state = Idle /\ w.previous = t.state
        /\ w.next_index = IncIndex(t.next_index) /\ w.stamp = m.eph
        /\ Placed(t) => Placed(w)
        /\ SessionsIn(w) \subseteq SessionsIn(t) \cup {n}
    <3>1. AnswerInitDoes(t, m, e) BY <1>1, <1>6, AnswerInitFields
    <3> HIDE DEF t
    <3> QED BY <3>1 DEF AnswerInitDoes
  <2>2. u = w /\ s = n BY <1>4, <1>7, <1>8
  <2> HIDE DEF w, n
  <2> QED BY <1>1, <1>7, <2>1, <2>2
<1>10. /\ s.local = idx /\ s.remote = m.sender /\ s.key = <<m.eph, e>> /\ s.role = "responder"
  BY <1>8 DEF Session
<1>11. /\ x.type = "resp" /\ x.from = p /\ x.sender = idx /\ x.receiver = m.sender
       /\ x.eph = e /\ x.ini = m.eph
  BY <1>3, <1>7 DEF RespMsg
<1>12. NetOK' /\ Data' = Data /\ drawn' \in 0 .. MaxEph /\ x \notin net
  BY <1>2, <1>5, <1>11, FreshMessage
<1>13. \A y \in SessionsIn(u) :
         \/ \E z \in SessionsIn(t) : Descends(y, z)
         \/ ~Used(p, y.key) /\ Used(p, y.key)' /\ \E r \in net' : FromResponse(p, y, r)'
  <2>1. \A y \in SessionsIn(t) : y \in SessionSet BY <1>1 DEF SessionsIn, Tunns
  <2>2. \A y \in SessionsIn(t) : Descends(y, y) BY <2>1 DEF Descends, SessionSet
  <2>3. ~Used(p, s.key)
    <3>1. SUFFICES ASSUME NEW r \in net, r.type = "resp", s.key = <<r.ini, r.eph>> PROVE FALSE
      BY DEF Used
    <3>2. <<r.ini, r.eph>> = <<m.eph, e>> BY <1>10, <3>1
    <3>3. r.eph = e BY <3>2, Pair
    <3>4. r.eph \in 1 .. drawn BY <3>1, IniDrawn DEF IInv
    <3> QED BY <1>1, <1>2, <3>3, <3>4
  <2>4. x \in net' BY <1>5
  <2>5. Used(p, s.key)'
    BY <1>10, <1>11, <2>4 DEF Used
  <2>6. FromResponse(p, s, x)'
    BY <1>10, <1>11 DEF FromResponse
  <2> QED BY <1>9, <2>2, <2>3, <2>4, <2>5, <2>6
<1>14. /\ tunn' \in [Sides -> Tunns] /\ \A q \in Sides : Placed(tunn'[q])
       /\ SessionsGoOn
       /\ tunn'[p] = u /\ \A q \in Sides \ {p} : tunn'[q] = tunn[q]
  BY <1>5, <1>9, <1>13, OneSideGoesOn
<1>15. net \subseteq net' /\ \A y \in net' \ net : y = x
  BY <1>5
<1>16. PendingOK' /\ NothingAnew
  <2>1. tunn'[p].previous = tunn[p].state /\ tunn'[p].state.type # "InitSent"
    BY <1>9, <1>14 DEF Idle
  <2> QED BY <1>2, <1>14, <1>15, <2>1, PendingStep
<1>17. StampOK'
  <2>1. \A q \in Sides : /\ tunn'[q].next_index \div IndexSpace = tunn[q].next_index \div IndexSpace
                         /\ tunn[q].stamp <= tunn'[q].stamp
    <3>1. \A q \in Sides : tunn[q].stamp \in Nat BY DEF IInv, TypeOK
    <3>2. t.stamp <= m.eph BY <1>1, <1>5, <1>6
    <3> QED BY <1>7, <1>9, <1>14, <3>1, <3>2
  <2>2. \A r \in net' \ net :
          /\ r.from \in Sides /\ r.sender \div IndexSpace = tunn'[r.from].next_index \div IndexSpace
          /\ r.ini <= tunn'[r.from].stamp
    BY <1>6, <1>9, <1>11, <1>14, <1>15
  <2> QED BY <1>14, <1>15, <2>1, <2>2, StampStep
<1>18. AnsweredOnce'
  <2>1. ASSUME NEW r \in net, r.type = "resp", r.from = p, r.ini = m.eph,
               r.sender \div IndexSpace = x.sender \div IndexSpace
        PROVE  FALSE
    <3>1. r.ini <= t.stamp
      BY <1>7, <1>11, <2>1 DEF IInv, StampOK
    <3> QED BY <1>1, <1>5, <1>6, <2>1, <3>1
  <2>2. \A r, n \in net : /\ r.type = "resp" /\ n.type = "resp" /\ r.from = n.from /\ r.ini = n.ini
                          /\ r.sender \div IndexSpace = n.sender \div IndexSpace
                          => r = n
    BY DEF IInv, AnsweredOnce
  <2>3. SUFFICES ASSUME NEW r \in net', NEW n \in net', r.type = "resp", n.type = "resp",
                        r.from = n.from, r.ini = n.ini,
                        r.sender \div IndexSpace = n.sender \div IndexSpace
                 PROVE  r = n
    BY DEF AnsweredOnce
  <2>4. CASE r \in net /\ n \in net BY <2>2, <2>3, <2>4
  <2>5. CASE r = x /\ n \in net BY <1>11, <2>1, <2>3, <2>5
  <2>6. CASE r \in net /\ n = x BY <1>11, <2>1, <2>3, <2>6
  <2> QED BY <1>5, <2>4, <2>5, <2>6
<1>19. \A y \in net' \ net : y.type # "cookie"
  BY <1>11, <1>15
<1> QED BY <1>5, <1>12, <1>14, <1>15, <1>16, <1>17, <1>18, <1>19, HandshakeStep

------------------------------------------------------------------------------
(* A response *)

\* The initiation a response opens is one the tunnel awaits and has sent; having
\* taken the response it awaits it no longer.
LEMMA ResponseAwaited ==
    ASSUME PendingOK, NEW p \in Sides, NEW m, TakeResponseDoes(tunn[p], m),
           ForCurrent(tunn[p], m) \/ ForPrevious(tunn[p], m)
    PROVE  /\ Live(tunn[p], m.ini) /\ SentInit(p, m.ini, m.receiver)
           /\ ~Live(TakeResponse(tunn[p], m), m.ini)
<1> DEFINE t == tunn[p]
           u == TakeResponse(tunn[p], m)
<1>1. /\ t.state.type = "InitSent" => SentInit(p, t.state.eph, t.state.local_index)
      /\ t.previous.type = "InitSent" =>
            SentInit(p, t.previous.eph, t.previous.local_index) /\ ~Waits(t.state, t.previous.eph)
  BY DEF PendingOK
<1>2. /\ u.state = IF ForCurrent(t, m) THEN Idle ELSE t.state
      /\ u.previous = IF ForCurrent(t, m) THEN t.previous ELSE Idle
  BY DEF TakeResponseDoes
<1>3. Idle.type # "InitSent"
  BY DEF Idle
<1> HIDE DEF u, t
<1>4. CASE ForCurrent(t, m)
  <2>1. t.state.type = "InitSent" /\ t.state.local_index = m.receiver /\ t.state.eph = m.ini
    BY <1>4 DEF ForCurrent, Opens, Awaits
  <2>2. u.state = Idle /\ u.previous = t.previous
    BY <1>2, <1>4
  <2>3. ~Waits(u.state, m.ini) /\ ~Waits(u.previous, m.ini)
    BY <1>1, <1>3, <2>1, <2>2 DEF Waits
  <2>4. Live(t, m.ini) /\ SentInit(p, m.ini, m.receiver)
    BY <1>1, <2>1 DEF Live, Waits
  <2> QED BY <2>3, <2>4 DEF Live, u, t
<1>5. CASE ~ForCurrent(t, m)
  <2>1. t.previous.type = "InitSent" /\ t.previous.local_index = m.receiver /\ t.previous.eph = m.ini
    BY <1>5 DEF ForPrevious, Opens, Awaits, t
  <2>2. u.state = t.state /\ u.previous = Idle
    BY <1>2, <1>5
  <2>3. ~Waits(u.state, m.ini) /\ ~Waits(u.previous, m.ini)
    BY <1>1, <1>3, <2>1, <2>2 DEF Waits
  <2>4. Live(t, m.ini) /\ SentInit(p, m.ini, m.receiver)
    BY <1>1, <2>1 DEF Live, Waits
  <2> QED BY <2>3, <2>4 DEF Live, u, t
<1> QED BY <1>4, <1>5

\* A response that is still awaited has set up no session of this side.
LEMMA KeyUnused ==
    ASSUME NetOK, NEW p \in Sides, NEW m \in net, m.type = "resp", m.from # p, Live(tunn[p], m.ini)
    PROVE  ~Used(p, <<m.ini, m.eph>>)
<1>1. SUFFICES ASSUME NEW r \in net, r.type = "resp", <<m.ini, m.eph>> = <<r.ini, r.eph>>,
                      r.from # p => ~Live(tunn[p], r.ini)
               PROVE  FALSE
  BY DEF Used
<1>2. r.eph = m.eph
  BY <1>1, Pair
<1>3. r = m
  BY <1>1, <1>2 DEF NetOK
<1> QED BY <1>1, <1>3

\* A response answers an initiation; all it carries is typed.
LEMMA ResponseTyped ==
    ASSUME IInv, NEW m \in net, m.type = "resp"
    PROVE  /\ m.from \in Sides /\ m.sender \in Indices /\ m.receiver \in Indices
           /\ m.ini \in 1 .. MaxEph /\ m.eph \in 1 .. MaxEph
<1>1. NetOK /\ drawn \in 0 .. MaxEph
  BY DEF IInv, TypeOK
<1>2. m.ini \in 1 .. drawn /\ m.eph \in 1 .. drawn
  BY <1>1, IniDrawn
<1>3. m.from \in Sides /\ m.sender \in Indices
  BY <1>1 DEF NetOK
<1>4. PICK n \in net : n.type = "init" /\ n.sender = m.receiver
  BY <1>1 DEF NetOK
<1>5. m.receiver \in Indices
  BY <1>1, <1>4 DEF NetOK
<1> QED BY <1>1, <1>2, <1>3, <1>5

\* The slot handle_handshake_response works on is that of its own index: no other
\* session of the tunnel has the key.
LEMMA ResponseSlot ==
    ASSUME IInv, NEW p \in Sides, NEW m, TakeResponseDoes(tunn[p], m),
           m.receiver \in Indices, m.sender \in Indices, m.ini \in 1 .. MaxEph, m.eph \in 1 .. MaxEph,
           ~Used(p, <<m.ini, m.eph>>)
    PROVE  LET t == TakeResponse(tunn[p], m) IN
           (CHOOSE j \in Slots : t.sessions[j] # None /\ t.sessions[j].key = <<m.ini, m.eph>>)
              = Slot(m.receiver)
<1> DEFINE t == TakeResponse(tunn[p], m)
           i == Slot(m.receiver)
           s == Session(m.receiver, m.sender, <<m.ini, m.eph>>, "initiator")
<1>1. tunn[p].sessions \in [Slots -> SessionSet \cup {None}]
  BY PlacedNow DEF Tunns
<1>2. t.sessions = [tunn[p].sessions EXCEPT ![i] = s] /\ i \in Slots /\ t.sessions[i] = s
  BY DEF TakeResponseDoes
<1>3. s # None /\ s.key = <<m.ini, m.eph>>
  <2>1. <<m.ini, m.eph>> \in Keys BY DEF Keys
  <2> QED BY <2>1, SessionTyped
<1>4. ASSUME NEW j \in Slots, t.sessions[j] # None, t.sessions[j].key = <<m.ini, m.eph>>, j # i
      PROVE  FALSE
  <2>1. t.sessions[j] = tunn[p].sessions[j]
    BY <1>1, <1>2, <1>4
  <2>2. tunn[p].sessions[j] \in Sessions(p)
    BY <1>4, <2>1 DEF Sessions
  <2>3. Used(p, tunn[p].sessions[j].key)
    BY <2>2 DEF IInv, HalvesOK
  <2>4. tunn[p].sessions[j].key = <<m.ini, m.eph>>
    BY <1>4, <2>1
  <2> QED BY <2>3, <2>4
<1> HIDE DEF t, i, s
<1>5. t.sessions[i] # None /\ t.sessions[i].key = <<m.ini, m.eph>>
  BY <1>2, <1>3
<1>6. (CHOOSE j \in Slots : t.sessions[j] # None /\ t.sessions[j].key = <<m.ini, m.eph>>) = i
  BY <1>2, <1>4, <1>5
<1> QED BY <1>6 DEF t, i

\* The session an initiator sets up has a key under which it sent nothing yet.
LEMMA ReceiveResponseStep ==
    ASSUME IInv, NEW p \in Sides, NEW m \in net, ReceiveResponse(p, m) PROVE IInv'
<1>1. /\ tunn[p] \in Tunns /\ Placed(tunn[p]) /\ tunn \in [Sides -> Tunns] /\ now \in 0 .. MaxClock
      /\ NetOK /\ PendingOK
  BY PlacedNow DEF IInv, TypeOK
<1>2. /\ m.type = "resp" /\ m.from # p /\ (ForCurrent(tunn[p], m) \/ ForPrevious(tunn[p], m))
      /\ sealed' = sealed + 1 /\ UNCHANGED <<epoch, now, drawn, faults, opened, delivered>>
  BY DEF ReceiveResponse, Arrives
<1>3. /\ m.sender \in Indices /\ m.receiver \in Indices
      /\ m.ini \in 1 .. MaxEph /\ m.eph \in 1 .. MaxEph
  BY <1>2, ResponseTyped
<1>4. TakeResponseDoes(tunn[p], m)
  BY <1>1, <1>3, TakeResponseFields
<1>5. PICK t : t = TakeResponse(tunn[p], m)
  OBVIOUS
<1>6. Live(tunn[p], m.ini) /\ SentInit(p, m.ini, m.receiver) /\ ~Live(t, m.ini)
  BY <1>1, <1>2, <1>4, <1>5, ResponseAwaited
<1>7. ~Used(p, <<m.ini, m.eph>>)
  BY <1>1, <1>2, <1>6, KeyUnused
<1>8. PICK i : i = Slot(m.receiver)
  OBVIOUS
<1>9. (CHOOSE j \in Slots : t.sessions[j] # None /\ t.sessions[j].key = <<m.ini, m.eph>>) = i
  BY <1>3, <1>4, <1>5, <1>7, <1>8, ResponseSlot
<1>10. PICK s : s = Session(m.receiver, m.sender, <<m.ini, m.eph>>, "initiator")
  OBVIOUS
<1>11. /\ t \in Tunns /\ Placed(t) /\ SessionsIn(t) \subseteq SessionsIn(tunn[p]) \cup {s}
       /\ t.state \in {tunn[p].state, Idle} /\ t.previous \in {tunn[p].previous, Idle}
       /\ t.next_index = tunn[p].next_index /\ t.stamp = tunn[p].stamp
       /\ t.sessions[i] = s /\ i \in Slots
  BY <1>1, <1>4, <1>5, <1>8, <1>10 DEF TakeResponseDoes
<1>12. /\ s \in SessionSet /\ s # None /\ s.local = m.receiver /\ s.remote = m.sender
       /\ s.key = <<m.ini, m.eph>> /\ s.role = "initiator" /\ s.sent = 0
  <2>1. <<m.ini, m.eph>> \in Keys BY <1>3 DEF Keys
  <2> QED BY <1>3, <1>10, <2>1, SessionTyped
<1>13. PICK v : v = Sealed(t, i)
  OBVIOUS
<1>14. PICK u : u = SetCurrent(v, m.receiver)
  OBVIOUS
<1>15. PICK d : d = DataMsg(p, s)
  OBVIOUS
<1>16. tunn' = [tunn EXCEPT ![p] = u] /\ net' = net \cup {d}
  <2>1. /\ tunn' = [tunn EXCEPT ![p] = SetCurrent(Sealed(t, i), t.sessions[i].local)]
        /\ net' = net \cup {DataMsg(p, t.sessions[i])}
    BY <1>5, <1>9 DEF ReceiveResponse
  <2> QED BY <1>11, <1>12, <1>13, <1>14, <1>15, <2>1
<1>17. PICK z : z = [s EXCEPT !.sent = @ + 1]
  OBVIOUS
<1>18. Replaced(t, v, i, z) /\ z \in SessionSet /\ Descends(z, s) /\ z.sent = 1
  BY <1>11, <1>12, <1>13, <1>17, SealedFields
<1>19. /\ \A x \in SessionsIn(v) : \E y \in SessionsIn(t) : Descends(x, y)
       /\ Placed(v) /\ v.sessions[i] = z /\ v \in Tunns
  <2>1. v \in Tunns BY <1>18 DEF Replaced
  <2> QED BY <1>11, <1>12, <1>18, <2>1, ReplacedSessions
<1>20. /\ u \in Tunns /\ u.state = v.state /\ u.previous = v.previous
       /\ u.next_index = v.next_index /\ u.stamp = v.stamp /\ u.sessions = v.sessions
  BY <1>3, <1>14, <1>19, SetCurrentFields
<1>21. /\ u.state = t.state /\ u.previous = t.previous /\ Placed(u)
       /\ u.next_index = t.next_index /\ u.stamp = t.stamp
       /\ \A x \in SessionsIn(u) : \E y \in SessionsIn(t) : Descends(x, y)
  BY <1>18, <1>19, <1>20 DEF Replaced, Placed, SessionsIn
<1>22. tunn'[p] = u /\ m \in net' /\ net \subseteq net'
  BY <1>1, <1>16
<1>23. Used(p, <<m.ini, m.eph>>)'
  <2>1. ~Live(tunn'[p], m.ini)
    BY <1>6, <1>21, <1>22 DEF Live
  <2> QED BY <1>2, <1>22, <2>1 DEF Used
<1>24. \A x \in SessionsIn(u) :
         \/ \E y \in SessionsIn(tunn[p]) : Descends(x, y)
         \/ ~Used(p, x.key) /\ Used(p, x.key)' /\ \E r \in net' : FromResponse(p, x, r)'
  <2>1. SUFFICES ASSUME NEW x \in SessionsIn(u), ~\E y \in SessionsIn(tunn[p]) : Descends(x, y)
                 PROVE  ~Used(p, x.key) /\ Used(p, x.key)' /\ \E r \in net' : FromResponse(p, x, r)'
    OBVIOUS
  <2>2. PICK y \in SessionsIn(t) : Descends(x, y)
    BY <1>21
  <2>3. Descends(x, s)
    BY <1>11, <2>1, <2>2
  <2>4. /\ x.key = <<m.ini, m.eph>> /\ x.role = "initiator"
        /\ x.local = m.receiver /\ x.remote = m.sender
    BY <1>12, <2>3 DEF Descends
  <2>5. SentInit(p, m.ini, m.receiver)'
    BY <1>6, <1>22, SentInitKept
  <2>6. FromResponse(p, x, m)'
    BY <1>2, <2>4, <2>5 DEF FromResponse
  <2> QED BY <1>7, <1>22, <1>23, <2>4, <2>6
<1>25. /\ tunn' \in [Sides -> Tunns] /\ \A q \in Sides : Placed(tunn'[q])
       /\ SessionsGoOn /\ \A q \in Sides \ {p} : tunn'[q] = tunn[q]
  BY <1>16, <1>20, <1>21, <1>24, OneSideGoesOn
<1>26. PendingShrinks /\ StampsStay
  BY <1>11, <1>21, <1>22, <1>25 DEF PendingShrinks, StampsStay
<1>27. /\ d.type = "data" /\ d.from = p /\ d.receiver = m.sender /\ d.key = <<m.ini, m.eph>>
       /\ d.counter = 0
  BY <1>12, <1>15 DEF DataMsg
<1>28. d \notin net
  <2>1. d \in Data => Used(p, <<m.ini, m.eph>>)
    BY <1>27 DEF IInv, DataOK
  <2> QED BY <1>7, <1>27, <2>1 DEF Data
<1>29. /\ tunn'[p].sessions[i] # None /\ tunn'[p].sessions[i].key = d.key
       /\ d.counter < tunn'[p].sessions[i].sent
  BY <1>12, <1>18, <1>19, <1>20, <1>22, <1>27, SessionIsThere DEF Descends
<1> QED BY <1>2, <1>3, <1>11, <1>16, <1>25, <1>26, <1>27, <1>28, <1>29, PacketSent

------------------------------------------------------------------------------
(* The invariant *)

\* No session, no message: the invariant holds at first.
LEMMA InitIInv == Init => IInv
<1> SUFFICES ASSUME Init PROVE IInv
  OBVIOUS
<1>1. /\ epoch = [p \in Sides |-> 0] /\ now = 0 /\ net = {} /\ drawn = 0 /\ faults = 0
      /\ sealed = 0 /\ opened = 0 /\ delivered = {}
  BY DEF Init
<1>2. PICK u : u = NewTunn(0)
  OBVIOUS
<1>3. /\ u \in Tunns /\ u.state = Idle /\ u.previous = Idle /\ \A i \in Slots : u.sessions[i] = None
  BY <1>2, NewTunnTyped
<1>4. tunn \in [Sides -> Tunns] /\ \A p \in Sides : tunn[p] = u
  BY <1>2, <1>3 DEF Init
<1>5. TypeOK
  <2>1. /\ u.next_index \in Indices /\ u.current \in Indices /\ u.stamp \in 0 .. MaxEph
        /\ u.write_cookie \in {None} \cup 0 .. MaxFaults
    BY <1>3 DEF Tunns
  <2> QED BY <1>1, <1>3, <1>4, <2>1 DEF TypeOK
<1>6. CookiesOK
  BY <1>1 DEF CookiesOK
<1>7. Data = {} /\ IsFiniteSet({}) /\ Cardinality({}) = 0
  BY <1>1, FS_EmptySet DEF Data
<1>8. NetOK /\ NonceUnique /\ AnsweredOnce /\ StampOK /\ DataOK
  BY <1>1, <1>7 DEF NetOK, NonceUnique, AnsweredOnce, StampOK, DataOK
<1>9. PendingOK
  BY <1>3, <1>4 DEF PendingOK, Idle
<1>10. \A p \in Sides : Sessions(p) = {}
  BY <1>3, <1>4 DEF Sessions
<1>11. HalvesOK
  BY <1>10 DEF HalvesOK
<1> QED BY <1>4, <1>5, <1>6, <1>8, <1>9, <1>11 DEF IInv

\* Every step keeps the invariant.
LEMMA NextIInv == IInv /\ [Next]_vars => IInv'
<1> SUFFICES ASSUME IInv, [Next]_vars PROVE IInv'
  OBVIOUS
<1>1. CASE UNCHANGED vars BY <1>1, ClockStep
<1>2. CASE Tick BY <1>2, ClockStep
<1>3. ASSUME NEW p \in Sides, Initiate(p) PROVE IInv' BY <1>3, InitiateStep
<1>4. ASSUME NEW p \in Sides, SendData(p) PROVE IInv' BY <1>4, SendDataStep
<1>5. ASSUME NEW p \in Sides, NEW m \in net, Receive(p, m) PROVE IInv'
  <2>1. CASE ReceiveInit(p, m) BY <2>1, ReceiveInitStep
  <2>2. CASE ReceiveResponse(p, m) BY <2>2, ReceiveResponseStep
  <2>3. CASE DemandCookie(p, m) BY <2>3, DemandCookieStep
  <2>4. CASE ReceiveCookie(p, m) BY <2>4, ReceiveCookieStep
  <2>5. CASE ReceiveData(p, m) BY <2>5, ReceiveDataStep
  <2> QED BY <1>5, <2>1, <2>2, <2>3, <2>4, <2>5 DEF Receive
<1>6. ASSUME NEW p \in Sides, NEW i \in Slots, ExpireSession(p, i) PROVE IInv'
  BY <1>6, ExpireSessionStep
<1>7. ASSUME NEW p \in Sides, Expire(p) PROVE IInv' BY <1>7, ExpireStep
<1>8. ASSUME NEW p \in Sides, ExpireCookie(p) PROVE IInv' BY <1>8, ExpireCookieStep
<1>9. ASSUME NEW p \in Sides, Recreate(p) PROVE IInv' BY <1>9, RecreateStep
<1>10. ASSUME NEW p \in Sides, RefreshCookie(p) PROVE IInv' BY <1>10, ClockStep
<1> QED BY <1>1, <1>2, <1>3, <1>4, <1>5, <1>6, <1>7, <1>8, <1>9, <1>10 DEF Next

\* It holds always.
LEMMA SpecIInv == Spec => []IInv
BY InitIInv, NextIInv, PTL DEF Spec

\* Halves of a key that come from the same response fit each other.
LEMMA HalvesAgree == IInv => SessionsAgree
<1> SUFFICES ASSUME IInv PROVE SessionsAgree
  OBVIOUS
<1>1. TypeOK /\ NetOK /\ HalvesOK
  BY DEF IInv
<1>2. ASSUME NEW p \in Sides, NEW q \in Sides, p # q, NEW s \in Sessions(p), NEW t \in Sessions(q),
             s.key = t.key
      PROVE  s.local = t.remote /\ s.remote = t.local /\ s.role # t.role
  <2>1. PICK r \in net : FromResponse(p, s, r)
    BY <1>1 DEF HalvesOK
  <2>2. PICK n \in net : FromResponse(q, t, n)
    BY <1>1 DEF HalvesOK
  <2>3. r.type = "resp" /\ n.type = "resp" /\ <<r.ini, r.eph>> = <<n.ini, n.eph>>
    BY <1>2, <2>1, <2>2 DEF FromResponse
  <2>4. r.eph = n.eph
    BY <2>3, Pair
  <2>5. r = n
    BY <1>1, <2>3, <2>4 DEF NetOK
  <2>6. \/ s.role = "responder" /\ r.from = p /\ s.local = r.sender /\ s.remote = r.receiver
        \/ /\ s.role = "initiator" /\ r.from # p /\ s.local = r.receiver /\ s.remote = r.sender
           /\ SentInit(p, r.ini, r.receiver)
    BY <2>1 DEF FromResponse
  <2>7. \/ t.role = "responder" /\ r.from = q /\ t.local = r.sender /\ t.remote = r.receiver
        \/ /\ t.role = "initiator" /\ r.from # q /\ t.local = r.receiver /\ t.remote = r.sender
           /\ SentInit(q, r.ini, r.receiver)
    BY <2>2, <2>5 DEF FromResponse
  <2>8. ~(SentInit(p, r.ini, r.receiver) /\ SentInit(q, r.ini, r.receiver))
    BY <1>1, <1>2 DEF SentInit, NetOK
  <2> QED BY <1>2, <2>6, <2>7, <2>8
<1> QED BY <1>1, <1>2 DEF SessionsAgree

\* Whatever the network does with the messages of any number of handshakes, the
\* two ends of every session set up by receive_handshake_initialization and
\* receive_handshake_response agree on its indices and play opposite roles.
THEOREM SessionsDoAgree == Spec => []SessionsAgree
BY SpecIInv, HalvesAgree, PTL

\* format_packet_data never uses a counter twice under a key and
\* receive_packet_data never delivers a packet twice, across all sessions: no
\* duplicated handshake message brings a session back with its counters reset.
THEOREM NonceIsUnique == Spec => []NonceUnique
<1>1. IInv => NonceUnique BY DEF IInv
<1> QED BY <1>1, SpecIInv, PTL

\* The stamp check of receive_handshake_initialization lets a tunnel answer an
\* initiation once, however often it arrives.
THEOREM AnsweredOnlyOnce == Spec => []AnsweredOnce
<1>1. IInv => AnsweredOnce BY DEF IInv
<1> QED BY <1>1, SpecIInv, PTL

------------------------------------------------------------------------------
(* Unconfirmed sessions, as long as no index comes back *)

\* Until it wraps, inc_index gives the next number.
LEMMA IncIndexNext ==
    ASSUME NEW idx \in Indices, NEW n \in Nat, n + 1 < IndexSpace, idx % IndexSpace <= n
    PROVE  IncIndex(idx) = idx + 1 /\ IncIndex(idx) % IndexSpace <= n + 1
<1> DEFINE q == idx \div IndexSpace
           r == idx % IndexSpace
<1>1. idx \in Nat /\ IndexSpace \in Nat \ {0}
  BY DEF Indices
<1>2. q \in Nat /\ r \in 0 .. IndexSpace - 1 /\ idx = q * IndexSpace + r /\ r <= n
  BY <1>1, Remainder
<1>3. IncIndex(idx) = q * IndexSpace + ((idx + 1) % IndexSpace)
  BY DEF IncIndex
<1> HIDE DEF q, r
<1>4. r + 1 \in 0 .. IndexSpace - 1 /\ r + 1 <= n + 1
  BY <1>1, <1>2
<1>5. idx + 1 = q * IndexSpace + (r + 1)
  BY <1>1, <1>2
<1>6. (q * IndexSpace + (r + 1)) % IndexSpace = r + 1
  BY <1>1, <1>2, <1>4, Modulus
<1>7. (idx + 1) % IndexSpace = r + 1
  BY <1>5, <1>6
<1> QED BY <1>3, <1>4, <1>5, <1>7

\* A tunnel without an index ahead of its counter has no unconfirmed session
\* under its current index.
Sound(t, n) == Indexed(t, n) /\ ~UnconfirmedIsCurrent(t)

\* Dropping sessions and initiations is harmless.
LEMMA SoundQuiet ==
    ASSUME NEW t, NEW u, NEW n, Sound(t, n), u.next_index = t.next_index, u.current = t.current,
           Slot(t.current) \in Slots,
           \A i \in Slots : u.sessions[i] \in {t.sessions[i], None},
           u.state \in {t.state, Idle, Expired}, u.previous \in {t.previous, Idle, Expired}
    PROVE  Sound(u, n)
<1>1. Idle.type # "InitSent" /\ Expired.type # "InitSent"
  BY DEF Idle, Expired
<1>2. Indexed(u, n)
  BY <1>1 DEF Sound, Indexed
<1>3. ~UnconfirmedIsCurrent(u)
  BY DEF Sound, UnconfirmedIsCurrent
<1> QED BY <1>2, <1>3 DEF Sound

\* The bound on the indices may grow.
LEMMA SoundLater ==
    ASSUME NEW t \in Tunns, NEW n \in Nat, Sound(t, n) PROVE Sound(t, n + 1)
<1>1. t.next_index % IndexSpace \in Nat
  BY Remainder DEF Tunns, Indices
<1>2. t.next_index % IndexSpace <= n + 1
  BY <1>1 DEF Sound, Indexed
<1> QED BY <1>2 DEF Sound, Indexed

\* What all indices of a tunnel have in common.
LEMMA IndexTypes ==
    ASSUME NEW t \in Tunns
    PROVE  /\ t.next_index \in Indices /\ t.next_index \in Nat
           /\ t.current \in Nat /\ Slot(t.current) \in Slots
           /\ \A i \in Slots : t.sessions[i] # None =>
                t.sessions[i] \in SessionSet /\ t.sessions[i].local \in Nat
           /\ \A st \in {t.state, t.previous} : st.type = "InitSent" => st.local_index \in Nat
<1>1. t.next_index \in Indices /\ t.current \in Indices /\ t.sessions \in [Slots -> SessionSet \cup {None}]
  BY DEF Tunns
<1>2. \A i \in Slots : t.sessions[i] # None => t.sessions[i] \in SessionSet
  BY <1>1
<1>3. \A s \in SessionSet : s.local \in Nat
  BY DEF SessionSet, Indices
<1>4. \A st \in HandshakeStates : st.type = "InitSent" => st.local_index \in Nat
  BY DEF HandshakeStates, Idle, Expired, Indices
<1>5. t.state \in HandshakeStates /\ t.previous \in HandshakeStates
  BY DEF Tunns
<1> QED BY <1>1, <1>2, <1>3, <1>4, <1>5, SlotIn DEF Indices

\* An initiation takes an index ahead of all others.
LEMMA SendInitSound ==
    ASSUME NEW t \in Tunns, NEW n \in Nat, n + 1 < IndexSpace, n + 1 \in 1 .. MaxEph, Sound(t, n)
    PROVE  Sound(SendInit(t, n + 1), n + 1)
<1> DEFINE u == SendInit(t, n + 1)
           idx == IncIndex(t.next_index)
<1>1. /\ u.state = InitSent(idx, n + 1) /\ u.previous = t.state
      /\ u.next_index = idx /\ u.sessions = t.sessions /\ u.current = t.current
  BY SendInitFields
<1>2. idx = t.next_index + 1 /\ idx % IndexSpace <= n + 1
  BY IndexTypes, IncIndexNext DEF Sound, Indexed
<1>3. InitSent(idx, n + 1).local_index = idx
  BY DEF InitSent
<1> HIDE DEF u, idx
<1>4. u.current <= u.next_index
  BY <1>1, <1>2, IndexTypes DEF Sound, Indexed
<1>5. \A i \in Slots : u.sessions[i] # None => u.sessions[i].local <= u.next_index
  BY <1>1, <1>2, IndexTypes DEF Sound, Indexed
<1>6. u.state.local_index <= u.next_index
  BY <1>1, <1>2, <1>3, IndexTypes
<1>7. u.previous.type = "InitSent" => u.previous.local_index <= u.next_index
  BY <1>1, <1>2, IndexTypes DEF Sound, Indexed
<1>8. Indexed(u, n + 1)
  BY <1>1, <1>2, <1>4, <1>5, <1>6, <1>7 DEF Indexed
<1>9. ~UnconfirmedIsCurrent(u)
  BY <1>1 DEF Sound, UnconfirmedIsCurrent
<1> QED BY <1>8, <1>9 DEF Sound, u

\* The responder's new index is ahead of the current one.
LEMMA AnswerInitSound ==
    ASSUME NEW t \in Tunns, NEW n \in Nat, n + 1 < IndexSpace, n + 1 \in 1 .. MaxEph, Sound(t, n),
           NEW m, m.sender \in Indices, m.eph \in 1 .. MaxEph, now \in 0 .. MaxClock
    PROVE  Sound(AnswerInit(t, m, n + 1), n + 1)
<1> DEFINE u == AnswerInit(t, m, n + 1)
           idx == IncIndex(t.next_index)
           s == Session(idx, m.sender, <<m.eph, n + 1>>, "responder")
<1>1. AnswerInitDoes(t, m, n + 1)
  BY AnswerInitFields
<1>2. /\ u.state = Idle /\ u.previous = t.state
      /\ u.next_index = idx /\ u.current = t.current
      /\ u.sessions = [t.sessions EXCEPT ![Slot(idx)] = s]
  BY <1>1 DEF AnswerInitDoes
<1>3. idx = t.next_index + 1 /\ idx % IndexSpace <= n + 1
  BY IndexTypes, IncIndexNext DEF Sound, Indexed
<1>4. s.local = idx /\ Idle.type # "InitSent"
  BY DEF Session, Idle
<1> HIDE DEF u, idx, s
<1>5. \A i \in Slots : u.sessions[i] = s \/ u.sessions[i] = t.sessions[i]
  BY <1>2 DEF Tunns
<1>6. u.current <= u.next_index
  BY <1>2, <1>3, IndexTypes DEF Sound, Indexed
<1>7. \A i \in Slots : u.sessions[i] # None => u.sessions[i].local <= u.next_index
  <2>1. \A i \in Slots : t.sessions[i] # None => t.sessions[i].local <= u.next_index
    BY <1>2, <1>3, IndexTypes DEF Sound, Indexed
  <2>2. s.local <= u.next_index
    BY <1>2, <1>3, <1>4, IndexTypes
  <2> QED BY <1>5, <2>1, <2>2
<1>8. u.previous.type = "InitSent" => u.previous.local_index <= u.next_index
  BY <1>2, <1>3, IndexTypes DEF Sound, Indexed
<1>9. Indexed(u, n + 1)
  BY <1>2, <1>3, <1>4, <1>6, <1>7, <1>8 DEF Indexed
<1>10. ~UnconfirmedIsCurrent(u)
  <2>1. s.local # u.current
    BY <1>2, <1>3, <1>4, IndexTypes DEF Sound, Indexed
  <2>2. Slot(u.current) \in Slots /\ u.current = t.current
    BY <1>2, IndexTypes
  <2> QED BY <1>5, <2>1, <2>2 DEF Sound, UnconfirmedIsCurrent
<1> QED BY <1>9, <1>10 DEF Sound, u

\* A session that is the initiator's or has received something may become current.
LEMMA SoundMoved ==
    ASSUME NEW t, NEW u \in Tunns, NEW n, Sound(t, n), NEW i \in Slots, NEW c, Slot(c) = i,
           u.next_index = t.next_index, c <= t.next_index, u.current \in {t.current, c},
           u.state \in {t.state, Idle}, u.previous \in {t.previous, Idle},
           \A j \in Slots : j # i => u.sessions[j] = t.sessions[j],
           u.sessions[i] # None, u.sessions[i].local <= t.next_index,
           u.sessions[i].role = "initiator" \/ u.sessions[i].rcvd # {}
    PROVE  Sound(u, n)
<1>1. Idle.type # "InitSent"
  BY DEF Idle
<1>2. \A j \in Slots : u.sessions[j] # None => u.sessions[j].local <= t.next_index
  BY DEF Sound, Indexed
<1>3. Indexed(u, n)
  BY <1>1, <1>2 DEF Sound, Indexed
<1>4. ~UnconfirmedIsCurrent(u)
  <2>1. CASE Slot(u.current) = i
    BY <2>1 DEF UnconfirmedIsCurrent
  <2>2. CASE Slot(u.current) # i
    <3>1. u.current = t.current /\ Slot(u.current) \in Slots BY <2>2, IndexTypes
    <3> QED BY <2>2, <3>1 DEF Sound, UnconfirmedIsCurrent
  <2> QED BY <2>1, <2>2
<1> QED BY <1>3, <1>4 DEF Sound

\* The initiator's session may become current.
LEMMA TakeResponseSound ==
    ASSUME NEW t \in Tunns, NEW n, Sound(t, n), Placed(t), NEW m,
           m.sender \in Indices, m.receiver \in Indices,
           m.ini \in 1 .. MaxEph, m.eph \in 1 .. MaxEph, now \in 0 .. MaxClock,
           ForCurrent(t, m) \/ ForPrevious(t, m)
    PROVE  Sound(SetCurrent(Sealed(TakeResponse(t, m), Slot(m.receiver)), m.receiver), n)
<1>1. TakeResponseDoes(t, m)
  BY TakeResponseFields
<1>2. PICK w : w = TakeResponse(t, m)
  OBVIOUS
<1>3. PICK i : i = Slot(m.receiver)
  OBVIOUS
<1>4. PICK s : s = Session(m.receiver, m.sender, <<m.ini, m.eph>>, "initiator")
  OBVIOUS
<1>5. /\ w \in Tunns /\ i \in Slots /\ w.sessions[i] = s /\ w.sessions = [t.sessions EXCEPT ![i] = s]
      /\ w.state \in {t.state, Idle} /\ w.previous \in {t.previous, Idle}
      /\ w.next_index = t.next_index /\ w.current = t.current
  BY <1>1, <1>2, <1>3, <1>4 DEF TakeResponseDoes
<1>6. s \in SessionSet /\ s # None /\ s.local = m.receiver /\ s.role = "initiator"
  <2>1. <<m.ini, m.eph>> \in Keys BY DEF Keys
  <2> QED BY <1>4, <2>1, SessionTyped
<1>7. PICK z : z = [s EXCEPT !.sent = @ + 1]
  OBVIOUS
<1>8. PICK v : v = Sealed(w, i)
  OBVIOUS
<1>9. Replaced(w, v, i, z) /\ z \in SessionSet /\ Descends(z, s)
  BY <1>5, <1>6, <1>7, <1>8, SealedFields
<1>10. PICK u : u = SetCurrent(v, m.receiver)
  OBVIOUS
<1>11. v \in Tunns /\ v.sessions = [w.sessions EXCEPT ![i] = z] /\ v.current = w.current
  BY <1>9 DEF Replaced
<1>12. /\ u \in Tunns /\ u.state = v.state /\ u.previous = v.previous
       /\ u.next_index = v.next_index /\ u.sessions = v.sessions
       /\ u.current \in {v.current, m.receiver}
  BY <1>10, <1>11, SetCurrentFields
<1>13. u.sessions[i] = z /\ \A j \in Slots : j # i => u.sessions[j] = t.sessions[j]
  BY <1>5, <1>11, <1>12 DEF Tunns
<1>14. m.receiver <= t.next_index
  <2>1. PICK st \in {t.state, t.previous} : st.type = "InitSent" /\ st.local_index = m.receiver
    BY DEF ForCurrent, ForPrevious, Opens, Awaits
  <2> QED BY <2>1 DEF Sound, Indexed
<1>15. z # None /\ z.local = m.receiver /\ z.role = "initiator"
  BY <1>6, <1>9, SessionIsThere DEF Descends
<1>16. u.state \in {t.state, Idle} /\ u.previous \in {t.previous, Idle} /\ u.next_index = t.next_index
  BY <1>5, <1>9, <1>12 DEF Replaced
<1>17. Sound(u, n)
  BY <1>3, <1>5, <1>11, <1>12, <1>13, <1>14, <1>15, <1>16, SoundMoved
<1> QED BY <1>2, <1>3, <1>8, <1>10, <1>17

\* So may the responder's, with the packet that confirms it.
LEMMA OpenedSound ==
    ASSUME NEW t \in Tunns, NEW n, Sound(t, n), NEW c \in Indices, t.sessions[Slot(c)] # None,
           t.sessions[Slot(c)].local = c, NEW k \in Nat
    PROVE  Sound(SetCurrent(Opened(t, Slot(c), k), c), n)
<1>1. PICK i : i = Slot(c)
  OBVIOUS
<1>2. i \in Slots
  BY <1>1, SlotIn
<1>3. PICK z : z = [t.sessions[i] EXCEPT !.rcvd = @ \cup {k}]
  OBVIOUS
<1>4. PICK v : v = Opened(t, i, k)
  OBVIOUS
<1>5. Replaced(t, v, i, z) /\ z \in SessionSet /\ Descends(z, t.sessions[i]) /\ k \in z.rcvd
  BY <1>1, <1>2, <1>3, <1>4, OpenedFields
<1>6. /\ v \in Tunns /\ v.sessions = [t.sessions EXCEPT ![i] = z] /\ v.current = t.current
      /\ v.state = t.state /\ v.previous = t.previous /\ v.next_index = t.next_index
  BY <1>5 DEF Replaced
<1>7. PICK u : u = SetCurrent(v, c)
  OBVIOUS
<1>8. /\ u \in Tunns /\ u.state = v.state /\ u.previous = v.previous
      /\ u.next_index = v.next_index /\ u.sessions = v.sessions
      /\ u.current \in {v.current, c}
  BY <1>6, <1>7, SetCurrentFields
<1>9. u.sessions[i] = z /\ \A j \in Slots : j # i => u.sessions[j] = t.sessions[j]
  BY <1>2, <1>6, <1>8 DEF Tunns
<1>10. c <= t.next_index
  BY <1>1, <1>2 DEF Sound, Indexed
<1>11. z # None /\ z.local = c /\ z.rcvd # {}
  BY <1>1, <1>5, SessionIsThere DEF Descends
<1>12. Sound(u, n)
  <2>1. /\ u \in Tunns /\ u.state \in {t.state, Idle} /\ u.previous \in {t.previous, Idle}
        /\ u.next_index = t.next_index /\ u.current \in {t.current, c}
    BY <1>6, <1>8
  <2>2. /\ u.sessions[i] # None /\ u.sessions[i].local <= t.next_index
        /\ u.sessions[i].role = "initiator" \/ u.sessions[i].rcvd # {}
    BY <1>9, <1>10, <1>11
  <2> QED BY <1>1, <1>2, <1>9, <1>10, <2>1, <2>2, SoundMoved
<1> QED BY <1>1, <1>4, <1>7, <1>12

\* A packet sent changes neither index nor window.
LEMMA SealedSound ==
    ASSUME NEW t \in Tunns, NEW n, Sound(t, n), NEW i \in Slots, t.sessions[i] # None
    PROVE  Sound(Sealed(t, i), n)
<1>1. PICK z : z = [t.sessions[i] EXCEPT !.sent = @ + 1]
  OBVIOUS
<1>2. PICK u : u = Sealed(t, i)
  OBVIOUS
<1>3. /\ Replaced(t, u, i, z) /\ z \in SessionSet /\ Descends(z, t.sessions[i])
      /\ z.rcvd = t.sessions[i].rcvd
  BY <1>1, <1>2, SealedFields
<1>4. /\ u \in Tunns /\ u.sessions = [t.sessions EXCEPT ![i] = z] /\ u.current = t.current
      /\ u.state = t.state /\ u.previous = t.previous /\ u.next_index = t.next_index
  BY <1>3 DEF Replaced
<1>5. u.sessions[i] = z /\ \A j \in Slots : j # i => u.sessions[j] = t.sessions[j]
  BY <1>4 DEF Tunns
<1>6. z.local = t.sessions[i].local /\ z.role = t.sessions[i].role
  BY <1>3 DEF Descends
<1>7. Indexed(u, n)
  BY <1>4, <1>5, <1>6 DEF Sound, Indexed
<1>8. ~UnconfirmedIsCurrent(u)
  <2>1. Slot(t.current) \in Slots BY IndexTypes
  <2> QED BY <1>3, <1>4, <1>5, <1>6, <2>1 DEF Sound, UnconfirmedIsCurrent
<1> QED BY <1>2, <1>7, <1>8 DEF Sound

\* Both tunnels are sound.
AllSound == \A p \in Sides : Sound(tunn[p], drawn)

\* A step of one side leaves the other sound.
LEMMA OneSideSound ==
    ASSUME IInv, AllSound, NEW p \in Sides, NEW STATE u, tunn' = [tunn EXCEPT ![p] = u],
           Sound(u, drawn'), drawn' = drawn \/ drawn' = drawn + 1
    PROVE  AllSound'
<1>1. SUFFICES ASSUME NEW q \in Sides PROVE Sound(tunn'[q], drawn')
  BY DEF AllSound
<1>2. tunn \in [Sides -> Tunns] /\ tunn[q] \in Tunns /\ drawn \in Nat
  BY DEF IInv, TypeOK
<1>3. CASE q = p
  BY <1>2, <1>3
<1>4. CASE q # p
  <2>1. tunn'[q] = tunn[q] /\ Sound(tunn[q], drawn) BY <1>2, <1>4 DEF AllSound
  <2>2. Sound(tunn[q], drawn + 1) BY <1>2, <2>1, SoundLater
  <2> QED BY <2>1, <2>2
<1> QED BY <1>3, <1>4

\* New tunnels are sound.
LEMMA InitSound == Init => AllSound
<1> SUFFICES ASSUME Init PROVE AllSound
  OBVIOUS
<1>1. PICK u : u = NewTunn(0)
  OBVIOUS
<1>2. /\ u.state = Idle /\ u.previous = Idle /\ u.next_index = 0 /\ u.current = 0
      /\ \A i \in Slots : u.sessions[i] = None /\ u \in Tunns
  BY <1>1, NewTunnTyped
<1>3. 0 % IndexSpace = 0 /\ Idle.type # "InitSent" /\ Slot(0) \in Slots
  BY Remainder DEF Idle, Slot, Slots
<1>4. Sound(u, 0)
  BY <1>2, <1>3 DEF Sound, Indexed, UnconfirmedIsCurrent
<1>5. drawn = 0 /\ \A p \in Sides : tunn[p] = u
  BY <1>1 DEF Init
<1> QED BY <1>4, <1>5 DEF AllSound

\* Every step keeps the tunnels sound while no index comes back.
LEMMA NextSound ==
    ASSUME MaxEph < IndexSpace, IInv, AllSound, [Next]_vars PROVE AllSound'
<1>1. /\ \A p \in Sides : tunn[p] \in Tunns /\ Placed(tunn[p]) /\ Sound(tunn[p], drawn)
      /\ drawn \in 0 .. MaxEph /\ drawn \in Nat /\ now \in 0 .. MaxClock /\ tunn \in [Sides -> Tunns]
  BY PlacedNow DEF IInv, TypeOK, AllSound
<1>2. CASE UNCHANGED <<tunn, drawn>>
  BY <1>2 DEF AllSound
<1>3. CASE UNCHANGED vars \/ Tick \/ \E p \in Sides : RefreshCookie(p) \/ \E m \in net : DemandCookie(p, m)
  BY <1>2, <1>3 DEF vars, Tick, RefreshCookie, DemandCookie
<1>4. ASSUME NEW p \in Sides, Initiate(p) PROVE AllSound'
  <2>1. /\ drawn < MaxEph /\ drawn' = drawn + 1
        /\ tunn' = [tunn EXCEPT ![p] = SendInit(tunn[p], drawn + 1)]
    BY <1>4 DEF Initiate
  <2>2. Sound(SendInit(tunn[p], drawn + 1), drawn + 1)
    BY <1>1, <2>1, SendInitSound
  <2>3. Sound(SendInit(tunn[p], drawn + 1), drawn')
    BY <2>1, <2>2
  <2> QED BY <2>1, <2>3, OneSideSound
<1>5. ASSUME NEW p \in Sides, NEW m \in net, ReceiveInit(p, m) PROVE AllSound'
  <2>1. /\ drawn < MaxEph /\ drawn' = drawn + 1 /\ m.type = "init"
        /\ tunn' = [tunn EXCEPT ![p] = AnswerInit(tunn[p], m, drawn + 1)]
    BY <1>5 DEF ReceiveInit, Arrives
  <2>2. m.sender \in Indices /\ m.eph \in 1 .. MaxEph
    BY <1>1, <2>1 DEF IInv, NetOK
  <2>3. Sound(AnswerInit(tunn[p], m, drawn + 1), drawn + 1)
    BY <1>1, <2>1, <2>2, AnswerInitSound
  <2>4. Sound(AnswerInit(tunn[p], m, drawn + 1), drawn')
    BY <2>1, <2>3
  <2> QED BY <2>1, <2>4, OneSideSound
<1>6. ASSUME NEW p \in Sides, NEW m \in net, ReceiveResponse(p, m) PROVE AllSound'
  <2>1. /\ drawn' = drawn /\ m.type = "resp" /\ m.from # p
        /\ ForCurrent(tunn[p], m) \/ ForPrevious(tunn[p], m)
    BY <1>6 DEF ReceiveResponse, Arrives
  <2>2. /\ m.sender \in Indices /\ m.receiver \in Indices
        /\ m.ini \in 1 .. MaxEph /\ m.eph \in 1 .. MaxEph
    BY <2>1, ResponseTyped
  <2>3. TakeResponseDoes(tunn[p], m)
    BY <1>1, <2>2, TakeResponseFields
  <2>4. PICK t : t = TakeResponse(tunn[p], m)
    OBVIOUS
  <2>5. NetOK /\ PendingOK
    BY DEF IInv
  <2>6. ~Used(p, <<m.ini, m.eph>>)
    BY <2>1, <2>3, <2>5, ResponseAwaited, KeyUnused
  <2>7. (CHOOSE j \in Slots : t.sessions[j] # None /\ t.sessions[j].key = <<m.ini, m.eph>>)
           = Slot(m.receiver)
    BY <2>2, <2>3, <2>4, <2>6, ResponseSlot
  <2>8. tunn' = [tunn EXCEPT ![p] = SetCurrent(Sealed(t, Slot(m.receiver)),
                                               t.sessions[Slot(m.receiver)].local)]
    BY <1>6, <2>4, <2>7 DEF ReceiveResponse
  <2>9. t.sessions[Slot(m.receiver)].local = m.receiver
    <3>1. t.sessions[Slot(m.receiver)] = Session(m.receiver, m.sender, <<m.ini, m.eph>>, "initiator")
      BY <2>3, <2>4 DEF TakeResponseDoes
    <3>2. Session(m.receiver, m.sender, <<m.ini, m.eph>>, "initiator").local = m.receiver
      BY DEF Session
    <3> QED BY <3>1, <3>2
  <2>10. Sound(SetCurrent(Sealed(TakeResponse(tunn[p], m), Slot(m.receiver)), m.receiver), drawn)
    BY <1>1, <2>1, <2>2, TakeResponseSound
  <2>11. PICK u : u = SetCurrent(Sealed(t, Slot(m.receiver)), m.receiver)
    OBVIOUS
  <2>12. tunn' = [tunn EXCEPT ![p] = u] /\ Sound(u, drawn')
    BY <2>1, <2>4, <2>8, <2>9, <2>10, <2>11
  <2> QED BY <2>1, <2>12, OneSideSound
<1>7. ASSUME NEW p \in Sides, NEW m \in net, ReceiveCookie(p, m) PROVE AllSound'
  <2>1. tunn' = [tunn EXCEPT ![p] = [tunn[p] EXCEPT !.write_cookie = m.cookie]] /\ drawn' = drawn
    BY <1>1, <1>7 DEF ReceiveCookie
  <2>2. PICK u : u = [tunn[p] EXCEPT !.write_cookie = m.cookie]
    OBVIOUS
  <2>3. /\ u.next_index = tunn[p].next_index /\ u.current = tunn[p].current
        /\ u.sessions = tunn[p].sessions /\ u.state = tunn[p].state /\ u.previous = tunn[p].previous
    BY <1>1, <2>2 DEF Tunns
  <2>4. Sound(u, drawn)
    BY <1>1, <2>3 DEF Sound, Indexed, UnconfirmedIsCurrent
  <2> QED BY <2>1, <2>2, <2>4, OneSideSound
<1>8. ASSUME NEW p \in Sides, NEW m \in net, ReceiveData(p, m) PROVE AllSound'
  <2>1. /\ tunn' = [tunn EXCEPT ![p] = SetCurrent(Opened(tunn[p], Slot(m.receiver), m.counter), m.receiver)]
        /\ drawn' = drawn /\ m.type = "data" /\ tunn[p].sessions[Slot(m.receiver)] # None
        /\ tunn[p].sessions[Slot(m.receiver)].local = m.receiver
    BY <1>8 DEF ReceiveData, Arrives
  <2>2. m.receiver \in Indices /\ m.counter \in Nat
    BY <2>1 DEF IInv, DataOK, Data
  <2>3. Sound(SetCurrent(Opened(tunn[p], Slot(m.receiver), m.counter), m.receiver), drawn)
    BY <1>1, <2>1, <2>2, OpenedSound
  <2>4. Sound(SetCurrent(Opened(tunn[p], Slot(m.receiver), m.counter), m.receiver), drawn')
    BY <2>1, <2>3
  <2> QED BY <2>1, <2>4, OneSideSound
<1>9. ASSUME NEW p \in Sides, SendData(p) PROVE AllSound'
  <2>1. /\ tunn' = [tunn EXCEPT ![p] = Sealed(tunn[p], Slot(tunn[p].current))]
        /\ drawn' = drawn /\ tunn[p].sessions[Slot(tunn[p].current)] # None
    BY <1>9 DEF SendData
  <2>2. Slot(tunn[p].current) \in Slots
    BY <1>1, IndexTypes
  <2>3. Sound(Sealed(tunn[p], Slot(tunn[p].current)), drawn)
    BY <1>1, <2>1, <2>2, SealedSound
  <2>4. Sound(Sealed(tunn[p], Slot(tunn[p].current)), drawn')
    BY <2>1, <2>3
  <2> QED BY <2>1, <2>4, OneSideSound
<1>10. ASSUME NEW p \in Sides, NEW i \in Slots, ExpireSession(p, i) PROVE AllSound'
  <2>1. PICK u : u = [tunn[p] EXCEPT !.sessions = [tunn[p].sessions EXCEPT ![i] = None],
                                     !.timers = [tunn[p].timers EXCEPT ![i] = now]]
    OBVIOUS
  <2>2. tunn' = [tunn EXCEPT ![p] = u] /\ drawn' = drawn
    BY <1>1, <1>10, <2>1 DEF ExpireSession, Tunns
  <2>3. /\ u.next_index = tunn[p].next_index /\ u.current = tunn[p].current
        /\ u.state = tunn[p].state /\ u.previous = tunn[p].previous
        /\ u.sessions = [tunn[p].sessions EXCEPT ![i] = None]
    BY <1>1, <2>1 DEF Tunns
  <2>4. \A j \in Slots : u.sessions[j] \in {tunn[p].sessions[j], None}
    BY <1>1, <2>3 DEF Tunns
  <2>5. Sound(u, drawn)
    BY <1>1, <2>3, <2>4, IndexTypes, SoundQuiet
  <2> QED BY <2>2, <2>5, OneSideSound
<1>11. ASSUME NEW p \in Sides, Expire(p) PROVE AllSound'
  <2>1. PICK u : u = [tunn[p] EXCEPT !.state = Expired, !.previous = Expired,
                                     !.sessions = [i \in Slots |-> None]]
    OBVIOUS
  <2>2. tunn' = [tunn EXCEPT ![p] = u] /\ drawn' = drawn
    BY <1>1, <1>11, <2>1 DEF Expire, Tunns
  <2>3. /\ u.next_index = tunn[p].next_index /\ u.current = tunn[p].current
        /\ u.state = Expired /\ u.previous = Expired
        /\ \A j \in Slots : u.sessions[j] = None
    BY <1>1, <2>1 DEF Tunns
  <2>4. Sound(u, drawn)
    BY <1>1, <2>3, IndexTypes, SoundQuiet
  <2> QED BY <2>2, <2>4, OneSideSound
<1>12. ASSUME NEW p \in Sides, ExpireCookie(p) PROVE AllSound'
  <2>1. tunn' = [tunn EXCEPT ![p] = [tunn[p] EXCEPT !.write_cookie = None]] /\ drawn' = drawn
    BY <1>1, <1>12 DEF ExpireCookie
  <2>2. PICK u : u = [tunn[p] EXCEPT !.write_cookie = None]
    OBVIOUS
  <2>3. /\ u.next_index = tunn[p].next_index /\ u.current = tunn[p].current
        /\ u.sessions = tunn[p].sessions /\ u.state = tunn[p].state /\ u.previous = tunn[p].previous
    BY <1>1, <2>2 DEF Tunns
  <2>4. Sound(u, drawn)
    BY <1>1, <2>3 DEF Sound, Indexed, UnconfirmedIsCurrent
  <2> QED BY <2>1, <2>2, <2>4, OneSideSound
<1>13. ASSUME NEW p \in Sides, Recreate(p) PROVE AllSound'
  <2>1. PICK u : u = NewTunn(1)
    OBVIOUS
  <2>2. tunn' = [tunn EXCEPT ![p] = u] /\ drawn' = drawn
    BY <1>13, <2>1 DEF Recreate
  <2>3. /\ u.state = Idle /\ u.previous = Idle /\ u.next_index = IndexSpace /\ u.current = 0
        /\ \A i \in Slots : u.sessions[i] = None
    BY <2>1, NewTunnTyped
  <2>4. IndexSpace % IndexSpace = 0 /\ Idle.type # "InitSent" /\ Slot(0) \in Slots
    <3>1. (1 * IndexSpace + 0) % IndexSpace = 0 BY Modulus
    <3> QED BY <3>1, Remainder DEF Idle, Slot, Slots
  <2>5. Sound(u, drawn)
    BY <1>1, <2>3, <2>4 DEF Sound, Indexed, UnconfirmedIsCurrent
  <2> QED BY <2>2, <2>5, OneSideSound
<1> QED BY <1>3, <1>4, <1>5, <1>6, <1>7, <1>8, <1>9, <1>10, <1>11, <1>12, <1>13 DEF Next, Receive

\* handle_handshake_init stores a session without making it current: encapsulate
\* uses a session its initiator has not confirmed only after the ring went round,
\* never because the session is the current one.  The hypothesis says that fewer
\* handshake messages were sent than there are indices; inc_index wraps after 256,
\* and an index that comes back to a side may be its current one.
THEOREM UnconfirmedTakesWrap ==
    ASSUME MaxEph < IndexSpace PROVE Spec => []UnconfirmedNeedsWrap
<1>1. IInv /\ AllSound /\ [Next]_vars => (IInv /\ AllSound)'
  BY NextIInv, NextSound
<1>2. AllSound => UnconfirmedNeedsWrap
  BY DEF AllSound, Sound, UnconfirmedNeedsWrap
<1> QED BY <1>1, <1>2, InitIInv, InitSound, PTL DEF Spec

------------------------------------------------------------------------------
(* The replay window.  Handshake keeps the counters a session received as a  *)
(* set; session.rs keeps them in a ring of words.  ReplayWindow is the ring, *)
(* and the last theorems say that it decides like the set.                   *)

HIDE HandshakeConstants

\* Counters less than a window apart have different places in it.
LEMMA Apart ==
    ASSUME NEW n \in Nat \ {0}, NEW a \in Nat, NEW b \in Nat, a < b, b < a + n
    PROVE  a % n # b % n
<1> SUFFICES ASSUME a % n = b % n PROVE FALSE
    OBVIOUS
<1> DEFINE p == a \div n
           q == b \div n
<1>1. p \in Nat /\ q \in Nat /\ b - a = q * n - p * n
    <2>1. /\ a % n \in 0 .. n - 1 /\ p \in Nat /\ a = p * n + (a % n)
          /\ b % n \in 0 .. n - 1 /\ q \in Nat /\ b = q * n + (b % n)
        BY Remainder
    <2> HIDE DEF p, q
    <2>2. p * n \in Int /\ q * n \in Int
        BY <2>1
    <2> QED BY <2>1, <2>2
<1>2. q * n - p * n = (q - p) * n
    BY <1>1
<1>3. CASE q - p <= 0
    <2>1. (q - p) * n <= 0
        BY <1>1, <1>3
    <2> QED BY <1>1, <1>2, <2>1
<1>4. CASE q - p >= 1
    <2>1. (q - p) * n >= n
        BY <1>1, <1>4
    <2> QED BY <1>1, <1>2, <2>1
<1> QED BY <1>1, <1>3, <1>4

\* The places of a ring of k words of w bits.
LEMMA Places ==
    ASSUME NEW w \in Nat \ {0}, NEW k \in Nat \ {0}, NEW p \in 0 .. w * k - 1
    PROVE  p \div w \in 0 .. k - 1 /\ p % w \in 0 .. w - 1
<1> DEFINE q == p \div w
<1>1. p % w \in 0 .. w - 1 /\ q \in Nat /\ p = q * w + (p % w)
    <2>1. p \in Nat
        OBVIOUS
    <2> QED BY <2>1, Remainder, Zenon
<1>2. q < k
    <2> SUFFICES ASSUME q >= k PROVE FALSE
        BY <1>1
    <2>1. q * w >= k * w
        BY <1>1
    <2>2. k * w = w * k
        OBVIOUS
    <2> HIDE DEF q
    <2> QED BY <1>1, <2>1, <2>2
<1> QED BY <1>1, <1>2

\* Counter j + t is in the word of counter j of a ring of n bits, at bit t of it.
InWord(w, n, j, t) ==
    ((j + t) % n) \div w = (j % n) \div w /\ ((j + t) % n) % w = t

\* The word of a counter on a word boundary.
LEMMA WithinWord ==
    ASSUME NEW w \in Nat \ {0}, NEW k \in Nat \ {0}, NEW n, n = w * k,
           NEW j \in Nat, j % w = 0, NEW t \in 0 .. w - 1
    PROVE  InWord(w, n, j, t)
<1> DEFINE p == j % n
           q == j \div n
           u == j \div w
           v == u - q * k
<1>1. n \in Nat \ {0} /\ w * k = k * w
    OBVIOUS
<1>2. p \in 0 .. n - 1 /\ q \in Nat /\ j = q * n + p
    BY <1>1, Remainder
<1>3. u \in Nat /\ j = u * w
    <2>1. j % w \in 0 .. w - 1 /\ u \in Nat /\ j = u * w + (j % w)
        BY Remainder, Zenon
    <2> HIDE DEF u
    <2>2. u * w \in Nat
        BY <2>1
    <2> QED BY <2>1, <2>2
<1>4. p = v * w
    <2>1. ASSUME NEW x \in Nat PROVE x * (w * k) = (x * k) * w
        OBVIOUS
    <2>2. ASSUME NEW x \in Int, NEW y \in Int PROVE (x - y) * w = x * w - y * w
        OBVIOUS
    <2>3. q * n = (q * k) * w /\ q * k \in Int
        BY <1>2, <2>1
    <2>4. (u - q * k) * w = u * w - (q * k) * w
        <3>1. u \in Int
            BY <1>3
        <3> HIDE DEF u, q
        <3> QED BY <3>1, <2>2, <2>3, Zenon
    <2>5. q * n \in Int /\ u * w \in Int
        BY <1>2, <1>3, <1>1
    <2> HIDE DEF p, q, u
    <2> QED BY <1>2, <1>3, <2>3, <2>4, <2>5
<1>5. v \in 0 .. k - 1
    <2>1. p \div w \in 0 .. k - 1
        BY <1>2, Places
    <2>2. v \in Int
        BY <1>2, <1>3
    <2>3. (v * w + 0) \div w = v
        <3> HIDE DEF v
        <3> QED BY <2>2, Division
    <2>4. v * w + 0 = p
        <3> HIDE DEF v, p
        <3> QED BY <1>4, <2>2
    <2> QED BY <2>1, <2>3, <2>4
<1>6. p + t \in 0 .. n - 1
    <2> HIDE DEF v, p
    <2>1. v * w + t <= (k - 1) * w + t
        BY <1>5
    <2>2. (k - 1) * w + t < n
        BY <1>1
    <2> QED BY <1>4, <1>5, <2>1, <2>2, <1>1
<1>7. (j + t) % n = p + t
    <2>1. (q * n + (p + t)) % n = p + t
        <3>1. q \in Int
            BY <1>2
        <3>2. n \in Nat \ {0}
            BY <1>1
        <3> HIDE DEF p, q
        <3> QED BY <3>1, <3>2, <1>6, Modulus, Zenon
    <2>2. j + t = q * n + (p + t)
        <3> HIDE DEF p, q
        <3> QED BY <1>1, <1>2
    <2> QED BY <2>1, <2>2
<1>8. (v * w + t) \div w = v /\ (v * w + t) % w = t /\ (v * w + 0) \div w = v
    <2> HIDE DEF v
    <2> QED BY <1>5, Division, Modulus
<1>9. v * w + 0 = p /\ v * w + t = p + t
    <2> HIDE DEF v, p
    <2> QED BY <1>4, <1>5
<1> QED BY <1>7, <1>8, <1>9 DEF InWord

\* Two counters share a bit of the ring.
Same(a, b) == Word(a) = Word(b) /\ Bit(a) = Bit(b)

\* A counter of S shares its bit with x.
Hit(S, x) == \E c \in S : Same(c, x)

\* One of S is in the word of x.
HitWord(S, x) == \E c \in S : Word(c) = Word(x)

\* What the bitmap may hold.
Bitmap == [Words -> SUBSET Bits]

\* Every counter has a bit in the ring.
LEMMA PlaceOf ==
    ASSUME NEW a \in Nat
    PROVE  Word(a) \in Words /\ Bit(a) \in Bits
<1>1. WordSize * NWords \in Nat \ {0}
    BY WindowConstants
<1>2. a % (WordSize * NWords) \in 0 .. WordSize * NWords - 1
    BY <1>1, Remainder
<1> QED BY WindowConstants, <1>2, Places DEF Word, Bit, NBits, Words, Bits

\* Counters less than a window apart do not share a bit.
LEMMA OwnBit ==
    ASSUME NEW a \in Nat, NEW b \in Nat, a < b, b < a + NBits
    PROVE  ~Same(a, b) /\ ~Same(b, a)
<1> DEFINE p == a % NBits
           q == b % NBits
<1>1. NBits \in Nat \ {0} /\ WordSize \in Nat \ {0}
    BY WindowConstants DEF NBits
<1>2. p # q
    BY <1>1, Apart
<1>3. p \in Nat /\ q \in Nat
    BY <1>1, Remainder
<1>4. p = (p \div WordSize) * WordSize + (p % WordSize)
      /\ q = (q \div WordSize) * WordSize + (q % WordSize)
    <2> HIDE DEF p, q
    <2> QED BY <1>1, <1>3, Remainder
<1>5. ~(p \div WordSize = q \div WordSize /\ p % WordSize = q % WordSize)
    <2> HIDE DEF p, q
    <2> QED BY <1>2, <1>4, Zenon
<1> QED BY <1>5, Zenon DEF Same, Word, Bit

\* clear_bit for a set of counters.
LEMMA BitsCleared ==
    ASSUME NEW bm \in Bitmap, NEW S \in SUBSET Nat, NEW x \in Nat
    PROVE  /\ ClearBits(bm, S) \in Bitmap
           /\ CheckBit(ClearBits(bm, S), x) <=>
                  CheckBit(bm, x) /\ ~Hit(S, x)
<1>1. Word(x) \in Words
    BY PlaceOf
<1> QED BY <1>1 DEF Bitmap, ClearBits, CheckBit, Hit, Same

\* clear_word for a set of counters.
LEMMA WordsCleared ==
    ASSUME NEW bm \in Bitmap, NEW S \in SUBSET Nat, NEW x \in Nat
    PROVE  /\ ClearWords(bm, S) \in Bitmap
           /\ CheckBit(ClearWords(bm, S), x) <=>
                  CheckBit(bm, x) /\ ~HitWord(S, x)
<1>1. Word(x) \in Words
    BY PlaceOf
<1> QED BY <1>1 DEF Bitmap, ClearWords, CheckBit, HitWord

\* set_bit sets the bit of a counter.
LEMMA BitIsSet ==
    ASSUME NEW bm \in Bitmap, NEW c \in Nat, NEW x \in Nat
    PROVE  /\ SetBit(bm, c) \in Bitmap
           /\ CheckBit(SetBit(bm, c), x) <=> CheckBit(bm, x) \/ Same(c, x)
<1>1. Word(x) \in Words /\ Word(c) \in Words /\ Bit(c) \in Bits
    BY PlaceOf
<1> QED BY <1>1 DEF Bitmap, SetBit, CheckBit, Same

\* A word that is cleared at its boundary holds the counters of the next WORD_SIZE.
LEMMA WordIsItsCounters ==
    ASSUME NEW j \in Nat, j % WordSize = 0, NEW x \in Nat
    PROVE  Word(j) = Word(x) <=> \E i \in j .. j + WordSize - 1 : Same(i, x)
<1>1. ASSUME NEW t \in 0 .. WordSize - 1
      PROVE  Word(j + t) = Word(j) /\ Bit(j + t) = t
    <2>1. WordSize \in Nat \ {0} /\ NWords \in Nat \ {0}
        BY WindowConstants
    <2>2. NBits = WordSize * NWords
        BY DEF NBits
    <2>3. InWord(WordSize, NBits, j, t)
        BY <2>1, <2>2, WithinWord, Zenon
    <2> QED BY <2>3, Zenon DEF InWord, Word, Bit
<1>2. Bit(x) \in 0 .. WordSize - 1
    BY PlaceOf DEF Bits
<1>3. ASSUME Word(j) = Word(x)
      PROVE  \E i \in j .. j + WordSize - 1 : Same(i, x)
    <2>1. j + Bit(x) \in j .. j + WordSize - 1
        BY WindowConstants, <1>2
    <2>2. Same(j + Bit(x), x)
        BY <1>1, <1>2, <1>3 DEF Same
    <2> QED BY <2>1, <2>2
<1>4. ASSUME NEW i \in j .. j + WordSize - 1, Same(i, x)
      PROVE  Word(j) = Word(x)
    <2>1. i - j \in 0 .. WordSize - 1 /\ j + (i - j) = i
        BY WindowConstants
    <2> QED BY <1>1, <1>4, <2>1 DEF Same
<1> QED BY <1>3, <1>4

\* The first loop ends at a word boundary or at the counter.
LEMMA FirstLoop ==
    ASSUME NEW from \in Nat, NEW counter \in Nat, from < counter
    PROVE  /\ AlignedOrEnd(from, counter) \in from .. counter
           /\ AlignedOrEnd(from, counter) < counter =>
                  AlignedOrEnd(from, counter) % WordSize = 0
<1> DEFINE a == from + WordSize - 1
           q == a \div WordSize
           r == a % WordSize
<1>1. WordSize \in Nat \ {0} /\ a \in Nat
    BY WindowConstants
<1>2. r \in 0 .. WordSize - 1 /\ q \in Nat /\ a = q * WordSize + r
    <2> HIDE DEF a
    <2> QED BY <1>1, Remainder
<1>3. q * WordSize \in Nat
    <2> HIDE DEF q
    <2> QED BY <1>1, <1>2
<1>4. q * WordSize >= from
    <2> HIDE DEF q, r
    <2> QED BY <1>1, <1>2, <1>3
<1>5. (q * WordSize) % WordSize = 0
    <2>1. 0 \in 0 .. WordSize - 1 /\ q \in Int
        BY <1>1, <1>2
    <2> HIDE DEF q
    <2>2. (q * WordSize + 0) % WordSize = 0
        BY <1>1, <2>1, Modulus
    <2> QED BY <2>2, <1>3
<1>6. AlignedOrEnd(from, counter) = IF q * WordSize < counter THEN q * WordSize ELSE counter
    BY DEF AlignedOrEnd
<1> HIDE DEF q
<1> QED BY <1>3, <1>4, <1>5, <1>6

\* The second loop ends at or before the counter, and only runs from a boundary.
LEMMA SecondLoop ==
    ASSUME NEW i \in Nat, NEW counter \in Nat, i <= counter
    PROVE  /\ WholeWords(i, counter) \in Nat
           /\ WholeWords(i, counter) > 0 => i < counter
           /\ i + WholeWords(i, counter) * WordSize <= counter
<1>1. WordSize \in Nat \ {0}
    BY WindowConstants
<1>2. CASE i < counter
    <2> DEFINE a == counter - i - 1
               q == a \div WordSize
               r == a % WordSize
    <2>1. a \in Nat
        BY <1>2
    <2>2. r \in 0 .. WordSize - 1 /\ q \in Nat /\ a = q * WordSize + r
        <3> HIDE DEF a
        <3> QED BY <1>1, <2>1, Remainder
    <2>3. q * WordSize \in Nat
        <3> HIDE DEF q
        <3> QED BY <1>1, <2>2
    <2>4. WholeWords(i, counter) = q
        BY <1>2 DEF WholeWords
    <2> HIDE DEF q, r
    <2> QED BY <1>2, <2>2, <2>3, <2>4
<1>3. CASE i = counter
    <2>1. WholeWords(i, counter) = 0
        BY <1>3 DEF WholeWords
    <2> QED BY <1>1, <1>3, <2>1
<1> QED BY <1>2, <1>3

\* It clears the bits of all counters it passes, and no others.
LEMMA WordsAreRange ==
    ASSUME NEW i \in Nat, NEW n \in Nat, n > 0 => i % WordSize = 0,
           NEW x \in Nat
    PROVE  /\ WordStarts(i, n) \in SUBSET Nat
           /\ HitWord(WordStarts(i, n), x) <=> Hit(i .. (i + n * WordSize) - 1, x)
<1>1. WordSize \in Nat \ {0}
    BY WindowConstants
<1>2. ASSUME NEW k \in 0 .. n - 1
      PROVE  /\ k * WordSize \in Nat /\ k * WordSize + WordSize <= n * WordSize
             /\ (i + k * WordSize) % WordSize = 0
    <2>1. k * WordSize \in Nat /\ k * WordSize + WordSize = (k + 1) * WordSize
        BY <1>1
    <2>2. (k + 1) * WordSize <= n * WordSize
        BY <1>1
    <2> DEFINE u == i \div WordSize
    <2>3. u \in Nat /\ i = u * WordSize + (i % WordSize) /\ i % WordSize = 0
        BY <1>1, Remainder
    <2> HIDE DEF u
    <2>4. u * WordSize \in Nat /\ (u + k) * WordSize = u * WordSize + k * WordSize
        BY <1>1, <2>3
    <2>5. 0 \in 0 .. WordSize - 1 /\ u + k \in Int
        BY <1>1, <2>3
    <2>6. ((u + k) * WordSize + 0) % WordSize = 0
        BY <1>1, <2>5, Modulus
    <2>7. (u + k) * WordSize + 0 = i + k * WordSize
        BY <2>1, <2>3, <2>4
    <2>8. (i + k * WordSize) % WordSize = 0
        BY <2>6, <2>7
    <2> QED BY <2>1, <2>2, <2>8
<1>3. WordStarts(i, n) \in SUBSET Nat
    BY <1>2 DEF WordStarts
<1>4. n * WordSize \in Nat
    BY <1>1
<1>5. ASSUME NEW j \in WordStarts(i, n), Word(j) = Word(x)
      PROVE  Hit(i .. (i + n * WordSize) - 1, x)
    <2>1. PICK k \in 0 .. n - 1 : j = i + k * WordSize
        BY DEF WordStarts
    <2>2. j \in Nat /\ j % WordSize = 0 /\ i <= j /\ j + WordSize <= i + n * WordSize
        BY <1>1, <1>2, <1>4, <2>1
    <2>3. PICK c \in j .. j + WordSize - 1 : Same(c, x)
        BY <1>5, <2>2, WordIsItsCounters
    <2>4. c \in i .. (i + n * WordSize) - 1
        BY <1>1, <1>4, <2>2
    <2> QED BY <2>3, <2>4 DEF Hit
<1>6. ASSUME NEW c \in i .. (i + n * WordSize) - 1, Same(c, x)
      PROVE  HitWord(WordStarts(i, n), x)
    <2> DEFINE k == (c - i) \div WordSize
               r == (c - i) % WordSize
    <2>1. c - i \in Nat /\ c - i < n * WordSize
        BY <1>4
    <2>2. r \in 0 .. WordSize - 1 /\ k \in Nat /\ c - i = k * WordSize + r
        BY <1>1, <2>1, Remainder
    <2> HIDE DEF k, r
    <2>3. k < n
        <3> SUFFICES ASSUME k >= n PROVE FALSE
            BY <2>2
        <3>1. k * WordSize >= n * WordSize
            BY <1>1, <2>2
        <3>2. k * WordSize \in Nat
            BY <1>1, <2>2
        <3> QED BY <1>4, <2>1, <2>2, <3>1, <3>2
    <2>4. k \in 0 .. n - 1
        BY <2>2, <2>3
    <2>5. i + k * WordSize \in WordStarts(i, n)
        BY <2>4 DEF WordStarts
    <2>6. k * WordSize \in Nat /\ (i + k * WordSize) % WordSize = 0
        BY <1>2, <2>4
    <2>7. i + k * WordSize \in Nat /\ c \in i + k * WordSize .. i + k * WordSize + WordSize - 1
        BY <1>1, <2>2, <2>6
    <2>8. Word(i + k * WordSize) = Word(x)
        BY <1>6, <2>6, <2>7, WordIsItsCounters
    <2> QED BY <2>5, <2>8 DEF HitWord
<1> QED BY <1>3, <1>5, <1>6 DEF Hit, HitWord

\* The three loops of mark_did_receive clear exactly the bits of the skipped counters.
LEMMA SkippedAreCleared ==
    ASSUME NEW bm \in Bitmap, NEW from \in Nat, NEW counter \in Nat,
           from < counter, NEW x \in Nat
    PROVE  /\ ClearSkipped(bm, from, counter) \in Bitmap
           /\ CheckBit(ClearSkipped(bm, from, counter), x) <=>
                  CheckBit(bm, x) /\ ~Hit(from .. counter - 1, x)
<1> DEFINE i1 == AlignedOrEnd(from, counter)
           n == WholeWords(i1, counter)
           i2 == i1 + n * WordSize
           bm1 == ClearBits(bm, from .. i1 - 1)
           bm2 == ClearWords(bm1, WordStarts(i1, n))
           bm3 == ClearBits(bm2, i2 .. counter - 1)
<1>1. i1 \in from .. counter /\ (i1 < counter => i1 % WordSize = 0)
    BY FirstLoop
<1>2. i1 \in Nat /\ i1 <= counter
    BY <1>1
<1>3. n \in Nat /\ (n > 0 => i1 < counter) /\ i2 <= counter
    <2> HIDE DEF i1
    <2> QED BY <1>2, SecondLoop
<1>4. i2 \in Nat /\ i1 <= i2
    <2>1. n * WordSize \in Nat
        BY WindowConstants, <1>3
    <2> HIDE DEF i1, n
    <2> QED BY <1>2, <2>1
<1>5. n > 0 => i1 % WordSize = 0
    BY <1>1, <1>3
<1>6. ClearSkipped(bm, from, counter) = bm3
    BY DEF ClearSkipped
<1> HIDE DEF i1, n
<1>7. /\ bm1 \in Bitmap
      /\ CheckBit(bm1, x) <=> CheckBit(bm, x) /\ ~Hit(from .. i1 - 1, x)
    <2>1. from .. i1 - 1 \in SUBSET Nat
        BY <1>2
    <2> QED BY <2>1, BitsCleared, Zenon
<1>8. /\ bm2 \in Bitmap
      /\ CheckBit(bm2, x) <=> CheckBit(bm1, x) /\ ~Hit(i1 .. i2 - 1, x)
    <2>1. /\ WordStarts(i1, n) \in SUBSET Nat
          /\ HitWord(WordStarts(i1, n), x) <=> Hit(i1 .. i2 - 1, x)
        <3>1. i1 \in Nat /\ n \in Nat
            BY <1>2, <1>3
        <3> QED BY <3>1, <1>5, WordsAreRange, Zenon
    <2> HIDE DEF bm1
    <2> QED BY <1>7, <2>1, WordsCleared, Zenon
<1>9. /\ bm3 \in Bitmap
      /\ CheckBit(bm3, x) <=> CheckBit(bm2, x) /\ ~Hit(i2 .. counter - 1, x)
    <2>1. i2 .. counter - 1 \in SUBSET Nat
        BY <1>4
    <2> HIDE DEF bm2
    <2> QED BY <1>8, <2>1, BitsCleared, Zenon
<1>10. (Hit(from .. counter - 1, x)) <=>
          \/ Hit(from .. i1 - 1, x)
          \/ Hit(i1 .. i2 - 1, x)
          \/ Hit(i2 .. counter - 1, x)
    <2> HIDE DEF i2
    <2>1. \A c : c \in from .. counter - 1 <=>
              c \in from .. i1 - 1 \/ c \in i1 .. i2 - 1 \/ c \in i2 .. counter - 1
        BY <1>1, <1>2, <1>3, <1>4
    <2> QED BY <2>1, Zenon DEF Hit
<1> QED BY <1>6, <1>7, <1>8, <1>9, <1>10, Zenon

\* The bitmap tells which of the counters in the window were accepted.
WInv ==
    /\ sending_key_counter \in Nat /\ next \in Nat /\ bitmap \in Bitmap
    /\ accepted \subseteq Counters /\ IsFiniteSet(accepted)
    /\ receive_cnt = Cardinality(accepted)
    /\ \A c \in accepted : c < next
    /\ \A c \in Nat : c < next /\ next <= c + NBits =>
           (CheckBit(bitmap, c) <=> c \in accepted)

\* mark_did_receive keeps the bitmap exact, whether the counter is the expected one,
\* an earlier one, or ahead by less or by more than the window.
LEMMA WindowStep ==
    ASSUME WInv, NEW counter \in Nat, Mark(counter),
           accepted' = accepted \cup {counter}
    PROVE  /\ next' \in Nat /\ bitmap' \in Bitmap /\ counter \notin accepted
           /\ \A c \in accepted' : c < next'
           /\ \A c \in Nat : c < next' /\ next' <= c + NBits =>
                  (CheckBit(bitmap', c) <=> c \in accepted')
<1> USE DEF WInv
<1>1. NBits \in Nat \ {0}
    BY WindowConstants DEF NBits
<1>2. (\A c \in Nat : Same(c, c)) /\ accepted \subseteq Nat
    BY WindowConstants DEF Same, Counters
<1>3. CASE counter = next
    <2>1. bitmap' = SetBit(bitmap, counter) /\ next' = next + 1
        BY <1>3 DEF Mark
    <2>2. ASSUME NEW c \in Nat, c < next', next' <= c + NBits
          PROVE  CheckBit(bitmap', c) <=> c \in accepted'
        <3>1. CheckBit(bitmap', c) <=> CheckBit(bitmap, c) \/ Same(counter, c)
            BY <2>1, BitIsSet
        <3>2. CASE c = counter
            BY <1>2, <3>1, <3>2
        <3>3. CASE c # counter
            <4>1. c < counter /\ counter < c + NBits
                BY <1>1, <1>3, <2>1, <2>2, <3>3
            <4>2. ~Same(counter, c)
                BY <4>1, OwnBit
            <4> QED BY <1>1, <1>3, <3>1, <3>3, <4>1, <4>2
        <3> QED BY <3>2, <3>3
    <2>3. bitmap' \in Bitmap
        BY <2>1, BitIsSet
    <2> QED BY <1>2, <1>3, <2>1, <2>2, <2>3
<1>4. CASE counter < next
    <2>1. bitmap' = SetBit(bitmap, counter) /\ next' = next
        BY <1>4 DEF Mark
    <2>2. next <= counter + NBits /\ ~CheckBit(bitmap, counter)
        BY <1>1, <1>4 DEF Mark, MarkIsOk, TooFarBack
    <2>3. ASSUME NEW c \in Nat, c < next', next' <= c + NBits
          PROVE  CheckBit(bitmap', c) <=> c \in accepted'
        <3>1. CheckBit(bitmap', c) <=> CheckBit(bitmap, c) \/ Same(counter, c)
            BY <2>1, BitIsSet
        <3>2. CASE c = counter
            BY <1>2, <3>1, <3>2
        <3>3. CASE c # counter
            <4>1. (c < counter /\ counter < c + NBits) \/ (counter < c /\ c < counter + NBits)
                BY <1>1, <1>4, <2>1, <2>2, <2>3, <3>3
            <4>2. ~Same(counter, c)
                BY <4>1, OwnBit
            <4> QED BY <2>1, <2>3, <3>1, <3>3, <4>2
        <3> QED BY <3>2, <3>3
    <2>4. bitmap' \in Bitmap
        BY <2>1, BitIsSet
    <2> QED BY <1>4, <2>1, <2>2, <2>3, <2>4
<1>5. CASE counter > next
    <2> DEFINE bm == IF counter - next >= NBits THEN [w \in Words |-> {}]
                     ELSE ClearSkipped(bitmap, next, counter)
    <2>1. bitmap' = SetBit(bm, counter) /\ next' = counter + 1
        BY <1>5 DEF Mark
    <2>2. bm \in Bitmap
        <3>1. [w \in Words |-> {}] \in Bitmap
            BY DEF Bitmap
        <3>2. ClearSkipped(bitmap, next, counter) \in Bitmap
            BY <1>5, SkippedAreCleared
        <3> QED BY <3>1, <3>2
    <2>3. ASSUME NEW c \in Nat, c < next', next' <= c + NBits
          PROVE  CheckBit(bitmap', c) <=> c \in accepted'
        <3> HIDE DEF bm
        <3>1. CheckBit(bitmap', c) <=> CheckBit(bm, c) \/ Same(counter, c)
            BY <2>1, <2>2, BitIsSet
        <3>2. CASE c = counter
            BY <1>2, <3>1, <3>2
        <3>3. CASE c # counter
            <4>1. c < counter /\ counter < c + NBits
                BY <1>1, <2>1, <2>3, <3>3
            <4>2. ~Same(counter, c)
                BY <4>1, OwnBit
            <4>3. CASE counter - next >= NBits
                <5>1. c >= next
                    BY <1>1, <4>1, <4>3
                <5>2. ~CheckBit(bm, c)
                    <6>1. Word(c) \in Words
                        BY PlaceOf
                    <6> QED BY <4>3, <6>1 DEF CheckBit, bm
                <5> QED BY <3>1, <3>3, <4>2, <5>1, <5>2
            <4>4. CASE ~(counter - next >= NBits)
                <5>1. CheckBit(bm, c) <=>
                          CheckBit(bitmap, c) /\ ~Hit(next .. counter - 1, c)
                    BY <1>5, <4>4, SkippedAreCleared DEF bm
                <5>2. CASE c >= next
                    <6>1. c \in next .. counter - 1
                        BY <4>1, <5>2
                    <6> QED BY <1>2, <3>1, <3>3, <4>2, <5>1, <5>2, <6>1 DEF Hit
                <5>3. CASE c < next
                    <6>1. ASSUME NEW d \in next .. counter - 1
                          PROVE  ~Same(d, c)
                        <7>1. d \in Nat /\ c < d /\ d < c + NBits
                            BY <1>1, <4>1, <5>3
                        <7> QED BY <7>1, OwnBit
                    <6>2. next <= c + NBits
                        BY <1>1, <1>5, <4>1
                    <6> QED BY <3>1, <3>3, <4>2, <5>1, <5>3, <6>1, <6>2 DEF Hit
                <5> QED BY <5>2, <5>3
            <4> QED BY <4>3, <4>4
        <3> QED BY <3>2, <3>3
    <2>4. bitmap' \in Bitmap
        BY <2>1, <2>2, BitIsSet
    <2> HIDE DEF bm
    <2> QED BY <1>2, <1>5, <2>1, <2>3, <2>4
<1> QED BY <1>3, <1>4, <1>5

\* A new validator has seen nothing.
LEMMA InitWInv ==
    ASSUME WindowInit
    PROVE  WInv
<1>1. bitmap \in Bitmap
    BY DEF WindowInit, Bitmap
<1>2. IsFiniteSet({}) /\ Cardinality({}) = 0
    BY FS_EmptySet
<1> QED BY <1>1, <1>2 DEF WindowInit, WInv

\* What is sent, received or forged keeps the bitmap exact.
LEMMA NextWInv ==
    ASSUME WInv, [WindowNext]_window_vars
    PROVE  WInv'
<1>1. CASE FormatPacketData
    BY <1>1 DEF FormatPacketData, validator, WInv
<1>2. ASSUME NEW counter \in Counters, ReceivePacketData(counter)
      PROVE  WInv'
    <2>1. counter \in Nat
        BY WindowConstants DEF Counters
    <2>2. Mark(counter) /\ accepted' = accepted \cup {counter}
          /\ receive_cnt' = receive_cnt + 1 /\ sending_key_counter' = sending_key_counter
        BY <1>2 DEF ReceivePacketData, Mark
    <2>3. /\ next' \in Nat /\ bitmap' \in Bitmap /\ counter \notin accepted
          /\ \A c \in accepted' : c < next'
          /\ \A c \in Nat : c < next' /\ next' <= c + NBits =>
                 (CheckBit(bitmap', c) <=> c \in accepted')
        BY <2>1, <2>2, WindowStep
    <2>4. IsFiniteSet(accepted') /\ Cardinality(accepted') = Cardinality(accepted) + 1
        BY <2>2, <2>3, FS_AddElement DEF WInv
    <2> QED BY <2>2, <2>3, <2>4 DEF WInv
<1>3. ASSUME UNCHANGED window_vars
      PROVE  WInv'
    BY <1>3 DEF window_vars, validator, WInv
<1>4. ASSUME NEW counter \in Counters, ReceiveForged(counter)
      PROVE  WInv'
    BY <1>3, <1>4 DEF ReceiveForged
<1> QED BY <1>1, <1>2, <1>3, <1>4 DEF WindowNext

\* An exact bitmap decides like the set of accepted counters.
LEMMA WindowSound ==
    ASSUME WInv
    PROVE  WindowExact /\ NoReplay
<1> USE DEF WInv
<1>1. NBits \in Nat \ {0}
    BY WindowConstants DEF NBits
<1>2. WindowTypeOK
    <2>1. Cardinality(accepted) \in Nat
        BY FS_CardinalityType
    <2> QED BY <2>1 DEF WindowTypeOK, Bitmap
<1>3. ASSUME NEW counter \in Counters
      PROVE  LET good == counter >= next \/ (counter + NBits >= next /\ counter \notin accepted)
             IN  (WillAccept(counter) <=> good) /\ (MarkIsOk(counter) <=> good)
    <2>1. counter \in Nat
        BY WindowConstants DEF Counters
    <2>2. CASE counter >= next
        <3>1. ~TooFarBack(counter) /\ ~(counter < next)
            BY <1>1, <2>1, <2>2 DEF TooFarBack
        <3> QED BY <2>2, <3>1 DEF WillAccept, MarkIsOk
    <2>3. CASE counter < next /\ next <= counter + NBits
        <3>1. CheckBit(bitmap, counter) <=> counter \in accepted
            BY <2>1, <2>3
        <3> QED BY <1>1, <2>1, <2>3, <3>1 DEF WillAccept, MarkIsOk, TooFarBack
    <2>4. CASE counter < next /\ counter + NBits < next
        BY <1>1, <2>1, <2>4 DEF WillAccept, MarkIsOk, TooFarBack
    <2> QED BY <1>1, <2>1, <2>2, <2>3, <2>4
<1>4. WindowExact
    BY <1>2, <1>3 DEF WindowExact
<1> QED BY <1>4 DEF NoReplay

\* ReceivingKeyCounterValidator, for any size of words and window: will_accept and
\* mark_did_receive let a counter through exactly if it is new and not more than
\* N_BITS behind, whatever arrived before it and in whatever order.
THEOREM WindowIsExact == WindowSpec => []WindowExact
<1>1. WindowInit => WInv
    BY InitWInv
<1>2. WInv /\ [WindowNext]_window_vars => WInv'
    BY NextWInv
<1>3. WInv => WindowExact
    BY WindowSound
<1> QED BY <1>1, <1>2, <1>3, PTL DEF WindowSpec

\* No packet is delivered twice, however the counters jump and the ring of words
\* is reused: receive_cnt counts distinct counters.
THEOREM NothingIsReplayed == WindowSpec => []NoReplay
<1>1. WindowInit => WInv
    BY InitWInv
<1>2. WInv /\ [WindowNext]_window_vars => WInv'
    BY NextWInv
<1>3. WInv => NoReplay
    BY WindowSound
<1> QED BY <1>1, <1>2, <1>3, PTL DEF WindowSpec
==============================================================================
