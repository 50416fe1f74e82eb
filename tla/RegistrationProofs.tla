-------------------------- MODULE RegistrationProofs --------------------------
(***************************************************************************)
(* Registration for any keys, any address pool and any number of faults:   *)
(* the books of the registration API stay consistent, traffic to a leased  *)
(* address never reaches another key, the API implements PeerService, and  *)
(* until a call times out books and device agree and the device does not   *)
(* panic.                                                                  *)
(***************************************************************************)
EXTENDS Registration, TLAPS

USE RegistrationConstants

------------------------------------------------------------------------------
(* The queue of UAPI commands *)

\* No command of who is in the queue.
NoneFrom(q, who) == \A i \in 1..Len(q) : q[i].from # who

\* A served command leaves the queue in order, and its caller waits no more.
LEMMA QueueTail ==
    ASSUME NEW q, NEW h, NEW r, NEW avail, QueueOK(q, h, r, avail), q # <<>>
    PROVE  /\ QueueOK(Tail(q), h, r, avail)
           /\ Head(q) \in Command
           /\ CommandOK(Head(q), h, r, avail)
           /\ Head(q).from # "gone" => NoneFrom(Tail(q), Head(q).from)
           /\ Head(q).from = "http" => \A i \in 1..Len(Tail(q)) : Tail(q)[i].op # "set"
<1>1. /\ q \in Seq(Command) /\ Len(q) \in Nat \ {0}
      /\ Tail(q) \in Seq(Command) /\ Len(Tail(q)) = Len(q) - 1
      /\ \A i \in 1..Len(Tail(q)) : Tail(q)[i] = q[i + 1] /\ i + 1 \in 1..Len(q)
      /\ Head(q) = q[1] /\ 1 \in 1..Len(q)
  BY DEF QueueOK
<1>2. q[1] \in Command /\ q[1].from \in {"http", "reaper", "gone"}
  <2>1. q[1] \in Command BY <1>1
  <2> QED BY <2>1 DEF Command, Callers
<1>3. \A i \in 1..Len(Tail(q)) : InOrder(q[1], Tail(q)[i]) /\ CommandOK(Tail(q)[i], h, r, avail)
  BY <1>1 DEF QueueOK
<1>4. \A i, j \in 1..Len(Tail(q)) : i < j => InOrder(Tail(q)[i], Tail(q)[j])
  <2>1. SUFFICES ASSUME NEW i \in 1..Len(Tail(q)), NEW j \in 1..Len(Tail(q)), i < j
                 PROVE  InOrder(q[i + 1], q[j + 1])
    BY <1>1
  <2>2. i + 1 \in 1..Len(q) /\ j + 1 \in 1..Len(q) /\ i + 1 < j + 1
    BY <1>1, <2>1
  <2> QED BY <2>2 DEF QueueOK
<1>5. QueueOK(Tail(q), h, r, avail)
  BY <1>1, <1>3, <1>4 DEF QueueOK
<1> QED BY <1>1, <1>2, <1>3, <1>5 DEF QueueOK, NoneFrom, InOrder

\* A caller that gives up leaves its command behind and no other.
LEMMA QueueAbandon ==
    ASSUME NEW q, NEW h, NEW r, NEW avail, QueueOK(q, h, r, avail),
           NEW i \in 1..Len(q), q[i].from # "gone"
    PROVE  LET p == [q EXCEPT ![i].from = "gone"] IN
           /\ q[i].from \in {"http", "reaper"}
           /\ CommandOK(q[i], h, r, avail)
           /\ QueueOK(p, h, r, avail)
           /\ NoneFrom(p, q[i].from)
<1> DEFINE p == [q EXCEPT ![i].from = "gone"]
<1>1. q \in Seq(Command) /\ DOMAIN q = 1..Len(q) /\ q[i] \in Command
  BY DEF QueueOK
<1>2. /\ p \in Seq(Command) /\ Len(p) = Len(q)
      /\ p[i] = [q[i] EXCEPT !.from = "gone"]
      /\ \A j \in 1..Len(q) : j # i => p[j] = q[j]
  BY <1>1 DEF Command
<1>3. /\ p[i].from = "gone" /\ p[i].op = q[i].op
      /\ p[i].key = q[i].key /\ p[i].octet = q[i].octet
  BY <1>1, <1>2 DEF Command
<1>4. q[i].from \in {"http", "reaper"}
  BY <1>1 DEF Command, Callers
<1>5. \A j \in 1..Len(p) : CommandOK(p[j], h, r, avail)
  BY <1>2, <1>3, <1>4 DEF QueueOK, CommandOK
<1>6. \A j, k \in 1..Len(p) : j < k => InOrder(p[j], p[k])
  BY <1>2, <1>3, <1>4 DEF QueueOK, InOrder
<1>7. NoneFrom(p, q[i].from)
  <2>1. SUFFICES ASSUME NEW j \in 1..Len(p), p[j].from = q[i].from PROVE FALSE
    BY DEF NoneFrom
  <2>2. j # i
    BY <2>1, <1>3, <1>4
  <2>3. p[j] = q[j] /\ (j < i \/ i < j)
    BY <2>2, <1>2
  <2> QED BY <1>4, <1>2, <2>1, <2>3 DEF QueueOK, InOrder
<1> QED BY <1>2, <1>4, <1>5, <1>6, <1>7 DEF QueueOK

\* A failed connection takes its command out of the queue.
LEMMA QueueWithout ==
    ASSUME QueueOK(uapi, http, reaper, available_ips),
           NEW i \in 1..Len(uapi), uapi[i].from # "gone"
    PROVE  /\ uapi[i].from \in {"http", "reaper"}
           /\ CommandOK(uapi[i], http, reaper, available_ips)
           /\ QueueOK(Without(i), http, reaper, available_ips)
           /\ NoneFrom(Without(i), uapi[i].from)
<1> DEFINE p == Without(i)
           at(j) == IF j < i THEN j ELSE j + 1
<1>1. uapi \in Seq(Command) /\ Len(uapi) \in Nat \ {0} /\ uapi[i] \in Command
  BY DEF QueueOK
<1>2. \A j \in 1..(Len(uapi) - 1) : at(j) \in 1..Len(uapi) /\ at(j) # i
  BY <1>1
<1>3. \A j \in 1..(Len(uapi) - 1) : p[j] = uapi[at(j)] /\ p[j] \in Command
  BY <1>1, <1>2 DEF Without
<1>4. p \in Seq(Command) /\ Len(p) = Len(uapi) - 1
  <2>1. Len(uapi) - 1 \in Nat BY <1>1
  <2>2. p \in [1..(Len(uapi) - 1) -> Command]
    BY <1>3 DEF Without
  <2> QED BY <2>1, <2>2
<1>5. uapi[i].from \in {"http", "reaper"}
  BY <1>1 DEF Command, Callers
<1>6. \A j \in 1..Len(p) : CommandOK(p[j], http, reaper, available_ips)
  BY <1>2, <1>3, <1>4 DEF QueueOK
<1>7. \A j, k \in 1..Len(p) : j < k => InOrder(p[j], p[k])
  <2>1. SUFFICES ASSUME NEW j \in 1..Len(p), NEW k \in 1..Len(p), j < k
                 PROVE  InOrder(uapi[at(j)], uapi[at(k)])
    BY <1>3, <1>4
  <2>2. at(j) < at(k) /\ at(j) \in 1..Len(uapi) /\ at(k) \in 1..Len(uapi)
    BY <1>1, <1>4, <2>1
  <2> QED BY <2>2 DEF QueueOK
<1>8. NoneFrom(p, uapi[i].from)
  <2>1. SUFFICES ASSUME NEW j \in 1..Len(p) PROVE uapi[at(j)].from # uapi[i].from
    BY <1>3, <1>4 DEF NoneFrom
  <2>2. at(j) \in 1..Len(uapi) /\ (at(j) < i \/ i < at(j))
    BY <1>2, <1>4
  <2> QED BY <1>5, <2>2 DEF QueueOK, InOrder
<1> QED BY <1>4, <1>5, <1>6, <1>7, <1>8 DEF QueueOK

\* A thread without a command in the queue may go anywhere.
LEMMA QueueHttpMoves ==
    ASSUME NEW q, NEW h, NEW r, NEW avail, QueueOK(q, h, r, avail), NoneFrom(q, "http"), NEW g
    PROVE  QueueOK(q, g, r, avail)
BY DEF QueueOK, CommandOK, NoneFrom

\* So may the reaper without one.
LEMMA QueueReaperMoves ==
    ASSUME NEW q, NEW h, NEW r, NEW avail, QueueOK(q, h, r, avail), NoneFrom(q, "reaper"), NEW g
    PROVE  QueueOK(q, h, g, avail)
BY DEF QueueOK, CommandOK, NoneFrom

\* A caller without a command in the queue may send one.
LEMMA QueueAppend ==
    ASSUME NEW q, NEW h, NEW r, NEW avail, QueueOK(q, h, r, avail),
           NEW c \in Command, CommandOK(c, h, r, avail), NoneFrom(q, c.from),
           c.op = "set" => NoneFrom(q, "http")
    PROVE  QueueOK(Append(q, c), h, r, avail)
<1>1. /\ q \in Seq(Command) /\ Append(q, c) \in Seq(Command)
      /\ Len(Append(q, c)) = Len(q) + 1 /\ Len(q) \in Nat
      /\ Append(q, c)[Len(q) + 1] = c
      /\ \A i \in 1..Len(q) : Append(q, c)[i] = q[i]
  BY DEF QueueOK
<1>2. \A i \in 1..Len(q) : InOrder(q[i], c)
  BY DEF NoneFrom, InOrder
<1>3. \A i \in 1..(Len(q) + 1) : CommandOK(Append(q, c)[i], h, r, avail)
  BY <1>1 DEF QueueOK
<1>4. \A i, j \in 1..(Len(q) + 1) : i < j => InOrder(Append(q, c)[i], Append(q, c)[j])
  <2>1. SUFFICES ASSUME NEW i \in 1..(Len(q) + 1), NEW j \in 1..(Len(q) + 1), i < j
                 PROVE  InOrder(Append(q, c)[i], Append(q, c)[j])
    OBVIOUS
  <2>2. i \in 1..Len(q) /\ Append(q, c)[i] = q[i]
    BY <1>1, <2>1
  <2>3. CASE j = Len(q) + 1
    BY <1>1, <1>2, <2>2, <2>3
  <2>4. CASE j # Len(q) + 1
    <3>1. j \in 1..Len(q) /\ Append(q, c)[j] = q[j] BY <1>1, <2>4
    <3> QED BY <2>1, <2>2, <3>1 DEF QueueOK
  <2> QED BY <2>3, <2>4
<1> QED BY <1>1, <1>3, <1>4 DEF QueueOK

------------------------------------------------------------------------------
(* The parts that several actions share *)

\* The reaper goes on with the next stale key or releases the mutex.
LEMMA ReapNextStep ==
    ASSUME TypeOK, NEW STATE q, NEW STATE todo, todo \in SUBSET Keys,
           \A k \in todo : peer_to_octet'[k] # None,
           http.at = "idle", UNCHANGED http,
           QueueOK(q, http, reaper, available_ips'), NoneFrom(q, "reaper"),
           ReapNext(todo, q)
    PROVE  /\ reaper' \in ReaperThread /\ lock' \in Callers \cup {None}
           /\ Holders' /\ ReaperLocals'
           /\ QueueOK(uapi', http', reaper', available_ips')
<1>1. reaper \in ReaperThread
  BY DEF TypeOK
<1>2. CASE todo = {} /\ reaper' = ReaperAsleep /\ lock' = None /\ uapi' = q
  <2>1. reaper' \in ReaperThread /\ reaper'.at = "sleep"
    BY <1>2 DEF ReaperAsleep, ReaperThread, NoSnapshot, Snapshots, Times
  <2>2. QueueOK(uapi', http', reaper', available_ips')
    BY <1>2, QueueReaperMoves
  <2> QED BY <1>2, <2>1, <2>2 DEF Holders, ReaperLocals, Callers
<1>3. ASSUME NEW k \in todo,
             reaper' = [reaper EXCEPT !.at = "remove", !.todo = todo \ {k}, !.key = k],
             lock' = "reaper",
             uapi' = Append(q, [from |-> "reaper", op |-> "remove", key |-> k, octet |-> None])
      PROVE  /\ reaper' \in ReaperThread /\ lock' \in Callers \cup {None}
             /\ Holders' /\ ReaperLocals'
             /\ QueueOK(uapi', http', reaper', available_ips')
  <2> DEFINE c == [from |-> "reaper", op |-> "remove", key |-> k, octet |-> None]
  <2>1. /\ reaper' \in ReaperThread /\ reaper'.at = "remove"
        /\ reaper'.todo = todo \ {k} /\ reaper'.key = k
    BY <1>1, <1>3 DEF ReaperThread
  <2>2. QueueOK(q, http, reaper', available_ips')
    BY QueueReaperMoves
  <2>3. c \in Command /\ CommandOK(c, http, reaper', available_ips')
    BY <2>1 DEF Command, Callers, CommandOK
  <2>4. QueueOK(Append(q, c), http, reaper', available_ips')
    BY <2>2, <2>3, QueueAppend
  <2> QED BY <1>3, <2>1, <2>4 DEF Holders, ReaperLocals, Callers
<1> QED BY <1>2, <1>3 DEF ReapNext

\* The HTTP thread answers a known key, refuses when the pool is empty, or asks
\* the device for a new peer.
LEMMA RegisterBodyStep ==
    ASSUME IInv, NEW STATE q, NEW STATE k, k \in Keys, lock # "reaper",
           QueueOK(q, http, reaper, available_ips), NoneFrom(q, "http"),
           RegisterBody(k, q), server_pubkey_cache' \in BOOLEAN,
           UNCHANGED <<now, faults, inner, reaper, device>>
    PROVE  IInv'
<1> USE DEF inner, device
<1>1. /\ PoolConsistent' /\ NoMisroute' /\ SessionTimes' /\ ReaperLocals'
  BY DEF IInv, PoolConsistent, Leased, NoMisroute, SessionTimes, ReaperLocals
<1>2. reaper.at # "remove"
  BY DEF IInv, Holders
<1>3. ASSUME HttpReply("ok") \/ HttpReply("unavailable"), uapi' = q
      PROVE  IInv'
  <2>1. http' \in HttpThread /\ http'.at = "idle" /\ lock' = None
    BY <1>3 DEF HttpReply, HttpIdle, HttpThread
  <2>2. QueueOK(uapi', http', reaper', available_ips')
    BY <1>3, QueueHttpMoves
  <2>3. TypeOK'
    BY <2>1, <2>2 DEF IInv, TypeOK, QueueOK, Callers
  <2> QED BY <1>1, <1>2, <2>1, <2>2, <2>3 DEF IInv, Holders, HttpLocals
<1>4. ASSUME NEW o \in available_ips,
             ~Known(k),
             http' = [at |-> "set", key |-> k, octet |-> o, status |-> None],
             uapi' = Append(q, [from |-> "http", op |-> "set", key |-> k, octet |-> o]),
             lock' = "http"
      PROVE  IInv'
  <2> DEFINE c == [from |-> "http", op |-> "set", key |-> k, octet |-> o]
  <2>1. o \in Octets /\ peer_to_octet[k] = None
    BY <1>4 DEF IInv, TypeOK, PoolConsistent, Known
  <2>2. /\ http' \in HttpThread /\ http'.at = "set" /\ http'.key = k /\ http'.octet = o
    BY <1>4, <2>1 DEF HttpThread
  <2>3. QueueOK(q, http', reaper, available_ips)
    BY QueueHttpMoves
  <2>4. c \in Command /\ CommandOK(c, http', reaper, available_ips)
    BY <2>1, <2>2 DEF Command, Callers, CommandOK
  <2>5. QueueOK(Append(q, c), http', reaper, available_ips)
    BY <2>3, <2>4, QueueAppend
  <2>6. TypeOK'
    BY <1>4, <2>2, <2>5 DEF IInv, TypeOK, QueueOK, Callers
  <2> QED BY <1>1, <1>2, <1>4, <2>1, <2>2, <2>5, <2>6 DEF IInv, Holders, HttpLocals
<1> QED BY <1>3, <1>4 DEF RegisterBody, RegisterKnown, RegisterExhausted, RegisterAllocate

\* RegistrationInner keeps its type.
InnerType ==
    /\ registered_peers \subseteq Keys /\ available_ips \subseteq Octets
    /\ peer_to_octet \in [Keys -> Octets \cup {None}]
    /\ peer_registered_at \in [Keys -> Times \cup {None}]

\* Committing a registration takes the octet from the pool and gives it to k.
LEMMA CommitRegisterKeeps ==
    ASSUME InnerType, PoolConsistent, now \in Times, NEW STATE k, NEW STATE o,
           k \in Keys, o \in available_ips, peer_to_octet[k] = None, CommitRegister(k, o)
    PROVE  /\ InnerType' /\ PoolConsistent'
           /\ peer_to_octet'[k] = o
           /\ \A j \in Keys \ {k} : peer_to_octet'[j] = peer_to_octet[j] /\ peer_to_octet[j] # o
<1>1. o \in Octets /\ o # None /\ o \notin Leased /\ now # None
  BY DEF InnerType, PoolConsistent, Times
<1>2. InnerType'
  BY <1>1 DEF InnerType, CommitRegister
<1>3. /\ peer_to_octet'[k] = o
      /\ \A j \in Keys \ {k} : peer_to_octet'[j] = peer_to_octet[j] /\ peer_to_octet[j] # o
  BY <1>1 DEF InnerType, CommitRegister, Leased
<1>4. /\ peer_registered_at'[k] = now
      /\ \A j \in Keys \ {k} : peer_registered_at'[j] = peer_registered_at[j]
  BY DEF InnerType, CommitRegister
<1>5. Leased' = Leased \cup {o}
  BY <1>1, <1>3 DEF Leased
<1>6. available_ips' = Octets \ Leased'
  BY <1>5 DEF PoolConsistent, CommitRegister
<1>7. /\ registered_peers' = {j \in Keys : peer_to_octet'[j] # None}
      /\ registered_peers' = {j \in Keys : peer_registered_at'[j] # None}
  BY <1>1, <1>3, <1>4 DEF PoolConsistent, CommitRegister
<1>8. \A i, j \in Keys :
         peer_to_octet'[i] = peer_to_octet'[j] /\ peer_to_octet'[i] # None => i = j
  BY <1>3 DEF PoolConsistent
<1> QED BY <1>2, <1>3, <1>6, <1>7, <1>8 DEF PoolConsistent

\* Committing a removal returns k's octet to the pool.
LEMMA CommitRemoveKeeps ==
    ASSUME InnerType, PoolConsistent, NEW STATE k,
           k \in Keys, peer_to_octet[k] # None, CommitRemove(k)
    PROVE  /\ InnerType' /\ PoolConsistent' /\ available_ips \subseteq available_ips'
           /\ peer_to_octet'[k] = None
           /\ \A j \in Keys \ {k} : peer_to_octet'[j] = peer_to_octet[j]
<1> DEFINE o == peer_to_octet[k]
<1>1. o \in Octets /\ o # None
  BY DEF InnerType
<1>2. InnerType'
  BY <1>1 DEF InnerType, CommitRemove
<1>3. /\ peer_to_octet'[k] = None
      /\ \A j \in Keys \ {k} : peer_to_octet'[j] = peer_to_octet[j] /\ peer_to_octet[j] # o
  BY <1>1 DEF InnerType, CommitRemove, PoolConsistent
<1>4. /\ peer_registered_at'[k] = None
      /\ \A j \in Keys \ {k} : peer_registered_at'[j] = peer_registered_at[j]
  BY DEF InnerType, CommitRemove
<1>5. Leased' = Leased \ {o}
  BY <1>1, <1>3 DEF Leased
<1>6. available_ips' = Octets \ Leased' /\ available_ips \subseteq available_ips'
  BY <1>1, <1>5 DEF PoolConsistent, CommitRemove
<1>7. /\ registered_peers' = {j \in Keys : peer_to_octet'[j] # None}
      /\ registered_peers' = {j \in Keys : peer_registered_at'[j] # None}
  BY <1>1, <1>3, <1>4 DEF PoolConsistent, CommitRemove
<1>8. \A i, j \in Keys :
         peer_to_octet'[i] = peer_to_octet'[j] /\ peer_to_octet'[i] # None => i = j
  BY <1>3 DEF PoolConsistent
<1> QED BY <1>2, <1>3, <1>6, <1>7, <1>8 DEF PoolConsistent

\* A pool that grew does not disturb the queue.
LEMMA QueueMoreAvailable ==
    ASSUME NEW q, NEW h, NEW r, NEW a, NEW b, QueueOK(q, h, r, a), a \subseteq b
    PROVE  QueueOK(q, h, r, b)
BY DEF QueueOK, CommandOK

------------------------------------------------------------------------------
(* The inductive invariant *)

\* The invariant holds at first.
LEMMA InitIInv == Init => IInv
<1> SUFFICES ASSUME Init PROVE IInv
  OBVIOUS
<1>1. http \in HttpThread /\ http.at = "idle"
  BY DEF Init, HttpIdle, HttpThread
<1>2. reaper \in ReaperThread /\ reaper.at = "sleep"
  BY DEF Init, ReaperAsleep, ReaperThread, NoSnapshot, Snapshots, Times
<1>3. QueueOK(uapi, http, reaper, available_ips)
  BY DEF Init, QueueOK
<1>4. TypeOK
  <2>1. /\ now \in Times /\ faults \in [{"timeout", "error"} -> 0..MaxFaults]
        /\ registered_peers \subseteq Keys /\ available_ips \subseteq Octets
        /\ lock \in Callers \cup {None}
    BY DEF Init, Times
  <2>2. /\ peer_to_octet \in [Keys -> Octets \cup {None}]
        /\ peer_registered_at \in [Keys -> Times \cup {None}]
        /\ peers \in [Keys -> Octets \cup {None}]
        /\ peers_by_ip \in [Octets -> Keys \cup {None}]
        /\ handshake \in [Keys -> Times \cup {None}]
    BY DEF Init
  <2>3. /\ server_pubkey_cache \in BOOLEAN /\ configured \in BOOLEAN
        /\ panicked \in BOOLEAN /\ session \subseteq Keys
    BY DEF Init
  <2> QED BY <1>1, <1>2, <1>3, <2>1, <2>2, <2>3 DEF TypeOK, QueueOK
<1>5. Leased = {}
  BY DEF Init, Leased
<1>6. PoolConsistent /\ NoMisroute
  BY <1>5 DEF Init, PoolConsistent, NoMisroute
<1> QED BY <1>1, <1>2, <1>3, <1>4, <1>6
    DEF Init, IInv, Holders, HttpLocals, ReaperLocals, SessionTimes

\* Requests of the HTTP thread.
LEMMA RegisterStep == ASSUME IInv, NEW k \in Keys, Register(k) PROVE IInv'
<1> USE DEF inner, device
<1>1. NoneFrom(uapi, "http")
  BY DEF IInv, Register, QueueOK, CommandOK, NoneFrom
<1>2. CASE server_pubkey_cache /\ RegisterBody(k, uapi)
  BY <1>1, <1>2, RegisterBodyStep DEF IInv, TypeOK, Register
<1>3. CASE /\ lock' = "http" /\ Call("http", "get", None, None)
           /\ http' = [at |-> "info", key |-> k, octet |-> None, status |-> None]
  <2> DEFINE c == [from |-> "http", op |-> "get", key |-> None, octet |-> None]
  <2>1. http' \in HttpThread /\ http'.at = "info" /\ http'.key = k
    BY <1>3 DEF HttpThread
  <2>2. QueueOK(uapi, http', reaper, available_ips)
    BY <1>1, QueueHttpMoves DEF IInv
  <2>3. c \in Command /\ CommandOK(c, http', reaper, available_ips)
    BY <2>1 DEF Command, Callers, CommandOK
  <2>4. QueueOK(uapi', http', reaper', available_ips')
    BY <1>1, <1>3, <2>2, <2>3, QueueAppend DEF Register, Call
  <2>5. TypeOK'
    BY <1>3, <2>1, <2>4 DEF IInv, TypeOK, QueueOK, Callers, Register
  <2>6. PoolConsistent' /\ NoMisroute' /\ SessionTimes' /\ ReaperLocals'
    BY DEF IInv, PoolConsistent, Leased, NoMisroute, SessionTimes, ReaperLocals, Register
  <2> QED BY <1>3, <2>1, <2>4, <2>5, <2>6 DEF IInv, Holders, HttpLocals, Register
<1> QED BY <1>2, <1>3 DEF Register

LEMMA UnregisterStep == ASSUME IInv, NEW k \in Keys, Unregister(k) PROVE IInv'
<1> USE DEF inner, device
<1>1. NoneFrom(uapi, "http")
  BY DEF IInv, Unregister, QueueOK, CommandOK, NoneFrom
<1>2. PoolConsistent' /\ NoMisroute' /\ SessionTimes' /\ ReaperLocals'
  BY DEF IInv, PoolConsistent, Leased, NoMisroute, SessionTimes, ReaperLocals, Unregister
<1>3. CASE HttpReply("not_found") /\ UNCHANGED uapi
  <2>1. http' \in HttpThread /\ http'.at = "idle" /\ lock' = None
    BY <1>3 DEF HttpReply, HttpIdle, HttpThread
  <2>2. QueueOK(uapi', http', reaper', available_ips')
    BY <1>1, <1>3, QueueHttpMoves DEF IInv, Unregister
  <2>3. TypeOK'
    BY <2>1, <2>2 DEF IInv, TypeOK, QueueOK, Callers, Unregister
  <2> QED BY <1>2, <2>1, <2>2, <2>3 DEF IInv, Holders, HttpLocals, Unregister
<1>4. CASE /\ peer_to_octet[k] # None
           /\ lock' = "http" /\ Call("http", "remove", k, None)
           /\ http' = [at |-> "remove", key |-> k, octet |-> None, status |-> None]
  <2> DEFINE c == [from |-> "http", op |-> "remove", key |-> k, octet |-> None]
  <2>1. http' \in HttpThread /\ http'.at = "remove" /\ http'.key = k
    BY <1>4 DEF HttpThread
  <2>2. QueueOK(uapi, http', reaper, available_ips)
    BY <1>1, QueueHttpMoves DEF IInv
  <2>3. c \in Command /\ CommandOK(c, http', reaper, available_ips)
    BY <2>1 DEF Command, Callers, CommandOK
  <2>4. QueueOK(uapi', http', reaper', available_ips')
    BY <1>1, <1>4, <2>2, <2>3, QueueAppend DEF Unregister, Call
  <2>5. TypeOK'
    BY <1>4, <2>1, <2>4 DEF IInv, TypeOK, QueueOK, Callers, Unregister
  <2> QED BY <1>2, <1>4, <2>1, <2>4, <2>5 DEF IInv, Holders, HttpLocals, Unregister
<1> QED BY <1>3, <1>4 DEF Unregister

\* Steps of the reaper up to its calls.
LEMMA ReaperWakeStep == ASSUME IInv, ReaperWake PROVE IInv'
<1> USE DEF inner, device
<1> DEFINE c == [from |-> "reaper", op |-> "get", key |-> None, octet |-> None]
<1>1. NoneFrom(uapi, "reaper")
  BY DEF IInv, ReaperWake, QueueOK, CommandOK, NoneFrom
<1>2. reaper' \in ReaperThread /\ reaper'.at = "get"
  BY DEF IInv, TypeOK, ReaperWake, ReaperThread
<1>3. QueueOK(uapi, http, reaper', available_ips)
  BY <1>1, QueueReaperMoves DEF IInv
<1>4. c \in Command /\ CommandOK(c, http, reaper', available_ips)
  BY <1>2 DEF Command, Callers, CommandOK
<1>5. QueueOK(uapi', http', reaper', available_ips')
  BY <1>1, <1>3, <1>4, QueueAppend DEF ReaperWake, Call
<1>6. TypeOK'
  BY <1>2, <1>5 DEF IInv, TypeOK, QueueOK, ReaperWake
<1>7. PoolConsistent' /\ NoMisroute' /\ SessionTimes' /\ HttpLocals'
  BY DEF IInv, PoolConsistent, Leased, NoMisroute, SessionTimes, HttpLocals, ReaperWake
<1> QED BY <1>2, <1>5, <1>6, <1>7 DEF IInv, Holders, ReaperLocals, ReaperWake

LEMMA ReaperLockStep == ASSUME IInv, ReaperLock PROVE IInv'
<1> USE DEF inner, device
<1>1. NoneFrom(uapi, "reaper")
  BY DEF IInv, ReaperLock, QueueOK, CommandOK, NoneFrom
<1>2. http.at = "idle"
  BY DEF IInv, Holders, ReaperLock
<1>3. /\ StaleKeys(reaper.snap) \in SUBSET Keys
      /\ \A k \in StaleKeys(reaper.snap) : peer_to_octet'[k] # None
  BY DEF StaleKeys, ReaperLock
<1>4. /\ reaper' \in ReaperThread /\ lock' \in Callers \cup {None}
      /\ Holders' /\ ReaperLocals'
      /\ QueueOK(uapi', http', reaper', available_ips')
  BY <1>1, <1>2, <1>3, ReapNextStep DEF IInv, ReaperLock
<1>5. TypeOK'
  BY <1>4 DEF IInv, TypeOK, QueueOK, ReaperLock
<1>6. PoolConsistent' /\ NoMisroute' /\ SessionTimes' /\ HttpLocals'
  BY DEF IInv, PoolConsistent, Leased, NoMisroute, SessionTimes, HttpLocals, ReaperLock
<1> QED BY <1>4, <1>5, <1>6 DEF IInv

\* The device answers get.
LEMMA ServeGetStep == ASSUME IInv, ServeGet PROVE IInv'
<1> USE DEF inner, device
<1> DEFINE c == Head(uapi)
<1>1. /\ QueueOK(Tail(uapi), http, reaper, available_ips)
      /\ CommandOK(c, http, reaper, available_ips)
      /\ c.from # "gone" => NoneFrom(Tail(uapi), c.from)
  BY QueueTail DEF IInv, ServeGet
<1>2. PoolConsistent' /\ NoMisroute' /\ SessionTimes'
  BY DEF IInv, PoolConsistent, Leased, NoMisroute, SessionTimes, ServeGet
<1>3. CASE c.from = "http"
  <2>1. http.key \in Keys /\ lock # "reaper" /\ reaper.at # "remove" /\ UNCHANGED reaper
    BY <1>1, <1>3 DEF IInv, Holders, HttpLocals, CommandOK, ServeGet
  <2>2. CASE server_pubkey_cache' = TRUE /\ RegisterBody(http.key, Tail(uapi))
    BY <1>1, <1>3, <2>1, <2>2, RegisterBodyStep DEF ServeGet
  <2>3. CASE HttpReply("unavailable") /\ uapi' = Tail(uapi) /\ UNCHANGED server_pubkey_cache
    <3>1. http' \in HttpThread /\ http'.at = "idle" /\ lock' = None
      BY <2>3 DEF HttpReply, HttpIdle, HttpThread
    <3>2. QueueOK(uapi', http', reaper', available_ips')
      BY <1>1, <1>3, <2>1, <2>3, QueueHttpMoves DEF ServeGet
    <3>3. TypeOK'
      BY <2>1, <2>3, <3>1, <3>2 DEF IInv, TypeOK, QueueOK, ServeGet
    <3> QED BY <1>2, <2>1, <3>1, <3>2, <3>3 DEF IInv, Holders, HttpLocals, ReaperLocals
  <2> QED BY <1>3, <2>2, <2>3 DEF ServeGet
<1>4. CASE c.from = "reaper"
  <2>1. /\ reaper' = [reaper EXCEPT !.at = "lock", !.snap = Snapshot]
        /\ uapi' = Tail(uapi) /\ UNCHANGED <<server_pubkey_cache, lock, http>>
        /\ reaper.at = "get"
    BY <1>1, <1>4 DEF ServeGet, CommandOK
  <2>2. Snapshot \in Snapshots
    <3>1. \A k \in Keys : k \in session => now - handshake[k] \in Times
      BY DEF IInv, TypeOK, SessionTimes, Times
    <3> QED BY <3>1 DEF Snapshot, Snapshots, IInv, TypeOK
  <2>3. reaper' \in ReaperThread /\ reaper'.at = "lock"
    BY <2>1, <2>2 DEF IInv, TypeOK, ReaperThread
  <2>4. QueueOK(uapi', http', reaper', available_ips')
    BY <1>1, <1>4, <2>1, QueueReaperMoves DEF ServeGet
  <2>5. TypeOK'
    BY <2>1, <2>3, <2>4 DEF IInv, TypeOK, QueueOK, ServeGet
  <2> QED BY <1>2, <2>1, <2>3, <2>4, <2>5 DEF IInv, Holders, HttpLocals, ReaperLocals, ServeGet
<1>5. CASE c.from = "gone"
  <2>1. uapi' = Tail(uapi) /\ UNCHANGED <<server_pubkey_cache, lock, http, reaper>>
    BY <1>5 DEF ServeGet
  <2>2. QueueOK(uapi', http', reaper', available_ips')
    BY <1>1, <2>1 DEF ServeGet
  <2>3. TypeOK'
    BY <2>1, <2>2 DEF IInv, TypeOK, QueueOK, ServeGet
  <2> QED BY <1>2, <2>1, <2>2, <2>3 DEF IInv, Holders, HttpLocals, ReaperLocals, ServeGet
<1> QED BY <1>3, <1>4, <1>5 DEF ServeGet

\* The device adds a peer: the octet of a set is leased to nobody else.
LEMMA ServeSetStep == ASSUME IInv, ServeSet PROVE IInv'
<1> USE DEF inner, device
<1> DEFINE c == Head(uapi)
<1>1. /\ QueueOK(Tail(uapi), http, reaper, available_ips)
      /\ c \in Command /\ CommandOK(c, http, reaper, available_ips)
      /\ c.from # "gone" => NoneFrom(Tail(uapi), c.from)
      /\ c.from = "http" => \A i \in 1..Len(Tail(uapi)) : Tail(uapi)[i].op # "set"
  BY QueueTail DEF IInv, ServeSet
<1>2. c.key \in Keys /\ c.octet \in available_ips /\ c.octet \in Octets /\ c.octet \notin Leased
  BY <1>1 DEF CommandOK, ServeSet, IInv, PoolConsistent, TypeOK
<1>3. /\ peers' \in [Keys -> Octets \cup {None}]
      /\ peers_by_ip' \in [Octets -> Keys \cup {None}]
      /\ handshake' \in [Keys -> Times \cup {None}]
      /\ session' \subseteq Keys
  BY <1>2 DEF IInv, TypeOK, ServeSet
<1>4. SessionTimes'
  BY <1>2 DEF IInv, TypeOK, SessionTimes, ServeSet
<1>5. peers_by_ip'[c.octet] = c.key /\ \A o \in Octets \ {c.octet} : peers_by_ip'[o] = peers_by_ip[o]
  BY <1>2 DEF IInv, TypeOK, ServeSet
<1>6. CASE c.from = "http"
  <2>1. /\ http.at = "set" /\ http.key = c.key /\ http.octet = c.octet
        /\ peer_to_octet[c.key] = None /\ reaper.at # "remove"
        /\ CommitRegister(c.key, c.octet) /\ HttpReply("ok")
    BY <1>1, <1>6 DEF CommandOK, ServeSet, IInv, Holders, HttpLocals
  <2>2. /\ InnerType' /\ PoolConsistent'
        /\ peer_to_octet'[c.key] = c.octet
        /\ \A j \in Keys \ {c.key} :
              peer_to_octet'[j] = peer_to_octet[j] /\ peer_to_octet[j] # c.octet
    BY <1>2, <2>1, CommitRegisterKeeps DEF IInv, TypeOK, InnerType
  <2>3. http' \in HttpThread /\ http'.at = "idle" /\ lock' = None
    BY <2>1 DEF HttpReply, HttpIdle, HttpThread
  <2>4. QueueOK(Tail(uapi), http', reaper, available_ips)
    BY <1>1, <1>6, QueueHttpMoves
  <2>5. QueueOK(uapi', http', reaper', available_ips')
    BY <1>1, <1>6, <2>4 DEF QueueOK, CommandOK, ServeSet
  <2>6. TypeOK'
    BY <1>3, <2>2, <2>3, <2>5 DEF IInv, TypeOK, InnerType, QueueOK, ServeSet
  <2>7. NoMisroute'
    BY <1>2, <1>5, <2>2 DEF IInv, NoMisroute, TypeOK
  <2> QED BY <1>4, <2>1, <2>2, <2>3, <2>5, <2>6, <2>7
      DEF IInv, Holders, HttpLocals, ReaperLocals, ServeSet
<1>7. CASE c.from = "gone"
  <2>1. UNCHANGED <<inner, http, lock, reaper>> /\ uapi' = Tail(uapi)
    BY <1>7 DEF ServeSet
  <2>2. QueueOK(uapi', http', reaper', available_ips')
    BY <1>1, <2>1
  <2>3. TypeOK'
    BY <1>3, <2>1, <2>2 DEF IInv, TypeOK, QueueOK, ServeSet
  <2>4. PoolConsistent'
    BY <2>1 DEF IInv, PoolConsistent, Leased
  <2>5. NoMisroute'
    BY <1>2, <1>5, <2>1 DEF IInv, NoMisroute, TypeOK, Leased
  <2> QED BY <1>4, <2>1, <2>2, <2>3, <2>4, <2>5 DEF IInv, Holders, HttpLocals, ReaperLocals
<1> QED BY <1>6, <1>7 DEF ServeSet

LEMMA ServeSetPanicStep == ASSUME IInv, ServeSetPanic PROVE IInv'
<1> USE DEF inner, device
<1>1. TypeOK'
  BY DEF IInv, TypeOK, ServeSetPanic
<1>2. PoolConsistent' /\ NoMisroute' /\ SessionTimes' /\ Holders' /\ HttpLocals' /\ ReaperLocals'
  BY DEF IInv, PoolConsistent, Leased, NoMisroute, SessionTimes, Holders, HttpLocals,
         ReaperLocals, ServeSetPanic
<1>3. QueueOK(uapi', http', reaper', available_ips')
  BY DEF IInv, ServeSetPanic
<1> QED BY <1>1, <1>2, <1>3 DEF IInv

\* The device removes a peer and every route to it.
LEMMA ServeRemoveStep == ASSUME IInv, ServeRemove PROVE IInv'
<1> USE DEF inner, device
<1> DEFINE c == Head(uapi)
<1>1. /\ QueueOK(Tail(uapi), http, reaper, available_ips)
      /\ c \in Command /\ CommandOK(c, http, reaper, available_ips)
      /\ c.from # "gone" => NoneFrom(Tail(uapi), c.from)
  BY QueueTail DEF IInv, ServeRemove
<1>2. c.key \in Keys
  BY <1>1 DEF CommandOK, ServeRemove
<1>3. /\ peers' \in [Keys -> Octets \cup {None}]
      /\ peers_by_ip' \in [Octets -> Keys \cup {None}]
      /\ handshake' \in [Keys -> Times \cup {None}]
      /\ session' \subseteq Keys
  BY <1>2 DEF IInv, TypeOK, ServeRemove, PurgedRoutes
<1>4. SessionTimes'
  BY <1>2 DEF IInv, TypeOK, SessionTimes, ServeRemove
<1>5. \A o \in Octets : peers_by_ip'[o] \in {peers_by_ip[o], None}
  BY DEF ServeRemove, PurgedRoutes
<1>6. CASE c.from = "http"
  <2>1. /\ http.at = "remove" /\ http.key = c.key /\ reaper.at # "remove"
        /\ peer_to_octet[c.key] # None
        /\ CommitRemove(c.key) /\ HttpReply("ok") /\ uapi' = Tail(uapi) /\ UNCHANGED reaper
    BY <1>1, <1>6 DEF CommandOK, ServeRemove, IInv, Holders, HttpLocals
  <2>2. /\ InnerType' /\ PoolConsistent' /\ available_ips \subseteq available_ips'
        /\ peer_to_octet'[c.key] = None
        /\ \A j \in Keys \ {c.key} : peer_to_octet'[j] = peer_to_octet[j]
    BY <1>2, <2>1, CommitRemoveKeeps DEF IInv, TypeOK, InnerType
  <2>3. http' \in HttpThread /\ http'.at = "idle" /\ lock' = None
    BY <2>1 DEF HttpReply, HttpIdle, HttpThread
  <2>4. QueueOK(Tail(uapi), http', reaper, available_ips)
    BY <1>1, <1>6, QueueHttpMoves
  <2>5. QueueOK(uapi', http', reaper', available_ips')
    BY <2>1, <2>2, <2>4, QueueMoreAvailable
  <2>6. TypeOK'
    BY <1>3, <2>1, <2>2, <2>3, <2>5 DEF IInv, TypeOK, InnerType, QueueOK, ServeRemove
  <2>7. NoMisroute'
    BY <1>5, <2>2 DEF IInv, NoMisroute, TypeOK
  <2> QED BY <1>4, <2>1, <2>2, <2>3, <2>5, <2>6, <2>7
      DEF IInv, Holders, HttpLocals, ReaperLocals
<1>7. CASE c.from = "reaper"
  <2>1. /\ reaper.at = "remove" /\ reaper.key = c.key /\ http.at = "idle" /\ UNCHANGED http
        /\ peer_to_octet[c.key] # None /\ c.key \notin reaper.todo
        /\ \A k \in reaper.todo : peer_to_octet[k] # None
        /\ CommitRemove(c.key) /\ ReapNext(reaper.todo, Tail(uapi))
    BY <1>1, <1>7 DEF CommandOK, ServeRemove, IInv, Holders, ReaperLocals
  <2>2. /\ InnerType' /\ PoolConsistent' /\ available_ips \subseteq available_ips'
        /\ peer_to_octet'[c.key] = None
        /\ \A j \in Keys \ {c.key} : peer_to_octet'[j] = peer_to_octet[j]
    BY <1>2, <2>1, CommitRemoveKeeps DEF IInv, TypeOK, InnerType
  <2>3. reaper.todo \in SUBSET Keys /\ \A k \in reaper.todo : peer_to_octet'[k] # None
    BY <2>1, <2>2 DEF IInv, TypeOK, ReaperThread
  <2>4. QueueOK(Tail(uapi), http, reaper, available_ips')
    BY <1>1, <2>2, QueueMoreAvailable
  <2>5. /\ reaper' \in ReaperThread /\ lock' \in Callers \cup {None}
        /\ Holders' /\ ReaperLocals'
        /\ QueueOK(uapi', http', reaper', available_ips')
    BY <1>1, <1>7, <2>1, <2>3, <2>4, ReapNextStep DEF IInv
  <2>6. TypeOK'
    BY <1>3, <2>1, <2>2, <2>5 DEF IInv, TypeOK, InnerType, QueueOK, ServeRemove
  <2>7. NoMisroute'
    BY <1>5, <2>2 DEF IInv, NoMisroute, TypeOK
  <2> QED BY <1>4, <2>1, <2>2, <2>5, <2>6, <2>7 DEF IInv, HttpLocals
<1>8. CASE c.from = "gone"
  <2>1. UNCHANGED <<inner, http, lock, reaper>> /\ uapi' = Tail(uapi)
    BY <1>8 DEF ServeRemove
  <2>2. QueueOK(uapi', http', reaper', available_ips')
    BY <1>1, <2>1
  <2>3. TypeOK'
    BY <1>3, <2>1, <2>2 DEF IInv, TypeOK, QueueOK, ServeRemove
  <2>4. PoolConsistent'
    BY <2>1 DEF IInv, PoolConsistent, Leased
  <2>5. NoMisroute'
    BY <1>5, <2>1 DEF IInv, NoMisroute, TypeOK
  <2> QED BY <1>4, <2>1, <2>2, <2>3, <2>4, <2>5 DEF IInv, Holders, HttpLocals, ReaperLocals
<1> QED BY <1>6, <1>7, <1>8 DEF ServeRemove

\* A caller that sees an error, whatever becomes of its command.
LEMMA CallFailsStep ==
    ASSUME IInv, NEW STATE who, NEW STATE q,
           who = "http" => http.at # "idle",
           QueueOK(q, http, reaper, available_ips), NoneFrom(q, who), CallFails(who, q),
           faults' \in [{"timeout", "error"} -> 0..MaxFaults],
           UNCHANGED <<now, inner, server_pubkey_cache, device>>
    PROVE  IInv'
<1> USE DEF inner, device
<1>1. PoolConsistent' /\ NoMisroute' /\ SessionTimes'
  BY DEF IInv, PoolConsistent, Leased, NoMisroute, SessionTimes
<1>2. CASE who = "http" /\ HttpReply("error") /\ uapi' = q /\ UNCHANGED reaper
  <2>1. http' \in HttpThread /\ http'.at = "idle" /\ lock' = None /\ reaper.at # "remove"
    BY <1>2 DEF HttpReply, HttpIdle, HttpThread, IInv, Holders
  <2>2. QueueOK(uapi', http', reaper', available_ips')
    BY <1>2, QueueHttpMoves
  <2>3. TypeOK'
    BY <1>2, <2>1, <2>2 DEF IInv, TypeOK, QueueOK
  <2> QED BY <1>1, <1>2, <2>1, <2>2, <2>3 DEF IInv, Holders, HttpLocals, ReaperLocals
<1>3. CASE /\ who = "reaper" /\ reaper.at = "get" /\ reaper' = ReaperAsleep
           /\ uapi' = q /\ UNCHANGED <<http, lock>>
  <2>1. reaper' \in ReaperThread /\ reaper'.at = "sleep"
    BY <1>3 DEF ReaperAsleep, ReaperThread, NoSnapshot, Snapshots, Times
  <2>2. QueueOK(uapi', http', reaper', available_ips')
    BY <1>3, QueueReaperMoves
  <2>3. TypeOK'
    BY <1>3, <2>1, <2>2 DEF IInv, TypeOK, QueueOK
  <2> QED BY <1>1, <1>3, <2>1, <2>2, <2>3 DEF IInv, Holders, HttpLocals, ReaperLocals
<1>4. CASE who = "reaper" /\ reaper.at = "remove" /\ ReapNext(reaper.todo, q) /\ UNCHANGED http
  <2>1. http.at = "idle" /\ \A k \in reaper.todo : peer_to_octet'[k] # None
    BY <1>4 DEF IInv, Holders, ReaperLocals
  <2>2. reaper.todo \in SUBSET Keys
    BY DEF IInv, TypeOK, ReaperThread
  <2>3. /\ reaper' \in ReaperThread /\ lock' \in Callers \cup {None}
        /\ Holders' /\ ReaperLocals'
        /\ QueueOK(uapi', http', reaper', available_ips')
    BY <1>4, <2>1, <2>2, ReapNextStep DEF IInv
  <2>4. TypeOK'
    BY <1>4, <2>3 DEF IInv, TypeOK, QueueOK
  <2> QED BY <1>1, <1>4, <2>3, <2>4 DEF IInv, HttpLocals
<1> QED BY <1>2, <1>3, <1>4 DEF CallFails

\* A fault is counted.
LEMMA FaultCounted ==
    ASSUME TypeOK, NEW f \in {"timeout", "error"}, Fault(f)
    PROVE  faults' \in [{"timeout", "error"} -> 0..MaxFaults]
<1>1. faults \in [{"timeout", "error"} -> 0..MaxFaults]
  BY DEF TypeOK
<1>2. faults.timeout \in Nat /\ faults.error \in Nat /\ faults.timeout + faults.error < MaxFaults
  BY <1>1 DEF Fault
<1>3. faults[f] + 1 \in 0..MaxFaults
  BY <1>1, <1>2, RegistrationConstants
<1> QED BY <1>1, <1>3 DEF Fault

LEMMA TimeoutStep == ASSUME IInv, NEW i \in DOMAIN uapi, Timeout(i) PROVE IInv'
<1>1. i \in 1..Len(uapi)
  BY DEF IInv, TypeOK
<1>2. /\ CommandOK(uapi[i], http, reaper, available_ips)
      /\ QueueOK([uapi EXCEPT ![i].from = "gone"], http, reaper, available_ips)
      /\ NoneFrom([uapi EXCEPT ![i].from = "gone"], uapi[i].from)
  BY <1>1, QueueAbandon DEF IInv, Timeout
<1>3. uapi[i].from = "http" => http.at # "idle"
  BY <1>2 DEF CommandOK
<1>4. faults' \in [{"timeout", "error"} -> 0..MaxFaults]
  BY FaultCounted DEF IInv, Timeout
<1> QED BY <1>2, <1>3, <1>4, CallFailsStep DEF Timeout

LEMMA UapiErrorStep == ASSUME IInv, NEW i \in DOMAIN uapi, UapiError(i) PROVE IInv'
<1>1. i \in 1..Len(uapi)
  BY DEF IInv, TypeOK
<1>2. /\ CommandOK(uapi[i], http, reaper, available_ips)
      /\ QueueOK(Without(i), http, reaper, available_ips)
      /\ NoneFrom(Without(i), uapi[i].from)
  BY <1>1, QueueWithout DEF IInv, UapiError
<1>3. uapi[i].from = "http" => http.at # "idle"
  BY <1>2 DEF CommandOK
<1>4. faults' \in [{"timeout", "error"} -> 0..MaxFaults]
  BY FaultCounted DEF IInv, UapiError
<1> QED BY <1>2, <1>3, <1>4, CallFailsStep DEF UapiError

\* Handshakes, expiring sessions and the clock touch neither books nor routes.
LEMMA DeviceStep ==
    ASSUME IInv, Tick \/ \E k \in Keys : Handshake(k) \/ SessionExpires(k)
    PROVE  IInv'
<1> USE DEF inner, device
<1>1. /\ UNCHANGED <<faults, inner, server_pubkey_cache, lock, http, reaper, uapi,
                     configured, peers, peers_by_ip, panicked>>
  BY DEF Tick, Handshake, SessionExpires
<1>2. /\ now' \in Times /\ handshake' \in [Keys -> Times \cup {None}]
      /\ session' \subseteq Keys /\ SessionTimes'
  <2>1. CASE Tick
    BY <2>1 DEF IInv, TypeOK, Tick, Times, SessionTimes
  <2>2. ASSUME NEW k \in Keys, Handshake(k)
        PROVE  /\ now' \in Times /\ handshake' \in [Keys -> Times \cup {None}]
               /\ session' \subseteq Keys /\ SessionTimes'
    BY <2>2 DEF IInv, TypeOK, Handshake, Times, SessionTimes
  <2>3. ASSUME NEW k \in Keys, SessionExpires(k)
        PROVE  /\ now' \in Times /\ handshake' \in [Keys -> Times \cup {None}]
               /\ session' \subseteq Keys /\ SessionTimes'
    BY <2>3 DEF IInv, TypeOK, SessionExpires, Times, SessionTimes
  <2> QED BY <2>1, <2>2, <2>3
<1>3. TypeOK'
  BY <1>1, <1>2 DEF IInv, TypeOK
<1>4. PoolConsistent' /\ NoMisroute' /\ Holders' /\ HttpLocals' /\ ReaperLocals'
  BY <1>1 DEF IInv, PoolConsistent, Leased, NoMisroute, Holders, HttpLocals, ReaperLocals
<1>5. QueueOK(uapi', http', reaper', available_ips')
  BY <1>1 DEF IInv
<1> QED BY <1>2, <1>3, <1>4, <1>5 DEF IInv

LEMMA StutterStep == ASSUME IInv, UNCHANGED vars PROVE IInv'
<1> USE DEF vars, inner, device
<1>1. TypeOK' /\ PoolConsistent' /\ NoMisroute' /\ SessionTimes'
  BY DEF IInv, TypeOK, PoolConsistent, Leased, NoMisroute, SessionTimes
<1>2. Holders' /\ HttpLocals' /\ ReaperLocals'
  BY DEF IInv, Holders, HttpLocals, ReaperLocals
<1>3. QueueOK(uapi', http', reaper', available_ips')
  BY DEF IInv
<1> QED BY <1>1, <1>2, <1>3 DEF IInv

\* Every step keeps the invariant.
LEMMA NextIInv == IInv /\ [Next]_vars => IInv'
<1> SUFFICES ASSUME IInv, [Next]_vars PROVE IInv'
  OBVIOUS
<1>1. CASE \E k \in Keys : Register(k) \/ Unregister(k)
  BY <1>1, RegisterStep, UnregisterStep
<1>2. CASE ReaperWake \/ ReaperLock
  BY <1>2, ReaperWakeStep, ReaperLockStep
<1>3. CASE Serve
  BY <1>3, ServeGetStep, ServeSetStep, ServeSetPanicStep, ServeRemoveStep DEF Serve
<1>4. CASE \E i \in DOMAIN uapi : Timeout(i) \/ UapiError(i)
  BY <1>4, TimeoutStep, UapiErrorStep
<1>5. CASE Tick \/ \E k \in Keys : Handshake(k) \/ SessionExpires(k)
  BY <1>5, DeviceStep
<1>6. CASE UNCHANGED vars
  BY <1>6, StutterStep
<1> QED BY <1>1, <1>2, <1>3, <1>4, <1>5, <1>6 DEF Next

\* The strengthened invariant holds in every reachable state.
THEOREM Inductive == Spec => []IInv
<1>1. Init => IInv BY InitIInv
<1>2. IInv /\ [Next]_vars => IInv' BY NextIInv
<1> QED BY <1>1, <1>2, PTL DEF Spec

\* Every variable of the API, its threads and the device keeps its type.
THEOREM TypeCorrect == Spec => []TypeOK
<1>1. IInv => TypeOK BY DEF IInv
<1> QED BY <1>1, Inductive, PTL

\* For every pool and every sequence of requests, reaper rounds, timeouts and
\* errors, RegistrationInner's collections agree and no octet is lost or shared.
THEOREM PoolIsConsistent == Spec => []PoolConsistent
<1>1. IInv => PoolConsistent BY DEF IInv
<1> QED BY <1>1, Inductive, PTL

\* For every pool and every number of late commands, traffic to a leased address
\* is not routed to another key.
THEOREM NeverMisrouted == Spec => []NoMisroute
<1>1. IInv => NoMisroute BY DEF IInv
<1> QED BY <1>1, Inductive, PTL

------------------------------------------------------------------------------
(* Until a call times out *)

\* Calling, being served and a failed connection leave no command behind.
LEMMA NobodyGone ==
    ASSUME NEW q, q \in Seq(Command), NoneFrom(q, "gone")
    PROVE  /\ q # <<>> => NoneFrom(Tail(q), "gone")
           /\ \A c \in Command : c.from # "gone" => NoneFrom(Append(q, c), "gone")
<1>1. ASSUME q # <<>> PROVE NoneFrom(Tail(q), "gone")
  <2>1. \A i \in 1..Len(Tail(q)) : Tail(q)[i] = q[i + 1] /\ i + 1 \in 1..Len(q)
    BY <1>1
  <2> QED BY <2>1 DEF NoneFrom
<1>2. ASSUME NEW c \in Command, c.from # "gone" PROVE NoneFrom(Append(q, c), "gone")
  <2>1. /\ Len(Append(q, c)) = Len(q) + 1 /\ Len(q) \in Nat
        /\ Append(q, c)[Len(q) + 1] = c
        /\ \A i \in 1..Len(q) : Append(q, c)[i] = q[i]
    OBVIOUS
  <2> QED BY <1>2, <2>1 DEF NoneFrom
<1> QED BY <1>1, <1>2

\* The reaper's next call has a caller.
LEMMA ReapNextAttended ==
    ASSUME NEW STATE q, NEW STATE todo, q \in Seq(Command), NoneFrom(q, "gone"),
           todo \in SUBSET Keys, ReapNext(todo, q)
    PROVE  NoneFrom(uapi', "gone")
<1>1. ASSUME NEW k \in todo,
             uapi' = Append(q, [from |-> "reaper", op |-> "remove", key |-> k, octet |-> None])
      PROVE  NoneFrom(uapi', "gone")
  <2> DEFINE c == [from |-> "reaper", op |-> "remove", key |-> k, octet |-> None]
  <2>1. c \in Command /\ c.from # "gone"
    BY DEF Command, Callers
  <2> HIDE DEF c
  <2> QED BY <1>1, <2>1, NobodyGone DEF c
<1> QED BY <1>1 DEF ReapNext

\* So has the HTTP thread's set, and it is sent only with the server's key.
LEMMA RegisterBodyAttended ==
    ASSUME NEW STATE q, NEW STATE k, q \in Seq(Command), NoneFrom(q, "gone"),
           k \in Keys, available_ips \subseteq Octets, RegisterBody(k, q)
    PROVE  NoneFrom(uapi', "gone")
<1>1. ASSUME NEW o \in available_ips,
             uapi' = Append(q, [from |-> "http", op |-> "set", key |-> k, octet |-> o])
      PROVE  NoneFrom(uapi', "gone")
  <2> DEFINE c == [from |-> "http", op |-> "set", key |-> k, octet |-> o]
  <2>1. c \in Command /\ c.from # "gone"
    BY DEF Command, Callers
  <2> HIDE DEF c
  <2> QED BY <1>1, <2>1, NobodyGone DEF c
<1> QED BY <1>1 DEF RegisterBody, RegisterKnown, RegisterExhausted, RegisterAllocate

\* What SyncInv promises while no call has timed out.
Synced ==
    /\ ~panicked /\ Agreement
    /\ server_pubkey_cache \/ http.at = "set" => configured
    /\ NoneFrom(uapi, "gone")

\* A step that leaves the leases and the peers alone leaves them in agreement.
LEMMA AgreementKept ==
    ASSUME Agreement, UNCHANGED <<peer_to_octet, peers, peers_by_ip>>
    PROVE  Agreement'
BY DEF Agreement

\* Requests and the reaper's steps up to their calls.
LEMMA RequestSynced ==
    ASSUME IInv, Synced, ReaperWake \/ ReaperLock \/ \E k \in Keys : Register(k) \/ Unregister(k)
    PROVE  Synced'
<1> USE DEF inner, device
<1>1. uapi \in Seq(Command) /\ available_ips \subseteq Octets
  BY DEF IInv, TypeOK
<1>2. UNCHANGED <<peer_to_octet, peers, peers_by_ip, panicked, configured, server_pubkey_cache>>
  BY DEF ReaperWake, ReaperLock, Register, Unregister
<1>3. Agreement' /\ ~panicked'
  BY <1>2, AgreementKept DEF Synced
<1>4. CASE ReaperWake
  <2> DEFINE c == [from |-> "reaper", op |-> "get", key |-> None, octet |-> None]
  <2>1. c \in Command /\ c.from # "gone" BY DEF Command, Callers
  <2>2. uapi' = Append(uapi, c) /\ UNCHANGED http BY <1>4 DEF ReaperWake, Call
  <2> HIDE DEF c
  <2>3. NoneFrom(uapi', "gone") BY <1>1, <2>1, <2>2, NobodyGone DEF Synced
  <2> QED BY <1>2, <1>3, <2>2, <2>3 DEF Synced
<1>5. CASE ReaperLock
  <2>1. StaleKeys(reaper.snap) \in SUBSET Keys BY DEF StaleKeys
  <2>2. NoneFrom(uapi', "gone") BY <1>1, <1>5, <2>1, ReapNextAttended DEF Synced, ReaperLock
  <2> QED BY <1>2, <1>3, <1>5, <2>2 DEF Synced, ReaperLock
<1>6. ASSUME NEW k \in Keys, Register(k) PROVE Synced'
  <2>1. CASE server_pubkey_cache /\ RegisterBody(k, uapi)
    <3>1. NoneFrom(uapi', "gone") BY <1>1, <2>1, RegisterBodyAttended DEF Synced
    <3> QED BY <1>2, <1>3, <2>1, <3>1 DEF Synced
  <2>2. CASE /\ http' = [at |-> "info", key |-> k, octet |-> None, status |-> None]
             /\ Call("http", "get", None, None)
    <3> DEFINE c == [from |-> "http", op |-> "get", key |-> None, octet |-> None]
    <3>1. c \in Command /\ c.from # "gone" BY DEF Command, Callers
    <3>2. uapi' = Append(uapi, c) /\ http'.at # "set" BY <2>2 DEF Call
    <3> HIDE DEF c
    <3>3. NoneFrom(uapi', "gone") BY <1>1, <3>1, <3>2, NobodyGone DEF Synced
    <3> QED BY <1>2, <1>3, <3>2, <3>3 DEF Synced
  <2> QED BY <1>6, <2>1, <2>2 DEF Register
<1>7. ASSUME NEW k \in Keys, Unregister(k) PROVE Synced'
  <2>1. CASE HttpReply("not_found") /\ UNCHANGED uapi
    <3>1. http'.at # "set" BY <2>1 DEF HttpReply, HttpIdle
    <3> QED BY <1>2, <1>3, <2>1, <3>1 DEF Synced
  <2>2. CASE /\ http' = [at |-> "remove", key |-> k, octet |-> None, status |-> None]
             /\ Call("http", "remove", k, None)
    <3> DEFINE c == [from |-> "http", op |-> "remove", key |-> k, octet |-> None]
    <3>1. c \in Command /\ c.from # "gone" BY DEF Command, Callers
    <3>2. uapi' = Append(uapi, c) /\ http'.at # "set" BY <2>2 DEF Call
    <3> HIDE DEF c
    <3>3. NoneFrom(uapi', "gone") BY <1>1, <3>1, <3>2, NobodyGone DEF Synced
    <3> QED BY <1>2, <1>3, <3>2, <3>3 DEF Synced
  <2> QED BY <1>7, <2>1, <2>2 DEF Unregister
<1> QED BY <1>4, <1>5, <1>6, <1>7

\* The command the device serves has a caller, which waits for just this one.
LEMMA ServedAttended ==
    ASSUME IInv, Synced, uapi # <<>>
    PROVE  /\ Head(uapi).from \in {"http", "reaper"}
           /\ CommandOK(Head(uapi), http, reaper, available_ips)
           /\ Tail(uapi) \in Seq(Command) /\ NoneFrom(Tail(uapi), "gone")
<1>1. uapi \in Seq(Command) /\ Len(uapi) \in Nat \ {0} /\ Head(uapi) = uapi[1]
  BY DEF IInv, TypeOK
<1>2. /\ Head(uapi) \in Command /\ CommandOK(Head(uapi), http, reaper, available_ips)
      /\ Tail(uapi) \in Seq(Command)
  BY QueueTail DEF IInv, QueueOK
<1>3. Head(uapi).from # "gone"
  BY <1>1 DEF Synced, NoneFrom
<1>4. NoneFrom(Tail(uapi), "gone")
  BY <1>1, NobodyGone DEF Synced
<1> QED BY <1>2, <1>3, <1>4 DEF Command, Callers

LEMMA ServeGetSynced == ASSUME IInv, Synced, ServeGet PROVE Synced'
<1> USE DEF inner, device
<1>1. UNCHANGED <<peer_to_octet, peers, peers_by_ip, panicked, configured>>
  BY DEF ServeGet
<1>2. Agreement' /\ ~panicked'
  BY <1>1, AgreementKept DEF Synced
<1>3. /\ Head(uapi).from \in {"http", "reaper"}
      /\ CommandOK(Head(uapi), http, reaper, available_ips)
      /\ Tail(uapi) \in Seq(Command) /\ NoneFrom(Tail(uapi), "gone")
  BY ServedAttended DEF ServeGet
<1>4. CASE Head(uapi).from = "http" /\ configured
  <2>1. http.key \in Keys
    BY <1>3, <1>4 DEF CommandOK, IInv, HttpLocals
  <2>2. NoneFrom(uapi', "gone")
    BY <1>3, <1>4, <2>1, RegisterBodyAttended DEF ServeGet, IInv, TypeOK
  <2> QED BY <1>1, <1>2, <1>4, <2>2 DEF Synced
<1>5. CASE Head(uapi).from = "http" /\ ~configured
  <2>1. uapi' = Tail(uapi) /\ http'.at # "set" /\ UNCHANGED server_pubkey_cache
    BY <1>5 DEF ServeGet, HttpReply, HttpIdle
  <2> QED BY <1>1, <1>2, <1>3, <2>1 DEF Synced
<1>6. CASE Head(uapi).from = "reaper"
  <2>1. uapi' = Tail(uapi) /\ UNCHANGED <<http, server_pubkey_cache>>
    BY <1>6 DEF ServeGet
  <2> QED BY <1>1, <1>2, <1>3, <2>1 DEF Synced
<1> QED BY <1>3, <1>4, <1>5, <1>6

\* A new peer and its lease come in one step; its octet had no route.
LEMMA ServeSetSynced == ASSUME IInv, Synced, ServeSet PROVE Synced'
<1> USE DEF inner, device
<1> DEFINE c == Head(uapi)
<1>1. /\ c.from \in {"http", "reaper"}
      /\ CommandOK(c, http, reaper, available_ips)
      /\ NoneFrom(Tail(uapi), "gone")
  BY ServedAttended DEF ServeSet
<1>2. /\ c.from = "http" /\ http.at = "set" /\ c.key = http.key /\ c.octet = http.octet
      /\ c.key \in Keys /\ c.octet \in available_ips
  BY <1>1 DEF CommandOK, ServeSet
<1>3. CommitRegister(c.key, c.octet) /\ http'.at # "set" /\ uapi' = Tail(uapi)
  BY <1>2 DEF ServeSet, HttpReply, HttpIdle
<1>4. /\ peers \in [Keys -> Octets \cup {None}] /\ peer_to_octet \in [Keys -> Octets \cup {None}]
      /\ peers_by_ip \in [Octets -> Keys \cup {None}]
      /\ c.octet \in Octets /\ c.octet # None
  BY <1>2 DEF IInv, TypeOK
<1>5. \A j \in Keys : peers[j] # c.octet
  <2>1. c.octet \notin Leased /\ peers = peer_to_octet
    BY <1>2 DEF IInv, PoolConsistent, Synced, Agreement
  <2> QED BY <1>4, <2>1 DEF Leased
<1>6. peers' = peer_to_octet'
  BY <1>3 DEF ServeSet, CommitRegister, Synced, Agreement
<1>7. \A o \in Octets, k \in Keys : peers_by_ip'[o] = k <=> peers'[k] = o
  <2> SUFFICES ASSUME NEW o \in Octets, NEW k \in Keys
               PROVE  peers_by_ip'[o] = k <=> peers'[k] = o
    OBVIOUS
  <2>1. peers_by_ip[o] = k <=> peers[k] = o
    BY DEF Synced, Agreement
  <2>2. /\ peers' = [peers EXCEPT ![c.key] = c.octet] /\ peers[c.key] = None
        /\ peers_by_ip' = [peers_by_ip EXCEPT ![c.octet] = c.key]
    BY DEF ServeSet
  <2> HIDE DEF c
  <2>3. o # None /\ k # None
    OBVIOUS
  <2>4. CASE o = c.octet
    BY <1>2, <1>4, <1>5, <2>2, <2>4
  <2>5. CASE o # c.octet
    <3>1. peers_by_ip'[o] = peers_by_ip[o] BY <1>4, <2>2, <2>5
    <3>2. CASE k = c.key
      <4>1. peers'[k] = c.octet /\ peers[k] = None BY <1>2, <1>4, <2>2, <3>2
      <4> QED BY <2>1, <2>3, <2>5, <3>1, <4>1
    <3>3. CASE k # c.key
      <4>1. peers'[k] = peers[k] BY <1>4, <2>2, <3>3
      <4> QED BY <2>1, <3>1, <4>1
    <3> QED BY <3>2, <3>3
  <2> QED BY <2>4, <2>5
<1> QED BY <1>1, <1>2, <1>3, <1>6, <1>7 DEF Synced, Agreement, ServeSet

\* A set has a device with a key and concerns a key without a lease, hence
\* without a peer.
LEMMA NoPanicSynced == ASSUME IInv, Synced PROVE ~ServeSetPanic
<1> SUFFICES ASSUME ServeSetPanic PROVE FALSE
  OBVIOUS
<1>1. /\ Head(uapi).from \in {"http", "reaper"}
      /\ CommandOK(Head(uapi), http, reaper, available_ips)
  BY ServedAttended DEF ServeSetPanic
<1>2. http.at = "set" /\ Head(uapi).key = http.key
  BY <1>1 DEF CommandOK, ServeSetPanic
<1>3. configured /\ peers[http.key] = None
  BY <1>2 DEF Synced, Agreement, IInv, HttpLocals
<1> QED BY <1>2, <1>3 DEF ServeSetPanic

\* A peer goes together with its lease and every route to it.
LEMMA ServeRemoveSynced == ASSUME IInv, Synced, ServeRemove PROVE Synced'
<1> USE DEF inner, device
<1> DEFINE c == Head(uapi)
<1>1. /\ c.from \in {"http", "reaper"}
      /\ CommandOK(c, http, reaper, available_ips)
      /\ Tail(uapi) \in Seq(Command) /\ NoneFrom(Tail(uapi), "gone")
  BY ServedAttended DEF ServeRemove
<1>2. c.key \in Keys /\ CommitRemove(c.key)
  BY <1>1 DEF CommandOK, ServeRemove
<1>3. NoneFrom(uapi', "gone")
  <2>1. CASE c.from = "http" BY <1>1, <2>1 DEF ServeRemove
  <2>2. CASE c.from = "reaper"
    <3>1. reaper.todo \in SUBSET Keys BY DEF IInv, TypeOK, ReaperThread
    <3> QED BY <1>1, <2>2, <3>1, ReapNextAttended DEF ServeRemove
  <2> QED BY <1>1, <2>1, <2>2
<1>4. http'.at # "set" \/ UNCHANGED http
  BY <1>1 DEF ServeRemove, HttpReply, HttpIdle
<1>5. peers' = peer_to_octet'
  BY <1>2 DEF ServeRemove, CommitRemove, Synced, Agreement
<1>6. \A o \in Octets, k \in Keys : peers_by_ip'[o] = k <=> peers'[k] = o
  <2> SUFFICES ASSUME NEW o \in Octets, NEW k \in Keys
               PROVE  peers_by_ip'[o] = k <=> peers'[k] = o
    OBVIOUS
  <2>1. peers_by_ip[o] = k <=> peers[k] = o
    BY DEF Synced, Agreement
  <2>2. /\ peers' = [peers EXCEPT ![c.key] = None] /\ peers \in [Keys -> Octets \cup {None}]
        /\ peers_by_ip'[o] = IF peers_by_ip[o] = c.key THEN None ELSE peers_by_ip[o]
        /\ peers_by_ip[o] \in Keys \cup {None}
    BY DEF ServeRemove, PurgedRoutes, IInv, TypeOK
  <2> HIDE DEF c
  <2>3. o # None /\ k # None
    OBVIOUS
  <2>4. CASE k = c.key
    BY <1>2, <2>1, <2>2, <2>3, <2>4
  <2>5. CASE k # c.key
    <3>1. peers'[k] = peers[k] BY <2>2, <2>5
    <3>2. peers_by_ip'[o] = k <=> peers_by_ip[o] = k BY <2>2, <2>3, <2>5
    <3> QED BY <2>1, <3>1, <3>2
  <2> QED BY <2>4, <2>5
<1> QED BY <1>3, <1>4, <1>5, <1>6 DEF Synced, Agreement, ServeRemove

\* A call whose connection fails changes neither side.
LEMMA UapiErrorSynced ==
    ASSUME IInv, Synced, NEW i \in DOMAIN uapi, UapiError(i) PROVE Synced'
<1> USE DEF inner, device
<1> DEFINE q == Without(i)
<1>1. i \in 1..Len(uapi) /\ uapi \in Seq(Command)
  BY DEF IInv, TypeOK
<1>2. q \in Seq(Command)
  BY <1>1, QueueWithout DEF IInv, QueueOK, UapiError
<1>3. NoneFrom(q, "gone")
  <2>1. Len(uapi) \in Nat BY <1>1
  <2>2. Len(q) = Len(uapi) - 1
    BY <1>1, <2>1 DEF Without
  <2>3. \A j \in 1..(Len(uapi) - 1) : q[j] = uapi[j] \/ q[j] = uapi[j + 1]
    BY DEF Without
  <2> HIDE DEF q
  <2> QED BY <2>1, <2>2, <2>3 DEF NoneFrom, Synced
<1>4. UNCHANGED <<peer_to_octet, peers, peers_by_ip, panicked, configured, server_pubkey_cache>>
  BY DEF UapiError
<1>5. Agreement' /\ ~panicked'
  BY <1>4, AgreementKept DEF Synced
<1>6. CallFails(uapi[i].from, q)
  BY DEF UapiError
<1>7. http'.at # "set" \/ UNCHANGED http
  BY <1>6 DEF CallFails, HttpReply, HttpIdle
<1>8. NoneFrom(uapi', "gone")
  <2>1. CASE uapi' = q BY <1>3, <2>1
  <2>2. CASE ReapNext(reaper.todo, q)
    <3>1. reaper.todo \in SUBSET Keys BY DEF IInv, TypeOK, ReaperThread
    <3> HIDE DEF q
    <3> QED BY <1>2, <1>3, <2>2, <3>1, ReapNextAttended
  <2> QED BY <1>6, <2>1, <2>2 DEF CallFails
<1> QED BY <1>4, <1>5, <1>7, <1>8 DEF Synced

\* Every step keeps books and device in agreement.
LEMMA NextSyncInv == IInv /\ SyncInv /\ [Next]_vars => SyncInv'
<1> SUFFICES ASSUME IInv, SyncInv, [Next]_vars, faults'.timeout = 0 PROVE Synced'
  BY DEF SyncInv, Synced, NoneFrom
<1> USE DEF inner, device
<1>1. faults \in [{"timeout", "error"} -> 0..MaxFaults] /\ faults.timeout \in Nat
  BY DEF IInv, TypeOK
<1>2. \A i \in DOMAIN uapi : ~Timeout(i)
  BY <1>1 DEF Timeout, Fault
<1>3. faults.timeout = 0
  BY <1>1, <1>2 DEF Next, vars, Register, Unregister, ReaperWake, ReaperLock, Serve, ServeGet, ServeSet,
         ServeSetPanic, ServeRemove, UapiError, Fault, Handshake, SessionExpires, Tick
<1>4. Synced
  BY <1>3 DEF SyncInv, Synced, NoneFrom
<1>5. CASE Tick \/ UNCHANGED vars \/ \E k \in Keys : Handshake(k) \/ SessionExpires(k)
  <2>1. UNCHANGED <<peer_to_octet, peers, peers_by_ip, panicked, configured, server_pubkey_cache,
                    http, uapi>>
    BY <1>5 DEF Tick, vars, Handshake, SessionExpires
  <2> QED BY <1>4, <2>1, AgreementKept DEF Synced
<1> QED BY <1>2, <1>4, <1>5, RequestSynced, ServeGetSynced, ServeSetSynced, NoPanicSynced,
           ServeRemoveSynced, UapiErrorSynced DEF Next, Serve

\* Both invariants together.
LEMMA SyncInductive == Spec => []SyncInv
<1>1. Init => SyncInv
  BY DEF Init, SyncInv, Agreement, HttpIdle
<1>2. IInv /\ SyncInv /\ [Next]_vars => SyncInv'
  BY NextSyncInv
<1> QED BY <1>1, <1>2, Inductive, PTL DEF Spec

\* Whatever requests, reaper rounds and failed calls interleave, the books of the
\* API and the device's peers and routes agree until a call times out.
THEOREM StaysInSync == Spec => []InSync
<1>1. SyncInv => InSync BY DEF SyncInv, InSync
<1> QED BY <1>1, SyncInductive, PTL

\* Until a call times out no set reaches a device without a key or for a key it
\* already has, so its worker does not panic.
THEOREM PanicTakesTimeout == Spec => []PanicNeedsTimeout
<1>1. IInv /\ SyncInv => PanicNeedsTimeout
  BY DEF IInv, TypeOK, SyncInv, PanicNeedsTimeout
<1> QED BY <1>1, Inductive, SyncInductive, PTL

------------------------------------------------------------------------------
(* Refinement *)

\* Only a committed registration or removal changes the leases, and both are
\* steps of the contract.
LEMMA StepSimulates ==
    IInv /\ [Next]_vars => [Contract!PeerNext]_peer_to_octet
<1> SUFFICES ASSUME IInv, [Next]_vars, peer_to_octet' # peer_to_octet PROVE Contract!PeerNext
  OBVIOUS
<1> USE DEF inner
<1> DEFINE c == Head(uapi)
<1>1. ServeSet \/ ServeRemove
  BY DEF Next, vars, Register, Unregister, ReaperWake, ReaperLock, Serve, ServeGet,
         ServeSetPanic, Timeout, UapiError, Handshake, SessionExpires, Tick
<1>2. uapi # <<>> /\ CommandOK(c, http, reaper, available_ips)
  BY <1>1, QueueTail DEF IInv, ServeSet, ServeRemove
<1>3. CASE ServeSet
  <2>1. CommitRegister(http.key, http.octet) /\ c.from = "http"
    BY <1>3 DEF ServeSet
  <2>2. /\ http.key \in Keys /\ peer_to_octet[http.key] = None
        /\ http.octet \in available_ips
    BY <1>2, <1>3, <2>1 DEF CommandOK, ServeSet, IInv, HttpLocals
  <2>3. http.octet \in Octets \ Contract!InUse
    BY <2>2 DEF IInv, PoolConsistent, Leased, Contract!InUse
  <2> QED BY <2>1, <2>2, <2>3 DEF CommitRegister, Contract!PeerNext, Contract!Register
<1>4. CASE ServeRemove
  <2>1. \/ c.from = "http" /\ CommitRemove(http.key)
        \/ c.from = "reaper" /\ CommitRemove(reaper.key)
    BY <1>4 DEF ServeRemove
  <2>2. \E k \in Keys : CommitRemove(k) /\ peer_to_octet[k] # None
    BY <1>2, <1>4, <2>1 DEF CommandOK, ServeRemove, IInv, HttpLocals, ReaperLocals
  <2> QED BY <2>2 DEF CommitRemove, Contract!PeerNext, Contract!Release
<1> QED BY <1>1, <1>3, <1>4

\* The registration API, with its mutex, reaper, timeouts and late commands,
\* implements the contract the resource server is modelled against.
THEOREM Refinement == Spec => ImplementsPeerService
<1>1. Init => Contract!PeerInit
  BY DEF Init, Contract!PeerInit
<1>2. IInv /\ [Next]_vars => [Contract!PeerNext]_peer_to_octet
  BY StepSimulates
<1> QED BY <1>1, <1>2, Inductive, PTL DEF Spec, ImplementsPeerService, Contract!PeerSpec
==============================================================================
