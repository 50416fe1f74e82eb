---------------------------- MODULE VpnServerProofs ----------------------------
(***************************************************************************)
(* The payment gate for any number of clients, requests, expiry passes,    *)
(* transactions and faults: a handler runs only for a paid request, session *)
(* time appears only where it was paid for, and a refusal has its cause.   *)
(***************************************************************************)
EXTENDS VpnServer, TLAPS

USE ServerConstants

------------------------------------------------------------------------------
(* Pricing and the session store *)

\* A duration is only ever resolved to one in range, or refused.
LEMMA ResolveInRange ==
    ASSUME NEW body, NEW fallback
    PROVE  ResolveDurationMinutes(body, fallback) \in Minutes \cup {None}
BY DEF ResolveDurationMinutes

\* What an accepted duration is: the body's, else the fallback, else the default.
LEMMA ResolveIs ==
    ASSUME NEW body, NEW fallback, ResolveDurationMinutes(body, fallback) # None
    PROVE  /\ ResolveDurationMinutes(body, fallback) \in Minutes
           /\ body # None => ResolveDurationMinutes(body, fallback) = body
           /\ body = None /\ fallback = None =>
                 ResolveDurationMinutes(body, fallback) = DefaultMinutes
BY DEF ResolveDurationMinutes

LEMMA ResolveAccepts ==
    ASSUME NEW body, NEW fallback, body \in Minutes \cup {None}, fallback \in Minutes \cup {None}
    PROVE  ResolveDurationMinutes(body, fallback) \in Minutes
<1>1. DefaultMinutes \in Minutes /\ None \notin Minutes
  BY DEF Minutes
<1> QED BY <1>1 DEF ResolveDurationMinutes

\* The duration of a live session is a possible fallback.
LEMMA FallbackInRange ==
    ASSUME TypeOK, NEW route, NEW k \in Keys
    PROVE  FallbackMinutes(route, k) \in Minutes \cup {None}
BY DEF TypeOK, FallbackMinutes, Live, GetSession, Expired, Session

------------------------------------------------------------------------------
(* The table of requests *)

LEMMA NoRequestOK ==
    ASSUME NEW reply \in Replies, NEW paid
    PROVE  /\ [NoRequest EXCEPT !.reply = reply] \in Request
           /\ RequestOK([NoRequest EXCEPT !.reply = reply], paid)
           /\ [NoRequest EXCEPT !.reply = reply].at = "idle"
           /\ [NoRequest EXCEPT !.reply = reply].reply = reply
BY DEF NoRequest, Request, RequestOK, Points, Replies

\* Replacing one entry by a good one keeps the table good.
LEMMA ReplaceRequest ==
    ASSUME IInv, NEW r \in Reqs, NEW STATE x, req' = [req EXCEPT ![r] = x],
           x \in Request, RequestOK(x, credited'), credited \subseteq credited'
    PROVE  /\ req' \in [Reqs -> Request]
           /\ \A s \in Reqs : RequestOK(req'[s], credited')
<1>1. req \in [Reqs -> Request]
  BY DEF IInv, TypeOK
<1>2. req'[r] = x /\ \A s \in Reqs \ {r} : req'[s] = req[s]
  BY <1>1
<1>3. \A s \in Reqs : RequestOK(req[s], credited')
  BY DEF IInv, RequestOK
<1> QED BY <1>1, <1>2, <1>3

\* An answer ends the request.
LEMMA RespondStep ==
    ASSUME IInv, NEW r \in Reqs, NEW reply \in Replies, Respond(r, reply), UNCHANGED credited
    PROVE  /\ req' \in [Reqs -> Request]
           /\ \A s \in Reqs : RequestOK(req'[s], credited')
BY NoRequestOK, ReplaceRequest DEF Respond

\* So does a refusal of the proof.
LEMMA RefuseStep ==
    ASSUME IInv, NEW r \in Reqs, NEW STATE missed, missed \in SUBSET Nat,
           RefuseProof(r, missed), UNCHANGED credited
    PROVE  /\ req' \in [Reqs -> Request]
           /\ \A s \in Reqs : RequestOK(req'[s], credited')
           /\ req'[r].at = "idle" /\ req'[r].missed = missed
           /\ \A s \in Reqs \ {r} : req'[s] = req[s]
<1> DEFINE x == [NoRequest EXCEPT !.reply = "payment_invalid", !.missed = missed]
<1>1. x \in Request /\ RequestOK(x, credited') /\ x.at = "idle" /\ x.missed = missed
  BY DEF NoRequest, Request, RequestOK, Points, Replies
<1>2. req' = [req EXCEPT ![r] = x]
  BY DEF RefuseProof
<1> HIDE DEF x
<1> QED BY <1>1, <1>2, ReplaceRequest DEF IInv, TypeOK

\* An answered request awaits no receipt.
LEMMA RespondLeaves ==
    ASSUME IInv, NEW r \in Reqs, NEW reply, Respond(r, reply)
    PROVE  /\ req'[r].at = "idle" /\ req'[r].reply = reply
           /\ \A s \in Reqs \ {r} : req'[s] = req[s]
BY DEF Respond, NoRequest, IInv, TypeOK

\* The store after a session was dropped, and after one was created.
LEMMA DeleteTyped ==
    ASSUME TypeOK, NEW STATE k, k \in Keys, DeleteSession(k)
    PROVE  sessions' \in [Keys -> Session \cup {None}]
BY DEF TypeOK, DeleteSession

LEMMA CreateTyped ==
    ASSUME TypeOK, NEW STATE k, NEW STATE m, NEW STATE ip,
           k \in Keys, m \in Minutes, ip \in Octets, CreateSession(k, m, ip)
    PROVE  /\ sessions' \in [Keys -> Session \cup {None}]
           /\ sessions'[k] # None => sessions'[k].expiresAt = now + m
           /\ \A j \in Keys \ {k} : sessions'[j] = sessions[j]
<1>1. now + m \in Nat
  BY DEF TypeOK, Minutes
<1>2. [expiresAt |-> now + m, durationMinutes |-> m, assignedIp |-> ip] \in Session
  BY <1>1 DEF Session
<1> QED BY <1>2 DEF TypeOK, CreateSession

LEMMA RegisterTyped ==
    ASSUME TypeOK, NEW STATE k, k \in Keys, BT!Register(k)
    PROVE  BT!PeerTypeOK' /\ lease'[k] \in Octets
BY DEF TypeOK, BT!PeerTypeOK, BT!Register

LEMMA ReleaseTyped ==
    ASSUME TypeOK, NEW STATE k, k \in Keys, BT!Release(k)
    PROVE  BT!PeerTypeOK'
BY DEF TypeOK, BT!PeerTypeOK, BT!Release

------------------------------------------------------------------------------
(* The inductive invariant, action by action *)

Table ==
    /\ req \in [Reqs -> Request]
    /\ \A s \in Reqs : RequestOK(req[s], credited)

LEMMA InitIInv == Init => IInv
<1> SUFFICES ASSUME Init PROVE IInv
  OBVIOUS
<1>1. NoRequest \in Request /\ RequestOK(NoRequest, credited)
  BY DEF NoRequest, Request, RequestOK, Points, Replies
<1>2. NoPass \in [todo : SUBSET Keys, dropping : Keys \cup {None}]
  BY DEF NoPass
<1>3. BT!PeerTypeOK
  BY DEF Init, BT!PeerInit, BT!PeerTypeOK
<1>4. now \in 0..MaxClock /\ spent \subseteq Hashes /\ credited \subseteq Hashes
  BY DEF Init
<1>5. sessions \in [Keys -> Session \cup {None}]
  BY DEF Init
<1> QED BY <1>1, <1>2, <1>3, <1>4, <1>5 DEF Init, IInv, TypeOK

LEMMA GateStep ==
    ASSUME IInv, NEW r \in Reqs, NEW route \in {"connect", "renew"}, NEW k \in Keys,
           NEW body \in Durations \cup {None}, NEW proof \in Proofs,
           Gate(r, route, k, body, proof)
    PROVE  IInv'
<1> DEFINE m == ResolveDurationMinutes(body, FallbackMinutes(route, k))
           x == [NoRequest EXCEPT !.at = "probe", !.route = route, !.key = k, !.body = body,
                                  !.proof = proof, !.amount = m]
<1>1. SUFFICES Table'
  BY DEF Gate, IInv, TypeOK, Table, BT!PeerTypeOK
<1>2. CASE GateRefusal(route, k, body) # None
  <2>1. GateRefusal(route, k, body) \in Replies
    BY DEF GateRefusal, Replies
  <2> QED BY <1>2, <2>1, RespondStep DEF Gate, Table
<1>3. CASE GateRefusal(route, k, body) = None
  <2>1. m # None
    BY <1>3 DEF GateRefusal
  <2>2. route = "connect" => FallbackMinutes(route, k) = None
    BY DEF FallbackMinutes
  <2>3. /\ m \in Minutes /\ (body # None => m = body)
        /\ route = "connect" /\ body = None => m = DefaultMinutes
    BY <2>1, <2>2, ResolveIs
  <2>4. proof \in Seq(Hashes) \cup {None} /\ body \in Int \cup {None} /\ route \in Routes
    BY DEF Proofs, Gate
  <2>5. x \in Request /\ RequestOK(x, credited')
    <3> HIDE DEF m
    <3> QED BY <2>3, <2>4 DEF NoRequest, Request, RequestOK, Quoted, Points, Replies
  <2>6. req' = [req EXCEPT ![r] = x] /\ UNCHANGED credited
    BY <1>3 DEF Gate
  <2> QED BY <2>5, <2>6, ReplaceRequest DEF Table
<1> QED BY <1>2, <1>3

\* The places before i pay too little or were missed.
Tried(x, i, missed) ==
    \A j \in 1..(i - 1) : j \in missed \/ Settles(x.proof[j]) < x.amount

AwaitReceipt(r, i, missed) ==
    req' = [req EXCEPT ![r] = [req[r] EXCEPT !.at = "receipt", !.i = i, !.missed = missed]]

\* verifyUaPayment between two awaits: it refuses the proof because the hash is in
\* the guard or there is none left, or it awaits the receipt of a hash not in the guard.
LEMMA VerifyCases ==
    ASSUME IInv, NEW r \in Reqs, NEW STATE i, i \in Nat \ {0}, req[r].proof \in Seq(Hashes),
           NEW STATE missed, VerifyFrom(r, i, missed)
    PROVE  \/ i > Len(req[r].proof) /\ RefuseProof(r, missed)
           \/ i \in 1..Len(req[r].proof) /\ req[r].proof[i] \in spent /\ RefuseProof(r, missed)
           \/ /\ i \in 1..Len(req[r].proof) /\ req[r].proof[i] \notin spent
              /\ AwaitReceipt(r, i, missed)
<1>1. Len(req[r].proof) \in Nat
  OBVIOUS
<1>2. CASE i > Len(req[r].proof)
  BY <1>2 DEF VerifyFrom
<1>3. CASE i <= Len(req[r].proof) /\ req[r].proof[i] \in spent
  <2>1. ~(i > Len(req[r].proof)) BY <1>1, <1>3
  <2> QED BY <1>1, <1>3, <2>1 DEF VerifyFrom
<1>4. CASE i <= Len(req[r].proof) /\ req[r].proof[i] \notin spent
  <2>1. ~(i > Len(req[r].proof)) BY <1>1, <1>4
  <2>2. req' = [req EXCEPT ![r].at = "receipt", ![r].i = i, ![r].missed = missed]
    BY <1>4, <2>1 DEF VerifyFrom
  <2>3. AwaitReceipt(r, i, missed)
    BY <2>2 DEF AwaitReceipt, IInv, TypeOK, Request
  <2> QED BY <1>1, <1>4, <2>3
<1> QED BY <1>1, <1>2, <1>3, <1>4

\* verifyUaPayment looks a hash up in the guard before it awaits the receipt, and
\* leaves the other requests alone.
LEMMA VerifyLeaves ==
    ASSUME IInv, NEW r \in Reqs, NEW STATE i, i \in Nat \ {0}, req[r].proof \in Seq(Hashes),
           NEW STATE missed, VerifyFrom(r, i, missed)
    PROVE  /\ req'[r].at \in {"idle", "receipt"}
           /\ req'[r].at = "receipt" => req'[r].proof[req'[r].i] \notin spent
           /\ \A s \in Reqs \ {r} : req'[s] = req[s]
<1>1. CASE RefuseProof(r, missed)
  BY <1>1 DEF RefuseProof, NoRequest, IInv, TypeOK
<1>2. CASE req[r].proof[i] \notin spent /\ AwaitReceipt(r, i, missed)
  <2>1. /\ req'[r].at = "receipt" /\ req'[r].proof = req[r].proof /\ req'[r].i = i
        /\ \A s \in Reqs \ {r} : req'[s] = req[s]
    BY <1>2 DEF AwaitReceipt, IInv, TypeOK, Request
  <2> QED BY <1>2, <2>1
<1> QED BY <1>1, <1>2, VerifyCases, Zenon

LEMMA VerifyStep ==
    ASSUME IInv, NEW r \in Reqs, NEW STATE i, i \in Nat \ {0}, req[r].proof \in Seq(Hashes),
           NEW STATE missed, missed \in SUBSET Nat, Tried(req[r], i, missed),
           req[r].at \in {"probe", "receipt"}, VerifyFrom(r, i, missed), UNCHANGED credited
    PROVE  Table'
<1> DEFINE x == [req[r] EXCEPT !.at = "receipt", !.i = i, !.missed = missed]
<1>1. CASE RefuseProof(r, missed)
  BY <1>1, RefuseStep DEF Table
<1>2. CASE i \in 1..Len(req[r].proof) /\ AwaitReceipt(r, i, missed)
  <2>0. req' = [req EXCEPT ![r] = x]
    BY <1>2 DEF AwaitReceipt
  <2>1. req[r] \in Request /\ Quoted(req[r])
    BY DEF IInv, TypeOK, RequestOK
  <2>2. /\ x \in Request /\ x.at = "receipt" /\ x.i = i /\ x.missed = missed
        /\ x.proof = req[r].proof /\ x.amount = req[r].amount /\ x.key = req[r].key
        /\ x.route = req[r].route /\ x.body = req[r].body
    BY <1>2, <2>1 DEF Request, Points
  <2>3. RequestOK(x, credited')
    <3> HIDE DEF x
    <3> QED BY <1>2, <2>1, <2>2 DEF RequestOK, Quoted, Tried
  <2> HIDE DEF x
  <2> QED BY <2>0, <2>2, <2>3, ReplaceRequest DEF Table
<1> QED BY <1>1, <1>2, VerifyCases, Zenon

\* A lookup without a match: its place pays too little or is missed from now on.
LEMMA MissedTried ==
    ASSUME IInv, NEW r \in Reqs, req[r].at = "receipt", NEW missed \in MissedAfter(r)
    PROVE  /\ req[r].proof \in Seq(Hashes) /\ req[r].i \in 1..Len(req[r].proof)
           /\ req[r].i + 1 \in Nat \ {0}
           /\ missed \in SUBSET Nat /\ Tried(req[r], req[r].i + 1, missed)
<1>1. /\ req[r].proof \in Seq(Hashes) /\ req[r].i \in 1..Len(req[r].proof)
      /\ \A j \in 1..(req[r].i - 1) : j \in req[r].missed \/ Settles(req[r].proof[j]) < req[r].amount
  BY DEF IInv, RequestOK
<1>2. req[r].missed \in SUBSET Nat /\ req[r].i \in Nat
  BY <1>1 DEF IInv, TypeOK, Request
<1>3. \/ missed = req[r].missed /\ Settles(req[r].proof[req[r].i]) < req[r].amount
      \/ missed = req[r].missed \cup {req[r].i}
  BY DEF MissedAfter
<1>4. \A j \in 1..((req[r].i + 1) - 1) : j = req[r].i \/ j \in 1..(req[r].i - 1)
  BY <1>2
<1>5. Tried(req[r], req[r].i + 1, missed)
  BY <1>1, <1>3, <1>4 DEF Tried
<1> QED BY <1>1, <1>2, <1>3, <1>5

LEMMA ProbeStep == ASSUME IInv, NEW r \in Reqs, Probe(r) PROVE IInv'
<1>1. SUFFICES Table'
  BY DEF Probe, IInv, TypeOK, Table, BT!PeerTypeOK
<1>2. CASE Respond(r, "unavailable") \/ Respond(r, "payment_required")
  BY <1>2, RespondStep DEF Table, Replies, Probe
<1>3. CASE req[r].proof # None /\ VerifyFrom(r, 1, {})
  <2>1. req[r].proof \in Seq(Hashes) /\ Tried(req[r], 1, {})
    BY <1>3 DEF IInv, TypeOK, Request, Tried
  <2>2. 1 \in Nat \ {0} /\ {} \in SUBSET Nat
    OBVIOUS
  <2>3. UNCHANGED credited /\ req[r].at \in {"probe", "receipt"}
    BY DEF Probe
  <2> QED BY <1>3, <2>1, <2>2, <2>3, VerifyStep, Zenon
<1> QED BY <1>2, <1>3 DEF Probe

LEMMA ReceiptNoMatchStep == ASSUME IInv, NEW r \in Reqs, ReceiptNoMatch(r) PROVE IInv'
<1>1. SUFFICES Table'
  BY DEF ReceiptNoMatch, IInv, TypeOK, Table, BT!PeerTypeOK
<1>2. PICK missed \in MissedAfter(r) : VerifyFrom(r, req[r].i + 1, missed)
  BY DEF ReceiptNoMatch
<1> QED BY <1>2, MissedTried, VerifyStep DEF ReceiptNoMatch

LEMMA ReceiptMatchStep == ASSUME IInv, NEW r \in Reqs, ReceiptMatch(r) PROVE IInv'
<1> DEFINE h == req[r].proof[req[r].i]
           x == [req[r] EXCEPT !.at = "handler", !.hash = h]
<1>1. req[r] \in Request /\ Quoted(req[r]) /\ h \in Hashes
  BY DEF ReceiptMatch, IInv, TypeOK, RequestOK
<1>2. credited' = credited \cup {h} /\ spent' = spent \cup {h} /\ Settles(h) >= req[r].amount
  BY DEF ReceiptMatch
<1>3. x \in Request /\ RequestOK(x, credited')
  BY <1>1, <1>2 DEF Request, RequestOK, Quoted, Points
<1>4. req' = [req EXCEPT ![r] = x]
  BY <1>1 DEF ReceiptMatch, IInv, TypeOK, Request
<1>5. Table'
  BY <1>2, <1>3, <1>4, ReplaceRequest DEF Table
<1> QED BY <1>1, <1>2, <1>5 DEF ReceiptMatch, IInv, TypeOK, Table, BT!PeerTypeOK

\* A request past the gate moves on without changing what it paid.
LEMMA GotoStep ==
    ASSUME IInv, NEW r \in Reqs, NEW point \in {"register", "registered"},
           req[r].at \in {"handler", "register"}, NEW STATE ip, ip \in Octets \cup {None},
           point = "registered" => ip \in Octets, UNCHANGED credited,
           req' = [req EXCEPT ![r] = [req[r] EXCEPT !.at = point, !.ip = ip]]
    PROVE  Table'
<1> DEFINE x == [req[r] EXCEPT !.at = point, !.ip = ip]
<1>1. req[r] \in Request /\ RequestOK(req[r], credited')
  BY DEF IInv, TypeOK
<1>2. x \in Request
  BY <1>1 DEF Request, Points
<1>3. /\ x.at = point /\ x.ip = ip /\ x.key = req[r].key /\ x.route = req[r].route
      /\ x.amount = req[r].amount /\ x.body = req[r].body /\ x.hash = req[r].hash
  BY <1>1 DEF Request
<1>4. RequestOK(x, credited')
  <2> HIDE DEF x
  <2> QED BY <1>1, <1>3 DEF RequestOK, Quoted
<1> QED BY <1>2, <1>4, ReplaceRequest DEF Table

LEMMA ConnectHandlerStep == ASSUME IInv, NEW r \in Reqs, ConnectHandler(r) PROVE IInv'
<1>1. req[r] \in Request /\ req[r].ip \in Octets \cup {None}
  BY DEF IInv, TypeOK, Request
<1>2. req' = [req EXCEPT ![r] = [req[r] EXCEPT !.at = "register", !.ip = req[r].ip]]
  BY <1>1 DEF ConnectHandler, Goto, IInv, TypeOK, Request
<1>3. Table'
  BY <1>1, <1>2, GotoStep DEF ConnectHandler
<1> QED BY <1>3 DEF ConnectHandler, IInv, TypeOK, Table, BT!PeerTypeOK

\* The duration a renewal is granted, computed after the payment.
LEMMA RenewMinutes ==
    ASSUME IInv, NEW r \in Reqs, req[r].at = "handler"
    PROVE  /\ req[r].key \in Keys
           /\ ResolveDurationMinutes(req[r].body, FallbackMinutes("renew", req[r].key)) \in Minutes
           /\ req[r].body # None =>
                 ResolveDurationMinutes(req[r].body, FallbackMinutes("renew", req[r].key))
                    = req[r].amount
<1>1. Quoted(req[r])
  BY DEF IInv, RequestOK
<1>2. req[r].body \in Minutes \cup {None} /\ req[r].key \in Keys
  BY <1>1 DEF Quoted
<1>3. FallbackMinutes("renew", req[r].key) \in Minutes \cup {None}
  BY <1>2, FallbackInRange DEF IInv
<1>4. ResolveDurationMinutes(req[r].body, FallbackMinutes("renew", req[r].key)) \in Minutes
  BY <1>2, <1>3, ResolveAccepts
<1>5. None \notin Minutes
  BY DEF Minutes
<1> QED BY <1>1, <1>2, <1>4, <1>5, ResolveIs DEF Quoted

\* The store after a renewal.
LEMMA RenewTyped ==
    ASSUME TypeOK, NEW STATE k, NEW STATE m, k \in Keys, m \in Minutes, Live(k),
           sessions' = [sessions EXCEPT ![k].expiresAt = @ + m, ![k].durationMinutes = m]
    PROVE  /\ sessions' \in [Keys -> Session \cup {None}]
           /\ sessions'[k].expiresAt = sessions[k].expiresAt + m
           /\ \A j \in Keys \ {k} : sessions'[j] = sessions[j]
<1>1. sessions[k] \in Session
  BY DEF Live, GetSession, TypeOK
<1>2. sessions[k].expiresAt + m \in Nat
  BY <1>1 DEF Session, Minutes
<1>3. /\ sessions' = [sessions EXCEPT ![k] =
                        [sessions[k] EXCEPT !.expiresAt = @ + m, !.durationMinutes = m]]
  BY DEF TypeOK
<1>4. [sessions[k] EXCEPT !.expiresAt = @ + m, !.durationMinutes = m] \in Session
  BY <1>1, <1>2 DEF Session
<1>5. [sessions[k] EXCEPT !.expiresAt = @ + m, !.durationMinutes = m].expiresAt
         = sessions[k].expiresAt + m
  BY <1>1 DEF Session
<1> QED BY <1>3, <1>4, <1>5 DEF TypeOK

LEMMA RenewHandlerStep == ASSUME IInv, NEW r \in Reqs, RenewHandler(r) PROVE IInv'
<1> DEFINE k == req[r].key
           m == ResolveDurationMinutes(req[r].body, FallbackMinutes("renew", k))
<1>1. k \in Keys /\ m \in Minutes
  BY RenewMinutes DEF RenewHandler
<1>2. SUFFICES Table' /\ sessions' \in [Keys -> Session \cup {None}]
  <2>1. adrift' \subseteq Keys
    BY <1>1 DEF RenewHandler, IInv, TypeOK
  <2> QED BY <2>1 DEF RenewHandler, IInv, TypeOK, Table, BT!PeerTypeOK
<1>3. CASE sessions[k] = None /\ Respond(r, "failed") /\ UNCHANGED sessions
  BY <1>3, RespondStep DEF RenewHandler, Table, Replies, IInv, TypeOK
<1>4. CASE Expired(k) /\ DeleteSession(k) /\ Respond(r, "failed")
  BY <1>1, <1>4, RespondStep, DeleteTyped DEF RenewHandler, Table, Replies, IInv
<1>5. CASE /\ Live(k) /\ Goto(r, "register")
           /\ sessions' = [sessions EXCEPT ![k].expiresAt = @ + m, ![k].durationMinutes = m]
  <2>1. req[r] \in Request /\ req[r].ip \in Octets \cup {None}
    BY DEF IInv, TypeOK, Request
  <2>2. req' = [req EXCEPT ![r] = [req[r] EXCEPT !.at = "register", !.ip = req[r].ip]]
    BY <1>5, <2>1 DEF Goto, IInv, TypeOK, Request
  <2>3. Table'
    BY <2>1, <2>2, GotoStep DEF RenewHandler
  <2>4. sessions' \in [Keys -> Session \cup {None}]
    <3> HIDE DEF m
    <3> QED BY <1>1, <1>5, RenewTyped DEF IInv
  <2> QED BY <2>3, <2>4
<1> QED BY <1>3, <1>4, <1>5 DEF RenewHandler

LEMMA RegisterCallStep == ASSUME IInv, NEW r \in Reqs, RegisterCall(r) PROVE IInv'
<1> DEFINE k == req[r].key
<1>1. k \in Keys
  BY DEF RegisterCall, IInv, RequestOK, Quoted
<1>2. SUFFICES Table' /\ BT!PeerTypeOK'
  <2>1. adrift' \subseteq Keys
    BY <1>1 DEF RegisterCall, IInv, TypeOK
  <2> QED BY <2>1 DEF RegisterCall, IInv, TypeOK, Table
<1>3. CASE /\ BT!Register(k)
           /\ req' = [req EXCEPT ![r].at = "registered", ![r].ip = lease'[k]]
  <2>1. BT!PeerTypeOK' /\ lease'[k] \in Octets
    BY <1>1, <1>3, RegisterTyped DEF IInv
  <2> DEFINE x == [req[r] EXCEPT !.at = "registered", !.ip = lease'[k]]
  <2>2. req[r] \in Request /\ RequestOK(req[r], credited') /\ req[r].at = "register"
    BY DEF IInv, TypeOK, RegisterCall
  <2>3. x \in Request /\ RequestOK(x, credited')
    BY <2>1, <2>2 DEF Request, RequestOK, Quoted, Points
  <2>4. req' = [req EXCEPT ![r] = x]
    BY <1>3, <2>2 DEF IInv, TypeOK, Request
  <2>5. /\ req'[r] = x /\ req' \in [Reqs -> Request]
        /\ \A s \in Reqs \ {r} : req'[s] = req[s]
    BY <2>3, <2>4 DEF IInv, TypeOK
  <2> QED BY <2>1, <2>3, <2>5 DEF Table, IInv, RegisterCall
<1>4. CASE BT!Register(k) /\ Respond(r, "failed")
  BY <1>1, <1>4, RespondStep, RegisterTyped DEF RegisterCall, Table, Replies, IInv
<1>5. CASE UNCHANGED lease /\ Respond(r, "failed")
  BY <1>5, RespondStep DEF RegisterCall, Table, Replies, IInv, TypeOK, BT!PeerTypeOK
<1> QED BY <1>3, <1>4, <1>5 DEF RegisterCall

\* The duration a connect is granted is the one it was charged for.
LEMMA ConnectMinutes ==
    ASSUME IInv, NEW r \in Reqs, req[r].at = "registered", req[r].route = "connect"
    PROVE  /\ req[r].key \in Keys /\ req[r].ip \in Octets
           /\ ResolveDurationMinutes(req[r].body, None) = req[r].amount
           /\ req[r].amount \in Minutes
<1>1. Quoted(req[r]) /\ req[r].ip \in Octets
  BY DEF IInv, RequestOK
<1>2. req[r].body \in Minutes \cup {None} /\ None \notin Minutes
  BY <1>1 DEF Quoted, Minutes
<1>3. ResolveDurationMinutes(req[r].body, None) \in Minutes
  BY <1>2, ResolveAccepts
<1> QED BY <1>1, <1>2, <1>3, ResolveIs DEF Quoted

LEMMA ConnectFinishStep == ASSUME IInv, NEW r \in Reqs, ConnectFinish(r) PROVE IInv'
<1>1. SUFFICES Table' /\ sessions' \in [Keys -> Session \cup {None}]
  <2>1. adrift' \subseteq Keys
    BY ConnectMinutes DEF ConnectFinish, IInv, TypeOK
  <2> QED BY <2>1 DEF ConnectFinish, IInv, TypeOK, Table, BT!PeerTypeOK
<1>2. Table'
  BY RespondStep DEF ConnectFinish, Table, Replies
<1>3. CASE UNCHANGED sessions
  BY <1>2, <1>3 DEF IInv, TypeOK
<1>4. CASE CreateSession(req[r].key, ResolveDurationMinutes(req[r].body, None), req[r].ip)
  <2>1. /\ req[r].key \in Keys /\ req[r].ip \in Octets
        /\ ResolveDurationMinutes(req[r].body, None) \in Minutes
    BY ConnectMinutes DEF ConnectFinish
  <2> QED BY <1>2, <1>4, <2>1, CreateTyped DEF IInv
<1> QED BY <1>3, <1>4 DEF ConnectFinish

LEMMA RenewFinishStep == ASSUME IInv, NEW r \in Reqs, RenewFinish(r) PROVE IInv'
<1>1. Table'
  BY RespondStep DEF RenewFinish, Table, Replies
<1> QED BY <1>1 DEF RenewFinish, IInv, TypeOK, Table, BT!PeerTypeOK

LEMMA ClearStep == ASSUME IInv, NEW r \in Reqs, NEW k \in Keys, Clear(r, k) PROVE IInv'
<1> DEFINE x == [NoRequest EXCEPT !.at = "unregister", !.route = "clear", !.key = k]
<1>1. x \in Request /\ RequestOK(x, credited')
  BY DEF Clear, NoRequest, Request, RequestOK, Points, Replies
<1>2. Table'
  BY <1>1, ReplaceRequest DEF Clear, Table
<1>3. sessions' \in [Keys -> Session \cup {None}]
  BY DeleteTyped DEF Clear, IInv
<1> QED BY <1>2, <1>3 DEF Clear, IInv, TypeOK, Table, BT!PeerTypeOK

\* An unregistration, whatever its outcome.
LEMMA UnregisterTyped ==
    ASSUME TypeOK, NEW STATE k, k \in Keys, UnregisterOk(k) \/ UnregisterThrows(k)
    PROVE  BT!PeerTypeOK'
<1>1. CASE BT!Release(k) BY <1>1, ReleaseTyped
<1>2. CASE UNCHANGED lease BY <1>2 DEF TypeOK, BT!PeerTypeOK
<1> QED BY <1>1, <1>2 DEF UnregisterOk, UnregisterThrows

LEMMA ClearFinishStep == ASSUME IInv, NEW r \in Reqs, ClearFinish(r) PROVE IInv'
<1>1. Table'
  BY RespondStep DEF ClearFinish, Table, Replies
<1>2. req[r].key \in Keys
  BY DEF ClearFinish, IInv, RequestOK
<1>3. BT!PeerTypeOK'
  BY <1>2, UnregisterTyped DEF ClearFinish, IInv
<1>4. adrift' \subseteq Keys
  BY <1>2 DEF ClearFinish, IInv, TypeOK
<1> QED BY <1>1, <1>3, <1>4 DEF ClearFinish, IInv, TypeOK, Table

\* The expiry worker.
LEMMA PassStepKeeps == ASSUME IInv, NEW p \in Passes, PassStep(p) PROVE IInv'
<1> DEFINE PassType == [todo : SUBSET Keys, dropping : Keys \cup {None}]
<1>1. pass \in [Passes -> PassType] /\ pass[p] \in PassType
  BY DEF IInv, TypeOK
<1>2. CASE PassStart(p)
  <2>1. ListExpired \in SUBSET Keys BY DEF ListExpired
  <2>2. pass' \in [Passes -> PassType]
    BY <1>1, <1>2, <2>1 DEF PassStart
  <2> QED BY <1>2, <2>2 DEF PassStart, IInv, TypeOK, BT!PeerTypeOK
<1>3. CASE PassDelete(p)
  <2>1. pass[p].dropping \in Keys
    BY <1>1, <1>3 DEF PassDelete
  <2>2. sessions' \in [Keys -> Session \cup {None}]
    BY <1>3, <2>1, DeleteTyped DEF PassDelete, IInv
  <2>3. pass' \in [Passes -> PassType]
    BY <1>1, <1>3 DEF PassDelete
  <2> QED BY <1>3, <2>2, <2>3 DEF PassDelete, IInv, TypeOK, BT!PeerTypeOK
<1>4. ASSUME NEW k \in Keys, PassUnregisters(p, k) \/ PassThrows(p, k) PROVE IInv'
  <2>1. BT!PeerTypeOK'
    BY <1>4, UnregisterTyped DEF PassUnregisters, PassThrows, IInv
  <2>2. pass' \in [Passes -> PassType]
    BY <1>1, <1>4 DEF PassUnregisters, PassThrows
  <2> QED BY <1>4, <2>1, <2>2 DEF PassUnregisters, PassThrows, IInv, TypeOK
<1> QED BY <1>2, <1>3, <1>4 DEF PassStep

\* The clock, boringtun's own removals and a restart of the server.
LEMMA EnvironmentStep ==
    ASSUME IInv, Tick \/ Restart \/ \E k \in Keys : Reap(k)
    PROVE  IInv'
<1>1. CASE Tick
  BY <1>1 DEF Tick, IInv, TypeOK, BT!PeerTypeOK
<1>2. CASE Restart
  <2>1. NoRequest \in Request /\ RequestOK(NoRequest, credited')
    BY DEF NoRequest, Request, RequestOK, Points, Replies
  <2>2. NoPass \in [todo : SUBSET Keys, dropping : Keys \cup {None}]
    BY DEF NoPass
  <2> QED BY <1>2, <2>1, <2>2 DEF Restart, IInv, TypeOK, BT!PeerTypeOK
<1>3. ASSUME NEW k \in Keys, Reap(k) PROVE IInv'
  <2>1. BT!PeerTypeOK'
    BY <1>3, ReleaseTyped DEF Reap, IInv
  <2> QED BY <1>3, <2>1 DEF Reap, IInv, TypeOK
<1> QED BY <1>1, <1>2, <1>3

LEMMA NextIInv == IInv /\ [Next]_vars => IInv'
<1> SUFFICES ASSUME IInv, [Next]_vars PROVE IInv'
  OBVIOUS
<1>1. ASSUME NEW r \in Reqs, NEW route \in {"connect", "renew"}, NEW k \in Keys,
             NEW body \in Durations \cup {None}, NEW proof \in Proofs,
             Gate(r, route, k, body, proof)
      PROVE  IInv'
  BY <1>1, GateStep
<1>2. ASSUME NEW r \in Reqs, NEW k \in Keys, Clear(r, k) PROVE IInv'
  BY <1>2, ClearStep
<1>3. ASSUME NEW r \in Reqs, RequestStep(r) PROVE IInv'
  BY <1>3, ProbeStep, ReceiptNoMatchStep, ReceiptMatchStep, ConnectHandlerStep,
     RenewHandlerStep, RegisterCallStep, ConnectFinishStep, RenewFinishStep,
     ClearFinishStep DEF RequestStep
<1>4. ASSUME NEW p \in Passes, PassStep(p) PROVE IInv'
  BY <1>4, PassStepKeeps
<1>5. CASE Tick \/ Restart \/ \E k \in Keys : Reap(k)
  BY <1>5, EnvironmentStep
<1>6. CASE UNCHANGED vars
  BY <1>6 DEF vars, IInv, TypeOK, BT!PeerTypeOK
<1> QED BY <1>1, <1>2, <1>3, <1>4, <1>5, <1>6 DEF Next

\* The strengthened invariant holds in every reachable state.
THEOREM Inductive == Spec => []IInv
<1>1. Init => IInv BY InitIInv
<1>2. IInv /\ [Next]_vars => IInv' BY NextIInv
<1> QED BY <1>1, <1>2, PTL DEF Spec

\* Every variable of the server keeps its type, for any configuration.
THEOREM TypeCorrect == Spec => []TypeOK
<1>1. IInv => TypeOK BY DEF IInv
<1> QED BY <1>1, Inductive, PTL

\* No interleaving of requests, expiry passes and restarts lets a handler run for
\* a request without a sufficient transaction found on chain.
THEOREM OnlyPaidAdmitted == Spec => []AdmittedIsPaid
<1>1. IInv => AdmittedIsPaid
  BY DEF IInv, AdmittedIsPaid, Admitted, RequestOK
<1> QED BY <1>1, Inductive, PTL

------------------------------------------------------------------------------
(* Where session time comes from *)

\* A step that leaves k's session alone or drops it grants k nothing.
LEMMA NothingGranted ==
    ASSUME TypeOK, NEW k \in Keys, sessions'[k] \in {sessions[k], None}
    PROVE  ~(Granted(k) > 0)
<1>1. CASE sessions'[k] = None
  BY <1>1 DEF Granted
<1>2. CASE sessions'[k] # None /\ sessions'[k] = sessions[k]
  <2>1. sessions[k] \in Session /\ sessions[k].expiresAt \in Nat /\ now \in Nat
    BY <1>2 DEF TypeOK, Session
  <2>2. CASE Live(k)
    BY <1>2, <2>1, <2>2 DEF Granted
  <2>3. CASE ~Live(k)
    <3>1. sessions[k].expiresAt <= now
      BY <1>2, <2>3 DEF Live, GetSession, Expired
    <3> QED BY <1>2, <2>1, <2>3, <3>1 DEF Granted
  <2> QED BY <2>2, <2>3
<1> QED BY <1>1, <1>2

CoveredBy(k) ==
    \E r \in Reqs :
       \/ PaidStep(r, k)
       \/ Admitted(r) /\ req[r].key = k /\ req[r].route = "renew" /\ req[r].body = None

LEMMA RenewCovered ==
    ASSUME IInv, NEW r \in Reqs, RenewHandler(r), NEW k \in Keys, Granted(k) > 0
    PROVE  CoveredBy(k)
<1> DEFINE m == ResolveDurationMinutes(req[r].body, FallbackMinutes("renew", req[r].key))
<1>1. req[r].key \in Keys /\ m \in Minutes /\ (req[r].body # None => m = req[r].amount)
  BY RenewMinutes DEF RenewHandler
<1>2. Admitted(r) /\ req[r].route = "renew"
  BY DEF Admitted, RenewHandler
<1>3. sessions'[k] \notin {sessions[k], None}
  BY NothingGranted DEF IInv
<1>4. k = req[r].key
  <2>1. CASE sessions' = sessions BY <1>3, <2>1
  <2>2. CASE DeleteSession(req[r].key)
    BY <1>3, <2>2 DEF DeleteSession, IInv, TypeOK
  <2>3. CASE /\ Live(req[r].key)
             /\ sessions' = [sessions EXCEPT ![req[r].key].expiresAt = @ + m,
                                             ![req[r].key].durationMinutes = m]
    <3> HIDE DEF m
    <3> QED BY <1>1, <1>3, <2>3, RenewTyped DEF IInv
  <2> QED BY <2>1, <2>2, <2>3 DEF RenewHandler
<1>5. /\ Live(k) /\ Goto(r, "register")
      /\ sessions' = [sessions EXCEPT ![k].expiresAt = @ + m, ![k].durationMinutes = m]
  BY <1>3, <1>4 DEF RenewHandler, DeleteSession, IInv, TypeOK
<1>6. Granted(k) = m
  <2> HIDE DEF m
  <2>1. sessions'[k].expiresAt = sessions[k].expiresAt + m
    <3>1. TypeOK /\ m \in Minutes /\ k \in Keys BY <1>1 DEF IInv
    <3> QED BY <1>5, <3>1, RenewTyped
  <2>2. sessions[k].expiresAt \in Nat /\ m \in Int
    BY <1>1, <1>5 DEF Live, GetSession, IInv, TypeOK, Session, Minutes
  <2> QED BY <1>3, <1>5, <2>1, <2>2 DEF Granted
<1>7. CASE req[r].body = None
  BY <1>2, <1>4, <1>7 DEF CoveredBy
<1>8. CASE req[r].body # None
  <2>1. Settles(req[r].hash) >= req[r].amount /\ req[r].at = "handler"
    BY DEF IInv, RequestOK, RenewHandler
  <2>2. req'[r].at = "register"
    BY <1>5 DEF Goto, IInv, TypeOK, Request
  <2>3. Granted(k) <= Settles(req[r].hash)
    <3> HIDE DEF m
    <3>1. req[r].hash \in Hashes /\ req[r].amount \in Int
      BY <2>1 DEF IInv, TypeOK, RequestOK, Quoted, Minutes
    <3> QED BY <1>1, <1>6, <1>8, <2>1, <3>1
  <2> QED BY <1>2, <1>4, <2>1, <2>2, <2>3 DEF CoveredBy, PaidStep
<1> QED BY <1>7, <1>8

LEMMA ConnectCovered ==
    ASSUME IInv, NEW r \in Reqs, ConnectFinish(r), NEW k \in Keys, Granted(k) > 0
    PROVE  CoveredBy(k)
<1> DEFINE m == req[r].amount
<1>1. /\ req[r].key \in Keys /\ req[r].ip \in Octets /\ m \in Minutes
      /\ ResolveDurationMinutes(req[r].body, None) = m
  BY ConnectMinutes DEF ConnectFinish
<1>2. sessions'[k] \notin {sessions[k], None}
  BY NothingGranted DEF IInv
<1>3. ~Live(req[r].key) /\ CreateSession(req[r].key, m, req[r].ip) /\ Respond(r, "ok")
  BY <1>1, <1>2 DEF ConnectFinish
<1>4. /\ k = req[r].key
      /\ sessions'[k].expiresAt = now + m
  BY <1>1, <1>2, <1>3, CreateTyped DEF IInv
<1>5. Granted(k) = m
  BY <1>1, <1>2, <1>3, <1>4 DEF Granted, IInv, TypeOK, Minutes
<1>6. Settles(req[r].hash) >= m /\ req[r].at = "registered" /\ req[r].hash \in Hashes
  BY DEF IInv, TypeOK, RequestOK, ConnectFinish
<1>7. req'[r].at = "idle"
  BY <1>3 DEF Respond, NoRequest, IInv, TypeOK
<1>8. Granted(k) <= Settles(req[r].hash)
  BY <1>1, <1>5, <1>6 DEF Minutes
<1> QED BY <1>4, <1>6, <1>7, <1>8 DEF CoveredBy, PaidStep, Admitted

LEMMA StepCovered ==
    ASSUME IInv, [Next]_vars, NEW k \in Keys, Granted(k) > 0
    PROVE  CoveredBy(k)
<1>1. sessions'[k] \notin {sessions[k], None}
  BY NothingGranted DEF IInv
<1>2. ASSUME NEW r \in Reqs, RequestStep(r) PROVE CoveredBy(k)
  <2>1. RenewHandler(r) \/ ConnectFinish(r)
    BY <1>1, <1>2 DEF RequestStep, Probe, ReceiptNoMatch, ReceiptMatch, ConnectHandler,
       RegisterCall, RenewFinish, ClearFinish
  <2> QED BY <2>1, RenewCovered, ConnectCovered
<1>3. ASSUME NEW r \in Reqs, NEW j \in Keys, Clear(r, j) PROVE FALSE
  BY <1>1, <1>3 DEF Clear, DeleteSession, IInv, TypeOK
<1>4. ASSUME NEW p \in Passes, PassStep(p) PROVE FALSE
  BY <1>1, <1>4 DEF PassStep, PassStart, PassUnregisters, PassThrows, PassDelete, DeleteSession, IInv, TypeOK
<1>5. CASE Tick \/ Restart \/ \E j \in Keys : Reap(j)
  BY <1>1, <1>5 DEF Tick, Restart, Reap
<1>6. ASSUME NEW r \in Reqs, NEW route, NEW j \in Keys, NEW body, NEW proof,
             Gate(r, route, j, body, proof)
      PROVE  FALSE
  BY <1>1, <1>6 DEF Gate
<1>7. CASE UNCHANGED vars
  BY <1>1, <1>7 DEF vars
<1> QED BY <1>2, <1>3, <1>4, <1>5, <1>6, <1>7 DEF Next

\* Session time is granted only by an admitted request for that key, and within
\* what its transaction paid, but for renewals that reuse the session's duration.
THEOREM TimeIsPaidFor == Spec => GrantCovered
<1>1. IInv /\ [Next]_vars =>
        [\A k \in Keys : Granted(k) > 0 =>
            \E r \in Reqs :
               \/ PaidStep(r, k)
               \/ Admitted(r) /\ req[r].key = k /\ req[r].route = "renew" /\ req[r].body = None
        ]_vars
  BY StepCovered DEF CoveredBy
<1> QED BY <1>1, Inductive, PTL DEF Spec, GrantCovered

------------------------------------------------------------------------------
(* A refusal has its cause *)

\* The answer of the gate that calls a proof invalid comes from verifyUaPayment alone.
LEMMA RefusedByVerify ==
    ASSUME IInv, [Next]_vars, NEW r \in Reqs, req[r].at \in {"probe", "receipt"},
           req'[r].at = "idle", req'[r].reply = "payment_invalid"
    PROVE  \/ /\ req[r].proof \in Seq(Hashes) /\ VerifyFrom(r, 1, {})
           \/ \E missed \in MissedAfter(r) :
                 req[r].at = "receipt" /\ VerifyFrom(r, req[r].i + 1, missed)
<1>1. ASSUME NEW s \in Reqs \ {r}, req' = [req EXCEPT ![s] = req'[s]] PROVE FALSE
  BY <1>1 DEF IInv, TypeOK
<1>2. ASSUME NEW s \in Reqs, NEW reply, Respond(s, reply), reply # "payment_invalid" PROVE FALSE
  BY <1>2, RespondLeaves
<1>3. ASSUME NEW s \in Reqs, Probe(s) PROVE s = r /\ req[s].proof \in Seq(Hashes) /\ VerifyFrom(s, 1, {})
  <2>1. req[s].proof # None /\ VerifyFrom(s, 1, {})
    BY <1>2, <1>3 DEF Probe
  <2>2. req[s].proof \in Seq(Hashes)
    BY <2>1 DEF IInv, TypeOK, Request
  <2>3. \A q \in Reqs \ {s} : req'[q] = req[q]
    <3>1. 1 \in Nat \ {0}
      OBVIOUS
    <3> QED BY <2>1, <2>2, <3>1, VerifyLeaves, Zenon
  <2> QED BY <2>1, <2>2, <2>3
<1>4. ASSUME NEW s \in Reqs, ReceiptNoMatch(s)
      PROVE  s = r /\ req[s].at = "receipt"
             /\ \E missed \in MissedAfter(s) : VerifyFrom(s, req[s].i + 1, missed)
  <2>1. PICK missed \in MissedAfter(s) : VerifyFrom(s, req[s].i + 1, missed)
    BY <1>4 DEF ReceiptNoMatch
  <2>2. \A q \in Reqs \ {s} : req'[q] = req[q]
    BY <1>4, <2>1, MissedTried, VerifyLeaves DEF ReceiptNoMatch
  <2> QED BY <1>4, <2>1, <2>2 DEF ReceiptNoMatch
<1>5. ASSUME NEW s \in Reqs, ReceiptMatch(s) PROVE FALSE
  BY <1>5 DEF ReceiptMatch, IInv, TypeOK, Request
<1>6. ASSUME NEW s \in Reqs, ConnectHandler(s) \/ RenewHandler(s) \/ RegisterCall(s)
             \/ ConnectFinish(s) \/ RenewFinish(s) \/ ClearFinish(s)
      PROVE  FALSE
  <2>1. \/ Goto(s, "register") \/ Respond(s, "failed") \/ Respond(s, "ok")
        \/ req' = [req EXCEPT ![s].at = "registered", ![s].ip = lease'[req[s].key]]
    BY <1>6 DEF ConnectHandler, RenewHandler, RegisterCall, ConnectFinish, RenewFinish, ClearFinish
  <2>2. CASE Respond(s, "failed") \/ Respond(s, "ok")
    BY <1>2, <2>2
  <2>3. CASE Goto(s, "register")
    BY <2>3 DEF Goto, IInv, TypeOK, Request
  <2>4. CASE req' = [req EXCEPT ![s].at = "registered", ![s].ip = lease'[req[s].key]]
    BY <2>4 DEF IInv, TypeOK, Request
  <2> QED BY <2>1, <2>2, <2>3, <2>4
<1>7. ASSUME NEW s \in Reqs, NEW k \in Keys, Clear(s, k) PROVE FALSE
  BY <1>7 DEF Clear, NoRequest, IInv, TypeOK
<1>8. ASSUME NEW s \in Reqs, NEW route, NEW k \in Keys, NEW body, NEW proof,
             Gate(s, route, k, body, proof)
      PROVE  FALSE
  <2>1. s # r
    BY <1>8 DEF Gate
  <2>2. req'[r] = req[r]
    BY <1>8, <2>1 DEF Gate, Respond, IInv, TypeOK
  <2> QED BY <2>2
<1>9. ASSUME NEW p \in Passes, PassStep(p) PROVE FALSE
  BY <1>9 DEF PassStep, PassStart, PassUnregisters, PassThrows, PassDelete
<1>10. CASE Tick \/ \E k \in Keys : Reap(k)
  BY <1>10 DEF Tick, Reap
<1>11. CASE Restart
  BY <1>11 DEF Restart, NoRequest
<1>12. CASE UNCHANGED vars
  BY <1>12 DEF vars
<1> QED BY <1>3, <1>4, <1>5, <1>6, <1>7, <1>8, <1>9, <1>10, <1>11, <1>12 DEF Next, RequestStep

\* When verifyUaPayment refuses at place i, having tried the places before, there is
\* nothing to credit: the hash at i has bought an admission, or all were tried.
LEMMA RefusalCause ==
    ASSUME IInv, NEW r \in Reqs, NEW STATE i, i \in Nat \ {0}, req[r].proof \in Seq(Hashes),
           NEW STATE missed, missed \in SUBSET Nat, Tried(req[r], i, missed),
           VerifyFrom(r, i, missed), req'[r].at = "idle"
    PROVE  NothingToCredit(req[r], req'[r].missed)
<1>1. DOMAIN req[r].proof = 1..Len(req[r].proof) /\ Len(req[r].proof) \in Nat
  OBVIOUS
<1>2. CASE i > Len(req[r].proof) /\ RefuseProof(r, missed)
  <2>1. req'[r].missed = missed
    BY <1>2 DEF RefuseProof, NoRequest, IInv, TypeOK
  <2>2. \A j \in 1..Len(req[r].proof) : j \in 1..(i - 1)
    BY <1>1, <1>2
  <2> QED BY <1>1, <2>1, <2>2 DEF NothingToCredit, Tried
<1>3. CASE i \in 1..Len(req[r].proof) /\ req[r].proof[i] \in spent /\ RefuseProof(r, missed)
  BY <1>1, <1>3 DEF NothingToCredit, IInv
<1>4. CASE AwaitReceipt(r, i, missed)
  BY <1>4 DEF AwaitReceipt, IInv, TypeOK, Request
<1> QED BY <1>2, <1>3, <1>4, VerifyCases, Zenon

\* paymentGate refuses a proof only if one of its hashes has bought an admission before
\* or none that could be looked up pays the price: nothing a refused request does,
\* its own lookups included, uses up a hash.
THEOREM RefusalIsCaused == Spec => RefusalHasCause
<1>1. IInv /\ [Next]_vars =>
        [\A r \in Reqs :
            (/\ req[r].at \in {"probe", "receipt"}
             /\ req'[r].at = "idle" /\ req'[r].reply = "payment_invalid")
            => NothingToCredit(req[r], req'[r].missed)]_vars
  <2> SUFFICES ASSUME IInv, [Next]_vars, NEW r \in Reqs, req[r].at \in {"probe", "receipt"},
                      req'[r].at = "idle", req'[r].reply = "payment_invalid"
               PROVE  NothingToCredit(req[r], req'[r].missed)
    OBVIOUS
  <2>1. CASE /\ req[r].proof \in Seq(Hashes) /\ VerifyFrom(r, 1, {})
    <3>1. Tried(req[r], 1, {})
      BY DEF Tried
    <3>2. 1 \in Nat \ {0} /\ {} \in SUBSET Nat
      OBVIOUS
    <3> QED BY <2>1, <3>1, <3>2, RefusalCause, Zenon
  <2>2. ASSUME NEW missed \in MissedAfter(r), req[r].at = "receipt",
               VerifyFrom(r, req[r].i + 1, missed)
        PROVE  NothingToCredit(req[r], req'[r].missed)
    <3>1. /\ req[r].proof \in Seq(Hashes) /\ req[r].i + 1 \in Nat \ {0}
          /\ missed \in SUBSET Nat /\ Tried(req[r], req[r].i + 1, missed)
      BY <2>2, MissedTried
    <3> QED BY <2>2, <3>1, RefusalCause
  <2> QED BY <2>1, <2>2, RefusedByVerify
<1> QED BY <1>1, Inductive, PTL DEF Spec, RefusalHasCause

------------------------------------------------------------------------------
(* One request at a time *)

\* What holds when no other request runs while a receipt is awaited: the guard is
\* complete, and the hash whose receipt is awaited is not in it.
InTurn ==
    /\ spent = credited
    /\ \A r \in Reqs : req[r].at = "receipt" => req[r].proof[req[r].i] \notin spent

\* Every step of a server that takes one request at a time and is not restarted.
LEMMA InTurnStep ==
    ASSUME \A r, s \in Reqs : r = s, "restart" \notin Faults, IInv, InTurn, [Next]_vars
    PROVE  InTurn'
<1>1. ASSUME NEW r \in Reqs, UNCHANGED <<spent, credited>>,
             req'[r].at = "receipt" => req'[r].proof[req'[r].i] \notin spent
      PROVE  InTurn'
  BY <1>1 DEF InTurn
<1>2. ASSUME NEW r \in Reqs, Probe(r) PROVE InTurn'
  <2>1. CASE Respond(r, "unavailable") \/ Respond(r, "payment_required")
    BY <1>1, <1>2, <2>1, RespondLeaves DEF Probe
  <2>2. CASE req[r].proof # None /\ VerifyFrom(r, 1, {})
    <3>1. req[r].proof \in Seq(Hashes)
      BY <2>2 DEF IInv, TypeOK, Request
    <3>2. req'[r].at = "receipt" => req'[r].proof[req'[r].i] \notin spent
      <4>1. 1 \in Nat \ {0}
        OBVIOUS
      <4> QED BY <2>2, <3>1, <4>1, VerifyLeaves, Zenon
    <3> QED BY <1>1, <1>2, <3>2 DEF Probe
  <2> QED BY <1>2, <2>1, <2>2 DEF Probe
<1>3. ASSUME NEW r \in Reqs, ReceiptNoMatch(r) PROVE InTurn'
  <2>1. PICK missed \in MissedAfter(r) : VerifyFrom(r, req[r].i + 1, missed)
    BY <1>3 DEF ReceiptNoMatch
  <2> QED BY <1>1, <1>3, <2>1, MissedTried, VerifyLeaves DEF ReceiptNoMatch
<1>4. ASSUME NEW r \in Reqs, ReceiptMatch(r) PROVE InTurn'
  <2>1. req'[r].at = "handler" /\ spent' = credited'
    BY <1>4 DEF ReceiptMatch, InTurn, IInv, TypeOK, Request
  <2> QED BY <2>1 DEF InTurn
<1>5. ASSUME NEW r \in Reqs, ConnectHandler(r) \/ RenewHandler(r) \/ RegisterCall(r)
             \/ ConnectFinish(r) \/ RenewFinish(r) \/ ClearFinish(r)
      PROVE  InTurn'
  <2>1. UNCHANGED <<spent, credited>>
    BY <1>5 DEF ConnectHandler, RenewHandler, RegisterCall, ConnectFinish, RenewFinish, ClearFinish
  <2>2. \/ Goto(r, "register") \/ \E reply : Respond(r, reply)
        \/ req' = [req EXCEPT ![r].at = "registered", ![r].ip = lease'[req[r].key]]
    BY <1>5 DEF ConnectHandler, RenewHandler, RegisterCall, ConnectFinish, RenewFinish, ClearFinish
  <2>3. req'[r].at # "receipt"
    BY <2>2, RespondLeaves DEF Goto, IInv, TypeOK, Request
  <2> QED BY <1>1, <2>1, <2>3
<1>6. ASSUME NEW r \in Reqs, RequestStep(r) PROVE InTurn'
  BY <1>2, <1>3, <1>4, <1>5, <1>6 DEF RequestStep
<1>7. ASSUME NEW r \in Reqs, NEW k \in Keys, Clear(r, k) PROVE InTurn'
  <2>1. req'[r].at = "unregister" /\ UNCHANGED <<spent, credited>>
    BY <1>7 DEF Clear, NoRequest, IInv, TypeOK
  <2> QED BY <1>1, <2>1
<1>8. ASSUME UNCHANGED <<spent, credited, req>> PROVE InTurn'
  BY <1>8 DEF InTurn
<1>9. ASSUME NEW p \in Passes, PassStep(p) PROVE InTurn'
  BY <1>8, <1>9 DEF PassStep, PassStart, PassUnregisters, PassThrows, PassDelete
<1>10. CASE Tick \/ Restart \/ \E k \in Keys : Reap(k)
  BY <1>8, <1>10 DEF Tick, Restart, Reap
<1>11. ASSUME NEW r \in Reqs, NEW route, NEW k \in Keys, NEW body, NEW proof,
              Gate(r, route, k, body, proof)
       PROVE  InTurn'
  <2>1. UNCHANGED <<spent, credited>>
    BY <1>11 DEF Gate
  <2>2. CASE GateRefusal(route, k, body) # None
    BY <1>1, <1>11, <2>1, <2>2, RespondLeaves DEF Gate
  <2>3. CASE GateRefusal(route, k, body) = None
    <3> DEFINE minutes == ResolveDurationMinutes(body, FallbackMinutes(route, k))
               x == [NoRequest EXCEPT !.at = "probe", !.route = route, !.key = k,
                        !.body = body, !.proof = proof, !.amount = minutes]
    <3>1. req' = [req EXCEPT ![r] = x]
      BY <1>11, <2>3, Zenon DEF Gate
    <3>2. x.at = "probe"
      <4> HIDE DEF minutes
      <4> QED BY DEF NoRequest
    <3>3. req'[r].at = "probe"
      <4> HIDE DEF x
      <4> QED BY <3>1, <3>2 DEF IInv, TypeOK
    <3> QED BY <1>1, <2>1, <3>3
  <2> QED BY <2>2, <2>3
<1>12. CASE UNCHANGED vars
  BY <1>8, <1>12 DEF vars
<1> QED BY <1>6, <1>7, <1>9, <1>10, <1>11, <1>12 DEF Next

\* A request gets from its receipt to its handler by a match alone.
LEMMA ToHandlerByMatch ==
    ASSUME IInv, [Next]_vars, NEW r \in Reqs, req[r].at = "receipt", req'[r].at = "handler"
    PROVE  ReceiptMatch(r)
<1>2. ASSUME NEW s \in Reqs, NEW reply, Respond(s, reply) PROVE FALSE
  BY <1>2, RespondLeaves
<1>3. ASSUME NEW s \in Reqs, ReceiptNoMatch(s) PROVE FALSE
  <2>1. PICK missed \in MissedAfter(s) : VerifyFrom(s, req[s].i + 1, missed)
    BY <1>3 DEF ReceiptNoMatch
  <2> QED BY <1>3, <2>1, MissedTried, VerifyLeaves DEF ReceiptNoMatch
<1>4. ASSUME NEW s \in Reqs, Probe(s) PROVE FALSE
  <2>1. CASE \E reply : Respond(s, reply)
    BY <1>2, <2>1
  <2>2. CASE req[s].proof # None /\ VerifyFrom(s, 1, {})
    <3>1. req[s].proof \in Seq(Hashes)
      BY <2>2 DEF IInv, TypeOK, Request
    <3>2. /\ req'[s].at \in {"idle", "receipt"}
          /\ \A q \in Reqs \ {s} : req'[q] = req[q]
      <4>1. 1 \in Nat \ {0}
        OBVIOUS
      <4> QED BY <2>2, <3>1, <4>1, VerifyLeaves, Zenon
    <3> QED BY <3>2
  <2> QED BY <1>4, <2>1, <2>2 DEF Probe
<1>5. ASSUME NEW s \in Reqs, ReceiptMatch(s) PROVE s = r
  BY <1>5 DEF ReceiptMatch, IInv, TypeOK
<1>6. ASSUME NEW s \in Reqs, ConnectHandler(s) \/ RenewHandler(s) \/ RegisterCall(s)
             \/ ConnectFinish(s) \/ RenewFinish(s) \/ ClearFinish(s)
      PROVE  FALSE
  <2>1. \/ Goto(s, "register") \/ \E reply : Respond(s, reply)
        \/ req' = [req EXCEPT ![s].at = "registered", ![s].ip = lease'[req[s].key]]
    BY <1>6 DEF ConnectHandler, RenewHandler, RegisterCall, ConnectFinish, RenewFinish, ClearFinish
  <2>2. CASE \E reply : Respond(s, reply)
    BY <1>2, <2>2
  <2>3. CASE Goto(s, "register")
    BY <2>3 DEF Goto, IInv, TypeOK, Request
  <2>4. CASE req' = [req EXCEPT ![s].at = "registered", ![s].ip = lease'[req[s].key]]
    BY <2>4 DEF IInv, TypeOK, Request
  <2> QED BY <2>1, <2>2, <2>3, <2>4
<1>7. ASSUME NEW s \in Reqs, NEW k \in Keys, Clear(s, k) PROVE FALSE
  BY <1>7 DEF Clear, NoRequest, IInv, TypeOK
<1>8. ASSUME NEW s \in Reqs, NEW route, NEW k \in Keys, NEW body, NEW proof,
             Gate(s, route, k, body, proof)
      PROVE  FALSE
  <2>1. CASE GateRefusal(route, k, body) # None
    BY <1>2, <1>8, <2>1 DEF Gate
  <2>2. CASE GateRefusal(route, k, body) = None
    BY <1>8, <2>2 DEF Gate, NoRequest, IInv, TypeOK
  <2> QED BY <2>1, <2>2
<1>9. ASSUME NEW p \in Passes, PassStep(p) PROVE FALSE
  BY <1>9 DEF PassStep, PassStart, PassUnregisters, PassThrows, PassDelete
<1>10. CASE Tick \/ \E k \in Keys : Reap(k)
  BY <1>10 DEF Tick, Reap
<1>11. CASE Restart
  BY <1>11 DEF Restart, NoRequest
<1>12. CASE UNCHANGED vars
  BY <1>12 DEF vars
<1> QED BY <1>3, <1>4, <1>5, <1>6, <1>7, <1>8, <1>9, <1>10, <1>11, <1>12 DEF Next, RequestStep

\* A server that takes one request at a time and is not restarted accepts a hash once
\* as it is written: the replay guard of paymentVerify.ts is sound but for the await
\* between its look-up and its entry, for being kept in memory and for comparing the
\* strings of the clients.
THEOREM SerialRedeemsOnce ==
    ASSUME \A r, s \in Reqs : r = s, "restart" \notin Faults PROVE Spec => RedeemOnceAsWritten
<1>1. Init => InTurn
  BY DEF Init, InTurn, NoRequest
<1>2. IInv /\ InTurn /\ [Next]_vars => (IInv /\ InTurn)'
  BY InTurnStep, NextIInv
<1>3. IInv /\ InTurn /\ [Next]_vars =>
        [\A r \in Reqs : req[r].at = "receipt" /\ req'[r].at = "handler"
            => req'[r].hash \notin credited]_vars
  <2> SUFFICES ASSUME IInv, InTurn, [Next]_vars, NEW r \in Reqs, req[r].at = "receipt",
                      req'[r].at = "handler"
               PROVE  req'[r].hash \notin credited
    OBVIOUS
  <2>1. ReceiptMatch(r)
    BY ToHandlerByMatch
  <2>2. req'[r].hash = req[r].proof[req[r].i]
    BY <2>1 DEF ReceiptMatch, IInv, TypeOK, Request
  <2> QED BY <2>2 DEF InTurn
<1> QED BY <1>1, <1>2, <1>3, InitIInv, PTL DEF Spec, RedeemOnceAsWritten

\* Clients that write every transaction in one way make of it what the code promises:
\* a transaction is accepted once.
THEOREM OneSpellingRedeemsOnce ==
    ASSUME \A r, s \in Reqs : r = s, "restart" \notin Faults,
           \A g, h \in Hashes : Tx[g] = Tx[h] => g = h
    PROVE  Spec => RedeemOnce
<1>1. IInv /\ IInv' =>
        ([\A r \in Reqs : req[r].at = "receipt" /\ req'[r].at = "handler"
            => req'[r].hash \notin credited]_vars
         => [\A r \in Reqs : req[r].at = "receipt" /\ req'[r].at = "handler"
               => \A h \in credited : Tx[h] # Tx[req'[r].hash]]_vars)
  <2> SUFFICES ASSUME IInv, IInv', NEW r \in Reqs, req'[r].at = "handler",
                      req'[r].hash \notin credited, NEW h \in credited
               PROVE  Tx[h] # Tx[req'[r].hash]
    OBVIOUS
  <2>1. h \in Hashes /\ req'[r].hash \in Hashes
    BY DEF IInv, TypeOK, RequestOK
  <2> QED BY <2>1
<1>2. Spec => RedeemOnceAsWritten
  BY SerialRedeemsOnce
<1> QED BY <1>1, <1>2, Inductive, PTL DEF RedeemOnce, RedeemOnceAsWritten
==============================================================================
