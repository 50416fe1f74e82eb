------------------------------ MODULE VpnServer ------------------------------
(***************************************************************************)
(* The x402 resource server (vpn-server/): payment gate, connect, renew    *)
(* and clear handlers, session store, replay guard and expiry worker.      *)
(*                                                                         *)
(* Node runs a handler without interruption up to its next await, so one   *)
(* action is the code between two awaits, and requests and expiry passes   *)
(* interleave exactly at the awaits.  boringtun is used through the        *)
(* contract of PeerService.  Amounts of USDC are counted in minutes at the *)
(* configured price, and time in whole minutes.                            *)
(***************************************************************************)
EXTENDS Integers, FiniteSets, Sequences

CONSTANTS
    Keys,            \* WireGuard public keys of the clients
    Octets,          \* boringtun's address pool
    Reqs,            \* concurrent HTTP requests (slots, reused)
    Passes,          \* concurrent runs of the expiry interval callback
    Txs,             \* on-chain transactions
    Hashes,          \* transaction hashes as a client may write them
    Tx,              \* Tx[h]: the transaction the RPC node finds for h, in any case
    Paid,            \* Paid[t]: USDC that t transfers to the payee, in minutes
    Durations,       \* values of durationMinutes a body may carry
    MinMinutes, MaxMinutes, DefaultMinutes,   \* pricing configuration
    Routes,          \* the POST routes clients use
    Faults,          \* which failures of the environment are allowed
    MaxProof,        \* bound: hashes in one payment proof
    MaxClock,        \* bound: last minute
    None             \* absent value

ASSUME ServerConstants ==
    /\ MinMinutes \in Nat \ {0} /\ MaxMinutes \in Nat
    /\ DefaultMinutes \in MinMinutes..MaxMinutes
    /\ Durations \subseteq Int
    /\ Tx \in [Hashes -> Txs] /\ Paid \in [Txs -> Nat]
    /\ Routes \subseteq {"connect", "renew", "clear"}
    /\ Faults \subseteq {"backend", "lost_reply", "reap", "rpc", "restart"}
    /\ MaxProof \in Nat /\ MaxClock \in Nat
    /\ None \notin Int /\ None \notin Keys /\ None \notin Hashes /\ None \notin Octets
    /\ None \notin {"bad_request", "conflict", "payment_invalid"}

VARIABLES
    now,             \* Date.now(), in minutes
    sessions,        \* SessionStore.sessions: key -> session, or None
    spent,           \* the replay guard of paymentVerify.ts
    lease,           \* boringtun's registered peers
    req,             \* the requests being served
    pass,            \* the expiry passes being run
    credited,        \* history: every hash ever accepted as payment, as written
    adrift           \* history: keys whose peer the server lost track of

vars == <<now, sessions, spent, lease, req, pass, credited, adrift>>

BT == INSTANCE PeerService

------------------------------------------------------------------------------
(* Data *)

Minutes == MinMinutes..MaxMinutes

Session == [expiresAt : Nat, durationMinutes : Minutes, assignedIp : Octets]

\* USDC of the transaction that is written h.
Settles(h) == Paid[Tx[h]]

\* txHashes of the payment proof; None is a request without a transactionId.
Proofs == {None} \cup UNION {[1..n -> Hashes] : n \in 0..MaxProof}

Points == {"idle", "probe", "receipt", "handler", "register", "registered",
           "unregister"}

Replies == {None, "ok", "bad_request", "conflict", "unavailable",
            "payment_required", "payment_invalid", "failed"}

NoRequest == [at |-> "idle", route |-> None, key |-> None, body |-> None,
              proof |-> None, amount |-> None, i |-> None, missed |-> {}, hash |-> None,
              ip |-> None, reply |-> None]

\* `missed` is history: the places of the proof whose receipt was not to be had.
Request ==
    [at : Points, route : Routes \cup {None}, key : Keys \cup {None}, body : Int \cup {None},
     proof : Seq(Hashes) \cup {None}, amount : Minutes \cup {None}, i : Nat \cup {None},
     missed : SUBSET Nat, hash : Hashes \cup {None}, ip : Octets \cup {None}, reply : Replies]

NoPass == [todo |-> {}, dropping |-> None]

------------------------------------------------------------------------------
(* SessionStore and pricing *)

Expired(k) == sessions[k] # None /\ sessions[k].expiresAt <= now

\* getSession: an expired entry is invisible although it is still in the map.
GetSession(k) == IF sessions[k] = None \/ Expired(k) THEN None ELSE sessions[k]

Live(k) == GetSession(k) # None

\* The duration a request is charged for and granted, None if out of range.
ResolveDurationMinutes(body, fallback) ==
    LET raw == CASE body # None -> body
                 [] body = None /\ fallback # None -> fallback
                 [] OTHER -> DefaultMinutes
    IN IF raw \in Minutes THEN raw ELSE None

FallbackMinutes(route, k) ==
    IF route = "renew" /\ Live(k) THEN sessions[k].durationMinutes ELSE None

CreateLongestSession(k, minutes, ip) ==
    sessions' = [sessions EXCEPT ![k] =
        [expiresAt |-> now + MaxMinutes, durationMinutes |-> minutes,
         assignedIp |-> ip]]

CreateSession(k, minutes, ip) ==
    sessions' = [sessions EXCEPT ![k] =
        [expiresAt |-> now + minutes, durationMinutes |-> minutes,
         assignedIp |-> ip]]

DeleteSession(k) == sessions' = [sessions EXCEPT ![k] = None]

ListExpired == {k \in Keys : Expired(k)}

------------------------------------------------------------------------------
(* Requests *)

Goto(r, point) == req' = [req EXCEPT ![r].at = point]

Respond(r, reply) == req' = [req EXCEPT ![r] = [NoRequest EXCEPT !.reply = reply]]

Init ==
    /\ now = 0
    /\ sessions = [k \in Keys |-> None]
    /\ spent = {}
    /\ BT!PeerInit
    /\ req = [r \in Reqs |-> NoRequest]
    /\ pass = [p \in Passes |-> NoPass]
    /\ credited = {}
    /\ adrift = {}

\* paymentGate before its first await: body and session precondition.
GateRefusal(route, k, body) ==
    CASE ResolveDurationMinutes(body, FallbackMinutes(route, k)) = None -> "bad_request"
      [] route = "renew" /\ ~Live(k) -> "bad_request"
      [] route = "connect" /\ Live(k) -> "conflict"
      [] OTHER -> None

Gate(r, route, k, body, proof) ==
    LET refusal == GateRefusal(route, k, body) IN
    /\ req[r].at = "idle"
    /\ route \in Routes \ {"clear"}
    /\ IF refusal # None
       THEN Respond(r, refusal)
       ELSE req' = [req EXCEPT ![r] =
                [NoRequest EXCEPT !.at = "probe", !.route = route, !.key = k,
                    !.body = body, !.proof = proof,
                    !.amount = ResolveDurationMinutes(body, FallbackMinutes(route, k))]]
    /\ UNCHANGED <<now, sessions, spent, lease, pass, credited, adrift>>

\* The answer to a proof that was not accepted.
RefuseProof(r, missed) ==
    req' = [req EXCEPT ![r] = [NoRequest EXCEPT !.reply = "payment_invalid", !.missed = missed]]

VerifyWithoutReplayGuard(r, i, missed) ==
    CASE i > Len(req[r].proof) -> RefuseProof(r, missed)
      [] OTHER -> req' = [req EXCEPT ![r].at = "receipt", ![r].i = i, ![r].missed = missed]

\* verifyUaPayment from hash number i up to the next await of a receipt.  The
\* guard compares the strings the clients sent, as they are.
VerifyFrom(r, i, missed) ==
    CASE i > Len(req[r].proof) -> RefuseProof(r, missed)
      [] i <= Len(req[r].proof) /\ req[r].proof[i] \in spent -> RefuseProof(r, missed)
      [] OTHER -> req' = [req EXCEPT ![r].at = "receipt", ![r].i = i, ![r].missed = missed]

\* The health probe of boringtun answers.
Probe(r) ==
    /\ req[r].at = "probe"
    /\ \/ "backend" \in Faults /\ Respond(r, "unavailable")
       \/ req[r].proof = None /\ Respond(r, "payment_required")
       \/ req[r].proof # None /\ VerifyFrom(r, 1, {})
    /\ UNCHANGED <<now, sessions, spent, lease, pass, credited, adrift>>

\* The places without a receipt, after the lookup for the present one ended
\* without a match: it shows too little, or it failed.
MissedAfter(r) ==
    LET x == req[r] IN
    (IF Settles(x.proof[x.i]) < x.amount THEN {x.missed} ELSE {})
    \cup (IF "rpc" \in Faults THEN {x.missed \cup {x.i}} ELSE {})

ReceiptNoMatchBurnsHash(r) ==
    /\ req[r].at = "receipt"
    /\ \E missed \in MissedAfter(r) : VerifyFrom(r, req[r].i + 1, missed)
    /\ spent' = spent \cup {req[r].proof[req[r].i]}
    /\ UNCHANGED <<now, sessions, lease, pass, credited, adrift>>

ReceiptNoMatchRetries(r) ==
    /\ req[r].at = "receipt"
    /\ \E missed \in MissedAfter(r) : VerifyFrom(r, req[r].i, missed)
    /\ UNCHANGED <<now, sessions, spent, lease, pass, credited, adrift>>

\* The receipt has no transfer to the payee of at least the price, or the
\* lookup failed: go on with the next hash.
ReceiptNoMatch(r) ==
    /\ req[r].at = "receipt"
    /\ \E missed \in MissedAfter(r) : VerifyFrom(r, req[r].i + 1, missed)
    /\ UNCHANGED <<now, sessions, spent, lease, pass, credited, adrift>>

ReceiptMatchAnyAmount(r) ==
    LET h == req[r].proof[req[r].i] IN
    /\ req[r].at = "receipt"
    /\ spent' = spent \cup {h}
    /\ credited' = credited \cup {h}
    /\ req' = [req EXCEPT ![r].at = "handler", ![r].hash = h]
    /\ UNCHANGED <<now, sessions, lease, pass, adrift>>

\* The receipt shows the transfer: the hash is spent and the handler runs.
ReceiptMatch(r) ==
    LET h == req[r].proof[req[r].i] IN
    /\ req[r].at = "receipt"
    /\ Settles(h) >= req[r].amount
    /\ spent' = spent \cup {h}
    /\ credited' = credited \cup {h}
    /\ req' = [req EXCEPT ![r].at = "handler", ![r].hash = h]
    /\ UNCHANGED <<now, sessions, lease, pass, adrift>>

\* createConnectHandler up to the await of registerWireGuardPeer.
ConnectHandler(r) ==
    /\ req[r].at = "handler" /\ req[r].route = "connect"
    /\ Goto(r, "register")
    /\ UNCHANGED <<now, sessions, spent, lease, pass, credited, adrift>>

\* createRenewHandler up to the await of registerWireGuardPeer: renewSession
\* throws when the session is gone, and drops it when it has expired.
RenewHandler(r) ==
    LET k == req[r].key
        minutes == ResolveDurationMinutes(req[r].body, FallbackMinutes("renew", k))
    IN
    /\ req[r].at = "handler" /\ req[r].route = "renew"
    /\ \/ sessions[k] = None /\ Respond(r, "failed") /\ UNCHANGED <<sessions, adrift>>
       \/ /\ Expired(k) /\ DeleteSession(k) /\ Respond(r, "failed")
          /\ adrift' = adrift \cup {k}
       \/ /\ Live(k)
          /\ sessions' = [sessions EXCEPT ![k].expiresAt = @ + minutes,
                                          ![k].durationMinutes = minutes]
          /\ Goto(r, "register")
          /\ UNCHANGED adrift
    /\ UNCHANGED <<now, spent, lease, pass, credited>>

\* A pass has unregistered the peer of k and is about to delete the entry of k.
Dropping(k) == \E p \in Passes : pass[p].dropping = k

\* boringtun serves /v1/register and the reply arrives, is lost, or the call
\* fails; a failed call makes the handler answer 400.
RegisterCall(r) ==
    LET k == req[r].key IN
    /\ req[r].at = "register"
    /\ \/ /\ BT!Register(k)
          /\ req' = [req EXCEPT ![r].at = "registered", ![r].ip = lease'[k]]
          /\ adrift' = IF Dropping(k) THEN adrift \cup {k} ELSE adrift
       \/ /\ "lost_reply" \in Faults /\ BT!Register(k) /\ Respond(r, "failed")
          /\ adrift' = IF Dropping(k) THEN adrift \cup {k} ELSE adrift
       \/ /\ "backend" \in Faults \/ (lease[k] = None /\ Octets \subseteq BT!InUse)
          /\ UNCHANGED <<lease, adrift>> /\ Respond(r, "failed")
    /\ UNCHANGED <<now, sessions, spent, pass, credited>>

\* The connect handler resumes with boringtun's answer: createSession throws
\* if another request created a live session meanwhile.
ConnectFinish(r) ==
    LET k == req[r].key IN
    /\ req[r].at = "registered" /\ req[r].route = "connect"
    /\ \/ Live(k) /\ UNCHANGED <<sessions, adrift>> /\ Respond(r, "failed")
       \/ /\ ~Live(k)
          /\ CreateSession(k, ResolveDurationMinutes(req[r].body, None), req[r].ip)
          /\ adrift' = IF Dropping(k) THEN adrift \cup {k} ELSE adrift \ {k}
          /\ Respond(r, "ok")
    /\ UNCHANGED <<now, spent, lease, pass, credited>>

\* The renew handler resumes and answers from the session object; boringtun's
\* answer is not looked at.
RenewFinish(r) ==
    /\ req[r].at = "registered" /\ req[r].route = "renew"
    /\ Respond(r, "ok")
    /\ UNCHANGED <<now, sessions, spent, lease, pass, credited, adrift>>

\* POST /session/clear deletes the session, then awaits the unregistration.
Clear(r, k) ==
    /\ req[r].at = "idle" /\ "clear" \in Routes
    /\ DeleteSession(k)
    /\ req' = [req EXCEPT ![r] = [NoRequest EXCEPT !.at = "unregister",
                                     !.route = "clear", !.key = k]]
    /\ UNCHANGED <<now, spent, lease, pass, credited, adrift>>

\* unregisterWireGuardPeer(k): it throws on 404 and on a failed call; with a
\* lost reply boringtun has removed the peer although the caller sees an error.
UnregisterOk(k) == BT!Release(k)

UnregisterThrows(k) ==
    \/ (lease[k] = None \/ "backend" \in Faults) /\ UNCHANGED lease
    \/ "lost_reply" \in Faults /\ BT!Release(k)

\* The clear handler answers whether or not the peer could be removed.
ClearFinish(r) ==
    LET k == req[r].key IN
    /\ req[r].at = "unregister"
    /\ UnregisterOk(k) \/ UnregisterThrows(k)
    /\ adrift' = IF lease'[k] # None THEN adrift \cup {k} ELSE adrift
    /\ Respond(r, "ok")
    /\ UNCHANGED <<now, sessions, spent, pass, credited>>

------------------------------------------------------------------------------
(* The expiry worker: every interval tick starts a pass of its own, which    *)
(* walks the list it took at the start.                                      *)

PassStart(p) ==
    /\ pass[p] = NoPass /\ ListExpired # {}
    /\ pass' = [pass EXCEPT ![p].todo = ListExpired]
    /\ UNCHANGED <<now, sessions, spent, lease, req, credited, adrift>>

\* The await of one unregistration ends: with the peer removed, or by a throw,
\* which the pass logs and goes on; the entry stays for a later pass.
PassUnregisters(p, k) ==
    /\ pass[p].dropping = None /\ k \in pass[p].todo
    /\ UnregisterOk(k)
    /\ pass' = [pass EXCEPT ![p].dropping = k]
    /\ UNCHANGED <<now, sessions, spent, req, credited, adrift>>

PassThrowsForgets(p, k) ==
    /\ pass[p].dropping = None /\ k \in pass[p].todo
    /\ UnregisterThrows(k)
    /\ DeleteSession(k)
    /\ pass' = [pass EXCEPT ![p].todo = @ \ {k}]
    /\ UNCHANGED <<now, spent, req, credited, adrift>>

PassThrows(p, k) ==
    /\ pass[p].dropping = None /\ k \in pass[p].todo
    /\ UnregisterThrows(k)
    /\ pass' = [pass EXCEPT ![p].todo = @ \ {k}]
    /\ UNCHANGED <<now, sessions, spent, req, credited, adrift>>

PassDelete(p) ==
    LET k == pass[p].dropping IN
    /\ k # None
    /\ DeleteSession(k)
    /\ pass' = [pass EXCEPT ![p] = [todo |-> @.todo \ {k}, dropping |-> None]]
    /\ UNCHANGED <<now, spent, lease, req, credited, adrift>>

------------------------------------------------------------------------------
(* Environment *)

Tick ==
    /\ now < MaxClock /\ now' = now + 1
    /\ UNCHANGED <<sessions, spent, lease, req, pass, credited, adrift>>

\* boringtun drops an idle peer, or restarts and forgets its peers one by one.
Reap(k) ==
    /\ "reap" \in Faults /\ BT!Release(k)
    /\ UNCHANGED <<now, sessions, spent, req, pass, credited, adrift>>

\* The server process restarts: sessions and the replay guard are in memory.
Restart ==
    /\ "restart" \in Faults
    /\ sessions' = [k \in Keys |-> None]
    /\ spent' = {}
    /\ req' = [r \in Reqs |-> NoRequest]
    /\ pass' = [p \in Passes |-> NoPass]
    /\ adrift' = Keys
    /\ UNCHANGED <<now, lease, credited>>

RequestStep(r) ==
    \/ Probe(r) \/ ReceiptNoMatch(r) \/ ReceiptMatch(r)
    \/ ConnectHandler(r) \/ RenewHandler(r) \/ RegisterCall(r)
    \/ ConnectFinish(r) \/ RenewFinish(r) \/ ClearFinish(r)

PassStep(p) ==
    \/ PassStart(p) \/ PassDelete(p)
    \/ \E k \in Keys : PassUnregisters(p, k) \/ PassThrows(p, k)

Next ==
    \/ \E r \in Reqs, route \in {"connect", "renew"}, k \in Keys,
          body \in Durations \cup {None}, proof \in Proofs :
             Gate(r, route, k, body, proof)
    \/ \E r \in Reqs, k \in Keys : Clear(r, k)
    \/ \E r \in Reqs : RequestStep(r)
    \/ \E p \in Passes : PassStep(p)
    \/ \E k \in Keys : Reap(k)
    \/ Tick
    \/ Restart

Spec == Init /\ [][Next]_vars

\* A started request is carried on (fetch and the RPC client time out), the
\* interval timer keeps firing and time passes; clients may stop at any time.
\* boringtun does not fail for ever: an unregistration that is tried again and
\* again succeeds once.
Fairness ==
    /\ \A r \in Reqs : WF_vars(RequestStep(r))
    /\ \A p \in Passes : WF_vars(PassStep(p))
    /\ \A p \in Passes, k \in Keys : SF_vars(PassUnregisters(p, k))
    /\ WF_vars(Tick)

FairSpec == Spec /\ Fairness
------------------------------------------------------------------------------
(* Properties *)

TypeOK ==
    /\ now \in 0..MaxClock
    /\ sessions \in [Keys -> Session \cup {None}]
    /\ spent \subseteq Hashes /\ credited \subseteq Hashes
    /\ BT!PeerTypeOK
    /\ adrift \subseteq Keys
    /\ req \in [Reqs -> Request]
    /\ pass \in [Passes -> [todo : SUBSET Keys, dropping : Keys \cup {None}]]

\* The server is past the payment gate for r.
Admitted(r) == req[r].at \in {"handler", "register", "registered"}

\* A connect or renew handler runs only for a request whose settlement was
\* found on chain with at least the quoted amount (paymentGate calls next()
\* only after verifyUaPayment succeeded), whatever the other requests, the
\* expiry passes and restarts of the server do in between.
AdmittedIsPaid ==
    \A r \in Reqs : Admitted(r) =>
        /\ req[r].hash \in credited
        /\ Settles(req[r].hash) >= req[r].amount

\* The time a step adds to the session of k.
Granted(k) ==
    CASE sessions'[k] = None -> 0
      [] sessions'[k] # None /\ Live(k) -> sessions'[k].expiresAt - sessions[k].expiresAt
      [] OTHER -> sessions'[k].expiresAt - now

\* The step is one of a request for k that paid for the time it adds.
PaidStep(r, k) ==
    /\ Admitted(r) /\ req'[r] # req[r] /\ req[r].key = k
    /\ Granted(k) <= Settles(req[r].hash)

\* Session time appears only in a step of an admitted request for that key,
\* and never more of it than the request's transaction paid for, except that
\* a renewal without durationMinutes re-reads the session's duration after the
\* payment was verified.
GrantCovered ==
    [][\A k \in Keys : Granted(k) > 0 =>
          \E r \in Reqs :
             \/ PaidStep(r, k)
             \/ Admitted(r) /\ req[r].key = k /\ req[r].route = "renew" /\ req[r].body = None
      ]_vars

\* The proof of x holds a hash that has bought an admission before, or no hash
\* whose receipt was to be had pays the price.
NothingToCredit(x, missed) ==
    \/ \E j \in DOMAIN x.proof : x.proof[j] \in credited
    \/ \A j \in DOMAIN x.proof : j \in missed \/ Settles(x.proof[j]) < x.amount

\* A payment that has bought nothing yet is not refused: paymentGate calls a
\* proof invalid only if one of its hashes was accepted for an earlier request,
\* or if each of them pays too little or could not be looked up in this very
\* request.  So no request that is refused, and no step of it, uses up a hash.
RefusalHasCause ==
    [][\A r \in Reqs :
          (/\ req[r].at \in {"probe", "receipt"}
           /\ req'[r].at = "idle" /\ req'[r].reply = "payment_invalid")
          => NothingToCredit(req[r], req'[r].missed)]_vars

\* A transaction is accepted as payment at most once ("guard replay by tx hash",
\* paymentVerify.ts).
RedeemOnce ==
    [][\A r \in Reqs :
          req[r].at = "receipt" /\ req'[r].at = "handler"
             => \A h \in credited : Tx[h] # Tx[req'[r].hash]]_vars

\* A hash is accepted at most once as it is written: the replay guard `spent` of
\* paymentVerify.ts holds the strings of the clients.
RedeemOnceAsWritten ==
    [][\A r \in Reqs :
          req[r].at = "receipt" /\ req'[r].at = "handler"
             => req'[r].hash \notin credited]_vars

\* Every request that was started is answered.
RequestAnswered == \A r \in Reqs : []<>(req[r].at = "idle")

\* "When a paid session expires, remove the WireGuard peer from boringtun"
\* (sessionExpiry.ts), through failing unregistrations that a later pass tries again,
\* for a peer the server keeps track of.  It loses track of one in four ways only:
\* renewSession drops an expired entry, POST /session/clear drops the entry and
\* its unregistration fails, the server restarts, or the peer is registered anew
\* between a pass's unregistration and its deletion of the entry, which takes the
\* new one.  A pass whose unregistration failed never deletes the entry.
TrackedPeerRemoved ==
    \A k \in Keys :
       Expired(k) /\ lease[k] # None ~> (lease[k] = None \/ Live(k) \/ k \in adrift)

------------------------------------------------------------------------------
(* The inductive invariant behind AdmittedIsPaid, GrantCovered and RefusalHasCause *)

\* The amount of a request past the gate is the duration its body asks for; the
\* default for a connect without one.
Quoted(x) ==
    /\ x.key \in Keys /\ x.route \in {"connect", "renew"} /\ x.amount \in Minutes
    /\ x.body # None => x.amount = x.body
    /\ x.route = "connect" /\ x.body = None => x.amount = DefaultMinutes

RequestOK(x, paid) ==
    /\ x.at \in {"probe", "receipt", "handler", "register", "registered"} => Quoted(x)
    /\ x.at = "receipt" =>
          /\ x.proof \in Seq(Hashes) /\ x.i \in 1..Len(x.proof)
          /\ \A j \in 1..(x.i - 1) : j \in x.missed \/ Settles(x.proof[j]) < x.amount
    /\ x.at \in {"handler", "register", "registered"} =>
          x.hash \in paid /\ Settles(x.hash) >= x.amount
    /\ x.at = "registered" => x.ip \in Octets
    /\ x.at = "unregister" => x.key \in Keys

IInv ==
    /\ TypeOK
    /\ spent \subseteq credited
    /\ \A r \in Reqs : RequestOK(req[r], credited)
==============================================================================
