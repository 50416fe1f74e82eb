---------------------------- MODULE TunnelPayment ----------------------------
(***************************************************************************)
(* boringtun's in-tunnel payment (feature `payment`): the bandwidth quota  *)
(* of one peer (payment/quota.rs), the packet handlers that charge it, the *)
(* PaymentRequired / PaymentSubmit exchange over the tunnel and the        *)
(* settlement of an authorization at the gateway (device/mod.rs).          *)
(*                                                                         *)
(* The handlers hold the peer's mutex from the quota check to the answer,  *)
(* settlement included, so each is one action.  PaymentAccepted is only    *)
(* logged by its receiver and is left out.                                 *)
(***************************************************************************)
EXTENDS Integers, FiniteSets

CONSTANTS
    InitialQuota,   \* DEFAULT_QUOTA_BYTES
    QuotaBytes,     \* bytes bought by one payment
    Price,          \* amount_per_quota
    Sizes,          \* packet lengths
    Values,         \* amounts a PaymentSubmit may carry
    Nonces,         \* nonces of authorizations (bound on the payments)
    Versions,       \* IP versions of the forwarded packets
    Faults          \* "loss", "foreign", "reject", "error", "recreate"

ASSUME PaymentConstants ==
    /\ InitialQuota \in Nat /\ QuotaBytes \in Nat /\ Price \in Nat
    /\ Sizes \subseteq Nat \ {0} /\ Values \subseteq Nat
    /\ Versions \subseteq {"v4", "v6"}
    /\ Faults \subseteq {"loss", "foreign", "reject", "error", "recreate"}

VARIABLES
    remaining, blocked, total_consumed, payment_count, used_nonces,   \* BandwidthQuota
    net,        \* payment messages in the tunnel
    issued,     \* nonces the server has drawn
    settled,    \* authorizations the gateway has executed
    credited,   \* history: authorizations that bought quota
    forwarded,  \* history: bytes forwarded since the peer was added
    calm        \* chosen at the start: this behaviour has no fault and no "v6"

quota == <<remaining, blocked, total_consumed, payment_count, used_nonces>>
history == <<credited, forwarded>>
vars == <<quota, net, issued, settled, history, calm>>

Required(n) == [type |-> "required", nonce |-> n, value |-> Price, valid |-> TRUE]
Submit(n, v, ok) == [type |-> "submit", nonce |-> n, value |-> v, valid |-> ok]

Message == [type : {"required", "submit"}, nonce : Nonces, value : Nat, valid : BOOLEAN]

Init ==
    /\ remaining = InitialQuota /\ blocked = FALSE /\ total_consumed = 0
    /\ payment_count = 0 /\ used_nonces = {}
    /\ net = {} /\ issued = {} /\ settled = {} /\ credited = {}
    /\ forwarded = 0 /\ calm \in BOOLEAN

\* The environment shows the fault f.
Happens(f) == ~calm /\ f \in Faults

------------------------------------------------------------------------------
(* BandwidthQuota *)

\* consume answers true.
ConsumeAllowed(size) ==
    /\ remaining # 0 /\ size <= remaining
    /\ remaining' = remaining - size
    /\ total_consumed' = total_consumed + size
    /\ UNCHANGED blocked

ConsumeRefusedChargesPacket(size) ==
    \/ remaining = 0 /\ UNCHANGED <<remaining, total_consumed, blocked>>
    \/ /\ remaining # 0 /\ size > remaining
       /\ remaining' = 0
       /\ total_consumed' = total_consumed + size
       /\ blocked' = TRUE

\* consume answers false: nothing was left, or the packet does not fit and what
\* was left is forfeited.  Only the second sets blocked.
ConsumeRefused(size) ==
    \/ remaining = 0 /\ UNCHANGED <<remaining, total_consumed, blocked>>
    \/ /\ remaining # 0 /\ size > remaining
       /\ remaining' = 0
       /\ total_consumed' = total_consumed + remaining
       /\ blocked' = TRUE

CreditStillBlocked(n) ==
    /\ remaining' = remaining + QuotaBytes
    /\ payment_count' = payment_count + 1
    /\ UNCHANGED blocked
    /\ credited' = credited \cup {n}

Credit(n) ==
    /\ remaining' = remaining + QuotaBytes
    /\ payment_count' = payment_count + 1
    /\ blocked' = FALSE
    /\ credited' = credited \cup {n}

------------------------------------------------------------------------------
(* The server's packet handlers *)

Forward(size) ==
    /\ ~blocked
    /\ ConsumeAllowed(size)
    /\ forwarded' = forwarded + size
    /\ UNCHANGED <<payment_count, used_nonces, net, issued, settled, credited>>

\* send_payment_required with a fresh random nonce.
SendPaymentRequired ==
    \E n \in Nonces \ issued :
        /\ issued' = issued \cup {n}
        /\ net' = net \cup {Required(n)}

\* A packet that is not forwarded.  "v6" is a packet refused without asking for
\* payment: inbound IPv6, or outbound to a peer without a known endpoint.
Refuse(size, version) ==
    /\ ~blocked
    /\ ConsumeRefused(size)
    /\ \/ version = "v4" /\ SendPaymentRequired
       \/ version = "v6" /\ ~calm /\ UNCHANGED <<net, issued>>
    /\ UNCHANGED <<payment_count, used_nonces, settled, credited, forwarded>>

\* check_and_record_nonce
FreshNonce(m) == m.nonce \notin used_nonces

\* A PaymentSubmit that is dropped before its nonce is looked at (wrong recipient
\* or too low an amount, the latter standing for both), as a replay, or
\* after the nonce was recorded because the signature does not verify.
SubmitDropped(m) ==
    /\ m \in net /\ m.type = "submit"
    /\ \/ m.value < Price /\ UNCHANGED used_nonces
       \/ m.value >= Price /\ ~FreshNonce(m) /\ UNCHANGED used_nonces
       \/ /\ m.value >= Price /\ FreshNonce(m) /\ ~m.valid
          /\ used_nonces' = used_nonces \cup {m.nonce}
    /\ net' = net \ {m}
    /\ UNCHANGED <<remaining, blocked, total_consumed, payment_count, issued, settled, history>>

\* The gateway executes an authorization once.  A server that has a wallet also
\* has a settlement client, so the credit without settlement is not reachable.
SubmitSettled(m) ==
    /\ m \in net /\ m.type = "submit"
    /\ m.value >= Price /\ FreshNonce(m) /\ m.valid
    /\ m.nonce \notin settled
    /\ used_nonces' = used_nonces \cup {m.nonce}
    /\ settled' = settled \cup {m.nonce}
    /\ Credit(m.nonce)
    /\ net' = net \ {m}
    /\ UNCHANGED <<total_consumed, issued, forwarded>>

SubmitUnsettledCredits(m) ==
    /\ m \in net /\ m.type = "submit"
    /\ m.value >= Price /\ FreshNonce(m) /\ m.valid
    /\ \/ Happens("reject") \/ m.nonce \in settled
       \/ Happens("error")
    /\ used_nonces' = used_nonces \cup {m.nonce}
    /\ Credit(m.nonce)
    /\ net' = net \ {m}
    /\ UNCHANGED <<total_consumed, issued, settled, forwarded>>

\* The gateway rejects, or the call fails before or after it executed the
\* authorization: no quota, and the nonce stays recorded.
SubmitUnsettled(m) ==
    /\ m \in net /\ m.type = "submit"
    /\ m.value >= Price /\ FreshNonce(m) /\ m.valid
    /\ \/ (Happens("reject") \/ m.nonce \in settled) /\ UNCHANGED settled
       \/ Happens("error") /\ UNCHANGED settled
       \/ Happens("error") /\ m.nonce \notin settled /\ settled' = settled \cup {m.nonce}
    /\ used_nonces' = used_nonces \cup {m.nonce}
    /\ net' = net \ {m}
    /\ UNCHANGED <<remaining, blocked, total_consumed, payment_count, issued, history>>

------------------------------------------------------------------------------
(* The client and the network *)

\* handle_payment_signal_client signs what it is asked for.
ClientPays(m) ==
    /\ m \in net /\ m.type = "required"
    /\ net' = (net \ {m}) \cup {Submit(m.nonce, m.value, TRUE)}
    /\ UNCHANGED <<quota, issued, settled, history>>

\* A submit of another client program: any amount, nonce and signature.
ForeignSubmit(n, v, ok) ==
    /\ Happens("foreign")
    /\ Submit(n, v, ok) \notin net
    /\ net' = net \cup {Submit(n, v, ok)}
    /\ UNCHANGED <<quota, issued, settled, history>>

Lose(m) ==
    /\ Happens("loss") /\ m \in net
    /\ net' = net \ {m}
    /\ UNCHANGED <<quota, issued, settled, history>>

\* The peer is removed and added again: update_peer gives it a new quota, and
\* messages under the old session keys are lost.
Recreate ==
    /\ Happens("recreate")
    /\ remaining' = InitialQuota /\ blocked' = FALSE /\ total_consumed' = 0
    /\ payment_count' = 0 /\ used_nonces' = {}
    /\ net' = {} /\ forwarded' = 0
    /\ UNCHANGED <<issued, settled, credited>>

Receive(m) == SubmitDropped(m) \/ SubmitSettled(m) \/ SubmitUnsettled(m)

Step ==
    \/ \E size \in Sizes : Forward(size) \/ \E v \in Versions : Refuse(size, v)
    \/ \E m \in net : Receive(m) \/ ClientPays(m) \/ Lose(m)
    \/ \E n \in Nonces, v \in Values, ok \in BOOLEAN : ForeignSubmit(n, v, ok)
    \/ Recreate

Next == Step /\ UNCHANGED calm

Spec == Init /\ [][Next]_vars

\* Messages that are not lost arrive, and client and server handle them.
Deliver == \E m \in net : Receive(m) \/ ClientPays(m)

Fairness == WF_vars(Deliver /\ UNCHANGED calm)

FairSpec == Spec /\ Fairness
------------------------------------------------------------------------------
(* Properties *)

\* Type invariant; a quota in particular never wraps below zero.
TypeOK ==
    /\ remaining \in Nat /\ total_consumed \in Nat /\ payment_count \in Nat
    /\ blocked \in BOOLEAN /\ forwarded \in Nat /\ calm \in BOOLEAN
    /\ used_nonces \subseteq Nonces /\ issued \subseteq Nonces
    /\ settled \subseteq Nonces /\ credited \subseteq Nonces
    /\ net \subseteq Message

\* Every byte of quota is accounted for: what is left plus what was consumed is
\* the free quota plus one quota per payment, and no more was forwarded than was
\* consumed, in whatever order packets, credits and refusals come.
Conservation ==
    /\ remaining + total_consumed = InitialQuota + payment_count * QuotaBytes
    /\ forwarded <= total_consumed

\* A peer is blocked only with nothing left, so no paid byte is withheld: a
\* credit that lands between two refusals always unblocks it.
BlockedIsEmpty == blocked => remaining = 0

\* Quota is credited only for an authorization the gateway has executed, and each
\* buys quota once, even when the peer is added anew and its nonces forgotten.
CreditIsSettled ==
    [][payment_count' > payment_count =>
          \E n \in Nonces : /\ n \notin credited /\ n \in settled'
                            /\ credited' = credited \cup {n}]_vars

\* What a step preserves: a credit, which is remembered even when the peer's nonces
\* are forgotten, stays among the authorizations the gateway has executed.
IInv ==
    /\ TypeOK /\ Conservation /\ BlockedIsEmpty
    /\ credited \subseteq settled

\* A client that pays is let through again: while no message is lost and the
\* gateway works, a blocked IPv4 peer does not stay blocked (as long as the
\* server has nonces to ask with).
BlockedIsReleased == (calm /\ blocked) ~> ~blocked
==============================================================================
