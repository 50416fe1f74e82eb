------------------------- MODULE TunnelPaymentProofs -------------------------
(***************************************************************************)
(* Proofs about TunnelPayment, for every quota, price, set of packet sizes *)
(* and set of nonces.                                                      *)
(***************************************************************************)
EXTENDS TunnelPayment, TLAPS

\* One more payment is one more quota.
LEMMA OneMoreQuota ==
    ASSUME NEW k \in Nat, NEW q \in Nat
    PROVE  (k + 1) * q = k * q + q
BY SMT

\* BandwidthQuota::credit keeps the quota's accounts balanced and leaves the peer
\* unblocked.
LEMMA CreditKeeps ==
    ASSUME TypeOK, Conservation, NEW n \in Nonces, Credit(n),
           UNCHANGED <<total_consumed, forwarded>>
    PROVE  /\ remaining' \in Nat /\ payment_count' \in Nat
           /\ blocked' = FALSE
           /\ Conservation'
<1>1. remaining \in Nat /\ payment_count \in Nat /\ total_consumed \in Nat
      /\ QuotaBytes \in Nat /\ InitialQuota \in Nat
  BY PaymentConstants DEF TypeOK
<1>2. remaining' = remaining + QuotaBytes /\ payment_count' = payment_count + 1
      /\ blocked' = FALSE
  BY DEF Credit
<1>3. (payment_count + 1) * QuotaBytes = payment_count * QuotaBytes + QuotaBytes
  BY <1>1, OneMoreQuota
<1>4. payment_count * QuotaBytes \in Nat
  BY <1>1, SMT
<1>5. Conservation'
  <2>. DEFINE paid == payment_count * QuotaBytes
  <2>1. remaining + total_consumed = InitialQuota + paid
        /\ paid \in Nat /\ payment_count' * QuotaBytes = paid + QuotaBytes
    BY <1>2, <1>3, <1>4 DEF Conservation
  <2>2. forwarded' <= total_consumed'
    BY DEF Conservation
  <2>. HIDE DEF paid
  <2>3. remaining' + total_consumed' = InitialQuota + (paid + QuotaBytes)
    BY <2>1, <1>1, <1>2
  <2>. QED  BY <2>1, <2>2, <2>3 DEF Conservation
<1>. QED  BY <1>1, <1>2, <1>5

\* BandwidthQuota::consume, allowed or refused, moves bytes from what is left to
\* what was consumed and nothing else.
LEMMA ConsumeKeeps ==
    ASSUME IInv, NEW size \in Sizes, ~blocked,
           ConsumeAllowed(size) \/ ConsumeRefused(size)
    PROVE  /\ remaining' \in Nat /\ total_consumed' \in Nat /\ blocked' \in BOOLEAN
           /\ remaining' + total_consumed' = remaining + total_consumed
           /\ total_consumed <= total_consumed'
           /\ blocked' => remaining' = 0
<1>1. remaining \in Nat /\ total_consumed \in Nat /\ size \in Nat /\ blocked = FALSE
        /\ blocked \in BOOLEAN
  <2>1. blocked \in BOOLEAN /\ remaining \in Nat /\ total_consumed \in Nat
    BY DEF IInv, TypeOK
  <2>2. blocked = FALSE
    BY <2>1, Zenon
  <2>. QED  BY <2>1, <2>2, PaymentConstants
<1>2. CASE ConsumeAllowed(size)
  <2>1. remaining' = remaining - size /\ total_consumed' = total_consumed + size
        /\ size <= remaining
    BY <1>2 DEF ConsumeAllowed
  <2>2. blocked' \in BOOLEAN /\ ~blocked'
    BY <1>1, <1>2, Zenon DEF ConsumeAllowed
  <2>. QED  BY <1>1, <2>1, <2>2
<1>3. CASE remaining = 0 /\ UNCHANGED <<remaining, total_consumed, blocked>>
  <2>1. remaining' = remaining /\ total_consumed' = total_consumed
    BY <1>3
  <2>2. blocked' \in BOOLEAN
    BY <1>1, <1>3, Zenon
  <2>. QED  BY <1>1, <1>3, <2>1, <2>2
<1>4. CASE /\ remaining # 0 /\ size > remaining /\ remaining' = 0
           /\ total_consumed' = total_consumed + remaining /\ blocked' = TRUE
  BY <1>1, <1>4
<1>. QED  BY <1>2, <1>3, <1>4 DEF ConsumeRefused

LEMMA InitOK == Init => IInv
<1> SUFFICES ASSUME Init PROVE IInv
  OBVIOUS
<1>1. InitialQuota \in Nat /\ QuotaBytes \in Nat
  BY PaymentConstants
<1>2. TypeOK
  BY <1>1 DEF Init, TypeOK
<1>3. Conservation
  <2>1. 0 * QuotaBytes = 0
    BY <1>1
  <2>. QED  BY <1>1, <2>1 DEF Init, Conservation
<1>4. BlockedIsEmpty /\ credited \subseteq settled
  BY DEF Init, BlockedIsEmpty
<1>. QED  BY <1>2, <1>3, <1>4 DEF IInv

\* Every step of the server, the client and the network preserves IInv.
LEMMA Inductive == IInv /\ [Next]_vars => IInv'
<1> SUFFICES ASSUME IInv, [Next]_vars PROVE IInv'
  OBVIOUS
<1>0. calm' = calm /\ calm \in BOOLEAN
  BY Zenon DEF Next, vars, IInv, TypeOK
<1>. USE <1>0 DEF history, quota
<1>1. ASSUME NEW size \in Sizes, Forward(size) PROVE IInv'
  <2>1. ConsumeAllowed(size) /\ ~blocked
    BY <1>1 DEF Forward
  <2>2. forwarded' <= total_consumed' /\ forwarded' \in Nat
    BY <1>1, PaymentConstants DEF Forward, ConsumeAllowed, IInv, TypeOK, Conservation
  <2>3. UNCHANGED <<payment_count, used_nonces, net, issued, settled, credited>>
    BY <1>1 DEF Forward
  <2>. QED
    BY <2>1, <2>2, <2>3, ConsumeKeeps DEF IInv, TypeOK, Conservation, BlockedIsEmpty
<1>2. ASSUME NEW size \in Sizes, NEW v \in Versions, Refuse(size, v) PROVE IInv'
  <2>1. ConsumeRefused(size) /\ ~blocked
        /\ UNCHANGED <<payment_count, used_nonces, settled, credited, forwarded>>
    BY <1>2 DEF Refuse
  <2>2. issued' \subseteq Nonces /\ net' \subseteq Message
    <3>1. CASE UNCHANGED <<net, issued>>
      BY <3>1 DEF IInv, TypeOK
    <3>2. CASE SendPaymentRequired
      <4>1. PICK n \in Nonces : /\ issued' = issued \cup {n}
                                /\ net' = net \cup {Required(n)}
        BY <3>2 DEF SendPaymentRequired
      <4>2. Required(n) \in Message
        BY PaymentConstants DEF Required, Message
      <4>. QED  BY <4>1, <4>2 DEF IInv, TypeOK
    <3>. QED  BY <1>2, <3>1, <3>2 DEF Refuse
  <2>3. total_consumed <= total_consumed' /\ total_consumed' \in Nat
        /\ total_consumed \in Nat /\ forwarded \in Nat /\ forwarded <= total_consumed
    BY <2>1, ConsumeKeeps DEF IInv, TypeOK, Conservation
  <2>4. forwarded' <= total_consumed'
    BY <2>1, <2>3
  <2>. QED
    BY <2>1, <2>2, <2>4, ConsumeKeeps DEF IInv, TypeOK, Conservation, BlockedIsEmpty
<1>3. ASSUME NEW m \in net, Receive(m) PROVE IInv'
  <2>0. m.nonce \in Nonces
    BY DEF IInv, TypeOK, Message
  <2>1. CASE SubmitDropped(m)
    BY <2>0, <2>1 DEF SubmitDropped, IInv, TypeOK, Conservation, BlockedIsEmpty
  <2>2. CASE SubmitUnsettled(m)
    BY <2>0, <2>2 DEF SubmitUnsettled, IInv, TypeOK, Conservation, BlockedIsEmpty
  <2>3. CASE SubmitSettled(m)
    <3>1. Credit(m.nonce) /\ UNCHANGED <<total_consumed, issued, forwarded>>
          /\ used_nonces' = used_nonces \cup {m.nonce}
          /\ settled' = settled \cup {m.nonce} /\ net' = net \ {m}
      BY <2>3 DEF SubmitSettled
    <3>2. credited' = credited \cup {m.nonce}
      BY <3>1 DEF Credit
    <3>3. remaining' \in Nat /\ payment_count' \in Nat /\ blocked' = FALSE /\ Conservation'
      BY <2>0, <3>1, CreditKeeps DEF IInv
    <3>4. TypeOK'
      BY <2>0, <3>1, <3>2, <3>3 DEF IInv, TypeOK
    <3>5. credited' \subseteq settled' /\ BlockedIsEmpty'
      BY <3>1, <3>2, <3>3 DEF IInv, BlockedIsEmpty
    <3>. QED  BY <3>3, <3>4, <3>5 DEF IInv
  <2>. QED  BY <1>3, <2>1, <2>2, <2>3 DEF Receive
<1>4. ASSUME NEW m \in net, ClientPays(m) PROVE IInv'
  <2>1. Submit(m.nonce, m.value, TRUE) \in Message
    BY DEF Submit, Message, IInv, TypeOK
  <2>. QED
    BY <1>4, <2>1 DEF ClientPays, IInv, TypeOK, Conservation, BlockedIsEmpty
<1>5. ASSUME NEW m \in net, Lose(m) PROVE IInv'
  BY <1>5 DEF Lose, IInv, TypeOK, Conservation, BlockedIsEmpty
<1>6. ASSUME NEW n \in Nonces, NEW v \in Values, NEW ok \in BOOLEAN,
             ForeignSubmit(n, v, ok)
      PROVE IInv'
  <2>1. Submit(n, v, ok) \in Message
    BY PaymentConstants DEF Submit, Message
  <2>. QED
    <3>1. net' = net \cup {Submit(n, v, ok)} /\ UNCHANGED <<quota, issued, settled, history>>
      BY <1>6 DEF ForeignSubmit
    <3>2. TypeOK'
      BY <2>1, <3>1 DEF IInv, TypeOK
    <3>3. Conservation' /\ BlockedIsEmpty' /\ credited' \subseteq settled'
      BY <3>1 DEF IInv, Conservation, BlockedIsEmpty
    <3>. QED  BY <3>2, <3>3 DEF IInv
<1>7. CASE Recreate
  <2>1. InitialQuota \in Nat /\ 0 * QuotaBytes = 0
    BY PaymentConstants
  <2>2. TypeOK'
    BY <1>7, <2>1 DEF Recreate, IInv, TypeOK
  <2>3. Conservation'
    BY <1>7, <2>1 DEF Recreate, Conservation
  <2>4. BlockedIsEmpty' /\ credited' \subseteq settled'
    BY <1>7 DEF Recreate, IInv, BlockedIsEmpty
  <2>. QED  BY <2>2, <2>3, <2>4 DEF IInv
<1>8. CASE UNCHANGED vars
  BY <1>8 DEF vars, IInv, TypeOK, Conservation, BlockedIsEmpty
<1>. QED
  BY <1>1, <1>2, <1>3, <1>4, <1>5, <1>6, <1>7, <1>8 DEF Next, Step

\* The quota arithmetic stays within the naturals: a u64 counter of
\* BandwidthQuota is never taken below zero.
THEOREM TypeCorrect == Spec => []TypeOK
<1>1. IInv => TypeOK
  BY DEF IInv
<1>. QED  BY InitOK, Inductive, <1>1, PTL DEF Spec

\* No byte of quota is lost or made, whatever packets, payments, failures and
\* re-additions of the peer occur, and no more is forwarded than was charged.
THEOREM QuotaIsConserved == Spec => []Conservation
<1>1. IInv => Conservation
  BY DEF IInv
<1>. QED  BY InitOK, Inductive, <1>1, PTL DEF Spec

\* A peer with quota left is never blocked.
THEOREM OnlyEmptyIsBlocked == Spec => []BlockedIsEmpty
<1>1. IInv => BlockedIsEmpty
  BY DEF IInv
<1>. QED  BY InitOK, Inductive, <1>1, PTL DEF Spec

\* handle_payment_submit credits quota only for an authorization the gateway
\* executes in that call, and an authorization buys quota once, also across a
\* removal of the peer that forgets its used nonces.
THEOREM OnlySettledCredits == Spec => CreditIsSettled
<1>. DEFINE Bought == payment_count' > payment_count =>
                         \E n \in Nonces : /\ n \notin credited /\ n \in settled'
                                           /\ credited' = credited \cup {n}
<1>1. IInv /\ [Next]_vars => [Bought]_vars
  <2> SUFFICES ASSUME IInv, [Next]_vars, payment_count' > payment_count
               PROVE  \E n \in Nonces : /\ n \notin credited /\ n \in settled'
                                        /\ credited' = credited \cup {n}
    OBVIOUS
  <2>1. payment_count \in Nat
    BY DEF IInv, TypeOK
  <2>2. payment_count' # payment_count /\ payment_count' # 0
    BY <2>1
  <2>3. PICK m \in net : SubmitSettled(m)
    BY <2>2 DEF Next, Step, vars, quota, Forward, Refuse, Receive, SubmitDropped, SubmitUnsettled,
                ClientPays, ForeignSubmit, Lose, Recreate
  <2>4. m.nonce \in Nonces /\ m.nonce \notin credited /\ m.nonce \in settled'
        /\ credited' = credited \cup {m.nonce}
    BY <2>3 DEF SubmitSettled, Credit, IInv, TypeOK, Message
  <2>. QED  BY <2>4
<1>. QED  BY InitOK, Inductive, <1>1, PTL DEF Spec, CreditIsSettled
==============================================================================
