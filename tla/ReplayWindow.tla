----------------------------- MODULE ReplayWindow -----------------------------
(***************************************************************************)
(* One direction of a WireGuard session (noise/session.rs): the sender's   *)
(* packet counter and the receiver's ReceivingKeyCounterValidator, a       *)
(* bitmap of NWords words used as a ring over the packet counters.         *)
(*                                                                         *)
(* Tunn::decapsulate takes the tunnel by mutable reference, so the quick   *)
(* check, the decryption and the marking of one packet are one step.  The  *)
(* network may lose, delay, reorder and duplicate packets, and anybody may *)
(* send a packet whose tag does not verify.                                *)
(***************************************************************************)
EXTENDS Integers, FiniteSets

CONSTANTS
    WordSize,     \* WORD_SIZE, 64 in the code
    NWords,       \* N_WORDS, 16 in the code
    MaxCounter    \* bound on the packets of a session

\* The code adds N_BITS to a counter in 64 bits: a session ends by its age long
\* before its counter is near 2^64, so the sums do not wrap.
ASSUME WindowConstants ==
    /\ WordSize \in Nat \ {0} /\ NWords \in Nat \ {0}
    /\ MaxCounter \in Nat

NBits == WordSize * NWords
Words == 0 .. NWords - 1
Bits == 0 .. WordSize - 1
Counters == 0 .. MaxCounter

VARIABLES
    sending_key_counter,           \* sender: the next counter
    next, receive_cnt, bitmap,     \* receiver: ReceivingKeyCounterValidator
    accepted                       \* history: counters whose packet was accepted

validator == <<next, receive_cnt, bitmap>>
window_vars == <<sending_key_counter, validator, accepted>>

WindowInit ==
    /\ sending_key_counter = 0
    /\ next = 0 /\ receive_cnt = 0
    /\ bitmap = [w \in Words |-> {}]
    /\ accepted = {}

------------------------------------------------------------------------------
(* The bitmap.  A word is the set of its bits that are 1. *)

Word(idx) == (idx % NBits) \div WordSize

Bit(idx) == (idx % NBits) % WordSize

SetBit(bm, idx) == [bm EXCEPT ![Word(idx)] = @ \cup {Bit(idx)}]

CheckBit(bm, idx) == Bit(idx) \in bm[Word(idx)]

\* clear_bit for every counter of a set.
ClearBits(bm, idxs) ==
    [w \in Words |-> bm[w] \ {Bit(i) : i \in {j \in idxs : Word(j) = w}}]

\* clear_word for every counter of a set.
ClearWords(bm, idxs) == [w \in Words |-> IF \E i \in idxs : Word(i) = w THEN {} ELSE bm[w]]

AlignedOrEnd(i, counter) ==
    LET aligned == ((i + WordSize - 1) \div WordSize) * WordSize
    IN IF aligned < counter THEN aligned ELSE counter

\* How often the middle loop runs from i: while i + WORD_SIZE < counter.
WholeWords(i, counter) == IF i < counter THEN (counter - i - 1) \div WordSize ELSE 0

\* The counters at which n rounds of it clear a word, from an aligned i.
WordStarts(i, n) == {i + k * WordSize : k \in 0 .. n - 1}

ClearSkippedWholeWords(bm, from, counter) ==
    LET i1 == AlignedOrEnd(from, counter)
    IN ClearWords(ClearBits(bm, from .. i1 - 1), WordStarts(i1, WholeWords(i1, counter) + 1))

ClearSkippedButLast(bm, from, counter) ==
    LET i1 == AlignedOrEnd(from, counter)
        n == WholeWords(i1, counter)
    IN ClearBits(ClearWords(ClearBits(bm, from .. i1 - 1), WordStarts(i1, n)),
                 i1 + n * WordSize .. counter - 2)

\* The counters that were skipped become unseen: bits up to a word boundary, then
\* whole words, then the bits that remain.
ClearSkipped(bm, from, counter) ==
    LET i1 == AlignedOrEnd(from, counter)
        n == WholeWords(i1, counter)
    IN ClearBits(ClearWords(ClearBits(bm, from .. i1 - 1), WordStarts(i1, n)),
                 i1 + n * WordSize .. counter - 1)

------------------------------------------------------------------------------
(* ReceivingKeyCounterValidator *)

TooFarBack(counter) == counter + NBits < next

WillAccept(counter) ==
    \/ counter >= next
    \/ ~TooFarBack(counter) /\ ~CheckBit(bitmap, counter)

\* mark_did_receive answers Ok.
MarkIsOk(counter) ==
    /\ ~TooFarBack(counter)
    /\ counter < next => ~CheckBit(bitmap, counter)

\* receiving_counter_mark: mark_did_receive and the count for the loss estimate.
Mark(counter) ==
    /\ MarkIsOk(counter)
    /\ \/ /\ counter = next
          /\ bitmap' = SetBit(bitmap, counter)
          /\ next' = next + 1
       \/ /\ counter < next
          /\ bitmap' = SetBit(bitmap, counter)
          /\ next' = next
       \/ /\ counter > next
          /\ bitmap' = SetBit(IF counter - next >= NBits THEN [w \in Words |-> {}]
                              ELSE ClearSkipped(bitmap, next, counter), counter)
          /\ next' = counter + 1
    /\ receive_cnt' = receive_cnt + 1

------------------------------------------------------------------------------
(* Session *)

\* format_packet_data
FormatPacketData ==
    /\ sending_key_counter <= MaxCounter
    /\ sending_key_counter' = sending_key_counter + 1
    /\ UNCHANGED <<validator, accepted>>

\* receive_packet_data for a packet of the peer, for the first time or again.
ReceivePacketData(counter) ==
    /\ counter < sending_key_counter
    /\ WillAccept(counter)
    /\ Mark(counter)
    /\ accepted' = accepted \cup {counter}
    /\ UNCHANGED sending_key_counter

\* A packet under a counter of its choice whose tag does not verify is dropped
\* between the check and the mark.
ReceiveForged(counter) ==
    /\ WillAccept(counter)
    /\ UNCHANGED window_vars

WindowNext ==
    \/ FormatPacketData
    \/ \E counter \in Counters : ReceivePacketData(counter) \/ ReceiveForged(counter)

WindowSpec == WindowInit /\ [][WindowNext]_window_vars
------------------------------------------------------------------------------
(* Properties *)

\* Type invariant.
WindowTypeOK ==
    /\ sending_key_counter \in Nat /\ next \in Nat /\ receive_cnt \in Nat
    /\ bitmap \in [Words -> SUBSET Bits]
    /\ accepted \subseteq Counters

\* The bitmap decides like the set of all counters received so far: a packet is
\* let through, by the quick check and by the mark alike, exactly if its counter
\* is new and not more than N_BITS behind, however far the counters jumped and
\* however often the ring wrapped.
WindowExact ==
    /\ WindowTypeOK
    /\ \A counter \in Counters :
        LET good == counter >= next \/ (counter + NBits >= next /\ counter \notin accepted)
        IN (WillAccept(counter) <=> good) /\ (MarkIsOk(counter) <=> good)

\* No packet of the peer is delivered twice: every acceptance was of a counter
\* that had not been accepted before.
NoReplay == receive_cnt = Cardinality(accepted)
==============================================================================
