----------------------------- MODULE MCVpnServer -----------------------------
(* Small instances of VpnServer for TLC. *)
EXTENDS VpnServer

CONSTANTS
    h1, h2, H1       \* H1 is h1 with its hexadecimal digits in the other case

\* Two transactions, one of which can be written in two ways.
TxOf == [h \in Hashes |-> IF h = H1 THEN h1 ELSE h]

\* One transaction pays for a minute, the other for two.
PaidOneTwo == [t \in Txs |-> IF t = h1 THEN 1 ELSE 2]
==============================================================================
