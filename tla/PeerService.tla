----------------------------- MODULE PeerService -----------------------------
(***************************************************************************)
(* What boringtun's registration API promises its one client, the x402     *)
(* resource server: a key holds at most one tunnel address, an address is  *)
(* held by at most one key, /v1/register is idempotent and /v1/unregister  *)
(* answers 404 for a key that holds none.  VpnServer is written against    *)
(* this contract; Registration, the detailed model of http_api.rs, is      *)
(* shown to implement it.                                                  *)
(***************************************************************************)
EXTENDS Naturals

CONSTANTS Keys,     \* WireGuard public keys
          Octets,   \* last octets of the address pool 10.0.0.2 .. 10.0.0.254
          None      \* "no address"

VARIABLE lease      \* lease[k]: the octet key k holds, or None

InUse == {lease[k] : k \in Keys} \ {None}

PeerTypeOK == lease \in [Keys -> Octets \cup {None}]

PeerInit == lease = [k \in Keys |-> None]

\* An already registered key keeps its octet; a new one gets any free octet.
Register(k) ==
    \/ lease[k] # None /\ UNCHANGED lease
    \/ /\ lease[k] = None
       /\ \E o \in Octets \ InUse : lease' = [lease EXCEPT ![k] = o]

\* A successful unregistration, or the removal of an idle peer by the reaper.
Release(k) ==
    /\ lease[k] # None
    /\ lease' = [lease EXCEPT ![k] = None]

PeerNext == \E k \in Keys : Register(k) \/ Release(k)

PeerSpec == PeerInit /\ [][PeerNext]_lease

\* No two keys ever hold the same tunnel address (http_api.rs hands an octet
\* out only while it is in available_ips).
ExclusiveLease ==
    \A k1, k2 \in Keys : lease[k1] = lease[k2] /\ lease[k1] # None => k1 = k2
==============================================================================
