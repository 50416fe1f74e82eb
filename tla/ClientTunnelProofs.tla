------------------------- MODULE ClientTunnelProofs -------------------------
(***************************************************************************)
(* ClientTunnel on every platform and for any number of faults: what a     *)
(* failed or ended connection leaves on the host, and what holds while the *)
(* window shows a connection.                                              *)
(***************************************************************************)
EXTENDS ClientTunnel, SequenceTheorems, TLAPS

\* Counting a fault; those of an undo step, crashes and lapses disturb for good.
LEMMA FaultCounted ==
    ASSUME faults \in [FaultKinds -> 0..MaxFaults], NEW f \in FaultKinds, Fault(f)
    PROVE  /\ faults' \in [FaultKinds -> 0..MaxFaults]
           /\ Undisturbed' => Undisturbed
           /\ f \in {"teardown", "crash", "lapse"} => ~Undisturbed'
<1>1. /\ faults.setup \in Nat /\ faults.teardown \in Nat /\ faults.death \in Nat
      /\ faults.crash \in Nat /\ faults.lapse \in Nat /\ faults.hang \in Nat
  BY ClientConstants DEF FaultKinds
<1>2. faults[f] + 1 \in 0..MaxFaults
  BY <1>1, ClientConstants DEF Fault, FaultKinds
<1>3. faults' \in [FaultKinds -> 0..MaxFaults] /\ faults'[f] = faults[f] + 1
  BY <1>2 DEF Fault
<1>4. \A g \in FaultKinds : g # f => faults'[g] = faults[g]
  BY DEF Fault
<1> QED BY <1>1, <1>3, <1>4 DEF Undisturbed, FaultKinds

\* Cleanup::run takes steps off the end: the first one stays the first.
LEMMA CleanupShrinks ==
    ASSUME NEW c \in Seq({"kill", "interface", "routes"}), c # <<>>, NEW d,
           d = SubSeq(c, 1, Len(c) - 1)
    PROVE  /\ d \in Seq({"kill", "interface", "routes"}) /\ c[Len(c)] \in {"kill", "interface", "routes"}
           /\ d # <<>> => d[1] = c[1]
           /\ d = <<>> => c[Len(c)] = c[1]
           /\ Len(d) > 1 => Len(c) > 1 /\ d[2] = c[2]
           /\ Len(c) > 1 /\ ~(Len(d) > 1) => c[Len(c)] = c[2]
<1>1. Len(c) \in Nat \ {0} /\ \A i \in 1..Len(c) : c[i] \in {"kill", "interface", "routes"}
  OBVIOUS
<1>2. PICK n \in Nat : n = Len(c) - 1
  BY <1>1
<1>3. \A i \in 1..n : c[i] \in {"kill", "interface", "routes"}
  BY <1>1, <1>2
<1>4. /\ d \in Seq({"kill", "interface", "routes"}) /\ Len(d) = IF 1 <= n THEN n - 1 + 1 ELSE 0
      /\ \A i \in 1..(n - 1 + 1) : d[i] = c[1 + i - 1]
  BY <1>2, <1>3, SubSeqProperties
<1>5. Len(d) = n /\ (1 <= n => d[1] = c[1]) /\ (2 <= n => d[2] = c[2])
  BY <1>4
<1>6. d \in Seq({"kill", "interface", "routes"})
  BY <1>4
<1>7. d = <<>> => Len(d) = 0
  OBVIOUS
<1>8. d # <<>> => Len(d) # 0
  BY <1>6
<1>9. (d # <<>> => 1 <= n) /\ (d = <<>> => Len(c) = 1)
  BY <1>1, <1>2, <1>5, <1>7, <1>8
<1>10. Len(d) > 1 => Len(c) > 1 /\ d[2] = c[2]
  BY <1>1, <1>2, <1>5
<1>11. Len(c) > 1 /\ ~(Len(d) > 1) => Len(c) = 2
  BY <1>1, <1>2, <1>5
<1> QED BY <1>1, <1>5, <1>6, <1>9, <1>10, <1>11

\* The commands and the health check at rest are typed.
LEMMA IdleTyped ==
    /\ ConIdle \in ConnectCommand /\ ConIdle.at = "idle" /\ ConIdle.cleanup = <<>> /\ ~ConIdle.hung
    /\ DisIdle \in DisconnectCommand /\ DisIdle.at = "idle"
    /\ HealthOff \in [on : BOOLEAN, dead : 0..2]
<1>1. <<>> \in Seq(RouteNames) /\ <<>> \in Seq({"kill", "interface", "routes"})
  OBVIOUS
<1> QED BY <1>1 DEF ConIdle, ConnectCommand, DisIdle, DisconnectCommand, HealthOff

\* The invariant holds at first.
LEMMA InitInv == Init => IInv
<1> SUFFICES ASSUME Init PROVE IInv
  OBVIOUS
<1>1. HostTypeOK
  <2>1. 0 \in 0..MaxFaults
    BY ClientConstants
  <2>2. faults \in [FaultKinds -> 0..MaxFaults]
    BY <2>1 DEF Init
  <2>3. /\ proc \in BOOLEAN /\ iface \in BOOLEAN /\ record \in BOOLEAN
        /\ routes \subseteq RouteNames /\ dns \in {"user", "vpn"}
        /\ launch \in {None, "sudo", "prompt"} /\ stale \in BOOLEAN /\ held \subseteq RouteNames
    BY DEF Init
  <2>4. platform \in Platforms /\ split \in BOOLEAN /\ sudo \in BOOLEAN
    BY DEF Init
  <2> QED BY <2>2, <2>3, <2>4 DEF HostTypeOK
<1>2. AppTypeOK
  BY IdleTyped DEF Init, AppTypeOK
<1>3. Holders /\ CleanupListed /\ HostCoherent /\ Owned
  BY ClientConstants DEF Init, Holders, CleanupListed, HostCoherent, Owned, ConIdle, DisIdle,
     SetUp, TearDown, Persistent
<1> QED BY <1>1, <1>2, <1>3 DEF IInv, TypeOK

\* What a step that leaves the host and the manager alone has to show.
LEMMA Bystander ==
    ASSUME IInv, UNCHANGED <<platform, split, sudo, host, faults, ctx>>, AppTypeOK', Holders',
           con' = con \/ {con.at, con'.at} \cap (SetUp \cup {"rollback"}) = {},
           con'.cleanup \in {con.cleanup, <<>>},
           dis'.saved = dis.saved \/ dis'.at # "dns",
           dis'.at = dis.at \/ {dis.at, dis'.at} \subseteq {"idle", "queued", "done"}
    PROVE  IInv'
<1> USE DEF installation, host, tunnels
<1>1. TypeOK'
  BY DEF IInv, TypeOK, HostTypeOK
<1>2. con' # con => con'.at \notin SetUp /\ con.at \notin SetUp /\ con.at # "rollback"
                    /\ con'.at # "rollback" /\ con.at \notin {"routes", "dns"}
                    /\ con'.at \notin {"routes", "dns", "configure"}
  BY DEF SetUp
<1>3. CleanupListed' /\ HostCoherent'
  <2>1. ~(Len(<<>>) > 1)
    OBVIOUS
  <2> QED BY <1>2, <2>1 DEF IInv, CleanupListed, HostCoherent
<1>4. dis.at \in TearDown <=> dis'.at \in TearDown
  BY DEF TearDown
<1>5. dis.at \in TearDown => dis'.at = dis.at
  BY DEF TearDown
<1>6. Owned'
  BY <1>2, <1>4, <1>5 DEF IInv, Owned, Undisturbed, TearDown
<1> QED BY <1>1, <1>3, <1>6 DEF IInv

\* The user asks for a connection, pays for it, and connect_paid is invoked.
LEMMA ConnectAskedStep ==
    ASSUME IInv, DoConnect \/ DoRenew \/ DoReconnect \/ Paid
    PROVE  IInv'
<1> USE DEF installation, host, tunnels, checker, window
<1>1. con.at \in {"idle", "paying"}
  BY DEF IInv, Holders, DoConnect, DoRenew, DoReconnect, Paid
<1>2. /\ con'.at \in {"idle", "paying", "queued"} /\ con'.cleanup = <<>> /\ ~con'.hung
      /\ con' \in ConnectCommand
  <2>1. CASE DoConnect \/ DoRenew
    BY <2>1, IdleTyped DEF DoConnect, DoRenew, ConnectCommand
  <2>2. CASE DoReconnect
    BY <2>2, IdleTyped DEF DoReconnect, StartTunnel, ConnectCommand
  <2>3. CASE Paid
    BY <2>3, IdleTyped DEF Paid, StartTunnel, ConnectCommand
  <2> QED BY <2>1, <2>2, <2>3
<1>3. /\ UNCHANGED <<platform, split, sudo, host, faults, ctx, lock, dis, health, errorDue>>
      /\ status' \in {"disconnected", "connecting", "connected", "disconnecting", "error"}
      /\ session' \in {"none", "active", "ended"}
  BY DEF IInv, TypeOK, AppTypeOK, DoConnect, DoRenew, DoReconnect, Paid, StartTunnel
<1>4. busy' \in BOOLEAN /\ (busy' <=> con'.at # "idle")
  <2>1. CASE DoConnect \/ DoRenew
    BY <2>1, IdleTyped DEF DoConnect, DoRenew, ConnectCommand
  <2>2. CASE DoReconnect
    BY <2>2, IdleTyped DEF DoReconnect, StartTunnel, ConnectCommand
  <2>3. CASE Paid
    BY <2>3, IdleTyped DEF Paid, StartTunnel, ConnectCommand
  <2> QED BY <2>1, <2>2, <2>3
<1>5. AppTypeOK'
  BY <1>2, <1>3, <1>4 DEF IInv, TypeOK, AppTypeOK
<1>6. Holders'
  <2>1. ~con.hung
    BY <1>1 DEF IInv, Holders, SetUp
  <2> QED BY <1>1, <1>2, <1>3, <1>4, <2>1 DEF IInv, Holders, SetUp
<1> QED BY <1>1, <1>2, <1>3, <1>5, <1>6, Bystander DEF SetUp

\* The window's other actions, the answer of disconnect and the health check.
LEMMA WindowStep ==
    ASSUME IInv, \/ DoClearSession \/ DoDisconnect
                 \/ SessionExpires \/ SessionPolled \/ AutoDisconnect
                 \/ DisconnectReply \/ HealthCheck \/ HealthEmit
    PROVE  IInv'
<1> USE DEF installation, host, tunnels, checker, window
<1>1. /\ UNCHANGED <<platform, split, sudo, host, faults, ctx, lock, con, busy>>
      /\ dis' = dis \/ /\ dis.at \in {"idle", "done"} /\ dis'.at \in {"idle", "queued"}
                       /\ dis' \in DisconnectCommand
  BY IdleTyped DEF IInv, TypeOK, AppTypeOK, DisconnectCommand, DoClearSession, DoDisconnect,
     SessionExpires, SessionPolled, AutoDisconnect, BeginDisconnect, DisconnectReply,
     HealthCheck, HealthEmit
<1>2. /\ status' \in {"disconnected", "connecting", "connected", "disconnecting", "error"}
      /\ session' \in {"none", "active", "ended"}
  BY DEF IInv, TypeOK, AppTypeOK, DoClearSession, DoDisconnect, SessionExpires,
     SessionPolled, AutoDisconnect, BeginDisconnect, DisconnectReply, HealthCheck, HealthEmit
<1>3. health' \in [on : BOOLEAN, dead : 0..2] /\ errorDue' \in BOOLEAN
  <2>1. CASE HealthCheck
    <3>1. health \in [on : BOOLEAN, dead : 0..2]
      BY DEF IInv, TypeOK, AppTypeOK
    <3>2. [health EXCEPT !.dead = 0] \in [on : BOOLEAN, dead : 0..2]
      BY <3>1
    <3>3. health.dead < 2 => [health EXCEPT !.dead = @ + 1] \in [on : BOOLEAN, dead : 0..2]
      BY <3>1
    <3>4. health' \in [on : BOOLEAN, dead : 0..2]
      BY <2>1, <3>2, <3>3, IdleTyped DEF HealthCheck, HealthDetects, IInv, TypeOK, HostTypeOK
    <3> QED BY <2>1, <3>4 DEF HealthCheck
  <2>2. CASE HealthEmit
    BY <2>2 DEF HealthEmit, IInv, TypeOK, AppTypeOK
  <2>3. CASE UNCHANGED <<health, errorDue>>
    BY <2>3 DEF IInv, TypeOK, AppTypeOK
  <2> QED BY <2>1, <2>2, <2>3 DEF DoClearSession, DoDisconnect, SessionExpires,
          SessionPolled, AutoDisconnect, DisconnectReply
<1>4. AppTypeOK'
  BY <1>1, <1>2, <1>3 DEF IInv, TypeOK, AppTypeOK
<1>5. Holders'
  BY <1>1 DEF IInv, Holders, TearDown
<1> QED BY <1>1, <1>4, <1>5, Bystander DEF TearDown

\* connect_paid is refused, finishes, or is answered.
LEMMA ConnectEndsStep ==
    ASSUME IInv, ConnectRefused \/ ConnectFinish \/ ConnectReply
    PROVE  IInv'
<1> USE DEF installation, host, tunnels, checker, window
<1>0. con \in ConnectCommand /\ lock \in {"connect", "disconnect", None}
  BY DEF IInv, TypeOK, AppTypeOK
<1>1. /\ con.at \in {"queued", "balance", "done"} /\ con'.at \in {"done", "idle"}
      /\ con' \in ConnectCommand /\ con'.cleanup \in {con.cleanup, <<>>} /\ ~con'.hung
  <2>0. ConnectRefused \/ ConnectFinish => ~con.hung
    BY ClientConstants DEF IInv, Holders, ConnectRefused, ConnectFinish, SetUp
  <2>1. CASE ConnectRefused
    BY <2>0, <2>1, <1>0 DEF ConnectRefused, ConnectFails, ConnectCommand
  <2>2. CASE ConnectFinish
    BY <2>0, <2>2, <1>0 DEF ConnectFinish, ConnectCommand
  <2>3. CASE ConnectReply
    BY <2>3, IdleTyped DEF ConnectReply
  <2> QED BY <2>1, <2>2, <2>3
<1>2. /\ UNCHANGED <<platform, split, sudo, host, faults, ctx, dis, health, errorDue, session>>
      /\ lock' # "connect" /\ lock' \in {lock, None} /\ (lock = "disconnect" => lock' = lock)
  BY <1>0, ClientConstants DEF IInv, Holders, ConnectRefused, ConnectFails, ConnectFinish, ConnectReply, SetUp
<1>3. status' \in {"disconnected", "connecting", "connected", "disconnecting", "error"}
  BY DEF IInv, TypeOK, AppTypeOK, ConnectRefused, ConnectFinish, ConnectReply, ReplyStatus
<1>4. busy' \in BOOLEAN /\ (busy' <=> con'.at # "idle")
  <2>1. CASE ConnectRefused
    BY <2>1, <1>0 DEF ConnectRefused, ConnectFails, ConnectCommand, IInv, Holders, TypeOK, AppTypeOK
  <2>2. CASE ConnectFinish
    BY <2>2, <1>0 DEF ConnectFinish, ConnectCommand, IInv, Holders, TypeOK, AppTypeOK
  <2>3. CASE ConnectReply
    BY <2>3, IdleTyped DEF ConnectReply
  <2> QED BY <2>1, <2>2, <2>3
<1>5. AppTypeOK'
  BY <1>1, <1>2, <1>3, <1>4 DEF IInv, TypeOK, AppTypeOK
<1>6. Holders'
  BY <1>1, <1>2, <1>4, ClientConstants DEF IInv, Holders, SetUp
<1> QED BY <1>1, <1>2, <1>5, <1>6, Bystander DEF SetUp

\* What killing boringtun and each undo step do to the host.
LEMMA UndoStep ==
    ASSUME IInv, NEW step \in {"kill", "interface", "routes"}, Undo(step),
           UNCHANGED installation
    PROVE  /\ HostTypeOK' /\ (iface' => proc') /\ dns' = dns /\ (proc' => proc)
           /\ launch' = launch /\ routes' \subseteq routes
           /\ Undisturbed' =>
                /\ Undisturbed /\ held' = {}
                /\ step = "kill" /\ launch # "prompt" => ~proc'
                /\ step = "interface" => routes' \subseteq Persistent
<1> USE DEF installation, host, tunnels
<1>1. HostTypeOK /\ (iface => proc) /\ (Undisturbed => held = {})
  BY DEF IInv, TypeOK, HostCoherent, Owned
<1>2. CASE step = "kill" /\ Works /\ KillBoringtun
  <2>1. CASE sudo
    BY <1>1, <1>2, <2>1 DEF Works, KillBoringtun, HostTypeOK, Undisturbed
  <2>2. CASE ~sudo
    <3>1. UNCHANGED <<host, faults>>
      BY <1>2, <2>2 DEF Works, KillBoringtun
    <3>2. Undisturbed /\ launch # "prompt" => ~proc
      BY <1>1, <2>2 DEF IInv, HostCoherent, Owned, HostTypeOK
    <3> QED BY <1>1, <1>2, <3>1, <3>2 DEF HostTypeOK, Undisturbed
  <2> QED BY <2>1, <2>2
<1>3. CASE step = "interface" /\ Works /\ TeardownInterface
  BY <1>1, <1>3 DEF Works, TeardownInterface, Left, HostTypeOK, Undisturbed
<1>4. CASE step = "interface" /\ ~Privileged /\ Works /\ UNCHANGED host
  <2>1. Undisturbed => routes \subseteq Persistent
    BY <1>1, <1>4 DEF IInv, HostCoherent, Owned, HostTypeOK, Privileged
  <2> QED BY <1>1, <1>4, <2>1 DEF Works, HostTypeOK, Undisturbed
<1>5. CASE step = "routes" /\ TeardownRoutes
  <2>1. UNCHANGED <<tunnels, dns, record>> /\ routes' \subseteq routes
    BY <1>5 DEF TeardownRoutes
  <2>2. /\ faults' \in [FaultKinds -> 0..MaxFaults]
        /\ Undisturbed' => Undisturbed
    BY <1>1, <1>5, FaultCounted DEF TeardownRoutes, Works, HostTypeOK, Undisturbed, FaultKinds
  <2> QED BY <1>1, <1>5, <2>1, <2>2 DEF HostTypeOK
<1>6. CASE step # "routes" /\ Fault("teardown") /\ UNCHANGED host
  <2>1. faults' \in [FaultKinds -> 0..MaxFaults] /\ ~Undisturbed'
    BY <1>1, <1>6, FaultCounted DEF HostTypeOK, FaultKinds
  <2> QED BY <1>1, <1>6, <2>1 DEF HostTypeOK
<1> QED BY <1>2, <1>3, <1>4, <1>5, <1>6 DEF Undo

\* A fault outside an undo step, or none, leaves the bookkeeping of faults in order.
LEMMA SetupFault ==
    ASSUME HostTypeOK, \/ Works \/ Fault("setup") \/ Fault("death") \/ Fault("hang")
    PROVE  /\ faults' \in [FaultKinds -> 0..MaxFaults]
           /\ Undisturbed' => Undisturbed
<1>1. CASE Works
  BY <1>1 DEF Works, HostTypeOK, Undisturbed
<1>2. CASE Fault("setup")
  BY <1>2, FaultCounted DEF HostTypeOK, FaultKinds
<1>3. CASE Fault("death")
  BY <1>3, FaultCounted DEF HostTypeOK, FaultKinds
<1>4. CASE Fault("hang")
  BY <1>4, FaultCounted DEF HostTypeOK, FaultKinds
<1> QED BY <1>1, <1>2, <1>3, <1>4

\* What a step of connect_paid that holds or takes the mutex leaves alone.
LEMMA ConnectHeld ==
    ASSUME IInv, con' \in ConnectCommand, lock' \in {"connect", None},
           UNCHANGED <<dis, busy, status, session, errorDue>>,
           lock = "connect" \/ lock = None, con.at # "idle", con'.at # "idle",
           lock' = "connect" <=> con'.at \in SetUp \cup {"balance", "rollback"},
           ~con'.hung, ctx' \in {"user", "vpn", None}, health' \in [on : BOOLEAN, dead : 0..2],
           con'.at \in SetUp \cup {"rollback"} => ctx' = None,
           con'.at = "routes" => con'.todo # <<>>
    PROVE  AppTypeOK' /\ Holders'
<1>1. AppTypeOK'
  BY DEF IInv, TypeOK, AppTypeOK
<1>2. dis.at \notin TearDown /\ lock' # "disconnect"
  BY ClientConstants DEF IInv, Holders
<1> QED BY <1>1, <1>2 DEF IInv, Holders

\* A step of the connection fails: the host stays as it is and the cleanup list is run.
LEMMA RollbackStep ==
    ASSUME IInv, ~con.hung, con.at \in SetUp, Rollback, Works \/ Fault("setup"),
           UNCHANGED <<installation, ctx, dis, checker, window>>
    PROVE  IInv'
<1> USE DEF installation, host, tunnels, checker, window
<1>0. con \in ConnectCommand /\ lock = "connect" /\ ctx = None /\ HostTypeOK
  BY DEF IInv, TypeOK, AppTypeOK, Holders
<1>1. /\ con' \in ConnectCommand /\ con'.at = "rollback" /\ con'.cleanup = con.cleanup
      /\ ~con'.hung
  BY <1>0 DEF Rollback, ConnectCommand
<1>2. AppTypeOK' /\ Holders'
  <2>1. health \in [on : BOOLEAN, dead : 0..2]
    BY DEF IInv, TypeOK, AppTypeOK
  <2>2. lock' = "connect" /\ con.at # "idle"
    BY <1>0 DEF Rollback, SetUp
  <2> QED BY <1>0, <1>1, <2>1, <2>2, ConnectHeld DEF SetUp
<1>3. HostTypeOK' /\ (Undisturbed' => Undisturbed)
  BY <1>0, SetupFault DEF Rollback, HostTypeOK
<1>4. CleanupListed' /\ HostCoherent'
  BY <1>1 DEF IInv, CleanupListed, HostCoherent, Rollback, SetUp
<1>5. con.at \in {"routes", "dns"} => Len(con.cleanup) > 1
  BY DEF IInv, CleanupListed, SetUp
<1>6. Owned'
  BY <1>0, <1>1, <1>3, <1>5 DEF IInv, Owned, Rollback
<1> QED BY <1>2, <1>3, <1>4, <1>6 DEF IInv, TypeOK

LEMMA ConnectSpawnStep ==
    ASSUME IInv, ~con.hung, ConnectSpawn
    PROVE  IInv'
<1> USE DEF installation, host, tunnels, checker, window
<1>0. /\ con \in ConnectCommand /\ con.at = "queued" /\ lock = None /\ ctx = None
      /\ HostTypeOK /\ health \in [on : BOOLEAN, dead : 0..2]
      /\ dis.at \notin TearDown
  BY ClientConstants DEF IInv, TypeOK, AppTypeOK, Holders, ConnectSpawn
<1>1. Undisturbed => routes \subseteq Persistent /\ dns = "user"
  BY <1>0 DEF IInv, Owned, HostTypeOK, TearDown
<1>2. (Undisturbed' => Undisturbed) /\ faults' \in [FaultKinds -> 0..MaxFaults]
  BY <1>0, SetupFault DEF ConnectSpawn
<1>3. ASSUME NEW by \in {"sudo", "prompt"}, Launched(by), by = "sudo" <=> sudo, Privileged
      PROVE  /\ HostTypeOK' /\ proc' /\ iface' /\ launch' = by /\ dns' = dns
             /\ by = "prompt" => platform' = "macos"
             /\ Undisturbed' => held' = {} /\ routes' \subseteq Persistent
  <2>1. UNCHANGED <<platform, split, sudo>>
    BY DEF ConnectSpawn
  <2>2. CASE by = "sudo"
    BY <1>0, <1>2, <1>3, <2>1, <2>2 DEF Launched, HostTypeOK
  <2>3. CASE by = "prompt"
    BY <1>0, <1>1, <1>2, <1>3, <2>1, <2>3 DEF Launched, HostTypeOK, Privileged
  <2> QED BY <1>3, <2>2, <2>3
<1>4. CASE /\ Privileged /\ Works /\ Launched(IF sudo THEN "sudo" ELSE "prompt")
           /\ con' = [con EXCEPT !.at = "configure", !.cleanup = <<"kill">>]
           /\ lock' = "connect"
  <2>1. PICK by \in {"sudo", "prompt"} : Launched(by) /\ (by = "sudo" <=> sudo)
    BY <1>4
  <2>2. <<"kill">> \in Seq({"kill", "interface", "routes"}) /\ <<"kill">> # <<>>
        /\ <<"kill">>[1] = "kill" /\ ~(Len(<<"kill">>) > 1)
    OBVIOUS
  <2>3. /\ con' \in ConnectCommand /\ con'.at = "configure" /\ con'.cleanup = <<"kill">>
        /\ ~con'.hung
    BY <1>0, <1>4, <2>2 DEF ConnectCommand
  <2>4. AppTypeOK' /\ Holders'
    BY <1>0, <1>4, <2>3, ConnectHeld DEF ConnectSpawn, SetUp
  <2>5. /\ HostTypeOK' /\ proc' /\ iface' /\ launch' = by /\ dns' = dns
        /\ by = "prompt" => platform' = "macos"
        /\ Undisturbed' => held' = {} /\ routes' \subseteq Persistent
    BY <1>3, <1>4, <2>1
  <2>6. CleanupListed'
    BY <2>2, <2>3 DEF CleanupListed, SetUp
  <2>7. HostCoherent'
    BY <2>1, <2>5, ClientConstants DEF HostCoherent
  <2>8. UNCHANGED <<sudo, ctx, dis>>
    BY DEF ConnectSpawn
  <2>9. Owned'
    BY <1>0, <1>1, <1>2, <2>1, <2>2, <2>3, <2>5, <2>8, ClientConstants DEF Owned, SetUp, TearDown
  <2> QED BY <2>4, <2>5, <2>6, <2>7, <2>9 DEF IInv, TypeOK
<1>5. ASSUME ConnectFails
      PROVE  /\ AppTypeOK' /\ Holders' /\ CleanupListed'
             /\ con'.at = "done"
  <2>1. /\ con' \in ConnectCommand /\ con'.at = "done" /\ con'.cleanup = con.cleanup
        /\ lock' = None /\ ~con'.hung
    BY <1>0, <1>5 DEF ConnectFails, ConnectCommand
  <2>2. AppTypeOK' /\ Holders'
    BY <1>0, <2>1, ConnectHeld, ClientConstants DEF ConnectSpawn, SetUp
  <2>3. CleanupListed'
    BY <2>1 DEF IInv, CleanupListed, SetUp
  <2> QED BY <2>1, <2>2, <2>3
<1>6. CASE ConnectFails /\ (KillBoringtun \/ UNCHANGED host)
  <2>1. /\ HostTypeOK' /\ dns' = dns /\ (proc' => proc) /\ (iface' => proc')
        /\ UNCHANGED <<platform, sudo, launch, ctx, dis>> /\ routes' \subseteq routes
        /\ held' \subseteq held
    <3>1. (iface => proc) /\ UNCHANGED <<platform, split, sudo, ctx, dis>>
      BY DEF ConnectSpawn, IInv, HostCoherent
    <3>2. CASE KillBoringtun
      <4>1. CASE sudo
        BY <1>0, <1>2, <3>1, <3>2, <4>1 DEF HostTypeOK, KillBoringtun
      <4>2. CASE ~sudo
        BY <1>0, <1>2, <3>1, <3>2, <4>2 DEF HostTypeOK, KillBoringtun
      <4> QED BY <4>1, <4>2
    <3>3. CASE UNCHANGED host
      BY <1>0, <1>2, <3>1, <3>3 DEF HostTypeOK
    <3> QED BY <1>6, <3>2, <3>3
  <2>2. HostCoherent'
    BY <1>5, <1>6, <2>1 DEF IInv, HostCoherent, SetUp
  <2>3. Owned'
    BY <1>0, <1>1, <1>2, <1>5, <1>6, <2>1 DEF IInv, Owned, SetUp, TearDown
  <2> QED BY <1>5, <1>6, <2>1, <2>2, <2>3 DEF IInv, TypeOK
<1>7. CASE Privileged /\ ~sudo /\ ConnectFails /\ Launched("prompt")
  <2>1. /\ HostTypeOK' /\ proc' /\ iface' /\ launch' = "prompt" /\ dns' = dns
        /\ platform' = "macos"
        /\ Undisturbed' => held' = {} /\ routes' \subseteq Persistent
    BY <1>3, <1>7
  <2>2. HostCoherent'
    BY <2>1, ClientConstants DEF HostCoherent
  <2>3. UNCHANGED <<ctx, dis>>
    BY DEF ConnectSpawn
  <2>4. Owned'
    BY <1>0, <1>1, <1>2, <1>5, <1>7, <2>1, <2>3, ClientConstants DEF Owned, SetUp, TearDown
  <2> QED BY <1>5, <1>7, <2>1, <2>2, <2>4 DEF IInv, TypeOK
<1> QED BY <1>4, <1>6, <1>7 DEF ConnectSpawn

\* A cleanup step is added at the end.
LEMMA AppendedCleanup ==
    ASSUME NEW c \in Seq({"kill", "interface", "routes"}), c # <<>>, c[1] = "kill",
           NEW e \in {"kill", "interface", "routes"}
    PROVE  /\ Append(c, e) \in Seq({"kill", "interface", "routes"})
           /\ Append(c, e) # <<>> /\ Append(c, e)[1] = "kill"
           /\ Len(Append(c, e)) > 1
           /\ Append(c, e)[2] = IF Len(c) > 1 THEN c[2] ELSE e
<1> DEFINE d == Append(c, e)
<1>1. /\ d \in Seq({"kill", "interface", "routes"}) /\ d # <<>> /\ d[1] = "kill"
      /\ Len(c) \in Nat \ {0}
  OBVIOUS
<1>2. /\ Len(d) = Len(c) + 1 /\ d[Len(c) + 1] = e
      /\ \A i \in 1..Len(c) : d[i] = c[i]
  BY AppendProperties
<1> HIDE DEF d
<1>3. Len(d) > 1 /\ (Len(c) > 1 => d[2] = c[2])
  BY <1>1, <1>2
<1>4. ~(Len(c) > 1) => Len(c) + 1 = 2
  BY <1>1
<1> QED BY <1>1, <1>2, <1>3, <1>4 DEF d

LEMMA ConnectConfigureStep ==
    ASSUME IInv, ~con.hung, ConnectConfigure
    PROVE  IInv'
<1> USE DEF installation, host, tunnels, checker, window
<1>0. /\ con \in ConnectCommand /\ con.at = "configure" /\ lock = "connect" /\ ctx = None
      /\ HostTypeOK /\ health \in [on : BOOLEAN, dead : 0..2]
      /\ con.cleanup = <<"kill">>
  BY DEF IInv, TypeOK, AppTypeOK, Holders, CleanupListed, ConnectConfigure, SetUp
<1>1. CASE /\ proc /\ Privileged /\ Works
           /\ con' = [con EXCEPT !.at = "save", !.cleanup = Append(@, "interface")]
           /\ UNCHANGED <<lock, host>>
  <2>1. /\ con' \in ConnectCommand /\ con'.at = "save" /\ ~con'.hung
        /\ con'.cleanup # <<>> /\ con'.cleanup[1] = "kill"
        /\ Len(con'.cleanup) > 1 /\ con'.cleanup[2] = "interface"
    <3> DEFINE k == <<"kill">>
               c == Append(k, "interface")
    <3>1. k \in Seq({"kill", "interface", "routes"}) /\ k # <<>> /\ k[1] = "kill" /\ ~(Len(k) > 1)
      OBVIOUS
    <3> HIDE DEF k
    <3>2. /\ c \in Seq({"kill", "interface", "routes"}) /\ c # <<>> /\ c[1] = "kill"
          /\ Len(c) > 1 /\ c[2] = "interface"
      BY <3>1, AppendedCleanup
    <3>3. con' = [con EXCEPT !.at = "save", !.cleanup = c]
      BY <1>0, <1>1 DEF k
    <3> HIDE DEF c
    <3> QED BY <1>0, <3>2, <3>3 DEF ConnectCommand
  <2>2. AppTypeOK' /\ Holders'
    BY <1>0, <1>1, <2>1, ConnectHeld DEF ConnectConfigure, SetUp
  <2>3. HostTypeOK' /\ (Undisturbed' => Undisturbed)
    BY <1>0, <1>1, SetupFault DEF ConnectConfigure, HostTypeOK
  <2>4. CleanupListed' /\ HostCoherent'
    BY <1>0, <1>1, <2>1 DEF ConnectConfigure, IInv, CleanupListed, HostCoherent, SetUp
  <2>5. Owned'
    BY <1>0, <1>1, <2>1, <2>3 DEF ConnectConfigure, IInv, Owned, SetUp
  <2> QED BY <2>2, <2>3, <2>4, <2>5 DEF IInv, TypeOK
<1>2. CASE (Works \/ Fault("setup")) /\ Rollback
  BY <1>0, <1>2, RollbackStep DEF ConnectConfigure, SetUp
<1> QED BY <1>1, <1>2 DEF ConnectConfigure

LEMMA ConnectSaveStep ==
    ASSUME IInv, ~con.hung, ConnectSave
    PROVE  IInv'
<1> USE DEF installation, host, tunnels, checker, window
<1>0. /\ con \in ConnectCommand /\ con.at = "save" /\ lock = "connect" /\ ctx = None
      /\ HostTypeOK /\ health \in [on : BOOLEAN, dead : 0..2]
      /\ dis.at \notin TearDown
  BY ClientConstants DEF IInv, TypeOK, AppTypeOK, Holders, ConnectSave, SetUp
<1>1. CASE /\ Works
           /\ con' = [con EXCEPT !.at = "routes", !.saved = dns, !.todo = RouteSteps]
           /\ UNCHANGED <<lock, host>>
  <2>1. RouteSteps \in Seq(RouteNames) /\ RouteSteps # <<>>
    <3>1. /\ <<"subnet">> \in Seq(RouteNames) /\ <<"host", "low", "high">> \in Seq(RouteNames)
          /\ <<"fwmark", "rule", "default", "suppress">> \in Seq(RouteNames)
      BY DEF RouteNames
    <3>2. /\ <<"subnet">> # <<>> /\ <<"host", "low", "high">> # <<>>
          /\ <<"fwmark", "rule", "default", "suppress">> # <<>>
      OBVIOUS
    <3> QED BY <3>1, <3>2 DEF RouteSteps
  <2>2. /\ con' \in ConnectCommand /\ con'.at = "routes" /\ con'.todo # <<>>
        /\ con'.cleanup = con.cleanup /\ con'.saved = dns /\ ~con'.hung
    <3> HIDE DEF RouteSteps
    <3> QED BY <1>0, <1>1, <2>1 DEF ConnectCommand, HostTypeOK
  <2>3. AppTypeOK' /\ Holders'
    BY <1>0, <1>1, <2>2, ConnectHeld DEF ConnectSave, SetUp
  <2>4. HostTypeOK' /\ (Undisturbed' => Undisturbed)
    BY <1>0, <1>1, SetupFault DEF ConnectSave, HostTypeOK
  <2>5. CleanupListed' /\ HostCoherent'
    BY <1>0, <1>1, <2>2 DEF ConnectSave, IInv, CleanupListed, HostCoherent, SetUp
  <2>6. dis.at # "dns"
    BY <1>0 DEF TearDown
  <2>7. Owned'
    BY <1>0, <1>1, <2>2, <2>4, <2>6 DEF ConnectSave, IInv, Owned, SetUp, HostTypeOK
  <2> QED BY <2>3, <2>4, <2>5, <2>7 DEF IInv, TypeOK
<1>2. CASE Fault("setup") /\ Rollback
  BY <1>0, <1>2, RollbackStep DEF ConnectSave, SetUp
<1> QED BY <1>1, <1>2 DEF ConnectSave

LEMMA ConnectRouteStep ==
    ASSUME IInv, ~con.hung, ConnectRoute
    PROVE  IInv'
<1> USE DEF installation, host, tunnels, checker, window
<1>0. /\ con \in ConnectCommand /\ con.at = "routes" /\ lock = "connect" /\ ctx = None
      /\ HostTypeOK /\ health \in [on : BOOLEAN, dead : 0..2]
      /\ con.cleanup \in Seq({"kill", "interface", "routes"})
      /\ con.cleanup # <<>> /\ con.cleanup[1] = "kill"
      /\ Len(con.cleanup) > 1 /\ con.cleanup[2] = "interface"
      /\ con.todo \in Seq(RouteNames) /\ con.todo # <<>>
  BY DEF IInv, TypeOK, AppTypeOK, ConnectCommand, Holders, CleanupListed, ConnectRoute, SetUp
<1> DEFINE r == Head(con.todo)
<1>1. CASE /\ CanAdd(r) /\ Works
           /\ routes' = routes \cup {r} /\ con' = RouteAdded
           /\ UNCHANGED <<tunnels, dns, record, lock>>
  <2>1. /\ con' \in ConnectCommand /\ con'.at \in {"routes", "dns"} /\ con'.saved = con.saved
        /\ con'.at = "routes" => con'.todo # <<>>
        /\ con'.cleanup # <<>> /\ con'.cleanup[1] = "kill" /\ ~con'.hung
        /\ Len(con'.cleanup) > 1 /\ con'.cleanup[2] = "interface"
    <3>1. CASE Len(con.todo) > 1
      <4>1. PICK t : t = Tail(con.todo)
        OBVIOUS
      <4>2. t \in Seq(RouteNames) /\ Len(t) # 0
        BY <1>0, <3>1, <4>1, HeadTailProperties
      <4>3. t # <<>>
        BY <4>2
      <4>4. con' = [con EXCEPT !.todo = t]
        BY <1>1, <3>1, <4>1 DEF RouteAdded
      <4> QED BY <1>0, <4>2, <4>3, <4>4 DEF ConnectCommand
    <3>2. CASE ~(Len(con.todo) > 1)
      <4> DEFINE c == Append(con.cleanup, "routes")
      <4>1. /\ c \in Seq({"kill", "interface", "routes"}) /\ c # <<>> /\ c[1] = "kill"
            /\ Len(c) > 1 /\ c[2] = "interface"
        BY <1>0, AppendedCleanup
      <4>2. con' = [con EXCEPT !.at = "dns", !.todo = <<>>, !.cleanup = c]
        BY <1>1, <3>2 DEF RouteAdded
      <4>3. <<>> \in Seq(RouteNames)
        OBVIOUS
      <4> HIDE DEF c
      <4> QED BY <1>0, <4>1, <4>2, <4>3 DEF ConnectCommand
    <3> QED BY <3>1, <3>2
  <2>2. AppTypeOK' /\ Holders'
    BY <1>0, <1>1, <2>1, ConnectHeld DEF ConnectRoute, SetUp
  <2>3. HostTypeOK' /\ (Undisturbed' => Undisturbed)
    <3>1. r \in RouteNames
      BY <1>0
    <3> QED BY <1>0, <1>1, <3>1, SetupFault DEF ConnectRoute, HostTypeOK
  <2>4. CleanupListed' /\ HostCoherent'
    BY <1>0, <1>1, <2>1 DEF ConnectRoute, IInv, CleanupListed, HostCoherent, SetUp
  <2>5. Owned'
    BY <1>0, <1>1, <2>1, <2>3 DEF ConnectRoute, IInv, Owned, SetUp
  <2> QED BY <2>2, <2>3, <2>4, <2>5 DEF IInv, TypeOK
<1>2. CASE (Works \/ Fault("setup")) /\ Rollback
  BY <1>0, <1>2, RollbackStep DEF ConnectRoute, SetUp
<1> QED BY <1>1, <1>2 DEF ConnectRoute

LEMMA ConnectDnsStep ==
    ASSUME IInv, ~con.hung, ConnectDns
    PROVE  IInv'
<1> USE DEF installation, host, tunnels, checker, window
<1>0. /\ con \in ConnectCommand /\ con.at = "dns" /\ lock = "connect" /\ ctx = None
      /\ HostTypeOK /\ con.saved \in {"user", "vpn", None}
  BY DEF IInv, TypeOK, AppTypeOK, ConnectCommand, Holders, ConnectDns, SetUp
<1>1. CASE /\ Works \/ Fault("setup")
           /\ Established /\ dns' \in {dns, "vpn"} /\ record' \in BOOLEAN
  <2>1. /\ con' \in ConnectCommand /\ con'.at = "balance" /\ con'.cleanup = <<>> /\ ~con'.hung
    <3>1. <<>> \in Seq({"kill", "interface", "routes"})
      OBVIOUS
    <3> QED BY <1>0, <1>1, <3>1 DEF Established, ConnectCommand
  <2>2. AppTypeOK' /\ Holders'
    <3>1. health' \in [on : BOOLEAN, dead : 0..2] /\ ctx' \in {"user", "vpn", None} /\ lock' = lock
      BY <1>0, <1>1 DEF Established
    <3> QED BY <1>0, <2>1, <3>1, ConnectHeld DEF ConnectDns, SetUp
  <2>3. HostTypeOK' /\ (Undisturbed' => Undisturbed)
    BY <1>0, <1>1, SetupFault DEF ConnectDns, Established, HostTypeOK
  <2>4. CleanupListed' /\ HostCoherent'
    <3>1. ~(Len(<<>>) > 1)
      OBVIOUS
    <3>2. UNCHANGED <<platform, tunnels, routes>> /\ con'.at \notin SetUp
      BY <1>1, <2>1 DEF ConnectDns, Established, SetUp
    <3> QED BY <2>1, <3>1, <3>2 DEF IInv, CleanupListed, HostCoherent, SetUp
  <2>5. Undisturbed => ctx' = "user" /\ ctx' # None /\ dis.at # "dns"
    BY <1>0, <1>1, ClientConstants DEF Established, IInv, Holders, Owned, TearDown
  <2>6. UNCHANGED <<sudo, launch, held, dis>>
    BY <1>1 DEF ConnectDns, Established
  <2>7. Owned'
    BY <2>1, <2>3, <2>5, <2>6 DEF IInv, Owned, SetUp
  <2> QED BY <2>2, <2>3, <2>4, <2>7 DEF IInv, TypeOK
<1>2. CASE Fault("setup") /\ Rollback /\ UNCHANGED <<ctx, health>>
  BY <1>0, <1>2, RollbackStep DEF ConnectDns, SetUp
<1>3. record \in BOOLEAN
  BY <1>0 DEF HostTypeOK
<1> QED BY <1>1, <1>2, <1>3 DEF ConnectDns

LEMMA ConnectRollbackStep ==
    ASSUME IInv, ~con.hung, ConnectRollback
    PROVE  IInv'
<1> USE DEF installation, host, tunnels, checker, window
<1>0. /\ con \in ConnectCommand /\ con.at = "rollback" /\ lock = "connect" /\ ctx = None
      /\ HostTypeOK /\ health \in [on : BOOLEAN, dead : 0..2]
      /\ con.cleanup \in Seq({"kill", "interface", "routes"})
      /\ con.cleanup # <<>> => con.cleanup[1] = "kill"
      /\ Len(con.cleanup) > 1 => con.cleanup[2] = "interface"
  BY DEF IInv, TypeOK, AppTypeOK, ConnectCommand, Holders, CleanupListed, ConnectRollback, SetUp
<1>1. CASE /\ con.cleanup # <<>>
           /\ Undo(con.cleanup[Len(con.cleanup)])
           /\ con' = [con EXCEPT !.cleanup = SubSeq(@, 1, Len(@) - 1)]
           /\ UNCHANGED lock
  <2>1. PICK d : d = SubSeq(con.cleanup, 1, Len(con.cleanup) - 1)
    OBVIOUS
  <2>2. PICK step : step = con.cleanup[Len(con.cleanup)]
    OBVIOUS
  <2>3. /\ d \in Seq({"kill", "interface", "routes"}) /\ step \in {"kill", "interface", "routes"}
        /\ d # <<>> => d[1] = "kill"
        /\ d = <<>> => step = "kill"
        /\ Len(d) > 1 => Len(con.cleanup) > 1 /\ d[2] = con.cleanup[2]
        /\ Len(con.cleanup) > 1 /\ ~(Len(d) > 1) => step = "interface"
    BY <1>0, <1>1, <2>1, <2>2, CleanupShrinks
  <2>4. Len(d) > 1 => d[2] = "interface"
    BY <1>0, <2>3
  <2>5. /\ con' \in ConnectCommand /\ con'.at = "rollback" /\ con'.cleanup = d /\ ~con'.hung
    <3>1. con' = [con EXCEPT !.cleanup = d]
      BY <1>1, <2>1
    <3> QED BY <1>0, <2>3, <3>1 DEF ConnectCommand
  <2>6. AppTypeOK' /\ Holders'
    BY <1>0, <1>1, <2>5, ConnectHeld DEF ConnectRollback, SetUp
  <2>7. /\ HostTypeOK' /\ (iface' => proc') /\ dns' = dns /\ (proc' => proc)
        /\ launch' = launch /\ routes' \subseteq routes
        /\ Undisturbed' =>
             /\ Undisturbed /\ held' = {}
             /\ step = "kill" /\ launch # "prompt" => ~proc'
             /\ step = "interface" => routes' \subseteq Persistent
    BY <1>1, <2>2, <2>3, UndoStep DEF ConnectRollback
  <2>8. UNCHANGED <<platform, sudo, ctx, dis>>
    BY DEF ConnectRollback
  <2>9. CleanupListed' /\ HostCoherent'
    <3>1. con'.at \notin SetUp /\ con'.at # "configure"
      BY <2>5 DEF SetUp
    <3> QED BY <2>3, <2>4, <2>5, <2>7, <2>8, <3>1 DEF IInv, CleanupListed, HostCoherent
  <2>10. Owned'
    <3>1. con.at \notin {"routes", "dns"} /\ con'.at \notin {"routes", "dns"} /\ con.at \notin SetUp
      BY <1>0, <2>5 DEF SetUp
    <3>2. Undisturbed' => \/ routes' \subseteq Persistent \/ ctx # None \/ dis.at \in TearDown \ {"kill"}
                          \/ Len(d) > 1
      BY <2>3, <2>7, <3>1 DEF IInv, Owned
    <3>3. Undisturbed' /\ proc' /\ launch' # "prompt" =>
             ctx # None \/ dis.at \in TearDown \/ d # <<>>
      BY <2>3, <2>7, <3>1 DEF IInv, Owned
    <3>4. Undisturbed => /\ held = {} /\ (launch = "sudo" => sudo)
                         /\ dns = "vpn" => ctx # None \/ dis.at = "dns"
                         /\ ctx # "vpn" /\ (dis.at = "dns" => dis.saved = "user")
      BY DEF IInv, Owned
    <3> HIDE DEF installation, host, tunnels, checker, window
    <3> QED BY <2>5, <2>7, <2>8, <3>1, <3>2, <3>3, <3>4 DEF Owned
  <2> QED BY <2>6, <2>7, <2>9, <2>10 DEF IInv, TypeOK
<1>2. CASE con.cleanup = <<>> /\ ConnectFails /\ UNCHANGED <<host, faults>>
  <2>1. /\ con' \in ConnectCommand /\ con'.at = "done" /\ con'.cleanup = <<>> /\ lock' = None
        /\ ~con'.hung
    BY <1>0, <1>2 DEF ConnectFails, ConnectCommand
  <2>2. AppTypeOK' /\ Holders'
    BY <1>0, <2>1, ConnectHeld, ClientConstants DEF ConnectRollback, SetUp
  <2>3. HostTypeOK' /\ (Undisturbed' => Undisturbed)
    BY <1>0, <1>2 DEF ConnectRollback, HostTypeOK, Undisturbed
  <2>4. CleanupListed' /\ HostCoherent'
    <3>1. ~(Len(<<>>) > 1)
      OBVIOUS
    <3> QED BY <1>2, <2>1, <3>1 DEF ConnectRollback, IInv, CleanupListed, HostCoherent, SetUp
  <2>5. Owned'
    <3>1. UNCHANGED <<tunnels, routes, dns, sudo, ctx, dis>>
      BY <1>2 DEF ConnectRollback
    <3> QED BY <1>0, <1>2, <2>1, <2>3, <3>1 DEF IInv, Owned, SetUp
  <2> QED BY <2>2, <2>3, <2>4, <2>5 DEF IInv, TypeOK
<1> QED BY <1>1, <1>2 DEF ConnectRollback

\* disconnect waits for the mutex, finds no context, or takes it with the DNS to restore.
LEMMA DisconnectBeginStep ==
    ASSUME IInv, DisconnectBegin
    PROVE  IInv'
<1> USE DEF installation, host, tunnels, checker, window
<1>0. /\ dis \in DisconnectCommand /\ dis.at = "queued" /\ lock = None /\ ctx \in {"user", "vpn", None}
      /\ con.at \notin SetUp \cup {"balance", "rollback"} /\ ~con.hung
  BY ClientConstants DEF IInv, TypeOK, AppTypeOK, Holders, DisconnectBegin
<1>1. CASE ctx = None /\ dis' = [dis EXCEPT !.at = "done"] /\ UNCHANGED <<ctx, lock, health>>
  <2>1. dis' \in DisconnectCommand /\ dis'.at = "done"
    BY <1>0, <1>1 DEF DisconnectCommand
  <2>2. AppTypeOK' /\ Holders'
    BY <1>0, <1>1, <2>1 DEF DisconnectBegin, IInv, TypeOK, AppTypeOK, Holders, TearDown
  <2> QED BY <1>0, <1>1, <2>1, <2>2, Bystander DEF DisconnectBegin
<1>2. CASE /\ ctx # None
           /\ dis' = [DisIdle EXCEPT !.at = "dns", !.saved = ctx]
           /\ ctx' = None /\ lock' = "disconnect" /\ health' = HealthOff
  <2>1. dis' \in DisconnectCommand /\ dis'.at = "dns" /\ dis'.saved = ctx
    BY <1>0, <1>2, IdleTyped DEF DisconnectCommand
  <2>2. AppTypeOK'
    BY <1>2, <2>1, IdleTyped DEF DisconnectBegin, IInv, TypeOK, AppTypeOK
  <2>3. Holders'
    BY <1>0, <1>2, <2>1, ClientConstants DEF DisconnectBegin, IInv, Holders, TearDown
  <2>4. HostTypeOK' /\ CleanupListed' /\ HostCoherent' /\ (Undisturbed' => Undisturbed)
    BY DEF DisconnectBegin, IInv, TypeOK, HostTypeOK, CleanupListed, HostCoherent, Undisturbed
  <2>5. Owned'
    BY <1>0, <1>2, <2>1, <2>4, ClientConstants DEF DisconnectBegin, IInv, Owned, SetUp, TearDown
  <2> QED BY <2>2, <2>3, <2>4, <2>5 DEF IInv, TypeOK
<1> QED BY <1>1, <1>2 DEF DisconnectBegin

LEMMA DisconnectDnsStep ==
    ASSUME IInv, DisconnectDns
    PROVE  IInv'
<1> USE DEF installation, host, tunnels, checker, window
<1>0. /\ dis \in DisconnectCommand /\ dis.at = "dns" /\ lock = "disconnect" /\ HostTypeOK
      /\ con.at \notin SetUp \cup {"balance", "rollback"}
  BY DEF IInv, TypeOK, AppTypeOK, Holders, DisconnectDns, TearDown
<1>1. dis' \in DisconnectCommand /\ dis'.at = "routes"
  BY <1>0 DEF DisconnectDns, DisconnectCommand
<1>2. AppTypeOK' /\ Holders'
  BY <1>0, <1>1 DEF DisconnectDns, IInv, TypeOK, AppTypeOK, Holders, TearDown
<1>3. /\ faults' \in [FaultKinds -> 0..MaxFaults]
      /\ Undisturbed' => Undisturbed /\ dns' = dis.saved
  <2>1. CASE Works /\ dns' = dis.saved
    BY <1>0, <2>1 DEF Works, HostTypeOK, Undisturbed
  <2>2. CASE Fault("teardown")
    BY <1>0, <2>2, FaultCounted DEF HostTypeOK, FaultKinds
  <2> QED BY <2>1, <2>2 DEF DisconnectDns
<1>4. HostTypeOK' /\ CleanupListed' /\ HostCoherent'
  <2>1. dis.saved \in {"user", "vpn"}
    BY <1>0 DEF IInv, Holders, DisconnectCommand
  <2> QED BY <1>0, <1>3, <2>1 DEF DisconnectDns, IInv, HostTypeOK, CleanupListed, HostCoherent
<1>5. Owned'
  BY <1>0, <1>1, <1>3 DEF DisconnectDns, IInv, Owned, SetUp, TearDown
<1> QED BY <1>2, <1>4, <1>5 DEF IInv, TypeOK

\* A later step of disconnect; the last one ends boringtun and releases the mutex.
LEMMA DisconnectUndoStep ==
    ASSUME IInv, NEW step \in {"routes", "interface", "kill"},
           NEW next \in {"interface", "kill", "done"}, step = "kill" <=> next = "done",
           step = "interface" <=> next = "kill", DisconnectStep(step, next)
    PROVE  IInv'
<1> USE DEF installation, host, tunnels, checker, window
<1>0. /\ dis \in DisconnectCommand /\ dis.at = step /\ lock = "disconnect"
      /\ con.at \notin SetUp \cup {"balance", "rollback"}
  BY DEF IInv, TypeOK, AppTypeOK, Holders, DisconnectStep, TearDown
<1>1. dis' \in DisconnectCommand /\ dis'.at = next
  BY <1>0 DEF DisconnectStep, DisconnectCommand
<1>2. AppTypeOK'
  BY <1>0, <1>1 DEF DisconnectStep, IInv, TypeOK, AppTypeOK
<1>3. Holders'
  BY <1>0, <1>1, ClientConstants DEF DisconnectStep, IInv, Holders, TearDown
<1>4. /\ HostTypeOK' /\ (iface' => proc') /\ dns' = dns /\ (proc' => proc)
      /\ launch' = launch /\ routes' \subseteq routes
      /\ Undisturbed' =>
           /\ Undisturbed /\ held' = {}
           /\ step = "kill" /\ launch # "prompt" => ~proc'
           /\ step = "interface" => routes' \subseteq Persistent
  BY UndoStep DEF DisconnectStep
<1>5. UNCHANGED <<platform, sudo, con, ctx>>
  BY DEF DisconnectStep
<1>6. CleanupListed' /\ HostCoherent'
  BY <1>4, <1>5 DEF IInv, CleanupListed, HostCoherent
<1>7. Owned'
  <2> HIDE DEF installation, host, tunnels, checker, window
  <2> QED BY <1>0, <1>1, <1>4, <1>5 DEF IInv, Owned, SetUp, TearDown
<1> QED BY <1>2, <1>3, <1>4, <1>6, <1>7 DEF IInv, TypeOK

\* What only takes things off the host needs nobody's doing.
LEMMA LessOnHost ==
    ASSUME IInv, HostTypeOK', UNCHANGED <<installation, launch, held, dns, ctx, lock, con, dis, checker, window>>,
           proc' => proc, iface' => proc', routes' \subseteq routes, Undisturbed' => Undisturbed
    PROVE  IInv'
<1> USE DEF installation, checker, window
<1>1. AppTypeOK' /\ Holders' /\ CleanupListed'
  BY DEF IInv, TypeOK, AppTypeOK, Holders, CleanupListed
<1>2. HostCoherent'
  BY DEF IInv, HostCoherent
<1>3. Owned'
  BY DEF IInv, Owned
<1> QED BY <1>1, <1>2, <1>3 DEF IInv, TypeOK

\* boringtun may end at any time.
LEMMA BoringtunEndsStep ==
    ASSUME IInv, BoringtunDies \/ BoringtunExits
    PROVE  IInv'
<1>1. HostTypeOK /\ HostCoherent
  BY DEF IInv, TypeOK
<1>2. CASE BoringtunDies
  <2>1. (Undisturbed' => Undisturbed) /\ faults' \in [FaultKinds -> 0..MaxFaults]
    BY <1>1, <1>2, SetupFault DEF BoringtunDies
  <2>2. HostTypeOK' /\ (proc' => proc) /\ (iface' => proc') /\ routes' \subseteq routes
    <3>1. CASE proc /\ proc' = FALSE /\ iface' = FALSE /\ routes' = Left /\ UNCHANGED stale
      BY <1>1, <1>2, <2>1, <3>1 DEF BoringtunDies, Left, HostTypeOK, installation
    <3>2. CASE stale' = FALSE /\ routes' = routes \ held /\ UNCHANGED <<proc, iface>>
      BY <1>1, <1>2, <2>1, <3>2 DEF BoringtunDies, HostTypeOK, HostCoherent, installation
    <3> QED BY <1>2, <3>1, <3>2 DEF BoringtunDies
  <2> QED BY <1>2, <2>1, <2>2, LessOnHost DEF BoringtunDies
<1>3. CASE BoringtunExits
  <2>1. HostTypeOK' /\ (proc' => proc) /\ (iface' => proc') /\ routes' \subseteq routes
        /\ (Undisturbed' => Undisturbed)
    BY <1>1, <1>3 DEF BoringtunExits, HostTypeOK, Undisturbed, installation
  <2> QED BY <1>3, <2>1, LessOnHost DEF BoringtunExits
<1> QED BY <1>2, <1>3

\* With sudo more is possible, and without it nothing is promised.
LEMMA SudoStep ==
    ASSUME IInv, SudoGranted \/ SudoLapses
    PROVE  IInv'
<1> USE DEF installation, host, tunnels, checker, window
<1>1. AppTypeOK' /\ Holders' /\ CleanupListed' /\ HostCoherent'
  BY DEF SudoGranted, SudoLapses, IInv, TypeOK, AppTypeOK, Holders, CleanupListed, HostCoherent
<1>2. CASE SudoGranted
  <2>1. HostTypeOK' /\ Owned'
    BY <1>2 DEF SudoGranted, IInv, TypeOK, HostTypeOK, Owned, Undisturbed
  <2> QED BY <1>1, <2>1 DEF IInv, TypeOK
<1>3. CASE SudoLapses
  <2>1. faults' \in [FaultKinds -> 0..MaxFaults] /\ ~Undisturbed'
    BY <1>3, FaultCounted DEF SudoLapses, IInv, TypeOK, HostTypeOK, FaultKinds
  <2>2. HostTypeOK' /\ Owned'
    BY <1>3, <2>1 DEF SudoLapses, IInv, TypeOK, HostTypeOK, Owned
  <2> QED BY <1>1, <2>2 DEF IInv, TypeOK
<1> QED BY <1>2, <1>3

\* A command that never ends keeps the mutex, and everything stays as it is.
LEMMA CommandHangsStep ==
    ASSUME IInv, CommandHangs
    PROVE  IInv'
<1> USE DEF installation, host, tunnels, checker, window
<1>0. con \in ConnectCommand /\ dis \in DisconnectCommand /\ HostTypeOK
  BY DEF IInv, TypeOK, AppTypeOK
<1>1. (Undisturbed' => Undisturbed) /\ HostTypeOK'
  BY <1>0, SetupFault DEF CommandHangs, HostTypeOK
<1>2. /\ con' \in ConnectCommand /\ con'.at = con.at /\ con'.cleanup = con.cleanup
      /\ con'.saved = con.saved /\ con'.todo = con.todo
      /\ dis' \in DisconnectCommand /\ dis'.at = dis.at /\ dis'.saved = dis.saved
  <2>1. CASE con' = [con EXCEPT !.hung = TRUE] /\ UNCHANGED dis
    BY <1>0, <2>1 DEF ConnectCommand
  <2>2. CASE dis' = [dis EXCEPT !.hung = TRUE] /\ UNCHANGED con
    BY <1>0, <2>2 DEF DisconnectCommand
  <2> QED BY <2>1, <2>2 DEF CommandHangs
<1>3. AppTypeOK'
  BY <1>2 DEF CommandHangs, IInv, TypeOK, AppTypeOK
<1>4. Holders'
  <2>1. CASE /\ con.at \in SetUp \cup {"rollback"} \/ (con.at = "queued" /\ lock = None /\ ctx = None)
             /\ con' = [con EXCEPT !.hung = TRUE] /\ lock' = "connect" /\ UNCHANGED dis
    <3>1. con'.hung
      BY <1>0, <2>1 DEF ConnectCommand
    <3>2. dis.at \notin TearDown
      BY <2>1, ClientConstants DEF IInv, Holders
    <3> QED BY <1>2, <2>1, <3>1, <3>2 DEF CommandHangs, IInv, Holders
  <2>2. CASE UNCHANGED <<con, lock>>
    BY <1>2, <2>2 DEF CommandHangs, IInv, Holders
  <2> QED BY <2>1, <2>2 DEF CommandHangs
<1>5. CleanupListed' /\ HostCoherent'
  BY <1>2 DEF CommandHangs, IInv, CleanupListed, HostCoherent
<1>6. Owned'
  BY <1>1, <1>2 DEF CommandHangs, IInv, Owned
<1> QED BY <1>1, <1>3, <1>4, <1>5, <1>6 DEF IInv, TypeOK

\* After a crash nothing is promised about the host; the application starts afresh.
LEMMA AppCrashStep ==
    ASSUME IInv, AppCrash
    PROVE  IInv'
<1> USE DEF installation, host, tunnels, checker, window
<1>1. AppTypeOK' /\ Holders'
  BY IdleTyped, ClientConstants DEF AppCrash, IInv, TypeOK, AppTypeOK, Holders, SetUp, TearDown
<1>2. CleanupListed'
  <2>1. ~(Len(<<>>) > 1)
    OBVIOUS
  <2> QED BY <2>1, IdleTyped DEF AppCrash, CleanupListed, SetUp
<1>3. /\ faults' \in [FaultKinds -> 0..MaxFaults] /\ ~Undisturbed'
  BY FaultCounted DEF AppCrash, IInv, TypeOK, HostTypeOK, FaultKinds
<1>4. HostTypeOK' /\ HostCoherent' /\ Owned'
  BY <1>3, IdleTyped DEF AppCrash, IInv, TypeOK, HostTypeOK, HostCoherent, Owned, SetUp
<1> QED BY <1>1, <1>2, <1>4 DEF IInv, TypeOK

LEMMA StutterStep ==
    ASSUME IInv, UNCHANGED vars
    PROVE  IInv'
  BY DEF vars, installation, host, tunnels, checker, window, IInv, TypeOK, HostTypeOK, AppTypeOK,
     Holders, CleanupListed, HostCoherent, Owned, Undisturbed

\* Every step keeps the invariant.
LEMMA StepInv == IInv /\ [Next]_vars => IInv'
<1> SUFFICES ASSUME IInv, [Next]_vars PROVE IInv'
  OBVIOUS
<1>1. CASE ConnectStep
  BY <1>1, ConnectAskedStep, ConnectEndsStep, ConnectSpawnStep, ConnectConfigureStep,
     ConnectSaveStep, ConnectRouteStep, ConnectDnsStep, ConnectRollbackStep DEF ConnectStep
<1>2. CASE DisconnectTask
  <2>1. CASE DisconnectStep("routes", "interface")
    BY <2>1, DisconnectUndoStep
  <2>2. CASE DisconnectStep("interface", "kill")
    BY <2>2, DisconnectUndoStep
  <2>3. CASE DisconnectStep("kill", "done")
    BY <2>3, DisconnectUndoStep
  <2> QED BY <1>2, <2>1, <2>2, <2>3, DisconnectBeginStep, DisconnectDnsStep, WindowStep
          DEF DisconnectTask
<1>3. CASE UNCHANGED vars
  BY <1>3, StutterStep
<1> QED BY <1>1, <1>2, <1>3, ConnectAskedStep, WindowStep, BoringtunEndsStep, SudoStep,
           CommandHangsStep, AppCrashStep DEF Next

\* It holds always.
LEMMA InvariantHolds == Spec => []IInv
  BY InitInv, StepInv, PTL DEF Spec

\* Every variable keeps its type; in particular the health check's count of dead
\* rounds stays below three, as in the loop of spawn_health_check.
THEOREM TypeCorrect == Spec => []TypeOK
<1>1. IInv => TypeOK
  BY DEF IInv
<1> QED BY <1>1, InvariantHolds, PTL

\* Whatever fails during a connection and whenever boringtun dies: with neither a
\* context nor a command under way (after Cleanup::run or disconnect), the user's
\* DNS is back and the routes into the interface are gone, and so are process and
\* interface if sudo launched them.
THEOREM HostIsRestored == Spec => []HostRestored
<1>1. IInv => HostRestored
  <2> SUFFICES ASSUME IInv, Undisturbed, lock = None, ctx = None
               PROVE  /\ dns = "user" /\ routes \subseteq Persistent
                      /\ launch # "prompt" => ~proc /\ ~iface
    BY DEF HostRestored
  <2>1. con.at \notin SetUp \cup {"rollback"} /\ dis.at \notin TearDown
    BY ClientConstants DEF IInv, Holders
  <2>2. con.at \notin {"routes", "dns", "rollback"} /\ dis.at # "dns"
    BY <2>1 DEF SetUp, TearDown
  <2>3. dns = "user" /\ routes \subseteq Persistent /\ (launch # "prompt" => ~proc)
    BY <2>1, <2>2 DEF IInv, TypeOK, HostTypeOK, Owned
  <2> QED BY <2>3 DEF IInv, HostCoherent
<1> QED BY <1>1, InvariantHolds, PTL

------------------------------------------------------------------------------
(* What the window shows *)

\* The entries still to be added, without the first.
LEMMA TodoShrinks ==
    ASSUME NEW s \in Seq(RouteNames), s # <<>>
    PROVE  /\ Len(s) > 1 => Range(s) = {Head(s)} \cup Range(Tail(s))
           /\ ~(Len(s) > 1) => Range(s) = {Head(s)}
<1>1. /\ Len(s) \in Nat \ {0} /\ DOMAIN s = 1..Len(s) /\ Head(s) = s[1]
  OBVIOUS
<1>2. ASSUME Len(s) > 1 PROVE Range(s) = {Head(s)} \cup Range(Tail(s))
  <2> DEFINE t == Tail(s)
  <2>1. /\ DOMAIN t = 1..(Len(s) - 1) /\ \A i \in 1..(Len(s) - 1) : t[i] = s[i + 1]
    BY <1>1
  <2> HIDE DEF t
  <2>2. ASSUME NEW x \in Range(s) PROVE x \in {Head(s)} \cup Range(t)
    <3>1. PICK i \in 1..Len(s) : x = s[i]
      BY <1>1, <2>2 DEF Range
    <3>2. CASE i = 1 BY <1>1, <3>1, <3>2
    <3>3. CASE i # 1
      <4>1. i - 1 \in 1..(Len(s) - 1) /\ t[i - 1] = x
        BY <1>1, <2>1, <3>1, <3>3
      <4> QED BY <2>1, <4>1 DEF Range
    <3> QED BY <3>2, <3>3
  <2>3. ASSUME NEW x \in Range(t) PROVE x \in Range(s)
    <3>1. PICK i \in 1..(Len(s) - 1) : x = t[i]
      BY <2>1, <2>3 DEF Range
    <3>2. i + 1 \in 1..Len(s) /\ x = s[i + 1]
      BY <1>1, <2>1, <3>1
    <3> QED BY <1>1, <3>2 DEF Range
  <2>4. Head(s) \in Range(s)
    BY <1>1 DEF Range
  <2> QED BY <2>2, <2>3, <2>4 DEF t
<1>3. ASSUME ~(Len(s) > 1) PROVE Range(s) = {Head(s)}
  BY <1>1, <1>3 DEF Range
<1> QED BY <1>2, <1>3

\* What a step that leaves the host and the context alone has to show of Wired.
LEMMA WiredFrame ==
    ASSUME Wired, UNCHANGED <<platform, split, sudo, host, ctx>>,
           con' = con \/ con'.at \notin SetUp,
           dis'.at \in TearDown => dis.at \in TearDown
    PROVE  Wired'
<1> USE DEF installation, host, tunnels
<1>1. RouteSteps' = RouteSteps /\ Tunnelled' = Tunnelled
  BY DEF RouteSteps, Tunnelled
<1>2. con' # con => con'.at \notin {"routes", "dns"}
  BY DEF SetUp
<1> QED BY <1>1, <1>2 DEF Wired

\* The user asks for a connection: the window stops saying connected, or renews.
LEMMA ShownAsked ==
    ASSUME IInv, Shown, Wired, DoConnect \/ DoRenew \/ DoReconnect \/ Paid
    PROVE  Shown' /\ Wired'
<1> USE DEF installation, host, tunnels, checker, window
<1>1. UNCHANGED <<platform, split, sudo, host, ctx, dis>>
  BY DEF DoConnect, DoRenew, DoReconnect, Paid
<1>2. /\ con'.at \in {"idle", "paying", "queued"}
      /\ status' = "connected" => status = "connected" /\ con'.at \in {"idle", "paying"}
  <2>1. CASE DoConnect \/ DoRenew
    BY <2>1, IdleTyped DEF DoConnect, DoRenew, ConnectCommand
  <2>2. CASE DoReconnect
    BY <2>2, IdleTyped DEF DoReconnect, StartTunnel, ConnectCommand
  <2>3. CASE Paid
    BY <2>3, IdleTyped DEF Paid, StartTunnel, ConnectCommand
  <2> QED BY <2>1, <2>2, <2>3
<1>3. Wired'
  BY <1>1, <1>2, WiredFrame DEF SetUp
<1> QED BY <1>1, <1>2, <1>3 DEF Shown

\* The window's other actions: a disconnect is asked for while it says connected.
LEMMA ShownWindow ==
    ASSUME IInv, Shown, Wired, \/ DoClearSession \/ DoDisconnect
                               \/ SessionExpires \/ SessionPolled \/ AutoDisconnect
                               \/ DisconnectReply \/ HealthCheck \/ HealthEmit
    PROVE  Shown' /\ Wired'
<1> USE DEF installation, host, tunnels, checker, window
<1>1. UNCHANGED <<platform, split, sudo, host, ctx, con>>
  BY DEF DoClearSession, DoDisconnect, SessionExpires, SessionPolled, AutoDisconnect,
     DisconnectReply, HealthCheck, HealthEmit
<1>2. \/ dis' = dis /\ status' \in {status, "error"}
      \/ /\ status = "connected" /\ dis.at = "idle" /\ dis'.at = "queued"
         /\ status' = "disconnecting"
      \/ dis'.at = "idle" /\ status' = "disconnected"
  BY IdleTyped DEF DisconnectCommand, DoClearSession, DoDisconnect, SessionExpires,
     SessionPolled, AutoDisconnect, BeginDisconnect, DisconnectReply, HealthCheck, HealthEmit
<1>3. Wired'
  BY <1>1, <1>2, WiredFrame DEF TearDown
<1> QED BY <1>1, <1>2, <1>3 DEF Shown

\* connect_paid is refused, finishes, or is answered.
LEMMA ShownEnds ==
    ASSUME IInv, Shown, Wired, ConnectRefused \/ ConnectFinish \/ ConnectReply
    PROVE  Shown' /\ Wired'
<1> USE DEF installation, host, tunnels, checker, window
<1>0. con \in ConnectCommand
  BY DEF IInv, TypeOK, AppTypeOK
<1>1. UNCHANGED <<platform, split, sudo, host, ctx, dis>>
  BY DEF ConnectRefused, ConnectFinish, ConnectReply
<1>2. CASE ConnectRefused
  <2>1. con'.at = "done" /\ ~con'.ok /\ UNCHANGED status /\ con.at = "queued"
    BY <1>0, <1>2 DEF ConnectRefused, ConnectFails, ConnectCommand
  <2>2. Wired' BY <1>1, <2>1, WiredFrame DEF SetUp
  <2> QED BY <1>1, <2>1, <2>2 DEF Shown
<1>3. CASE ConnectFinish
  <2>1. con'.at = "done" /\ UNCHANGED status /\ con.at = "balance"
    BY <1>0, <1>3 DEF ConnectFinish, ConnectCommand
  <2>2. Wired' BY <1>1, <2>1, WiredFrame DEF SetUp
  <2> QED BY <1>1, <2>1, <2>2 DEF Shown
<1>4. CASE ConnectReply
  <2>1. /\ con.at = "done" /\ con'.at = "idle"
        /\ status' = "connected" => con.ok
    BY <1>4, IdleTyped DEF ConnectReply, ReplyStatus
  <2>2. Wired' BY <1>1, <2>1, WiredFrame DEF SetUp
  <2> QED BY <1>1, <2>1, <2>2 DEF Shown
<1> QED BY <1>2, <1>3, <1>4

\* A command of connect_paid that sets up or undoes leaves the window alone.
LEMMA ShownHeld ==
    ASSUME Shown, UNCHANGED <<ctx, dis, status>>, con.at \notin {"idle", "paying"},
           con'.at \in SetUp \cup {"rollback"} \/ (con'.at = "done" /\ ~con'.ok)
    PROVE  Shown'
<1>1. con'.at # "balance" /\ ~(con'.at = "done" /\ con'.ok)
  BY DEF SetUp
<1> QED BY <1>1 DEF Shown

\* Cleanup::run is about to undo what was set up.
LEMMA ShownRollback ==
    ASSUME IInv, Shown, Wired, con.at \in SetUp, Rollback,
           UNCHANGED <<installation, ctx, dis, status>>
    PROVE  Shown' /\ Wired'
<1> USE DEF installation, host, tunnels
<1>1. con'.at = "rollback"
  BY DEF Rollback, IInv, TypeOK, AppTypeOK, ConnectCommand
<1>2. Shown'
  BY <1>1, ShownHeld DEF SetUp
<1>3. Wired'
  BY <1>1, WiredFrame DEF Rollback, SetUp
<1> QED BY <1>2, <1>3

LEMMA ShownSpawn == ASSUME IInv, Shown, Wired, ConnectSpawn PROVE Shown' /\ Wired'
<1> USE DEF installation, host, tunnels, checker, window
<1>0. con \in ConnectCommand /\ con.at = "queued" /\ ctx = None /\ UNCHANGED <<ctx, dis, status>>
  BY DEF IInv, TypeOK, AppTypeOK, ConnectSpawn
<1>1. CASE /\ Launched(IF sudo THEN "sudo" ELSE "prompt")
           /\ con' = [con EXCEPT !.at = "configure", !.cleanup = <<"kill">>]
  <2>1. con'.at = "configure" BY <1>0, <1>1 DEF ConnectCommand
  <2>2. Shown' BY <1>0, <2>1, ShownHeld DEF SetUp
  <2>3. iface' BY <1>1 DEF Launched
  <2>4. Wired' BY <1>0, <2>1, <2>3 DEF Wired, SetUp
  <2> QED BY <2>2, <2>4
<1>2. CASE ConnectFails
  <2>1. con'.at = "done" /\ ~con'.ok BY <1>0, <1>2 DEF ConnectFails, ConnectCommand
  <2>2. Shown' BY <1>0, <2>1, ShownHeld
  <2>3. Wired' BY <1>0, <2>1 DEF Wired, SetUp
  <2> QED BY <2>2, <2>3
<1> QED BY <1>1, <1>2 DEF ConnectSpawn

LEMMA ShownConfigure == ASSUME IInv, Shown, Wired, ConnectConfigure PROVE Shown' /\ Wired'
<1> USE DEF installation, host, tunnels, checker, window
<1>0. /\ con \in ConnectCommand /\ con.at = "configure" /\ ctx = None
      /\ UNCHANGED <<platform, split, sudo, ctx, dis, status>>
  BY DEF IInv, TypeOK, AppTypeOK, Holders, ConnectConfigure, SetUp
<1>1. CASE /\ con' = [con EXCEPT !.at = "save", !.cleanup = Append(@, "interface")]
           /\ UNCHANGED host
  <2>1. con'.at = "save" BY <1>0, <1>1 DEF ConnectCommand
  <2>2. Shown' BY <1>0, <2>1, ShownHeld DEF SetUp
  <2>3. Wired' BY <1>0, <1>1, <2>1 DEF Wired, SetUp
  <2> QED BY <2>2, <2>3
<1>2. CASE Rollback
  BY <1>0, <1>2, ShownRollback DEF SetUp
<1> QED BY <1>1, <1>2 DEF ConnectConfigure

LEMMA ShownSave == ASSUME IInv, Shown, Wired, ConnectSave PROVE Shown' /\ Wired'
<1> USE DEF installation, host, tunnels, checker, window
<1>0. /\ con \in ConnectCommand /\ con.at = "save" /\ ctx = None /\ dns \in {"user", "vpn"}
      /\ UNCHANGED <<platform, split, sudo, ctx, dis, status>>
  BY DEF IInv, TypeOK, HostTypeOK, AppTypeOK, Holders, ConnectSave, SetUp
<1>1. CASE /\ con' = [con EXCEPT !.at = "routes", !.saved = dns, !.todo = RouteSteps]
           /\ UNCHANGED host
  <2>1. con'.at = "routes" /\ con'.saved # None /\ con'.todo = RouteSteps
    BY <1>0, <1>1, ClientConstants DEF ConnectCommand
  <2>2. Shown' BY <1>0, <2>1, ShownHeld DEF SetUp
  <2>3. RouteSteps' = RouteSteps BY <1>0 DEF RouteSteps
  <2>4. Wired' BY <1>0, <1>1, <2>1, <2>3 DEF Wired, SetUp
  <2> QED BY <2>2, <2>4
<1>2. CASE Rollback
  BY <1>0, <1>2, ShownRollback DEF SetUp
<1> QED BY <1>1, <1>2 DEF ConnectSave

\* With the last entry added the table is complete.
LEMMA ShownRoute == ASSUME IInv, Shown, Wired, ConnectRoute PROVE Shown' /\ Wired'
<1> USE DEF installation, host, tunnels, checker, window
<1>0. /\ con \in ConnectCommand /\ con.at = "routes" /\ ctx = None
      /\ con.todo \in Seq(RouteNames) /\ con.todo # <<>>
      /\ UNCHANGED <<platform, split, sudo, ctx, dis, status>>
  BY DEF IInv, TypeOK, AppTypeOK, ConnectCommand, Holders, ConnectRoute, SetUp
<1>1. RouteSteps' = RouteSteps
  BY <1>0 DEF RouteSteps
<1>2. CASE /\ routes' = routes \cup {Head(con.todo)} /\ con' = RouteAdded
           /\ UNCHANGED <<proc, iface, held, dns>>
  <2>1. /\ proc => iface
        /\ proc /\ held = {} => Range(RouteSteps) \subseteq routes \cup Range(con.todo)
    BY <1>0 DEF Wired, SetUp
  <2>2. con.saved # None
    BY <1>0 DEF Wired
  <2>3. CASE Len(con.todo) > 1
    <3>1. con'.at = "routes" /\ con'.saved = con.saved /\ con'.todo = Tail(con.todo)
      BY <1>0, <1>2, <2>3 DEF RouteAdded, ConnectCommand
    <3>2. Range(con.todo) = {Head(con.todo)} \cup Range(con'.todo)
      BY <1>0, <2>3, <3>1, TodoShrinks
    <3>3. Range(RouteSteps) \subseteq routes \cup Range(con.todo)
             => Range(RouteSteps)' \subseteq routes' \cup Range(con'.todo)
      BY <1>1, <1>2, <3>2
    <3>4. Wired' BY <1>0, <1>1, <1>2, <2>1, <2>2, <3>1, <3>3 DEF Wired
    <3> QED BY <1>0, <3>1, <3>4, ShownHeld DEF SetUp
  <2>4. CASE ~(Len(con.todo) > 1)
    <3>1. con'.at = "dns" /\ con'.saved = con.saved
      BY <1>0, <1>2, <2>4 DEF RouteAdded, ConnectCommand
    <3>2. Range(con.todo) = {Head(con.todo)}
      BY <1>0, <2>4, TodoShrinks
    <3>3. Range(RouteSteps) \subseteq routes \cup Range(con.todo)
             => Range(RouteSteps)' \subseteq routes'
      BY <1>1, <1>2, <3>2
    <3>4. Wired' BY <1>0, <1>1, <1>2, <2>1, <2>2, <3>1, <3>3 DEF Wired
    <3> QED BY <1>0, <3>1, <3>4, ShownHeld DEF SetUp
  <2> QED BY <2>3, <2>4
<1>3. CASE Rollback
  BY <1>0, <1>3, ShownRollback DEF SetUp
<1> QED BY <1>2, <1>3 DEF ConnectRoute

\* The context is stored once routes and DNS are in place.
LEMMA ShownDns == ASSUME IInv, Shown, Wired, ConnectDns PROVE Shown' /\ Wired'
<1> USE DEF installation, host, tunnels, checker, window
<1>0. /\ con \in ConnectCommand /\ con.at = "dns" /\ lock = "connect" /\ ctx = None
      /\ con.saved # None /\ dis \in DisconnectCommand
      /\ UNCHANGED <<platform, split, sudo, dis, status>>
  BY DEF IInv, TypeOK, AppTypeOK, Holders, Wired, ConnectDns, SetUp
<1>1. CASE Established /\ (split \/ platform = "resolvconf" \/ dns' = "vpn")
  <2>1. con'.at = "balance" /\ ctx' = con.saved /\ UNCHANGED <<proc, iface, held, routes>>
    BY <1>0, <1>1 DEF Established, ConnectCommand
  <2>2. dis.at \in {"idle", "done"}
    <3>1. dis.at # "queued" BY <1>0 DEF Shown
    <3>2. dis.at \notin TearDown BY <1>0, ClientConstants DEF IInv, Holders
    <3> QED BY <1>0, <3>1, <3>2 DEF DisconnectCommand, TearDown
  <2>3. Shown'
    BY <1>0, <2>1, <2>2 DEF Shown
  <2>4. RouteSteps' = RouteSteps
    BY <1>0 DEF RouteSteps
  <2>5. proc /\ held = {} => Tunnelled'
    BY <1>0, <1>1, <2>1, <2>4 DEF Wired, Tunnelled, SetUp
  <2>6. Wired'
    BY <1>0, <2>1, <2>2, <2>5 DEF Wired, SetUp, TearDown
  <2> QED BY <2>3, <2>6
<1>2. CASE Rollback /\ UNCHANGED ctx
  BY <1>0, <1>2, ShownRollback DEF SetUp
<1> QED BY <1>1, <1>2 DEF ConnectDns

LEMMA ShownUndone == ASSUME IInv, Shown, Wired, ConnectRollback PROVE Shown' /\ Wired'
<1> USE DEF installation, host, tunnels, checker, window
<1>0. /\ con \in ConnectCommand /\ con.at = "rollback" /\ ctx = None
      /\ UNCHANGED <<platform, split, sudo, ctx, dis, status>>
  BY DEF IInv, TypeOK, AppTypeOK, Holders, ConnectRollback, SetUp
<1>1. con'.at = "rollback" \/ (con'.at = "done" /\ ~con'.ok)
  BY <1>0 DEF ConnectRollback, ConnectFails, ConnectCommand
<1>2. Shown'
  BY <1>0, <1>1, ShownHeld
<1>3. Wired'
  BY <1>0, <1>1 DEF Wired, SetUp
<1> QED BY <1>2, <1>3

\* A disconnect that holds the mutex has taken the context, and leaves the window
\* alone until it is answered.
LEMMA ShownDisconnect ==
    ASSUME IInv, Shown, Wired,
           \/ DisconnectBegin \/ DisconnectDns \/ DisconnectStep("routes", "interface")
           \/ DisconnectStep("interface", "kill") \/ DisconnectStep("kill", "done")
    PROVE  Shown' /\ Wired'
<1> USE DEF installation, host, tunnels, checker, window
<1>0. dis \in DisconnectCommand /\ UNCHANGED <<con, status, platform, split, sudo>>
  BY DEF IInv, TypeOK, AppTypeOK, DisconnectBegin, DisconnectDns, DisconnectStep
<1>1. CASE DisconnectBegin
  <2>1. /\ dis.at = "queued" /\ con.at \notin SetUp
        /\ dis'.at \in {"dns", "done"} /\ (ctx' = None \/ UNCHANGED ctx)
        /\ dis'.at = "dns" => ctx' = None
        /\ con.at # "balance" /\ ~(con.at = "done" /\ con.ok)
    BY <1>0, <1>1, IdleTyped, ClientConstants DEF DisconnectBegin, DisconnectCommand, IInv,
       Holders, Shown
  <2>2. ctx' # None => Tunnelled' = Tunnelled /\ UNCHANGED <<proc, held, ctx>>
    <3>1. UNCHANGED host BY <1>1 DEF DisconnectBegin
    <3>2. RouteSteps' = RouteSteps BY <1>0 DEF RouteSteps
    <3> QED BY <1>0, <2>1, <3>1, <3>2 DEF Tunnelled
  <2>3. Shown'
    BY <1>0, <2>1 DEF Shown
  <2>4. con'.at \notin {"routes", "dns"} /\ con'.at \notin SetUp
    BY <1>0, <2>1 DEF SetUp
  <2>5. Wired'
    BY <2>1, <2>2, <2>4 DEF Wired, TearDown
  <2> QED BY <2>3, <2>5
<1>2. CASE \/ DisconnectDns \/ DisconnectStep("routes", "interface")
           \/ DisconnectStep("interface", "kill") \/ DisconnectStep("kill", "done")
  <2>1. /\ dis.at \in TearDown
        /\ dis'.at \in {"routes", "interface", "kill", "done"} /\ UNCHANGED ctx
    BY <1>0, <1>2 DEF DisconnectDns, DisconnectStep, DisconnectCommand, TearDown
  <2>2. ctx = None /\ con.at \notin SetUp
    BY <2>1, ClientConstants DEF Wired, IInv, Holders
  <2>3. Shown'
    <3>1. dis.at \notin {"idle", "done"}
      BY <2>1 DEF TearDown
    <3> QED BY <1>0, <2>1, <3>1 DEF Shown
  <2>4. con'.at \notin {"routes", "dns"} /\ con'.at \notin SetUp
    BY <1>0, <2>2 DEF SetUp
  <2>5. Wired'
    BY <2>1, <2>2, <2>4 DEF Wired
  <2> QED BY <2>3, <2>5
<1> QED BY <1>1, <1>2

\* What happens to the client: a dead boringtun or a new start of the application
\* takes what was promised with it.
LEMMA ShownEnvironment ==
    ASSUME IInv, Shown, Wired,
           \/ BoringtunDies \/ BoringtunExits \/ SudoGranted \/ SudoLapses \/ CommandHangs
           \/ AppCrash \/ UNCHANGED vars
    PROVE  Shown' /\ Wired'
<1> USE DEF installation, host, tunnels, checker, window
<1>1. CASE BoringtunDies \/ BoringtunExits
  <2>1. /\ UNCHANGED <<platform, split, con, dis, status, ctx, held, dns>>
        /\ ~proc' \/ (UNCHANGED <<proc, iface>> /\ (held = {} => routes' = routes))
    <3>1. CASE BoringtunDies
      BY <3>1 DEF BoringtunDies
    <3>2. CASE BoringtunExits
      BY <3>2 DEF BoringtunExits
    <3> QED BY <1>1, <3>1, <3>2
  <2>2. CASE ~proc'
    BY <2>1, <2>2 DEF Shown, Wired
  <2>3. CASE UNCHANGED <<proc, iface>> /\ (held = {} => routes' = routes)
    <3>1. RouteSteps' = RouteSteps
      BY <2>1 DEF RouteSteps
    <3>2. held = {} => Tunnelled' = Tunnelled
      BY <2>1, <2>3, <3>1 DEF Tunnelled
    <3> QED BY <2>1, <2>3, <3>1, <3>2 DEF Shown, Wired
  <2> QED BY <2>1, <2>2, <2>3
<1>2. CASE AppCrash
  <2>1. con'.at = "idle" /\ dis'.at = "idle" /\ status' = "disconnected" /\ ctx' = None
    BY <1>2, IdleTyped DEF AppCrash
  <2> QED BY <2>1 DEF Shown, Wired, SetUp, TearDown
<1>3. CASE SudoGranted \/ SudoLapses \/ CommandHangs \/ UNCHANGED vars
  <2>1. /\ UNCHANGED <<platform, split, host, ctx, status>>
        /\ con'.at = con.at /\ con'.ok = con.ok /\ con'.saved = con.saved /\ con'.todo = con.todo
        /\ dis'.at = dis.at
    <3>1. con \in ConnectCommand /\ dis \in DisconnectCommand
      BY DEF IInv, TypeOK, AppTypeOK
    <3>2. CASE CommandHangs
      BY <3>1, <3>2 DEF CommandHangs, ConnectCommand, DisconnectCommand
    <3> QED BY <1>3, <3>2 DEF SudoGranted, SudoLapses, vars
  <2>2. RouteSteps' = RouteSteps
    BY <2>1 DEF RouteSteps
  <2>3. Tunnelled' = Tunnelled
    BY <2>1, <2>2 DEF Tunnelled
  <2> QED BY <2>1, <2>2, <2>3 DEF Shown, Wired
<1> QED BY <1>1, <1>2, <1>3

\* Every step keeps what the window's connection rests on.
LEMMA StepShown == IInv /\ Shown /\ Wired /\ [Next]_vars => Shown' /\ Wired'
<1> SUFFICES ASSUME IInv, Shown, Wired, [Next]_vars PROVE Shown' /\ Wired'
  OBVIOUS
<1>1. CASE ConnectStep
  BY <1>1, ShownAsked, ShownEnds, ShownSpawn, ShownConfigure, ShownSave, ShownRoute,
     ShownDns, ShownUndone DEF ConnectStep
<1>2. CASE DisconnectTask
  BY <1>2, ShownDisconnect, ShownWindow DEF DisconnectTask
<1> QED BY <1>1, <1>2, ShownAsked, ShownWindow, ShownEnvironment DEF Next

\* Whatever the window says, how a connect and a disconnect overlap and which
\* commands fail: a connection it shows can be disconnected, and while boringtun
\* lives routes and DNS of the mode are in place, unless entries of an earlier
\* boringtun were in the way.
THEOREM ShownTunnelIsUp == Spec => []ShownIsTunnelled
<1>1. Init => Shown /\ Wired
  BY DEF Init, Shown, Wired, ConIdle, DisIdle, SetUp
<1>2. IInv /\ Shown /\ Wired /\ [Next]_vars => Shown' /\ Wired'
  BY StepShown
<1>3. Shown /\ Wired => ShownIsTunnelled
  BY DEF Shown, Wired, ShownIsTunnelled
<1> QED BY <1>1, <1>2, <1>3, InvariantHolds, PTL DEF Spec
==============================================================================
