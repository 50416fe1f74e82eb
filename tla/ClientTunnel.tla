---------------------------- MODULE ClientTunnel ----------------------------
(***************************************************************************)
(* The desktop client: the window (App.tsx), the commands behind it        *)
(* (lib.rs) and the VPN manager (vpn.rs) that changes the host: a          *)
(* boringtun process with its interface, routes and DNS servers.           *)
(*                                                                         *)
(* connect_paid and disconnect take turns on the manager's mutex but emit  *)
(* their events outside it; a health check runs beside them.  Any command  *)
(* on the host may fail or never end, sudo may stop working without a      *)
(* password, boringtun may die, and so may the application, which leaves   *)
(* the host as it is.  boringtun and all it sets up belong to root; the    *)
(* application does not.                                                   *)
(***************************************************************************)
EXTENDS Integers, Sequences, Functions

CONSTANTS
    Platforms,   \* "macos", "linux" or "resolvconf" (Linux with resolvconf)
    Faults,      \* what may go wrong: kinds of faults out of FaultKinds
    MaxFaults,   \* bound: number of such faults
    None         \* absent value

\* A command that sets up or undoes something fails; boringtun dies; the
\* application dies; sudo asks for a password again; a command never ends.
FaultKinds == {"setup", "teardown", "death", "crash", "lapse", "hang"}

ASSUME ClientConstants ==
    /\ Platforms \subseteq {"macos", "linux", "resolvconf"}
    /\ Faults \subseteq FaultKinds
    /\ MaxFaults \in Nat
    /\ None \notin {"user", "vpn", "connect", "disconnect", "sudo", "prompt"}

VARIABLES
    platform, split,  \* of this installation: the system, use_split_tunnel
    sudo,             \* sudo -n works: no password is asked for
    proc,             \* the client boringtun launched last runs
    iface,            \* its interface exists
    launch,           \* how it was launched: sudo -n, macOS's admin prompt, None
    stale,            \* an earlier one runs beside it
    held,             \* the entries an earlier one had when this one was launched
    routes,           \* the routing entries of the client
    dns,              \* the resolver in use: the user's own or the VPN's
    record,           \* resolvconf has an entry for tun.xelt
    faults,           \* faults so far, by kind
    ctx,              \* VpnManager.ctx, as the DNS setting it saved, or None
    lock,             \* the command that holds the manager's mutex
    con,              \* connect_paid
    dis,              \* disconnect
    health,           \* the health check of the connection
    errorDue,         \* a health check is about to emit its error event
    status, busy,     \* of the window
    session           \* sessionInfo: a session with time left, without, or none

installation == <<platform, split, sudo>>
tunnels == <<proc, iface, launch, stale, held>>
host == <<tunnels, routes, dns, record>>
window == <<status, busy, session>>
checker == <<health, errorDue>>
vars == <<installation, host, faults, ctx, lock, con, dis, checker, window>>

\* configure_full_tunnel, entry by entry.
RouteSteps ==
    CASE split -> <<"subnet">>
      [] ~split /\ platform = "macos" -> <<"host", "low", "high">>
      [] OTHER -> <<"fwmark", "rule", "default", "suppress">>

\* These entries do not go away with the interface.
Persistent == {"host", "rule", "suppress"}

ConIdle == [at |-> "idle", by |-> None, todo |-> <<>>, saved |-> None,
            cleanup |-> <<>>, ok |-> FALSE, hung |-> FALSE]

DisIdle == [at |-> "idle", saved |-> None, hung |-> FALSE]

HealthOff == [on |-> FALSE, dead |-> 0]

Init ==
    /\ platform \in Platforms /\ split \in BOOLEAN /\ sudo \in BOOLEAN
    /\ proc = FALSE /\ iface = FALSE /\ launch = None /\ stale = FALSE
    /\ held = {} /\ routes = {} /\ dns = "user" /\ record = FALSE
    /\ faults = [f \in FaultKinds |-> 0]
    /\ ctx = None /\ lock = None
    /\ con = ConIdle /\ dis = DisIdle
    /\ health = HealthOff /\ errorDue = FALSE
    /\ status = "disconnected" /\ busy = FALSE /\ session = "none"

Fault(f) ==
    /\ f \in Faults
    /\ faults.setup + faults.teardown + faults.death + faults.crash + faults.lapse
          + faults.hang < MaxFaults
    /\ faults' = [faults EXCEPT ![f] = @ + 1]

\* A command on the host ends without a fault.
Works == UNCHANGED faults

\* run_sudo: sudo -n, and on macOS the admin prompt when sudo wants a password.
Privileged == sudo \/ platform = "macos"

SetUp == {"configure", "save", "routes", "dns"}

TearDown == {"dns", "routes", "interface", "kill"}
------------------------------------------------------------------------------
(* The window *)

HasActiveSession == status # "connected" /\ session = "active"

\* doConnect, up to the answer of the payment.
DoConnect ==
    /\ ~busy /\ status # "connected" /\ ~HasActiveSession
    /\ busy' = TRUE
    /\ con' = [ConIdle EXCEPT !.at = "paying", !.by = "buy"]
    /\ UNCHANGED <<installation, host, faults, ctx, lock, dis, checker, status, session>>

\* startTunnel invokes connect_paid, which first emits Connecting.
StartTunnel(by) ==
    /\ con' = [ConIdle EXCEPT !.at = "queued", !.by = by]
    /\ status' = "connecting" /\ busy' = TRUE

DoRenew ==
    /\ ~busy /\ status = "connected"
    /\ busy' = TRUE
    /\ con' = [ConIdle EXCEPT !.at = "paying", !.by = "renew"]
    /\ UNCHANGED <<installation, host, faults, ctx, lock, dis, checker, status, session>>

\* payAndRetry returns or throws; a poll shows the session that was paid for.
Paid ==
    /\ con.at = "paying"
    /\ \/ con.by = "buy" /\ StartTunnel("buy")
       \/ /\ con' = ConIdle /\ busy' = FALSE
          /\ status' = IF con.by = "buy" THEN "disconnected" ELSE status
    /\ UNCHANGED <<installation, host, faults, ctx, lock, dis, checker, session>>

DoReconnect ==
    /\ ~busy /\ HasActiveSession
    /\ StartTunnel("reconnect")
    /\ UNCHANGED <<installation, host, faults, ctx, lock, dis, checker, session>>

DoClearSession ==
    /\ ~busy /\ HasActiveSession
    /\ session' = "none"
    /\ UNCHANGED <<installation, host, faults, ctx, lock, con, dis, checker, status, busy>>

\* doDisconnect, up to the answer; one disconnect is pending at a time.
BeginDisconnect ==
    /\ dis.at = "idle"
    /\ dis' = [DisIdle EXCEPT !.at = "queued"]
    /\ status' = "disconnecting"

\* The button is there while the window shows a connection.
DoDisconnect ==
    /\ status = "connected" /\ ~busy
    /\ BeginDisconnect
    /\ UNCHANGED <<installation, host, faults, ctx, lock, con, checker, busy, session>>

\* The countdown reaches zero.
SessionExpires ==
    /\ session = "active" /\ session' = "ended"
    /\ UNCHANGED <<installation, host, faults, ctx, lock, con, dis, checker, status, busy>>

\* refreshSession: the server has a session, bought or renewed, or none, on its
\* own clock.
SessionPolled ==
    /\ session' \in {"active", "none"} \ {session}
    /\ UNCHANGED <<installation, host, faults, ctx, lock, con, dis, checker, status, busy>>

\* The effect on secondsLeft and status.
AutoDisconnect ==
    /\ session = "ended" /\ status = "connected"
    /\ session' = "none"
    /\ BeginDisconnect
    /\ UNCHANGED <<installation, host, faults, ctx, lock, con, checker, busy>>
------------------------------------------------------------------------------
(* connect_paid and establish_tunnel *)

\* What is left of the routing entries when the interface goes.
Left == routes \cap (Persistent \cup held)

\* kill_stale_client_boringtun: pkill, which may not signal root's processes, and
\* sudo -n pkill; the interfaces go with the processes.
KillBoringtun ==
    \/ /\ sudo
       /\ proc' = FALSE /\ iface' = FALSE /\ stale' = FALSE /\ held' = {}
       /\ routes' = routes \cap Persistent
       /\ UNCHANGED <<launch, dns, record>>
    \/ ~sudo /\ UNCHANGED host

\* A boringtun is launched by this means, and its interface comes up.  Without
\* sudo -n the earlier ones still run.
Launched(by) ==
    /\ proc' = TRUE /\ iface' = TRUE /\ launch' = by
    /\ IF by = "sudo" THEN stale' = FALSE /\ held' = {} /\ routes' = routes \cap Persistent
       ELSE stale' = (stale \/ proc) /\ held' = routes \ Persistent /\ UNCHANGED routes
    /\ UNCHANGED <<dns, record>>

ConnectFails ==
    /\ con' = [con EXCEPT !.at = "done", !.ok = FALSE]
    /\ lock' = None

Rollback ==
    /\ con' = [con EXCEPT !.at = "rollback"]
    /\ UNCHANGED <<lock, host>>

\* The mutex is taken; with a context the call fails at once.
ConnectRefused ==
    /\ con.at = "queued" /\ lock = None
    /\ ctx # None
    /\ ConnectFails
    /\ UNCHANGED <<installation, host, faults, ctx, dis, checker, window>>

\* kill_stale_client_boringtun, then spawn_client_boringtun: sudo -n, and when that
\* wants a password the admin prompt (macOS) or an error.  Whoever answered the
\* prompt may get the error "PID unknown" with boringtun running.
ConnectSpawn ==
    /\ con.at = "queued" /\ lock = None
    /\ ctx = None
    /\ \/ /\ Privileged /\ Works
          /\ Launched(IF sudo THEN "sudo" ELSE "prompt")
          /\ con' = [con EXCEPT !.at = "configure", !.cleanup = <<"kill">>]
          /\ lock' = "connect"
       \/ ~Privileged /\ Works /\ ConnectFails /\ UNCHANGED host
       \/ Fault("setup") /\ ConnectFails /\ (KillBoringtun \/ UNCHANGED host)
       \/ Privileged /\ ~sudo /\ Fault("setup") /\ ConnectFails /\ Launched("prompt")
    /\ UNCHANGED <<installation, ctx, dis, checker, window>>

\* The process lives, interface and UAPI socket appear, configure_wireguard and
\* configure_interface_ip succeed.  The socket is root's: without sudo -n it may
\* not be reached.
ConnectConfigure ==
    /\ con.at = "configure"
    /\ \/ /\ proc /\ Privileged /\ Works
          /\ con' = [con EXCEPT !.at = "save", !.cleanup = Append(@, "interface")]
          /\ UNCHANGED <<lock, host>>
       \/ (~proc \/ ~sudo) /\ Works /\ Rollback
       \/ Fault("setup") /\ Rollback
    /\ UNCHANGED <<installation, ctx, dis, checker, window>>

\* get_default_gateway and save_original_dns.
ConnectSave ==
    /\ con.at = "save"
    /\ \/ /\ Works
          /\ con' = [con EXCEPT !.at = "routes", !.saved = dns, !.todo = RouteSteps]
          /\ UNCHANGED <<lock, host>>
       \/ Fault("setup") /\ Rollback
    /\ UNCHANGED <<installation, ctx, dis, checker, window>>

\* Adding an entry that exists is an error on Linux; route(8) of macOS may
\* report it or not.
CanAdd(r) ==
    Privileged /\ (r \notin routes \/ platform = "macos") /\ (iface \/ r \in Persistent)

MustAdd(r) == Privileged /\ r \notin routes /\ (iface \/ r \in Persistent)

RouteAdded ==
    IF Len(con.todo) > 1 THEN [con EXCEPT !.todo = Tail(@)]
    ELSE [con EXCEPT !.at = "dns", !.todo = <<>>, !.cleanup = Append(@, "routes")]

ConnectRouteIgnoresErrors ==
    /\ con.at = "routes"
    /\ con' = RouteAdded
    /\ \/ Works /\ CanAdd(Head(con.todo)) /\ routes' = routes \cup {Head(con.todo)}
       \/ Works /\ ~MustAdd(Head(con.todo)) /\ UNCHANGED routes
       \/ Fault("setup") /\ UNCHANGED routes
    /\ UNCHANGED <<installation, tunnels, dns, record, ctx, lock, dis, checker, window>>

\* The next entry of configure_full_tunnel; "teardown routes" is pushed after
\* the last one.
ConnectRoute ==
    LET r == Head(con.todo) IN
    /\ con.at = "routes"
    /\ \/ /\ CanAdd(r) /\ Works
          /\ routes' = routes \cup {r} /\ con' = RouteAdded
          /\ UNCHANGED <<tunnels, dns, record, lock>>
       \/ ~MustAdd(r) /\ Works /\ Rollback
       \/ Fault("setup") /\ Rollback
    /\ UNCHANGED <<installation, ctx, dis, checker, window>>

\* The cleanup is disarmed, the context stored and the health check started.
Established ==
    /\ con' = [con EXCEPT !.at = "balance", !.cleanup = <<>>]
    /\ ctx' = con.saved
    /\ health' = [on |-> TRUE, dead |-> 0]
    /\ UNCHANGED <<tunnels, routes, lock>>

\* set_vpn_dns, unless split_tunnel: networksetup on macOS, sudo -n resolvconf,
\* whose failure goes unnoticed, or a write to /etc/resolv.conf.
ConnectDns ==
    /\ con.at = "dns"
    /\ \/ split /\ Works /\ Established /\ UNCHANGED <<dns, record>>
       \/ /\ ~split /\ (platform = "resolvconf" => sudo) /\ Works
          /\ dns' = "vpn" /\ record' = (record \/ platform = "resolvconf")
          /\ Established
       \/ /\ ~split /\ platform = "resolvconf" /\ ((~sudo /\ Works) \/ Fault("setup"))
          /\ Established /\ UNCHANGED <<dns, record>>
       \/ ~split /\ platform # "resolvconf" /\ Fault("setup") /\ Rollback
             /\ UNCHANGED <<ctx, health>>
    /\ UNCHANGED <<installation, dis, errorDue, window>>

\* The balance query returns, in any way, and the mutex is released.
ConnectFinish ==
    /\ con.at = "balance"
    /\ con' = [con EXCEPT !.at = "done", !.ok = TRUE]
    /\ lock' = None
    /\ UNCHANGED <<installation, host, faults, ctx, dis, checker, window>>
------------------------------------------------------------------------------
(* Undoing *)

TeardownInterface ==
    /\ iface' = FALSE
    /\ routes' = Left
    /\ UNCHANGED <<proc, launch, stale, held, dns, record>>

\* All entries but the mark, which is the interface's; each deletion is a
\* command of its own and any of them may fail.
TeardownRoutes ==
    /\ \/ Privileged /\ Works /\ routes' = routes \cap {"fwmark"}
       \/ Privileged /\ Fault("teardown")
             /\ routes' \in {R \in SUBSET routes : "fwmark" \in routes => "fwmark" \in R}
       \/ ~Privileged /\ Works /\ UNCHANGED routes
    /\ UNCHANGED <<tunnels, dns, record>>

\* A step of a cleanup or of disconnect, whose errors are ignored.
Undo(step) ==
    \/ step = "kill" /\ Works /\ KillBoringtun
    \/ step = "interface" /\ Privileged /\ Works /\ TeardownInterface
    \/ step = "interface" /\ ~Privileged /\ Works /\ UNCHANGED host
    \/ step = "routes" /\ TeardownRoutes
    \/ step # "routes" /\ Fault("teardown") /\ UNCHANGED host

ConnectRollbackKeepsFirst ==
    /\ con.at = "rollback"
    /\ \/ /\ Len(con.cleanup) > 1
          /\ Undo(con.cleanup[Len(con.cleanup)])
          /\ con' = [con EXCEPT !.cleanup = SubSeq(@, 1, Len(@) - 1)]
          /\ UNCHANGED lock
       \/ Len(con.cleanup) <= 1 /\ ConnectFails /\ UNCHANGED <<host, faults>>
    /\ UNCHANGED <<installation, ctx, dis, checker, window>>

\* Cleanup::run, last step first.
ConnectRollback ==
    /\ con.at = "rollback"
    /\ \/ /\ con.cleanup # <<>>
          /\ Undo(con.cleanup[Len(con.cleanup)])
          /\ con' = [con EXCEPT !.cleanup = SubSeq(@, 1, Len(@) - 1)]
          /\ UNCHANGED lock
       \/ con.cleanup = <<>> /\ ConnectFails /\ UNCHANGED <<host, faults>>
    /\ UNCHANGED <<installation, ctx, dis, checker, window>>

\* What the window shows after the event and the answer: doConnect falls back to
\* disconnected, doReconnect leaves the error event's status.
ReplyStatus ==
    CASE con.ok -> "connected"
      [] ~con.ok /\ con.by = "buy" -> "disconnected"
      [] OTHER -> "error"

ConnectReplyBusyOnError ==
    /\ con.at = "done"
    /\ status' = ReplyStatus /\ busy' = ~con.ok
    /\ con' = ConIdle
    /\ UNCHANGED <<installation, host, faults, ctx, lock, dis, checker, session>>

ConnectReply ==
    /\ con.at = "done"
    /\ status' = ReplyStatus /\ busy' = FALSE
    /\ con' = ConIdle
    /\ UNCHANGED <<installation, host, faults, ctx, lock, dis, checker, session>>

\* disconnect takes the context and stops the health check.
DisconnectBegin ==
    /\ dis.at = "queued" /\ lock = None
    /\ \/ ctx = None /\ dis' = [dis EXCEPT !.at = "done"] /\ UNCHANGED <<ctx, lock, health>>
       \/ /\ ctx # None
          /\ dis' = [DisIdle EXCEPT !.at = "dns", !.saved = ctx]
          /\ ctx' = None /\ lock' = "disconnect" /\ health' = HealthOff
    /\ UNCHANGED <<installation, host, faults, con, errorDue, window>>

\* restore_dns, which needs no sudo on Linux; it does not touch resolvconf's own entry.
DisconnectDns ==
    /\ dis.at = "dns" /\ dis' = [dis EXCEPT !.at = "routes"]
    /\ \/ Works /\ dns' = dis.saved
       \/ Fault("teardown") /\ UNCHANGED dns
    /\ UNCHANGED <<installation, tunnels, routes, record, ctx, lock, con, checker, window>>

\* The last step kills and awaits its child.  With the prompt's launch that is a
\* placeholder; else it is sudo, root's process, which the kill does not touch: the
\* call waits until boringtun has ended of itself.
DisconnectStep(step, next) ==
    /\ dis.at = step /\ dis' = [dis EXCEPT !.at = next]
    /\ step = "kill" /\ launch = "sudo" => ~proc
    /\ Undo(step)
    /\ lock' = IF next = "done" THEN None ELSE lock
    /\ UNCHANGED <<installation, ctx, con, checker, window>>

DisconnectReply ==
    /\ dis.at = "done"
    /\ dis' = DisIdle
    /\ status' = "disconnected"
    /\ UNCHANGED <<installation, host, faults, ctx, lock, con, checker, busy, session>>
------------------------------------------------------------------------------
(* The health check, and what happens to the client *)

HealthDetectsNothing == UNCHANGED health

\* pgrep finds a client boringtun, whichever, or sudo -n kill -0 the process
\* launched; a child sudo that nobody waited for keeps its number when it is dead.
SeemsAlive == proc \/ stale \/ (sudo /\ launch = "sudo")

\* The third round in a row without a process is the last.
HealthDetects ==
    health' = CASE SeemsAlive -> [health EXCEPT !.dead = 0]
                [] ~SeemsAlive /\ health.dead < 2 -> [health EXCEPT !.dead = @ + 1]
                [] OTHER -> HealthOff

\* One round.  The first comes after a grace period of ten seconds, the third after
\* 25, by when connect_paid, whose balance query takes ten at most, has answered.
HealthCheck ==
    /\ health.on /\ ~errorDue /\ con.at # "balance" /\ ~con.ok
    /\ HealthDetects
    /\ errorDue' = ~health'.on
    /\ UNCHANGED <<installation, host, faults, ctx, lock, con, dis, window>>

\* Its error event reaches the window, possibly after a disconnect.
HealthEmit ==
    /\ errorDue /\ errorDue' = FALSE
    /\ status' = "error"
    /\ UNCHANGED <<installation, host, faults, ctx, lock, con, dis, health, busy, session>>

\* A client boringtun dies, the one launched last or an earlier one, and its
\* interface goes.
BoringtunDies ==
    /\ Fault("death")
    /\ \/ /\ proc /\ proc' = FALSE /\ iface' = FALSE /\ routes' = Left
          /\ UNCHANGED stale
       \/ /\ stale /\ stale' = FALSE /\ routes' = routes \ held
          /\ UNCHANGED <<proc, iface>>
    /\ UNCHANGED <<installation, launch, held, dns, record, ctx, lock, con, dis, checker, window>>

\* The device ends when its interface is gone.
BoringtunExits ==
    /\ proc /\ ~iface /\ proc' = FALSE
    /\ UNCHANGED <<installation, iface, launch, stale, held, routes, dns, record, faults, ctx,
                   lock, con, dis, checker, window>>

\* The user runs sudo -v, and its effect wears off.
SudoGranted ==
    /\ ~sudo /\ sudo' = TRUE
    /\ UNCHANGED <<platform, split, host, faults, ctx, lock, con, dis, checker, window>>

SudoLapses ==
    /\ sudo /\ Fault("lapse") /\ sudo' = FALSE
    /\ UNCHANGED <<platform, split, host, ctx, lock, con, dis, checker, window>>

\* The commands run under the mutex are waited for without a limit: one that does
\* not end, an admin prompt nobody answers too, keeps it.
CommandHangs ==
    /\ Fault("hang")
    /\ \/ /\ con.at \in SetUp \cup {"rollback"} \/ (con.at = "queued" /\ lock = None /\ ctx = None)
          /\ con' = [con EXCEPT !.hung = TRUE] /\ lock' = "connect" /\ UNCHANGED dis
       \/ /\ dis.at \in TearDown
          /\ dis' = [dis EXCEPT !.hung = TRUE] /\ UNCHANGED <<con, lock>>
    /\ UNCHANGED <<installation, host, ctx, checker, window>>

\* The application dies and is started again.
AppCrash ==
    /\ Fault("crash")
    /\ ctx' = None /\ lock' = None /\ con' = ConIdle /\ dis' = DisIdle
    /\ health' = HealthOff /\ errorDue' = FALSE
    /\ status' = "disconnected" /\ busy' = FALSE /\ session' = "none"
    /\ UNCHANGED <<installation, host>>

ConnectStep ==
    /\ ~con.hung
    /\ \/ Paid \/ ConnectRefused \/ ConnectSpawn \/ ConnectConfigure \/ ConnectSave
       \/ ConnectRoute \/ ConnectDns \/ ConnectFinish \/ ConnectRollback \/ ConnectReply

DisconnectTask ==
    /\ ~dis.hung
    /\ \/ DisconnectBegin \/ DisconnectDns
       \/ DisconnectStep("routes", "interface")
       \/ DisconnectStep("interface", "kill")
       \/ DisconnectStep("kill", "done")
       \/ DisconnectReply

Next ==
    \/ DoConnect \/ DoRenew \/ DoReconnect \/ DoClearSession \/ DoDisconnect
    \/ SessionExpires \/ SessionPolled \/ AutoDisconnect
    \/ ConnectStep \/ DisconnectTask
    \/ HealthCheck \/ HealthEmit
    \/ BoringtunDies \/ BoringtunExits \/ SudoGranted \/ SudoLapses \/ CommandHangs
    \/ AppCrash

Spec == Init /\ [][Next]_vars

\* Commands that do not hang end, the payment ends, the health check's timer keeps
\* firing, and a boringtun that reads from an interface that is gone ends.
Fairness ==
    /\ WF_vars(ConnectStep) /\ WF_vars(DisconnectTask) /\ WF_vars(BoringtunExits)
    /\ WF_vars(HealthCheck) /\ WF_vars(HealthEmit)

FairSpec == Spec /\ Fairness
------------------------------------------------------------------------------
(* Properties *)

RouteNames == {"subnet", "host", "low", "high", "fwmark", "rule", "default", "suppress"}

ConnectCommand ==
    [at : {"idle", "paying", "queued", "configure", "save", "routes", "dns", "balance",
           "rollback", "done"},
     by : {None, "buy", "renew", "reconnect"}, todo : Seq(RouteNames), saved : {"user", "vpn", None},
     cleanup : Seq({"kill", "interface", "routes"}), ok : BOOLEAN, hung : BOOLEAN]

DisconnectCommand ==
    [at : {"idle", "queued", "dns", "routes", "interface", "kill", "done"},
     saved : {"user", "vpn", None}, hung : BOOLEAN]

HostTypeOK ==
    /\ platform \in Platforms /\ split \in BOOLEAN /\ sudo \in BOOLEAN
    /\ proc \in BOOLEAN /\ iface \in BOOLEAN /\ record \in BOOLEAN
    /\ launch \in {None, "sudo", "prompt"} /\ stale \in BOOLEAN /\ held \subseteq RouteNames
    /\ routes \subseteq RouteNames /\ dns \in {"user", "vpn"}
    /\ faults \in [FaultKinds -> 0..MaxFaults]

AppTypeOK ==
    /\ ctx \in {"user", "vpn", None} /\ lock \in {"connect", "disconnect", None}
    /\ con \in ConnectCommand /\ dis \in DisconnectCommand
    /\ health \in [on : BOOLEAN, dead : 0..2] /\ errorDue \in BOOLEAN
    /\ status \in {"disconnected", "connecting", "connected", "disconnecting", "error"}
    /\ busy \in BOOLEAN /\ session \in {"none", "active", "ended"}

TypeOK == HostTypeOK /\ AppTypeOK

\* No command of the client has failed to undo something, not for want of sudo
\* either, and no crash kept one from trying.
Undisturbed == faults.teardown = 0 /\ faults.crash = 0 /\ faults.lapse = 0

\* Whatever step of establish_tunnel fails and whenever boringtun dies, once the
\* manager has no context and no command runs (after rollback or disconnect) the
\* user's DNS is back and the routes that lead into the interface are gone; process
\* and interface too, if sudo launched it.  After a launch through the admin prompt
\* they may stay: nothing kills them without sudo -n, and a launch that returns an
\* error has nothing on the cleanup list.  Nor does this claim that Persistent
\* entries of a route set-up that failed half way go, or resolvconf's record.
HostRestored ==
    Undisturbed /\ lock = None /\ ctx = None =>
        /\ dns = "user" /\ routes \subseteq Persistent
        /\ launch # "prompt" => ~proc /\ ~iface

Tunnelled ==
    /\ iface /\ Range(RouteSteps) \subseteq routes
    /\ split \/ platform = "resolvconf" \/ dns = "vpn"

\* When the window says connected and no command is pending, there is a
\* connection to disconnect, and as long as boringtun lives all traffic the mode
\* covers takes the tunnel, DNS included (a failing resolvconf goes unnoticed),
\* unless entries of an earlier boringtun were in the way.
ShownIsTunnelled ==
    status = "connected" /\ con.at = "idle" /\ dis.at = "idle" =>
        ctx # None /\ (proc /\ held = {} => Tunnelled)

\* A tunnel whose process died does not go on being shown as connected, unless
\* another client boringtun runs or sudo -n finds the number of the dead child.
DeadTunnelReported ==
    ctx # None /\ ~proc /\ ~stale ~>
        status # "connected" \/ ctx = None \/ (sudo /\ launch = "sudo")

\* Every command has ended so far and every step has been undone that should be.
Calm == faults.teardown = 0 /\ faults.lapse = 0 /\ faults.hang = 0

\* Whoever pressed a button gets an answer: the window does not stay busy, through
\* failing commands, deaths of boringtun and crashes, as long as no command hangs
\* and disconnect's wait for its child is not in vain.
WindowAnswers == busy ~> (~busy \/ ~Calm)
------------------------------------------------------------------------------
(* The inductive invariant behind HostRestored *)

\* Who holds the mutex, and what a connect under way has put on its cleanup list.
Holders ==
    /\ lock = "connect" <=> con.at \in SetUp \cup {"balance", "rollback"} \/ con.hung
    /\ con.hung => con.at \in SetUp \cup {"queued", "rollback"}
    /\ lock = "disconnect" <=> dis.at \in TearDown
    /\ con.at \in SetUp \cup {"rollback"} => ctx = None
    /\ dis.at = "dns" => dis.saved # None
    /\ con.at = "routes" => con.todo # <<>>
    /\ busy <=> con.at # "idle"

CleanupListed ==
    /\ con.at = "configure" => con.cleanup = <<"kill">>
    /\ con.at \in SetUp \ {"configure"} => Len(con.cleanup) > 1
    /\ con.cleanup # <<>> => con.cleanup[1] = "kill"
    /\ Len(con.cleanup) > 1 => con.cleanup[2] = "interface"

\* The interface is the process's; before the first launch nothing is there.
HostCoherent ==
    /\ iface => proc
    /\ con.at \in SetUp => launch # None
    /\ launch = None => ~proc /\ routes \subseteq Persistent
    /\ launch = "prompt" => platform = "macos"

\* Somebody is going to end a boringtun that sudo launched, and to take its
\* interface down while there are routes into it; somebody knows the user's DNS
\* while the VPN's is in use.
Owned ==
    Undisturbed =>
        /\ held = {} /\ (launch = "sudo" => sudo)
        /\ proc /\ launch # "prompt" =>
              \/ ctx # None \/ dis.at \in TearDown
              \/ con.at \in SetUp \cup {"rollback"} /\ con.cleanup # <<>>
        /\ \/ routes \subseteq Persistent
           \/ ctx # None \/ dis.at \in TearDown \ {"kill"}
           \/ con.at \in {"routes", "dns"} \/ (con.at = "rollback" /\ Len(con.cleanup) > 1)
        /\ dns = "vpn" => ctx # None \/ dis.at = "dns"
        /\ ctx # "vpn"
        /\ con.at \in {"routes", "dns"} => con.saved = "user"
        /\ dis.at = "dns" => dis.saved = "user"

IInv == TypeOK /\ Holders /\ CleanupListed /\ HostCoherent /\ Owned

(* The one behind ShownIsTunnelled *)

\* The window says connected from ConnectReply on, and a disconnect is asked for
\* from there only: it finds the context.
Shown ==
    /\ status = "connected" => con.at \in {"idle", "paying"}
    /\ dis.at = "queued" \/ (status = "connected" /\ dis.at = "idle") => ctx # None
    /\ con.at = "balance" \/ (con.at = "done" /\ con.ok) => ctx # None /\ dis.at \in {"idle", "done"}

\* While boringtun lives, an entry of the table is there or still to be added, and
\* what a connection has set up stays until disconnect has taken the context.
Wired ==
    /\ con.at \in {"routes", "dns"} => con.saved # None
    /\ dis.at \in TearDown => ctx = None
    /\ proc /\ con.at \in SetUp => iface
    /\ proc /\ held = {} =>
          /\ con.at = "routes" => Range(RouteSteps) \subseteq routes \cup Range(con.todo)
          /\ con.at = "dns" => Range(RouteSteps) \subseteq routes
          /\ ctx # None => Tunnelled
==============================================================================
