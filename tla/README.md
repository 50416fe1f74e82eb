# Xelt VPN: TLA+ models, model checking and proofs

Xelt sells WireGuard tunnel time by the minute. A desktop client pays USDC on
chain, a resource server (`vpn-server/`, Node) verifies the payment and keeps
the sessions, and a WireGuard server (`protocol/boringtun`, Rust) hands out
tunnel addresses through an HTTP registration API. This directory models the
parts that decide who is let through, for how long and with which address, and
the WireGuard implementation that carries the packets: its sessions, handshakes
and timers, and the threads and sockets of the device it runs in.

## Inventory

| Component | Source | State | Operations | Talks to | What is hard |
|---|---|---|---|---|---|
| Resource server | `vpn-server/index.ts`, `handlers/`, `services/` | sessions, spent hashes | connect, renew, clear, expiry pass | boringtun (HTTP), chain (RPC) | every `await` lets another request or expiry pass in; state is lost on restart |
| Registration API | `device/http_api.rs` | address pool, leases, registration times, key cache | register, unregister, reaper round | device (UAPI socket) | mutex held over calls that time out while their command is still executed; reaper's snapshot is older than its lock |
| Device | `device/mod.rs`, `api.rs`, `peer.rs`, `allowed_ips.rs` | peers, routes, sessions | UAPI get/set, packets, timers | workers share a read/write lock | panic with the write lock held |
| In-tunnel payment | `payment/`, handlers in `device/mod.rs` | quota, blocked, used nonces | charge a packet, ask, submit, settle | client over the tunnel, gateway (HTTP) | lost messages, failing settlement, boundaries of the quota |
| WireGuard protocol | `noise/` | handshake states, session ring, replay window, queue, timers, cookies | handshake, data, timers | peer over UDP | crossing, repeated and late handshakes; window edges; five timers decided in one pass |
| Device lock, event loop | `dev_lock.rs`, `epoll.rs`, `event_loop` | lock, armed events, pending yield, exit | read, upgrade, handle, exit | all workers | everyone waiting on everyone; a handler that panics |
| Device sockets | `device/mod.rs`, `peer.rs`, `epoll.rs` | listeners, a connected socket per peer, fwmark | roam, connect, remove, new port | poll, peers | a socket has two owners that learn of its end at different times |
| Client tunnel | `client/src-tauri/src/vpn.rs`, `lib.rs` | interface, routes, DNS, cleanup list | connect, disconnect, health check | OS commands as root (sudo or admin prompt) | rollback of a partly done set-up, concurrent commands, commands that never end, a process the client may not signal |
| Client window and payment flow | `client/src/App.tsx`, `utils/vpnFlow.ts` | shown status, busy flag, session, countdown | connect, reconnect, renew, disconnect, poll, auto-disconnect | resource server, wallet, tunnel commands | paid but not served; events, answers and the countdown in any order |

What makes each correct: no tunnel time without payment, no payment used twice
and none taken for nothing (resource server); an address belongs to one key,
none is lost, traffic goes to its owner, and idle peers give theirs back
(registration); bytes are charged once and only settled payments buy more
(in-tunnel payment); the user gets the host's network back whatever fails, and
the window does not show a tunnel that is not there (client); a packet is
accepted once and under keys both ends agree on, keys are renewed and retired in
time, and packets do not wait for ever (WireGuard); the device is changed by one
worker with all others outside, commands and exit get through, and sockets follow
their peers (device). `PROJECT.json` lists the components that are left out, with
the reason, and the hazards, each at its line.

## Modules

| Module | Models | State and actions |
|---|---|---|
| `PeerService` | what the registration API promises | `lease`; `Register`, `Release` |
| `VpnServer` | resource server | `sessions`, `spent`, one record per request (`req`) and per expiry pass (`pass`). `Gate` → `Probe` → `ReceiptMatch`/`ReceiptNoMatch` → `ConnectHandler`/`RenewHandler` → `RegisterCall` → `ConnectFinish`/`RenewFinish`; `Clear`, `ClearFinish`; `PassStart`, `PassUnregisters`/`PassThrows`, `PassDelete`; `Restart`. A hash is what the client writes (`Hashes`), and `Tx` gives the transaction it denotes; `credited` and `adrift` are history |
| `Registration` | `http_api.rs` with the device behind its UAPI socket | `RegistrationInner` field by field, the mutex (`lock`), the two threads (`http`, `reaper`), the queue of commands at the socket (`uapi`), the device's `peers`, `peers_by_ip`, sessions |
| `TunnelPayment` | quota and in-tunnel payment of one peer | the fields of `BandwidthQuota`, the messages in the tunnel, the authorizations the gateway executed |
| `ClientTunnel` | the desktop client: window, commands and VPN manager | the host (`proc`, `iface`, `routes`, `dns`, resolvconf's `record`), how boringtun was launched (`launch`) and whether an earlier one runs beside it (`stale`, `held`), whether `sudo -n` works (`sudo`), `ctx` and its mutex, one record per command (`con`, `dis`), the health check, and what the window shows. `ConnectSpawn` → `ConnectConfigure` → `ConnectSave` → `ConnectRoute` (entry by entry) → `ConnectDns` → `ConnectFinish`, with `ConnectRollback` from any of them; `DisconnectBegin` → ... → `DisconnectReply`; `HealthCheck`, `HealthEmit`; `BoringtunDies`, `BoringtunExits`, `SudoGranted`, `SudoLapses`, `CommandHangs`, `AppCrash` |
| `ReplayWindow` | `session.rs`: the receiving counter validator | `next`, `receive_cnt`, `bitmap` as words of bits; `FormatPacketData`, `ReceivePacketData`, `ReceiveForged`; `Mark` is `mark_did_receive` with its three loops (`ClearSkipped`) |
| `Handshake` | two `Tunn`s: `handshake.rs`, handlers of `noise/mod.rs`, `rate_limiter.rs` | per side the handshake states, ring, current index, cookie (`tunn`), the datagrams sent (`net`). `Initiate`, `ReceiveInit`, `ReceiveResponse`, `DemandCookie`, `ReceiveCookie`, `ReceiveData`, `SendData`, expiries, `Recreate` |
| `Tunnel` | one `Tunn` over time: queue, flush, `timers.rs` | `tunn` with its queue and timers, the clock; beside each stamp of a packet the true time of it (`at`), which no guard reads. `SendPacket`, `ReceiveInit`/`Response`/`Data`/`Cookie`, `SetKey`, `UpdateTimers` (`Renewed`, then the branches of `update_timers` in their order) |
| `DeviceLoop` | `event_loop`, `dev_lock.rs`, `epoll.rs` | where each worker is (`pc`), the mutex and mark of `wants_write`, the RwLock, the armed and ready events, the notifiers. `Read`: `Lock::read`; `Upgrade`: `try_writeable` step by step; `Handle`: the handlers; panics |
| `DeviceSockets` | listeners and connected sockets | peers and endpoints, sockets with owner, address, mark, shut down or registered. `Datagram` (roaming and connecting), `RemovePeer`, `ReplacePeers`, `OpenListenSocket`, `SetFwmark`, `ConnectionExpired`, `EndOfFile` |
| `MC*` | instances for TLC | symmetry sets and function constants |
| `*Proofs` | theorems and proofs | |

`VpnServer` uses boringtun through `INSTANCE PeerService`; `Registration` is
shown to implement it (`ImplementsPeerService`), with `lease` mapped to
`peer_to_octet`. So what is proved about the resource server holds with the real
registration API behind it.

One action is what runs without interruption: in `VpnServer` the code between
two awaits, in `Registration` a thread's work between two lock or UAPI
operations, in `TunnelPayment` a packet handler, which holds the peer's mutex to
its end; in `Handshake` and `Tunnel` a packet or a timer pass, which hold that mutex too;
in `DeviceLoop` a step between two operations on a lock or the poll; in `DeviceSockets` a
handler or a set, of which the lock admits one kind at a time; in `ClientTunnel` a command on the host, after each of which boringtun
may die, or a callback of the window. The context stands for the DNS setting it
saved, the only field of it that matters later. Amounts are counted in minutes at the configured price and time in
whole minutes (`VpnServer`) or instants (`Registration`), which keeps the order
of events and thresholds and drops their size. A device whose worker panicked in
`update_peer` serves nothing any more (`panicked`).

The WireGuard layer is in three modules that meet at what they leave open: in
`Handshake` expiry and initiation may come at any time, in `Tunnel` the peer may
answer anything in flight, and the window of a session is a set of counters in
`Handshake`, which `WindowExact` of `ReplayWindow` justifies. In `Handshake` the
ephemeral keys are numbered as they are drawn, and a number stands for the message's
TAI64N stamp and mac1 as well; a message opens exactly with the keys it was sealed
with. The datagrams that were sent are kept as a set, any of which may arrive at
any time, again or never. Whether the device is under load, and so demands a cookie, is a
choice; the code keeps one limiter for the listeners and one per peer for connected
sockets. In `Tunnel` the peer and the interface are the environment, `prompt` singles
out the histories in which the peer answers at once and the timers are never late, and
`configured` those of a peer whose address was known from the start. In `DeviceLoop`
`calm` marks the histories without a panic. The server starts boringtun with
`--disable-connected-udp`, so the connected sockets of `DeviceSockets` are those of the
client's process; both start it with `--disable-drop-privileges`, so `set_mark` succeeds.

Operators whose names say what they get wrong (`CreateLongestSession`,
`CommitRegisterOctetNotTaken`, ...) are variants of the definition that follows
them, as a plausible bug would make it. They are not used by the specifications;
each one shows that the property it is listed with in `PROJECT.json` can fail.

## Runs

Passing runs:

| Run | Properties | Instance |
|---|---|---|
| `server_safety` | `AdmittedIsPaid`, `GrantCovered` | 1 key, 2 requests, 1 pass, 2 transactions, all faults |
| `server_liveness` | `RefusalHasCause`, `RedeemOnceAsWritten`, `RequestAnswered`, `TrackedPeerRemoved` | 1 key, 1 request at a time, 2 passes, proofs of up to 2 hashes out of 3 spellings of 2 transactions, all faults but restarts |
| `registration_safety` | `PoolConsistent`, `NoMisroute`, `InSync`, `PanicNeedsTimeout`, `ImplementsPeerService` | 2 keys, 2 octets, 2 timeouts or errors |
| `registration_liveness` | `MutexReleased`, `LostPeerReleased`, `IdlePeerReaped` | 2 keys, 1 octet, 1 timeout |
| `payment` | `Conservation`, `CreditIsSettled`, `BlockedIsReleased` | all faults, 2 authorizations, IPv4 and IPv6 |
| `client_tunnel` | `HostRestored`, `ShownIsTunnelled`, `WindowAnswers`, `DeadTunnelReported` | macOS, Linux with and without resolvconf, full and split tunnel, with and without passwordless sudo, any 2 faults out of six kinds |
| `replay_window` | `WindowExact`, `NoReplay` | 2 words of 4 bits, counters to 16 |
| `noise_handshake` | `SessionsAgree`, `NonceUnique`, `AnsweredOnce`, `UnconfirmedNeedsWrap` | 2 ends, ring of 2, 5 handshake messages, one fault |
| `noise_tunnel` | `QueueAwaitsHandshake`, `QueueDrains`, `SilenceNoticed`, `KeysRetired`, `KeysLast`, `NoGap` | ring of 2, queue of 2, 3 events, timers up to one unit late |
| `device_loop` | `DeviceStable`, `NoRaceForLock`, `SetIsDone`, `ExitStopsAll` | 3 workers, 2 sets, packets, timer, signal, panics |
| `device_sockets` | `ConnTracksPeer`, `ConnIsCurrent`, `RemovedIsReleased` | 2 keys, 2 addresses, 3 connected and 2 listening sockets |

The type invariants of `VpnServer`, `Registration`, `TunnelPayment` and `ClientTunnel`
are theorems of their own; those of the other modules are the first conjunct of an
invariant of their run (`WindowExact`, `SessionsAgree`, `QueueAwaitsHandshake`,
`DeviceStable`, `ConnTracksPeer`) and proved with it. The type of `Tunnel` says that no
timer is ahead of the clock, without which the subtractions of `update_timers` would
panic.

One run ends in a counterexample to a sentence in the repository (`findings` in
`PROJECT.json` quotes it): `server_replay`, in which two concurrent requests redeem
one transaction. With one request at a time a hash is accepted once as it is written
(`RedeemOnceAsWritten` in `server_liveness`, and the theorem `SerialRedeemsOnce`), which
locates the cause.

Other properties are weaker than a sentence of the repository would have them, because the
code does less; the models contain what happens instead:

| Property | The repository says | What the model, like the code, does |
|---|---|---|
| `RedeemOnceAsWritten` | `paymentVerify.ts:21` "on-chain tx hashes already credited (replay guard)" | the guard compares strings as written: a second spelling of a hash, with digits in the other case, redeems the transaction again, even with one request at a time. `OneSpellingRedeemsOnce` proves that one spelling is all that is missing |
| `TrackedPeerRemoved` | `sessionExpiry.ts:7` "When a paid session expires, remove the WireGuard peer from boringtun." | a session that expires while its renewal waits is dropped by `renewSession`, and no pass sees it any more; three other ways of losing track are named at the property (`adrift`) |
| `HostRestored` | `vpn.rs:13` "On disconnect: reverse all steps, restore original state.", `:14` "On any failure: rollback all completed steps automatically." | a launch through the admin prompt whose process id does not parse fails with boringtun running and nothing on the cleanup list; `restore_dns` leaves resolvconf's record (`record`) |
| `DeadTunnelReported` | `vpn.rs:482` "Check if tunnel is healthy. Used by health check loop." | the loop does not use it: it asks `kill -0`, which a dead sudo child nobody waited for passes, and the window shows a connection for ever (`SeemsAlive`) |
| `SilenceNoticed` | `timers.rs:280` "If a packet has been received from a given peer, but we have not sent one back" ... "in KEEPALIVE ms, we send an empty packet", and `:268` for the handshake | two packets within one interval of the timers get the same stamp, and the strict comparisons never find the second one later |

`SilenceNoticed` is stated in true time (`at`), not in the stamps the guards compare: what
follows the other direction's last packet by more than the timers' delay is answered within
its timeout and that delay. `RefusalHasCause` looks back over the whole request: when a proof is refused,
one of its hashes had been credited to another request, or each was looked up and was not found or
settles too little. A hash that an earlier step of the same request used up would be neither.

### What the models show beside the properties

These behaviours of the code are in the models, and the properties are stated so
as to except them; each has its hazard in `PROJECT.json`.

- An expiry pass deletes by key after its await, whatever is there by then, a
  session bought meanwhile included (`PassDelete`).
- A renewal without a duration may be granted more than it was priced for
  (excepted in `GrantCovered`).
- A `set` whose caller gave up is executed later, and the client's retry then makes
  `update_peer` panic (`PanicNeedsTimeout` shows that it takes a timeout).
- The reaper removes a peer registered between its snapshot and its lock.
- A peer whose quota ends on an inbound IPv6 packet is never asked for payment.
- A connect that fails inside `configure_full_tunnel` leaves the entries added
  before (`Persistent`).
- `disconnect` waits for its sudo child with the manager's mutex held, and its kill does not
  reach root's process: if the interface was not taken down, or a command under the mutex
  never ends, the window stays busy (excepted in `WindowAnswers` by `Calm`).
- Without `sudo -n` nothing kills a boringtun the admin prompt launched: the next one runs
  beside it, with the old one's routes in its way (`stale`, `held`).
- When a tunnel whose process died is reported (`DeadTunnelReported`), the window then
  offers only Reconnect and Connect, which are refused while the manager keeps its context.
- The timers of a peer without an address do not run, so its first session is
  stamped with an old time and dropped early (excepted in `KeysLast` by `configured`).
- A datagram before the device has its key, and an interface packet after a bind that
  failed, panic in a handler, and the re-armed event kills the next worker
  (`PanicNoKey`; excepted in `SetIsDone` and `ExitStopsAll` by `calm`).
- `open_listen_socket` never takes the old listeners out of the poll, at every start already,
  where port 0 is opened first; `clear_peers` leaves connected sockets of the
  cleared peers in service (`RemovedIsReleased` speaks of `remove_peer`); and new
  listeners get no fwmark.
- An unconfirmed session can be where `encapsulate` looks when the ring has gone all
  the way round (`UnconfirmedNeedsWrap` shows that it takes that).

### Bounds

Two requests are needed and suffice for every race of the resource server that
is between two handlers; the expiry pass is a third actor, and request slots are
reused, so histories are longer than two requests. Transactions, keys, the clock
(`MaxClock`) and hashes per proof (`MaxProof`) are the bounds on its runs; three hashes for
two transactions make one that is written in two ways. In
`Registration` two keys and two octets allow an octet to change hands while a late
command for it is still queued; `MaxFaults` bounds timeouts and errors, and two
of them are what a late set followed by a late remove takes. `Stale` is smaller
than `MaxClock`, so reaping happens, and `Forget` smaller than `Stale`, as 180 s
is to 600 s. In `TunnelPayment` quotas of 2 and 3 with packets of 1 and 2 reach
all three outcomes of `consume` and the exact end of the quota; `Nonces` bounds the
number of payments. In `ClientTunnel` `MaxFaults` bounds failing and hanging commands,
deaths, crashes and lapses of sudo together; two are what a failure during the undoing of another one
takes. One connect is under way at a time, which the busy flag sees to, and one
disconnect, which is a bound: the status `disconnecting` hides the button, but a
connect that answers before the disconnect does would show it again.
Connects and sessions are not bounded.

In `ReplayWindow` two words wrap twice within 16 counters, so every loop of
`mark_did_receive` meets every alignment and the jump beyond the window; the sum
`counter + N_BITS` could only overflow after 2^64 packets. In
`Handshake` five messages are two complete handshakes that cross and one more initiation, enough
for a ring of two to wrap; one fault is a cookie demand, an expiry or a re-created
peer. The index's low byte (`IndexSpace`) does not wrap at this bound, which is the
hypothesis of `UnconfirmedTakesWrap`. In `Tunnel` the constants
keep what matters of the code's order (after a rekey is due, keepalive and rekey timeout fit in before the
reject), `LastEvent` lets
everything fall silent early enough for all timers to run out before `Horizon`. The
persistent keepalive of 5 is longer than the other timeouts, as 25 s is, so that both kinds of
keepalive come; the theorems are for any, none included. In
`DeviceLoop` three workers are an upgrader, a second one and a bystander. In
`DeviceSockets` three sockets let a peer roam twice or two peers hold one
while a third is on its way out; a descriptor number is not reused. Deadlock is not checked: clocks, authorizations and
faults are bounded, and clients may stop.

### Fairness

`VpnServer`: each started request and the interval timer go on, because Node runs
ready callbacks and every awaited call returns or fails; time passes. An unregistration
that passes try again and again succeeds in the end (strong fairness): the loop is retried every
interval, and boringtun is not taken to be down for good. Clients
owe nothing. `Registration`: the device serves its socket and the reaper's sleep
ends (weak fairness); the reaper gets the mutex if it is free again and again
(strong fairness, as the HTTP thread holds it only while it serves a request
and then waits for the next one up to a second). `TunnelPayment`: a message that is in
the tunnel is delivered and handled; `BlockedIsReleased` speaks of the histories in
which nothing was lost and the gateway worked (`calm`).
`ClientTunnel`: a command that is not marked as hung ends (`CommandHangs` is the fault that
marks one: the code sets no limit on the commands it runs under the mutex), the payment ends, the
health check's timer fires, and a boringtun whose interface is gone ends, since a fatal read
error on the interface stops the device. That disconnect's wait for its child ends is not assumed.
`Tunnel`: the clock runs and the timer event fires (weak fairness); a prompt
peer answers, but only histories marked as prompt owe that. `DeviceLoop`: each worker
goes on, and a worker that waits for a lock, or polls while a notifier is on, again and again gets
it in the end (strong fairness: parking_lot's locks are eventually fair and the poll
hands its ready events out in turn); packets, timers and signals owe nothing.
`DeviceSockets`: the poll reports an end of file. `ReplayWindow` and `Handshake` are safety only.

## Proofs

Every safety property of the runs, invariant or action property, is also a theorem. All theorems
are for every value of the constants, under the named assumption of the module they are about
(`ServerConstants`, `RegistrationConstants`, `PaymentConstants`, `ClientConstants`,
`WindowConstants`, `HandshakeConstants`, `TunnelConstants`, `LoopConstants`, `SocketConstants`).
These say that bounds, thresholds and amounts are natural numbers, that `None` is none of the
values it stands in for, that there are two ends to a handshake, and of the constants of
WireGuard the order the code gives them. Three theorems have hypotheses of their own, given with
them below.

`RegistrationProofs`: `TypeCorrect`, `PoolIsConsistent`, `NeverMisrouted`, `Refinement`,
`StaysInSync` and `PanicTakesTimeout`. `NoMisroute` is not inductive: a `set` of a caller that
gave up may be executed at any time. The invariant `IInv` adds what makes it harmless. Every
`set` at the socket is for an octet that is still free (`CommandOK`), because an octet leaves
the pool only when the HTTP thread sees its own `set` answered, and the socket is served in
order, so every earlier `set` has been executed by then and none is behind it (`InOrder`,
`QueueOK`). `Holders`, `HttpLocals` and `ReaperLocals` say what a thread that holds the mutex
knows, and carry the exactness of the pool through the three places that change it. The
refinement follows from the same invariant: a commit takes a free octet or returns a held one,
every other step leaves the leases alone. That leases and peers agree (`InSync`) needs
`SyncInv`: until a call times out, every command at the socket has a caller that waits for it,
so the device's change and the commit come together, and a `set` is sent only to a device that
has told its key. `update_peer` then never meets the peer that makes it panic.

`VpnServerProofs`: `TypeCorrect`, `OnlyPaidAdmitted`, `TimeIsPaidFor`, `RefusalIsCaused`,
`SerialRedeemsOnce` and `OneSpellingRedeemsOnce`. The invariant (`RequestOK`, `Quoted`) keeps, for each request, the link
between body, quoted amount and the accepted hash over all awaits, and that every hash it has passed
was missed or settles too little, which is the cause of a refusal at the end of the list; the history variable
`credited` survives restarts, which empty `spent`. `SerialRedeemsOnce` supposes at most one
request and no restart, and speaks of the hash as written; what it needs is that the hash whose receipt is awaited is still not in
the guard (`InTurn`), and this is what a second request breaks. `OneSpellingRedeemsOnce` adds the hypothesis that no
transaction has two spellings, and concludes that it is redeemed once.

`TunnelPaymentProofs`: `TypeCorrect`, `QuotaIsConserved`, `OnlyEmptyIsBlocked`,
`OnlySettledCredits`. They hold with every fault, calm or not. The last needs that credits stay
within what the gateway executed (`credited \subseteq settled`): the nonces a peer has used are
forgotten when it is added anew, and only the gateway prevents a second use.

`ClientTunnelProofs`: `TypeCorrect`, `HostIsRestored` and `ShownTunnelIsUp`. `HostRestored`
speaks only of the moments when nothing is under way; the invariant says who is responsible in
between. As long as nothing failed to be undone, a boringtun that sudo launched and that runs belongs to a context, to
a connect whose cleanup list begins with killing it, or to a disconnect (`Owned`), and the VPN's
DNS is in use only while a context or a disconnect holds the user's; routes into the interface have
someone who will take it down. What the admin prompt launched has no such owner, and the theorem does
not claim that it goes. `HostCoherent` ties
interface and routes to the process, `Holders` the mutex to the commands' places.
`CleanupShrinks` is the fact about sequences behind `Cleanup::run`: its last step is the kill.
For what the window shows, `Shown` says that a disconnect is asked for from `connected` only and
then finds the context, and `Wired` that, while boringtun lives, an entry of the table is there
or still to be added, and what a connection has set up stays until a disconnect has taken the
context.

`DeviceLoopProofs`: `DeviceIsStable` and `NobodyRaces`. The mark of `wants_write` belongs to one
upgrade, or to none after a panic, and then all workers are outside (`MarkOK`); the mutex is
held where the code holds it, and nobody marks or passes a mark with it (`MutexOK`). No second
upgrade is on its way, because the socket's event is one-shot: every event is with one worker,
which keeps it to the end of its handler, and is not armed meanwhile (`EventsOK`).

`DeviceSocketsProofs`: `HalvesStayTogether` and `SendsToCurrent`. `Fresh` says that peers and
sockets are not numbered twice; `Together` is `ConnTracksPeer` socket by socket, the form in
which shutting down, connecting and removing preserve it.

`TunnelProofs`: `QueueIsAwaited`, `KeysAreRetired`, `SilenceIsNoticed`, `KeysDoLast`,
`NoGapForInitiator`. `BaseOK` has the types, that timers are within the clock, and how ring,
current index and handshake state fit together; there is a lemma for every operator that
`update_timers` and the packet handlers are made of. On top of it `QueueOK` says that an
initiation is in flight while packets wait, `Reached` that what the peer can have heard of needs
an address, `InitiatorOK` that the session this side initiated last is the current one, and
`PromptOK` that with a peer that answers at once no time passes while an initiation can be
answered and that a due rekey is noticed at once, from which it follows that new keys come
before the old ones go. For `SilenceIsNoticed` `TracedInv` ties the stamps to true time: a stamp is at
most the timers' delay behind (`Behind`, `NotFarBehind`), so packets further apart than that have
different stamps; what the last run had before it is not yet due (`Noticed`), and an initiation in
flight is repeated in time (`Repeated`).

`HandshakeProofs`: `SessionsDoAgree`, `NonceIsUnique`, `AnsweredOnlyOnce`,
`UnconfirmedTakesWrap`. A session is what its response made of it: `HalvesOK` ties every
session, and `DataOK` every packet, to the response that is still in the set of sent messages.
`NetOK` says that keys are drawn once, `PendingOK` what a waiting handshake state stands for,
`StampOK` that a tunnel's stamp covers the initiations it answered, and `Used` that a key under
which a side has sent or received cannot be set up by it again, which is what keeps the counters
of a session from starting over. `UnconfirmedTakesWrap` has the hypothesis `MaxEph <
IndexSpace`, fewer handshake messages than indices: `inc_index` wraps after 256, and an index
that comes back can be the current one. `AllSound` adds that indices are dealt out in order
(`Indexed`).

The last part of `HandshakeProofs` is about `ReplayWindow`: `WindowIsExact` and
`NothingIsReplayed`, for any size of words and any number of them. `WInv` says that for the
counters of the window a bit is set exactly if the counter was accepted. That the three loops of
`mark_did_receive` clear the bits of the skipped counters and no others is `SkippedAreCleared`:
the first ends at a word boundary or at the counter (`FirstLoop`), the second stops short of the
counter (`SecondLoop`), and a word cleared at its boundary holds the next `WORD_SIZE` counters
(`WordIsItsCounters`); two counters less than a window apart have different bits (`OwnBit`). It
stands with the handshake because `Handshake` takes the window of a session for a set.

Only model-checked: the liveness properties (`RequestAnswered`, `TrackedPeerRemoved`,
`MutexReleased`, `LostPeerReleased`, `IdlePeerReaped`, `BlockedIsReleased`, `WindowAnswers`,
`DeadTunnelReported`, `QueueDrains`, `SetIsDone`, `ExitStopsAll`, `RemovedIsReleased`), which
are out of the prover's reach, and the counterexample of `server_replay`.

## Not modelled

Read-only routes, logging, JSON and base64 forms; HTTP rate limiting and the
World ID check of the registration API, which only refuse a request before it
reaches the modelled state; cryptography, TLV and EIP-712
encodings (valid or not is enough); tun devices, `kqueue.rs` and JNI and C glue; the websocket
byte pumps; the gateway deposit, a start-up sequence without later state; the wallet
SDKs; the landing site. On the client: the unused `connect`
and `check_health`, log-in and top-up (which only set the busy flag), and the
moment between a click on Connect and the busy flag. In the WireGuard layer: loss and
round-trip estimates, the reuse of an index byte while a message of 256 handshakes ago is
still under way, and the
counting behind the load test. In the device: overlapping routes, reuse of a
descriptor number, and how long the kernel keeps events. The backlog of the UAPI socket after a panic
is listed as a hazard without a property.

## Plan

1. Done: `PeerService`, `VpnServer`, `Registration`, `TunnelPayment`, `ClientTunnel`,
   their runs and first theorems.
2. Done: `ReplayWindow`, `Handshake`, `Tunnel`, `DeviceLoop`, `DeviceSockets` and their runs.
3. Done: a theorem for every safety property of the runs.
4. Models to come, in front of what is there: the payment flow of the client composed with
   `VpnServer` (challenge, pay, retry, renew), and the token bucket and World ID nullifiers
   in front of `Registration`.
