------------------------------ MODULE DeviceLoop ------------------------------
(***************************************************************************)
(* The worker threads of the device: event_loop (device/mod.rs), the lock  *)
(* they share (device/dev_lock.rs) and the poll they wait on               *)
(* (device/epoll.rs).  A worker keeps a read lock while it waits for and   *)
(* handles events.  A UAPI set upgrades it: it marks wants_write, has the  *)
(* other workers yield, and changes the device under the write lock.       *)
(*                                                                         *)
(* parking_lot's RwLock lets no new reader in once a writer waits.  A      *)
(* handler that panics ends its worker; unwinding releases its locks and   *)
(* re-arms its event, but leaves wants_write as it is.                     *)
(***************************************************************************)
EXTENDS Integers, FiniteSets

CONSTANTS
    Workers,     \* the n_threads workers
    MaxSets,     \* bound on the UAPI sets
    None

\* One-shot events: UDP and tunnel packets, the peers' timers, the UAPI socket, a signal.
Events == {"packet", "timer", "api", "signal"}

ASSUME LoopConstants ==
    IsFiniteSet(Workers) /\ MaxSets \in Nat /\ None \notin Workers \cup Events

VARIABLES
    pc, event,         \* worker -> where it is, the event it handles
    mutex, wants,      \* wants_write: the holder of its mutex, its value
    readers, writer,   \* inner, the RwLock of the device
    peer,              \* the holder of a peer's mutex
    armed, ready,      \* event -> enabled in the poll, readable
    yield, exit,       \* the notifiers
    keyed,             \* the device has a key pair
    calm,              \* the key came before the packets and no set panics
    sets               \* UAPI sets so far

lock == <<mutex, wants, readers, writer>>
poll == <<armed, ready, yield, exit>>
vars == <<pc, event, lock, peer, poll, keyed, calm, sets>>

Init ==
    /\ pc = [w \in Workers |-> "read"] /\ event = [w \in Workers |-> None]
    /\ mutex = None /\ wants = FALSE /\ readers = {} /\ writer = None
    /\ peer = None
    /\ armed = [e \in Events |-> TRUE] /\ ready = [e \in Events |-> FALSE]
    /\ yield = FALSE /\ exit = FALSE
    /\ calm \in BOOLEAN /\ keyed = calm
    /\ sets = 0

Goto(w, from, to) == pc[w] = from /\ pc' = [pc EXCEPT ![w] = to]

CanRead == writer = None /\ \A w \in Workers : pc[w] # "write"

------------------------------------------------------------------------------
(* Lock::read *)

Sleep(w) ==
    /\ Goto(w, "read", "asleep")
    /\ mutex = None /\ wants
    /\ UNCHANGED <<event, lock, peer, poll, keyed, calm, sets>>

\* inner.read is called with the mutex held.
PassMark(w) ==
    /\ Goto(w, "read", "inner")
    /\ mutex = None /\ ~wants
    /\ mutex' = w
    /\ UNCHANGED <<event, wants, readers, writer, peer, poll, keyed, calm, sets>>

ReadLock(w) ==
    /\ Goto(w, "inner", "poll")
    /\ CanRead
    /\ readers' = readers \cup {w} /\ mutex' = None
    /\ UNCHANGED <<event, wants, writer, peer, poll, keyed, calm, sets>>

------------------------------------------------------------------------------
(* event_loop *)

\* The other side of a descriptor makes it readable.
Arrive(e) ==
    /\ ~ready[e]
    /\ e = "api" => sets < MaxSets
    /\ ready' = [ready EXCEPT ![e] = TRUE]
    /\ UNCHANGED <<pc, event, lock, peer, armed, yield, exit, keyed, calm, sets>>

\* wait hands an armed event to one worker, and disarms it.
Take(w, e) ==
    /\ Goto(w, "poll", "handle")
    /\ armed[e] /\ ready[e]
    /\ armed' = [armed EXCEPT ![e] = FALSE]
    /\ event' = [event EXCEPT ![w] = e]
    /\ UNCHANGED <<lock, peer, ready, yield, exit, keyed, calm, sets>>

\* Drop of the EventGuard.  The timer, the signal and the one request are read; of
\* packets there may be more than MAX_ITR.
Rearmed(w) ==
    /\ armed' = [armed EXCEPT ![event[w]] = TRUE]
    /\ \E more \in BOOLEAN :
          /\ more => event[w] = "packet"
          /\ ready' = [ready EXCEPT ![event[w]] = more]
    /\ event' = [event EXCEPT ![w] = None]

TakeYield(w) ==
    /\ Goto(w, "poll", "read")
    /\ yield
    /\ readers' = readers \ {w}
    /\ UNCHANGED <<event, mutex, wants, writer, peer, poll, keyed, calm, sets>>

TakeExit(w) ==
    /\ Goto(w, "poll", "done")
    /\ exit
    /\ readers' = readers \ {w}
    /\ UNCHANGED <<event, mutex, wants, writer, peer, poll, keyed, calm, sets>>

\* A signal, or the monitor that misses the UAPI socket: trigger_exit and return.
HandleSignal(w) ==
    /\ Goto(w, "handle", "done")
    /\ event[w] = "signal"
    /\ exit' = TRUE
    /\ Rearmed(w)
    /\ readers' = readers \ {w}
    /\ UNCHANGED <<mutex, wants, writer, peer, yield, keyed, calm, sets>>

\* Packets, timers and a UAPI get lock a peer; settle keeps it for as long as the
\* settlement server takes.
LockPeer(w) ==
    /\ Goto(w, "handle", "busy")
    /\ event[w] \in {"packet", "timer", "api"}
    /\ event[w] = "packet" => keyed
    /\ peer = None /\ peer' = w
    /\ UNCHANGED <<event, lock, poll, keyed, calm, sets>>

FinishHandler(w) ==
    /\ Goto(w, "busy", "poll")
    /\ peer' = None
    /\ Rearmed(w)
    /\ UNCHANGED <<lock, yield, exit, keyed, calm, sets>>

\* expect("Key not set"): the datagram stays in the socket for the next worker.
PanicNoKey(w) ==
    /\ Goto(w, "handle", "dead")
    /\ event[w] = "packet" /\ ~keyed
    /\ armed' = [armed EXCEPT !["packet"] = TRUE]
    /\ event' = [event EXCEPT ![w] = None]
    /\ readers' = readers \ {w}
    /\ UNCHANGED <<mutex, wants, writer, peer, ready, yield, exit, keyed, calm, sets>>

------------------------------------------------------------------------------
(* api_set: LockReadGuard::try_writeable *)

StartSet(w) ==
    /\ Goto(w, "handle", "upgrade")
    /\ event[w] = "api"
    /\ sets < MaxSets /\ sets' = sets + 1
    /\ UNCHANGED <<event, lock, peer, poll, keyed, calm>>

\* The mutex is taken under the read lock, which is given up before the wait.
Unlock(w) ==
    /\ Goto(w, "upgrade", "mark")
    /\ mutex = None /\ mutex' = w
    /\ readers' = readers \ {w}
    /\ UNCHANGED <<event, wants, writer, peer, poll, keyed, calm, sets>>

MarkLate(w) ==
    /\ Goto(w, "mark", "reread")
    /\ ~wants
    /\ mutex' = None
    /\ UNCHANGED <<event, wants, readers, writer, peer, poll, keyed, calm, sets>>

\* Were the mark set by another upgrade, the worker would sleep until it is gone.
Mark(w) ==
    /\ Goto(w, "mark", "reread")
    /\ ~wants
    /\ wants' = TRUE
    /\ mutex' = None
    /\ UNCHANGED <<event, readers, writer, peer, poll, keyed, calm, sets>>

Reread(w) ==
    /\ Goto(w, "reread", "prep")
    /\ CanRead
    /\ readers' = readers \cup {w}
    /\ UNCHANGED <<event, mutex, wants, writer, peer, poll, keyed, calm, sets>>

\* prep_func is trigger_yield; then the read lock is given up for the write lock.
PrepSilent(w) ==
    /\ Goto(w, "prep", "write")
    /\ readers' = readers \ {w}
    /\ UNCHANGED <<event, mutex, wants, writer, peer, poll, keyed, calm, sets>>

Prep(w) ==
    /\ Goto(w, "prep", "write")
    /\ yield' = TRUE
    /\ readers' = readers \ {w}
    /\ UNCHANGED <<event, mutex, wants, writer, peer, armed, ready, exit, keyed, calm, sets>>

WriteLock(w) ==
    /\ Goto(w, "write", "mutate")
    /\ readers = {} /\ writer = None
    /\ writer' = w
    /\ UNCHANGED <<event, mutex, wants, readers, peer, poll, keyed, calm, sets>>

\* mut_func: cancel_yield, then the commands; one of them may be the key.
CancelYield(w) ==
    /\ Goto(w, "mutate", "commands")
    /\ yield' = FALSE
    /\ UNCHANGED <<event, lock, peer, armed, ready, exit, keyed, calm, sets>>

Commands(w) ==
    /\ Goto(w, "commands", "relock")
    /\ keyed' \in {keyed, TRUE}
    /\ writer' = None
    /\ UNCHANGED <<event, mutex, wants, readers, peer, poll, calm, sets>>

PanicInSet(w) ==
    /\ Goto(w, "commands", "dead")
    /\ ~calm
    /\ writer' = None
    /\ Rearmed(w)
    /\ UNCHANGED <<mutex, wants, readers, peer, yield, exit, keyed, calm, sets>>

Relock(w) ==
    /\ Goto(w, "relock", "unmark")
    /\ CanRead
    /\ readers' = readers \cup {w}
    /\ UNCHANGED <<event, mutex, wants, writer, peer, poll, keyed, calm, sets>>

UnmarkQuietly(w) ==
    /\ Goto(w, "unmark", "poll")
    /\ mutex = None
    /\ wants' = FALSE
    /\ Rearmed(w)
    /\ UNCHANGED <<mutex, readers, writer, peer, yield, exit, keyed, calm, sets>>

\* wants_write is reset, notify_all wakes who sleeps, and the handler returns.
Unmark(w) ==
    /\ pc[w] = "unmark"
    /\ mutex = None
    /\ wants' = FALSE
    /\ pc' = [v \in Workers |-> IF v = w THEN "poll"
                                ELSE IF pc[v] = "asleep" THEN "read" ELSE pc[v]]
    /\ Rearmed(w)
    /\ UNCHANGED <<mutex, readers, writer, peer, yield, exit, keyed, calm, sets>>

Upgrade(w) ==
    \/ Unlock(w) \/ Mark(w) \/ Reread(w) \/ Prep(w) \/ WriteLock(w)
    \/ CancelYield(w) \/ Commands(w) \/ PanicInSet(w) \/ Relock(w) \/ Unmark(w)

Handle(w) ==
    \/ LockPeer(w) \/ FinishHandler(w) \/ HandleSignal(w) \/ StartSet(w) \/ PanicNoKey(w)

Read(w) == Sleep(w) \/ PassMark(w) \/ ReadLock(w)

Next ==
    \/ \E w \in Workers :
          \/ Read(w) \/ Handle(w) \/ Upgrade(w)
          \/ TakeYield(w) \/ TakeExit(w)
          \/ \E e \in Events : Take(w, e)
    \/ \E e \in Events : Arrive(e)

Spec == Init /\ [][Next]_vars

\* Every worker goes on with what it does and gets the locks it asks for again and
\* again.  The poll hands its ready events out in turn, so that a worker that waits
\* again and again while a notifier is on gets the notification.
Progress(w) == Read(w) \/ Handle(w) \/ Upgrade(w)
Notified(w) == TakeYield(w) \/ TakeExit(w)

FairSpec == Spec /\ \A w \in Workers : SF_vars(Progress(w)) /\ SF_vars(Notified(w))

------------------------------------------------------------------------------
(* Properties *)

Working == {"poll", "handle", "busy"}
Gone == {"done", "dead"}

\* Type invariant; the read lock is held exactly where the code says so.
TypeOK ==
    /\ pc \in [Workers -> Working \cup Gone \cup
                 {"read", "asleep", "inner", "upgrade", "mark", "reread", "prep", "write",
                  "mutate", "commands", "relock", "unmark"}]
    /\ event \in [Workers -> Events \cup {None}]
    /\ mutex \in Workers \cup {None} /\ writer \in Workers \cup {None}
    /\ peer \in Workers \cup {None}
    /\ wants \in BOOLEAN /\ yield \in BOOLEAN /\ exit \in BOOLEAN
    /\ readers = {w \in Workers : pc[w] \in Working \cup {"upgrade", "prep", "unmark"}}
    /\ armed \in [Events -> BOOLEAN] /\ ready \in [Events -> BOOLEAN]

\* While the device is changed every other worker is out of the event loop and
\* nobody is left with a peer's lock; and at no time do two workers run the handler of
\* one event.
DeviceStable ==
    /\ TypeOK
    /\ writer # None =>
          /\ \A w \in Workers \ {writer} : pc[w] \in {"read", "asleep"} \cup Gone
          /\ peer = None
    /\ \A v, w \in Workers : event[v] # None /\ event[v] = event[w] => v = w

\* "There is no race here because wants_write blocks other threads": whoever asks
\* for the read lock, with or without the mutex of wants_write, gets it at once, so
\* that nobody holds the mutex for long; and no upgrade finds another one's mark.
NoRaceForLock ==
    \A w \in Workers :
        /\ pc[w] \in {"inner", "reread", "relock"} => CanRead
        /\ pc[w] = "mark" => ~wants

\* A UAPI set that was begun is finished, whatever the other workers are doing.
SetIsDone == \A w \in Workers : calm /\ pc[w] = "upgrade" ~> pc[w] = "poll"

\* A signal stops all workers, those too that slept while the device was changed.
ExitStopsAll == calm /\ exit ~> \A w \in Workers : pc[w] = "done"

------------------------------------------------------------------------------
(* The invariant behind DeviceStable and NoRaceForLock *)

\* From the mark to its removal, and all of an upgrade.
Marked == {"reread", "prep", "write", "mutate", "commands", "relock", "unmark"}
Upgrading == {"upgrade", "mark"} \cup Marked

\* The places of a worker that is in nobody's way.
Outside == {"read", "asleep"} \cup Gone

\* The mutex is held where the code holds it, and nobody marks or passes a mark
\* with it.
MutexOK ==
    /\ \A w \in Workers : pc[w] \in {"inner", "mark"} <=> mutex = w
    /\ mutex # None => ~wants

\* One UAPI request is served at a time: every event is with one worker, which keeps
\* it to the end of the handler, and is not armed meanwhile.
EventsOK ==
    /\ \A w \in Workers :
          /\ event[w] # None <=> pc[w] \in {"handle", "busy"} \cup Upgrading
          /\ pc[w] \in Upgrading => event[w] = "api"
          /\ event[w] # None => ~armed[event[w]]
    /\ \A v, w \in Workers : event[v] # None /\ event[v] = event[w] => v = w

\* The mark belongs to one upgrade, or to none after a panic: then all are outside.
MarkOK ==
    /\ \A w \in Workers : pc[w] \in Marked => wants
    /\ wants => (\E w \in Workers : pc[w] \in Marked) \/ (\A w \in Workers : pc[w] \in Outside)

\* The write lock is with the upgrade that changes the device, until that is done.
WriterOK ==
    /\ \A w \in Workers : pc[w] \in {"mutate", "commands"} <=> writer = w
    /\ \A w \in Workers : pc[w] \in {"mutate", "commands"} =>
          \A v \in Workers \ {w} : pc[v] \in Outside

PeerOK == \A w \in Workers : pc[w] = "busy" <=> peer = w

IInv == TypeOK /\ MutexOK /\ EventsOK /\ MarkOK /\ WriterOK /\ PeerOK
==============================================================================
