--------------------------- MODULE DeviceLoopProofs ---------------------------
(***************************************************************************)
(* The device's lock for any number of workers: who changes the device is  *)
(* alone with it, an event is with one worker, and nobody ever waits for   *)
(* the read lock with the mutex of wants_write in hand.                    *)
(***************************************************************************)
EXTENDS DeviceLoop, TLAPS

USE LoopConstants

\* At most one worker upgrades its lock: the UAPI socket's event is with one worker
\* from StartSet on.
LEMMA OneUpgrade ==
    ASSUME EventsOK, NEW v \in Workers, NEW w \in Workers,
           pc[v] \in Upgrading, pc[w] \in Upgrading
    PROVE  v = w
<1>1. event[v] = "api" /\ event[w] = "api"
  BY DEF EventsOK
<1>2. event[v] # None
  BY DEF EventsOK
<1>. QED  BY <1>1, <1>2 DEF EventsOK

\* When the write lock is free of readers, all but the upgrading worker are outside.
LEMMA AloneAtWrite ==
    ASSUME IInv, NEW w \in Workers, pc[w] = "write", readers = {}
    PROVE  \A v \in Workers \ {w} : pc[v] \in Outside
<1>1. wants /\ mutex = None
  BY DEF IInv, MarkOK, MutexOK, Marked
<1>2. SUFFICES ASSUME NEW v \in Workers \ {w} PROVE pc[v] \in Outside
  OBVIOUS
<1>3. pc[v] \notin Upgrading
  BY OneUpgrade DEF IInv, Upgrading, Marked
<1>4. pc[v] \notin {"inner", "mark"}
  BY <1>1 DEF IInv, MutexOK
<1>5. pc[v] \notin Working
  BY DEF IInv, TypeOK
<1>. QED  BY <1>3, <1>4, <1>5 DEF IInv, TypeOK, Upgrading, Marked, Outside

\* Before the first event every worker asks for its read lock.
LEMMA InitOK == Init => IInv
BY DEF Init, IInv, TypeOK, MutexOK, EventsOK, MarkOK, WriterOK, PeerOK, Working, Gone, Upgrading,
       Marked, Outside, Events

\* Every step of a worker, of the poll and of the outside preserves IInv.
LEMMA Inductive == IInv /\ [Next]_vars => IInv'
<1> SUFFICES ASSUME IInv, [Next]_vars PROVE IInv'
  OBVIOUS
<1>. USE DEF IInv, TypeOK, MutexOK, EventsOK, MarkOK, WriterOK, PeerOK, lock, poll,
             Working, Gone, Upgrading, Marked, Outside, Goto
<1>1. ASSUME NEW w \in Workers, Sleep(w) PROVE IInv'
  BY <1>1 DEF Sleep
<1>2. ASSUME NEW w \in Workers, PassMark(w) PROVE IInv'
  BY <1>2 DEF PassMark
<1>3. ASSUME NEW w \in Workers, ReadLock(w) PROVE IInv'
  BY <1>3 DEF ReadLock, CanRead
<1>4. ASSUME NEW w \in Workers, TakeYield(w) PROVE IInv'
  BY <1>4 DEF TakeYield
<1>5. ASSUME NEW w \in Workers, TakeExit(w) PROVE IInv'
  BY <1>5 DEF TakeExit
<1>6. ASSUME NEW w \in Workers, HandleSignal(w) PROVE IInv'
  BY <1>6 DEF HandleSignal, Rearmed
<1>7. ASSUME NEW w \in Workers, LockPeer(w) PROVE IInv'
  BY <1>7 DEF LockPeer
<1>8. ASSUME NEW w \in Workers, FinishHandler(w) PROVE IInv'
  BY <1>8 DEF FinishHandler, Rearmed
<1>9. ASSUME NEW w \in Workers, PanicNoKey(w) PROVE IInv'
  BY <1>9 DEF PanicNoKey
<1>10. ASSUME NEW w \in Workers, StartSet(w) PROVE IInv'
  BY <1>10 DEF StartSet
<1>11. ASSUME NEW w \in Workers, Unlock(w) PROVE IInv'
  BY <1>11 DEF Unlock
<1>12. ASSUME NEW w \in Workers, Mark(w) PROVE IInv'
  BY <1>12 DEF Mark
<1>13. ASSUME NEW w \in Workers, Reread(w) PROVE IInv'
  BY <1>13 DEF Reread, CanRead
<1>14. ASSUME NEW w \in Workers, Prep(w) PROVE IInv'
  BY <1>14 DEF Prep
<1>15. ASSUME NEW w \in Workers, WriteLock(w) PROVE IInv'
  <2>1. TypeOK'
    BY <1>15 DEF WriteLock
  <2>2. MutexOK'
    BY <1>15 DEF WriteLock
  <2>3. EventsOK'
    BY <1>15 DEF WriteLock
  <2>4. MarkOK'
    BY <1>15 DEF WriteLock
  <2>5. WriterOK'
    BY <1>15, AloneAtWrite DEF WriteLock
  <2>6. PeerOK'
    BY <1>15 DEF WriteLock
  <2>. QED  BY <2>1, <2>2, <2>3, <2>4, <2>5, <2>6
<1>16. ASSUME NEW w \in Workers, CancelYield(w) PROVE IInv'
  <2>1. TypeOK'
    BY <1>16 DEF CancelYield
  <2>2. MutexOK'
    BY <1>16 DEF CancelYield
  <2>3. EventsOK'
    BY <1>16 DEF CancelYield
  <2>4. MarkOK'
    BY <1>16 DEF CancelYield
  <2>5. WriterOK'
    BY <1>16 DEF CancelYield
  <2>6. PeerOK'
    BY <1>16 DEF CancelYield
  <2>. QED  BY <2>1, <2>2, <2>3, <2>4, <2>5, <2>6
<1>17. ASSUME NEW w \in Workers, Commands(w) PROVE IInv'
  BY <1>17 DEF Commands
<1>18. ASSUME NEW w \in Workers, PanicInSet(w) PROVE IInv'
  <2>1. TypeOK'
    BY <1>18 DEF PanicInSet, Rearmed
  <2>2. MutexOK'
    BY <1>18 DEF PanicInSet, Rearmed
  <2>3. EventsOK'
    BY <1>18 DEF PanicInSet, Rearmed
  <2>4. MarkOK'
    BY <1>18 DEF PanicInSet, Rearmed
  <2>5. WriterOK'
    BY <1>18 DEF PanicInSet, Rearmed
  <2>6. PeerOK'
    BY <1>18 DEF PanicInSet, Rearmed
  <2>. QED  BY <2>1, <2>2, <2>3, <2>4, <2>5, <2>6
<1>19. ASSUME NEW w \in Workers, Relock(w) PROVE IInv'
  BY <1>19 DEF Relock, CanRead
<1>20. ASSUME NEW w \in Workers, Unmark(w) PROVE IInv'
  <2>1. TypeOK'
    <3>1. \A v \in Workers :
             pc'[v] \in Working \cup {"upgrade", "prep", "unmark"}
                <=> pc[v] \in Working \cup {"upgrade", "prep", "unmark"}
      BY <1>20 DEF Unmark
    <3>2. readers' = {v \in Workers : pc'[v] \in Working \cup {"upgrade", "prep", "unmark"}}
      BY <1>20, <3>1 DEF Unmark
    <3>3. armed' \in [Events -> BOOLEAN] /\ ready' \in [Events -> BOOLEAN]
      BY <1>20 DEF Unmark, Rearmed
    <3>. QED  BY <1>20, <3>2, <3>3 DEF Unmark, Rearmed
  <2>2. MutexOK'
    BY <1>20 DEF Unmark, Rearmed
  <2>3. EventsOK'
    BY <1>20 DEF Unmark, Rearmed
  <2>4. MarkOK'
    BY <1>20 DEF Unmark, Rearmed
  <2>5. WriterOK'
    BY <1>20 DEF Unmark, Rearmed
  <2>6. PeerOK'
    BY <1>20 DEF Unmark, Rearmed
  <2>. QED  BY <2>1, <2>2, <2>3, <2>4, <2>5, <2>6
<1>21. ASSUME NEW w \in Workers, NEW e \in Events, Take(w, e) PROVE IInv'
  <2>1. TypeOK'
    BY <1>21 DEF Take
  <2>2. MutexOK'
    BY <1>21 DEF Take
  <2>3. EventsOK'
    <3>1. \A v \in Workers : event[v] # e
      BY <1>21 DEF Take
    <3>2. event' = [event EXCEPT ![w] = e] /\ e # None /\ armed' = [armed EXCEPT ![e] = FALSE]
      BY <1>21 DEF Take
    <3>. QED  BY <1>21, <3>1, <3>2 DEF Take
  <2>4. MarkOK'
    BY <1>21 DEF Take
  <2>5. WriterOK'
    BY <1>21 DEF Take
  <2>6. PeerOK'
    BY <1>21 DEF Take
  <2>. QED  BY <2>1, <2>2, <2>3, <2>4, <2>5, <2>6
<1>22. ASSUME NEW e \in Events, Arrive(e) PROVE IInv'
  BY <1>22 DEF Arrive
<1>23. CASE UNCHANGED vars
  BY <1>23 DEF vars
<1>. QED
  BY <1>1, <1>2, <1>3, <1>4, <1>5, <1>6, <1>7, <1>8, <1>9, <1>10, <1>11, <1>12, <1>13, <1>14, <1>15, <1>16, <1>17, <1>18, <1>19, <1>20, <1>21, <1>22, <1>23 DEF Next, Read, Handle, Upgrade

------------------------------------------------------------------------------
(* Theorems *)

\* try_writeable: the closure that changes the device runs with every other worker
\* out of the event loop and without a peer locked, and an event is handled by one
\* worker, for any number of workers and sets, panics included.
THEOREM DeviceIsStable == Spec => []DeviceStable
<1>1. IInv => DeviceStable
  BY DEF IInv, TypeOK, EventsOK, WriterOK, PeerOK, Outside, Gone, DeviceStable
<1>. QED  BY <1>1, InitOK, Inductive, PTL DEF Spec

\* Lock::read and try_writeable: whoever asks for the read lock gets it at once,
\* and an upgrade never finds the mark of another one.
THEOREM NobodyRaces == Spec => []NoRaceForLock
<1>1. ASSUME IInv, NEW w \in Workers, pc[w] \in {"inner", "reread", "relock"} PROVE CanRead
  <2>1. CASE pc[w] = "inner"
    BY <1>1, <2>1 DEF IInv, MutexOK, MarkOK, WriterOK, TypeOK, Marked, CanRead
  <2>2. CASE pc[w] \in {"reread", "relock"}
    <3>1. \A v \in Workers \ {w} : pc[v] \notin Marked
      BY <1>1, <2>2, OneUpgrade DEF IInv, Upgrading, Marked
    <3>. QED  BY <1>1, <2>2, <3>1 DEF IInv, WriterOK, TypeOK, Marked, CanRead
  <2>. QED  BY <1>1, <2>1, <2>2
<1>2. IInv => NoRaceForLock
  BY <1>1 DEF IInv, MutexOK, NoRaceForLock
<1>. QED  BY <1>2, InitOK, Inductive, PTL DEF Spec
===============================================================================
