------------------------ MODULE InstanceLifecycleProofs ------------------------
(***************************************************************************)
(* What is stored of an instance and what is on its node, for any number   *)
(* of watchers, guests and polls.                                          *)
(*                                                                         *)
(* The types, the promise of the fence (ExclusiveFence) and the readiness of *)
(* the guest need no hypothesis: whatever fails or comes late, ssh_ready is *)
(* about the guest on the node, except where the histories stale and misled *)
(* say that the code lost track of it.  The trash needs ~LateEffects: a call *)
(* that was given up and does not keep its fence dies with its connection, *)
(* for otherwise a start that timed out may run a guest that was recycled in *)
(* the meantime.                                                           *)
(***************************************************************************)
EXTENDS InstanceLifecycle, TLAPS

\* The parts of TypeOK: the fence,
FenceTypeOK == op \in Operation \cup {Idle, Stranded}

\* the row, with the calls on their way and the sweeper,
RowTypeOK ==
    /\ row \in {"absent", "present", "deleted"}
    /\ sshReady \in BOOLEAN /\ trashed \in BOOLEAN
    /\ purgeAfter \in {"never", "later", "due"}
    /\ retention \in BOOLEAN
    /\ late \subseteq Kind
    /\ sweep \in {"stopped", "idle", "enabled", "planned"}
    /\ stale \in BOOLEAN
    /\ misled \subseteq Watcher

\* the watchers,
WatchTypeOK == gen \in Nat /\ watch \in [Watcher -> Watching]

\* and the node.
GuestTypeOK == guest \in 0..MaxGuest /\ guestReady \in BOOLEAN /\ running \in BOOLEAN

\* A replacing operation keeps its fence until the node is known to be quiet, and
\* has room for one guest more.
LateInv ==
    /\ row = "absent" => op = Idle
    /\ \A k \in late : Retains(k) => op = Stranded
    /\ Owned /\ op.kind \in Replacing /\ ~op.applied => guest < MaxGuest

StageInv ==
    Owned => /\ op.stage = "run" => ~op.applied
             /\ op.stage \in {"store", "end"} => op.applied

OnlyRetained == \A k \in late : Retains(k)

PurgeInv ==
    /\ Owned /\ op.kind = "purge" /\ op.applied => guest = 0
    /\ row = "deleted" => guest = 0 /\ late = {} /\ (Owned => op.kind = "purge" /\ op.stage = "end")

TrashInv ==
    /\ row = "absent" \/ op.kind = "create" => ~trashed
    /\ trashed => ~running /\ late = {}
    /\ trashed /\ Owned /\ op.stage # "run" =>
           op.kind \in {"purge", "trash_restore"} \/ (op.kind = "recycle" /\ op.stage = "end")
    /\ op.kind = "recycle" /\ op.applied => ~running

QuietInv == OnlyRetained /\ PurgeInv /\ TrashInv

\* The guest of the row has been replaced and the row not yet been told.
BetweenGuests == op = Stranded \/ (op.kind \in Replacing /\ op.applied /\ op.stage # "end")

Ready == guestReady \/ guest = 0

WatchInv == row = "absent" \/ op.kind = "create" => \A w \in Watcher : watch[w].pc = "off"

GenInv == \A w \in Watcher : watch[w].gen <= gen

\* A watcher that was told of a ready guest was told of the present one, if it
\* read the present generation and is not misled.
MarkInv ==
    \A w \in Watcher :
        watch[w].pc = "mark" /\ watch[w].gen = gen /\ w \notin misled => Ready \/ BetweenGuests

ReadyInv ==
    /\ row = "absent" \/ op.kind = "create" => ~sshReady
    /\ op.saw => op.kind = "status"
    /\ op.saw /\ ~stale => Ready
    /\ op.kind = "configure_network" /\ op.applied /\ ~stale => Ready
    /\ sshReady /\ ~stale => Ready \/ BetweenGuests

ReadinessInv == WatchInv /\ GenInv /\ MarkInv /\ ReadyInv

TypeInv == TypeOK /\ LateInv /\ StageInv

\* A watcher that turns ssh_ready on does so for the present guest, or was misled.
MarksReady ==
    \A w \in Watcher :
        watch[w].pc = "mark" /\ watch'[w].pc = "off" /\ ~sshReady /\ sshReady'
            => guestReady \/ guest = 0 \/ w \in misled

-----------------------------------------------------------------------------
(* What the helpers do *)

\* Whether the fence is owned, free or left behind shows in the kind.
LEMMA FenceFacts ==
    /\ Idle.kind = "idle" /\ Idle.stage = "none" /\ Idle.applied = FALSE /\ Idle.saw = FALSE
    /\ Stranded.kind = "stranded" /\ Stranded.stage = "none"
    /\ Stranded.applied = FALSE /\ Stranded.saw = FALSE
    /\ Idle # Stranded /\ Idle.kind \notin Kind /\ Stranded.kind \notin Kind
  BY DEF Idle, Stranded, Unowned, Kind, Power, Replacing, Observing, Trashing

\* Who holds the fence, and how far it is, show in the operation.
LEMMA OpFacts ==
    ASSUME TypeOK
    PROVE  /\ Owned <=> op \in Operation
           /\ Owned <=> op # Idle /\ op # Stranded
           /\ op.kind \in Kind \cup {"idle", "stranded"}
           /\ op.applied \in BOOLEAN /\ op.saw \in BOOLEAN
           /\ ~Owned => op.stage = "none" /\ ~op.applied /\ ~op.saw
  <1>1. CASE op \in Operation
    <2>1. op.kind \in Kind /\ op.applied \in BOOLEAN /\ op.saw \in BOOLEAN
      BY <1>1 DEF Operation
    <2> QED
      BY <1>1, <2>1, FenceFacts DEF Owned
  <1>2. CASE op \in {Idle, Stranded}
    <2>1. op.kind \notin Kind /\ op.kind \in {"idle", "stranded"} /\ op.stage = "none"
      BY <1>2, FenceFacts
    <2>3. op.applied = FALSE /\ op.saw = FALSE
      BY <1>2, FenceFacts
    <2>2. op \notin Operation
      BY <2>1 DEF Operation
    <2> QED
      BY <1>2, <2>1, <2>2, <2>3 DEF Owned
  <1> QED
    BY <1>1, <1>2 DEF TypeOK

\* An operation begins before its call,
LEMMA StartFacts ==
    ASSUME NEW k \in Kind, NEW by \in {"caller", "sweep"}, Start(k, by)
    PROVE  /\ op' \in Operation /\ Owned' /\ op'.kind = k /\ op'.stage = "run"
           /\ ~op'.applied /\ ~op'.saw
  BY DEF Start, Operation, Owned

\* and goes on from step to step without forgetting whether its call was carried out.
LEMMA GoToFacts ==
    ASSUME TypeOK, Owned, NEW s \in {"run", "wait", "store", "end"}, GoTo(s)
    PROVE  /\ op' \in Operation /\ Owned' /\ op'.kind = op.kind /\ op'.stage = s
           /\ op'.applied = op.applied /\ op'.saw = op.saw /\ op' # Idle /\ op' # Stranded
  <1>1. op \in Operation
    BY OpFacts
  <1> QED
    BY <1>1, FenceFacts DEF GoTo, Operation, Owned

\* What carrying a call out leaves on the node: which guest,
LEMMA EffectGuest ==
    ASSUME TypeOK, NEW k \in Kind, Effect(k), k \in Replacing => guest < MaxGuest
    PROVE  /\ guest' \in 0..MaxGuest
           /\ k \notin {"create"} \cup Replacing => guest' = guest \/ guest' = 0
           /\ k = "create" => guest' = 1
           /\ k = "purge" => guest' = 0
           /\ k \notin {"create", "purge"} \cup Replacing => guest' = guest
  <1> USE LifecycleAssumption
  <1>0. guest \in 0..MaxGuest /\ MaxGuest \in Nat \ {0, 1}
    BY DEF TypeOK
  <1>1. CASE k = "create"
    <2>1. guest' = 1
      BY <1>1 DEF Effect
    <2> QED
      BY <1>0, <1>1, <2>1
  <1>2. CASE k \in Replacing
    <2>1. guest' = guest + 1
      BY <1>2 DEF Effect, Replacing
    <2> QED
      BY <1>0, <1>2, <2>1 DEF Replacing
  <1>3. CASE k = "purge"
    <2>1. guest' = 0
      BY <1>3 DEF Effect
    <2> QED
      BY <1>0, <1>3, <2>1
  <1>4. CASE k \notin {"create", "purge"} \cup Replacing
    <2>1. guest' = guest
      BY <1>4 DEF Effect, Kind, Power, Replacing, Observing, Trashing, nodeVars
    <2> QED
      BY <1>0, <1>4, <2>1
  <1> QED
    BY <1>1, <1>2, <1>3, <1>4

\* whether it runs,
LEMMA EffectRunning ==
    ASSUME TypeOK, NEW k \in Kind, Effect(k)
    PROVE  /\ running' \in BOOLEAN
           /\ k \notin {"create", "start", "reinstall"} => running' = running \/ running' = FALSE
           /\ k \in {"stop", "recycle", "purge"} => running' = FALSE
  <1>0. running \in BOOLEAN
    BY DEF TypeOK
  <1>1. CASE k \in {"create", "reinstall"}
    BY <1>1 DEF Effect
  <1>2. CASE k = "start"
    <2>1. running' = (guest > 0)
      BY <1>2 DEF Effect
    <2> QED
      BY <1>2, <2>1
  <1>3. CASE k \in {"snapshot_restore", "backup_restore", "stop", "recycle", "purge"}
    <2>1. running' = FALSE
      BY <1>3 DEF Effect
    <2> QED
      BY <1>3, <2>1
  <1>4. CASE k \in {"configure_network", "status", "network_status", "resize", "trash_restore"}
    <2>1. running' = running
      BY <1>4 DEF Effect, nodeVars
    <2> QED
      BY <1>0, <1>4, <2>1
  <1> QED
    BY <1>1, <1>2, <1>3, <1>4 DEF Kind, Power, Replacing, Observing, Trashing

\* and whether it lets anybody in.
LEMMA EffectReady ==
    ASSUME TypeOK, NEW k \in Kind, Effect(k), k \in Replacing => guest < MaxGuest
    PROVE  /\ guestReady' \in BOOLEAN
           /\ k \notin {"create"} \cup Replacing => (Ready => Ready')
           /\ k = "configure_network" => Ready'
           /\ k = "status" => guestReady' = guestReady
  <1>0. guestReady \in BOOLEAN /\ guest \in Nat
    BY LifecycleAssumption DEF TypeOK
  <1>1. CASE k \in {"create"} \cup Replacing
    <2>1. guestReady' = FALSE
      BY <1>1 DEF Effect, Replacing
    <2> QED
      BY <1>1, <2>1 DEF Replacing
  <1>2. CASE k = "configure_network"
    <2>1. guest' = guest /\ guestReady' = (guest > 0)
      BY <1>2 DEF Effect
    <2>2. CASE guest = 0
      <3>1. ~(guest > 0) /\ guest' = 0
        BY <2>1, <2>2
      <3>2. guestReady' \in BOOLEAN
        BY <2>1
      <3> QED
        BY <1>2, <3>1, <3>2 DEF Ready
    <2>3. CASE guest # 0
      <3>1. guest > 0
        BY <1>0, <2>3
      <3>2. guestReady' = TRUE
        BY <2>1, <3>1, Zenon
      <3> QED
        BY <1>2, <3>2 DEF Ready
    <2> QED
      BY <2>2, <2>3
  <1>3. CASE k = "purge"
    <2>1. guest' = 0 /\ guestReady' = FALSE
      BY <1>3 DEF Effect
    <2> QED
      BY <1>3, <2>1 DEF Ready
  <1>4. CASE k \notin {"create", "configure_network", "purge"} \cup Replacing
    <2>1. guest' = guest /\ guestReady' = guestReady
      BY <1>4 DEF Effect, Kind, Power, Replacing, Observing, Trashing, nodeVars
    <2> QED
      BY <1>0, <1>4, <2>1 DEF Ready
  <1> QED
    BY <1>1, <1>2, <1>3, <1>4

\* A recycle remembers the retention it read, and goes on as the others do.
LEMMA RecycleFacts ==
    ASSUME TypeOK, RecycleCalls
    PROVE  /\ op' \in Operation /\ Owned' /\ op'.kind = "recycle" /\ op'.stage = "wait"
           /\ op'.applied = op.applied /\ op'.saw = op.saw /\ op' # Idle /\ op' # Stranded
  <1>1. op \in Operation /\ retention \in BOOLEAN /\ op.kind = "recycle"
    BY OpFacts DEF RecycleCalls, At, TypeOK
  <1>2. op' = [op EXCEPT !.stage = "wait", !.keep = retention]
    BY DEF RecycleCalls
  <1> DEFINE n == [op EXCEPT !.stage = "wait", !.keep = retention]
  <1>3. /\ n \in Operation /\ n.kind = op.kind /\ n.stage = "wait"
        /\ n.applied = op.applied /\ n.saw = op.saw
    BY <1>1 DEF Operation
  <1> HIDE DEF n
  <1>4. op' = n
    BY <1>2 DEF n
  <1> QED
    BY <1>1, <1>3, <1>4, FenceFacts DEF Owned, Kind, Trashing

\* A call that is carried out is carried out once, and answered by what it found.
LEMMA ApplyFacts ==
    ASSUME TypeOK, Apply
    PROVE  /\ op' \in Operation /\ Owned' /\ op'.kind = op.kind /\ op'.stage = "wait"
           /\ op'.applied = TRUE /\ (op'.saw => op.kind = "status" /\ guestReady)
           /\ op' # Idle /\ op' # Stranded
  <1>1. op \in Operation /\ op.stage = "wait" /\ op.kind \in Kind
    BY OpFacts DEF Apply, At, Owned
  <1> DEFINE x == op.kind = "status" /\ guestReady
             n == [op EXCEPT !.applied = TRUE, !.saw = x]
  <1>2. op' = n
    BY DEF Apply
  <1>3. x \in BOOLEAN
    OBVIOUS
  <1> HIDE DEF x
  <1>4. n \in Operation /\ n.kind = op.kind /\ n.stage = op.stage /\ n.applied = TRUE /\ n.saw = x
    BY <1>1, <1>3 DEF Operation
  <1> HIDE DEF n
  <1> QED
    BY <1>1, <1>2, <1>3, <1>4, FenceFacts DEF Owned, x

\* Whoever takes the fence finds it free.
LEMMA BeginFacts ==
    ASSUME NEW k \in Kinds, Begin(k)
    PROVE  /\ op' \in Operation /\ Owned' /\ op'.kind = k /\ op'.stage = "run"
           /\ ~op'.applied /\ ~op'.saw /\ op' # Idle /\ op' # Stranded
           /\ k # "create" /\ op = Idle /\ row = "present" /\ (k \in Replacing => guest < MaxGuest)
  <1>1. k \in Kind
    BY LifecycleAssumption
  <1>2. op' \in Operation /\ Owned' /\ op'.kind = k /\ op'.stage = "run" /\ ~op'.applied /\ ~op'.saw
    BY <1>1, StartFacts DEF Begin
  <1> QED
    BY <1>1, <1>2, FenceFacts DEF Begin

\* A creation begins with the fence,
LEMMA CreateFacts ==
    ASSUME Create
    PROVE  /\ op' \in Operation /\ Owned' /\ op'.kind = "create" /\ op'.stage = "run"
           /\ ~op'.applied /\ ~op'.saw /\ op' # Idle /\ op' # Stranded
  <1>1. "create" \in Kind
    BY DEF Kind
  <1>2. /\ op' \in Operation /\ Owned' /\ op'.kind = "create" /\ op'.stage = "run"
        /\ ~op'.applied /\ ~op'.saw
    BY <1>1, StartFacts DEF Create
  <1> QED
    BY <1>1, <1>2, FenceFacts

\* and so does the purge of the sweeper.
LEMMA SweepFacts ==
    ASSUME SweepPurge
    PROVE  \/ op' = op
           \/ /\ op' \in Operation /\ Owned' /\ op'.kind = "purge" /\ op'.stage = "run"
              /\ ~op'.applied /\ ~op'.saw /\ op' # Idle /\ op' # Stranded
              /\ op = Idle /\ row = "present"
  <1>1. "purge" \in Kind
    BY DEF Kind, Trashing
  <1>2. CASE Start("purge", "sweep") /\ op = Idle /\ row = "present"
    <2>1. /\ op' \in Operation /\ Owned' /\ op'.kind = "purge" /\ op'.stage = "run"
          /\ ~op'.applied /\ ~op'.saw
      BY <1>1, <1>2, StartFacts
    <2> QED
      BY <1>1, <1>2, <2>1, FenceFacts
  <1>3. CASE UNCHANGED op
    BY <1>3
  <1> QED
    BY <1>2, <1>3 DEF SweepPurge

\* The fence keeps its type.
LEMMA OpStep ==
    ASSUME TypeOK, [Next]_vars PROVE FenceTypeOK'
  <1> USE LifecycleAssumption DEF FenceTypeOK
  <1>0. op \in Operation \cup {Idle, Stranded}
    BY DEF TypeOK
  <1>1. CASE UNCHANGED vars
    BY <1>0, <1>1 DEF vars, rowVars, nodeVars
  <1>2. ASSUME NEW k \in Kinds, k # "create", Begin(k) PROVE FenceTypeOK'
    BY <1>2, BeginFacts
  <1>3. CASE Create
    BY <1>3, CreateFacts
  <1>4. CASE CreateCalls
    BY <1>4, OpFacts, GoToFacts DEF CreateCalls, Sends, At, rowVars, nodeVars
  <1>5. CASE PowerCalls
    BY <1>5, OpFacts, GoToFacts DEF PowerCalls, Sends, At, rowVars, nodeVars
  <1>6. CASE StatusCalls
    BY <1>6, OpFacts, GoToFacts DEF StatusCalls, Sends, At, rowVars, nodeVars
  <1>7. CASE NetworkCalls
    BY <1>7, OpFacts, GoToFacts DEF NetworkCalls, Sends, At, rowVars, nodeVars
  <1>8. CASE NetworkStatusCalls
    BY <1>8, OpFacts, GoToFacts DEF NetworkStatusCalls, Sends, At, rowVars, nodeVars
  <1>9. CASE SnapshotRestoreCalls
    BY <1>9, OpFacts, GoToFacts DEF SnapshotRestoreCalls, Sends, At, rowVars, nodeVars
  <1>10. CASE BackupRestoreCalls
    BY <1>10, OpFacts, GoToFacts DEF BackupRestoreCalls, Sends, At, rowVars, nodeVars
  <1>11. CASE ResizeCalls
    BY <1>11, OpFacts, GoToFacts DEF ResizeCalls, Sends, At, rowVars, nodeVars
  <1>12. CASE RecycleCalls
    BY <1>12, RecycleFacts
  <1>13. CASE TrashRestoreCalls
    BY <1>13, OpFacts, GoToFacts DEF TrashRestoreCalls, Sends, At, rowVars, nodeVars
  <1>14. CASE PurgeCalls
    BY <1>14, OpFacts, GoToFacts DEF PurgeCalls, Sends, At, rowVars, nodeVars
  <1>15. CASE Reject
    BY <1>15, OpFacts DEF Reject, At, rowVars, nodeVars
  <1>16. CASE Apply
    BY <1>16, ApplyFacts
  <1>17. CASE Reply
    BY <1>17, OpFacts, GoToFacts DEF Reply, At, rowVars, nodeVars
  <1>18. CASE CallFails
    BY <1>18, OpFacts DEF CallFails, At, Abandoned, Retains, nodeVars
  <1>19. CASE CreateStores
    BY <1>19, OpFacts, GoToFacts DEF CreateStores, Stores, At, nodeVars, rowVars
  <1>20. CASE PowerStores
    BY <1>20, OpFacts, GoToFacts DEF PowerStores, Stores, At, nodeVars, rowVars
  <1>21. CASE ResizeStores
    BY <1>21, OpFacts, GoToFacts DEF ResizeStores, Stores, At, nodeVars, rowVars
  <1>22. CASE ReinstallStores
    BY <1>22, OpFacts, GoToFacts DEF ReinstallStores, Stores, At, nodeVars, StartsWatcher
  <1>23. CASE SnapshotRestoreStores
    BY <1>23, OpFacts, GoToFacts DEF SnapshotRestoreStores, Stores, At, nodeVars
  <1>24. CASE BackupRestoreStores
    BY <1>24, OpFacts, GoToFacts DEF BackupRestoreStores, Stores, At, nodeVars
  <1>25. CASE StatusStores
    BY <1>25, OpFacts, GoToFacts DEF StatusStores, Stores, At, nodeVars
  <1>26. CASE NetworkStores
    BY <1>26, OpFacts, GoToFacts DEF NetworkStores, Stores, At, nodeVars
  <1>27. CASE NetworkStatusStores
    BY <1>27, OpFacts, GoToFacts DEF NetworkStatusStores, Stores, At, nodeVars, rowVars
  <1>28. CASE RecycleStores
    BY <1>28, OpFacts, GoToFacts DEF RecycleStores, Stores, At, nodeVars
  <1>29. CASE TrashRestoreStores
    BY <1>29, OpFacts, GoToFacts DEF TrashRestoreStores, Stores, At, nodeVars
  <1>30. CASE PurgeStores
    BY <1>30, OpFacts, GoToFacts DEF PurgeStores, Stores, At, nodeVars
  <1>31. CASE StoreFails
    BY <1>31, OpFacts DEF StoreFails, At, rowVars, nodeVars
  <1>32. CASE Finish
    BY <1>32, OpFacts DEF Finish, At, rowVars, nodeVars
  <1>33. ASSUME NEW k \in Kind, LateEffect(k) PROVE FenceTypeOK'
    BY <1>33, OpFacts DEF LateEffect, rowVars
  <1>34. CASE Inject
    BY <1>34, OpFacts DEF Inject, rowVars
  <1>35. CASE Crash
    BY <1>35, OpFacts DEF Crash, At, Abandoned, Retains, rowVars, nodeVars
  <1>36. CASE Recover
    BY <1>36, OpFacts DEF Recover, rowVars, nodeVars
  <1>37. ASSUME NEW w \in Watcher, Poll(w) PROVE FenceTypeOK'
    BY <1>37, OpFacts DEF Poll, Quit, rowVars, nodeVars
  <1>38. ASSUME NEW w \in Watcher, Ask(w) PROVE FenceTypeOK'
    BY <1>38, OpFacts DEF Ask, rowVars, nodeVars
  <1>39. ASSUME NEW w \in Watcher, Mark(w) PROVE FenceTypeOK'
    BY <1>39, OpFacts DEF Mark, Quit, nodeVars
  <1>40. CASE SaveRetention
    BY <1>40, OpFacts DEF SaveRetention, rowVars, nodeVars
  <1>41. CASE DeadlinePasses
    BY <1>41, OpFacts DEF DeadlinePasses, nodeVars
  <1>42. CASE SweepStarts
    BY <1>42, OpFacts DEF SweepStarts, rowVars, nodeVars
  <1>43. CASE SweepQuery
    BY <1>43, OpFacts DEF SweepQuery, rowVars, nodeVars
  <1>44. CASE SweepPurge
    BY <1>0, <1>44, SweepFacts
  <1>45. CASE SweepCrowded
    BY <1>45, OpFacts DEF SweepCrowded, rowVars, nodeVars
  <1> QED
    BY <1>1, <1>2, <1>3, <1>4, <1>5, <1>6, <1>7, <1>8, <1>9, <1>10, <1>11, <1>12, <1>13, <1>14,
       <1>15, <1>16, <1>17, <1>18, <1>19, <1>20, <1>21, <1>22, <1>23, <1>24, <1>25, <1>26, <1>27,
       <1>28, <1>29, <1>30, <1>31, <1>32, <1>33, <1>34, <1>35, <1>36, <1>37, <1>38, <1>39, <1>40,
       <1>41, <1>42, <1>43, <1>44, <1>45
       DEF Next, Body, Call, Store, Watch, Sweep

\* So do the row, the watchers, the sweeper and the calls on their way.
LEMMA RowStep ==
    ASSUME TypeOK, [Next]_vars PROVE RowTypeOK'
  <1> USE LifecycleAssumption DEF TypeOK, RowTypeOK, history, Forgets, Mislead, Believed
  <1>1. CASE UNCHANGED vars
    BY <1>1 DEF vars, rowVars, nodeVars, Owned
  <1>2. ASSUME NEW k \in Kinds, k # "create", Begin(k) PROVE RowTypeOK'
    BY <1>2 DEF Begin, rowVars, nodeVars, Owned
  <1>3. CASE Create
    BY <1>3 DEF Create, nodeVars, Owned
  <1>4. CASE CreateCalls
    BY <1>4 DEF CreateCalls, Sends, At, rowVars, nodeVars, Owned
  <1>5. CASE PowerCalls
    BY <1>5 DEF PowerCalls, Sends, At, rowVars, nodeVars, Owned
  <1>6. CASE StatusCalls
    BY <1>6 DEF StatusCalls, Sends, At, rowVars, nodeVars, Owned
  <1>7. CASE NetworkCalls
    BY <1>7 DEF NetworkCalls, Sends, At, rowVars, nodeVars, Owned
  <1>8. CASE NetworkStatusCalls
    BY <1>8 DEF NetworkStatusCalls, Sends, At, rowVars, nodeVars, Owned
  <1>9. CASE SnapshotRestoreCalls
    BY <1>9 DEF SnapshotRestoreCalls, Sends, At, rowVars, nodeVars, Owned
  <1>10. CASE BackupRestoreCalls
    BY <1>10 DEF BackupRestoreCalls, Sends, At, rowVars, nodeVars, Owned
  <1>11. CASE ResizeCalls
    BY <1>11 DEF ResizeCalls, Sends, At, rowVars, nodeVars, Owned
  <1>12. CASE RecycleCalls
    BY <1>12 DEF RecycleCalls, At, rowVars, nodeVars, Owned
  <1>13. CASE TrashRestoreCalls
    BY <1>13 DEF TrashRestoreCalls, Sends, At, rowVars, nodeVars, Owned
  <1>14. CASE PurgeCalls
    BY <1>14 DEF PurgeCalls, Sends, At, rowVars, nodeVars, Owned
  <1>15. CASE Reject
    BY <1>15 DEF Reject, At, rowVars, nodeVars, Owned
  <1>16. CASE Apply
    BY <1>16 DEF Apply, At, rowVars, Owned
  <1>17. CASE Reply
    BY <1>17 DEF Reply, At, rowVars, nodeVars, Owned
  <1>18. CASE CallFails
    BY <1>18 DEF CallFails, At, Abandoned, Retains, nodeVars, Owned
  <1>19. CASE CreateStores
    BY <1>19 DEF CreateStores, Stores, At, nodeVars, rowVars, Owned
  <1>20. CASE PowerStores
    BY <1>20 DEF PowerStores, Stores, At, nodeVars, rowVars, Owned
  <1>21. CASE ResizeStores
    BY <1>21 DEF ResizeStores, Stores, At, nodeVars, rowVars, Owned
  <1>22. CASE ReinstallStores
    BY <1>22 DEF ReinstallStores, Stores, At, nodeVars, StartsWatcher, Owned
  <1>23. CASE SnapshotRestoreStores
    BY <1>23 DEF SnapshotRestoreStores, Stores, At, nodeVars, Owned
  <1>24. CASE BackupRestoreStores
    BY <1>24 DEF BackupRestoreStores, Stores, At, nodeVars, Owned
  <1>25. CASE StatusStores
    BY <1>25 DEF StatusStores, Stores, At, nodeVars, Owned
  <1>26. CASE NetworkStores
    BY <1>26 DEF NetworkStores, Stores, At, nodeVars, Owned
  <1>27. CASE NetworkStatusStores
    BY <1>27 DEF NetworkStatusStores, Stores, At, nodeVars, rowVars, Owned
  <1>28. CASE RecycleStores
    BY <1>28 DEF RecycleStores, Stores, At, nodeVars, Owned
  <1>29. CASE TrashRestoreStores
    BY <1>29 DEF TrashRestoreStores, Stores, At, nodeVars, Owned
  <1>30. CASE PurgeStores
    BY <1>30 DEF PurgeStores, Stores, At, nodeVars, Owned
  <1>31. CASE StoreFails
    BY <1>31 DEF StoreFails, At, rowVars, nodeVars, Owned
  <1>32. CASE Finish
    BY <1>32 DEF Finish, At, rowVars, nodeVars, Owned
  <1>33. ASSUME NEW k \in Kind, LateEffect(k) PROVE RowTypeOK'
    BY <1>33 DEF LateEffect, rowVars, Owned
  <1>34. CASE Inject
    BY <1>34 DEF Inject, rowVars, Owned
  <1>35. CASE Crash
    BY <1>35 DEF Crash, At, Abandoned, Retains, rowVars, nodeVars, Owned
  <1>36. CASE Recover
    BY <1>36 DEF Recover, rowVars, nodeVars, Owned
  <1>37. ASSUME NEW w \in Watcher, Poll(w) PROVE RowTypeOK'
    BY <1>37 DEF Poll, Quit, rowVars, nodeVars, Owned
  <1>38. ASSUME NEW w \in Watcher, Ask(w) PROVE RowTypeOK'
    BY <1>38 DEF Ask, rowVars, nodeVars, Owned
  <1>39. ASSUME NEW w \in Watcher, Mark(w) PROVE RowTypeOK'
    BY <1>39 DEF Mark, Quit, nodeVars, Owned
  <1>40. CASE SaveRetention
    BY <1>40 DEF SaveRetention, rowVars, nodeVars, Owned
  <1>41. CASE DeadlinePasses
    BY <1>41 DEF DeadlinePasses, nodeVars, Owned
  <1>42. CASE SweepStarts
    BY <1>42 DEF SweepStarts, rowVars, nodeVars, Owned
  <1>43. CASE SweepQuery
    BY <1>43 DEF SweepQuery, rowVars, nodeVars, Owned
  <1>44. CASE SweepPurge
    BY <1>44 DEF SweepPurge, rowVars, nodeVars, Owned
  <1>45. CASE SweepCrowded
    BY <1>45 DEF SweepCrowded, rowVars, nodeVars, Owned
  <1> QED
    BY <1>1, <1>2, <1>3, <1>4, <1>5, <1>6, <1>7, <1>8, <1>9, <1>10, <1>11, <1>12, <1>13, <1>14,
       <1>15, <1>16, <1>17, <1>18, <1>19, <1>20, <1>21, <1>22, <1>23, <1>24, <1>25, <1>26, <1>27,
       <1>28, <1>29, <1>30, <1>31, <1>32, <1>33, <1>34, <1>35, <1>36, <1>37, <1>38, <1>39, <1>40,
       <1>41, <1>42, <1>43, <1>44, <1>45
       DEF Next, Body, Call, Store, Watch, Sweep

\* So do the watchers.
LEMMA WatchersStep ==
    ASSUME TypeOK, [Next]_vars PROVE WatchTypeOK'
  <1> USE LifecycleAssumption DEF TypeOK, Watching, Off, Polling, WatchTypeOK
  <1>1. CASE UNCHANGED vars
    BY <1>1 DEF vars, rowVars, nodeVars
  <1>2. ASSUME NEW k \in Kinds, k # "create", Begin(k) PROVE WatchTypeOK'
    BY <1>2 DEF Begin, rowVars, nodeVars
  <1>3. CASE Create
    BY <1>3 DEF Create, nodeVars
  <1>4. CASE CreateCalls
    BY <1>4 DEF CreateCalls, Sends, At, rowVars, nodeVars
  <1>5. CASE PowerCalls
    BY <1>5 DEF PowerCalls, Sends, At, rowVars, nodeVars
  <1>6. CASE StatusCalls
    BY <1>6 DEF StatusCalls, Sends, At, rowVars, nodeVars
  <1>7. CASE NetworkCalls
    BY <1>7 DEF NetworkCalls, Sends, At, rowVars, nodeVars
  <1>8. CASE NetworkStatusCalls
    BY <1>8 DEF NetworkStatusCalls, Sends, At, rowVars, nodeVars
  <1>9. CASE SnapshotRestoreCalls
    BY <1>9 DEF SnapshotRestoreCalls, Sends, At, rowVars, nodeVars
  <1>10. CASE BackupRestoreCalls
    BY <1>10 DEF BackupRestoreCalls, Sends, At, rowVars, nodeVars
  <1>11. CASE ResizeCalls
    BY <1>11 DEF ResizeCalls, Sends, At, rowVars, nodeVars
  <1>12. CASE RecycleCalls
    BY <1>12 DEF RecycleCalls, At, rowVars, nodeVars
  <1>13. CASE TrashRestoreCalls
    BY <1>13 DEF TrashRestoreCalls, Sends, At, rowVars, nodeVars
  <1>14. CASE PurgeCalls
    BY <1>14 DEF PurgeCalls, Sends, At, rowVars, nodeVars
  <1>15. CASE Reject
    BY <1>15 DEF Reject, At, rowVars, nodeVars
  <1>16. CASE Apply
    BY <1>16 DEF Apply, At, rowVars
  <1>17. CASE Reply
    BY <1>17 DEF Reply, At, rowVars, nodeVars
  <1>18. CASE CallFails
    BY <1>18 DEF CallFails, At, Abandoned, Retains, nodeVars
  <1>19. CASE CreateStores
    BY <1>19 DEF CreateStores, Stores, At, nodeVars, rowVars
  <1>20. CASE PowerStores
    BY <1>20 DEF PowerStores, Stores, At, nodeVars, rowVars
  <1>21. CASE ResizeStores
    BY <1>21 DEF ResizeStores, Stores, At, nodeVars, rowVars
  <1>22. CASE ReinstallStores
    BY <1>22 DEF ReinstallStores, Stores, At, nodeVars, StartsWatcher
  <1>23. CASE SnapshotRestoreStores
    BY <1>23 DEF SnapshotRestoreStores, Stores, At, nodeVars
  <1>24. CASE BackupRestoreStores
    BY <1>24 DEF BackupRestoreStores, Stores, At, nodeVars
  <1>25. CASE StatusStores
    BY <1>25 DEF StatusStores, Stores, At, nodeVars
  <1>26. CASE NetworkStores
    BY <1>26 DEF NetworkStores, Stores, At, nodeVars
  <1>27. CASE NetworkStatusStores
    BY <1>27 DEF NetworkStatusStores, Stores, At, nodeVars, rowVars
  <1>28. CASE RecycleStores
    BY <1>28 DEF RecycleStores, Stores, At, nodeVars
  <1>29. CASE TrashRestoreStores
    BY <1>29 DEF TrashRestoreStores, Stores, At, nodeVars
  <1>30. CASE PurgeStores
    BY <1>30 DEF PurgeStores, Stores, At, nodeVars
  <1>31. CASE StoreFails
    BY <1>31 DEF StoreFails, At, rowVars, nodeVars
  <1>32. CASE Finish
    BY <1>32 DEF Finish, At, rowVars, nodeVars
  <1>33. ASSUME NEW k \in Kind, LateEffect(k) PROVE WatchTypeOK'
    BY <1>33 DEF LateEffect, rowVars
  <1>34. CASE Inject
    BY <1>34 DEF Inject, rowVars
  <1>35. CASE Crash
    BY <1>35 DEF Crash, At, Abandoned, Retains, rowVars, nodeVars
  <1>36. CASE Recover
    BY <1>36 DEF Recover, rowVars, nodeVars
  <1>37. ASSUME NEW w \in Watcher, Poll(w) PROVE WatchTypeOK'
    BY <1>37 DEF Poll, Quit, rowVars, nodeVars
  <1>38. ASSUME NEW w \in Watcher, Ask(w) PROVE WatchTypeOK'
    BY <1>38 DEF Ask, rowVars, nodeVars
  <1>39. ASSUME NEW w \in Watcher, Mark(w) PROVE WatchTypeOK'
    BY <1>39 DEF Mark, Quit, nodeVars
  <1>40. CASE SaveRetention
    BY <1>40 DEF SaveRetention, rowVars, nodeVars
  <1>41. CASE DeadlinePasses
    BY <1>41 DEF DeadlinePasses, nodeVars
  <1>42. CASE SweepStarts
    BY <1>42 DEF SweepStarts, rowVars, nodeVars
  <1>43. CASE SweepQuery
    BY <1>43 DEF SweepQuery, rowVars, nodeVars
  <1>44. CASE SweepPurge
    BY <1>44 DEF SweepPurge, rowVars, nodeVars
  <1>45. CASE SweepCrowded
    BY <1>45 DEF SweepCrowded, rowVars, nodeVars
  <1> QED
    BY <1>1, <1>2, <1>3, <1>4, <1>5, <1>6, <1>7, <1>8, <1>9, <1>10, <1>11, <1>12, <1>13, <1>14,
       <1>15, <1>16, <1>17, <1>18, <1>19, <1>20, <1>21, <1>22, <1>23, <1>24, <1>25, <1>26, <1>27,
       <1>28, <1>29, <1>30, <1>31, <1>32, <1>33, <1>34, <1>35, <1>36, <1>37, <1>38, <1>39, <1>40,
       <1>41, <1>42, <1>43, <1>44, <1>45
       DEF Next, Body, Call, Store, Watch, Sweep

\* And the guest, of which there is never one too many.
LEMMA GuestStep ==
    ASSUME TypeOK, LateInv, [Next]_vars PROVE GuestTypeOK'
  <1> USE DEF GuestTypeOK
  <1>0. guest \in 0..MaxGuest /\ guestReady \in BOOLEAN /\ running \in BOOLEAN
    BY DEF TypeOK
  <1>1. CASE UNCHANGED vars
    BY <1>0, <1>1 DEF vars, rowVars, nodeVars
  <1>2. ASSUME NEW k \in Kinds, k # "create", Begin(k) PROVE GuestTypeOK'
    BY <1>2, <1>0 DEF Begin, rowVars, nodeVars
  <1>3. CASE Create
    BY <1>3, <1>0 DEF Create, nodeVars
  <1>4. CASE CreateCalls
    BY <1>4, <1>0 DEF CreateCalls, Sends, At, rowVars, nodeVars
  <1>5. CASE PowerCalls
    BY <1>5, <1>0 DEF PowerCalls, Sends, At, rowVars, nodeVars
  <1>6. CASE StatusCalls
    BY <1>6, <1>0 DEF StatusCalls, Sends, At, rowVars, nodeVars
  <1>7. CASE NetworkCalls
    BY <1>7, <1>0 DEF NetworkCalls, Sends, At, rowVars, nodeVars
  <1>8. CASE NetworkStatusCalls
    BY <1>8, <1>0 DEF NetworkStatusCalls, Sends, At, rowVars, nodeVars
  <1>9. CASE SnapshotRestoreCalls
    BY <1>9, <1>0 DEF SnapshotRestoreCalls, Sends, At, rowVars, nodeVars
  <1>10. CASE BackupRestoreCalls
    BY <1>10, <1>0 DEF BackupRestoreCalls, Sends, At, rowVars, nodeVars
  <1>11. CASE ResizeCalls
    BY <1>11, <1>0 DEF ResizeCalls, Sends, At, rowVars, nodeVars
  <1>12. CASE RecycleCalls
    BY <1>12, <1>0 DEF RecycleCalls, At, rowVars, nodeVars
  <1>13. CASE TrashRestoreCalls
    BY <1>13, <1>0 DEF TrashRestoreCalls, Sends, At, rowVars, nodeVars
  <1>14. CASE PurgeCalls
    BY <1>14, <1>0 DEF PurgeCalls, Sends, At, rowVars, nodeVars
  <1>15. CASE Reject
    BY <1>15, <1>0 DEF Reject, At, rowVars, nodeVars
  <1>16. CASE Apply
    <2>1. Effect(op.kind) /\ op.kind \in Kind /\ (op.kind \in Replacing => guest < MaxGuest)
      BY <1>16 DEF Apply, At, Owned, LateInv
    <2> QED
      BY <2>1, EffectGuest, EffectRunning, EffectReady
  <1>17. CASE Reply
    BY <1>17, <1>0 DEF Reply, At, rowVars, nodeVars
  <1>18. CASE CallFails
    BY <1>18, <1>0 DEF CallFails, At, Abandoned, Retains, nodeVars
  <1>19. CASE CreateStores
    BY <1>19, <1>0 DEF CreateStores, Stores, At, nodeVars, rowVars
  <1>20. CASE PowerStores
    BY <1>20, <1>0 DEF PowerStores, Stores, At, nodeVars, rowVars
  <1>21. CASE ResizeStores
    BY <1>21, <1>0 DEF ResizeStores, Stores, At, nodeVars, rowVars
  <1>22. CASE ReinstallStores
    BY <1>22, <1>0 DEF ReinstallStores, Stores, At, nodeVars, StartsWatcher
  <1>23. CASE SnapshotRestoreStores
    BY <1>23, <1>0 DEF SnapshotRestoreStores, Stores, At, nodeVars
  <1>24. CASE BackupRestoreStores
    BY <1>24, <1>0 DEF BackupRestoreStores, Stores, At, nodeVars
  <1>25. CASE StatusStores
    BY <1>25, <1>0 DEF StatusStores, Stores, At, nodeVars
  <1>26. CASE NetworkStores
    BY <1>26, <1>0 DEF NetworkStores, Stores, At, nodeVars
  <1>27. CASE NetworkStatusStores
    BY <1>27, <1>0 DEF NetworkStatusStores, Stores, At, nodeVars, rowVars
  <1>28. CASE RecycleStores
    BY <1>28, <1>0 DEF RecycleStores, Stores, At, nodeVars
  <1>29. CASE TrashRestoreStores
    BY <1>29, <1>0 DEF TrashRestoreStores, Stores, At, nodeVars
  <1>30. CASE PurgeStores
    BY <1>30, <1>0 DEF PurgeStores, Stores, At, nodeVars
  <1>31. CASE StoreFails
    BY <1>31, <1>0 DEF StoreFails, At, rowVars, nodeVars
  <1>32. CASE Finish
    BY <1>32, <1>0 DEF Finish, At, rowVars, nodeVars
  <1>33. ASSUME NEW k \in Kind, LateEffect(k) PROVE GuestTypeOK'
    <2>1. Effect(k) /\ (k \in Replacing => guest < MaxGuest)
      BY <1>33 DEF LateEffect
    <2> QED
      BY <1>33, <2>1, EffectGuest, EffectRunning, EffectReady
  <1>34. CASE Inject
    BY <1>34, <1>0 DEF Inject, rowVars
  <1>35. CASE Crash
    BY <1>35, <1>0 DEF Crash, At, Abandoned, Retains, rowVars, nodeVars
  <1>36. CASE Recover
    BY <1>36, <1>0 DEF Recover, rowVars, nodeVars
  <1>37. ASSUME NEW w \in Watcher, Poll(w) PROVE GuestTypeOK'
    BY <1>37, <1>0 DEF Poll, Quit, rowVars, nodeVars
  <1>38. ASSUME NEW w \in Watcher, Ask(w) PROVE GuestTypeOK'
    BY <1>38, <1>0 DEF Ask, rowVars, nodeVars
  <1>39. ASSUME NEW w \in Watcher, Mark(w) PROVE GuestTypeOK'
    BY <1>39, <1>0 DEF Mark, Quit, nodeVars
  <1>40. CASE SaveRetention
    BY <1>40, <1>0 DEF SaveRetention, rowVars, nodeVars
  <1>41. CASE DeadlinePasses
    BY <1>41, <1>0 DEF DeadlinePasses, nodeVars
  <1>42. CASE SweepStarts
    BY <1>42, <1>0 DEF SweepStarts, rowVars, nodeVars
  <1>43. CASE SweepQuery
    BY <1>43, <1>0 DEF SweepQuery, rowVars, nodeVars
  <1>44. CASE SweepPurge
    BY <1>44, <1>0 DEF SweepPurge, rowVars, nodeVars
  <1>45. CASE SweepCrowded
    BY <1>45, <1>0 DEF SweepCrowded, rowVars, nodeVars
  <1> QED
    BY <1>1, <1>2, <1>3, <1>4, <1>5, <1>6, <1>7, <1>8, <1>9, <1>10, <1>11, <1>12, <1>13, <1>14,
       <1>15, <1>16, <1>17, <1>18, <1>19, <1>20, <1>21, <1>22, <1>23, <1>24, <1>25, <1>26, <1>27,
       <1>28, <1>29, <1>30, <1>31, <1>32, <1>33, <1>34, <1>35, <1>36, <1>37, <1>38, <1>39, <1>40,
       <1>41, <1>42, <1>43, <1>44, <1>45
       DEF Next, Body, Call, Store, Watch, Sweep

\* A call is carried out before its answer is stored.
LEMMA StageStep ==
    ASSUME TypeOK, StageInv, [Next]_vars PROVE StageInv'
  <1> USE FenceFacts DEF StageInv
  <1>1. CASE UNCHANGED vars
    BY <1>1 DEF vars, rowVars, nodeVars, Owned
  <1>2. ASSUME NEW k \in Kinds, k # "create", Begin(k) PROVE StageInv'
    BY <1>2, OpFacts, BeginFacts DEF Begin, rowVars, nodeVars, Owned
  <1>3. CASE Create
    BY <1>3, OpFacts, CreateFacts DEF Create, nodeVars, Owned
  <1>4. CASE CreateCalls
    BY <1>4, OpFacts, GoToFacts DEF CreateCalls, Sends, At, rowVars, nodeVars, Owned
  <1>5. CASE PowerCalls
    BY <1>5, OpFacts, GoToFacts DEF PowerCalls, Sends, At, rowVars, nodeVars, Owned
  <1>6. CASE StatusCalls
    BY <1>6, OpFacts, GoToFacts DEF StatusCalls, Sends, At, rowVars, nodeVars, Owned
  <1>7. CASE NetworkCalls
    BY <1>7, OpFacts, GoToFacts DEF NetworkCalls, Sends, At, rowVars, nodeVars, Owned
  <1>8. CASE NetworkStatusCalls
    BY <1>8, OpFacts, GoToFacts DEF NetworkStatusCalls, Sends, At, rowVars, nodeVars, Owned
  <1>9. CASE SnapshotRestoreCalls
    BY <1>9, OpFacts, GoToFacts DEF SnapshotRestoreCalls, Sends, At, rowVars, nodeVars, Owned
  <1>10. CASE BackupRestoreCalls
    BY <1>10, OpFacts, GoToFacts DEF BackupRestoreCalls, Sends, At, rowVars, nodeVars, Owned
  <1>11. CASE ResizeCalls
    BY <1>11, OpFacts, GoToFacts DEF ResizeCalls, Sends, At, rowVars, nodeVars, Owned
  <1>12. CASE RecycleCalls
    BY <1>12, OpFacts, RecycleFacts DEF RecycleCalls, At, rowVars, nodeVars, Owned
  <1>13. CASE TrashRestoreCalls
    BY <1>13, OpFacts, GoToFacts DEF TrashRestoreCalls, Sends, At, rowVars, nodeVars, Owned
  <1>14. CASE PurgeCalls
    BY <1>14, OpFacts, GoToFacts DEF PurgeCalls, Sends, At, rowVars, nodeVars, Owned
  <1>15. CASE Reject
    BY <1>15, OpFacts DEF Reject, At, rowVars, nodeVars, Owned
  <1>16. CASE Apply
    BY <1>16, OpFacts, ApplyFacts DEF Apply, At, rowVars, Owned
  <1>17. CASE Reply
    BY <1>17, OpFacts, GoToFacts DEF Reply, At, rowVars, nodeVars, Owned
  <1>18. CASE CallFails
    BY <1>18, OpFacts DEF CallFails, At, Abandoned, Retains, nodeVars, Owned
  <1>19. CASE CreateStores
    BY <1>19, OpFacts, GoToFacts DEF CreateStores, Stores, At, nodeVars, rowVars, Owned
  <1>20. CASE PowerStores
    BY <1>20, OpFacts, GoToFacts DEF PowerStores, Stores, At, nodeVars, rowVars, Owned
  <1>21. CASE ResizeStores
    BY <1>21, OpFacts, GoToFacts DEF ResizeStores, Stores, At, nodeVars, rowVars, Owned
  <1>22. CASE ReinstallStores
    BY <1>22, OpFacts, GoToFacts DEF ReinstallStores, Stores, At, nodeVars, StartsWatcher, Owned
  <1>23. CASE SnapshotRestoreStores
    BY <1>23, OpFacts, GoToFacts DEF SnapshotRestoreStores, Stores, At, nodeVars, Owned
  <1>24. CASE BackupRestoreStores
    BY <1>24, OpFacts, GoToFacts DEF BackupRestoreStores, Stores, At, nodeVars, Owned
  <1>25. CASE StatusStores
    BY <1>25, OpFacts, GoToFacts DEF StatusStores, Stores, At, nodeVars, Owned
  <1>26. CASE NetworkStores
    BY <1>26, OpFacts, GoToFacts DEF NetworkStores, Stores, At, nodeVars, Owned
  <1>27. CASE NetworkStatusStores
    BY <1>27, OpFacts, GoToFacts DEF NetworkStatusStores, Stores, At, nodeVars, rowVars, Owned
  <1>28. CASE RecycleStores
    BY <1>28, OpFacts, GoToFacts DEF RecycleStores, Stores, At, nodeVars, Owned
  <1>29. CASE TrashRestoreStores
    BY <1>29, OpFacts, GoToFacts DEF TrashRestoreStores, Stores, At, nodeVars, Owned
  <1>30. CASE PurgeStores
    BY <1>30, OpFacts, GoToFacts DEF PurgeStores, Stores, At, nodeVars, Owned
  <1>31. CASE StoreFails
    BY <1>31, OpFacts DEF StoreFails, At, rowVars, nodeVars, Owned
  <1>32. CASE Finish
    BY <1>32, OpFacts DEF Finish, At, rowVars, nodeVars, Owned
  <1>33. ASSUME NEW k \in Kind, LateEffect(k) PROVE StageInv'
    BY <1>33, OpFacts DEF LateEffect, rowVars, Owned
  <1>34. CASE Inject
    BY <1>34, OpFacts DEF Inject, rowVars, Owned
  <1>35. CASE Crash
    BY <1>35, OpFacts DEF Crash, At, Abandoned, Retains, rowVars, nodeVars, Owned
  <1>36. CASE Recover
    BY <1>36, OpFacts DEF Recover, rowVars, nodeVars, Owned
  <1>37. ASSUME NEW w \in Watcher, Poll(w) PROVE StageInv'
    BY <1>37, OpFacts DEF Poll, Quit, rowVars, nodeVars, Owned
  <1>38. ASSUME NEW w \in Watcher, Ask(w) PROVE StageInv'
    BY <1>38, OpFacts DEF Ask, rowVars, nodeVars, Owned
  <1>39. ASSUME NEW w \in Watcher, Mark(w) PROVE StageInv'
    BY <1>39, OpFacts DEF Mark, Quit, nodeVars, Owned
  <1>40. CASE SaveRetention
    BY <1>40, OpFacts DEF SaveRetention, rowVars, nodeVars, Owned
  <1>41. CASE DeadlinePasses
    BY <1>41, OpFacts DEF DeadlinePasses, nodeVars, Owned
  <1>42. CASE SweepStarts
    BY <1>42, OpFacts DEF SweepStarts, rowVars, nodeVars, Owned
  <1>43. CASE SweepQuery
    BY <1>43, OpFacts DEF SweepQuery, rowVars, nodeVars, Owned
  <1>44. CASE SweepPurge
    BY <1>44, OpFacts, SweepFacts DEF SweepPurge, rowVars, nodeVars, Owned
  <1>45. CASE SweepCrowded
    BY <1>45, OpFacts DEF SweepCrowded, rowVars, nodeVars, Owned
  <1> QED
    BY <1>1, <1>2, <1>3, <1>4, <1>5, <1>6, <1>7, <1>8, <1>9, <1>10, <1>11, <1>12, <1>13, <1>14,
       <1>15, <1>16, <1>17, <1>18, <1>19, <1>20, <1>21, <1>22, <1>23, <1>24, <1>25, <1>26, <1>27,
       <1>28, <1>29, <1>30, <1>31, <1>32, <1>33, <1>34, <1>35, <1>36, <1>37, <1>38, <1>39, <1>40,
       <1>41, <1>42, <1>43, <1>44, <1>45
       DEF Next, Body, Call, Store, Watch, Sweep

\* What replaces the guest keeps the fence for as long as it is not known to be over.
LEMMA LateStep ==
    ASSUME TypeOK, LateInv, StageInv, [Next]_vars PROVE LateInv'
  <1> USE FenceFacts, OpFacts DEF LateInv, Replacing
  <1>1. CASE UNCHANGED vars
    BY <1>1 DEF vars, rowVars, nodeVars, Owned, Retains
  <1>2. ASSUME NEW k \in Kinds, k # "create", Begin(k) PROVE LateInv'
    BY <1>2, OpFacts, BeginFacts DEF Begin, rowVars, nodeVars, Owned
  <1>3. CASE Create
    BY <1>3, OpFacts, CreateFacts DEF Create, nodeVars, Owned
  <1>4. CASE CreateCalls
    BY <1>4, OpFacts, GoToFacts DEF CreateCalls, Sends, At, rowVars, nodeVars, Owned
  <1>5. CASE PowerCalls
    BY <1>5, OpFacts, GoToFacts DEF PowerCalls, Sends, At, rowVars, nodeVars, Owned
  <1>6. CASE StatusCalls
    BY <1>6, OpFacts, GoToFacts DEF StatusCalls, Sends, At, rowVars, nodeVars, Owned
  <1>7. CASE NetworkCalls
    BY <1>7, OpFacts, GoToFacts DEF NetworkCalls, Sends, At, rowVars, nodeVars, Owned
  <1>8. CASE NetworkStatusCalls
    BY <1>8, OpFacts, GoToFacts DEF NetworkStatusCalls, Sends, At, rowVars, nodeVars, Owned
  <1>9. CASE SnapshotRestoreCalls
    BY <1>9, OpFacts, GoToFacts DEF SnapshotRestoreCalls, Sends, At, rowVars, nodeVars, Owned
  <1>10. CASE BackupRestoreCalls
    BY <1>10, OpFacts, GoToFacts DEF BackupRestoreCalls, Sends, At, rowVars, nodeVars, Owned
  <1>11. CASE ResizeCalls
    BY <1>11, OpFacts, GoToFacts DEF ResizeCalls, Sends, At, rowVars, nodeVars, Owned
  <1>12. CASE RecycleCalls
    BY <1>12, OpFacts, RecycleFacts DEF RecycleCalls, At, rowVars, nodeVars, Owned
  <1>13. CASE TrashRestoreCalls
    BY <1>13, OpFacts, GoToFacts DEF TrashRestoreCalls, Sends, At, rowVars, nodeVars, Owned
  <1>14. CASE PurgeCalls
    BY <1>14, OpFacts, GoToFacts DEF PurgeCalls, Sends, At, rowVars, nodeVars, Owned
  <1>15. CASE Reject
    BY <1>15, OpFacts DEF Reject, At, rowVars, nodeVars, Owned
  <1>16. CASE Apply
    BY <1>16, OpFacts, ApplyFacts DEF Apply, At, rowVars, Owned
  <1>17. CASE Reply
    BY <1>17, OpFacts, GoToFacts DEF Reply, At, rowVars, nodeVars, Owned
  <1>18. CASE CallFails
    BY <1>18, OpFacts DEF CallFails, At, Abandoned, Retains, nodeVars, Owned
  <1>19. CASE CreateStores
    BY <1>19, OpFacts, GoToFacts DEF CreateStores, Stores, At, nodeVars, rowVars, Owned
  <1>20. CASE PowerStores
    BY <1>20, OpFacts, GoToFacts DEF PowerStores, Stores, At, nodeVars, rowVars, Owned
  <1>21. CASE ResizeStores
    BY <1>21, OpFacts, GoToFacts DEF ResizeStores, Stores, At, nodeVars, rowVars, Owned
  <1>22. CASE ReinstallStores
    BY <1>22, OpFacts, GoToFacts DEF ReinstallStores, Stores, At, nodeVars, StartsWatcher, Owned
  <1>23. CASE SnapshotRestoreStores
    BY <1>23, OpFacts, GoToFacts DEF SnapshotRestoreStores, Stores, At, nodeVars, Owned
  <1>24. CASE BackupRestoreStores
    BY <1>24, OpFacts, GoToFacts DEF BackupRestoreStores, Stores, At, nodeVars, Owned
  <1>25. CASE StatusStores
    BY <1>25, OpFacts, GoToFacts DEF StatusStores, Stores, At, nodeVars, Owned
  <1>26. CASE NetworkStores
    BY <1>26, OpFacts, GoToFacts DEF NetworkStores, Stores, At, nodeVars, Owned
  <1>27. CASE NetworkStatusStores
    BY <1>27, OpFacts, GoToFacts DEF NetworkStatusStores, Stores, At, nodeVars, rowVars, Owned
  <1>28. CASE RecycleStores
    BY <1>28, OpFacts, GoToFacts DEF RecycleStores, Stores, At, nodeVars, Owned
  <1>29. CASE TrashRestoreStores
    BY <1>29, OpFacts, GoToFacts DEF TrashRestoreStores, Stores, At, nodeVars, Owned
  <1>30. CASE PurgeStores
    BY <1>30, OpFacts, GoToFacts DEF PurgeStores, Stores, At, nodeVars, Owned
  <1>31. CASE StoreFails
    BY <1>31, OpFacts DEF StoreFails, At, rowVars, nodeVars, Owned
  <1>32. CASE Finish
    BY <1>32, OpFacts DEF Finish, At, rowVars, nodeVars, Owned
  <1>33. ASSUME NEW k \in Kind, LateEffect(k) PROVE LateInv'
    <2>1. op' = op /\ late' \subseteq late /\ k \in late
      BY <1>33 DEF LateEffect
    <2>0. row' = "absent" => op' = Idle
      BY <1>33 DEF LateEffect, rowVars
    <2>2. \A x \in late' : Retains(x) => op' = Stranded
      BY <2>1
    <2>3. ASSUME Owned', op'.kind \in Replacing, ~op'.applied PROVE guest' < MaxGuest
      <3>1. guest < MaxGuest /\ k \notin Replacing
        BY <2>1, <2>3, FenceFacts DEF Owned, Retains
      <3>2. guest' = guest \/ guest' = 0 \/ guest' = 1
        BY <1>33, <3>1, EffectGuest DEF LateEffect
      <3> QED
        BY <3>1, <3>2, LifecycleAssumption
    <2> QED
      BY <2>0, <2>2, <2>3 DEF Retains
  <1>34. CASE Inject
    BY <1>34, OpFacts DEF Inject, rowVars, Owned
  <1>35. CASE Crash
    BY <1>35, OpFacts DEF Crash, At, Abandoned, Retains, rowVars, nodeVars, Owned
  <1>36. CASE Recover
    BY <1>36, OpFacts DEF Recover, rowVars, nodeVars, Owned
  <1>37. ASSUME NEW w \in Watcher, Poll(w) PROVE LateInv'
    BY <1>37, OpFacts DEF Poll, Quit, rowVars, nodeVars, Owned
  <1>38. ASSUME NEW w \in Watcher, Ask(w) PROVE LateInv'
    BY <1>38, OpFacts DEF Ask, rowVars, nodeVars, Owned
  <1>39. ASSUME NEW w \in Watcher, Mark(w) PROVE LateInv'
    BY <1>39, OpFacts DEF Mark, Quit, nodeVars, Owned
  <1>40. CASE SaveRetention
    BY <1>40, OpFacts DEF SaveRetention, rowVars, nodeVars, Owned
  <1>41. CASE DeadlinePasses
    BY <1>41, OpFacts DEF DeadlinePasses, nodeVars, Owned
  <1>42. CASE SweepStarts
    BY <1>42, OpFacts DEF SweepStarts, rowVars, nodeVars, Owned
  <1>43. CASE SweepQuery
    BY <1>43, OpFacts DEF SweepQuery, rowVars, nodeVars, Owned
  <1>44. CASE SweepPurge
    BY <1>44, OpFacts, SweepFacts DEF SweepPurge, rowVars, nodeVars, Owned
  <1>45. CASE SweepCrowded
    BY <1>45, OpFacts DEF SweepCrowded, rowVars, nodeVars, Owned
  <1> QED
    BY <1>1, <1>2, <1>3, <1>4, <1>5, <1>6, <1>7, <1>8, <1>9, <1>10, <1>11, <1>12, <1>13, <1>14,
       <1>15, <1>16, <1>17, <1>18, <1>19, <1>20, <1>21, <1>22, <1>23, <1>24, <1>25, <1>26, <1>27,
       <1>28, <1>29, <1>30, <1>31, <1>32, <1>33, <1>34, <1>35, <1>36, <1>37, <1>38, <1>39, <1>40,
       <1>41, <1>42, <1>43, <1>44, <1>45
       DEF Next, Body, Call, Store, Watch, Sweep

\* Only what keeps its fence is carried out late.
LEMMA RetainedStep ==
    ASSUME ~LateEffects, TypeOK, OnlyRetained, [Next]_vars PROVE OnlyRetained'
  <1> USE DEF OnlyRetained, Retains
  <1>1. CASE UNCHANGED vars
    BY <1>1 DEF vars, rowVars, nodeVars
  <1>2. ASSUME NEW k \in Kinds, k # "create", Begin(k) PROVE OnlyRetained'
    BY <1>2 DEF Begin, rowVars, nodeVars
  <1>3. CASE Create
    BY <1>3 DEF Create, nodeVars
  <1>4. CASE CreateCalls
    BY <1>4 DEF CreateCalls, Sends, At, rowVars, nodeVars
  <1>5. CASE PowerCalls
    BY <1>5 DEF PowerCalls, Sends, At, rowVars, nodeVars
  <1>6. CASE StatusCalls
    BY <1>6 DEF StatusCalls, Sends, At, rowVars, nodeVars
  <1>7. CASE NetworkCalls
    BY <1>7 DEF NetworkCalls, Sends, At, rowVars, nodeVars
  <1>8. CASE NetworkStatusCalls
    BY <1>8 DEF NetworkStatusCalls, Sends, At, rowVars, nodeVars
  <1>9. CASE SnapshotRestoreCalls
    BY <1>9 DEF SnapshotRestoreCalls, Sends, At, rowVars, nodeVars
  <1>10. CASE BackupRestoreCalls
    BY <1>10 DEF BackupRestoreCalls, Sends, At, rowVars, nodeVars
  <1>11. CASE ResizeCalls
    BY <1>11 DEF ResizeCalls, Sends, At, rowVars, nodeVars
  <1>12. CASE RecycleCalls
    BY <1>12 DEF RecycleCalls, At, rowVars, nodeVars
  <1>13. CASE TrashRestoreCalls
    BY <1>13 DEF TrashRestoreCalls, Sends, At, rowVars, nodeVars
  <1>14. CASE PurgeCalls
    BY <1>14 DEF PurgeCalls, Sends, At, rowVars, nodeVars
  <1>15. CASE Reject
    BY <1>15 DEF Reject, At, rowVars, nodeVars
  <1>16. CASE Apply
    BY <1>16 DEF Apply, At, rowVars
  <1>17. CASE Reply
    BY <1>17 DEF Reply, At, rowVars, nodeVars
  <1>18. CASE CallFails
    BY <1>18 DEF CallFails, At, Abandoned, Retains, nodeVars
  <1>19. CASE CreateStores
    BY <1>19 DEF CreateStores, Stores, At, nodeVars, rowVars
  <1>20. CASE PowerStores
    BY <1>20 DEF PowerStores, Stores, At, nodeVars, rowVars
  <1>21. CASE ResizeStores
    BY <1>21 DEF ResizeStores, Stores, At, nodeVars, rowVars
  <1>22. CASE ReinstallStores
    BY <1>22 DEF ReinstallStores, Stores, At, nodeVars, StartsWatcher
  <1>23. CASE SnapshotRestoreStores
    BY <1>23 DEF SnapshotRestoreStores, Stores, At, nodeVars
  <1>24. CASE BackupRestoreStores
    BY <1>24 DEF BackupRestoreStores, Stores, At, nodeVars
  <1>25. CASE StatusStores
    BY <1>25 DEF StatusStores, Stores, At, nodeVars
  <1>26. CASE NetworkStores
    BY <1>26 DEF NetworkStores, Stores, At, nodeVars
  <1>27. CASE NetworkStatusStores
    BY <1>27 DEF NetworkStatusStores, Stores, At, nodeVars, rowVars
  <1>28. CASE RecycleStores
    BY <1>28 DEF RecycleStores, Stores, At, nodeVars
  <1>29. CASE TrashRestoreStores
    BY <1>29 DEF TrashRestoreStores, Stores, At, nodeVars
  <1>30. CASE PurgeStores
    BY <1>30 DEF PurgeStores, Stores, At, nodeVars
  <1>31. CASE StoreFails
    BY <1>31 DEF StoreFails, At, rowVars, nodeVars
  <1>32. CASE Finish
    BY <1>32 DEF Finish, At, rowVars, nodeVars
  <1>33. ASSUME NEW k \in Kind, LateEffect(k) PROVE OnlyRetained'
    BY <1>33 DEF LateEffect, rowVars
  <1>34. CASE Inject
    BY <1>34 DEF Inject, rowVars
  <1>35. CASE Crash
    BY <1>35 DEF Crash, At, Abandoned, Retains, rowVars, nodeVars
  <1>36. CASE Recover
    BY <1>36 DEF Recover, rowVars, nodeVars
  <1>37. ASSUME NEW w \in Watcher, Poll(w) PROVE OnlyRetained'
    BY <1>37 DEF Poll, Quit, rowVars, nodeVars
  <1>38. ASSUME NEW w \in Watcher, Ask(w) PROVE OnlyRetained'
    BY <1>38 DEF Ask, rowVars, nodeVars
  <1>39. ASSUME NEW w \in Watcher, Mark(w) PROVE OnlyRetained'
    BY <1>39 DEF Mark, Quit, nodeVars
  <1>40. CASE SaveRetention
    BY <1>40 DEF SaveRetention, rowVars, nodeVars
  <1>41. CASE DeadlinePasses
    BY <1>41 DEF DeadlinePasses, nodeVars
  <1>42. CASE SweepStarts
    BY <1>42 DEF SweepStarts, rowVars, nodeVars
  <1>43. CASE SweepQuery
    BY <1>43 DEF SweepQuery, rowVars, nodeVars
  <1>44. CASE SweepPurge
    BY <1>44 DEF SweepPurge, rowVars, nodeVars
  <1>45. CASE SweepCrowded
    BY <1>45 DEF SweepCrowded, rowVars, nodeVars
  <1> QED
    BY <1>1, <1>2, <1>3, <1>4, <1>5, <1>6, <1>7, <1>8, <1>9, <1>10, <1>11, <1>12, <1>13, <1>14,
       <1>15, <1>16, <1>17, <1>18, <1>19, <1>20, <1>21, <1>22, <1>23, <1>24, <1>25, <1>26, <1>27,
       <1>28, <1>29, <1>30, <1>31, <1>32, <1>33, <1>34, <1>35, <1>36, <1>37, <1>38, <1>39, <1>40,
       <1>41, <1>42, <1>43, <1>44, <1>45
       DEF Next, Body, Call, Store, Watch, Sweep

\* A purge deletes the row over a guest that is gone, and nothing comes after it.
LEMMA PurgeStep ==
    ASSUME TypeOK, LateInv, StageInv, OnlyRetained, PurgeInv, [Next]_vars PROVE PurgeInv'
  <1> USE FenceFacts, OpFacts DEF LateInv, StageInv, OnlyRetained, PurgeInv
  <1>1. CASE UNCHANGED vars
    BY <1>1 DEF vars, rowVars, nodeVars, Owned, Retains
  <1>2. ASSUME NEW k \in Kinds, k # "create", Begin(k) PROVE PurgeInv'
    BY <1>2, OpFacts, BeginFacts DEF Begin, rowVars, nodeVars, Owned
  <1>3. CASE Create
    BY <1>3, OpFacts, CreateFacts DEF Create, nodeVars, Owned
  <1>4. CASE CreateCalls
    BY <1>4, OpFacts, GoToFacts DEF CreateCalls, Sends, At, rowVars, nodeVars, Owned
  <1>5. CASE PowerCalls
    BY <1>5, OpFacts, GoToFacts DEF PowerCalls, Sends, At, rowVars, nodeVars, Owned
  <1>6. CASE StatusCalls
    BY <1>6, OpFacts, GoToFacts DEF StatusCalls, Sends, At, rowVars, nodeVars, Owned
  <1>7. CASE NetworkCalls
    BY <1>7, OpFacts, GoToFacts DEF NetworkCalls, Sends, At, rowVars, nodeVars, Owned
  <1>8. CASE NetworkStatusCalls
    BY <1>8, OpFacts, GoToFacts DEF NetworkStatusCalls, Sends, At, rowVars, nodeVars, Owned
  <1>9. CASE SnapshotRestoreCalls
    BY <1>9, OpFacts, GoToFacts DEF SnapshotRestoreCalls, Sends, At, rowVars, nodeVars, Owned
  <1>10. CASE BackupRestoreCalls
    BY <1>10, OpFacts, GoToFacts DEF BackupRestoreCalls, Sends, At, rowVars, nodeVars, Owned
  <1>11. CASE ResizeCalls
    BY <1>11, OpFacts, GoToFacts DEF ResizeCalls, Sends, At, rowVars, nodeVars, Owned
  <1>12. CASE RecycleCalls
    BY <1>12, OpFacts, RecycleFacts DEF RecycleCalls, At, rowVars, nodeVars, Owned
  <1>13. CASE TrashRestoreCalls
    BY <1>13, OpFacts, GoToFacts DEF TrashRestoreCalls, Sends, At, rowVars, nodeVars, Owned
  <1>14. CASE PurgeCalls
    BY <1>14, OpFacts, GoToFacts DEF PurgeCalls, Sends, At, rowVars, nodeVars, Owned
  <1>15. CASE Reject
    BY <1>15, OpFacts DEF Reject, At, rowVars, nodeVars, Owned
  <1>16. CASE Apply
    <2>1. Effect(op.kind) /\ op.kind \in Kind /\ (op.kind \in Replacing => guest < MaxGuest)
      BY <1>16 DEF Apply, At, Owned
    <2>2. late = {} /\ ~op.applied /\ op.stage = "wait"
      BY <1>16 DEF Apply, At, Owned
    <2> QED
      BY <1>16, <2>1, <2>2, ApplyFacts, EffectGuest, EffectRunning, EffectReady
         DEF Apply, rowVars, Owned, Replacing
  <1>17. CASE Reply
    BY <1>17, OpFacts, GoToFacts DEF Reply, At, rowVars, nodeVars, Owned
  <1>18. CASE CallFails
    BY <1>18, OpFacts DEF CallFails, At, Abandoned, Retains, nodeVars, Owned
  <1>19. CASE CreateStores
    BY <1>19, OpFacts, GoToFacts DEF CreateStores, Stores, At, nodeVars, rowVars, Owned
  <1>20. CASE PowerStores
    BY <1>20, OpFacts, GoToFacts DEF PowerStores, Stores, At, nodeVars, rowVars, Owned
  <1>21. CASE ResizeStores
    BY <1>21, OpFacts, GoToFacts DEF ResizeStores, Stores, At, nodeVars, rowVars, Owned
  <1>22. CASE ReinstallStores
    BY <1>22, OpFacts, GoToFacts DEF ReinstallStores, Stores, At, nodeVars, StartsWatcher, Owned
  <1>23. CASE SnapshotRestoreStores
    BY <1>23, OpFacts, GoToFacts DEF SnapshotRestoreStores, Stores, At, nodeVars, Owned
  <1>24. CASE BackupRestoreStores
    BY <1>24, OpFacts, GoToFacts DEF BackupRestoreStores, Stores, At, nodeVars, Owned
  <1>25. CASE StatusStores
    BY <1>25, OpFacts, GoToFacts DEF StatusStores, Stores, At, nodeVars, Owned
  <1>26. CASE NetworkStores
    BY <1>26, OpFacts, GoToFacts DEF NetworkStores, Stores, At, nodeVars, Owned
  <1>27. CASE NetworkStatusStores
    BY <1>27, OpFacts, GoToFacts DEF NetworkStatusStores, Stores, At, nodeVars, rowVars, Owned
  <1>28. CASE RecycleStores
    BY <1>28, OpFacts, GoToFacts DEF RecycleStores, Stores, At, nodeVars, Owned
  <1>29. CASE TrashRestoreStores
    BY <1>29, OpFacts, GoToFacts DEF TrashRestoreStores, Stores, At, nodeVars, Owned
  <1>30. CASE PurgeStores
    BY <1>30, OpFacts, GoToFacts DEF PurgeStores, Stores, At, nodeVars, Owned
  <1>31. CASE StoreFails
    BY <1>31, OpFacts DEF StoreFails, At, rowVars, nodeVars, Owned
  <1>32. CASE Finish
    BY <1>32, OpFacts DEF Finish, At, rowVars, nodeVars, Owned
  <1>33. ASSUME NEW k \in Kind, LateEffect(k) PROVE PurgeInv'
    BY <1>33, OpFacts DEF LateEffect, rowVars, Owned
  <1>34. CASE Inject
    BY <1>34, OpFacts DEF Inject, rowVars, Owned
  <1>35. CASE Crash
    BY <1>35, OpFacts DEF Crash, At, Abandoned, Retains, rowVars, nodeVars, Owned
  <1>36. CASE Recover
    BY <1>36, OpFacts DEF Recover, rowVars, nodeVars, Owned
  <1>37. ASSUME NEW w \in Watcher, Poll(w) PROVE PurgeInv'
    BY <1>37, OpFacts DEF Poll, Quit, rowVars, nodeVars, Owned
  <1>38. ASSUME NEW w \in Watcher, Ask(w) PROVE PurgeInv'
    BY <1>38, OpFacts DEF Ask, rowVars, nodeVars, Owned
  <1>39. ASSUME NEW w \in Watcher, Mark(w) PROVE PurgeInv'
    BY <1>39, OpFacts DEF Mark, Quit, nodeVars, Owned
  <1>40. CASE SaveRetention
    BY <1>40, OpFacts DEF SaveRetention, rowVars, nodeVars, Owned
  <1>41. CASE DeadlinePasses
    BY <1>41, OpFacts DEF DeadlinePasses, nodeVars, Owned
  <1>42. CASE SweepStarts
    BY <1>42, OpFacts DEF SweepStarts, rowVars, nodeVars, Owned
  <1>43. CASE SweepQuery
    BY <1>43, OpFacts DEF SweepQuery, rowVars, nodeVars, Owned
  <1>44. CASE SweepPurge
    BY <1>44, OpFacts, SweepFacts DEF SweepPurge, rowVars, nodeVars, Owned
  <1>45. CASE SweepCrowded
    BY <1>45, OpFacts DEF SweepCrowded, rowVars, nodeVars, Owned
  <1> QED
    BY <1>1, <1>2, <1>3, <1>4, <1>5, <1>6, <1>7, <1>8, <1>9, <1>10, <1>11, <1>12, <1>13, <1>14,
       <1>15, <1>16, <1>17, <1>18, <1>19, <1>20, <1>21, <1>22, <1>23, <1>24, <1>25, <1>26, <1>27,
       <1>28, <1>29, <1>30, <1>31, <1>32, <1>33, <1>34, <1>35, <1>36, <1>37, <1>38, <1>39, <1>40,
       <1>41, <1>42, <1>43, <1>44, <1>45
       DEF Next, Body, Call, Store, Watch, Sweep

\* A recycled guest is stopped and stays so.
LEMMA TrashStep ==
    ASSUME ~LateEffects, TypeOK, LateInv, StageInv, OnlyRetained, TrashInv, [Next]_vars
    PROVE  TrashInv'
  <1> USE FenceFacts, OpFacts DEF LateInv, StageInv, OnlyRetained, TrashInv, Replacing
  <1>1. CASE UNCHANGED vars
    BY <1>1 DEF vars, rowVars, nodeVars, Owned, Retains
  <1>2. ASSUME NEW k \in Kinds, k # "create", Begin(k) PROVE TrashInv'
    BY <1>2, OpFacts, BeginFacts DEF Begin, rowVars, nodeVars, Owned
  <1>3. CASE Create
    BY <1>3, OpFacts, CreateFacts DEF Create, nodeVars, Owned
  <1>4. CASE CreateCalls
    BY <1>4, OpFacts, GoToFacts DEF CreateCalls, Sends, At, rowVars, nodeVars, Owned
  <1>5. CASE PowerCalls
    BY <1>5, OpFacts, GoToFacts DEF PowerCalls, Sends, At, rowVars, nodeVars, Owned
  <1>6. CASE StatusCalls
    BY <1>6, OpFacts, GoToFacts DEF StatusCalls, Sends, At, rowVars, nodeVars, Owned
  <1>7. CASE NetworkCalls
    BY <1>7, OpFacts, GoToFacts DEF NetworkCalls, Sends, At, rowVars, nodeVars, Owned
  <1>8. CASE NetworkStatusCalls
    BY <1>8, OpFacts, GoToFacts DEF NetworkStatusCalls, Sends, At, rowVars, nodeVars, Owned
  <1>9. CASE SnapshotRestoreCalls
    BY <1>9, OpFacts, GoToFacts DEF SnapshotRestoreCalls, Sends, At, rowVars, nodeVars, Owned
  <1>10. CASE BackupRestoreCalls
    BY <1>10, OpFacts, GoToFacts DEF BackupRestoreCalls, Sends, At, rowVars, nodeVars, Owned
  <1>11. CASE ResizeCalls
    BY <1>11, OpFacts, GoToFacts DEF ResizeCalls, Sends, At, rowVars, nodeVars, Owned
  <1>12. CASE RecycleCalls
    BY <1>12, OpFacts, RecycleFacts DEF RecycleCalls, At, rowVars, nodeVars, Owned
  <1>13. CASE TrashRestoreCalls
    BY <1>13, OpFacts, GoToFacts DEF TrashRestoreCalls, Sends, At, rowVars, nodeVars, Owned
  <1>14. CASE PurgeCalls
    BY <1>14, OpFacts, GoToFacts DEF PurgeCalls, Sends, At, rowVars, nodeVars, Owned
  <1>15. CASE Reject
    BY <1>15, OpFacts DEF Reject, At, rowVars, nodeVars, Owned
  <1>16. CASE Apply
    <2>1. Effect(op.kind) /\ op.kind \in Kind /\ (op.kind \in Replacing => guest < MaxGuest)
      BY <1>16 DEF Apply, At, Owned
    <2>2. late = {} /\ ~op.applied /\ op.stage = "wait"
      BY <1>16 DEF Apply, At, Owned
    <2> QED
      BY <1>16, <2>1, <2>2, ApplyFacts, EffectGuest, EffectRunning, EffectReady
         DEF Apply, rowVars, Owned, Replacing
  <1>17. CASE Reply
    BY <1>17, OpFacts, GoToFacts DEF Reply, At, rowVars, nodeVars, Owned
  <1>18. CASE CallFails
    BY <1>18, OpFacts DEF CallFails, At, Abandoned, Retains, nodeVars, Owned
  <1>19. CASE CreateStores
    BY <1>19, OpFacts, GoToFacts DEF CreateStores, Stores, At, nodeVars, rowVars, Owned
  <1>20. CASE PowerStores
    BY <1>20, OpFacts, GoToFacts DEF PowerStores, Stores, At, nodeVars, rowVars, Owned
  <1>21. CASE ResizeStores
    BY <1>21, OpFacts, GoToFacts DEF ResizeStores, Stores, At, nodeVars, rowVars, Owned
  <1>22. CASE ReinstallStores
    BY <1>22, OpFacts, GoToFacts DEF ReinstallStores, Stores, At, nodeVars, StartsWatcher, Owned
  <1>23. CASE SnapshotRestoreStores
    BY <1>23, OpFacts, GoToFacts DEF SnapshotRestoreStores, Stores, At, nodeVars, Owned
  <1>24. CASE BackupRestoreStores
    BY <1>24, OpFacts, GoToFacts DEF BackupRestoreStores, Stores, At, nodeVars, Owned
  <1>25. CASE StatusStores
    BY <1>25, OpFacts, GoToFacts DEF StatusStores, Stores, At, nodeVars, Owned
  <1>26. CASE NetworkStores
    BY <1>26, OpFacts, GoToFacts DEF NetworkStores, Stores, At, nodeVars, Owned
  <1>27. CASE NetworkStatusStores
    BY <1>27, OpFacts, GoToFacts DEF NetworkStatusStores, Stores, At, nodeVars, rowVars, Owned
  <1>28. CASE RecycleStores
    BY <1>28, OpFacts, GoToFacts DEF RecycleStores, Stores, At, nodeVars, Owned
  <1>29. CASE TrashRestoreStores
    BY <1>29, OpFacts, GoToFacts DEF TrashRestoreStores, Stores, At, nodeVars, Owned
  <1>30. CASE PurgeStores
    BY <1>30, OpFacts, GoToFacts DEF PurgeStores, Stores, At, nodeVars, Owned
  <1>31. CASE StoreFails
    BY <1>31, OpFacts DEF StoreFails, At, rowVars, nodeVars, Owned
  <1>32. CASE Finish
    BY <1>32, OpFacts DEF Finish, At, rowVars, nodeVars, Owned
  <1>33. ASSUME NEW k \in Kind, LateEffect(k) PROVE TrashInv'
    BY <1>33, OpFacts DEF LateEffect, rowVars, Owned
  <1>34. CASE Inject
    BY <1>34, OpFacts DEF Inject, rowVars, Owned
  <1>35. CASE Crash
    BY <1>35, OpFacts DEF Crash, At, Abandoned, Retains, rowVars, nodeVars, Owned
  <1>36. CASE Recover
    BY <1>36, OpFacts DEF Recover, rowVars, nodeVars, Owned
  <1>37. ASSUME NEW w \in Watcher, Poll(w) PROVE TrashInv'
    BY <1>37, OpFacts DEF Poll, Quit, rowVars, nodeVars, Owned
  <1>38. ASSUME NEW w \in Watcher, Ask(w) PROVE TrashInv'
    BY <1>38, OpFacts DEF Ask, rowVars, nodeVars, Owned
  <1>39. ASSUME NEW w \in Watcher, Mark(w) PROVE TrashInv'
    BY <1>39, OpFacts DEF Mark, Quit, nodeVars, Owned
  <1>40. CASE SaveRetention
    BY <1>40, OpFacts DEF SaveRetention, rowVars, nodeVars, Owned
  <1>41. CASE DeadlinePasses
    BY <1>41, OpFacts DEF DeadlinePasses, nodeVars, Owned
  <1>42. CASE SweepStarts
    BY <1>42, OpFacts DEF SweepStarts, rowVars, nodeVars, Owned
  <1>43. CASE SweepQuery
    BY <1>43, OpFacts DEF SweepQuery, rowVars, nodeVars, Owned
  <1>44. CASE SweepPurge
    BY <1>44, OpFacts, SweepFacts DEF SweepPurge, rowVars, nodeVars, Owned
  <1>45. CASE SweepCrowded
    BY <1>45, OpFacts DEF SweepCrowded, rowVars, nodeVars, Owned
  <1> QED
    BY <1>1, <1>2, <1>3, <1>4, <1>5, <1>6, <1>7, <1>8, <1>9, <1>10, <1>11, <1>12, <1>13, <1>14,
       <1>15, <1>16, <1>17, <1>18, <1>19, <1>20, <1>21, <1>22, <1>23, <1>24, <1>25, <1>26, <1>27,
       <1>28, <1>29, <1>30, <1>31, <1>32, <1>33, <1>34, <1>35, <1>36, <1>37, <1>38, <1>39, <1>40,
       <1>41, <1>42, <1>43, <1>44, <1>45
       DEF Next, Body, Call, Store, Watch, Sweep

\* Nobody watches what is only being made.
LEMMA WatchStep ==
    ASSUME TypeOK, LateInv, WatchInv, [Next]_vars PROVE WatchInv'
  <1>0. watch \in [Watcher -> Watching] /\ gen \in Nat
    BY DEF TypeOK
  <1> USE FenceFacts, OpFacts DEF LateInv, WatchInv
  <1>1. CASE UNCHANGED vars
    BY <1>0, <1>1 DEF vars, rowVars, nodeVars, Owned, Watching, Off, Polling
  <1>2. ASSUME NEW k \in Kinds, k # "create", Begin(k) PROVE WatchInv'
    BY <1>2, <1>0, OpFacts, BeginFacts DEF Begin, rowVars, nodeVars, Owned
  <1>3. CASE Create
    BY <1>3, <1>0, OpFacts, CreateFacts DEF Create, nodeVars, Owned
  <1>4. CASE CreateCalls
    BY <1>4, <1>0, OpFacts, GoToFacts DEF CreateCalls, Sends, At, rowVars, nodeVars, Owned
  <1>5. CASE PowerCalls
    BY <1>5, <1>0, OpFacts, GoToFacts DEF PowerCalls, Sends, At, rowVars, nodeVars, Owned
  <1>6. CASE StatusCalls
    BY <1>6, <1>0, OpFacts, GoToFacts DEF StatusCalls, Sends, At, rowVars, nodeVars, Owned
  <1>7. CASE NetworkCalls
    BY <1>7, <1>0, OpFacts, GoToFacts DEF NetworkCalls, Sends, At, rowVars, nodeVars, Owned
  <1>8. CASE NetworkStatusCalls
    BY <1>8, <1>0, OpFacts, GoToFacts DEF NetworkStatusCalls, Sends, At, rowVars, nodeVars, Owned
  <1>9. CASE SnapshotRestoreCalls
    BY <1>9, <1>0, OpFacts, GoToFacts DEF SnapshotRestoreCalls, Sends, At, rowVars, nodeVars, Owned
  <1>10. CASE BackupRestoreCalls
    BY <1>10, <1>0, OpFacts, GoToFacts DEF BackupRestoreCalls, Sends, At, rowVars, nodeVars, Owned
  <1>11. CASE ResizeCalls
    BY <1>11, <1>0, OpFacts, GoToFacts DEF ResizeCalls, Sends, At, rowVars, nodeVars, Owned
  <1>12. CASE RecycleCalls
    BY <1>12, <1>0, OpFacts, RecycleFacts DEF RecycleCalls, At, rowVars, nodeVars, Owned
  <1>13. CASE TrashRestoreCalls
    BY <1>13, <1>0, OpFacts, GoToFacts DEF TrashRestoreCalls, Sends, At, rowVars, nodeVars, Owned
  <1>14. CASE PurgeCalls
    BY <1>14, <1>0, OpFacts, GoToFacts DEF PurgeCalls, Sends, At, rowVars, nodeVars, Owned
  <1>15. CASE Reject
    BY <1>15, <1>0, OpFacts DEF Reject, At, rowVars, nodeVars, Owned
  <1>16. CASE Apply
    BY <1>16, <1>0, OpFacts, ApplyFacts DEF Apply, At, rowVars, Owned
  <1>17. CASE Reply
    BY <1>17, <1>0, OpFacts, GoToFacts DEF Reply, At, rowVars, nodeVars, Owned
  <1>18. CASE CallFails
    BY <1>18, <1>0, OpFacts DEF CallFails, At, Abandoned, Retains, nodeVars, Owned
  <1>19. CASE CreateStores
    BY <1>19, <1>0, OpFacts, GoToFacts DEF CreateStores, Stores, At, nodeVars, rowVars, Owned
  <1>20. CASE PowerStores
    BY <1>20, <1>0, OpFacts, GoToFacts DEF PowerStores, Stores, At, nodeVars, rowVars, Owned
  <1>21. CASE ResizeStores
    BY <1>21, <1>0, OpFacts, GoToFacts DEF ResizeStores, Stores, At, nodeVars, rowVars, Owned
  <1>22. CASE ReinstallStores
    BY <1>22, <1>0, OpFacts, GoToFacts
       DEF ReinstallStores, Stores, At, nodeVars, StartsWatcher, Owned, Polling
  <1>23. CASE SnapshotRestoreStores
    BY <1>23, <1>0, OpFacts, GoToFacts DEF SnapshotRestoreStores, Stores, At, nodeVars, Owned
  <1>24. CASE BackupRestoreStores
    BY <1>24, <1>0, OpFacts, GoToFacts DEF BackupRestoreStores, Stores, At, nodeVars, Owned
  <1>25. CASE StatusStores
    BY <1>25, <1>0, OpFacts, GoToFacts DEF StatusStores, Stores, At, nodeVars, Owned
  <1>26. CASE NetworkStores
    BY <1>26, <1>0, OpFacts, GoToFacts DEF NetworkStores, Stores, At, nodeVars, Owned
  <1>27. CASE NetworkStatusStores
    BY <1>27, <1>0, OpFacts, GoToFacts DEF NetworkStatusStores, Stores, At, nodeVars, rowVars, Owned
  <1>28. CASE RecycleStores
    BY <1>28, <1>0, OpFacts, GoToFacts DEF RecycleStores, Stores, At, nodeVars, Owned
  <1>29. CASE TrashRestoreStores
    BY <1>29, <1>0, OpFacts, GoToFacts DEF TrashRestoreStores, Stores, At, nodeVars, Owned
  <1>30. CASE PurgeStores
    BY <1>30, <1>0, OpFacts, GoToFacts DEF PurgeStores, Stores, At, nodeVars, Owned
  <1>31. CASE StoreFails
    BY <1>31, <1>0, OpFacts DEF StoreFails, At, rowVars, nodeVars, Owned
  <1>32. CASE Finish
    BY <1>32, <1>0, OpFacts DEF Finish, At, rowVars, nodeVars, Owned
  <1>33. ASSUME NEW k \in Kind, LateEffect(k) PROVE WatchInv'
    BY <1>33, <1>0, OpFacts DEF LateEffect, rowVars, Owned
  <1>34. CASE Inject
    BY <1>34, <1>0, OpFacts DEF Inject, rowVars, Owned
  <1>35. CASE Crash
    BY <1>35, <1>0, OpFacts DEF Crash, At, Abandoned, Retains, rowVars, nodeVars, Owned, Off
  <1>36. CASE Recover
    BY <1>36, <1>0, OpFacts DEF Recover, rowVars, nodeVars, Owned, Off
  <1>37. ASSUME NEW w \in Watcher, Poll(w) PROVE WatchInv'
    BY <1>37, <1>0, OpFacts DEF Poll, Quit, rowVars, nodeVars, Owned, Off
  <1>38. ASSUME NEW w \in Watcher, Ask(w) PROVE WatchInv'
    BY <1>38, <1>0, OpFacts DEF Ask, rowVars, nodeVars, Owned
  <1>39. ASSUME NEW w \in Watcher, Mark(w) PROVE WatchInv'
    BY <1>39, <1>0, OpFacts DEF Mark, Quit, nodeVars, Owned, Off
  <1>40. CASE SaveRetention
    BY <1>40, <1>0, OpFacts DEF SaveRetention, rowVars, nodeVars, Owned
  <1>41. CASE DeadlinePasses
    BY <1>41, <1>0, OpFacts DEF DeadlinePasses, nodeVars, Owned
  <1>42. CASE SweepStarts
    BY <1>42, <1>0, OpFacts DEF SweepStarts, rowVars, nodeVars, Owned
  <1>43. CASE SweepQuery
    BY <1>43, <1>0, OpFacts DEF SweepQuery, rowVars, nodeVars, Owned
  <1>44. CASE SweepPurge
    BY <1>44, <1>0, OpFacts, SweepFacts DEF SweepPurge, rowVars, nodeVars, Owned
  <1>45. CASE SweepCrowded
    BY <1>45, <1>0, OpFacts DEF SweepCrowded, rowVars, nodeVars, Owned
  <1> QED
    BY <1>1, <1>2, <1>3, <1>4, <1>5, <1>6, <1>7, <1>8, <1>9, <1>10, <1>11, <1>12, <1>13, <1>14,
       <1>15, <1>16, <1>17, <1>18, <1>19, <1>20, <1>21, <1>22, <1>23, <1>24, <1>25, <1>26, <1>27,
       <1>28, <1>29, <1>30, <1>31, <1>32, <1>33, <1>34, <1>35, <1>36, <1>37, <1>38, <1>39, <1>40,
       <1>41, <1>42, <1>43, <1>44, <1>45
       DEF Next, Body, Call, Store, Watch, Sweep

\* Generations only grow.
LEMMA GenStep ==
    ASSUME TypeOK, GenInv, [Next]_vars PROVE GenInv'
  <1>0. watch \in [Watcher -> Watching] /\ gen \in Nat
    BY DEF TypeOK
  <1> USE DEF GenInv
  <1>1. CASE UNCHANGED vars
    BY <1>0, <1>1 DEF vars, rowVars, nodeVars, Watching, Off, Polling
  <1>2. ASSUME NEW k \in Kinds, k # "create", Begin(k) PROVE GenInv'
    BY <1>2, <1>0 DEF Begin, rowVars, nodeVars
  <1>3. CASE Create
    BY <1>3, <1>0 DEF Create, nodeVars
  <1>4. CASE CreateCalls
    BY <1>4, <1>0 DEF CreateCalls, Sends, At, rowVars, nodeVars
  <1>5. CASE PowerCalls
    BY <1>5, <1>0 DEF PowerCalls, Sends, At, rowVars, nodeVars
  <1>6. CASE StatusCalls
    BY <1>6, <1>0 DEF StatusCalls, Sends, At, rowVars, nodeVars
  <1>7. CASE NetworkCalls
    BY <1>7, <1>0 DEF NetworkCalls, Sends, At, rowVars, nodeVars
  <1>8. CASE NetworkStatusCalls
    BY <1>8, <1>0 DEF NetworkStatusCalls, Sends, At, rowVars, nodeVars
  <1>9. CASE SnapshotRestoreCalls
    BY <1>9, <1>0 DEF SnapshotRestoreCalls, Sends, At, rowVars, nodeVars
  <1>10. CASE BackupRestoreCalls
    BY <1>10, <1>0 DEF BackupRestoreCalls, Sends, At, rowVars, nodeVars
  <1>11. CASE ResizeCalls
    BY <1>11, <1>0 DEF ResizeCalls, Sends, At, rowVars, nodeVars
  <1>12. CASE RecycleCalls
    BY <1>12, <1>0 DEF RecycleCalls, At, rowVars, nodeVars
  <1>13. CASE TrashRestoreCalls
    BY <1>13, <1>0 DEF TrashRestoreCalls, Sends, At, rowVars, nodeVars
  <1>14. CASE PurgeCalls
    BY <1>14, <1>0 DEF PurgeCalls, Sends, At, rowVars, nodeVars
  <1>15. CASE Reject
    BY <1>15, <1>0 DEF Reject, At, rowVars, nodeVars
  <1>16. CASE Apply
    BY <1>16, <1>0 DEF Apply, At, rowVars
  <1>17. CASE Reply
    BY <1>17, <1>0 DEF Reply, At, rowVars, nodeVars
  <1>18. CASE CallFails
    BY <1>18, <1>0 DEF CallFails, At, Abandoned, Retains, nodeVars
  <1>19. CASE CreateStores
    BY <1>19, <1>0 DEF CreateStores, Stores, At, nodeVars, rowVars
  <1>20. CASE PowerStores
    BY <1>20, <1>0 DEF PowerStores, Stores, At, nodeVars, rowVars
  <1>21. CASE ResizeStores
    BY <1>21, <1>0 DEF ResizeStores, Stores, At, nodeVars, rowVars
  <1>22. CASE ReinstallStores
    BY <1>22, <1>0 DEF ReinstallStores, Stores, At, nodeVars, StartsWatcher, Watching, Polling
  <1>23. CASE SnapshotRestoreStores
    BY <1>23, <1>0 DEF SnapshotRestoreStores, Stores, At, nodeVars, Watching
  <1>24. CASE BackupRestoreStores
    BY <1>24, <1>0 DEF BackupRestoreStores, Stores, At, nodeVars
  <1>25. CASE StatusStores
    BY <1>25, <1>0 DEF StatusStores, Stores, At, nodeVars
  <1>26. CASE NetworkStores
    BY <1>26, <1>0 DEF NetworkStores, Stores, At, nodeVars
  <1>27. CASE NetworkStatusStores
    BY <1>27, <1>0 DEF NetworkStatusStores, Stores, At, nodeVars, rowVars
  <1>28. CASE RecycleStores
    BY <1>28, <1>0 DEF RecycleStores, Stores, At, nodeVars
  <1>29. CASE TrashRestoreStores
    BY <1>29, <1>0 DEF TrashRestoreStores, Stores, At, nodeVars
  <1>30. CASE PurgeStores
    BY <1>30, <1>0 DEF PurgeStores, Stores, At, nodeVars
  <1>31. CASE StoreFails
    BY <1>31, <1>0 DEF StoreFails, At, rowVars, nodeVars
  <1>32. CASE Finish
    BY <1>32, <1>0 DEF Finish, At, rowVars, nodeVars
  <1>33. ASSUME NEW k \in Kind, LateEffect(k) PROVE GenInv'
    BY <1>33, <1>0 DEF LateEffect, rowVars
  <1>34. CASE Inject
    BY <1>34, <1>0 DEF Inject, rowVars
  <1>35. CASE Crash
    BY <1>35, <1>0 DEF Crash, At, Abandoned, Retains, rowVars, nodeVars, Off
  <1>36. CASE Recover
    BY <1>36, <1>0 DEF Recover, rowVars, nodeVars, Off
  <1>37. ASSUME NEW w \in Watcher, Poll(w) PROVE GenInv'
    BY <1>37, <1>0 DEF Poll, Quit, rowVars, nodeVars, Off
  <1>38. ASSUME NEW w \in Watcher, Ask(w) PROVE GenInv'
    BY <1>38, <1>0 DEF Ask, rowVars, nodeVars, Watching
  <1>39. ASSUME NEW w \in Watcher, Mark(w) PROVE GenInv'
    BY <1>39, <1>0 DEF Mark, Quit, nodeVars, Off
  <1>40. CASE SaveRetention
    BY <1>40, <1>0 DEF SaveRetention, rowVars, nodeVars
  <1>41. CASE DeadlinePasses
    BY <1>41, <1>0 DEF DeadlinePasses, nodeVars
  <1>42. CASE SweepStarts
    BY <1>42, <1>0 DEF SweepStarts, rowVars, nodeVars
  <1>43. CASE SweepQuery
    BY <1>43, <1>0 DEF SweepQuery, rowVars, nodeVars
  <1>44. CASE SweepPurge
    BY <1>44, <1>0 DEF SweepPurge, rowVars, nodeVars
  <1>45. CASE SweepCrowded
    BY <1>45, <1>0 DEF SweepCrowded, rowVars, nodeVars
  <1> QED
    BY <1>1, <1>2, <1>3, <1>4, <1>5, <1>6, <1>7, <1>8, <1>9, <1>10, <1>11, <1>12, <1>13, <1>14,
       <1>15, <1>16, <1>17, <1>18, <1>19, <1>20, <1>21, <1>22, <1>23, <1>24, <1>25, <1>26, <1>27,
       <1>28, <1>29, <1>30, <1>31, <1>32, <1>33, <1>34, <1>35, <1>36, <1>37, <1>38, <1>39, <1>40,
       <1>41, <1>42, <1>43, <1>44, <1>45
       DEF Next, Body, Call, Store, Watch, Sweep

\* What a watcher was told stays true until the guest is replaced, which gives a new generation.
LEMMA MarkStep ==
    ASSUME TypeOK, LateInv, StageInv, WatchInv, GenInv, MarkInv, [Next]_vars
    PROVE  MarkInv'
  <1>0. watch \in [Watcher -> Watching] /\ gen \in Nat
    BY DEF TypeOK
  <1> USE FenceFacts, OpFacts DEF LateInv, StageInv, WatchInv, GenInv, MarkInv, BetweenGuests, Ready,
          Replacing, history, Mislead
  <1>1. CASE UNCHANGED vars
    BY <1>0, <1>1 DEF vars, rowVars, nodeVars, Owned, Retains, Watching, Off, Polling
  <1>2. ASSUME NEW k \in Kinds, k # "create", Begin(k) PROVE MarkInv'
    BY <1>2, <1>0, OpFacts, BeginFacts DEF Begin, rowVars, nodeVars, Owned
  <1>3. CASE Create
    BY <1>3, <1>0, OpFacts, CreateFacts DEF Create, nodeVars, Owned
  <1>4. CASE CreateCalls
    BY <1>4, <1>0, OpFacts, GoToFacts DEF CreateCalls, Sends, At, rowVars, nodeVars, Owned
  <1>5. CASE PowerCalls
    BY <1>5, <1>0, OpFacts, GoToFacts DEF PowerCalls, Sends, At, rowVars, nodeVars, Owned
  <1>6. CASE StatusCalls
    BY <1>6, <1>0, OpFacts, GoToFacts DEF StatusCalls, Sends, At, rowVars, nodeVars, Owned
  <1>7. CASE NetworkCalls
    BY <1>7, <1>0, OpFacts, GoToFacts DEF NetworkCalls, Sends, At, rowVars, nodeVars, Owned
  <1>8. CASE NetworkStatusCalls
    BY <1>8, <1>0, OpFacts, GoToFacts DEF NetworkStatusCalls, Sends, At, rowVars, nodeVars, Owned
  <1>9. CASE SnapshotRestoreCalls
    BY <1>9, <1>0, OpFacts, GoToFacts DEF SnapshotRestoreCalls, Sends, At, rowVars, nodeVars, Owned
  <1>10. CASE BackupRestoreCalls
    BY <1>10, <1>0, OpFacts, GoToFacts DEF BackupRestoreCalls, Sends, At, rowVars, nodeVars, Owned
  <1>11. CASE ResizeCalls
    BY <1>11, <1>0, OpFacts, GoToFacts DEF ResizeCalls, Sends, At, rowVars, nodeVars, Owned
  <1>12. CASE RecycleCalls
    BY <1>12, <1>0, OpFacts, RecycleFacts DEF RecycleCalls, At, rowVars, nodeVars, Owned
  <1>13. CASE TrashRestoreCalls
    BY <1>13, <1>0, OpFacts, GoToFacts DEF TrashRestoreCalls, Sends, At, rowVars, nodeVars, Owned
  <1>14. CASE PurgeCalls
    BY <1>14, <1>0, OpFacts, GoToFacts DEF PurgeCalls, Sends, At, rowVars, nodeVars, Owned
  <1>15. CASE Reject
    BY <1>15, <1>0, OpFacts DEF Reject, At, rowVars, nodeVars, Owned
  <1>16. CASE Apply
    <2>1. Effect(op.kind) /\ op.kind \in Kind /\ (op.kind \in Replacing => guest < MaxGuest)
      BY <1>16 DEF Apply, At, Owned, LateInv
    <2>2. ~op.applied /\ op.stage = "wait" /\ UNCHANGED <<rowVars, late, watch, history>>
      BY <1>16 DEF Apply, At
    <2> QED
      BY <1>16, <1>0, <2>1, <2>2, ApplyFacts, EffectReady DEF rowVars, Owned, Replacing, MarkInv
  <1>17. CASE Reply
    BY <1>17, <1>0, OpFacts, GoToFacts DEF Reply, At, rowVars, nodeVars, Owned
  <1>18. CASE CallFails
    BY <1>18, <1>0, OpFacts DEF CallFails, At, Abandoned, Retains, nodeVars, Owned
  <1>19. CASE CreateStores
    BY <1>19, <1>0, OpFacts, GoToFacts DEF CreateStores, Stores, At, nodeVars, rowVars, Owned
  <1>20. CASE PowerStores
    BY <1>20, <1>0, OpFacts, GoToFacts DEF PowerStores, Stores, At, nodeVars, rowVars, Owned
  <1>21. CASE ResizeStores
    BY <1>21, <1>0, OpFacts, GoToFacts DEF ResizeStores, Stores, At, nodeVars, rowVars, Owned
  <1>22. CASE ReinstallStores
    BY <1>22, <1>0, OpFacts, GoToFacts
       DEF ReinstallStores, Stores, At, nodeVars, StartsWatcher, Owned, Polling
  <1>23. CASE SnapshotRestoreStores
    BY <1>23, <1>0, OpFacts, GoToFacts DEF SnapshotRestoreStores, Stores, At, nodeVars, Owned
  <1>24. CASE BackupRestoreStores
    BY <1>24, <1>0, OpFacts, GoToFacts DEF BackupRestoreStores, Stores, At, nodeVars, Owned
  <1>25. CASE StatusStores
    BY <1>25, <1>0, OpFacts, GoToFacts DEF StatusStores, Stores, At, nodeVars, Owned
  <1>26. CASE NetworkStores
    BY <1>26, <1>0, OpFacts, GoToFacts DEF NetworkStores, Stores, At, nodeVars, Owned
  <1>27. CASE NetworkStatusStores
    BY <1>27, <1>0, OpFacts, GoToFacts DEF NetworkStatusStores, Stores, At, nodeVars, rowVars, Owned
  <1>28. CASE RecycleStores
    BY <1>28, <1>0, OpFacts, GoToFacts DEF RecycleStores, Stores, At, nodeVars, Owned
  <1>29. CASE TrashRestoreStores
    BY <1>29, <1>0, OpFacts, GoToFacts DEF TrashRestoreStores, Stores, At, nodeVars, Owned
  <1>30. CASE PurgeStores
    BY <1>30, <1>0, OpFacts, GoToFacts DEF PurgeStores, Stores, At, nodeVars, Owned
  <1>31. CASE StoreFails
    BY <1>31, <1>0, OpFacts DEF StoreFails, At, rowVars, nodeVars, Owned
  <1>32. CASE Finish
    BY <1>32, <1>0, OpFacts DEF Finish, At, rowVars, nodeVars, Owned
  <1>33. ASSUME NEW k \in Kind, LateEffect(k) PROVE MarkInv'
    <2>1. Effect(k) /\ k \in late /\ (k \in Replacing => guest < MaxGuest)
      BY <1>33 DEF LateEffect
    <2>2. UNCHANGED <<rowVars, op, watch>>
      BY <1>33 DEF LateEffect
    <2>3. CASE k = "create"
      BY <1>33, <1>0, <2>2, <2>3 DEF LateEffect, rowVars
    <2>4. CASE k \in Replacing
      <3>1. op = Stranded
        BY <2>1, <2>4 DEF Retains
      <3> QED
        BY <1>33, <1>0, <2>2, <2>4, <3>1 DEF LateEffect, rowVars
    <2>5. CASE k \notin {"create"} \cup Replacing
      <3>1. Ready => Ready'
        BY <2>1, <2>5, EffectReady
      <3>2. UNCHANGED history
        BY <1>33, <2>5 DEF LateEffect
      <3> QED
        BY <1>0, <2>2, <3>1, <3>2 DEF rowVars
    <2> QED
      BY <2>3, <2>4, <2>5
  <1>34. CASE Inject
    BY <1>34, <1>0, OpFacts DEF Inject, rowVars, Owned
  <1>35. CASE Crash
    BY <1>35, <1>0, OpFacts DEF Crash, At, Abandoned, Retains, rowVars, nodeVars, Owned, Off
  <1>36. CASE Recover
    BY <1>36, <1>0, OpFacts DEF Recover, rowVars, nodeVars, Owned, Off
  <1>37. ASSUME NEW w \in Watcher, Poll(w) PROVE MarkInv'
    BY <1>37, <1>0, OpFacts DEF Poll, Quit, rowVars, nodeVars, Owned, Off
  <1>38. ASSUME NEW w \in Watcher, Ask(w) PROVE MarkInv'
    BY <1>38, <1>0, OpFacts DEF Ask, rowVars, nodeVars, Owned, Watching
  <1>39. ASSUME NEW w \in Watcher, Mark(w) PROVE MarkInv'
    <2>1. /\ UNCHANGED <<gen, op, guest, guestReady>> /\ misled' = misled \ {w}
          /\ watch' = [watch EXCEPT ![w] = Off]
      BY <1>39 DEF Mark, Believed, Quit, nodeVars
    <2>2. ASSUME NEW v \in Watcher, watch'[v].pc = "mark" PROVE v # w /\ watch'[v] = watch[v]
      BY <1>0, <2>1, <2>2 DEF Off
    <2> QED
      BY <2>1, <2>2
  <1>40. CASE SaveRetention
    BY <1>40, <1>0, OpFacts DEF SaveRetention, rowVars, nodeVars, Owned
  <1>41. CASE DeadlinePasses
    BY <1>41, <1>0, OpFacts DEF DeadlinePasses, nodeVars, Owned
  <1>42. CASE SweepStarts
    BY <1>42, <1>0, OpFacts DEF SweepStarts, rowVars, nodeVars, Owned
  <1>43. CASE SweepQuery
    BY <1>43, <1>0, OpFacts DEF SweepQuery, rowVars, nodeVars, Owned
  <1>44. CASE SweepPurge
    BY <1>44, <1>0, OpFacts, SweepFacts DEF SweepPurge, rowVars, nodeVars, Owned
  <1>45. CASE SweepCrowded
    BY <1>45, <1>0, OpFacts DEF SweepCrowded, rowVars, nodeVars, Owned
  <1> QED
    BY <1>1, <1>2, <1>3, <1>4, <1>5, <1>6, <1>7, <1>8, <1>9, <1>10, <1>11, <1>12, <1>13, <1>14,
       <1>15, <1>16, <1>17, <1>18, <1>19, <1>20, <1>21, <1>22, <1>23, <1>24, <1>25, <1>26, <1>27,
       <1>28, <1>29, <1>30, <1>31, <1>32, <1>33, <1>34, <1>35, <1>36, <1>37, <1>38, <1>39, <1>40,
       <1>41, <1>42, <1>43, <1>44, <1>45
       DEF Next, Body, Call, Store, Watch, Sweep

\* Readiness is stored and taken back with the guest it speaks of.
LEMMA ReadyStep ==
    ASSUME TypeOK, LateInv, StageInv, WatchInv, MarkInv, ReadyInv, [Next]_vars
    PROVE  ReadyInv'
  <1>0. watch \in [Watcher -> Watching] /\ gen \in Nat
    BY DEF TypeOK
  <1> USE FenceFacts, OpFacts DEF LateInv, StageInv, WatchInv, MarkInv, ReadyInv, BetweenGuests, Ready,
          Replacing, history, Forgets, Believed
  <1>1. CASE UNCHANGED vars
    BY <1>0, <1>1 DEF vars, rowVars, nodeVars, Owned, Retains, Watching, Off, Polling
  <1>2. ASSUME NEW k \in Kinds, k # "create", Begin(k) PROVE ReadyInv'
    BY <1>2, <1>0, OpFacts, BeginFacts DEF Begin, rowVars, nodeVars, Owned
  <1>3. CASE Create
    BY <1>3, <1>0, OpFacts, CreateFacts DEF Create, nodeVars, Owned
  <1>4. CASE CreateCalls
    BY <1>4, <1>0, OpFacts, GoToFacts DEF CreateCalls, Sends, At, rowVars, nodeVars, Owned
  <1>5. CASE PowerCalls
    BY <1>5, <1>0, OpFacts, GoToFacts DEF PowerCalls, Sends, At, rowVars, nodeVars, Owned
  <1>6. CASE StatusCalls
    BY <1>6, <1>0, OpFacts, GoToFacts DEF StatusCalls, Sends, At, rowVars, nodeVars, Owned
  <1>7. CASE NetworkCalls
    BY <1>7, <1>0, OpFacts, GoToFacts DEF NetworkCalls, Sends, At, rowVars, nodeVars, Owned
  <1>8. CASE NetworkStatusCalls
    BY <1>8, <1>0, OpFacts, GoToFacts DEF NetworkStatusCalls, Sends, At, rowVars, nodeVars, Owned
  <1>9. CASE SnapshotRestoreCalls
    BY <1>9, <1>0, OpFacts, GoToFacts DEF SnapshotRestoreCalls, Sends, At, rowVars, nodeVars, Owned
  <1>10. CASE BackupRestoreCalls
    BY <1>10, <1>0, OpFacts, GoToFacts DEF BackupRestoreCalls, Sends, At, rowVars, nodeVars, Owned
  <1>11. CASE ResizeCalls
    BY <1>11, <1>0, OpFacts, GoToFacts DEF ResizeCalls, Sends, At, rowVars, nodeVars, Owned
  <1>12. CASE RecycleCalls
    BY <1>12, <1>0, OpFacts, RecycleFacts DEF RecycleCalls, At, rowVars, nodeVars, Owned
  <1>13. CASE TrashRestoreCalls
    BY <1>13, <1>0, OpFacts, GoToFacts DEF TrashRestoreCalls, Sends, At, rowVars, nodeVars, Owned
  <1>14. CASE PurgeCalls
    BY <1>14, <1>0, OpFacts, GoToFacts DEF PurgeCalls, Sends, At, rowVars, nodeVars, Owned
  <1>15. CASE Reject
    BY <1>15, <1>0, OpFacts DEF Reject, At, rowVars, nodeVars, Owned
  <1>16. CASE Apply
    <2>1. Effect(op.kind) /\ op.kind \in Kind /\ (op.kind \in Replacing => guest < MaxGuest)
      BY <1>16 DEF Apply, At, Owned, LateInv
    <2>2. ~op.applied /\ op.stage = "wait" /\ UNCHANGED <<rowVars, late, watch, history>>
      BY <1>16 DEF Apply, At
    <2> QED
      BY <1>16, <1>0, <2>1, <2>2, ApplyFacts, EffectReady DEF rowVars, Owned, Replacing, ReadyInv
  <1>17. CASE Reply
    BY <1>17, <1>0, OpFacts, GoToFacts DEF Reply, At, rowVars, nodeVars, Owned
  <1>18. CASE CallFails
    BY <1>18, <1>0, OpFacts DEF CallFails, At, Abandoned, Retains, nodeVars, Owned
  <1>19. CASE CreateStores
    BY <1>19, <1>0, OpFacts, GoToFacts DEF CreateStores, Stores, At, nodeVars, rowVars, Owned
  <1>20. CASE PowerStores
    BY <1>20, <1>0, OpFacts, GoToFacts DEF PowerStores, Stores, At, nodeVars, rowVars, Owned
  <1>21. CASE ResizeStores
    BY <1>21, <1>0, OpFacts, GoToFacts DEF ResizeStores, Stores, At, nodeVars, rowVars, Owned
  <1>22. CASE ReinstallStores
    BY <1>22, <1>0, OpFacts, GoToFacts
       DEF ReinstallStores, Stores, At, nodeVars, StartsWatcher, Owned, Polling
  <1>23. CASE SnapshotRestoreStores
    BY <1>23, <1>0, OpFacts, GoToFacts DEF SnapshotRestoreStores, Stores, At, nodeVars, Owned
  <1>24. CASE BackupRestoreStores
    BY <1>24, <1>0, OpFacts, GoToFacts DEF BackupRestoreStores, Stores, At, nodeVars, Owned
  <1>25. CASE StatusStores
    BY <1>25, <1>0, OpFacts, GoToFacts DEF StatusStores, Stores, At, nodeVars, Owned
  <1>26. CASE NetworkStores
    BY <1>26, <1>0, OpFacts, GoToFacts DEF NetworkStores, Stores, At, nodeVars, Owned
  <1>27. CASE NetworkStatusStores
    BY <1>27, <1>0, OpFacts, GoToFacts DEF NetworkStatusStores, Stores, At, nodeVars, rowVars, Owned
  <1>28. CASE RecycleStores
    BY <1>28, <1>0, OpFacts, GoToFacts DEF RecycleStores, Stores, At, nodeVars, Owned
  <1>29. CASE TrashRestoreStores
    BY <1>29, <1>0, OpFacts, GoToFacts DEF TrashRestoreStores, Stores, At, nodeVars, Owned
  <1>30. CASE PurgeStores
    BY <1>30, <1>0, OpFacts, GoToFacts DEF PurgeStores, Stores, At, nodeVars, Owned
  <1>31. CASE StoreFails
    BY <1>31, <1>0, OpFacts DEF StoreFails, At, rowVars, nodeVars, Owned
  <1>32. CASE Finish
    BY <1>32, <1>0, OpFacts DEF Finish, At, rowVars, nodeVars, Owned
  <1>33. ASSUME NEW k \in Kind, LateEffect(k) PROVE ReadyInv'
    <2>1. Effect(k) /\ k \in late /\ (k \in Replacing => guest < MaxGuest)
      BY <1>33 DEF LateEffect
    <2>2. UNCHANGED <<rowVars, op, watch>>
      BY <1>33 DEF LateEffect
    <2>3. CASE k = "create"
      BY <1>33, <1>0, <2>2, <2>3 DEF LateEffect, rowVars
    <2>4. CASE k \in Replacing
      <3>1. op = Stranded
        BY <2>1, <2>4 DEF Retains
      <3> QED
        BY <1>33, <1>0, <2>2, <2>4, <3>1 DEF LateEffect, rowVars
    <2>5. CASE k \notin {"create"} \cup Replacing
      <3>1. Ready => Ready'
        BY <2>1, <2>5, EffectReady
      <3>2. UNCHANGED history
        BY <1>33, <2>5 DEF LateEffect
      <3> QED
        BY <1>0, <2>2, <3>1, <3>2 DEF rowVars
    <2> QED
      BY <2>3, <2>4, <2>5
  <1>34. CASE Inject
    BY <1>34, <1>0, OpFacts DEF Inject, rowVars, Owned
  <1>35. CASE Crash
    BY <1>35, <1>0, OpFacts DEF Crash, At, Abandoned, Retains, rowVars, nodeVars, Owned, Off
  <1>36. CASE Recover
    BY <1>36, <1>0, OpFacts DEF Recover, rowVars, nodeVars, Owned, Off
  <1>37. ASSUME NEW w \in Watcher, Poll(w) PROVE ReadyInv'
    BY <1>37, <1>0, OpFacts DEF Poll, Quit, rowVars, nodeVars, Owned, Off
  <1>38. ASSUME NEW w \in Watcher, Ask(w) PROVE ReadyInv'
    BY <1>38, <1>0, OpFacts DEF Ask, rowVars, nodeVars, Owned
  <1>39. ASSUME NEW w \in Watcher, Mark(w) PROVE ReadyInv'
    BY <1>39, <1>0, OpFacts DEF Mark, Quit, nodeVars, Owned, Off
  <1>40. CASE SaveRetention
    BY <1>40, <1>0, OpFacts DEF SaveRetention, rowVars, nodeVars, Owned
  <1>41. CASE DeadlinePasses
    BY <1>41, <1>0, OpFacts DEF DeadlinePasses, nodeVars, Owned
  <1>42. CASE SweepStarts
    BY <1>42, <1>0, OpFacts DEF SweepStarts, rowVars, nodeVars, Owned
  <1>43. CASE SweepQuery
    BY <1>43, <1>0, OpFacts DEF SweepQuery, rowVars, nodeVars, Owned
  <1>44. CASE SweepPurge
    BY <1>44, <1>0, OpFacts, SweepFacts DEF SweepPurge, rowVars, nodeVars, Owned
  <1>45. CASE SweepCrowded
    BY <1>45, <1>0, OpFacts DEF SweepCrowded, rowVars, nodeVars, Owned
  <1> QED
    BY <1>1, <1>2, <1>3, <1>4, <1>5, <1>6, <1>7, <1>8, <1>9, <1>10, <1>11, <1>12, <1>13, <1>14,
       <1>15, <1>16, <1>17, <1>18, <1>19, <1>20, <1>21, <1>22, <1>23, <1>24, <1>25, <1>26, <1>27,
       <1>28, <1>29, <1>30, <1>31, <1>32, <1>33, <1>34, <1>35, <1>36, <1>37, <1>38, <1>39, <1>40,
       <1>41, <1>42, <1>43, <1>44, <1>45
       DEF Next, Body, Call, Store, Watch, Sweep

\* A watcher whose generation is the row's was told of the present guest, unless misled.
LEMMA MarkedStep ==
    ASSUME TypeOK, MarkInv, [Next]_vars PROVE MarksReady
  <1> USE FenceFacts, OpFacts DEF MarkInv, BetweenGuests, Replacing, MarksReady, Ready, Forgets
  <1>1. CASE UNCHANGED vars
    BY <1>1 DEF vars, rowVars, nodeVars, Owned
  <1>2. ASSUME NEW k \in Kinds, k # "create", Begin(k) PROVE MarksReady
    BY <1>2 DEF Begin, rowVars, nodeVars, Owned
  <1>3. CASE Create
    BY <1>3 DEF Create, nodeVars, Owned
  <1>4. CASE CreateCalls
    BY <1>4 DEF CreateCalls, Sends, At, rowVars, nodeVars, Owned
  <1>5. CASE PowerCalls
    BY <1>5 DEF PowerCalls, Sends, At, rowVars, nodeVars, Owned
  <1>6. CASE StatusCalls
    BY <1>6 DEF StatusCalls, Sends, At, rowVars, nodeVars, Owned
  <1>7. CASE NetworkCalls
    BY <1>7 DEF NetworkCalls, Sends, At, rowVars, nodeVars, Owned
  <1>8. CASE NetworkStatusCalls
    BY <1>8 DEF NetworkStatusCalls, Sends, At, rowVars, nodeVars, Owned
  <1>9. CASE SnapshotRestoreCalls
    BY <1>9 DEF SnapshotRestoreCalls, Sends, At, rowVars, nodeVars, Owned
  <1>10. CASE BackupRestoreCalls
    BY <1>10 DEF BackupRestoreCalls, Sends, At, rowVars, nodeVars, Owned
  <1>11. CASE ResizeCalls
    BY <1>11 DEF ResizeCalls, Sends, At, rowVars, nodeVars, Owned
  <1>12. CASE RecycleCalls
    BY <1>12 DEF RecycleCalls, At, rowVars, nodeVars, Owned
  <1>13. CASE TrashRestoreCalls
    BY <1>13 DEF TrashRestoreCalls, Sends, At, rowVars, nodeVars, Owned
  <1>14. CASE PurgeCalls
    BY <1>14 DEF PurgeCalls, Sends, At, rowVars, nodeVars, Owned
  <1>15. CASE Reject
    BY <1>15 DEF Reject, At, rowVars, nodeVars, Owned
  <1>16. CASE Apply
    BY <1>16 DEF Apply, At, rowVars, Owned
  <1>17. CASE Reply
    BY <1>17 DEF Reply, At, rowVars, nodeVars, Owned
  <1>18. CASE CallFails
    BY <1>18 DEF CallFails, At, Abandoned, Retains, nodeVars, Owned
  <1>19. CASE CreateStores
    BY <1>19 DEF CreateStores, Stores, At, nodeVars, rowVars, Owned
  <1>20. CASE PowerStores
    BY <1>20 DEF PowerStores, Stores, At, nodeVars, rowVars, Owned
  <1>21. CASE ResizeStores
    BY <1>21 DEF ResizeStores, Stores, At, nodeVars, rowVars, Owned
  <1>22. CASE ReinstallStores
    BY <1>22 DEF ReinstallStores, Stores, At, nodeVars, StartsWatcher, Owned
  <1>23. CASE SnapshotRestoreStores
    BY <1>23 DEF SnapshotRestoreStores, Stores, At, nodeVars, Owned
  <1>24. CASE BackupRestoreStores
    BY <1>24 DEF BackupRestoreStores, Stores, At, nodeVars, Owned
  <1>25. CASE StatusStores
    BY <1>25 DEF StatusStores, Stores, At, nodeVars, Owned
  <1>26. CASE NetworkStores
    BY <1>26 DEF NetworkStores, Stores, At, nodeVars, Owned
  <1>27. CASE NetworkStatusStores
    BY <1>27 DEF NetworkStatusStores, Stores, At, nodeVars, rowVars, Owned
  <1>28. CASE RecycleStores
    BY <1>28 DEF RecycleStores, Stores, At, nodeVars, Owned
  <1>29. CASE TrashRestoreStores
    BY <1>29 DEF TrashRestoreStores, Stores, At, nodeVars, Owned
  <1>30. CASE PurgeStores
    BY <1>30 DEF PurgeStores, Stores, At, nodeVars, Owned
  <1>31. CASE StoreFails
    BY <1>31 DEF StoreFails, At, rowVars, nodeVars, Owned
  <1>32. CASE Finish
    BY <1>32 DEF Finish, At, rowVars, nodeVars, Owned
  <1>33. ASSUME NEW k \in Kind, LateEffect(k) PROVE MarksReady
    BY <1>33 DEF LateEffect, rowVars, Owned
  <1>34. CASE Inject
    BY <1>34 DEF Inject, rowVars, Owned
  <1>35. CASE Crash
    BY <1>35 DEF Crash, At, Abandoned, Retains, rowVars, nodeVars, Owned
  <1>36. CASE Recover
    BY <1>36 DEF Recover, rowVars, nodeVars, Owned
  <1>37. ASSUME NEW w \in Watcher, Poll(w) PROVE MarksReady
    BY <1>37 DEF Poll, Quit, rowVars, nodeVars, Owned
  <1>38. ASSUME NEW w \in Watcher, Ask(w) PROVE MarksReady
    BY <1>38 DEF Ask, rowVars, nodeVars, Owned
  <1>39. ASSUME NEW w \in Watcher, Mark(w) PROVE MarksReady
    <2>1. watch \in [Watcher -> Watching]
      BY DEF TypeOK
    <2>2. ASSUME NEW v \in Watcher, watch[v].pc = "mark", watch'[v].pc = "off" PROVE v = w
      BY <1>39, <2>1, <2>2 DEF Mark, Quit
    <2>3. ASSUME ~sshReady, sshReady' PROVE watch[w].gen = gen /\ op = Idle
      BY <1>39, <2>3, Zenon DEF Mark
    <2>4. ASSUME ~sshReady, sshReady', w \notin misled PROVE Ready
      <3>1. watch[w].pc = "mark" /\ watch[w].gen = gen /\ op = Idle
        BY <1>39, <2>3, <2>4 DEF Mark
      <3> QED
        BY <2>4, <3>1
    <2> QED
      BY <2>2, <2>4 DEF Ready
  <1>40. CASE SaveRetention
    BY <1>40 DEF SaveRetention, rowVars, nodeVars, Owned
  <1>41. CASE DeadlinePasses
    BY <1>41 DEF DeadlinePasses, nodeVars, Owned
  <1>42. CASE SweepStarts
    BY <1>42 DEF SweepStarts, rowVars, nodeVars, Owned
  <1>43. CASE SweepQuery
    BY <1>43 DEF SweepQuery, rowVars, nodeVars, Owned
  <1>44. CASE SweepPurge
    BY <1>44 DEF SweepPurge, rowVars, nodeVars, Owned
  <1>45. CASE SweepCrowded
    BY <1>45 DEF SweepCrowded, rowVars, nodeVars, Owned
  <1> QED
    BY <1>1, <1>2, <1>3, <1>4, <1>5, <1>6, <1>7, <1>8, <1>9, <1>10, <1>11, <1>12, <1>13, <1>14,
       <1>15, <1>16, <1>17, <1>18, <1>19, <1>20, <1>21, <1>22, <1>23, <1>24, <1>25, <1>26, <1>27,
       <1>28, <1>29, <1>30, <1>31, <1>32, <1>33, <1>34, <1>35, <1>36, <1>37, <1>38, <1>39, <1>40,
       <1>41, <1>42, <1>43, <1>44, <1>45
       DEF Next, Body, Call, Store, Watch, Sweep

-----------------------------------------------------------------------------
(* The theorems *)

\* Nothing has begun, or an instance is there, idle, and possibly watched.
LEMMA InitInv == Init => TypeInv /\ QuietInv /\ ReadinessInv
  <1> SUFFICES ASSUME Init PROVE TypeInv /\ QuietInv /\ ReadinessInv
    OBVIOUS
  <1> USE LifecycleAssumption, FenceFacts
  <1>1. /\ op = Idle /\ late = {} /\ ~trashed /\ gen = 0 /\ row \in {"absent", "present"}
        /\ sshReady = guestReady /\ guest \in {0, 1} /\ ~Owned
    BY DEF Init, Owned
  <1>2. /\ watch \in [Watcher -> {Off, Polling}]
        /\ row = "absent" => watch = [w \in Watcher |-> Off]
    BY DEF Init
  <1>3. /\ row = "absent" => guest = 0 /\ guestReady = FALSE /\ running = FALSE
        /\ guestReady \in BOOLEAN /\ running \in BOOLEAN
    BY DEF Init
  <1>4. /\ watch \in [Watcher -> Watching]
        /\ \A w \in Watcher : watch[w].gen = 0 /\ watch[w].pc \in {"off", "poll"}
    BY <1>2 DEF Off, Polling, Watching
  <1>5. TypeOK
    <2>1. guest \in 0..MaxGuest /\ gen \in Nat
      BY <1>1
    <2>2. sshReady \in BOOLEAN /\ trashed \in BOOLEAN
      BY <1>1, <1>3 DEF Init
    <2> QED
      BY <1>1, <1>3, <1>4, <2>1, <2>2 DEF Init, TypeOK
  <1>6. TypeInv
    BY <1>1, <1>5 DEF TypeInv, LateInv, StageInv
  <1>7. QuietInv
    BY <1>1 DEF QuietInv, OnlyRetained, PurgeInv, TrashInv
  <1>8. ReadinessInv
    <2>1. WatchInv
      <3>1. op.kind = "idle"
        BY <1>1
      <3>2. row = "absent" => \A w \in Watcher : watch[w].pc = "off"
        <4>1. Off.pc = "off"
          BY DEF Off
        <4> QED
          BY <1>2, <4>1
      <3> QED
        BY <3>1, <3>2 DEF WatchInv
    <2>2. GenInv
      <3>1. gen = 0 /\ \A w \in Watcher : watch[w].gen = 0
        BY <1>1, <1>4
      <3>2. ASSUME NEW w \in Watcher PROVE watch[w].gen <= gen
        <4>1. watch[w].gen = 0 /\ gen = 0
          BY <3>1
        <4>2. 0 <= 0
          OBVIOUS
        <4> QED
          BY <4>1, <4>2
      <3> QED
        BY <3>2 DEF GenInv
    <2>3. MarkInv
      BY <1>4 DEF MarkInv
    <2>4. ReadyInv
      BY <1>1, <1>3 DEF ReadyInv, Ready
    <2> QED
      BY <2>1, <2>2, <2>3, <2>4 DEF ReadinessInv
  <1> QED
    BY <1>6, <1>7, <1>8

\* The parts together: every step keeps the types and the stages,
LEMMA TypeNext == TypeInv /\ [Next]_vars => TypeInv'
  <1> SUFFICES ASSUME TypeInv, [Next]_vars PROVE TypeInv'
    OBVIOUS
  <1>1. TypeOK'
    BY OpStep, RowStep, WatchersStep, GuestStep
       DEF TypeInv, TypeOK, FenceTypeOK, RowTypeOK, WatchTypeOK, GuestTypeOK
  <1> QED
    BY <1>1, StageStep, LateStep DEF TypeInv

\* what the trash needs,
LEMMA QuietNext == ~LateEffects /\ TypeInv /\ QuietInv /\ [Next]_vars => QuietInv'
  BY RetainedStep, PurgeStep, TrashStep DEF TypeInv, QuietInv

\* and what the readiness needs.
LEMMA ReadinessNext == TypeInv /\ ReadinessInv /\ [Next]_vars => ReadinessInv'
  BY WatchStep, GenStep, MarkStep, ReadyStep DEF TypeInv, ReadinessInv

\* Whatever fails or comes late, every variable keeps its type; there is never a
\* guest more than there was room for when a replacement began.
THEOREM TypeCorrect == Spec => []TypeOK
  <1>1. Init => TypeInv
    BY InitInv
  <1>2. TypeInv => TypeOK
    BY DEF TypeInv
  <1> QED
    BY <1>1, <1>2, TypeNext, PTL DEF Spec

\* If calls that do not replace the guest die with their connection, the guests of
\* recycled and purged instances are where they should be, at every step.
THEOREM QuietInvariant == ~LateEffects => (Spec => [](TypeInv /\ QuietInv))
  <1> SUFFICES ASSUME ~LateEffects PROVE Spec => [](TypeInv /\ QuietInv)
    OBVIOUS
  <1>1. Init => TypeInv /\ QuietInv
    BY InitInv
  <1>2. TypeInv /\ QuietInv /\ [Next]_vars => (TypeInv /\ QuietInv)'
    BY TypeNext, QuietNext
  <1> QED
    BY <1>1, <1>2, PTL DEF Spec

\* Then a purged instance leaves no guest behind (PurgeInstance, CleanupTrash).
THEOREM NoOrphans == ~LateEffects => (Spec => []NoOrphanGuest)
  <1>1. TypeInv /\ QuietInv => NoOrphanGuest
    BY DEF QuietInv, PurgeInv, NoOrphanGuest
  <1> QED
    BY <1>1, QuietInvariant, PTL

\* Then a recycled instance does not run, and no operation but a purge touches its
\* guest (RecycleInstance, and GetInstance, which does not find it).
THEOREM Quiet == ~LateEffects => (Spec => []TrashedIsQuiet)
  <1>1. TypeInv /\ QuietInv => TrashedIsQuiet
    BY DEF TypeInv, StageInv, QuietInv, TrashInv, TrashedIsQuiet
  <1> QED
    BY <1>1, QuietInvariant, PTL

\* Whatever fails or comes late, all that is stored of the guest's readiness is
\* about the guest on the node, except where the histories say it is not.
THEOREM ReadinessInvariant == Spec => [](TypeInv /\ ReadinessInv)
  <1>1. Init => TypeInv /\ ReadinessInv
    BY InitInv
  <1>2. TypeInv /\ ReadinessInv /\ [Next]_vars => (TypeInv /\ ReadinessInv)'
    BY TypeNext, ReadinessNext
  <1> QED
    BY <1>1, <1>2, PTL DEF Spec

\* So between operations ssh_ready is only set for a guest whose password has been
\* injected, but for the four ways the row is known to be wrong (PowerInstance,
\* RestoreSnapshot, RestoreBackup, RefreshStatus, watchSSHReady).
THEOREM Readiness == Spec => []ReadinessIsCurrent
  <1>1. TypeInv /\ ReadinessInv => ReadinessIsCurrent
    BY FenceFacts DEF ReadinessInv, ReadyInv, Ready, BetweenGuests, ReadinessIsCurrent
  <1> QED
    BY <1>1, ReadinessInvariant, PTL

\* And a watcher that marks the row ready does so for the guest that is there, unless
\* the guest was replaced without a new generation after the watcher had its answer
\* (the generation clause of watchSSHReady).
THEOREM WatchersMark == Spec => WatcherMarksItsGuest
  <1>1. TypeInv /\ ReadinessInv /\ [Next]_vars => [MarksReady]_vars
    BY MarkedStep DEF TypeInv, ReadinessInv
  <1>2. [][MarksReady]_vars => WatcherMarksItsGuest
    BY PTL DEF WatcherMarksItsGuest, MarksReady
  <1> QED
    BY <1>1, <1>2, ReadinessInvariant, PTL DEF Spec

-----------------------------------------------------------------------------
(* The fence *)

\* Of a deleted row only the end of its purge is left.
GoneInv == row = "deleted" /\ Owned => op.kind = "purge" /\ op.stage = "end"

GuardInv == TypeInv /\ GoneInv

AbsVars == <<Owner, Danger>>
AbsNext == Fence!Next \/ UNCHANGED AbsVars

\* A step under the fence as it is: of the callers, the watchers, the sweeper, the
\* guest and the clock.
Bystanding ==
    \/ UNCHANGED vars
    \/ Inject \/ SaveRetention \/ DeadlinePasses \/ SweepStarts \/ SweepQuery \/ SweepCrowded
    \/ \E w \in Watcher : Watch(w)

\* It leaves the fence, the row and the calls as they are.
LEMMA Bystanders ==
    ASSUME Bystanding PROVE UNCHANGED <<row, op, late>>
  <1>1. CASE \E w \in Watcher : Watch(w)
    BY <1>1 DEF Watch, Poll, Ask, Mark, Quit, rowVars
  <1>2. CASE \/ UNCHANGED vars
             \/ Inject \/ SaveRetention \/ DeadlinePasses \/ SweepStarts \/ SweepQuery \/ SweepCrowded
    BY <1>2 DEF vars, rowVars, Inject, SaveRetention, DeadlinePasses, SweepStarts, SweepQuery,
           SweepCrowded
  <1> QED
    BY <1>1, <1>2 DEF Bystanding

\* The ways into the fence,
Entering == (\E k \in Kinds : IF k = "create" THEN Create ELSE Begin(k)) \/ SweepPurge

\* lead from a free fence to an operation that has not called yet,
LEMMA Enters ==
    ASSUME TypeInv, Entering
    PROVE  \/ UNCHANGED <<row, op, late>>
           \/ /\ op = Idle /\ row # "deleted" /\ row' # "deleted" /\ late' = late
              /\ Owned' /\ op'.kind \in Kind /\ op'.stage = "run" /\ op' # Stranded
  <1>1. CASE Create
    <2>1. op = Idle
      BY <1>1 DEF Create, TypeInv, LateInv
    <2> QED
      BY <1>1, <2>1, CreateFacts DEF Create, Kind
  <1>2. ASSUME NEW k \in Kinds, Begin(k)
        PROVE  /\ op = Idle /\ row # "deleted" /\ row' # "deleted" /\ late' = late
               /\ Owned' /\ op'.kind \in Kind /\ op'.stage = "run" /\ op' # Stranded
    BY <1>2, BeginFacts, LifecycleAssumption DEF Begin, rowVars
  <1>3. CASE SweepPurge
    <2>1. UNCHANGED <<row, late>>
      BY <1>3 DEF SweepPurge, rowVars
    <2> QED
      BY <1>3, <2>1, SweepFacts DEF Kind, Trashing
  <1> QED
    BY <1>1, <1>2, <1>3 DEF Entering

\* which goes on by its call,
LEMMA CallGoes ==
    ASSUME TypeInv, Call
    PROVE  /\ UNCHANGED <<row, late>> /\ Owned /\ Owned' /\ op.stage = "run" /\ op'.stage = "wait"
           /\ op'.kind = op.kind /\ ~op.applied /\ ~op'.applied /\ op # Stranded /\ op' # Stranded
  <1>1. TypeOK /\ StageInv
    BY DEF TypeInv
  <1>2. CASE RecycleCalls
    BY <1>1, <1>2, OpFacts, RecycleFacts DEF RecycleCalls, At, rowVars, StageInv
  <1>3. ASSUME NEW k, NEW admitted, Sends(k, admitted)
        PROVE  /\ UNCHANGED <<row, late>> /\ Owned /\ Owned' /\ op.stage = "run" /\ op'.stage = "wait"
               /\ op'.kind = op.kind /\ ~op.applied /\ ~op'.applied /\ op # Stranded /\ op' # Stranded
    BY <1>1, <1>3, OpFacts, GoToFacts DEF Sends, At, rowVars, StageInv
  <1> QED
    BY <1>2, <1>3 DEF Call, CreateCalls, PowerCalls, StatusCalls, NetworkCalls, NetworkStatusCalls,
       SnapshotRestoreCalls, BackupRestoreCalls, ResizeCalls, TrashRestoreCalls, PurgeCalls

\* by the answer and its update of the row, which a purge deletes,
LEMMA AnswerGoes ==
    ASSUME TypeInv, Reply \/ Store
    PROVE  /\ late' = late /\ Owned /\ Owned' /\ op'.kind = op.kind /\ op.applied /\ op'.applied
           /\ op # Stranded /\ op' # Stranded
           /\ \/ row' = row /\ op.stage \in {"wait", "store"}
              \/ row' = "deleted" /\ op.stage = "store" /\ op'.stage = "end" /\ op.kind = "purge"
  <1>1. TypeOK /\ StageInv
    BY DEF TypeInv
  <1>2. CASE Reply
    BY <1>1, <1>2, OpFacts, GoToFacts DEF Reply, At, rowVars
  <1>3. ASSUME NEW k, Stores(k)
        PROVE  /\ late' = late /\ Owned /\ Owned' /\ op.kind = k /\ op'.kind = k /\ op.applied /\ op'.applied
               /\ op # Stranded /\ op' # Stranded /\ op.stage = "store" /\ op'.stage = "end"
    BY <1>1, <1>3, OpFacts, GoToFacts DEF Stores, At, StageInv
  <1>4. CASE PurgeStores
    BY <1>3, <1>4 DEF PurgeStores
  <1>5. CASE \/ CreateStores \/ PowerStores \/ ResizeStores \/ ReinstallStores \/ SnapshotRestoreStores
             \/ BackupRestoreStores \/ StatusStores \/ NetworkStores \/ NetworkStatusStores
             \/ RecycleStores \/ TrashRestoreStores
    <2>1. row' = row
      BY <1>5 DEF CreateStores, PowerStores, ResizeStores, ReinstallStores, SnapshotRestoreStores,
         BackupRestoreStores, StatusStores, NetworkStores, NetworkStatusStores, RecycleStores,
         TrashRestoreStores, rowVars
    <2>2. \E k : Stores(k)
      BY <1>5 DEF CreateStores, PowerStores, ResizeStores, ReinstallStores, SnapshotRestoreStores,
         BackupRestoreStores, StatusStores, NetworkStores, NetworkStatusStores, RecycleStores,
         TrashRestoreStores
    <2> QED
      BY <1>3, <2>1, <2>2
  <1> QED
    BY <1>2, <1>4, <1>5 DEF Store

\* while the node carries the call out,
LEMMA ApplyGoes ==
    ASSUME TypeInv, Apply
    PROVE  /\ UNCHANGED <<row, late>> /\ Owned /\ Owned' /\ op.stage = "wait"
           /\ op'.kind = op.kind /\ ~op.applied /\ op'.applied /\ op # Stranded /\ op' # Stranded
  BY OpFacts, ApplyFacts DEF TypeInv, Apply, At, rowVars

\* until it ends at a step without a call,
LEMMA Leaves ==
    ASSUME TypeInv, Reject \/ StoreFails \/ Finish
    PROVE  /\ UNCHANGED <<row, late>> /\ Owned /\ op.stage \in {"run", "store", "end"}
           /\ op # Stranded /\ op' \in {Idle, Stranded}
  BY OpFacts DEF TypeInv, Reject, StoreFails, Finish, At, rowVars

\* or over a call that fails, or with the process.
LEMMA Gives ==
    ASSUME TypeInv, CallFails \/ (Crash /\ Owned)
    PROVE  /\ row' = row /\ Owned /\ op # Stranded
           /\ \/ op' = Stranded
              \/ op' = Idle /\ ~Retains(op.kind) /\ op.stage = "wait"
           /\ \/ op.stage = "wait" /\ late' = Abandoned
              \/ op.stage # "wait" /\ late' = late
  <1>1. CASE CallFails
    BY <1>1, OpFacts DEF TypeInv, CallFails, At
  <1>2. CASE Crash /\ Owned
    BY <1>2, OpFacts DEF TypeInv, Crash, At, rowVars
  <1> QED
    BY <1>1, <1>2

\* These are all of the steps.
LEMMA AllSteps ==
    ASSUME [Next]_vars
    PROVE  \/ Bystanding \/ Entering \/ Call \/ Reply \/ Store \/ Apply \/ Reject \/ StoreFails \/ Finish
           \/ CallFails \/ Crash \/ Recover \/ \E k \in Kind : LateEffect(k)
  BY DEF Next, Body, Sweep, Bystanding, Entering

\* No step brings an operation to a row that is deleted.
LEMMA GoneStep ==
    ASSUME GuardInv, [Next]_vars PROVE GoneInv'
  <1> USE FenceFacts DEF GuardInv, GoneInv
  <1>1. CASE Bystanding
    BY <1>1, Bystanders DEF Owned
  <1>2. CASE Entering
    BY <1>2, Enters DEF Owned
  <1>3. CASE Call
    BY <1>3, CallGoes
  <1>4. CASE Reply \/ Store
    BY <1>4, AnswerGoes
  <1>5. CASE Apply
    BY <1>5, ApplyGoes
  <1>6. CASE Reject \/ StoreFails \/ Finish
    BY <1>6, Leaves DEF Owned
  <1>7. CASE CallFails \/ (Crash /\ Owned)
    BY <1>7, Gives DEF Owned
  <1>8. CASE Crash /\ ~Owned
    BY <1>8 DEF Crash, rowVars, Owned
  <1>9. CASE Recover \/ \E k \in Kind : LateEffect(k)
    BY <1>9 DEF Recover, LateEffect, rowVars, Owned
  <1> QED
    BY <1>1, <1>2, <1>3, <1>4, <1>5, <1>6, <1>7, <1>8, <1>9, AllSteps

\* The invariant behind the fence holds whatever fails or comes late.
THEOREM GuardInvariant == Spec => []GuardInv
  <1>1. Init => GuardInv
    <2> SUFFICES ASSUME Init PROVE GuardInv
      OBVIOUS
    <2>1. TypeInv
      BY InitInv
    <2>2. row # "deleted"
      BY DEF Init
    <2> QED
      BY <2>1, <2>2 DEF GuardInv, GoneInv
  <1>2. GuardInv /\ [Next]_vars => GuardInv'
    BY TypeNext, GoneStep DEF GuardInv
  <1> QED
    BY <1>1, <1>2, PTL DEF Spec

-----------------------------------------------------------------------------
(* The fence as it is promised *)

\* Whom the fence belongs to, before a step and after it,
LEMMA OwnerIs ==
    ASSUME TypeOK
    PROVE  /\ row = "deleted" => Owner = "gone"
           /\ row # "deleted" /\ Owned => Owner = op.kind /\ Owner \in Kind
           /\ row # "deleted" /\ op = Stranded => Owner = "stranded"
           /\ row # "deleted" /\ op = Idle => Owner = "nobody"
  BY OpFacts, FenceFacts DEF Owner, Owned

\* (the same, after a step)
LEMMA OwnerIsNext ==
    ASSUME TypeOK'
    PROVE  /\ row' = "deleted" => Owner' = "gone"
           /\ row' # "deleted" /\ Owned' => Owner' = op'.kind /\ Owner' \in Kind
           /\ row' # "deleted" /\ op' = Stranded => Owner' = "stranded"
           /\ row' # "deleted" /\ op' = Idle => Owner' = "nobody"
  <1>1. Owned' => op' # Idle /\ op' # Stranded
    BY FenceFacts DEF Owned
  <1> QED
    BY <1>1, FenceFacts DEF Owner, Owned

\* and what may be running on the node: only what its owner waits for, unless the
\* fence is stranded.
LEMMA DangerIs ==
    ASSUME TypeInv, op # Stranded
    PROVE  Danger = IF op.stage = "wait" /\ ~op.applied /\ op.kind \in Destructive THEN {op.kind} ELSE {}
  <1>1. \A k \in Destructive : k \notin late /\ k \in Kind
    BY DEF TypeInv, LateInv, Destructive, Retains, Kind
  <1> QED
    BY <1>1 DEF Danger, At, Owned

\* (the same, after a step)
LEMMA DangerIsNext ==
    ASSUME TypeInv', op' # Stranded
    PROVE  Danger' = IF op'.stage = "wait" /\ ~op'.applied /\ op'.kind \in Destructive THEN {op'.kind} ELSE {}
  <1>1. \A k \in Destructive : k \notin late' /\ k \in Kind
    BY DEF TypeInv, LateInv, Destructive, Retains, Kind
  <1> QED
    BY <1>1 DEF Danger, At, Owned

\* When it is, only what was given up.
LEMMA DangerStranded ==
    ASSUME op' = Stranded PROVE Danger' = Destructive \cap late'
  BY FenceFacts DEF Danger, At, Owned

\* An operation acquires a free fence.
LEMMA EntersAbs ==
    ASSUME GuardInv, GuardInv', Entering PROVE AbsNext
  <1> USE FenceFacts DEF GuardInv
  <1>1. CASE UNCHANGED <<row, op, late>>
    BY <1>1 DEF AbsNext, AbsVars, Owner, Danger, At, Owned
  <1>2. CASE ~UNCHANGED <<row, op, late>>
    <2>1. /\ op = Idle /\ row # "deleted" /\ row' # "deleted"
          /\ Owned' /\ op'.kind \in Kind /\ op'.stage = "run" /\ op' # Stranded
      BY <1>2, Enters
    <2>2. Owner = "nobody" /\ Owner' = op'.kind
      BY <2>1, OwnerIs, OwnerIsNext DEF TypeInv
    <2>3. Danger = {} /\ Danger' = {}
      BY <2>1, DangerIs, DangerIsNext
    <2> QED
      BY <2>1, <2>2, <2>3 DEF AbsNext, Fence!Next, Fence!Acquire
  <1> QED
    BY <1>1, <1>2

\* Its call is launched, carried out and answered under the fence.
LEMMA CallsAbs ==
    ASSUME GuardInv, GuardInv', Call \/ Apply \/ Reply \/ Store PROVE AbsNext
  <1> USE DEF GuardInv
  <1>1. CASE Call
    <2>1. row # "deleted" /\ row' # "deleted" /\ Owner = op.kind /\ Owner' = op.kind /\ op.kind \in Kind
      BY <1>1, CallGoes, OwnerIs, OwnerIsNext DEF TypeInv, GoneInv
    <2>2. Danger = {} /\ Danger' \in {{}, {op.kind}}
      BY <1>1, CallGoes, DangerIs, DangerIsNext
    <2>3. CASE Danger' = {}
      BY <2>1, <2>2, <2>3 DEF AbsNext, AbsVars
    <2>4. CASE Danger' = {op.kind}
      BY <2>1, <2>2, <2>4 DEF AbsNext, Fence!Next, Fence!Launch
    <2> QED
      BY <2>2, <2>3, <2>4
  <1>2. CASE Apply
    <2>1. Owner' = Owner /\ op.kind \in Kind
      BY <1>2, ApplyGoes, OwnerIs, OwnerIsNext DEF TypeInv, Owned
    <2>2. Danger \in {{}, {op.kind}} /\ Danger' = {}
      BY <1>2, ApplyGoes, DangerIs, DangerIsNext
    <2>3. Danger' = Danger \ {op.kind}
      BY <2>2
    <2> QED
      BY <2>1, <2>3 DEF AbsNext, Fence!Next, Fence!Land
  <1>3. CASE Reply \/ Store
    <2>1. Danger = {} /\ Danger' = {}
      BY <1>3, AnswerGoes, DangerIs, DangerIsNext
    <2>2. CASE row' = row
      <3>1. Owner' = Owner
        BY <1>3, <2>2, AnswerGoes, OwnerIs, OwnerIsNext DEF TypeInv
      <3> QED
        BY <2>1, <3>1 DEF AbsNext, AbsVars
    <2>3. CASE row' # row
      <3>1. row # "deleted" /\ Owner = op.kind /\ op.kind \in Kind /\ Owner' = "gone"
        BY <1>3, <2>3, AnswerGoes, OwnerIs, OwnerIsNext DEF TypeInv
      <3> QED
        BY <2>1, <3>1 DEF AbsNext, Fence!Next, Fence!LetGo
    <2> QED
      BY <2>2, <2>3
  <1> QED
    BY <1>1, <1>2, <1>3

\* Letting go, or keeping the fence after the call: nothing runs on the node.
LEMMA LeavesAbs ==
    ASSUME GuardInv, GuardInv', Reject \/ StoreFails \/ Finish PROVE AbsNext
  <1> USE DEF GuardInv
  <1>1. UNCHANGED row /\ Owned /\ op' \in {Idle, Stranded} /\ op.kind \in Kind
    BY Leaves DEF Owned
  <1>2. Danger = {} /\ Danger' = {}
    <2>1. Danger = {}
      BY Leaves, DangerIs
    <2>2. \A k \in Destructive : k \notin late
      BY Leaves DEF TypeInv, LateInv, Destructive, Retains
    <2>3. CASE op' = Idle
      BY <2>1, <2>3, DangerIsNext, FenceFacts
    <2>4. CASE op' = Stranded
      BY <2>1, <2>2, <2>4, Leaves, DangerStranded
    <2> QED
      BY <1>1, <2>1, <2>3, <2>4
  <1>3. CASE row = "deleted"
    BY <1>1, <1>2, <1>3, OwnerIs, OwnerIsNext DEF AbsNext, AbsVars, TypeInv
  <1>4. CASE row # "deleted"
    <2>1. Owner = op.kind /\ (Owner' = "nobody" \/ Owner' = "stranded")
      BY <1>1, <1>4, OwnerIs, OwnerIsNext DEF TypeInv
    <2> QED
      BY <1>1, <1>2, <2>1 DEF AbsNext, Fence!Next, Fence!LetGo, Fence!Strand
  <1> QED
    BY <1>3, <1>4

\* A call that fails, and a crash, leave the fence stranded over what may still run.
LEMMA GivesAbs ==
    ASSUME GuardInv, GuardInv', CallFails \/ (Crash /\ Owned) PROVE AbsNext
  <1> USE DEF GuardInv
  <1>1. row' = row /\ Owned /\ op # Stranded /\ op.kind \in Kind
    BY Gives DEF Owned
  <1>2. Danger' = Danger
    <2>1. \A k \in Destructive : k \notin late /\ Retains(k)
      BY <1>1 DEF TypeInv, LateInv, Destructive, Retains
    <2>2. \A k : Retains(k) => k \in Destructive
      BY DEF Destructive, Retains
    <2>3. CASE op' = Idle
      <3>1. op.kind \notin Destructive
        BY <2>1, <2>3, Gives, FenceFacts
      <3> QED
        BY <1>1, <2>3, <3>1, DangerIs, DangerIsNext, FenceFacts
    <2>4. CASE op' = Stranded
      <3>1. Danger' = Destructive \cap late'
        BY <2>4, DangerStranded
      <3>2. CASE op.stage # "wait"
        BY <1>1, <2>1, <3>1, <3>2, Gives, DangerIs
      <3>3. CASE op.stage = "wait"
        <4>1. late' = Abandoned
          BY <3>3, Gives
        <4>2. CASE op.applied
          BY <1>1, <2>1, <3>1, <4>1, <4>2, DangerIs DEF Abandoned
        <4>3. CASE ~op.applied /\ op.kind \in Destructive
          <5>1. late' = late \cup {op.kind}
            BY <2>1, <4>1, <4>3 DEF Abandoned
          <5>2. Danger' = {op.kind}
            BY <2>1, <3>1, <4>3, <5>1
          <5> QED
            BY <1>1, <3>3, <4>3, <5>2, DangerIs
        <4>4. CASE ~op.applied /\ op.kind \notin Destructive
          <5>1. late' \subseteq late \cup {op.kind}
            BY <4>1 DEF Abandoned
          <5>2. Danger' = {}
            BY <2>1, <3>1, <4>4, <5>1
          <5> QED
            BY <1>1, <4>4, <5>2, DangerIs
        <4> QED
          BY <4>2, <4>3, <4>4
      <3> QED
        BY <3>2, <3>3
    <2> QED
      BY <2>3, <2>4, Gives
  <1>3. CASE row = "deleted"
    BY <1>1, <1>2, <1>3, OwnerIs, OwnerIsNext DEF AbsNext, AbsVars, TypeInv
  <1>4. CASE row # "deleted" /\ op' = Stranded
    <2>1. Owner = op.kind /\ Owner' = "stranded"
      BY <1>1, <1>4, OwnerIs, OwnerIsNext DEF TypeInv
    <2> QED
      BY <1>1, <1>2, <2>1 DEF AbsNext, Fence!Next, Fence!Strand
  <1>5. CASE row # "deleted" /\ op' = Idle
    <2>1. Owner = op.kind /\ Owner' = "nobody"
      BY <1>1, <1>5, OwnerIs, OwnerIsNext DEF TypeInv
    <2>2. Danger' = {}
      BY <1>5, DangerIsNext, FenceFacts
    <2> QED
      BY <1>1, <1>2, <2>1, <2>2 DEF AbsNext, Fence!Next, Fence!LetGo
  <1> QED
    BY <1>3, <1>4, <1>5, Gives

\* A call carried out late lands; the operator recovers a fence nothing runs under.
LEMMA AroundAbs ==
    ASSUME GuardInv, GuardInv',
           Recover \/ (Crash /\ ~Owned) \/ (\E k \in Kind : LateEffect(k)) \/ Bystanding
    PROVE  AbsNext
  <1> USE DEF GuardInv
  <1>1. CASE Recover
    <2>1. Danger = {} /\ Danger' = {}
      <3>1. Danger = {}
        BY <1>1, FenceFacts DEF Recover, Danger, At, Owned
      <3>2. Danger' = {}
        BY <1>1, DangerIsNext, FenceFacts DEF Recover
      <3> QED
        BY <3>1, <3>2
    <2>2. Owner' = Owner \/ (Owner = "stranded" /\ Owner' = "nobody")
      BY <1>1, OwnerIs, OwnerIsNext DEF TypeInv, Recover, rowVars
    <2> QED
      BY <2>1, <2>2 DEF AbsNext, AbsVars, Fence!Next, Fence!Recover
  <1>2. CASE Crash /\ ~Owned
    BY <1>2 DEF Crash, rowVars, AbsNext, AbsVars, Owner, Danger, At, Owned
  <1>3. ASSUME NEW k \in Kind, LateEffect(k) PROVE AbsNext
    <2>1. UNCHANGED <<row, op>> /\ k \in late /\ late' = late \ {k}
      BY <1>3 DEF LateEffect, rowVars
    <2>2. Owner' = Owner
      BY <2>1 DEF Owner, Owned
    <2>3. CASE k \in Destructive
      <3>1. op = Stranded /\ op' = Stranded
        BY <2>1, <2>3 DEF TypeInv, LateInv, Destructive, Retains
      <3>2. Danger = Destructive \cap late /\ Danger' = Destructive \cap late'
        BY <3>1, DangerStranded, FenceFacts DEF Danger, At, Owned
      <3>3. Danger' = Danger \ {k}
        BY <2>1, <3>2
      <3> QED
        BY <2>2, <3>3 DEF AbsNext, Fence!Next, Fence!Land
    <2>4. CASE k \notin Destructive
      BY <2>1, <2>2, <2>4 DEF AbsNext, AbsVars, Danger, At, Owned
    <2> QED
      BY <2>3, <2>4
  <1>4. CASE Bystanding
    BY <1>4, Bystanders DEF AbsNext, AbsVars, Owner, Danger, At, Owned
  <1> QED
    BY <1>1, <1>2, <1>3, <1>4

\* Whatever fails or comes late, the life of an instance keeps the promise of its
\* fence: an operation enters a free fence and nobody takes it away, and it is free
\* again only when no disk is being rewritten (beginOperation, guard.retain).
THEOREM Refinement == Spec => KeepsTheFence
  <1>1. Init => Fence!Init
    <2> SUFFICES ASSUME Init PROVE Fence!Init
      OBVIOUS
    <2>1. TypeInv
      BY InitInv
    <2>2. op = Idle /\ row # "deleted"
      BY DEF Init
    <2> QED
      BY <2>1, <2>2, OwnerIs, DangerIs, FenceFacts DEF Fence!Init, TypeInv
  <1>2. GuardInv /\ GuardInv' /\ [Next]_vars => [Fence!Next]_AbsVars
    <2> SUFFICES ASSUME GuardInv, GuardInv', [Next]_vars PROVE AbsNext
      BY DEF AbsNext
    <2> QED
      BY AllSteps, EntersAbs, CallsAbs, LeavesAbs, GivesAbs, AroundAbs
  <1> QED
    BY <1>1, <1>2, GuardInvariant, PTL DEF Spec, KeepsTheFence, Fence!Spec, AbsVars
================================================================================
