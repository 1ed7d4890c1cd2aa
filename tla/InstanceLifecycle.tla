--------------------------- MODULE InstanceLifecycle ---------------------------
(***************************************************************************)
(* The life of ONE instance: the operations that hold its fence, the       *)
(* guest on the node, the background ssh watchers and the trash sweeper.   *)
(*                                                                         *)
(* The fence is the exclusive fence that OperationFence implements: an     *)
(* operation owns it (op is a record), nobody does (Idle), or it was left  *)
(* behind by a crash or kept on purpose (Stranded).  An operation checks   *)
(* the row, calls the agent, stores the answer and lets go; the agent      *)
(* carries the call out at a time of its own, possibly after the master    *)
(* has given up on the answer.                                             *)
(***************************************************************************)
EXTENDS Naturals

CONSTANTS
    Watcher,      \* goroutines watchSSHReady can be started in
    Kinds,        \* the operations that callers ask for
    MaxGuest,     \* bound: guests that are ever put on the node, one and its replacement at least
    Attempts,     \* polls of one watcher (60 in the code)
    Faults,       \* what goes wrong: a subset of AllFaults
    LateEffects   \* TRUE: any call given up may still be carried out later

Power == {"start", "stop", "reinstall"}
Replacing == {"reinstall", "snapshot_restore", "backup_restore"}
Observing == {"configure_network", "status", "network_status"}
Trashing == {"recycle", "trash_restore", "purge"}
Kind == {"create", "resize"} \cup Power \cup Replacing \cup Observing \cup Trashing
AllFaults == {"call", "store", "crash"}

ASSUME LifecycleAssumption ==
    /\ Kinds \subseteq Kind
    /\ MaxGuest \in Nat \ {0, 1}
    /\ Attempts \in Nat \ {0}
    /\ Faults \subseteq AllFaults
    /\ LateEffects \in BOOLEAN

\* The value of op while no operation owns the fence.
Unowned(k) == [kind |-> k, by |-> "caller", stage |-> "none",
               applied |-> FALSE, saw |-> FALSE, keep |-> FALSE]
Idle == Unowned("idle")
Stranded == Unowned("stranded")

VARIABLES
    row,        \* the instance row: "absent", "present" or "deleted"
    sshReady,   \* ssh_ready
    gen,        \* lifecycle_generation
    trashed,    \* trashed_at is set
    purgeAfter, \* "never" (NULL), "later" or "due"
    retention,  \* retention_days > 0
    op,         \* the fence: Idle, Stranded, or the operation that owns it
    guest,      \* the guest on the node: 0 none, else which one it is
    guestReady, \* its password injection is done: the agent reports SSHReady
    running,    \* it runs
    late,       \* calls the master gave up on and the node may still carry out
    watch,      \* the ssh watchers
    sweep,      \* the trash sweeper: "idle", "enabled", "planned", or "stopped" with the master
    stale,      \* history: ssh_ready may speak of a guest that is gone
    misled      \* history: watchers whose answer is of a guest replaced behind the generation

rowVars == <<row, sshReady, gen, trashed, purgeAfter>>
nodeVars == <<guest, guestReady, running>>
history == <<stale, misled>>
vars == <<rowVars, retention, op, nodeVars, late, watch, sweep, history>>

Operation == [kind: Kind, by: {"caller", "sweep"}, stage: {"run", "wait", "store", "end"},
              applied: BOOLEAN,   \* the node has carried the call out
              saw: BOOLEAN,       \* what it answered about SSH
              keep: BOOLEAN]      \* recycle: retention was on when it was read
Watching == [pc: {"off", "poll", "ask", "mark"}, gen: Nat, left: 0..Attempts]
Off == [pc |-> "off", gen |-> 0, left |-> 0]

TypeOK ==
    /\ row \in {"absent", "present", "deleted"}
    /\ sshReady \in BOOLEAN /\ trashed \in BOOLEAN
    /\ gen \in Nat
    /\ purgeAfter \in {"never", "later", "due"}
    /\ retention \in BOOLEAN
    /\ op \in Operation \cup {Idle, Stranded}
    /\ guest \in 0..MaxGuest
    /\ guestReady \in BOOLEAN /\ running \in BOOLEAN
    /\ late \subseteq Kind
    /\ watch \in [Watcher -> Watching]
    /\ sweep \in {"stopped", "idle", "enabled", "planned"}
    /\ stale \in BOOLEAN
    /\ misled \subseteq Watcher

Polling == [pc |-> "poll", gen |-> 0, left |-> Attempts]

\* Nothing has been created yet, or an instance is there, idle, and possibly
\* still watched after an earlier reinstall.
Init ==
    /\ row \in {"absent", "present"}
    /\ guest = IF row = "present" THEN 1 ELSE 0
    /\ guestReady \in IF row = "present" THEN BOOLEAN ELSE {FALSE}
    /\ running \in IF row = "present" THEN BOOLEAN ELSE {FALSE}
    /\ sshReady = guestReady
    /\ gen = 0
    /\ trashed = FALSE
    /\ purgeAfter = "never"
    /\ retention \in BOOLEAN
    /\ op = Idle
    /\ late = {}
    /\ LET unwatched == [w \in Watcher |-> Off]
       IN  \/ watch = unwatched
           \/ /\ row = "present"
              /\ \E w \in Watcher : watch = [unwatched EXCEPT ![w] = Polling]
    /\ sweep = "idle"
    /\ stale = FALSE
    /\ misled = {}

-----------------------------------------------------------------------------
(* Taking the fence *)

Start(k, by) == op' = [kind |-> k, by |-> by, stage |-> "run",
                       applied |-> FALSE, saw |-> FALSE, keep |-> FALSE]

Owned == op.kind \in Kind
At(s) == Owned /\ op.stage = s
GoTo(s) == op' = [op EXCEPT !.stage = s]

\* beginOperation: the compare-and-set on the free fence of a row that is there.
Begin(k) ==
    /\ op = Idle /\ row = "present" /\ k # "create"
    /\ k \in Replacing => guest < MaxGuest /\ gen < MaxGuest
    /\ Start(k, "caller")
    /\ UNCHANGED <<rowVars, retention, nodeVars, late, watch, sweep, history>>

\* CreateInstance inserts a row that is born fenced.
Create ==
    /\ row = "absent"
    /\ row' = "present"
    /\ Start("create", "caller")
    /\ UNCHANGED <<sshReady, gen, trashed, purgeAfter, retention, nodeVars, late, watch, sweep, history>>

-----------------------------------------------------------------------------
(* The operation body: checks, then one call *)

\* The call goes out, if the row, and the status the agent reports, allow it.
Sends(k, admitted) ==
    /\ At("run") /\ op.kind = k
    /\ admitted
    /\ GoTo("wait")
    /\ UNCHANGED <<rowVars, retention, nodeVars, late, watch, sweep, history>>

\* A new row needs no look at the node.
CreateCalls == Sends("create", TRUE)

\* Slip: the row is read with GetAnyInstance, which also finds recycled ones.
PowerCallsRecycled == \E k \in Power : Sends(k, TRUE)

\* GetInstance does not find a recycled instance.
PowerCalls == \E k \in Power : Sends(k, ~trashed)
StatusCalls == Sends("status", ~trashed)
NetworkCalls == Sends("configure_network", ~trashed)
NetworkStatusCalls == Sends("network_status", ~trashed)

\* A disk is only restored or resized under a stopped guest.
SnapshotRestoreCalls == Sends("snapshot_restore", ~trashed /\ ~running)
BackupRestoreCalls == Sends("backup_restore", ~trashed /\ ~running)
ResizeCalls == Sends("resize", ~trashed /\ ~running)

\* A recycle reads the retention setting before it stops the guest.
RecycleCalls ==
    /\ At("run") /\ op.kind = "recycle"
    /\ ~trashed
    /\ op' = [op EXCEPT !.stage = "wait", !.keep = retention]
    /\ UNCHANGED <<rowVars, retention, nodeVars, late, watch, sweep, history>>

TrashRestoreCalls == Sends("trash_restore", trashed /\ ~running)

\* A purge is not conditioned on the recycle bin.
PurgeCalls == Sends("purge", TRUE)

Call ==
    \/ CreateCalls \/ PowerCalls \/ StatusCalls \/ NetworkCalls \/ NetworkStatusCalls
    \/ SnapshotRestoreCalls \/ BackupRestoreCalls \/ ResizeCalls
    \/ RecycleCalls \/ TrashRestoreCalls \/ PurgeCalls

\* The body returns before the call: refused, invalid, no storage, no agent.
\* (Recycling what is recycled already succeeds, and changes nothing.)
Reject ==
    /\ At("run")
    /\ op' = Idle
    /\ UNCHANGED <<rowVars, retention, nodeVars, late, watch, sweep, history>>

\* What carrying out a call of kind k does to the guest.
Effect(k) ==
    CASE k = "create" -> guest' = 1 /\ guestReady' = FALSE /\ running' \in BOOLEAN
      [] k = "reinstall" -> guest' = guest + 1 /\ guestReady' = FALSE /\ running' \in BOOLEAN
      [] k \in {"snapshot_restore", "backup_restore"} ->
             guest' = guest + 1 /\ guestReady' = FALSE /\ running' = FALSE
      [] k = "start" -> running' = (guest > 0) /\ UNCHANGED <<guest, guestReady>>
      [] k \in {"stop", "recycle"} -> running' = FALSE /\ UNCHANGED <<guest, guestReady>>
      [] k = "configure_network" -> guestReady' = (guest > 0) /\ UNCHANGED <<guest, running>>
      [] k = "purge" -> guest' = 0 /\ guestReady' = FALSE /\ running' = FALSE
      [] k \in {"status", "network_status", "resize", "trash_restore"} -> UNCHANGED nodeVars

\* The agent carries the call out.
Apply ==
    /\ At("wait") /\ ~op.applied
    /\ Effect(op.kind)
    /\ op' = [op EXCEPT !.applied = TRUE, !.saw = op.kind = "status" /\ guestReady]
    /\ UNCHANGED <<rowVars, retention, late, watch, sweep, history>>

\* Its answer reaches the master.
Reply ==
    /\ At("wait") /\ op.applied
    /\ GoTo("store")
    /\ UNCHANGED <<rowVars, retention, nodeVars, late, watch, sweep, history>>

\* guard.retain: these keep the fence when the call fails.
Retains(k) == k \in Replacing \cup {"resize"}

\* A call the master no longer waits for.  Destructive work may go on; other
\* calls are taken to die with their connection unless LateEffects.
Abandoned ==
    IF op.applied \/ ~(Retains(op.kind) \/ LateEffects) THEN late ELSE late \cup {op.kind}

\* ssh_ready is cleared, if b; then it speaks of no guest at all.
Forgets(b) ==
    /\ sshReady' = (sshReady /\ ~b)
    /\ stale' = (stale /\ ~b)

\* The guest was replaced while neither ssh_ready nor the generation tells: what
\* the watchers have been answered is of the guest before it.
Mislead == misled' = misled \cup {w \in Watcher : watch[w].pc = "mark"}

\* Slip: the row is deleted although the agent did not confirm the deletion.
CallFailsPurgeGoesOn ==
    /\ At("wait") /\ "call" \in Faults
    /\ late' = Abandoned
    /\ IF op.kind = "purge" THEN GoTo("store")
       ELSE op' = IF Retains(op.kind) THEN Stranded ELSE Idle
    /\ Forgets(op.kind = "configure_network")
    /\ UNCHANGED <<row, gen, trashed, purgeAfter, retention, nodeVars, watch, sweep, misled>>

\* Slip: every operation lets go of its fence when its call fails.
CallFailsLetsGo ==
    /\ At("wait") /\ "call" \in Faults
    /\ late' = Abandoned
    /\ op' = Idle
    /\ Forgets(op.kind = "configure_network")
    /\ UNCHANGED <<row, gen, trashed, purgeAfter, retention, nodeVars, watch, sweep, misled>>

\* The call fails, or its answer is lost: the fence is kept for destructive
\* operations and let go for the others.
CallFails ==
    /\ At("wait") /\ "call" \in Faults
    /\ late' = Abandoned
    /\ op' = IF Retains(op.kind) THEN Stranded ELSE Idle
    /\ Forgets(op.kind = "configure_network")
    /\ UNCHANGED <<row, gen, trashed, purgeAfter, retention, nodeVars, watch, sweep, misled>>

\* A call that was given up is carried out after all.
LateEffect(k) ==
    /\ k \in late
    /\ k \in Replacing => guest < MaxGuest /\ gen < MaxGuest
    /\ late' = late \ {k}
    /\ Effect(k)
    /\ IF k = "create" THEN stale' = TRUE /\ Mislead ELSE UNCHANGED history
    /\ UNCHANGED <<rowVars, retention, op, watch, sweep>>

-----------------------------------------------------------------------------
(* The operation body: the answer is stored *)

\* The answer to a call of kind k is stored, and the body ends.
Stores(k) ==
    /\ At("store") /\ op.kind = k
    /\ GoTo("end")
    /\ UNCHANGED <<retention, nodeVars, late, sweep>>

\* Starting, stopping and resizing say nothing of access.
PowerStores == \E k \in Power \ Replacing : Stores(k) /\ UNCHANGED <<rowVars, watch, history>>
ResizeStores == Stores("resize") /\ UNCHANGED <<rowVars, watch, history>>

\* The watcher that create starts is given no agent and returns at once.
CreateStores == Stores("create") /\ UNCHANGED <<rowVars, watch, history>>

StartsWatcher ==
    \E w \in Watcher :
        /\ watch[w].pc = "off"
        /\ watch' = [watch EXCEPT ![w] = Polling]

\* Slip: ssh_ready is left as it was.
ReinstallStoresKeepingReady ==
    /\ Stores("reinstall")
    /\ gen' = gen + 1
    /\ StartsWatcher \/ UNCHANGED watch
    /\ UNCHANGED <<row, sshReady, trashed, purgeAfter, history>>

\* A new generation and, if a password is stored, a watcher that starts while the
\* fence is still held.
ReinstallStores ==
    /\ Stores("reinstall")
    /\ Forgets(TRUE)
    /\ gen' = gen + 1
    /\ StartsWatcher \/ UNCHANGED watch
    /\ UNCHANGED <<row, trashed, purgeAfter, misled>>

SnapshotRestoreStores ==
    /\ Stores("snapshot_restore")
    /\ Forgets(TRUE)
    /\ gen' = gen + 1
    /\ UNCHANGED <<row, trashed, purgeAfter, watch, misled>>

\* The generation stays.
BackupRestoreStores ==
    /\ Stores("backup_restore")
    /\ Forgets(TRUE)
    /\ Mislead
    /\ UNCHANGED <<row, gen, trashed, purgeAfter, watch>>

\* A status refresh only ever turns ssh_ready on.
StatusStores ==
    /\ Stores("status")
    /\ sshReady' = (sshReady \/ op.saw)
    /\ UNCHANGED <<row, gen, trashed, purgeAfter, watch, history>>

\* Addresses only; an update that fails is passed over.
NetworkStatusStores == Stores("network_status") /\ UNCHANGED <<rowVars, watch, history>>

NetworkStores ==
    /\ Stores("configure_network")
    /\ sshReady' = TRUE
    /\ UNCHANGED <<row, gen, trashed, purgeAfter, watch, history>>

RecycleStores ==
    /\ Stores("recycle")
    /\ Forgets(TRUE)
    /\ trashed' = TRUE
    /\ purgeAfter' = IF op.keep THEN "later" ELSE "never"
    /\ UNCHANGED <<row, gen, watch, misled>>

TrashRestoreStores ==
    /\ Stores("trash_restore")
    /\ trashed' = FALSE
    /\ purgeAfter' = "never"
    /\ UNCHANGED <<row, sshReady, gen, watch, history>>

PurgeStores ==
    /\ Stores("purge")
    /\ row' = "deleted"
    /\ UNCHANGED <<sshReady, gen, trashed, purgeAfter, watch, history>>

Store ==
    \/ CreateStores \/ PowerStores \/ ResizeStores \/ ReinstallStores \/ SnapshotRestoreStores \/ BackupRestoreStores
    \/ StatusStores \/ NetworkStores \/ NetworkStatusStores \/ RecycleStores \/ TrashRestoreStores \/ PurgeStores

\* The update fails: restores and resizes keep the fence, the others let go, a
\* reinstall with a row that still speaks of the guest before.
StoreFails ==
    /\ At("store") /\ "store" \in Faults
    /\ op' = IF op.kind \in {"snapshot_restore", "backup_restore", "resize"} THEN Stranded ELSE Idle
    /\ IF op.kind = "reinstall" THEN stale' = (stale \/ sshReady) /\ Mislead ELSE UNCHANGED history
    /\ UNCHANGED <<rowVars, retention, nodeVars, late, watch, sweep>>

\* finish: the deferred release, after the body.
Finish ==
    /\ At("end")
    /\ op' = Idle
    /\ UNCHANGED <<rowVars, retention, nodeVars, late, watch, sweep, history>>

-----------------------------------------------------------------------------
(* The node, the process and its operator *)

\* The agent finishes the password injection of the guest, in the background.
Inject ==
    /\ guest > 0 /\ ~guestReady
    /\ guestReady' = TRUE
    /\ UNCHANGED <<rowVars, retention, op, guest, running, late, watch, sweep, history>>

\* The master stops and starts again: goroutines are gone, the fence is not.
Crash ==
    /\ "crash" \in Faults
    /\ op' = IF Owned THEN Stranded ELSE op
    /\ late' = IF At("wait") THEN Abandoned ELSE late
    /\ watch' = [w \in Watcher |-> Off]
    /\ sweep' = "stopped"
    /\ misled' = {}
    /\ UNCHANGED <<rowVars, retention, nodeVars, stale>>

\* With the master stopped and the node verified, the fence is cleared by hand;
\* ssh_ready stays what it was, and may speak of a guest that was replaced.
Recover ==
    /\ op = Stranded /\ late = {}
    /\ op' = Idle
    /\ watch' = [w \in Watcher |-> Off]
    /\ sweep' = "stopped"
    /\ stale' = sshReady
    /\ misled' = {}
    /\ UNCHANGED <<rowVars, retention, nodeVars, late>>

-----------------------------------------------------------------------------
(* watchSSHReady *)

Quit(w) == watch' = [watch EXCEPT ![w] = Off]

\* One iteration re-reads the row; it ends for good when there is nothing to
\* watch, when another operation holds the fence, or after the last attempt.
Poll(w) ==
    /\ watch[w].pc = "poll"
    /\ IF row = "present" /\ ~trashed /\ ~sshReady /\ op = Idle /\ watch[w].left > 0
       THEN watch' = [watch EXCEPT ![w] = [pc |-> "ask", gen |-> gen, left |-> @.left - 1]]
       ELSE Quit(w)
    /\ UNCHANGED <<rowVars, retention, op, nodeVars, late, sweep, history>>

\* The agent answers the status call: ready, or not (or the call fails).
Ask(w) ==
    /\ watch[w].pc = "ask"
    /\ \/ guestReady /\ watch' = [watch EXCEPT ![w].pc = "mark"]
       \/ /\ ~guestReady \/ "call" \in Faults
          /\ watch' = [watch EXCEPT ![w].pc = "poll", ![w].gen = 0]
    /\ UNCHANGED <<rowVars, retention, op, nodeVars, late, sweep, history>>

\* What a misled watcher turns on is stale.
Believed(w) ==
    /\ stale' = (stale \/ (w \in misled /\ ~sshReady /\ sshReady'))
    /\ misled' = misled \ {w}

\* Slip: the update is not conditioned on the generation.
MarkWithoutGeneration(w) ==
    /\ watch[w].pc = "mark"
    /\ sshReady' = (sshReady \/ (row = "present" /\ op = Idle))
    /\ Believed(w)
    /\ Quit(w)
    /\ UNCHANGED <<row, gen, trashed, purgeAfter, retention, op, nodeVars, late, sweep>>

\* UPDATE ... SET ssh_ready WHERE busy_operation = '' AND lifecycle_generation = ?
Mark(w) ==
    /\ watch[w].pc = "mark"
    /\ sshReady' = (sshReady \/ (row = "present" /\ op = Idle /\ gen = watch[w].gen))
    /\ Believed(w)
    /\ Quit(w)
    /\ UNCHANGED <<row, gen, trashed, purgeAfter, retention, op, nodeVars, late, sweep>>

-----------------------------------------------------------------------------
(* Retention and the sweeper *)

SaveRetention ==
    /\ retention' \in BOOLEAN
    /\ UNCHANGED <<rowVars, op, nodeVars, late, watch, sweep, history>>

\* The retention period of a recycled instance elapses.
DeadlinePasses ==
    /\ purgeAfter = "later"
    /\ purgeAfter' = "due"
    /\ UNCHANGED <<row, sshReady, gen, trashed, retention, op, nodeVars, late, watch, sweep, history>>

\* CleanupTrash reads the setting,
SweepStarts ==
    /\ sweep \in {"stopped", "idle"} /\ retention
    /\ sweep' = "enabled"
    /\ UNCHANGED <<rowVars, retention, op, nodeVars, late, watch, history>>

\* then the ids that are due,
SweepQuery ==
    /\ sweep = "enabled"
    /\ sweep' = IF row = "present" /\ trashed /\ purgeAfter = "due" THEN "planned" ELSE "idle"
    /\ UNCHANGED <<rowVars, retention, op, nodeVars, late, watch, history>>

\* at most a hundred of them, the longest due first: this one may not be among them,
SweepCrowded ==
    /\ sweep = "enabled"
    /\ row = "present" /\ trashed /\ purgeAfter = "due"
    /\ sweep' = "idle"
    /\ UNCHANGED <<rowVars, retention, op, nodeVars, late, watch, history>>

\* Slip: the instance is looked up with GetInstance, which finds no recycled one.
SweepPurgeOfLive ==
    /\ sweep = "planned"
    /\ sweep' = "idle"
    /\ IF op = Idle /\ row = "present" /\ ~trashed THEN Start("purge", "sweep") ELSE UNCHANGED op
    /\ UNCHANGED <<rowVars, retention, nodeVars, late, watch, history>>

\* and purges them; a busy or missing instance is reported and skipped.
SweepPurge ==
    /\ sweep = "planned"
    /\ sweep' = "idle"
    /\ IF op = Idle /\ row = "present" THEN Start("purge", "sweep") ELSE UNCHANGED op
    /\ UNCHANGED <<rowVars, retention, nodeVars, late, watch, history>>

-----------------------------------------------------------------------------
Body == Call \/ Reject \/ Apply \/ Reply \/ CallFails \/ Store \/ StoreFails \/ Finish
Watch(w) == Poll(w) \/ Ask(w) \/ Mark(w)
Sweep == SweepStarts \/ SweepQuery \/ SweepCrowded \/ SweepPurge

Next ==
    \/ \E k \in Kinds : IF k = "create" THEN Create ELSE Begin(k)
    \/ Body
    \/ \E k \in Kind : LateEffect(k)
    \/ Inject \/ Crash \/ Recover
    \/ \E w \in Watcher : Watch(w)
    \/ SaveRetention \/ DeadlinePasses
    \/ Sweep

Spec == Init /\ [][Next]_vars

\* Handlers and goroutines run on, calls are answered or fail, time passes and
\* the sweeper ticks.  Callers and the operator are free to do nothing.
FairSpec ==
    /\ Spec
    /\ WF_vars(Body)
    /\ \A w \in Watcher : WF_vars(Watch(w))
    /\ WF_vars(Sweep) /\ WF_vars(DeadlinePasses)

-----------------------------------------------------------------------------
(* Properties *)

\* "a migration/restore that started mid-call cannot have its result clobbered",
\* "the generation clause makes the stale reply a no-op instead of overwriting the
\* new guest's readiness": a watcher that turns ssh_ready on does so for the guest
\* that is on the node, and that guest is ready.
GenerationGuardsReadiness ==
    [][\A w \in Watcher :
          watch[w].pc = "mark" /\ watch'[w].pc = "off" /\ ~sshReady /\ sshReady'
              => guestReady \/ guest = 0]_vars

\* What the generation does achieve: it stops every watcher whose answer is of a
\* guest that a reinstall or a snapshot restore has replaced since, and only a
\* replacement that left the generation alone gets past it.
WatcherMarksItsGuest ==
    [][\A w \in Watcher :
          watch[w].pc = "mark" /\ watch'[w].pc = "off" /\ ~sshReady /\ sshReady'
              => guestReady \/ guest = 0 \/ w \in misled]_vars

\* Between operations, ssh_ready is only set for a guest whose password has been
\* injected, whatever was replaced, restored or recycled in between.  The row is
\* known to be wrong in four ways, and only until ssh_ready is cleared: the update
\* of a reinstall failed, a fence was cleared by hand while ssh_ready was set, a
\* create that was given up was carried out, a misled watcher was believed.
ReadinessIsCurrent ==
    row = "present" /\ op = Idle /\ sshReady /\ ~stale => guestReady \/ guest = 0

\* A purged instance leaves no guest behind on its node.
NoOrphanGuest == row = "deleted" /\ op = Idle => guest = 0

\* A recycled instance does not run, and nothing but a purge touches its disk.
TrashedIsQuiet ==
    /\ row = "present" /\ trashed /\ op = Idle => ~running
    /\ row = "present" /\ trashed /\ Owned /\ op.applied
           => op.kind \in {"purge", "recycle", "trash_restore"}

\* The sweep of this instance, or the operation on it, is cut off.
Hindered == CallFails \/ StoreFails \/ Reject \/ Crash \/ SweepCrowded

\* What is due is purged, if callers leave the instance alone, retention stays on,
\* and the failures, the crashes and the queue of longer due instances come to an
\* end: no failed or interrupted try keeps a later one from succeeding.
TrashEventuallyPurged ==
    <>[](retention /\ (Owned => op.by = "sweep")) /\ <>[][~Hindered]_vars
        => []<>~(row = "present" /\ trashed /\ purgeAfter = "due" /\ op # Stranded)

-----------------------------------------------------------------------------
(* Refinement: the operations are the owners an exclusive fence knows. *)

Owner == CASE row = "deleted" -> "gone"
           [] row # "deleted" /\ Owned -> op.kind
           [] row # "deleted" /\ op = Stranded -> "stranded"
           [] row # "deleted" /\ op = Idle -> "nobody"

\* Work that replaces the disk or changes its size, and may be running on the node
\* whether or not anybody waits for it.
Destructive == Replacing \cup {"resize"}
Danger == {k \in Destructive : k \in late \/ (At("wait") /\ op.kind = k /\ ~op.applied)}

Fence == INSTANCE ExclusiveFence WITH
             Request <- Kind, owner <- Owner, danger <- Danger,
             Nobody <- "nobody", Stranded <- "stranded", Gone <- "gone"

\* Whatever fails, the operations, the sweeper, crashes and the operator together
\* keep the promise of the fence (beginOperation, guard.retain): an operation
\* enters a free fence, nobody takes it from its owner, and neither an answer, a
\* failure nor a recovery frees it while a disk may still be rewritten.
KeepsTheFence == Fence!Spec

=============================================================================
