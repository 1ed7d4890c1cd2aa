------------------------------- MODULE Migration -------------------------------
(***************************************************************************)
(* Moving ONE stopped instance between nodes: MigrateInstance and          *)
(* releaseMigrationReservations (internal/service/migration.go).           *)
(*                                                                         *)
(* A migration owns the instance's fence.  It reserves addresses and ports *)
(* on the target, exports the guest into an archive, imports it on the     *)
(* target, verifies it, switches the row and deletes the source last.  Its *)
(* deferred cleanup undoes what can be undone, or keeps everything and the *)
(* fence.  Every statement and every agent call is a step and may fail,    *)
(* and a call given up may still be carried out later.                     *)
(***************************************************************************)
EXTENDS Naturals, FiniteSets

CONSTANTS
    Agent,       \* the nodes
    Token,       \* fence tokens; a retry of an interrupted pass reuses its token
    NoToken,
    Faults,      \* subset of {"call", "write", "read", "crash"}
    MaxCrashes   \* bound: restarts of the master

ASSUME MigrationAssumption ==
    /\ NoToken \notin Token
    /\ Faults \subseteq {"call", "write", "read", "crash"}
    /\ MaxCrashes \in Nat

VARIABLES
    owner,     \* instances.agent_id
    fence,     \* busy_operation: "free", "held" by a migration, or "stranded"
    guest,     \* the nodes that hold a complete copy of the guest
    archive,   \* the transport archive is in storage
    pool,      \* the nodes with a pool address assigned to the instance
    nat,       \* its port forwardings on each node: "none", "live",
               \*   "target" (reserved there) or "source" (to be deleted)
    stage,     \* migrations.stage of the record of each token
    pc,        \* where the migration is
    req,       \* its token, source, target, and whether it takes a pool address
    imported, preserve, retain,   \* the flags of MigrateInstance
    pending,   \* calls the nodes have yet to carry out: <<verb, node>>
    open,      \* token of a pass whose operation record is still "running"
    recovered, \* a stranded fence has been cleared by hand
    crashes

rowVars == <<owner, pool, nat>>
flags == <<imported, preserve, retain>>
vars == <<rowVars, fence, guest, archive, stage, pc, req, flags, pending, open, recovered, crashes>>

Stage == {"none", "reserved", "importing", "switching", "source_delete",
          "completed", "failed", "target_cleanup_failed"}
Terminal == {"none", "completed", "failed"}
Forward == {"reserve", "export", "importing", "import", "await_import", "verify", "switching",
            "switch", "source_delete", "await_source", "release", "remove", "answer"}
Undo == {"undo", "await_target", "undo_reservations", "undo_record", "keep", "finish"}
Request == [token: Token, source: Agent, target: Agent, pool: BOOLEAN]

TypeOK ==
    /\ owner \in Agent
    /\ fence \in {"free", "held", "stranded"}
    /\ guest \subseteq Agent
    /\ archive \in BOOLEAN
    /\ pool \subseteq Agent
    /\ nat \in [Agent -> {"none", "live", "target", "source"}]
    /\ stage \in [Token -> Stage]
    /\ pc \in {"idle"} \cup Forward \cup Undo
    /\ req \in Request
    /\ imported \in BOOLEAN /\ preserve \in BOOLEAN /\ retain \in BOOLEAN
    /\ pending \subseteq {"import", "delete"} \X Agent
    /\ open \in Token \cup {NoToken}
    /\ recovered \in BOOLEAN
    /\ crashes \in 0..MaxCrashes

\* A stopped instance on its node, with or without a dedicated address, with or
\* without port forwardings.
Init ==
    /\ owner \in Agent
    /\ fence = "free"
    /\ guest = {owner}
    /\ archive = FALSE
    /\ \/ pool \in {{}, {owner}} /\ nat = [a \in Agent |-> "none"]
       \/ pool = {} /\ nat = [a \in Agent |-> IF a = owner THEN "live" ELSE "none"]
    /\ stage = [t \in Token |-> "none"]
    /\ pc = "idle"
    /\ req \in {r \in Request : r.source = owner /\ r.target = owner /\ ~r.pool}
    /\ imported = FALSE /\ preserve = FALSE /\ retain = FALSE
    /\ pending = {}
    /\ open = NoToken
    /\ recovered = FALSE
    /\ crashes = 0

-----------------------------------------------------------------------------
(* Helpers *)

At(p) == pc = p
GoTo(p) == pc' = p
Fault(kind) == kind \in Faults
Staged(s) == stage' = [stage EXCEPT ![req.token] = s]
Sent(c) == pending' = pending \cup {c}
Source == req.source
Target == req.target

\* An error is returned: the deferred cleanup runs.
Fail == GoTo("undo")

-----------------------------------------------------------------------------
(* The fence is taken; the request is checked *)

\* A migration is asked for, under a fresh token: the source is stopped, the
\* target is another node, and forwardings are only moved to NAT mode.
Begin(t, a, p) ==
    /\ fence = "free" /\ pc = "idle"
    /\ stage[t] = "none" /\ open # t
    /\ a # owner
    /\ p => nat[owner] = "none"
    /\ fence' = "held"
    /\ req' = [token |-> t, source |-> owner, target |-> a, pool |-> p]
    /\ open' = t
    /\ imported' = FALSE /\ preserve' = FALSE /\ retain' = FALSE
    /\ GoTo("reserve")
    /\ UNCHANGED <<rowVars, guest, archive, stage, pending, recovered, crashes>>

\* The same request again, after a crash and the recovery of its fence: the
\* guard re-claims it under the token of the interrupted pass.
Retry ==
    /\ fence = "free" /\ pc = "idle"
    /\ open # NoToken /\ open = req.token
    /\ req.target # owner
    /\ fence' = "held"
    /\ req' = [req EXCEPT !.source = owner]
    /\ imported' = FALSE /\ preserve' = FALSE /\ retain' = FALSE
    /\ GoTo("reserve")
    /\ UNCHANGED <<rowVars, guest, archive, stage, pending, open, recovered, crashes>>

\* One transaction: pool address, ports and the migration record, whose
\* operation_id is unique.  It can lose the address to another instance.
Reserve ==
    /\ At("reserve")
    /\ \/ /\ stage[req.token] = "none"
          /\ pool' = IF req.pool THEN pool \cup {Target} ELSE pool
          /\ nat' = IF nat[Source] = "live" THEN [nat EXCEPT ![Target] = "target"] ELSE nat
          /\ Staged("reserved")
          /\ GoTo("export")
       \/ /\ stage[req.token] # "none" \/ req.pool \/ Fault("write")
          /\ GoTo("finish")      \* before the deferred cleanup is installed
          /\ UNCHANGED <<pool, nat, stage>>
    /\ UNCHANGED <<owner, fence, guest, archive, req, flags, pending, open, recovered, crashes>>

-----------------------------------------------------------------------------
(* Export, import, verify *)

\* The source is exported and the archive saved, whole.
Export ==
    /\ At("export")
    /\ \/ archive' = TRUE /\ GoTo("importing")
       \/ (Fault("call") \/ Fault("write")) /\ archive' \in BOOLEAN /\ Fail
    /\ UNCHANGED <<rowVars, fence, guest, stage, req, flags, pending, open, recovered, crashes>>

StageImporting ==
    /\ At("importing")
    /\ \/ Staged("importing") /\ GoTo("import")
       \/ Fault("write") /\ stage' \in {stage, [stage EXCEPT ![req.token] = "importing"]} /\ Fail
    /\ UNCHANGED <<rowVars, fence, guest, archive, req, flags, pending, open, recovered, crashes>>

SendImport ==
    /\ At("import")
    /\ Sent(<<"import", Target>>)
    /\ GoTo("await_import")
    /\ UNCHANGED <<rowVars, fence, guest, archive, stage, req, flags, open, recovered, crashes>>

\* The node carries a call out.
NodeDoes(c) ==
    /\ c \in pending
    /\ pending' = pending \ {c}
    /\ guest' = IF c[1] = "import" THEN guest \cup {c[2]} ELSE guest \ {c[2]}
    /\ UNCHANGED <<rowVars, fence, archive, stage, pc, req, flags, open, recovered, crashes>>

\* Slip: a failed import is undone like any other error.
ImportRepliesUnpreserved ==
    /\ At("await_import")
    /\ \/ /\ <<"import", Target>> \notin pending
          /\ imported' = TRUE /\ GoTo("verify")
       \/ Fault("call") /\ Fail /\ UNCHANGED imported
    /\ UNCHANGED <<rowVars, fence, guest, archive, stage, req, preserve, retain, pending, open, recovered, crashes>>

\* The import is answered, or fails: the target may or may not have the guest,
\* so everything is kept.
ImportReplies ==
    /\ At("await_import")
    /\ \/ /\ <<"import", Target>> \notin pending
          /\ imported' = TRUE /\ GoTo("verify")
          /\ UNCHANGED preserve
       \/ /\ Fault("call")
          /\ preserve' = TRUE /\ Fail
          /\ UNCHANGED imported
    /\ UNCHANGED <<rowVars, fence, guest, archive, stage, req, retain, pending, open, recovered, crashes>>

\* The target reports a stopped guest of the right identity, or not.
Verify ==
    /\ At("verify")
    /\ \/ GoTo("switching")
       \/ Fault("call") /\ Fail
    /\ UNCHANGED <<rowVars, fence, guest, archive, stage, req, flags, pending, open, recovered, crashes>>

\* Slip: nothing is marked for keeping when the switch begins.
StageSwitchingUnpreserved ==
    /\ At("switching")
    /\ Staged("switching") /\ GoTo("switch")
    /\ UNCHANGED <<rowVars, fence, guest, archive, req, flags, pending, open, recovered, crashes>>

\* From here on both identities and the fence are kept on failure.
StageSwitching ==
    /\ At("switching")
    /\ preserve' = TRUE
    /\ \/ Staged("switching") /\ GoTo("switch")
       \/ Fault("write") /\ stage' \in {stage, [stage EXCEPT ![req.token] = "switching"]} /\ Fail
    /\ UNCHANGED <<rowVars, fence, guest, archive, req, imported, retain, pending, open, recovered, crashes>>

-----------------------------------------------------------------------------
(* Switch and source deletion *)

\* Slip: the switch already closes the migration's record.
SwitchedCompletes ==
    /\ owner' = Target
    /\ nat' = [a \in Agent |-> CASE a = Source /\ nat[a] = "live" -> "source"
                                 [] a = Target /\ nat[a] = "target" -> "live"
                                 [] OTHER -> nat[a]]
    /\ Staged("completed")

\* One transaction moves the row, and the forwardings with it.
Switched ==
    /\ owner' = Target
    /\ nat' = [a \in Agent |-> CASE a = Source /\ nat[a] = "live" -> "source"
                                 [] a = Target /\ nat[a] = "target" -> "live"
                                 [] OTHER -> nat[a]]
    /\ Staged("source_delete")

Switch ==
    /\ At("switch")
    /\ \/ Switched /\ GoTo("source_delete")
       \/ Fault("write") /\ Fail /\ (Switched \/ UNCHANGED <<owner, nat, stage>>)
    /\ UNCHANGED <<pool, fence, guest, archive, req, flags, pending, open, recovered, crashes>>

SendSourceDelete ==
    /\ At("source_delete")
    /\ \/ Sent(<<"delete", Source>>) /\ GoTo("await_source")
       \/ Fault("write") /\ Fail /\ UNCHANGED pending
    /\ UNCHANGED <<rowVars, fence, guest, archive, stage, req, flags, open, recovered, crashes>>

SourceDeleteReplies ==
    /\ At("await_source")
    /\ \/ <<"delete", Source>> \notin pending /\ GoTo("release")
       \/ Fault("call") /\ Fail
    /\ UNCHANGED <<rowVars, fence, guest, archive, stage, req, flags, pending, open, recovered, crashes>>

\* releaseMigrationReservations(switched): the source address and ports.
ReleasedSource ==
    /\ pool' = pool \ {Source}
    /\ nat' = [nat EXCEPT ![Source] = IF @ = "source" THEN "none" ELSE @]
    /\ Staged("completed")

Release ==
    /\ At("release")
    /\ \/ ReleasedSource /\ GoTo("remove")
       \/ Fault("write") /\ Fail /\ (ReleasedSource \/ UNCHANGED <<pool, nat, stage>>)
    /\ UNCHANGED <<owner, fence, guest, archive, req, flags, pending, open, recovered, crashes>>

\* The archive is removed; nothing needs to be kept any more.
RemoveArchive ==
    /\ At("remove")
    /\ \/ archive' = FALSE /\ preserve' = FALSE /\ GoTo("answer")
       \/ Fault("write") /\ Fail /\ UNCHANGED <<archive, preserve>>
    /\ UNCHANGED <<rowVars, fence, guest, stage, req, imported, retain, pending, open, recovered, crashes>>

\* The instance is read for the answer.
Answer ==
    /\ At("answer")
    /\ \/ GoTo("finish")
       \/ Fault("read") /\ Fail
    /\ UNCHANGED <<rowVars, fence, guest, archive, stage, req, flags, pending, open, recovered, crashes>>

-----------------------------------------------------------------------------
(* The deferred cleanup *)

\* Everything and the fence are kept; or the imported target is deleted first;
\* or only the reservations are undone.
Cleanup ==
    /\ At("undo")
    /\ \/ preserve /\ GoTo("keep") /\ UNCHANGED pending
       \/ ~preserve /\ imported /\ Sent(<<"delete", Target>>) /\ GoTo("await_target")
       \/ ~preserve /\ ~imported /\ GoTo("undo_reservations") /\ UNCHANGED pending
    /\ UNCHANGED <<rowVars, fence, guest, archive, stage, req, flags, open, recovered, crashes>>

Keep ==
    /\ At("keep")
    /\ retain' = TRUE
    /\ GoTo("finish")
    /\ UNCHANGED <<rowVars, fence, guest, archive, stage, req, imported, preserve, pending, open, recovered, crashes>>

\* Slip: a deletion that fails is only reported.
TargetDeleteForgiven ==
    /\ At("await_target")
    /\ \/ <<"delete", Target>> \notin pending
       \/ Fault("call")
    /\ GoTo("undo_reservations")
    /\ UNCHANGED <<rowVars, fence, guest, archive, stage, req, flags, pending, open, recovered, crashes>>

\* The target's deletion is answered, or fails: then the fence is kept.
TargetDeleteReplies ==
    /\ At("await_target")
    /\ \/ <<"delete", Target>> \notin pending /\ GoTo("undo_reservations") /\ UNCHANGED <<stage, retain>>
       \/ /\ Fault("call")
          /\ retain' = TRUE
          /\ Staged("target_cleanup_failed") \/ (Fault("write") /\ UNCHANGED stage)
          /\ GoTo("finish")
    /\ UNCHANGED <<rowVars, fence, guest, archive, req, imported, preserve, pending, open, recovered, crashes>>

\* Slip: the target address is forgotten.
UndoPortsOnly ==
    /\ At("undo_reservations")
    /\ nat' = [nat EXCEPT ![Target] = IF @ = "target" THEN "none" ELSE @]
    /\ GoTo("undo_record")
    /\ UNCHANGED <<pool, owner, fence, guest, archive, stage, req, flags, pending, open, recovered, crashes>>

\* releaseMigrationReservations(not switched): the target address and ports.
ReleasedTarget ==
    /\ pool' = IF req.pool THEN pool \ {Target} ELSE pool
    /\ nat' = [nat EXCEPT ![Target] = IF @ = "target" THEN "none" ELSE @]

UndoReservations ==
    /\ At("undo_reservations")
    /\ \/ ReleasedTarget /\ GoTo("undo_record") /\ UNCHANGED retain
       \/ /\ Fault("write")
          /\ retain' = TRUE /\ GoTo("finish")
          /\ ReleasedTarget \/ UNCHANGED <<pool, nat>>
    /\ UNCHANGED <<owner, fence, guest, archive, stage, req, imported, preserve, pending, open, recovered, crashes>>

\* The archive is removed and the record closed; failures are only reported.
UndoRecord ==
    /\ At("undo_record")
    /\ archive' = FALSE \/ (Fault("write") /\ UNCHANGED archive)
    /\ Staged("failed") \/ (Fault("write") /\ UNCHANGED stage)
    /\ GoTo("finish")
    /\ UNCHANGED <<rowVars, fence, guest, req, flags, pending, open, recovered, crashes>>

\* The guard's finish: the log is written and the record of the operation closed,
\* and the fence is released unless it is retained or one of the two fails.
Finish ==
    /\ At("finish")
    /\ \/ fence' = (IF retain THEN "stranded" ELSE "free") /\ open' = NoToken
       \/ Fault("write") /\ fence' = "stranded" /\ open' \in {open, NoToken}
    /\ GoTo("idle")
    /\ UNCHANGED <<rowVars, guest, archive, stage, req, flags, pending, recovered, crashes>>

-----------------------------------------------------------------------------
(* The process and its operator *)

Crash ==
    /\ Fault("crash") /\ crashes < MaxCrashes
    /\ crashes' = crashes + 1
    /\ fence' = IF fence = "held" THEN "stranded" ELSE fence
    /\ GoTo("idle")
    /\ UNCHANGED <<rowVars, guest, archive, stage, req, flags, pending, open, recovered>>

\* On the nodes, the operator removes what does not belong to the instance.
OperatorCleans(a) ==
    /\ fence = "stranded" /\ pending = {}
    /\ a \in guest \ {owner} /\ owner \in guest
    /\ guest' = guest \ {a}
    /\ UNCHANGED <<rowVars, fence, archive, stage, pc, req, flags, pending, open, recovered, crashes>>

\* Once the nodes match the row, busy_operation is cleared, and nothing else.
Recover ==
    /\ fence = "stranded" /\ pending = {} /\ guest = {owner}
    /\ fence' = "free"
    /\ recovered' = TRUE
    /\ UNCHANGED <<rowVars, guest, archive, stage, pc, req, flags, pending, open, crashes>>

-----------------------------------------------------------------------------
Step ==
    \/ Reserve \/ Export \/ StageImporting \/ SendImport \/ ImportReplies
    \/ Verify \/ StageSwitching \/ Switch \/ SendSourceDelete \/ SourceDeleteReplies
    \/ Release \/ RemoveArchive \/ Answer
    \/ Cleanup \/ Keep \/ TargetDeleteReplies \/ UndoReservations \/ UndoRecord \/ Finish

Next ==
    \/ \E t \in Token, a \in Agent, p \in BOOLEAN : Begin(t, a, p)
    \/ Retry
    \/ Step
    \/ \E c \in pending : NodeDoes(c)
    \/ Crash
    \/ \E a \in Agent : OperatorCleans(a)
    \/ Recover

Spec == Init /\ [][Next]_vars

-----------------------------------------------------------------------------
(* Properties *)

\* However the migration fails, some node holds the complete guest.
GuestSurvives == guest # {}

\* "dual start allowed": once anybody may operate on the instance again, its
\* guest is on the node the row names, there only, and no call that could
\* change this is still on its way.
OneGuestWhenFree == fence = "free" => guest = {owner} /\ pending = {}

\* Nothing leaks: between operations the instance has no address and no port on
\* a node it is not on, and still has its forwardings if it ever had any
\* (unless a fence had to be cleared by hand).
NothingLeaks ==
    fence = "free" /\ ~recovered =>
        /\ pool \subseteq {owner}
        /\ \A a \in Agent \ {owner} : nat[a] = "none"
        /\ nat[owner] \in {"live", "none"}

\* "the retained source runtime still needs that network": while a node other
\* than the row's holds a copy or may get one, a record that is not terminal
\* keeps the networks of both ends from being deleted.
NetworksReserved ==
    (guest \ {owner} # {} \/ pending # {}) => \E t \in Token : stage[t] \notin Terminal

-----------------------------------------------------------------------------
(* Refinement: the migration is one of the owners an exclusive fence knows. *)

Owner == CASE fence = "held" -> req.token
           [] fence = "stranded" -> "stranded"
           [] fence = "free" -> "nobody"

\* Copying and deleting the guest is the destructive work of a migration.
Danger == IF pending # {} THEN {req.token} ELSE {}

Fence == INSTANCE ExclusiveFence WITH
             Request <- Token, owner <- Owner, danger <- Danger,
             Nobody <- "nobody", Stranded <- "stranded", Gone <- "gone"

\* Whatever fails, and however often it is retried or recovered by hand, a
\* migration keeps the promise of the fence it runs under (beginInstanceOperation,
\* RetainFence): it enters a free fence, launches nothing on a node but as its
\* owner, and lets go only when nothing it launched can still be carried out.
KeepsTheFence == Fence!Spec

=============================================================================
