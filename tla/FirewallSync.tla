----------------------------- MODULE FirewallSync -----------------------------
(***************************************************************************)
(* The rules of security groups and of instances on their way from the     *)
(* database to the nodes: internal/service/security_group*.go, firewall.go *)
(* and the operations that carry an instance's rules with them.            *)
(*                                                                         *)
(* A group is edited without the fence of any instance.  The edit marks    *)
(* the instances that are bound to the group in its own transaction and    *)
(* then visits each one under its fence (OperationFence).  Transactions on *)
(* a group take its row lock first, by raising its revision.               *)
(*                                                                         *)
(* A call to the node is carried out before it is answered or given up.    *)
(***************************************************************************)
EXTENDS Naturals, FiniteSets

CONSTANTS
    Instance,
    Group,
    Request,  \* requests at work at the same time
    NoOne,    \* a fence or a lock that is free; the instance of a request without one
    Kept,     \* the fence of a request that died, until the operator clears it
    MaxEdit   \* bound: edits of rules, and rounds of binding per instance

ASSUME FirewallAssumption ==
    /\ NoOne \notin Request \cup Instance
    /\ Kept \notin Request \cup {NoOne}
    /\ MaxEdit \in Nat

VARIABLES
    status,    \* the instance's row: none, creating, stopped, running, error, purged
    bound,     \* instance_security_groups
    revision,  \* firewall_revision
    pending,   \* firewall_pending
    local,     \* firewall_rules, each rule by the edit that wrote it
    fence,     \* busy_operation
    group,     \* the rules of each group, each by the edit that wrote it
    exists,    \* the groups that are there
    lock,      \* the row lock of each group
    node,      \* the rules the node was last given for the instance
    req,       \* the requests
    edits,     \* counter: edits so far
    rewritten  \* history: groups that were given replaced rules back

instanceVars == <<status, bound, revision, pending, local>>
groupVars == <<group, exists, lock, edits, rewritten>>
vars == <<instanceVars, fence, groupVars, node, req>>

Version == 1..MaxEdit
Wires == [groups : UNION {[G -> SUBSET Version] : G \in SUBSET Group}, local : SUBSET Version]

\* The rules that go out with an instance (effectiveFirewall, toWireInstance).
Wire(i) == [groups |-> [g \in bound[i] |-> group[g]], local |-> local[i]]
NoRules == [groups |-> [g \in {} |-> {}], local |-> {}]

Kind == {"none", "edit", "remove", "bind", "create", "local", "start", "stop", "status", "purge"}
Step == {"idle", "write", "list", "each", "begin", "fenced", "lock", "read", "rules", "apply", "ack", "mark",
         "count", "delete", "send", "store"}
Idle == [kind |-> "none", step |-> "idle", inst |-> NoOne, groups |-> {}, rule |-> 0, rev |-> 0,
         seen |-> NoRules, todo |-> {}]

TypeOK ==
    /\ status \in [Instance -> {"none", "creating", "stopped", "running", "error", "purged"}]
    /\ bound \in [Instance -> SUBSET Group]
    /\ revision \in [Instance -> Nat]
    /\ pending \in [Instance -> BOOLEAN]
    /\ local \in [Instance -> SUBSET Version]
    /\ fence \in [Instance -> Request \cup {NoOne, Kept}]
    /\ group \in [Group -> SUBSET Version]
    /\ exists \subseteq Group
    /\ lock \in [Group -> Request \cup {NoOne}]
    /\ node \in [Instance -> Wires]
    /\ req \in [Request -> [kind : Kind, step : Step, inst : Instance \cup {NoOne}, groups : SUBSET Group,
                            rule : 0..MaxEdit, rev : Nat, seen : Wires, todo : SUBSET Instance]]
    /\ edits \in 0..MaxEdit
    /\ rewritten \subseteq Group

\* Groups without rules; instances that are stopped, or still to be created.
Init ==
    /\ status \in [Instance -> {"none", "stopped"}]
    /\ bound = [i \in Instance |-> {}]
    /\ revision = [i \in Instance |-> 0]
    /\ pending = [i \in Instance |-> FALSE]
    /\ local = [i \in Instance |-> {}]
    /\ fence = [i \in Instance |-> NoOne]
    /\ group = [g \in Group |-> {}]
    /\ exists = Group
    /\ lock = [g \in Group |-> NoOne]
    /\ node = [i \in Instance |-> NoRules]
    /\ req = [q \in Request |-> Idle]
    /\ edits = 0
    /\ rewritten = {}

-----------------------------------------------------------------------------
(* Helpers *)

At(q, s) == req[q].step = s
Go(q, s) == req' = [req EXCEPT ![q].step = s]
Becomes(q, r) == req' = [req EXCEPT ![q] = r]
Live(i) == status[i] \notin {"none", "purged"}
Editable(n) == edits < MaxEdit /\ n = edits + 1

\* The request has the locks of the groups E; and gives all of its own back.
Locks(q, E) == lock' = [g \in Group |-> IF g \in E THEN q ELSE lock[g]]
Unlocks(q) == lock' = [g \in Group |-> IF lock[g] = q THEN NoOne ELSE lock[g]]
Unlocked(E) == \A g \in E : lock[g] = NoOne

\* guard.finish, where the request has the fence; an edit of a group goes on to
\* the next instance.
Frees(q) == fence' = [i \in Instance |-> IF fence[i] = q THEN NoOne ELSE fence[i]]
Finish(q) ==
    /\ Frees(q)
    /\ Becomes(q, IF req[q].kind = "edit" THEN [Idle EXCEPT !.kind = "edit", !.step = "each", !.todo = req[q].todo]
                                          ELSE Idle)

\* markFirewallPending and markBoundFirewallsPending.
MarkPending(E) ==
    /\ pending' = [i \in Instance |-> i \in E \/ pending[i]]
    /\ revision' = [i \in Instance |-> IF i \in E THEN revision[i] + 1 ELSE revision[i]]

-----------------------------------------------------------------------------
(* Editing and deleting a group *)

\* UpdateSecurityGroup and ReplaceSecurityGroupRules take the group's row lock.
EditStart(q, g) ==
    /\ At(q, "idle") /\ g \in exists /\ Unlocked({g})
    /\ Locks(q, {g})
    /\ Becomes(q, [Idle EXCEPT !.kind = "edit", !.step = "write", !.groups = {g}])
    /\ UNCHANGED <<instanceVars, fence, group, exists, edits, rewritten, node>>

BoundTo(g) == {i \in Instance : g \in bound[i]}

\* ... write the rules, mark the bound instances and commit, or roll back.
EditWrite(q) ==
    /\ At(q, "write")
    /\ \/ \E g \in req[q].groups, n \in Version :
            /\ Editable(n)
            /\ group' = [group EXCEPT ![g] = {n}]
            /\ edits' = n
            /\ rewritten' = rewritten \ {g}
            /\ MarkPending(BoundTo(g))
            /\ Go(q, "list")
       \/ /\ Becomes(q, Idle)
          /\ UNCHANGED <<group, edits, rewritten, pending, revision>>
    /\ Unlocks(q)
    /\ UNCHANGED <<status, bound, local, fence, exists, node>>

\* syncSecurityGroup reads the bindings.
EditList(q) ==
    /\ At(q, "list")
    /\ \/ \E g \in req[q].groups :
            Becomes(q, [Idle EXCEPT !.kind = "edit", !.step = "each", !.todo = BoundTo(g)])
       \/ Becomes(q, Idle)
    /\ UNCHANGED <<instanceVars, fence, groupVars, node>>

\* The next instance's row is read, and passed over if that fails or it is not
\* running.  The order of the instances is left open.
EditEach(q) ==
    /\ At(q, "each")
    /\ \/ req[q].todo = {} /\ Becomes(q, Idle)
       \/ \E i \in req[q].todo : Becomes(q, [req[q] EXCEPT !.todo = @ \ {i}])
       \/ \E i \in req[q].todo :
            /\ status[i] = "running"
            /\ Becomes(q, [req[q] EXCEPT !.todo = @ \ {i}, !.inst = i, !.rev = revision[i], !.step = "begin"])
    /\ UNCHANGED <<instanceVars, fence, groupVars, node>>

\* It takes the instance's fence, or marks the instance with the revision it read.
EditBegin(q) ==
    /\ At(q, "begin") /\ req[q].kind = "edit"
    /\ \/ /\ fence[req[q].inst] = NoOne
          /\ fence' = [fence EXCEPT ![req[q].inst] = q]
          /\ Becomes(q, [req[q] EXCEPT !.step = "read", !.rev = 0])
       \/ Go(q, "mark") /\ UNCHANGED fence
    /\ UNCHANGED <<instanceVars, groupVars, node>>

\* DeleteSecurityGroup: the lock, the count of bindings, the deletion.
DeleteStart(q, g) ==
    /\ At(q, "idle") /\ g \in exists /\ Unlocked({g})
    /\ Locks(q, {g})
    /\ Becomes(q, [Idle EXCEPT !.kind = "remove", !.step = "count", !.groups = {g}])
    /\ UNCHANGED <<instanceVars, fence, group, exists, edits, rewritten, node>>

DeleteCount(q) ==
    /\ At(q, "count")
    /\ \/ (\A g \in req[q].groups : BoundTo(g) = {}) /\ Go(q, "delete") /\ UNCHANGED lock
       \/ Becomes(q, Idle) /\ Unlocks(q)
    /\ UNCHANGED <<instanceVars, fence, group, exists, edits, rewritten, node>>

DeleteWrite(q) ==
    /\ At(q, "delete")
    /\ \/ exists' = exists \ req[q].groups
       \/ UNCHANGED exists
    /\ Becomes(q, Idle) /\ Unlocks(q)
    /\ UNCHANGED <<instanceVars, fence, group, edits, rewritten, node>>

-----------------------------------------------------------------------------
(* Binding: SetInstanceSecurityGroups and CreateInstance *)

BindStart(q, i, G) ==
    /\ At(q, "idle") /\ Live(i) /\ fence[i] = NoOne /\ revision[i] < MaxEdit
    /\ fence' = [fence EXCEPT ![i] = q]
    /\ Becomes(q, [Idle EXCEPT !.kind = "bind", !.step = "lock", !.inst = i, !.groups = G])
    /\ UNCHANGED <<instanceVars, groupVars, node>>

CreateStart(q, i, G) ==
    /\ At(q, "idle") /\ status[i] = "none" /\ \A p \in Request : req[p].inst # i
    /\ Becomes(q, [Idle EXCEPT !.kind = "create", !.step = "lock", !.inst = i, !.groups = G])
    /\ UNCHANGED <<instanceVars, fence, groupVars, node>>

\* Slip: the groups are looked up, their rows not locked.
BindLockFree(q) ==
    /\ At(q, "lock")
    /\ \/ req[q].groups \subseteq exists /\ Go(q, "fenced") /\ UNCHANGED fence
       \/ Finish(q)
    /\ UNCHANGED <<instanceVars, groupVars, node>>

\* bindSecurityGroups locks the groups in the order of their ids; all must be there.
BindLock(q) ==
    /\ At(q, "lock")
    /\ \/ /\ req[q].groups \subseteq exists /\ Unlocked(req[q].groups)
          /\ Locks(q, req[q].groups)
          /\ Go(q, "fenced")
          /\ UNCHANGED fence
       \/ Finish(q) /\ UNCHANGED lock
    /\ UNCHANGED <<instanceVars, group, exists, edits, rewritten, node>>

\* ... writes the bindings, marks the instance and commits, or rolls back.
BindWrite(q) ==
    /\ At(q, "fenced") /\ req[q].kind = "bind"
    /\ \/ /\ bound' = [bound EXCEPT ![req[q].inst] = req[q].groups]
          /\ MarkPending({req[q].inst})
          /\ Becomes(q, [req[q] EXCEPT !.step = "read", !.groups = {}])
          /\ UNCHANGED fence
       \/ Finish(q) /\ UNCHANGED <<bound, pending, revision>>
    /\ Unlocks(q)
    /\ UNCHANGED <<status, local, group, exists, edits, rewritten, node>>

\* CreateInstance does the same in the transaction that inserts the row with its
\* fence, and reads back what it will send.
CreateWrite(q) ==
    /\ At(q, "fenced") /\ req[q].kind = "create"
    /\ LET i == req[q].inst
           G == req[q].groups
       IN  \/ /\ status' = [status EXCEPT ![i] = "creating"]
              /\ bound' = [bound EXCEPT ![i] = G]
              /\ MarkPending(IF G = {} THEN {} ELSE {i})
              /\ fence' = [fence EXCEPT ![i] = q]
              /\ Becomes(q, [req[q] EXCEPT !.step = "send", !.groups = {},
                                           !.seen = [NoRules EXCEPT !.groups = [g \in G |-> group[g]]]])
           \/ Finish(q) /\ UNCHANGED <<status, bound, pending, revision>>
    /\ Unlocks(q)
    /\ UNCHANGED <<local, group, exists, edits, rewritten, node>>

-----------------------------------------------------------------------------
(* The rules of one instance: CreateFirewall, UpdateFirewall, DeleteFirewall *)

\* A new rule takes the fence at once; an old one is looked up first.
LocalStart(q, i) ==
    /\ At(q, "idle") /\ Live(i)
    /\ \/ /\ fence[i] = NoOne
          /\ fence' = [fence EXCEPT ![i] = q]
          /\ Becomes(q, [Idle EXCEPT !.kind = "local", !.step = "fenced", !.inst = i])
       \/ /\ \E v \in local[i] :
               Becomes(q, [Idle EXCEPT !.kind = "local", !.step = "begin", !.inst = i, !.rule = v])
          /\ UNCHANGED fence
    /\ UNCHANGED <<instanceVars, groupVars, node>>

\* Slip: the fence is not taken again after the rule was looked up.
LocalBeginUnfenced(q) ==
    /\ At(q, "begin") /\ req[q].kind = "local"
    /\ Go(q, "fenced")
    /\ UNCHANGED <<instanceVars, fence, groupVars, node>>

LocalBegin(q) ==
    /\ At(q, "begin") /\ req[q].kind = "local"
    /\ \/ /\ Live(req[q].inst) /\ fence[req[q].inst] = NoOne
          /\ fence' = [fence EXCEPT ![req[q].inst] = q]
          /\ Go(q, "fenced")
       \/ Becomes(q, Idle) /\ UNCHANGED fence
    /\ UNCHANGED <<instanceVars, groupVars, node>>

\* A rule is added, saved or deleted.  Saving one that was deleted since it was
\* looked up inserts it again.
LocalWrite(q) ==
    /\ At(q, "fenced") /\ req[q].kind = "local"
    /\ LET i == req[q].inst
           others == local[i] \ {req[q].rule}
       IN  \/ \E n \in Version :
                /\ Editable(n)
                /\ edits' = n
                /\ local' = [local EXCEPT ![i] = others \cup {n}]
                /\ Becomes(q, [req[q] EXCEPT !.step = "read", !.rule = 0])
                /\ UNCHANGED fence
           \/ /\ req[q].rule # 0
              /\ local' = [local EXCEPT ![i] = others]
              /\ Becomes(q, [req[q] EXCEPT !.step = "read", !.rule = 0])
              /\ UNCHANGED <<edits, fence>>
           \/ Finish(q) /\ UNCHANGED <<local, edits>>
    /\ UNCHANGED <<status, bound, revision, pending, group, exists, lock, rewritten, node>>

-----------------------------------------------------------------------------
(* syncFirewallIfRunning, under the instance's fence *)

\* The row is read first, with its revision, ...
SyncRead(q) ==
    /\ At(q, "read")
    /\ \/ /\ status[req[q].inst] = "running"
          /\ Becomes(q, [req[q] EXCEPT !.step = "rules", !.rev = revision[req[q].inst]])
          /\ UNCHANGED fence
       \/ Finish(q)
    /\ UNCHANGED <<instanceVars, groupVars, node>>

\* ... and then the bindings, the groups and the rules.
SyncRules(q) ==
    /\ At(q, "rules")
    /\ Becomes(q, [req[q] EXCEPT !.step = "apply", !.seen = Wire(req[q].inst)])
    /\ UNCHANGED <<instanceVars, fence, groupVars, node>>

\* The node gets all of the instance's rules; a failed call may have done so too.
SyncApply(q) ==
    /\ At(q, "apply")
    /\ \E ok, done \in BOOLEAN :
         /\ ok => done
         /\ node' = IF done THEN [node EXCEPT ![req[q].inst] = req[q].seen] ELSE node
         /\ Becomes(q, [req[q] EXCEPT !.step = IF ok THEN "ack" ELSE "mark", !.seen = NoRules])
    /\ UNCHANGED <<instanceVars, fence, groupVars>>

\* Slip: the mark is taken off whatever the revision is by now.
SyncAckAnyway(q) ==
    /\ At(q, "ack")
    /\ pending' = [pending EXCEPT ![req[q].inst] = FALSE]
    /\ Finish(q)
    /\ UNCHANGED <<status, bound, revision, local, groupVars, node>>

\* The mark is taken off if the revision is still the one that was read.
SyncAck(q) ==
    /\ At(q, "ack")
    /\ \/ revision[req[q].inst] = req[q].rev /\ pending' = [pending EXCEPT ![req[q].inst] = FALSE]
       \/ UNCHANGED pending
    /\ Finish(q)
    /\ UNCHANGED <<status, bound, revision, local, groupVars, node>>

\* firewallSyncFailed marks the instance again, for the revision that was read.
SyncMark(q) ==
    /\ At(q, "mark")
    /\ \/ revision[req[q].inst] = req[q].rev /\ Live(req[q].inst)
          /\ pending' = [pending EXCEPT ![req[q].inst] = TRUE]
       \/ UNCHANGED pending
    /\ Finish(q)
    /\ UNCHANGED <<status, bound, revision, local, groupVars, node>>

-----------------------------------------------------------------------------
(* Operations that read an instance with its rules, call the node and store *)
(* the answer in its row: CreateInstance, PowerInstance, RefreshStatus      *)

PowerStart(q, i, kind) ==
    /\ At(q, "idle") /\ Live(i) /\ fence[i] = NoOne
    /\ fence' = [fence EXCEPT ![i] = q]
    /\ Becomes(q, [Idle EXCEPT !.kind = kind, !.step = "fenced", !.inst = i])
    /\ UNCHANGED <<instanceVars, groupVars, node>>

PowerRead(q) ==
    /\ At(q, "fenced") /\ req[q].kind \in {"start", "stop", "status"}
    /\ \/ /\ Becomes(q, [req[q] EXCEPT !.step = "send", !.seen = Wire(req[q].inst)])
          /\ UNCHANGED fence
       \/ Finish(q)
    /\ UNCHANGED <<instanceVars, groupVars, node>>

\* A guest starts with the rules it is sent, or the call had no effect.
Send(q) ==
    /\ At(q, "send")
    /\ node' \in {node, [node EXCEPT ![req[q].inst] = IF req[q].kind \in {"create", "start"} THEN req[q].seen ELSE @]}
    /\ Go(q, "store")
    /\ UNCHANGED <<instanceVars, fence, groupVars>>

Seen(q, g) == IF g \in DOMAIN req[q].seen.groups THEN req[q].seen.groups[g] ELSE {}

\* The row's status.  The update goes through the instance as it was read, and
\* inserts the rules that its groups have lost since.
Store(q) ==
    /\ At(q, "store")
    /\ \/ /\ Unlocked(DOMAIN req[q].seen.groups)
          /\ \E s \in {"stopped", "running", "error"} : status' = [status EXCEPT ![req[q].inst] = s]
          /\ group' = [g \in Group |-> group[g] \cup Seen(q, g)]
          /\ rewritten' = rewritten \cup {g \in Group : ~(Seen(q, g) \subseteq group[g])}
       \/ UNCHANGED <<status, group, rewritten>>
    /\ Finish(q)
    /\ UNCHANGED <<bound, revision, pending, local, exists, lock, edits, node>>

\* PurgeInstance: the last transaction.
PurgeWrite(q) ==
    /\ At(q, "fenced") /\ req[q].kind = "purge"
    /\ \/ /\ status' = [status EXCEPT ![req[q].inst] = "purged"]
          /\ bound' = [bound EXCEPT ![req[q].inst] = {}]
          /\ local' = [local EXCEPT ![req[q].inst] = {}]
       \/ UNCHANGED <<status, bound, local>>
    /\ Finish(q)
    /\ UNCHANGED <<revision, pending, groupVars, node>>

-----------------------------------------------------------------------------
(* Failures *)

\* The process stops: a transaction is rolled back, a fence stays.
Crash(q) ==
    /\ ~At(q, "idle")
    /\ fence' = [i \in Instance |-> IF fence[i] = q THEN Kept ELSE fence[i]]
    /\ Unlocks(q)
    /\ Becomes(q, Idle)
    /\ UNCHANGED <<instanceVars, group, exists, edits, rewritten, node>>

\* The operator clears the fence.
Recover(i) ==
    /\ fence[i] = Kept
    /\ fence' = [fence EXCEPT ![i] = NoOne]
    /\ UNCHANGED <<instanceVars, groupVars, node, req>>

-----------------------------------------------------------------------------

Edit == \E q \in Request :
    \/ \E g \in Group : EditStart(q, g) \/ DeleteStart(q, g)
    \/ EditWrite(q) \/ EditList(q) \/ EditEach(q) \/ EditBegin(q)
    \/ DeleteCount(q) \/ DeleteWrite(q)
Bind == \E q \in Request :
    \/ \E i \in Instance, G \in SUBSET Group : BindStart(q, i, G) \/ CreateStart(q, i, G)
    \/ BindLock(q) \/ BindWrite(q) \/ CreateWrite(q)
LocalEdit == \E q \in Request : (\E i \in Instance : LocalStart(q, i)) \/ LocalBegin(q) \/ LocalWrite(q)
Sync == \E q \in Request : SyncRead(q) \/ SyncRules(q) \/ SyncApply(q) \/ SyncAck(q) \/ SyncMark(q)
Operate == \E q \in Request :
    \/ \E i \in Instance, k \in {"start", "stop", "status", "purge"} : PowerStart(q, i, k)
    \/ PowerRead(q) \/ Send(q) \/ Store(q) \/ PurgeWrite(q)
Fail == (\E q \in Request : Crash(q)) \/ (\E i \in Instance : Recover(i))

Next == Edit \/ Bind \/ LocalEdit \/ Sync \/ Operate \/ Fail
Spec == Init /\ [][Next]_vars

-----------------------------------------------------------------------------
(* Properties *)

\* No instance is bound to a group that has been deleted, however the deletion
\* and the binding interleave (DeleteSecurityGroup, bindSecurityGroups).
NoDanglingBinding == \A i \in Instance : bound[i] \subseteq exists

\* A running instance that is not marked pending and that no operation holds
\* runs the present rules of its groups: an edit or a binding is never taken for
\* applied by a call that carried older rules (markBoundFirewallsPending,
\* syncFirewallIfRunning).  Groups that a stale update gave rules back are left
\* out until they are edited again.
GroupRulesApplied ==
    \A i \in Instance :
        status[i] = "running" /\ fence[i] = NoOne /\ ~pending[i] /\ bound[i] \cap rewritten = {}
            => node[i].groups = Wire(i).groups

\* When an edit of an instance's own rules has reached the node, the node has
\* exactly the rules of the database: no other request changes either before the
\* fence is released (CreateFirewall, UpdateFirewall, DeleteFirewall).
LocalEditApplied ==
    \A q \in Request : At(q, "ack") /\ req[q].kind = "local" =>
        node[req[q].inst].local = local[req[q].inst]

=============================================================================
