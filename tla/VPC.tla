---------------------------------- MODULE VPC ----------------------------------
(***************************************************************************)
(* The private network of one name on ONE node: its row                    *)
(* (internal/service/vpc.go) and the instances that refer to it            *)
(* (CreateInstance, MigrateInstance, PurgeInstance).                       *)
(*                                                                         *)
(* A row is reserved before the node is asked for the network and taken    *)
(* out of use before the node is asked to remove it.  References are       *)
(* inserted in a transaction that updates the row on condition that it is  *)
(* available; a deletion counts them in the transaction that marks it.     *)
(*                                                                         *)
(* A call to the node is carried out before it is answered or given up,    *)
(* and a statement that fails has not been applied.                        *)
(***************************************************************************)
EXTENDS FiniteSets

CONSTANTS
    Row,       \* ids of rows with this name, each inserted once
    NoRow,
    Unknown,   \* source_vpc_id NULL in a migration away from this node
    Instance,  \* ids of instances, each created once
    Admin      \* requests that create or delete the network at the same time

ASSUME VPCAssumption ==
    /\ NoRow \notin Row /\ Unknown \notin Row /\ NoRow # Unknown

VARIABLES
    state,    \* vpcs.state by id
    network,  \* the network is on the node
    ref,      \* instances.vpc_id, for this node's rows
    life,     \* the instance's row: "none", "row" or "purged"
    guest,    \* the instances whose guest is attached to the network
    pins,     \* open migration records that name this node's network
    op,       \* the operation that holds the instance's fence
    req       \* the requests of administrators

instanceVars == <<ref, life, guest, pins, op>>
vars == <<state, network, instanceVars, req>>

State == {"none", "creating", "available", "error", "deleting", "deleted"}
InUse == {"creating", "available", "error", "deleting"}
Pin == [instance : Instance, source : Row \cup {NoRow, Unknown}, target : Row \cup {NoRow}]
Idle == [step |-> "idle", row |-> NoRow]
Step == {"idle", "create_reserve", "create_call", "purge_call", "purge_release",
         "in_reserve", "in_import", "in_switch", "in_finish", "in_undo", "in_close",
         "out_reserve", "out_switch", "out_delete", "out_close", "kept"}
RequestStep == {"idle", "create_call", "create_store", "create_undo", "create_forget",
                "delete_mark", "delete_call", "delete_forget"}

TypeOK ==
    /\ state \in [Row -> State]
    /\ network \in BOOLEAN
    /\ ref \in [Instance -> Row \cup {NoRow}]
    /\ life \in [Instance -> {"none", "row", "purged"}]
    /\ guest \subseteq Instance
    /\ pins \subseteq Pin
    /\ op \in [Instance -> [step : Step, row : Row \cup {NoRow}]]
    /\ req \in [Admin -> [step : RequestStep, row : Row \cup {NoRow}]]

\* Nothing yet; or a network with the suspended source guest of a migration that
\* was recorded before source_vpc_id existed and still has the fence.
Init ==
    /\ ref = [i \in Instance |-> NoRow]
    /\ req = [a \in Admin |-> Idle]
    /\ \/ /\ state = [r \in Row |-> "none"] /\ network = FALSE
          /\ life \in [Instance -> {"none", "row"}] /\ guest = {} /\ pins = {}
          /\ op = [i \in Instance |-> Idle]
       \/ \E r \in Row, i \in Instance :
            /\ state = [s \in Row |-> IF s = r THEN "available" ELSE "none"] /\ network = TRUE
            /\ life = [j \in Instance |-> IF j = i THEN "row" ELSE "none"] /\ guest = {i}
            /\ pins = {[instance |-> i, source |-> Unknown, target |-> NoRow]}
            /\ op = [j \in Instance |-> [step |-> IF j = i THEN "kept" ELSE "idle", row |-> NoRow]]

-----------------------------------------------------------------------------
(* Helpers *)

At(i, s) == op[i].step = s
Moves(i, s, r) == op' = [op EXCEPT ![i] = [step |-> s, row |-> r]]
Go(i, s) == Moves(i, s, op[i].row)
Ends(i) == Moves(i, "idle", NoRow)
Keeps(i) == Moves(i, "kept", NoRow)  \* the fence, for the operator
AdminAt(a, s) == req[a].step = s
Asks(a, s, r) == req' = [req EXCEPT ![a] = [step |-> s, row |-> r]]
AdminGo(a, s) == Asks(a, s, req[a].row)
AdminEnds(a) == Asks(a, "idle", NoRow)

\* What a call leaves that should make P true of the node, or P false.
Attached(i, ok) == IF ok THEN guest' = guest \cup {i} ELSE guest' \in {guest, guest \cup {i}}
Detached(i, ok) == IF ok THEN guest' = guest \ {i} ELSE guest' \in {guest, guest \ {i}}
NetworkMade(ok) == IF ok THEN network' = TRUE ELSE network' \in {network, TRUE}
NetworkRemoved(ok) == IF ok THEN network' = FALSE ELSE network' \in {network, FALSE}

\* GetVPC finds the row, in whatever state.
GetVPC(r) == state[r] \in InUse

\* Slip: any row will do.
ReservableIfFound(r) == GetVPC(r)

\* reserveVPCReference, in the transaction that inserts the reference.
Reservable(r) == state[r] = "available"

\* Slip: the name is only taken by a network that is available.
NameFreeUntilAvailable == \A r \in Row : state[r] # "available"

\* A row of this name may be inserted: the index on node and name is unique.
NameFree == \A r \in Row : ~GetVPC(r)

\* Slip: sources of migrations are not counted.
ReferencedByRowsAndTargets(r) ==
    (\E i \in Instance : ref[i] = r) \/ (\E p \in pins : p.target = r)

\* DeleteVPC's counts: instances, targets and sources of open migrations, and
\* open migrations away from the node that do not say which network they leave.
Referenced(r) ==
    \/ \E i \in Instance : ref[i] = r
    \/ \E p \in pins : p.target = r \/ p.source \in {r, Unknown}

-----------------------------------------------------------------------------
(* CreateVPC *)

\* The row is inserted before the node is asked; a second creator is refused.
CreateVPC(a, r) ==
    /\ AdminAt(a, "idle")
    /\ state[r] = "none" /\ NameFree
    /\ state' = [state EXCEPT ![r] = "creating"]
    /\ Asks(a, "create_call", r)
    /\ UNCHANGED <<network, instanceVars>>

\* Without an answer the network may be there: the row is kept as an error, or
\* as it is when that update fails too.
CreateNetwork(a) ==
    /\ AdminAt(a, "create_call")
    /\ \/ NetworkMade(TRUE) /\ AdminGo(a, "create_store") /\ UNCHANGED state
       \/ /\ NetworkMade(FALSE)
          /\ state' \in {state, [state EXCEPT ![req[a].row] = "error"]}
          /\ AdminEnds(a)
    /\ UNCHANGED instanceVars

CreateStore(a) ==
    /\ AdminAt(a, "create_store")
    /\ \/ state' = [state EXCEPT ![req[a].row] = "available"] /\ AdminEnds(a)
       \/ AdminGo(a, "create_undo") /\ UNCHANGED state
    /\ UNCHANGED <<network, instanceVars>>

\* The row could not be made available: the network is removed again.
CreateUndo(a) ==
    /\ AdminAt(a, "create_undo")
    /\ \/ NetworkRemoved(TRUE) /\ AdminGo(a, "create_forget") /\ UNCHANGED state
       \/ /\ NetworkRemoved(FALSE)
          /\ state' \in {state, [state EXCEPT ![req[a].row] = "error"]}
          /\ AdminEnds(a)
    /\ UNCHANGED instanceVars

CreateForget(a) ==
    /\ AdminAt(a, "create_forget")
    /\ state' \in {state, [state EXCEPT ![req[a].row] = "deleted"]}
    /\ AdminEnds(a)
    /\ UNCHANGED <<network, instanceVars>>

-----------------------------------------------------------------------------
(* DeleteVPC *)

DeleteVPC(a, r) ==
    /\ AdminAt(a, "idle") /\ GetVPC(r)
    /\ Asks(a, "delete_mark", r)
    /\ UNCHANGED <<state, network, instanceVars>>

\* The transaction: the row leaves the states that can be deleted, unless
\* something refers to it.
DeleteMark(a) ==
    /\ AdminAt(a, "delete_mark")
    /\ \/ /\ state[req[a].row] \in {"available", "error"} /\ ~Referenced(req[a].row)
          /\ state' = [state EXCEPT ![req[a].row] = "deleting"]
          /\ AdminGo(a, "delete_call")
       \/ AdminEnds(a) /\ UNCHANGED state
    /\ UNCHANGED <<network, instanceVars>>

DeleteNetwork(a) ==
    /\ AdminAt(a, "delete_call")
    /\ \/ NetworkRemoved(TRUE) /\ AdminGo(a, "delete_forget") /\ UNCHANGED state
       \/ /\ NetworkRemoved(FALSE)
          /\ state' \in {state, [state EXCEPT ![req[a].row] = "error"]}
          /\ AdminEnds(a)
    /\ UNCHANGED instanceVars

DeleteForget(a) ==
    /\ AdminAt(a, "delete_forget")
    /\ state' \in {state, [state EXCEPT ![req[a].row] = "error"], [state EXCEPT ![req[a].row] = "deleted"]}
    /\ AdminEnds(a)
    /\ UNCHANGED <<network, instanceVars>>

-----------------------------------------------------------------------------
(* Instances: CreateInstance and PurgeInstance *)

CreateStart(i, r) ==
    /\ life[i] = "none" /\ At(i, "idle") /\ GetVPC(r)
    /\ Moves(i, "create_reserve", r)
    /\ UNCHANGED <<state, network, ref, life, guest, pins, req>>

\* The transaction inserts the instance's row with its reference.
CreateReserve(i) ==
    /\ At(i, "create_reserve")
    /\ \/ /\ Reservable(op[i].row)
          /\ ref' = [ref EXCEPT ![i] = op[i].row]
          /\ life' = [life EXCEPT ![i] = "row"]
          /\ Go(i, "create_call")
       \/ Ends(i) /\ UNCHANGED <<ref, life>>
    /\ UNCHANGED <<state, network, guest, pins, req>>

CreateCall(i) ==
    /\ At(i, "create_call")
    /\ \E ok \in BOOLEAN : Attached(i, ok)
    /\ Ends(i)
    /\ UNCHANGED <<state, network, ref, life, pins, req>>

PurgeStart(i) ==
    /\ life[i] = "row" /\ At(i, "idle")
    /\ Go(i, "purge_call")
    /\ UNCHANGED <<state, network, ref, life, guest, pins, req>>

\* The node of the instance's row deletes its guest.
PurgeCall(i) ==
    /\ At(i, "purge_call")
    /\ \E ok \in BOOLEAN :
         /\ IF ref[i] # NoRow THEN Detached(i, ok) ELSE UNCHANGED guest
         /\ IF ok THEN Go(i, "purge_release") ELSE Ends(i)
    /\ UNCHANGED <<state, network, ref, life, pins, req>>

\* The row goes, and the reference with it.
PurgeRelease(i) ==
    /\ At(i, "purge_release")
    /\ \/ ref' = [ref EXCEPT ![i] = NoRow] /\ life' = [life EXCEPT ![i] = "purged"]
       \/ UNCHANGED <<ref, life>>
    /\ Ends(i)
    /\ UNCHANGED <<state, network, guest, pins, req>>

-----------------------------------------------------------------------------
(* Instances: MigrateInstance into the network *)

InStart(i, r) ==
    /\ life[i] = "row" /\ ref[i] = NoRow /\ At(i, "idle") /\ GetVPC(r)
    /\ i \notin guest
    /\ Moves(i, "in_reserve", r)
    /\ UNCHANGED <<state, network, ref, life, guest, pins, req>>

InPin(i) == [instance |-> i, source |-> NoRow, target |-> op[i].row]

\* The transaction reserves the network and inserts the migration record.
InReserve(i) ==
    /\ At(i, "in_reserve")
    /\ \/ Reservable(op[i].row) /\ pins' = pins \cup {InPin(i)} /\ Go(i, "in_import")
       \/ Ends(i) /\ UNCHANGED pins
    /\ UNCHANGED <<state, network, ref, life, guest, req>>

\* The export fails; or the guest arrives; or nobody knows.
InImport(i) ==
    /\ At(i, "in_import")
    /\ \/ Go(i, "in_close") /\ UNCHANGED guest
       \/ Attached(i, TRUE) /\ Go(i, "in_switch")
       \/ Attached(i, FALSE) /\ Keeps(i)
    /\ UNCHANGED <<state, network, ref, life, pins, req>>

\* The row is switched; or the check fails and the guest is to go again; or the
\* switch fails.
InSwitch(i) ==
    /\ At(i, "in_switch")
    /\ \/ ref' = [ref EXCEPT ![i] = op[i].row] /\ (Go(i, "in_finish") \/ Keeps(i))
       \/ (Go(i, "in_undo") \/ Keeps(i)) /\ UNCHANGED ref
    /\ UNCHANGED <<state, network, life, guest, pins, req>>

\* The source is deleted and the record completed, or everything is kept.  When
\* only the last read fails, the cleanup takes the migration for failed.
InFinish(i) ==
    /\ At(i, "in_finish")
    /\ \/ pins' = pins \ {InPin(i)} /\ (Ends(i) \/ Keeps(i) \/ Go(i, "in_undo"))
       \/ Keeps(i) /\ UNCHANGED pins
    /\ UNCHANGED <<state, network, ref, life, guest, req>>

\* A record that cannot be closed because the guest is still there is open again.
InUndo(i) ==
    /\ At(i, "in_undo")
    /\ \/ Detached(i, TRUE) /\ Go(i, "in_close") /\ UNCHANGED pins
       \/ Detached(i, FALSE) /\ Keeps(i) /\ pins' \in {pins, pins \cup {InPin(i)}}
    /\ UNCHANGED <<state, network, ref, life, req>>

\* The record becomes failed; or its reservations or that update fail.
InClose(i) ==
    /\ At(i, "in_close")
    /\ \/ pins' = pins \ {InPin(i)} /\ Ends(i)
       \/ UNCHANGED pins /\ (Ends(i) \/ Keeps(i))
    /\ UNCHANGED <<state, network, ref, life, guest, req>>

-----------------------------------------------------------------------------
(* Instances: MigrateInstance out of the network *)

OutStart(i) ==
    /\ life[i] = "row" /\ ref[i] # NoRow /\ i \in guest /\ At(i, "idle")
    /\ Moves(i, "out_reserve", ref[i])
    /\ UNCHANGED <<state, network, ref, life, guest, pins, req>>

OutPin(i) == [instance |-> i, source |-> op[i].row, target |-> NoRow]

OutReserve(i) ==
    /\ At(i, "out_reserve")
    /\ \/ pins' = pins \cup {OutPin(i)} /\ Go(i, "out_switch")
       \/ Ends(i) /\ UNCHANGED pins
    /\ UNCHANGED <<state, network, ref, life, guest, req>>

\* The row leaves the network while the guest is still there; or the migration
\* fails before, and is undone or kept.
OutSwitch(i) ==
    /\ At(i, "out_switch")
    /\ \/ ref' = [ref EXCEPT ![i] = NoRow] /\ (Go(i, "out_delete") \/ Keeps(i))
       \/ (Go(i, "out_close") \/ Keeps(i)) /\ UNCHANGED ref
    /\ UNCHANGED <<state, network, life, guest, pins, req>>

OutDelete(i) ==
    /\ At(i, "out_delete")
    /\ \/ Detached(i, TRUE) /\ Go(i, "out_close")
       \/ Detached(i, FALSE) /\ Keeps(i)
    /\ UNCHANGED <<state, network, ref, life, pins, req>>

\* The record becomes completed or failed; or it stays open.
OutClose(i) ==
    /\ At(i, "out_close")
    /\ \/ pins' = pins \ {OutPin(i)} /\ (Ends(i) \/ Keeps(i))
       \/ UNCHANGED pins /\ (Ends(i) \/ Keeps(i))
    /\ UNCHANGED <<state, network, ref, life, guest, req>>

-----------------------------------------------------------------------------
(* Failures *)

\* The process stops in the middle of a request: nobody continues it.
AdminDies(a) ==
    /\ ~AdminAt(a, "idle")
    /\ AdminEnds(a)
    /\ UNCHANGED <<state, network, instanceVars>>

Crash(i) ==
    /\ op[i].step \notin {"idle", "kept"}
    /\ Keeps(i)
    /\ UNCHANGED <<state, network, ref, life, guest, pins, req>>

\* The operator verifies the node and clears the fence: a guest whose row is not
\* in the network is removed; records are not touched.
Recover(i) ==
    /\ At(i, "kept")
    /\ guest' = IF ref[i] = NoRow THEN guest \ {i} ELSE guest
    /\ Ends(i)
    /\ UNCHANGED <<state, network, ref, life, pins, req>>

-----------------------------------------------------------------------------

Administer == \E a \in Admin :
    \/ \E r \in Row : CreateVPC(a, r) \/ DeleteVPC(a, r)
    \/ CreateNetwork(a) \/ CreateStore(a) \/ CreateUndo(a) \/ CreateForget(a)
    \/ DeleteMark(a) \/ DeleteNetwork(a) \/ DeleteForget(a) \/ AdminDies(a)
Create == \E i \in Instance : (\E r \in Row : CreateStart(i, r)) \/ CreateReserve(i) \/ CreateCall(i)
Purge == \E i \in Instance : PurgeStart(i) \/ PurgeCall(i) \/ PurgeRelease(i)
MoveIn == \E i \in Instance :
    (\E r \in Row : InStart(i, r)) \/ InReserve(i) \/ InImport(i) \/ InSwitch(i) \/ InFinish(i) \/ InUndo(i) \/ InClose(i)
MoveOut == \E i \in Instance :
    OutStart(i) \/ OutReserve(i) \/ OutSwitch(i) \/ OutDelete(i) \/ OutClose(i)
Fail == \E i \in Instance : Crash(i) \/ Recover(i)

Next == Administer \/ Create \/ Purge \/ MoveIn \/ MoveOut \/ Fail
Spec == Init /\ [][Next]_vars

-----------------------------------------------------------------------------
(* Properties *)

\* Whoever refers to the network, an instance's row or an open migration into
\* it, refers to a row that is available: a deletion and a new reference never
\* both pass their checks (DeleteVPC, reserveVPCReference).
ReferencedIsAvailable ==
    /\ \A i \in Instance : ref[i] # NoRow => state[ref[i]] = "available"
    /\ \A p \in pins : p.target # NoRow => state[p.target] = "available"

\* A guest on the network keeps it, although its row may have left and the
\* migration that took it away been cut short: no deletion, and no creation of
\* the same name that fails, takes the network from under a guest.
GuestKeepsNetwork == guest # {} => network

\* What is offered to callers is on the node: the loser of two creations of one
\* name does not remove the winner's network.
AvailableIsOnNode == \A r \in Row : state[r] = "available" => network

\* A network on the node has a row, available or for an administrator to delete
\* again: no failure loses it.
NetworkHasRow == network => \E r \in Row : GetVPC(r)

-----------------------------------------------------------------------------
(* The inductive invariant *)

Creating == {"create_call", "create_store", "create_undo", "create_forget"}
Deleting == {"delete_call", "delete_forget"}

\* The name has one row at a time.
OneRow == \A r, s \in Row : GetVPC(r) /\ GetVPC(s) => r = s

\* What an administrator's request knows of its row and of the network.
RequestFacts(a) ==
    /\ req[a].step # "idle" => req[a].row \in Row
    /\ req[a].step \in Creating => state[req[a].row] = "creating"
    /\ req[a].step \in Deleting => state[req[a].row] = "deleting"
    /\ req[a].step = "create_store" => network
    /\ req[a].step \in {"create_forget", "delete_forget"} => ~network

RequestInv == \A a \in Admin : RequestFacts(a)

\* One request at most works on the network.
Working(a) == req[a].step \in Creating \cup Deleting
OneWorker == \A a, b \in Admin : Working(a) /\ Working(b) => a = b

\* A source network of an open migration stays; one that does not say which it
\* leaves keeps whatever is there.
SourcesStay ==
    \A p \in pins :
        /\ p.source \in Row => state[p.source] = "available"
        /\ p.source = Unknown => \E r \in Row : state[r] = "available"

\* A guest on the network is known to the instance's row or a migration record.
Known(i) ==
    \/ ref[i] # NoRow
    \/ \E p \in pins : p.instance = i /\ (p.target # NoRow \/ p.source # NoRow)

GuestIsKnown == \A i \in Instance : i \in guest => Known(i)

\* What an operation knows of the reference, the record and the guest.
OperationFacts(i) ==
    /\ op[i].step \in {"create_reserve", "in_reserve", "in_import", "in_switch", "in_finish", "in_undo",
                       "in_close", "out_reserve", "out_switch", "out_delete", "out_close"} => op[i].row \in Row
    /\ op[i].step \in {"in_import", "in_switch"} => InPin(i) \in pins
    /\ op[i].step \in {"in_finish", "out_reserve", "out_switch"} => ref[i] = op[i].row
    /\ op[i].step = "create_call" => ref[i] # NoRow
    /\ op[i].step = "in_undo" => InPin(i) \in pins \/ ref[i] = op[i].row
    /\ op[i].step \in {"out_switch", "out_delete"} => OutPin(i) \in pins
    /\ op[i].step \in {"purge_release", "in_reserve", "in_import"} => i \notin guest
    /\ op[i].step \in {"idle", "create_reserve", "purge_call", "in_close", "out_close"} => (i \in guest => ref[i] # NoRow)

OperationInv == \A i \in Instance : OperationFacts(i)

VPCInv ==
    /\ TypeOK
    /\ OneRow
    /\ RequestInv
    /\ OneWorker
    /\ ReferencedIsAvailable
    /\ SourcesStay
    /\ AvailableIsOnNode
    /\ NetworkHasRow
    /\ GuestIsKnown
    /\ OperationInv
=============================================================================
